------------------------------- MODULE TimeWindow -------------------------------
(***************************************************************************)
(* Histories as the domain models keep them: a deque of timestamps, and    *)
(* beside it deques of samples, trimmed together to a window of time that  *)
(* ends with the newest timestamp (ProcessModel, SystemModel, StorageModel *)
(* and ProcessDetailsPanel each have a trimHistory of this kind).          *)
(***************************************************************************)
EXTENDS Integers, Sequences

\* How many entries trimHistory's loop removes from the front of ts: it stops
\* at the first one that is not older than the window.
TrimCount(ts, window) ==
    CHOOSE n \in 0 .. Len(ts) :
        /\ \A i \in 1..n : ts[i] < ts[Len(ts)] - window
        /\ n = Len(ts) \/ ts[n + 1] >= ts[Len(ts)] - window

\* n times pop_front, while there is anything to pop.
DropFront(s, n) == SubSeq(s, n + 1, Len(s))

\* pop_front while s is longer than n.
KeepLast(s, n) == IF Len(s) > n THEN DropFront(s, Len(s) - n) ELSE s

\* The smallest non-empty size that updateMin finds, of the sizes in lengths.
Shortest(lengths) ==
    IF lengths \subseteq {0} THEN 0
    ELSE CHOOSE m \in lengths \ {0} : \A n \in lengths \ {0} : m <= n

\* The order of a sequence of times, and the window its last one ends.
Increasing(ts) == \A i, j \in DOMAIN ts : i < j => ts[i] < ts[j]
Within(ts, window) == \A i \in DOMAIN ts : ts[Len(ts)] - ts[i] <= window
==============================================================================

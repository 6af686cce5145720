----------------------------- MODULE HistoryRing -----------------------------
(***************************************************************************)
(* Domain::History<T, Capacity> (src/src/Domain/History.h): the ring       *)
(* buffer behind every per-GPU history.  The class has no lock of its own; *)
(* its users hold theirs around every call, so a call is one step.         *)
(***************************************************************************)
EXTENDS Integers, Sequences

CONSTANTS Values,     \* the values of type T
          Default,    \* T{}
          Capacity

ASSUME RingAssumption == Capacity \in Nat \ {0} /\ Default \in Values

VARIABLES data,         \* m_Data
          writeIndex,   \* m_WriteIndex
          size          \* m_Size

ringVars == <<data, writeIndex, size>>

Slots == 0 .. Capacity - 1

\* The indices stay inside the array and, until the ring has filled up for the
\* first time, the next write goes behind the valid entries.
IndicesValid ==
    /\ data \in [Slots -> Values]
    /\ writeIndex \in Slots
    /\ size \in 0 .. Capacity
    /\ size < Capacity => writeIndex = size

RingInit ==
    /\ data = [i \in Slots |-> Default]
    /\ writeIndex = 0
    /\ size = 0

------------------------------------------------------------------------------
(* Faulty variants of operations below, for the properties to catch.       *)

\* The value is stored after the index has moved.
PushAfterAdvance(v) ==
    /\ writeIndex' = (writeIndex + 1) % Capacity
    /\ data' = [data EXCEPT ![writeIndex'] = v]
    /\ size' = IF size < Capacity THEN size + 1 ELSE size

\* copyTo() copies count entries in the second chunk, not the rest of them.
CopyToWholeSecondChunk(maxCount) ==
    LET count      == IF maxCount < size THEN maxCount ELSE size
        readStart  == (writeIndex + Capacity - size) % Capacity
        firstChunk == Capacity - readStart
        Run(from, n) == [i \in 1..n |-> data[from + i - 1]]
    IN  IF readStart + count <= Capacity
          THEN Run(readStart, count)
          ELSE Run(readStart, firstChunk) \o Run(0, count)

------------------------------------------------------------------------------
(* The operations.                                                         *)

Push(v) ==
    /\ data' = [data EXCEPT ![writeIndex] = v]
    /\ writeIndex' = (writeIndex + 1) % Capacity
    /\ size' = IF size < Capacity THEN size + 1 ELSE size

Clear ==
    /\ size' = 0
    /\ writeIndex' = 0
    /\ UNCHANGED data

\* operator[]: the entry with logical index k, 0 being the oldest.
At(k) == data[(writeIndex + Capacity - size + k) % Capacity]

Latest ==
    IF size = 0 THEN Default ELSE data[(writeIndex + Capacity - 1) % Capacity]

\* copyTo: what the caller's buffer holds afterwards, as one run of m_Data or
\* as the end of m_Data followed by its beginning.
CopyTo(maxCount) ==
    LET count      == IF maxCount < size THEN maxCount ELSE size
        readStart  == (writeIndex + Capacity - size) % Capacity
        firstChunk == Capacity - readStart
        Run(from, n) == [i \in 1..n |-> data[from + i - 1]]
    IN  IF readStart + count <= Capacity
          THEN Run(readStart, count)
          ELSE Run(readStart, firstChunk) \o Run(0, count - firstChunk)

RingNext == Clear \/ \E v \in Values : Push(v)

RingSpec == RingInit /\ [][RingNext]_ringVars

------------------------------------------------------------------------------
(* Properties.                                                             *)

\* The valid entries in the order operator[] shows them.
Contents == [k \in 1..size |-> At(k - 1)]

\* Through operator[] the ring is the last Capacity values pushed since the
\* last clear(), however often the write index has wrapped.
Bounded == INSTANCE BoundedHistory WITH items <- Contents
KeepsLast == Bounded!Spec

\* copyTo() and operator[] agree: a buffer of any length receives the oldest
\* entries in order, whether or not they wrap around the end of the array.
CopyMatches ==
    \A n \in 0 .. Capacity + 1 :
        CopyTo(n) = SubSeq(Contents, 1, IF n < size THEN n ELSE size)

\* latest() and operator[] agree, an empty ring giving the default value.
LatestMatches ==
    Latest = IF size = 0 THEN Default ELSE Contents[size]

\* The ways of reading the ring other than operator[] agree with it, and with
\* that with what was pushed (History.h).
ReadsAgree == IndicesValid /\ CopyMatches /\ LatestMatches
==============================================================================

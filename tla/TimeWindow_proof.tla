--------------------------- MODULE TimeWindow_proof ---------------------------
(***************************************************************************)
(* Lemmas about trimming, for every sequence of times and every window.    *)
(***************************************************************************)
EXTENDS TimeWindow, TLAPS, WellFoundedInduction

\* trimHistory's loop stops in front of the last entry at the latest, because
\* no window is negative.
LEMMA TrimCountStops ==
    ASSUME NEW ts \in Seq(Nat), ts # <<>>, NEW window \in Nat
    PROVE  LET n == TrimCount(ts, window)
           IN  /\ n \in 0 .. Len(ts) - 1
               /\ ts[n + 1] >= ts[Len(ts)] - window
<1> DEFINE cutoff == ts[Len(ts)] - window
           recent == {i \in Nat : i + 1 <= Len(ts) /\ ts[i + 1] >= cutoff}
           Stops(n) == /\ \A i \in 1..n : ts[i] < cutoff
                       /\ n = Len(ts) \/ ts[n + 1] >= cutoff
<1>1. Len(ts) \in Nat /\ Len(ts) >= 1 /\ ts[Len(ts)] \in Nat /\ cutoff \in Int
  OBVIOUS
<1>2. Len(ts) - 1 \in recent
  BY <1>1
<1>3. PICK n \in recent : \A m \in recent : ~(<<m, n>> \in OpToRel(<, Nat))
  <2>1. recent \subseteq Nat /\ recent # {}
    BY <1>2
  <2> HIDE DEF recent
  <2>. QED  BY <2>1, NatLessThanWellFounded, WFMin
<1>4. \A m \in recent : ~(m < n)
  BY <1>3 DEF OpToRel
<1>5. n \in 0 .. Len(ts) /\ Stops(n)
  <2>. n \in Nat /\ n + 1 <= Len(ts) /\ ts[n + 1] >= cutoff
    OBVIOUS
  <2>1. ASSUME NEW i \in 1..n PROVE ts[i] < cutoff
    <3>1. i - 1 \in Nat /\ i - 1 < n /\ (i - 1) + 1 = i /\ i <= Len(ts)
      BY <1>1
    <3>2. ~(ts[i] >= cutoff)
      BY <1>4, <3>1
    <3>. QED  BY <3>1, <3>2, <1>1
  <2>. QED  BY <2>1, <1>1
<1>6. TrimCount(ts, window) \in 0 .. Len(ts) /\ Stops(TrimCount(ts, window))
  BY <1>5 DEF TrimCount
<1>7. TrimCount(ts, window) # Len(ts)
  BY <1>6, <1>1
<1>. QED  BY <1>1, <1>6, <1>7

\* Dropping fewer entries than there are keeps the last one and the order.
LEMMA DropFrontFacts ==
    ASSUME NEW ts \in Seq(Nat), NEW n \in 0 .. Len(ts) - 1
    PROVE  LET kept == DropFront(ts, n)
           IN  /\ kept \in Seq(Nat)
               /\ Len(kept) = Len(ts) - n
               /\ Len(kept) \in Nat /\ Len(kept) >= 1
               /\ DOMAIN kept = 1 .. Len(kept)
               /\ \A i \in DOMAIN kept : n + i \in DOMAIN ts /\ kept[i] = ts[n + i]
               /\ kept # <<>>
               /\ kept[Len(kept)] = ts[Len(ts)]
<1>1. Len(ts) \in Nat /\ n \in Nat /\ n < Len(ts) /\ DOMAIN ts = 1 .. Len(ts)
  OBVIOUS
<1>2. /\ DropFront(ts, n) \in Seq(Nat)
      /\ Len(DropFront(ts, n)) = Len(ts) - n
      /\ \A i \in 1 .. Len(ts) - n : DropFront(ts, n)[i] = ts[n + i]
  BY <1>1 DEF DropFront
<1>3. PICK kept : kept = DropFront(ts, n)
  OBVIOUS
<1>4. /\ kept \in Seq(Nat)
      /\ Len(kept) = Len(ts) - n
      /\ \A i \in 1 .. Len(ts) - n : kept[i] = ts[n + i]
  BY <1>2, <1>3
<1>5. DOMAIN kept = 1 .. Len(kept) /\ kept # <<>> /\ Len(kept) \in Nat /\ Len(kept) >= 1
  <2>1. DOMAIN kept = 1 .. Len(kept)
    BY <1>4
  <2>2. Len(ts) - n \in Nat /\ Len(ts) - n >= 1
    BY <1>1
  <2>3. Len(kept) \in Nat /\ Len(kept) >= 1
    BY <1>4, <2>2
  <2>. QED  BY <2>1, <2>3
<1>6. ASSUME NEW i \in DOMAIN kept
      PROVE  n + i \in DOMAIN ts /\ kept[i] = ts[n + i]
  <2>1. i \in 1 .. Len(ts) - n
    BY <1>4, <1>5
  <2>2. n + i \in 1 .. Len(ts)
    BY <2>1, <1>1
  <2>. QED  BY <2>1, <2>2, <1>1, <1>4
<1>7. kept[Len(kept)] = ts[Len(ts)]
  <2>1. Len(ts) - n \in 1 .. Len(ts) - n /\ n + (Len(ts) - n) = Len(ts)
    BY <1>1
  <2>. QED  BY <2>1, <1>4
<1>. QED  BY <1>3, <1>4, <1>5, <1>6, <1>7

\* What is left after trimHistory: the newest entry and, in order, every entry
\* that is not older than the window.
LEMMA TrimKeepsNewest ==
    ASSUME NEW ts \in Seq(Nat), ts # <<>>, Increasing(ts), NEW window \in Nat
    PROVE  LET kept == DropFront(ts, TrimCount(ts, window))
           IN  /\ kept \in Seq(Nat)
               /\ kept # <<>>
               /\ kept[Len(kept)] = ts[Len(ts)]
               /\ \A i \in DOMAIN kept : \E j \in DOMAIN ts : kept[i] = ts[j]
               /\ Increasing(kept)
               /\ Within(kept, window)
<1>1. PICK n \in 0 .. Len(ts) - 1 : /\ n = TrimCount(ts, window)
                                    /\ ts[n + 1] >= ts[Len(ts)] - window
  BY TrimCountStops
<1>2. Len(ts) \in Nat /\ n \in Nat /\ DOMAIN ts = 1 .. Len(ts)
  OBVIOUS
<1>3. PICK kept : /\ kept = DropFront(ts, n)
                  /\ kept \in Seq(Nat)
                  /\ Len(kept) \in Nat /\ Len(kept) >= 1
                  /\ DOMAIN kept = 1 .. Len(kept)
                  /\ \A i \in DOMAIN kept : n + i \in DOMAIN ts /\ kept[i] = ts[n + i]
                  /\ kept # <<>>
                  /\ kept[Len(kept)] = ts[Len(ts)]
  BY DropFrontFacts
<1>4. Increasing(kept)
  BY <1>2, <1>3 DEF Increasing
<1>5. Within(kept, window)
  <2> SUFFICES ASSUME NEW i \in DOMAIN kept
               PROVE  kept[Len(kept)] - kept[i] <= window
    BY DEF Within
  <2>1. /\ n + 1 \in DOMAIN ts /\ n + i \in DOMAIN ts
        /\ i = 1 \/ n + 1 < n + i
    BY <1>2, <1>3
  <2>2. ts[n + 1] <= ts[n + i] /\ ts[n + 1] \in Nat /\ ts[n + i] \in Nat
    BY <2>1 DEF Increasing
  <2>3. ts[Len(ts)] \in Nat
    BY <1>2
  <2>4. kept[i] = ts[n + i] /\ kept[Len(kept)] = ts[Len(ts)]
    BY <1>3
  <2>5. ts[Len(ts)] - ts[n + i] <= window
    BY <1>1, <2>2, <2>3
  <2>. QED  BY <2>4, <2>5
<1>. QED  BY <1>1, <1>3, <1>4, <1>5

\* A refresh appends a time later than all before it.
LEMMA AppendKeepsOrder ==
    ASSUME NEW ts \in Seq(Nat), NEW now \in Nat, Increasing(ts),
           \A i \in DOMAIN ts : ts[i] < now
    PROVE  LET new == Append(ts, now)
           IN  /\ new \in Seq(Nat)
               /\ new # <<>>
               /\ new[Len(new)] = now
               /\ \A i \in DOMAIN new : new[i] <= now
               /\ Increasing(new)
<1> DEFINE new == Append(ts, now)
<1>1. /\ new \in Seq(Nat)
      /\ Len(new) = Len(ts) + 1
      /\ \A i \in 1 .. Len(ts) : new[i] = ts[i]
      /\ new[Len(ts) + 1] = now
  OBVIOUS
<1> HIDE DEF new
<1>2. \A i \in DOMAIN new : i \in DOMAIN ts \/ i = Len(ts) + 1
  BY <1>1
<1>. QED  BY <1>1, <1>2 DEF new, Increasing

\* Dropping from the front shortens by that many, to nothing at the most.
LEMMA DropFrontLength ==
    ASSUME NEW S, NEW s \in Seq(S), NEW n \in Nat
    PROVE  /\ DropFront(s, n) \in Seq(S)
           /\ Len(DropFront(s, n)) = IF n <= Len(s) THEN Len(s) - n ELSE 0
  BY DEF DropFront

\* Truncation keeps the newest n entries, or all when there are fewer.
LEMMA KeepLastLength ==
    ASSUME NEW S, NEW s \in Seq(S), NEW n \in Nat
    PROVE  /\ KeepLast(s, n) \in Seq(S)
           /\ Len(KeepLast(s, n)) = IF Len(s) > n THEN n ELSE Len(s)
<1>1. CASE Len(s) > n
  <2>1. Len(s) - n \in Nat /\ Len(s) - n <= Len(s) /\ Len(s) - (Len(s) - n) = n
    BY <1>1
  <2>2. PICK k \in Nat : k = Len(s) - n
    BY <2>1
  <2>3. DropFront(s, k) \in Seq(S) /\ Len(DropFront(s, k)) = n
    BY <2>1, <2>2, DropFrontLength
  <2>. QED  BY <1>1, <2>2, <2>3 DEF KeepLast
<1>2. CASE ~(Len(s) > n)
  BY <1>2 DEF KeepLast
<1>. QED  BY <1>1, <1>2

\* Truncation to one entry or more keeps the newest.
LEMMA KeepLastKeepsNewest ==
    ASSUME NEW ts \in Seq(Nat), ts # <<>>, NEW n \in Nat, n >= 1
    PROVE  KeepLast(ts, n) # <<>>
           /\ KeepLast(ts, n)[Len(KeepLast(ts, n))] = ts[Len(ts)]
<1>1. CASE Len(ts) > n
  <2>1. PICK k \in 0 .. Len(ts) - 1 : k = Len(ts) - n
    BY <1>1
  <2>2. DropFront(ts, k) # <<>>
        /\ DropFront(ts, k)[Len(DropFront(ts, k))] = ts[Len(ts)]
    BY DropFrontFacts
  <2>. QED  BY <1>1, <2>1, <2>2 DEF KeepLast
<1>2. CASE ~(Len(ts) > n)
  BY <1>2 DEF KeepLast
<1>. QED  BY <1>1, <1>2
==============================================================================

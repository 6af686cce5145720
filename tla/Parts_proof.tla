------------------------------ MODULE Parts_proof ------------------------------
(* The history ring, the shares of CPU time, the battery's estimates, the     *)
(* formats and the table of processes, for every capacity and set of values,  *)
(* every width of the counters and number of ticks, every battery and number  *)
(* of its changes, every size, mask and calendar, and any processes.          *)
EXTENDS HistoryRing, CpuUsage, LinuxPowerProbe, Format, ProcessesPanel,
        FiniteSetTheorems, SequenceTheorems, WellFoundedInduction, TLAPS

\* The only modulus the ring takes is of a number below twice the capacity.
LEMMA ModOnce ==
    ASSUME NEW a \in Nat, a < 2 * Capacity
    PROVE  a % Capacity = IF a < Capacity THEN a ELSE a - Capacity
  BY RingAssumption

LEMMA NextIndex ==
    ASSUME NEW i \in Slots
    PROVE  (i + 1) % Capacity = IF i + 1 < Capacity THEN i + 1 ELSE 0
<1>1. /\ i + 1 \in Nat
      /\ i + 1 < 2 * Capacity
      /\ i + 1 < Capacity \/ i + 1 = Capacity
  BY RingAssumption DEF Slots
<1>2. (i + 1) % Capacity = IF i + 1 < Capacity THEN i + 1 ELSE (i + 1) - Capacity
  BY <1>1, ModOnce
<1>. QED  BY <1>1, <1>2, RingAssumption

\* The indices never leave the array, and the ring fills up from slot 0.
THEOREM TypeCorrect == RingSpec => []IndicesValid
<1>1. RingInit => IndicesValid
  BY RingAssumption DEF RingInit, IndicesValid, Slots
<1>2. IndicesValid /\ [RingNext]_ringVars => IndicesValid'
  <2> SUFFICES ASSUME IndicesValid, [RingNext]_ringVars PROVE IndicesValid'
    OBVIOUS
  <2> USE RingAssumption DEF IndicesValid, Slots
  <2>1. CASE Clear
    BY <2>1 DEF Clear
  <2>2. ASSUME NEW v \in Values, Push(v) PROVE IndicesValid'
    <3>1. writeIndex' = IF writeIndex + 1 < Capacity THEN writeIndex + 1 ELSE 0
      BY <2>2, NextIndex DEF Push
    <3>2. data' \in [Slots -> Values]
      BY <2>2 DEF Push
    <3>3. /\ writeIndex' \in Slots
          /\ size' \in 0 .. Capacity
          /\ size' < Capacity => writeIndex' = size'
      BY <2>2, <3>1 DEF Push
    <3>. QED  BY <3>2, <3>3
  <2>3. CASE UNCHANGED ringVars
    BY <2>3 DEF ringVars
  <2>. QED  BY <2>1, <2>2, <2>3 DEF RingNext
<1>. QED  BY <1>1, <1>2, PTL DEF RingSpec

------------------------------------------------------------------------------
(* The refinement of BoundedHistory.                                       *)

\* The slot of logical index k, without a modulus.
Slot(k) ==
    LET s == writeIndex + Capacity - size + k
    IN  IF s < Capacity THEN s ELSE s - Capacity

LEMMA AtSlot ==
    ASSUME IndicesValid, NEW k \in 0 .. size - 1
    PROVE  At(k) = data[Slot(k)] /\ Slot(k) \in Slots
<1> DEFINE s == writeIndex + Capacity - size + k
<1>1. s \in Nat /\ s < 2 * Capacity
  BY RingAssumption DEF IndicesValid, Slots
<1>2. s % Capacity = IF s < Capacity THEN s ELSE s - Capacity
  BY <1>1, ModOnce
<1>3. Slot(k) \in Slots
  BY <1>1, RingAssumption DEF Slot, Slots
<1>. QED  BY <1>2, <1>3 DEF At, Slot

\* The indices that push leaves behind, as functions of those it finds.
NextWrite == IF writeIndex + 1 < Capacity THEN writeIndex + 1 ELSE 0
NextSize  == IF size < Capacity THEN size + 1 ELSE size
NextSlot(k) ==
    LET s == NextWrite + Capacity - NextSize + k
    IN  IF s < Capacity THEN s ELSE s - Capacity

LEMMA NextSlots ==
    ASSUME IndicesValid, NEW k \in 0 .. NextSize - 1
    PROVE  /\ NextSlot(k) = (NextWrite + Capacity - NextSize + k) % Capacity
           /\ NextSlot(k) = IF k = NextSize - 1 THEN writeIndex
                            ELSE IF size < Capacity THEN Slot(k) ELSE Slot(k + 1)
           /\ k # NextSize - 1 => NextSlot(k) # writeIndex
<1> DEFINE s == NextWrite + Capacity - NextSize + k
<1>1. s \in Nat /\ s < 2 * Capacity
  BY RingAssumption DEF IndicesValid, Slots, NextWrite, NextSize
<1>2. s % Capacity = IF s < Capacity THEN s ELSE s - Capacity
  BY <1>1, ModOnce
<1>3. NextSlot(k) = s % Capacity
  BY <1>2 DEF NextSlot
<1>4. CASE k = NextSize - 1
  BY <1>4, RingAssumption DEF NextSlot, NextWrite, NextSize, IndicesValid, Slots
<1>5. CASE k # NextSize - 1
  BY <1>5, RingAssumption DEF NextSlot, Slot, NextWrite, NextSize, IndicesValid, Slots
<1>. QED  BY <1>3, <1>4, <1>5

\* What push does to operator[]: while the ring fills up every entry keeps its
\* index, afterwards every entry moves down by one; the new value is the last.
LEMMA PushShifts ==
    ASSUME IndicesValid, NEW v \in Values, Push(v), NEW k \in 0 .. NextSize - 1
    PROVE  At(k)' = IF k = NextSize - 1 THEN v
                    ELSE IF size < Capacity THEN At(k) ELSE At(k + 1)
<1>1. writeIndex' = NextWrite /\ size' = NextSize
  BY NextIndex DEF Push, IndicesValid, NextWrite, NextSize
<1>2. At(k)' = data'[NextSlot(k)]
  BY <1>1, NextSlots DEF At
<1>3. data' = [data EXCEPT ![writeIndex] = v] /\ data \in [Slots -> Values]
  BY DEF Push, IndicesValid
<1>4. CASE k = NextSize - 1
  BY <1>2, <1>3, <1>4, NextSlots DEF IndicesValid
<1>5. CASE k # NextSize - 1 /\ size < Capacity
  <2>1. k \in 0 .. size - 1
    BY <1>5, RingAssumption DEF IndicesValid, NextSize
  <2>. QED  BY <1>2, <1>3, <1>5, <2>1, NextSlots, AtSlot DEF IndicesValid
<1>6. CASE k # NextSize - 1 /\ ~(size < Capacity)
  <2>1. k + 1 \in 0 .. size - 1
    BY <1>6, RingAssumption DEF IndicesValid, NextSize
  <2>2. At(k + 1) = data[Slot(k + 1)] /\ Slot(k + 1) \in Slots
    BY <2>1, AtSlot
  <2>. QED  BY <1>2, <1>3, <1>6, <2>2, NextSlots DEF IndicesValid
<1>. QED  BY <1>4, <1>5, <1>6

LEMMA ContentsType ==
    ASSUME IndicesValid
    PROVE  /\ Contents \in Seq(Values)
           /\ Len(Contents) = size
           /\ \A k \in 1..size : Contents[k] = At(k - 1)
<1>1. \A k \in 1..size : At(k - 1) \in Values
  <2> TAKE k \in 1..size
  <2>1. k - 1 \in 0 .. size - 1
    BY DEF IndicesValid
  <2>. QED  BY <2>1, AtSlot DEF IndicesValid
<1>2. size \in Nat
  BY RingAssumption DEF IndicesValid
<1>. QED  BY <1>1, <1>2 DEF Contents

\* The ring, seen through operator[], is a bounded history: for every capacity
\* and any sequence of push and clear, wrapped or not, exactly the last
\* Capacity values pushed since the last clear, in order.
THEOREM RingImplementsBoundedHistory == RingSpec => KeepsLast
<1>1. RingInit => Bounded!Init
  BY DEF RingInit, Bounded!Init, Contents
<1>2. IndicesValid /\ [RingNext]_ringVars => [Bounded!Next]_Contents
  <2> SUFFICES ASSUME IndicesValid, [RingNext]_ringVars PROVE [Bounded!Next]_Contents
    OBVIOUS
  <2>1. CASE Clear
    <3>1. Contents' = <<>>
      BY <2>1 DEF Clear, Contents
    <3>. QED  BY <3>1 DEF Bounded!Next, Bounded!Clear
  <2>2. ASSUME NEW v \in Values, Push(v) PROVE Bounded!Push(v)
    <3> DEFINE kept == IF Len(Contents) < Capacity THEN Contents ELSE Tail(Contents)
               pushed == Append(kept, v)
    <3>1. /\ Contents \in Seq(Values)
          /\ Len(Contents) = size
          /\ \A k \in 1..size : Contents[k] = At(k - 1)
      BY ContentsType
    <3>2. size \in Nat /\ size <= Capacity /\ Capacity \in Nat /\ Capacity >= 1
      BY RingAssumption DEF IndicesValid
    <3>3. size' = NextSize /\ NextSize \in Nat /\ NextSize >= 1
      BY <2>2, <3>2 DEF Push, NextSize
    <3>4. /\ kept \in Seq(Values)
          /\ Len(kept) = NextSize - 1
          /\ \A k \in 1 .. NextSize - 1 :
                kept[k] = IF size < Capacity THEN At(k - 1) ELSE At(k)
      <4>1. CASE size < Capacity
        BY <3>1, <3>2, <4>1 DEF NextSize
      <4>2. CASE ~(size < Capacity)
        <5>1. Contents # <<>> /\ size = Capacity /\ NextSize = size
          BY <3>1, <3>2, <4>2 DEF NextSize
        <5>2. /\ Tail(Contents) \in Seq(Values)
              /\ Len(Tail(Contents)) = size - 1
              /\ \A k \in 1 .. size - 1 : Tail(Contents)[k] = Contents[k + 1]
          BY <3>1, <5>1
        <5>3. \A k \in 1 .. size - 1 : Contents[k + 1] = At(k)
          <6> TAKE k \in 1 .. size - 1
          <6>1. k + 1 \in 1..size /\ (k + 1) - 1 = k
            BY <3>2
          <6>. QED  BY <3>1, <6>1
        <5>. QED  BY <3>1, <4>2, <5>1, <5>2, <5>3
      <4>. QED  BY <4>1, <4>2
    <3>5. /\ pushed \in Seq(Values)
          /\ Len(pushed) = NextSize
          /\ \A k \in 1 .. NextSize - 1 : pushed[k] = kept[k]
          /\ pushed[NextSize] = v
      <4> HIDE DEF kept
      <4>. QED  BY <3>3, <3>4
    <3>6. Contents' = [k \in 1..NextSize |-> At(k - 1)']
      BY <3>3 DEF Contents
    <3>7. \A k \in 1..NextSize : At(k - 1)' = pushed[k]
      <4> TAKE k \in 1..NextSize
      <4>1. k - 1 \in 0 .. NextSize - 1
        BY <3>3
      <4>2. At(k - 1)' = IF k - 1 = NextSize - 1 THEN v
                         ELSE IF size < Capacity THEN At(k - 1) ELSE At((k - 1) + 1)
        BY <2>2, <4>1, PushShifts
      <4> HIDE DEF kept, pushed
      <4>3. CASE k = NextSize
        BY <3>3, <3>5, <4>2, <4>3
      <4>4. CASE k # NextSize
        <5>1. k \in 1 .. NextSize - 1 /\ (k - 1) + 1 = k /\ k - 1 # NextSize - 1
          BY <3>3, <4>4
        <5>. QED  BY <3>4, <3>5, <4>2, <5>1
      <4>. QED  BY <4>3, <4>4
    <3>8. Contents' = pushed
      <4> HIDE DEF pushed
      <4>1. pushed = [k \in 1..NextSize |-> pushed[k]]
        BY <3>5
      <4>. QED  BY <3>6, <3>7, <4>1
    <3>. QED  BY <3>8 DEF Bounded!Push
  <2>3. CASE UNCHANGED ringVars
    BY <2>3 DEF ringVars, Contents, At
  <2>. QED  BY <2>1, <2>2, <2>3 DEF RingNext, Bounded!Next
<1>. QED  BY <1>1, <1>2, TypeCorrect, PTL DEF RingSpec, KeepsLast, Bounded!Spec

------------------------------------------------------------------------------
(* copyTo() and latest().                                                  *)

ReadStart == (writeIndex + Capacity - size) % Capacity

\* Logical index k lies k slots behind readStart, wrapped once at most.
LEMMA SlotFromStart ==
    ASSUME IndicesValid
    PROVE  /\ ReadStart \in Slots
           /\ \A k \in 0 .. size - 1 :
                 Slot(k) = IF ReadStart + k < Capacity THEN ReadStart + k
                           ELSE ReadStart + k - Capacity
<1> DEFINE s == writeIndex + Capacity - size
<1>1. s \in Nat /\ s < 2 * Capacity
  BY RingAssumption DEF IndicesValid, Slots
<1>2. ReadStart = IF s < Capacity THEN s ELSE s - Capacity
  BY <1>1, ModOnce DEF ReadStart
<1>. QED  BY <1>1, <1>2, RingAssumption DEF IndicesValid, Slots, Slot

\* The entry with logical index i - 1, found by counting from readStart.
LEMMA EntryFromStart ==
    ASSUME IndicesValid, NEW i \in 1 .. size
    PROVE  /\ ReadStart + i <= Capacity => Contents[i] = data[ReadStart + i - 1]
           /\ ReadStart + i > Capacity =>
                 Contents[i] = data[i - (Capacity - ReadStart) - 1]
<1>1. /\ size \in Nat /\ Capacity \in Nat
      /\ i - 1 \in 0 .. size - 1
  BY RingAssumption DEF IndicesValid
<1>2. Contents[i] = data[Slot(i - 1)]
  BY <1>1, ContentsType, AtSlot
<1>3. ReadStart \in Nat
  BY SlotFromStart, RingAssumption DEF Slots
<1>4. Slot(i - 1) = IF ReadStart + (i - 1) < Capacity THEN ReadStart + (i - 1)
                    ELSE ReadStart + (i - 1) - Capacity
  BY <1>1, SlotFromStart
<1>5. CASE ReadStart + i <= Capacity
  <2>1. Slot(i - 1) = ReadStart + i - 1
    BY <1>1, <1>3, <1>4, <1>5
  <2>. QED  BY <1>1, <1>2, <1>3, <1>5, <2>1
<1>6. CASE ReadStart + i > Capacity
  <2>1. Slot(i - 1) = i - (Capacity - ReadStart) - 1
    BY <1>1, <1>3, <1>4, <1>6
  <2>. QED  BY <1>1, <1>2, <1>3, <1>6, <2>1
<1>. QED  BY <1>1, <1>3, <1>5, <1>6

\* A buffer of any length receives the oldest entries, wrapped or not.
LEMMA CopyOldest ==
    ASSUME IndicesValid, NEW n \in Nat
    PROVE  CopyTo(n) = SubSeq(Contents, 1, IF n < size THEN n ELSE size)
<1> DEFINE count == IF n < size THEN n ELSE size
           first == Capacity - ReadStart
           Run(from, m) == [i \in 1..m |-> data[from + i - 1]]
           oldest == SubSeq(Contents, 1, count)
<1>1. /\ size \in Nat /\ Capacity \in Nat /\ ReadStart \in Nat
      /\ ReadStart < Capacity /\ count \in Nat /\ count <= size
  BY SlotFromStart, RingAssumption DEF IndicesValid, Slots
<1>2. /\ Contents \in Seq(Values) /\ Len(Contents) = size
  BY ContentsType
<1>3. /\ oldest \in Seq(Values) /\ Len(oldest) = count
      /\ \A i \in 1..count : oldest[i] = Contents[i]
  BY <1>1, <1>2
<1>4. CopyTo(n) = IF ReadStart + count <= Capacity THEN Run(ReadStart, count)
                  ELSE Run(ReadStart, first) \o Run(0, count - first)
  BY DEF CopyTo, ReadStart
<1> HIDE DEF count, oldest
<1>5. CASE ReadStart + count <= Capacity
  <2>1. \A i \in 1..count : Contents[i] = data[ReadStart + i - 1]
    <3> TAKE i \in 1..count
    <3>1. i \in 1..size /\ ReadStart + i <= Capacity
      BY <1>1, <1>5
    <3>. QED  BY <3>1, EntryFromStart
  <2>2. oldest = [i \in 1..count |-> oldest[i]]
    BY <1>1, <1>3
  <2>3. Run(ReadStart, count) = [i \in 1..count |-> oldest[i]]
    BY <1>3, <2>1
  <2>. QED  BY <1>4, <1>5, <2>2, <2>3 DEF count, oldest
<1>6. CASE ~(ReadStart + count <= Capacity)
  <2>1. /\ first \in Nat /\ first < count /\ count - first \in Nat
    BY <1>1, <1>6
  <2> DEFINE one == Run(ReadStart, first)
             two == Run(0, count - first)
  <2>2. \A i \in 1..first : one[i] = oldest[i]
    <3> TAKE i \in 1..first
    <3>1. i \in 1..size /\ i \in 1..count /\ ReadStart + i <= Capacity
      BY <1>1, <2>1
    <3>. QED  BY <1>3, <3>1, EntryFromStart
  <2>3. \A j \in 1 .. count - first : two[j] = oldest[first + j]
    <3> TAKE j \in 1 .. count - first
    <3>1. /\ first + j \in 1..size /\ first + j \in 1..count
          /\ ReadStart + (first + j) > Capacity
          /\ (first + j) - first - 1 = 0 + j - 1
      BY <1>1, <2>1
    <3>2. Contents[first + j] = data[(first + j) - first - 1]
      BY <3>1, EntryFromStart
    <3>. QED  BY <1>3, <3>1, <3>2
  <2>4. /\ one \in Seq(Values) /\ Len(one) = first
        /\ two \in Seq(Values) /\ Len(two) = count - first
    <3>1. \A i \in 1..first : one[i] \in Values
      BY <1>3, <2>1, <2>2
    <3>2. \A j \in 1 .. count - first : two[j] \in Values
      <4> TAKE j \in 1 .. count - first
      <4>1. first + j \in 1..count
        BY <1>1, <2>1
      <4>. QED  BY <1>3, <2>3, <4>1
    <3>. QED  BY <2>1, <3>1, <3>2
  <2> HIDE DEF one, two, first
  <2>5. /\ one \o two \in Seq(Values) /\ Len(one \o two) = count
        /\ \A i \in 1..count :
              (one \o two)[i] = IF i <= first THEN one[i] ELSE two[i - first]
    BY <1>1, <2>1, <2>4
  <2>6. \A i \in 1..count : (one \o two)[i] = oldest[i]
    <3> TAKE i \in 1..count
    <3>1. CASE i <= first
      BY <1>1, <2>1, <2>2, <2>5, <3>1
    <3>2. CASE ~(i <= first)
      <4>1. i - first \in 1 .. count - first /\ first + (i - first) = i
        BY <1>1, <2>1, <3>2
      <4>. QED  BY <2>3, <2>5, <3>2, <4>1
    <3>. QED  BY <3>1, <3>2
  <2>7. one \o two = oldest
    BY <1>1, <1>3, <2>5, <2>6
  <2>. QED  BY <1>4, <1>6, <2>7 DEF one, two, first, count, oldest
<1>. QED  BY <1>5, <1>6

\* Every way of reading the ring shows the same entries, for every capacity
\* and every length of the caller's buffer.
THEOREM ReadsAlwaysAgree == RingSpec => []ReadsAgree
<1>1. IndicesValid => CopyMatches
  <2> SUFFICES ASSUME IndicesValid, NEW n \in 0 .. Capacity + 1
               PROVE  CopyTo(n) = SubSeq(Contents, 1, IF n < size THEN n ELSE size)
    BY DEF CopyMatches
  <2>. QED  BY CopyOldest, RingAssumption
<1>2. IndicesValid => LatestMatches
  <2> SUFFICES ASSUME IndicesValid, size # 0 PROVE Latest = Contents[size]
    BY DEF LatestMatches, Latest
  <2>1. /\ size \in Nat /\ Capacity \in Nat /\ size \in 1..size
        /\ size - 1 \in 0 .. size - 1
    BY RingAssumption DEF IndicesValid
  <2>2. Contents[size] = At(size - 1)
    BY <2>1, ContentsType
  <2>3. writeIndex + Capacity - size + (size - 1) = writeIndex + Capacity - 1
    BY <2>1 DEF IndicesValid, Slots
  <2>. QED  BY <2>2, <2>3 DEF Latest, At
<1>. QED  BY <1>1, <1>2, TypeCorrect, PTL DEF ReadsAgree

-----------------------------------------------------------------------------
(* The shares of CPU time.                                                   *)

(* What a counter has gained since the last sample: a guest's tick counts as  *)
(* user (or nice) time too, and iowait may have been taken back once.         *)
Gained(s, t) ==
    [m \in Modes |-> CASE m = "user" -> s["user"] + s["guest"]
                       [] m = "nice" -> s["nice"] + s["guestNice"]
                       [] m = "iowait" -> s["iowait"] - (IF t THEN 1 ELSE 0)
                       [] OTHER -> s[m]]

(* Each counter is what was sampled and what it has gained since, modulo its  *)
(* range, which one interval's ticks do not exhaust.                          *)
CpuInv ==
    /\ ticks \in 0..MaxTicks /\ taken \in BOOLEAN
    /\ cpu \in [Modes -> 0 .. Word - 1] /\ previous \in [Modes -> 0 .. Word - 1]
    /\ spent \in [Modes -> Nat] /\ Elapsed(spent) <= ticks
    /\ \A m \in Modes : cpu[m] = (previous[m] + Gained(spent, taken)[m]) % Word

-----------------------------------------------------------------------------
(* Remainders.                                                               *)

LEMMA WordIs == Word \in Nat /\ Word >= 3 /\ MaxTicks \in Nat /\ 2 * MaxTicks < Word
  BY CpuUsageAssumption

LEMMA Division ==
    ASSUME NEW w \in Nat \ {0}, NEW a \in Int
    PROVE  a = w * (a \div w) + (a % w)
  OBVIOUS

LEMMA DivisionInts ==
    ASSUME NEW w \in Nat \ {0}, NEW a \in Int
    PROVE  a % w \in 0 .. w - 1 /\ a \div w \in Int
  OBVIOUS

LEMMA RemainderLeaves ==
    ASSUME NEW a \in Int
    PROVE  a % Word \in 0 .. Word - 1 /\ \E k \in Int : a = (a % Word) + k * Word
<1>1. Word \in Nat \ {0}
  BY WordIs
<1>2. PICK r, k : r = a % Word /\ k = a \div Word
  OBVIOUS
<1>3. r \in 0 .. Word - 1 /\ k \in Int /\ a = Word * k + r
  BY <1>1, <1>2, Division, DivisionInts
<1>4. a = r + k * Word
  BY <1>1, <1>3
<1>. QED  BY <1>2, <1>3, <1>4

LEMMA RemainderIsUnique ==
    ASSUME NEW r \in 0 .. Word - 1, NEW k \in Int
    PROVE  (r + k * Word) % Word = r
<1>. Word \in Nat \ {0}
  BY WordIs
<1>. QED  OBVIOUS

(* Whole rounds of a counter do not change what it shows. *)
LEMMA RoundsDoNotShow ==
    ASSUME NEW a \in Int, NEW k \in Int
    PROVE  (a + k * Word) % Word = a % Word
<1>1. PICK r \in 0 .. Word - 1, j \in Int : r = a % Word /\ a = r + j * Word
  BY RemainderLeaves
<1>2. Word \in Nat
  BY WordIs
<1>3. a + k * Word = r + (j + k) * Word
  BY <1>1, <1>2
<1>. QED  BY <1>1, <1>3, RemainderIsUnique

LEMMA AddToRemainder ==
    ASSUME NEW a \in Int, NEW b \in Int
    PROVE  ((a % Word) + b) % Word = (a + b) % Word
<1>1. PICK r \in 0 .. Word - 1, j \in Int : r = a % Word /\ a = r + j * Word
  BY RemainderLeaves
<1>2. r \in Int /\ r + b \in Int
  BY WordIs
<1>3. PICK m \in Int : m = j * Word
  BY WordIs
<1>4. a + b = (r + b) + m
  BY <1>1, <1>2, <1>3
<1>5. ((r + b) + m) % Word = (r + b) % Word
  BY <1>2, <1>3, RoundsDoNotShow
<1>. QED  BY <1>1, <1>4, <1>5

(* A difference of readings is what was gained, if less than the range. *)
LEMMA DifferenceIsGain ==
    ASSUME NEW a \in Int, NEW b \in Int, NEW d \in 0 .. Word - 1, a - b = d
    PROVE  ((a % Word) - (b % Word)) % Word = d
<1>1. PICK r \in 0 .. Word - 1, j \in Int : r = a % Word /\ a = r + j * Word
  BY RemainderLeaves
<1>2. PICK q \in 0 .. Word - 1, k \in Int : q = b % Word /\ b = q + k * Word
  BY RemainderLeaves
<1>3. Word \in Nat /\ r \in Int /\ q \in Int /\ d \in Int
  BY WordIs
<1>4. PICK m \in Int, n \in Int : m = j * Word /\ n = k * Word
  BY <1>3
<1>5. (k - j) * Word = n - m
  BY <1>3, <1>4
<1>6. r - q = d + (n - m)
  <2>1. a = r + m /\ b = q + n
    BY <1>1, <1>2, <1>4
  <2>. QED  BY ONLY <1>3, <2>1, a \in Int, b \in Int, a - b = d, m \in Int, n \in Int
<1>7. PICK i \in Int : i = k - j
  OBVIOUS
<1>8. (d + i * Word) % Word = d
  BY <1>7, RemainderIsUnique
<1>9. r - q = d + i * Word
  BY <1>5, <1>6, <1>7
<1>. QED  BY <1>1, <1>2, <1>8, <1>9

-----------------------------------------------------------------------------
(* Sums over the modes.                                                      *)

LEMMA ElapsedType ==
    ASSUME NEW f \in [Modes -> Int]
    PROVE  Elapsed(f) \in Int
  BY DEF Elapsed, Modes

LEMMA ElapsedAdds ==
    ASSUME NEW f \in [Modes -> Int], NEW g \in [Modes -> Int]
    PROVE  Elapsed([m \in Modes |-> f[m] + g[m]]) = Elapsed(f) + Elapsed(g)
  BY DEF Elapsed, Modes

LEMMA Distributes ==
    ASSUME NEW a \in Int, NEW b \in Int, NEW c \in Int, NEW d \in Int, NEW e \in Int,
           NEW f \in Int, NEW g \in Int, NEW h \in Int, NEW i \in Int, NEW j \in Int, NEW w \in Int
    PROVE  a * w + b * w + c * w + d * w + e * w + f * w + g * w + h * w + i * w + j * w
             = (a + b + c + d + e + f + g + h + i + j) * w
  OBVIOUS

LEMMA ElapsedScales ==
    ASSUME NEW f \in [Modes -> Int], NEW w \in Int
    PROVE  Elapsed([m \in Modes |-> f[m] * w]) = Elapsed(f) * w
<1>1. PICK a \in Int, b \in Int, c \in Int, d \in Int, e \in Int,
           g \in Int, h \in Int, i \in Int, j \in Int, k \in Int :
        /\ a = f["user"] /\ b = f["nice"] /\ c = f["system"] /\ d = f["idle"] /\ e = f["iowait"]
        /\ g = f["irq"] /\ h = f["softirq"] /\ i = f["steal"] /\ j = f["guest"] /\ k = f["guestNice"]
  BY DEF Modes
<1>2. Elapsed([m \in Modes |-> f[m] * w])
        = a * w + b * w + c * w + d * w + e * w + g * w + h * w + i * w + j * w + k * w
  BY <1>1 DEF Elapsed, Modes
<1>3. Elapsed(f) = a + b + c + d + e + g + h + i + j + k
  BY <1>1 DEF Elapsed
<1>4. a * w + b * w + c * w + d * w + e * w + g * w + h * w + i * w + j * w + k * w
        = (a + b + c + d + e + g + h + i + j + k) * w
  BY Distributes
<1>. QED  BY <1>2, <1>3, <1>4

(* A sum of remainders is the sum, but for whole rounds. *)
LEMMA SumOfRemainders ==
    ASSUME NEW f \in [Modes -> Int], NEW c \in [Modes -> Int], \A m \in Modes : c[m] = f[m] % Word
    PROVE  Elapsed(c) % Word = Elapsed(f) % Word
<1>1. PICK k : k = [m \in Modes |-> f[m] \div Word]
  OBVIOUS
<1>2. k \in [Modes -> Int]
  <2>1. \A m \in Modes : f[m] \div Word \in Int
    BY WordIs, DivisionInts
  <2>. QED  BY <1>1, <2>1
<1>3. PICK w : w = [m \in Modes |-> k[m] * Word]
  OBVIOUS
<1>4. w \in [Modes -> Int] /\ Elapsed(w) = Elapsed(k) * Word
  <2>1. Word \in Int
    BY WordIs
  <2>2. \A m \in Modes : k[m] * Word \in Int
    BY <1>2, <2>1
  <2>. QED  BY <1>2, <1>3, <2>1, <2>2, ElapsedScales
<1>5. \A m \in Modes : f[m] = c[m] + w[m]
  <2> SUFFICES ASSUME NEW m \in Modes PROVE f[m] = c[m] + w[m]
    OBVIOUS
  <2>1. PICK x \in Int, y \in Int, z \in Int : x = f[m] /\ y = c[m] /\ z = w[m]
    BY <1>4
  <2>2. x = Word * (x \div Word) + (x % Word)
    BY WordIs, Division
  <2>3. y = x % Word /\ z = (x \div Word) * Word
    BY <1>1, <1>3, <2>1
  <2>4. (x \div Word) * Word = Word * (x \div Word)
    <3>1. x \div Word \in Int /\ Word \in Int
      BY WordIs, DivisionInts
    <3>. QED  BY <3>1
  <2>5. x = y + z
    <3>1. x = z + y
      BY <2>2, <2>3, <2>4
    <3>. QED  BY <3>1, <2>1
  <2>. QED  BY <2>1, <2>5
<1>6. Elapsed(f) = Elapsed(c) + Elapsed(w)
  <2>1. f = [m \in Modes |-> c[m] + w[m]]
    BY <1>5
  <2>. QED  BY <1>4, <2>1, ElapsedAdds
<1>. QED  BY <1>2, <1>4, <1>6, ElapsedType, RoundsDoNotShow

-----------------------------------------------------------------------------
(* The counters.                                                             *)

LEMMA ReadingIsItsRemainder ==
    ASSUME NEW v \in 0 .. Word - 1
    PROVE  v % Word = v
<1>1. v + 0 * Word = v
  BY WordIs
<1>. QED  BY <1>1, RemainderIsUnique

LEMMA GainedType ==
    ASSUME NEW s \in [Modes -> Nat], NEW t \in BOOLEAN
    PROVE  Gained(s, t) \in [Modes -> Int]
  BY DEF Gained, Modes

LEMMA CpuInvInit == CpuInit => CpuInv
<1> SUFFICES ASSUME CpuInit PROVE CpuInv
  OBVIOUS
<1>1. PICK n \in {0, Word - 1} : cpu = [m \in Modes |-> n]
  BY DEF CpuInit
<1>2. n \in 0 .. Word - 1 /\ n \in Int
  BY WordIs
<1>3. spent \in [Modes -> Nat] /\ Elapsed(spent) = 0 /\ spent = NoTicks /\ taken = FALSE
  BY DEF CpuInit, NoTicks, Elapsed, Modes
<1>4. \A m \in Modes : Gained(spent, taken)[m] = 0
  BY <1>3 DEF Gained, NoTicks, Modes
<1>5. n = (n + 0) % Word
  BY <1>2, ReadingIsItsRemainder
<1>6. previous = cpu /\ ticks = 0
  BY DEF CpuInit
<1>7. cpu \in [Modes -> 0 .. Word - 1]
  BY <1>1, <1>2
<1>8. ASSUME NEW m \in Modes PROVE cpu[m] = (previous[m] + Gained(spent, taken)[m]) % Word
  <2>1. cpu[m] = n /\ previous[m] = n
    BY <1>1, <1>6
  <2>. QED  BY <1>4, <1>5, <2>1
<1>9. ticks \in 0..MaxTicks /\ Elapsed(spent) <= ticks
  BY <1>3, <1>6, WordIs
<1>. QED  BY <1>3, <1>6, <1>7, <1>8, <1>9 DEF CpuInv

LEMMA CpuInvTick ==
    ASSUME CpuInv, NEW m \in Modes, Tick(m)
    PROVE  CpuInv'
<1>1. /\ cpu' = [c \in Modes |-> IF c \in Charged(m) THEN (cpu[c] + 1) % Word ELSE cpu[c]]
      /\ spent' = [spent EXCEPT ![m] = spent[m] + 1]
      /\ previous' = previous /\ taken' = taken
      /\ ticks' = ticks + 1 /\ ticks < MaxTicks
  BY DEF Tick
<1>2. /\ cpu \in [Modes -> 0 .. Word - 1] /\ previous \in [Modes -> 0 .. Word - 1]
      /\ spent \in [Modes -> Nat] /\ taken \in BOOLEAN
  BY DEF CpuInv
<1>3. spent' \in [Modes -> Nat] /\ Elapsed(spent') = Elapsed(spent) + 1
  <2>1. spent' = [c \in Modes |-> IF c = m THEN spent[c] + 1 ELSE spent[c]]
    BY <1>1, <1>2
  <2>2. spent' \in [Modes -> Nat]
    BY <1>2, <2>1
  <2>3. Elapsed(spent') = Elapsed(spent) + 1
    BY <1>2, <2>1 DEF Elapsed, Modes
  <2>. QED  BY <2>2, <2>3
<1>4. ASSUME NEW c \in Modes
      PROVE  Gained(spent', taken)[c] = Gained(spent, taken)[c] + (IF c \in Charged(m) THEN 1 ELSE 0)
  <2>1. spent' = [d \in Modes |-> IF d = m THEN spent[d] + 1 ELSE spent[d]]
    BY <1>1, <1>2
  <2>. QED  BY <1>2, <2>1 DEF Gained, Charged, Modes
<1>5. ASSUME NEW c \in Modes
      PROVE  /\ cpu'[c] \in 0 .. Word - 1
             /\ cpu'[c] = (previous[c] + Gained(spent', taken)[c]) % Word
  <2>1. PICK p \in Int, g \in Int : p = previous[c] /\ g = Gained(spent, taken)[c]
    BY <1>2, GainedType
  <2>2. cpu[c] = (p + g) % Word
    BY <2>1 DEF CpuInv
  <2>3. CASE c \in Charged(m)
    <3>1. cpu'[c] = (((p + g) % Word) + 1) % Word
      BY <1>1, <2>2, <2>3
    <3>2. p + g \in Int /\ (p + g) + 1 = p + (g + 1)
      OBVIOUS
    <3>3. cpu'[c] = (p + (g + 1)) % Word
      BY <3>1, <3>2, AddToRemainder
    <3>4. Gained(spent', taken)[c] = g + 1
      BY <1>4, <2>1, <2>3
    <3>5. cpu'[c] \in 0 .. Word - 1
      BY <3>3, RemainderLeaves
    <3>. QED  BY <2>1, <3>3, <3>4, <3>5
  <2>4. CASE c \notin Charged(m)
    <3>1. Gained(spent', taken)[c] = g
      BY <1>4, <2>1, <2>4
    <3>. QED  BY <1>1, <1>2, <2>1, <2>2, <2>4, <3>1
  <2>. QED  BY <2>3, <2>4
<1>6. cpu' \in [Modes -> 0 .. Word - 1]
  <2>1. \E h : cpu' = [c \in Modes |-> h[c]]
    BY <1>1
  <2>. QED  BY <1>5, <2>1
<1>7. ticks' \in 0..MaxTicks /\ Elapsed(spent') <= ticks'
  <2>1. Elapsed(spent) \in Int
    BY <1>2, ElapsedType
  <2>. QED  BY <1>1, <1>3, <2>1, WordIs DEF CpuInv
<1>. QED  BY <1>1, <1>2, <1>3, <1>5, <1>6, <1>7 DEF CpuInv

LEMMA CpuInvTakenBack == ASSUME CpuInv, IowaitTakenBack PROVE CpuInv'
<1>1. /\ cpu' = [cpu EXCEPT !["iowait"] = cpu["iowait"] - 1] /\ cpu["iowait"] > 0
      /\ spent' = spent /\ previous' = previous /\ ticks' = ticks
      /\ taken = FALSE /\ taken' = TRUE
  BY DEF IowaitTakenBack, CpuInv
<1>2. /\ cpu \in [Modes -> 0 .. Word - 1] /\ previous \in [Modes -> 0 .. Word - 1]
      /\ spent \in [Modes -> Nat]
  BY DEF CpuInv
<1>3. "iowait" \in Modes
  BY DEF Modes
<1>4. cpu["iowait"] - 1 \in 0 .. Word - 1
  BY <1>1, <1>2, <1>3, WordIs
<1>5. cpu' \in [Modes -> 0 .. Word - 1]
  BY <1>1, <1>2, <1>4
<1>6. ASSUME NEW c \in Modes
      PROVE  cpu'[c] = (previous[c] + Gained(spent, TRUE)[c]) % Word
  <2>1. Gained(spent, FALSE) \in [Modes -> Int]
    BY <1>2, GainedType
  <2>2. previous[c] \in Int
    BY <1>2
  <2>3. Gained(spent, FALSE)[c] \in Int
    BY <2>1
  <2>4. PICK p \in Int, g \in Int : p = previous[c] /\ g = Gained(spent, FALSE)[c]
    BY <2>2, <2>3
  <2>5. cpu[c] = (p + g) % Word
    BY <1>1, <2>4 DEF CpuInv
  <2>6. CASE c = "iowait"
    <3>1. cpu'[c] = ((p + g) % Word) - 1
      BY <1>1, <1>2, <2>5, <2>6
    <3>2. Gained(spent, TRUE)[c] = g - 1
      BY <1>2, <1>3, <2>4, <2>6 DEF Gained
    <3>3. (((p + g) % Word) + (-1)) % Word = ((p + g) + (-1)) % Word
      <4>1. p + g \in Int /\ -1 \in Int
        OBVIOUS
      <4>. QED  BY <4>1, AddToRemainder
    <3>4. PICK v \in 0 .. Word - 1 : v = cpu'[c]
      BY <1>5
    <3>5. v = ((p + g) % Word) + (-1)
      <4>1. (p + g) % Word \in Int
        BY WordIs, RemainderLeaves
      <4>. QED  BY <3>1, <3>4, <4>1
    <3>6. v % Word = v
      BY ReadingIsItsRemainder
    <3>7. (p + g) + (-1) = p + (g - 1)
      OBVIOUS
    <3>. QED  BY <2>4, <3>2, <3>3, <3>4, <3>5, <3>6, <3>7
  <2>7. CASE c # "iowait"
    <3>1. Gained(spent, TRUE)[c] = g
      BY <1>2, <2>4, <2>7 DEF Gained
    <3>. QED  BY <1>1, <1>2, <2>4, <2>5, <2>7, <3>1
  <2>. QED  BY <2>6, <2>7
<1>. QED  BY <1>1, <1>2, <1>5, <1>6 DEF CpuInv

LEMMA CpuInvRefresh == ASSUME CpuInv, RefreshUsage PROVE CpuInv'
<1>1. /\ previous' = cpu /\ cpu' = cpu /\ ticks' = ticks /\ taken' = FALSE /\ spent' = NoTicks
  BY DEF RefreshUsage
<1>2. spent' \in [Modes -> Nat] /\ Elapsed(spent') = 0
  BY <1>1 DEF NoTicks, Elapsed, Modes
<1>3. \A m \in Modes : Gained(NoTicks, FALSE)[m] = 0
  BY DEF Gained, NoTicks, Modes
<1>4. ASSUME NEW m \in Modes
      PROVE  cpu[m] = (cpu[m] + Gained(NoTicks, FALSE)[m]) % Word
  <2>1. PICK v \in 0 .. Word - 1 : v = cpu[m]
    BY DEF CpuInv
  <2>2. v = (v + 0) % Word
    <3>1. v + 0 = v
      BY WordIs
    <3>. QED  BY <3>1, ReadingIsItsRemainder
  <2>. QED  BY <1>3, <2>1, <2>2
<1>5. /\ ticks' \in 0..MaxTicks /\ taken' \in BOOLEAN
      /\ cpu' \in [Modes -> 0 .. Word - 1] /\ previous' \in [Modes -> 0 .. Word - 1]
  BY <1>1 DEF CpuInv
<1>6. Elapsed(spent') <= ticks'
  BY <1>2, <1>5
<1>7. \A m \in Modes : cpu'[m] = (previous'[m] + Gained(spent', taken')[m]) % Word
  BY <1>1, <1>4
<1>. QED  BY <1>2, <1>5, <1>6, <1>7 DEF CpuInv

-----------------------------------------------------------------------------
(* What an interval shows.                                                   *)

(* No mode, and no few of them, spent more than the ticks of the interval. *)
LEMMA SpentFacts ==
    ASSUME NEW s \in [Modes -> Nat], NEW n \in Nat, Elapsed(s) <= n
    PROVE  /\ \A m \in Modes : s[m] \in Nat
           /\ Elapsed(s) \in Nat
           /\ s["guest"] + s["guestNice"] <= n
           /\ s["user"] + s["guest"] + (s["nice"] + s["guestNice"]) <= n
           /\ \A m \in Modes : s[m] <= n
  BY DEF Elapsed, Modes

(* The gain of one counter. *)
LEMMA CounterGain ==
    ASSUME NEW p \in 0 .. Word - 1, NEW g \in 0 .. Word - 1
    PROVE  (((p + g) % Word) - p) % Word = g
<1>1. p \in Int /\ p + g \in Int /\ (p + g) - p = g
  BY WordIs
<1>2. PICK a \in Int : a = p + g /\ a - p = g
  BY <1>1
<1>3. ((a % Word) - (p % Word)) % Word = g
  BY <1>1, <1>2, DifferenceIsGain
<1>. QED  BY <1>2, <1>3, ReadingIsItsRemainder

(* The gain of two counters that are added. *)
LEMMA GainOfTwo ==
    ASSUME NEW p \in 0 .. Word - 1, NEW q \in 0 .. Word - 1, NEW g \in Nat, NEW h \in Nat,
           g + h < Word
    PROVE  \A a, b : a = (p + g) % Word /\ b = (q + h) % Word => (a + b - (p + q)) % Word = g + h
<1> SUFFICES ASSUME NEW a, a = (p + g) % Word, NEW b, b = (q + h) % Word
             PROVE  (a + b - (p + q)) % Word = g + h
  OBVIOUS
<1>1. /\ p \in Int /\ q \in Int /\ p + g \in Int /\ q + h \in Int
      /\ g + h \in 0 .. Word - 1
  BY WordIs
<1>2. PICK j \in Int : a \in 0 .. Word - 1 /\ p + g = a + j * Word
  BY <1>1, RemainderLeaves
<1>3. PICK k \in Int : b \in 0 .. Word - 1 /\ q + h = b + k * Word
  BY <1>1, RemainderLeaves
<1>4. PICK i \in Int : i = -(j + k)
  OBVIOUS
<1>5. PICK m \in Int, n \in Int : m = j * Word /\ n = k * Word
  BY WordIs
<1>6. i * Word = -(m + n)
  BY <1>4, <1>5, WordIs
<1>7. a \in Int /\ b \in Int
  BY <1>2, <1>3, WordIs
<1>8. p + g = a + m /\ q + h = b + n
  BY <1>2, <1>3, <1>5
<1>9. a + b - (p + q) = (g + h) + -(m + n)
  BY ONLY <1>1, <1>7, <1>8, m \in Int, n \in Int, g \in Nat, h \in Nat
<1>10. ((g + h) + i * Word) % Word = g + h
  BY <1>1, RemainderIsUnique
<1>11. ((g + h) + -(m + n)) % Word = g + h
  BY <1>6, <1>10
<1>. QED  BY <1>9, <1>11

LEMMA IntervalFacts ==
    ASSUME CpuInv, taken = FALSE
    PROVE  LET s == spent
           IN  /\ (CpuTotal(cpu) - CpuTotal(previous)) % Word = Elapsed(s) + (s["guest"] + s["guestNice"])
               /\ UserDelta(cpu, previous) = (s["user"] + s["guest"]) + (s["nice"] + s["guestNice"])
               /\ \A m \in {"system", "idle", "iowait", "steal"} : ModeDelta(cpu, previous, m) = s[m]
<1>1. PICK s \in [Modes -> Nat] : s = spent
  BY DEF CpuInv
<1>2. Elapsed(s) <= MaxTicks
  <2>1. Elapsed(spent) \in Int
    BY <1>1, ElapsedType
  <2>. QED  BY <1>1, <2>1, WordIs DEF CpuInv
<1>3. /\ \A m \in Modes : s[m] \in Nat /\ s[m] <= MaxTicks
      /\ Elapsed(s) \in Nat
      /\ s["guest"] + s["guestNice"] <= MaxTicks
      /\ (s["user"] + s["guest"]) + (s["nice"] + s["guestNice"]) <= MaxTicks
  BY <1>2, WordIs, SpentFacts
<1>4. PICK g \in [Modes -> Nat] :
        /\ g = Gained(s, FALSE)
        /\ g["user"] = s["user"] + s["guest"] /\ g["nice"] = s["nice"] + s["guestNice"]
        /\ \A m \in {"system", "idle", "iowait", "steal"} : g[m] = s[m]
        /\ Elapsed(g) = Elapsed(s) + (s["guest"] + s["guestNice"])
  <2>1. PICK g : g = Gained(s, FALSE)
    OBVIOUS
  <2>2. g \in [Modes -> Nat]
    BY <2>1 DEF Gained, Modes
  <2>3. /\ g["user"] = s["user"] + s["guest"] /\ g["nice"] = s["nice"] + s["guestNice"]
        /\ g["system"] = s["system"] /\ g["idle"] = s["idle"] /\ g["iowait"] = s["iowait"]
        /\ g["irq"] = s["irq"] /\ g["softirq"] = s["softirq"] /\ g["steal"] = s["steal"]
        /\ g["guest"] = s["guest"] /\ g["guestNice"] = s["guestNice"]
    BY <2>1 DEF Gained, Modes
  <2>4. Elapsed(g) = Elapsed(s) + (s["guest"] + s["guestNice"])
    BY <2>3 DEF Elapsed, Modes
  <2>. QED  BY <2>1, <2>2, <2>3, <2>4
<1>5. PICK p \in [Modes -> 0 .. Word - 1] : p = previous
  BY DEF CpuInv
<1>6. PICK c \in [Modes -> 0 .. Word - 1] : c = cpu
  BY DEF CpuInv
<1>7. \A m \in Modes : c[m] = (p[m] + g[m]) % Word
  BY <1>1, <1>4, <1>5, <1>6 DEF CpuInv
<1>8. ASSUME NEW m \in {"system", "idle", "iowait", "steal"}
      PROVE  ModeDelta(c, p, m) = s[m]
  <2>1. m \in Modes
    BY DEF Modes
  <2>2. PICK x \in 0 .. Word - 1, y \in 0 .. Word - 1 : x = p[m] /\ y = g[m]
    <3>1. g[m] = s[m]
      BY <1>4
    <3>2. s[m] \in Nat /\ s[m] <= MaxTicks
      BY <1>3, <2>1
    <3>3. g[m] \in 0 .. Word - 1
      BY <3>1, <3>2, WordIs
    <3>. QED  BY <2>1, <3>3
  <2>3. c[m] = (x + y) % Word
    BY <1>7, <2>1, <2>2
  <2>4. (c[m] - p[m]) % Word = y
    BY <2>2, <2>3, CounterGain
  <2>5. g[m] = s[m]
    BY <1>4
  <2>. QED  BY <2>2, <2>4, <2>5 DEF ModeDelta
<1>9. UserDelta(c, p) = g["user"] + g["nice"]
  <2>1. "user" \in Modes /\ "nice" \in Modes
    BY DEF Modes
  <2>2. PICK x \in 0 .. Word - 1, y \in 0 .. Word - 1, v \in Nat, w \in Nat :
          x = p["user"] /\ y = p["nice"] /\ v = g["user"] /\ w = g["nice"]
    BY <2>1
  <2>3. v + w < Word
    <3>1. v + w <= MaxTicks
      BY <1>3, <1>4, <2>2
    <3>. QED  BY <3>1, WordIs
  <2>4. PICK a, b : a = c["user"] /\ b = c["nice"]
    OBVIOUS
  <2>5. a = (x + v) % Word /\ b = (y + w) % Word
    BY <1>7, <2>1, <2>2, <2>4
  <2>6. (a + b - (x + y)) % Word = v + w
    <3>1. \A i, j : i = (x + v) % Word /\ j = (y + w) % Word => (i + j - (x + y)) % Word = v + w
      BY <2>3, GainOfTwo
    <3>. QED  BY <2>5, <3>1
  <2>. QED  BY <2>2, <2>4, <2>6 DEF UserDelta
<1>10. (CpuTotal(c) - CpuTotal(p)) % Word = Elapsed(g)
  <2>1. PICK f : f = [m \in Modes |-> p[m] + g[m]]
    OBVIOUS
  <2>2. p \in [Modes -> Int] /\ g \in [Modes -> Int] /\ c \in [Modes -> Int] /\ f \in [Modes -> Int]
    <3>1. 0 .. Word - 1 \subseteq Int
      BY WordIs
    <3>2. \A m \in Modes : p[m] + g[m] \in Int
      BY <3>1
    <3>. QED  BY <2>1, <3>1, <3>2
  <2>3. Elapsed(f) = Elapsed(p) + Elapsed(g)
    BY <2>1, <2>2, ElapsedAdds
  <2>4. Elapsed(c) % Word = Elapsed(f) % Word
    BY <1>7, <2>1, <2>2, SumOfRemainders
  <2>5. PICK x \in Int, y \in Int, z \in Int : x = Elapsed(f) /\ y = Elapsed(p) /\ z = Elapsed(g)
    BY <2>2, ElapsedType
  <2>6. z \in 0 .. Word - 1
    <3>1. z = Elapsed(s) + (s["guest"] + s["guestNice"])
      BY <1>4, <2>5
    <3>2. s["guest"] \in Nat /\ s["guestNice"] \in Nat
      BY <1>3 DEF Modes
    <3>. QED  BY <1>2, <1>3, <3>1, <3>2, WordIs
  <2>7. ((x % Word) - (y % Word)) % Word = z
    BY <2>3, <2>5, <2>6, DifferenceIsGain
  <2>8. CpuTotal(c) = x % Word /\ CpuTotal(p) = y % Word
    BY <2>4, <2>5 DEF CpuTotal, Elapsed
  <2>. QED  BY <2>5, <2>7, <2>8
<1>. QED  BY <1>1, <1>4, <1>5, <1>6, <1>8, <1>9, <1>10

LEMMA ShareFacts ==
    ASSUME NEW of \in Nat, NEW delta \in Int
    PROVE  /\ ClampedShare(delta, of) \in 0..of
           /\ delta \in 0..of => ClampedShare(delta, of) = delta
  BY DEF ClampedShare

LEMMA CpuTotalType ==
    ASSUME NEW c \in [Modes -> Int]
    PROVE  CpuTotal(c) \in Int
<1>1. PICK n \in Int : n = Elapsed(c)
  BY ElapsedType
<1>2. CpuTotal(c) = n % Word
  BY <1>1 DEF CpuTotal, Elapsed
<1>. QED  BY <1>2, RemainderLeaves, WordIs

(* Every percentage is one, whatever was taken back. *)
LEMMA UsageValid ==
    ASSUME NEW c \in [Modes -> 0 .. Word - 1], NEW p \in [Modes -> 0 .. Word - 1],
           NEW u, u = ComputeCpuUsage(c, p)
    PROVE  u.of \in 1 .. Word - 1 /\ \A part \in DOMAIN u \ {"of"} : u[part] \in 0 .. u.of
<1>1. c \in [Modes -> Int] /\ p \in [Modes -> Int]
  <2>1. 0 .. Word - 1 \subseteq Int
    BY WordIs
  <2>. QED  BY <2>1
<1>2. PICK of \in 0 .. Word - 1 : of = (CpuTotal(c) - CpuTotal(p)) % Word
  <2>1. PICK x \in Int : x = CpuTotal(c) - CpuTotal(p)
    BY <1>1, CpuTotalType
  <2>. QED  BY <2>1, RemainderLeaves
<1>3. CASE of = 0
  <2>1. u = NoUsage
    BY <1>2, <1>3 DEF ComputeCpuUsage
  <2>2. NoUsage.of = 1 /\ \A part \in DOMAIN NoUsage \ {"of"} : NoUsage[part] = 0
    BY DEF NoUsage
  <2>. QED  BY <2>1, <2>2, WordIs
<1>4. CASE of # 0
  <2>1. of \in 1 .. Word - 1 /\ of \in Nat
    BY <1>2, <1>4, WordIs
  <2>2. UserDelta(c, p) \in Int
    <3>1. PICK x \in Int : x = c["user"] + c["nice"] - (p["user"] + p["nice"])
      BY <1>1 DEF Modes
    <3>. QED  BY <3>1, RemainderLeaves, WordIs DEF UserDelta
  <2>3. ASSUME NEW m \in Modes PROVE ModeDelta(c, p, m) \in Int
    <3>1. PICK x \in Int : x = c[m] - p[m]
      BY <1>1
    <3>. QED  BY <3>1, RemainderLeaves, WordIs DEF ModeDelta
  <2>4. /\ ModeDelta(c, p, "system") \in Int /\ ModeDelta(c, p, "idle") \in Int
        /\ ModeDelta(c, p, "iowait") \in Int /\ ModeDelta(c, p, "steal") \in Int
        /\ of - ModeDelta(c, p, "idle") \in Int
    BY <2>1, <2>3 DEF Modes
  <2>5. PICK a \in 0..of, b \in 0..of, d \in 0..of, e \in 0..of, f \in 0..of, g \in 0..of :
          /\ a = ClampedShare(UserDelta(c, p), of)
          /\ b = ClampedShare(ModeDelta(c, p, "system"), of)
          /\ d = ClampedShare(ModeDelta(c, p, "idle"), of)
          /\ e = ClampedShare(ModeDelta(c, p, "iowait"), of)
          /\ f = ClampedShare(ModeDelta(c, p, "steal"), of)
          /\ g = ClampedShare(of - ModeDelta(c, p, "idle"), of)
    BY <2>1, <2>2, <2>4, ShareFacts
  <2>6. u = [user |-> a, system |-> b, idle |-> d, iowait |-> e, steal |-> f, total |-> g, of |-> of]
    BY <1>2, <1>4, <2>5 DEF ComputeCpuUsage
  <2>7. u.of = of /\ \A part \in DOMAIN u \ {"of"} : u[part] \in {a, b, d, e, f, g}
    BY <2>6
  <2>. QED  BY <2>1, <2>5, <2>7
<1>. QED  BY <1>3, <1>4

(* What is computed of an interval in which no time was taken back. *)
LEMMA UsageComputed ==
    ASSUME CpuInv, taken = FALSE
    PROVE  \A s, u, of :
             /\ s = spent /\ u = ComputeCpuUsage(cpu, previous)
             /\ of = Elapsed(s) + (s["guest"] + s["guestNice"])
             => \/ of = 0 /\ u = NoUsage
                \/ /\ of # 0
                   /\ u = [user |-> (s["user"] + s["guest"]) + (s["nice"] + s["guestNice"]),
                           system |-> s["system"], idle |-> s["idle"], iowait |-> s["iowait"],
                           steal |-> s["steal"], total |-> of - s["idle"], of |-> of]
<1> SUFFICES ASSUME NEW s, NEW u, NEW of, s = spent, u = ComputeCpuUsage(cpu, previous),
                    of = Elapsed(s) + (s["guest"] + s["guestNice"])
             PROVE  \/ of = 0 /\ u = NoUsage
                    \/ /\ of # 0
                       /\ u = [user |-> (s["user"] + s["guest"]) + (s["nice"] + s["guestNice"]),
                               system |-> s["system"], idle |-> s["idle"], iowait |-> s["iowait"],
                               steal |-> s["steal"], total |-> of - s["idle"], of |-> of]
  OBVIOUS
<1>1. s \in [Modes -> Nat]
  BY DEF CpuInv
<1>3. /\ (CpuTotal(cpu) - CpuTotal(previous)) % Word = of
      /\ UserDelta(cpu, previous) = (s["user"] + s["guest"]) + (s["nice"] + s["guestNice"])
      /\ \A m \in {"system", "idle", "iowait", "steal"} : ModeDelta(cpu, previous, m) = s[m]
  BY IntervalFacts
<1>4. CASE of = 0
  BY <1>3, <1>4 DEF ComputeCpuUsage
<1>5. CASE of # 0
  <2>1. /\ of \in Nat
        /\ (s["user"] + s["guest"]) + (s["nice"] + s["guestNice"]) \in 0..of
        /\ s["system"] \in 0..of /\ s["idle"] \in 0..of /\ s["iowait"] \in 0..of
        /\ s["steal"] \in 0..of /\ of - s["idle"] \in 0..of
    BY <1>1 DEF Elapsed, Modes
  <2>2. PICK a, b, d, e, f, g :
          /\ a = (s["user"] + s["guest"]) + (s["nice"] + s["guestNice"])
          /\ b = s["system"] /\ d = s["idle"] /\ e = s["iowait"] /\ f = s["steal"]
          /\ g = of - s["idle"]
    OBVIOUS
  <2>3. ASSUME NEW v \in 0..of PROVE ClampedShare(v, of) = v
    BY <2>1, ShareFacts
  <2>4. /\ ClampedShare(a, of) = a /\ ClampedShare(b, of) = b /\ ClampedShare(d, of) = d
        /\ ClampedShare(e, of) = e /\ ClampedShare(f, of) = f /\ ClampedShare(g, of) = g
    BY <2>1, <2>2, <2>3
  <2>5. u = [user |-> a, system |-> b, idle |-> d, iowait |-> e, steal |-> f, total |-> g, of |-> of]
    <3>1. /\ UserDelta(cpu, previous) = a /\ ModeDelta(cpu, previous, "system") = b
          /\ ModeDelta(cpu, previous, "idle") = d /\ ModeDelta(cpu, previous, "iowait") = e
          /\ ModeDelta(cpu, previous, "steal") = f /\ of - ModeDelta(cpu, previous, "idle") = g
      BY <1>3, <2>2
    <3>. QED  BY <1>3, <1>5, <2>4, <3>1 DEF ComputeCpuUsage
  <2>. QED  BY <1>5, <2>2, <2>5
<1>. QED  BY <1>4, <1>5

LEMMA ShownInitially == CpuInit => UsageShown
<1> SUFFICES ASSUME CpuInit PROVE UsageShown
  OBVIOUS
<1>1. usage = NoUsage /\ shown.spent = NoTicks /\ shown.taken = FALSE
  BY DEF CpuInit
<1>2. NoUsage.of = 1 /\ \A p \in DOMAIN NoUsage \ {"of"} : NoUsage[p] = 0
  BY DEF NoUsage
<1>3. PercentagesValid
  BY <1>1, <1>2, CpuInvInit, WordIs DEF PercentagesValid, CpuInv
<1>4. UsageIsTimeSpent
  BY <1>1 DEF UsageIsTimeSpent, Elapsed, NoTicks, Modes
<1>5. PartsFit
  BY <1>1 DEF PartsFit, NoUsage
<1>. QED  BY <1>3, <1>4, <1>5 DEF UsageShown

LEMMA ShownStep ==
    ASSUME CpuInv, UsageShown, CpuNext, CpuInv'
    PROVE  UsageShown'
<1>1. CASE UNCHANGED <<usage, shown>>
  BY <1>1 DEF UsageShown, PercentagesValid, UsageIsTimeSpent, PartsFit, CpuInv
<1>2. CASE RefreshUsage
  <2>1. PICK s, u : s = spent /\ u = ComputeCpuUsage(cpu, previous)
    OBVIOUS
  <2>2. /\ usage' = u /\ shown'.spent = s /\ shown'.taken = taken
    BY <1>2, <2>1 DEF RefreshUsage
  <2>3. u.of \in 1 .. Word - 1 /\ \A p \in DOMAIN u \ {"of"} : u[p] \in 0 .. u.of
    BY <2>1, UsageValid DEF CpuInv
  <2>4. PercentagesValid'
    BY <2>2, <2>3 DEF PercentagesValid, CpuInv
  <2>5. CASE taken
    BY <2>2, <2>4, <2>5 DEF UsageShown, UsageIsTimeSpent, PartsFit
  <2>6. CASE ~taken
    <3>1. s \in [Modes -> Nat] /\ taken = FALSE
      BY <2>1, <2>6 DEF CpuInv
    <3>2. PICK of : of = Elapsed(s) + (s["guest"] + s["guestNice"])
      OBVIOUS
    <3>3. \/ of = 0 /\ u = NoUsage
          \/ /\ of # 0
             /\ u = [user |-> (s["user"] + s["guest"]) + (s["nice"] + s["guestNice"]),
                     system |-> s["system"], idle |-> s["idle"], iowait |-> s["iowait"],
                     steal |-> s["steal"], total |-> of - s["idle"], of |-> of]
      BY <2>1, <3>1, <3>2, UsageComputed
    <3>4. UsageIsTimeSpent'
      <4> SUFFICES ASSUME s["guest"] = 0, s["guestNice"] = 0, Elapsed(s) > 0
                   PROVE  u = [user |-> s["user"] + s["nice"], system |-> s["system"],
                               idle |-> s["idle"], iowait |-> s["iowait"], steal |-> s["steal"],
                               total |-> Elapsed(s) - s["idle"], of |-> Elapsed(s)]
        BY <2>2 DEF UsageIsTimeSpent
      <4>1. Elapsed(s) \in Int
        BY <3>1, ElapsedType
      <4>2. of = Elapsed(s) /\ of # 0
        BY <3>2, <4>1
      <4>3. (s["user"] + s["guest"]) + (s["nice"] + s["guestNice"]) = s["user"] + s["nice"]
        BY <3>1 DEF Modes
      <4>. QED  BY <3>3, <4>2, <4>3
    <3>5. /\ u.user + u.system + u.iowait + u.steal <= u.total
          /\ u.total + u.idle <= u.of
      <4>1. CASE u = NoUsage
        BY <4>1 DEF NoUsage
      <4>2. CASE u # NoUsage
        <5>1. /\ u.user = (s["user"] + s["guest"]) + (s["nice"] + s["guestNice"])
              /\ u.system = s["system"] /\ u.idle = s["idle"] /\ u.iowait = s["iowait"]
              /\ u.steal = s["steal"] /\ u.total = of - s["idle"] /\ u.of = of
          BY <3>3, <4>2
        <5>2. /\ ((s["user"] + s["guest"]) + (s["nice"] + s["guestNice"])) + s["system"] + s["iowait"]
                    + s["steal"] <= of - s["idle"]
              /\ (of - s["idle"]) + s["idle"] <= of
          BY <3>1, <3>2 DEF Elapsed, Modes
        <5>. QED  BY <5>1, <5>2
      <4>. QED  BY <4>1, <4>2
    <3>6. PartsFit'
      BY <2>2, <3>5 DEF PartsFit
    <3>. QED  BY <2>4, <3>4, <3>6 DEF UsageShown
  <2>. QED  BY <2>5, <2>6
<1>. QED  BY <1>1, <1>2 DEF CpuNext, Tick, IowaitTakenBack

(* Every percentage of a CPU is one, and that of the time spent, and its      *)
(* parts add up to no more than 100%, at any length of the counters and over  *)
(* any order of ticks, take-backs and samples.                                *)
THEOREM UsageAlwaysShown == CpuSpec => []UsageShown
<1>1. CpuInit => CpuInv /\ UsageShown
  BY CpuInvInit, ShownInitially
<1>2. ASSUME CpuInv, UsageShown, [CpuNext]_cpuVars PROVE CpuInv' /\ UsageShown'
  <2>1. CASE CpuNext
    <3>1. CpuInv'
      BY <1>2, <2>1, CpuInvTick, CpuInvTakenBack, CpuInvRefresh DEF CpuNext
    <3>. QED  BY <1>2, <2>1, <3>1, ShownStep
  <2>2. CASE UNCHANGED cpuVars
    BY <1>2, <2>2 DEF cpuVars, CpuInv, UsageShown, PercentagesValid, UsageIsTimeSpent, PartsFit
  <2>. QED  BY <1>2, <2>1, <2>2
<1>. QED  BY <1>1, <1>2, PTL DEF CpuSpec

-----------------------------------------------------------------------------
(* The greatest and the least of a set, and quotients.                       *)

(* A finite set of naturals has a bound, *)
LEMMA HasBound ==
    ASSUME NEW S \in SUBSET Nat, IsFiniteSet(S)
    PROVE  \E u \in Nat : \A x \in S : x <= u
<1>0. PICK n \in Nat : ExistsSurjection(1..n, S)
  BY FS_NatSurjection
<1>1. PICK f \in [1..n -> S] : \A x \in S : \E i \in 1..n : f[i] = x
  BY <1>0 DEF ExistsSurjection, Surjection
<1> DEFINE bad == {k \in Nat : k <= n /\ ~\E u \in Nat : \A i \in 1..k : f[i] <= u}
<1>2. bad = {}
  <2> SUFFICES ASSUME bad # {} PROVE FALSE
    OBVIOUS
  <2>1. PICK k \in bad : \A j \in bad : ~(<<j, k>> \in OpToRel(<, Nat))
    <3>1. bad \subseteq Nat
      OBVIOUS
    <3> HIDE DEF bad
    <3>. QED  BY <3>1, NatLessThanWellFounded, WFMin
  <2>2. k \in Nat /\ k <= n
    OBVIOUS
  <2>10. ~\E u \in Nat : \A i \in 1..k : f[i] <= u
    OBVIOUS
  <2>3. k # 0
    <3>1. k = 0 => \A i \in 1..k : f[i] <= 0
      OBVIOUS
    <3>. QED  BY <2>10, <3>1
  <2> HIDE DEF bad
  <2>4. k - 1 \in Nat /\ k - 1 < k /\ k - 1 <= n
    BY <2>2, <2>3
  <2>5. k - 1 \notin bad
    BY <2>1, <2>2, <2>4 DEF OpToRel
  <2>6. PICK u \in Nat : \A i \in 1 .. k - 1 : f[i] <= u
    BY <2>4, <2>5 DEF bad
  <2>7. f[k] \in Nat
    <3>1. k \in 1..n
      BY <2>2, <2>3
    <3>. QED  BY <3>1
  <2>8. PICK v \in Nat : u <= v /\ f[k] <= v
    <3>1. PICK x \in Nat : x = f[k]
      BY <2>7
    <3>2. u <= u + x /\ x <= u + x /\ u + x \in Nat
      OBVIOUS
    <3>. QED  BY <3>1, <3>2
  <2>9. \A i \in 1..k : f[i] <= v
    <3> SUFFICES ASSUME NEW i \in 1..k PROVE f[i] <= v
      OBVIOUS
    <3>1. CASE i = k
      BY <2>8, <3>1
    <3>2. CASE i # k
      <4>1. i \in 1 .. k - 1 /\ i \in 1..n
        BY <2>2, <3>2
      <4>2. f[i] \in Nat /\ f[i] <= u
        BY <2>6, <4>1
      <4>. QED  BY <2>8, <4>2
    <3>. QED  BY <3>1, <3>2
  <2>. QED  BY <2>9, <2>10
<1>3. PICK u \in Nat : \A i \in 1..n : f[i] <= u
  <2>1. n \notin bad
    BY <1>2
  <2>. QED  BY <2>1
<1>. QED  BY <1>1, <1>3

LEMMA ImageFinite ==
    ASSUME NEW S, IsFiniteSet(S), NEW f
    PROVE  IsFiniteSet({f[x] : x \in S})
<1>1. PICK T : T = {f[x] : x \in S}
  OBVIOUS
<1>2. PICK g : g = [x \in S |-> f[x]]
  OBVIOUS
<1>3. g \in Surjection(S, T)
  BY <1>1, <1>2 DEF Surjection
<1>. QED  BY <1>1, <1>3, FS_Surjection

(* and, if not empty, a greatest member; *)
LEMMA MaxIsGreatest ==
    ASSUME NEW S \in SUBSET Nat, IsFiniteSet(S), S # {}
    PROVE  Max(S) \in S /\ \A x \in S : x <= Max(S)
<1> DEFINE bounds == {u \in Nat : \A x \in S : x <= u}
<1>1. bounds # {} /\ bounds \subseteq Nat
  BY HasBound
<1>2. PICK u \in bounds : \A v \in bounds : ~(<<v, u>> \in OpToRel(<, Nat))
  <2> HIDE DEF bounds
  <2>. QED  BY <1>1, NatLessThanWellFounded, WFMin
<1>3. u \in Nat /\ \A x \in S : x <= u
  OBVIOUS
<1>4. \A v \in bounds : ~(v < u)
  BY <1>1, <1>2 DEF OpToRel
<1>5. u \in S
  <2> SUFFICES ASSUME u \notin S PROVE FALSE
    OBVIOUS
  <2>1. \A x \in S : x < u /\ x <= u - 1
    BY <1>3
  <2>2. u # 0
    <3>1. PICK x \in S : x \in Nat
      OBVIOUS
    <3>. QED  BY <1>3, <2>1, <3>1
  <2>3. u - 1 \in bounds
    BY <1>3, <2>1, <2>2
  <2>. QED  BY <1>3, <1>4, <2>3
<1>6. \E x \in S : \A y \in S : x >= y
  BY <1>3, <1>5
<1>7. Max(S) \in S /\ \A y \in S : Max(S) >= y
  BY <1>6 DEF Max
<1>. QED  BY <1>7

(* any set of naturals that is not empty has a least. *)
LEMMA MinIsLeast ==
    ASSUME NEW S \in SUBSET Nat, S # {}
    PROVE  Min(S) \in S /\ \A x \in S : Min(S) <= x
<1>1. PICK u \in S : \A v \in S : ~(<<v, u>> \in OpToRel(<, Nat))
  BY NatLessThanWellFounded, WFMin
<1>2. \A v \in S : ~(v < u)
  BY <1>1 DEF OpToRel
<1>3. \A v \in S : u <= v
  BY <1>2
<1>. QED  BY <1>3 DEF Min

(* More to use, and less that uses it, lasts no shorter. *)
LEMMA DivisionNats ==
    ASSUME NEW w \in Nat \ {0}, NEW a \in Nat
    PROVE  a = w * (a \div w) + (a % w) /\ a \div w \in Nat /\ a % w \in 0 .. w - 1
  OBVIOUS

Share(a, v) == a \div v

LEMMA QuotientsOrdered ==
    ASSUME NEW a \in Nat, NEW b \in Nat, a <= b, NEW v \in Nat, NEW w \in Nat \ {0}, w <= v
    PROVE  Share(a, v) <= Share(b, w)
<1>1. PICK p \in Nat, q \in Nat, r \in Nat, s \in Nat :
        /\ p = a \div v /\ q = b \div w /\ s < w
        /\ a = v * p + r /\ b = w * q + s
  <2>1. v \in Nat \ {0}
    OBVIOUS
  <2>2. a = v * (a \div v) + (a % v) /\ a \div v \in Nat /\ a % v \in 0 .. v - 1
    BY <2>1, DivisionNats
  <2>3. b = w * (b \div w) + (b % w) /\ b \div w \in Nat /\ b % w \in 0 .. w - 1
    BY DivisionNats
  <2>4. PICK p, r : p = a \div v /\ r = a % v
    OBVIOUS
  <2>5. PICK q, s : q = b \div w /\ s = b % w
    OBVIOUS
  <2>6. p \in Nat /\ r \in 0 .. v - 1 /\ a = v * p + r
    BY <2>2, <2>4
  <2>7. q \in Nat /\ s \in 0 .. w - 1 /\ b = w * q + s
    BY <2>3, <2>5
  <2>8. r \in Nat /\ s \in Nat /\ s < w
    BY <2>6, <2>7
  <2>. QED  BY <2>4, <2>5, <2>6, <2>7, <2>8
<1>2. w * p <= v * p
  OBVIOUS
<1>3. w * p < w * q + w
  BY <1>1, <1>2
<1>4. p < q + 1
  BY <1>3
<1>. QED  BY <1>1, <1>4 DEF Share

-----------------------------------------------------------------------------
(* What is read of a battery.                                                *)

IsBattery(b) == b.now \in Nat /\ b.full \in Nat /\ b.power \in Nat /\ b.volts \in Nat

IsCounters(c) ==
    /\ c = [state |-> c.state, isOnAc |-> c.isOnAc, percent |-> c.percent, now |-> c.now,
            full |-> c.full, design |-> c.design, power |-> c.power, health |-> c.health,
            timeToEmpty |-> c.timeToEmpty, timeToFull |-> c.timeToFull]
    /\ c.now \in Nat /\ c.full \in Nat /\ c.power \in Int
    /\ c.timeToEmpty = 0 /\ c.timeToFull = 0

(* The voltages that energy and power may have been multiplied with. *)
SeenVolts == IF gauge = "charge" THEN {b.volts : b \in batterySeen} ELSE {1}

(* Up to file n the amounts are no greater than those of a battery seen, from *)
(* the seventh file on times a voltage where the battery tells its charge.    *)
Scales(n) == IF n > 6 THEN SeenVolts ELSE {1}
AmountsSeen(c, scales) ==
    /\ \E b \in batterySeen, v \in scales : c.now <= b.now * v
    /\ \E b \in batterySeen, v \in scales : c.full <= b.full * v

(* The state was that of a battery seen, and the power has the sign of the    *)
(* state and the amount of a battery seen.                                    *)
StateSeen(n, c) ==
    /\ c.state = "Charging" => \E b \in batterySeen : b.status = "Charging"
    /\ n > 1 /\ c.state # "Charging" => \E b \in batterySeen : b.status # "Charging"
PowerSeen(n, c) ==
    /\ c.power > 0 => n > 1 /\ c.state # "Charging"
    /\ c.power < 0 => c.state = "Charging"
    /\ c.power # 0 => \E b \in batterySeen : c.power = b.power \/ c.power = -b.power

Gathered(n, c) ==
    /\ n \in 1 .. Len(BatteryFiles) /\ IsCounters(c)
    /\ n = 1 => c = NoCounters
    /\ n <= 4 => c.full = 0
    /\ StateSeen(n, c) /\ PowerSeen(n, c) /\ AmountsSeen(c, Scales(n))
    /\ batterySeen = {NoBattery} => c = NoCounters

(* What all files together give. *)
AllRead(c) ==
    /\ IsCounters(c) /\ AmountsSeen(c, SeenVolts)
    /\ c.power > 1 => \E b \in batterySeen : b.status # "Charging"
    /\ c.power < -1 => \E b \in batterySeen : b.status = "Charging"
    /\ c.power # 0 => \E b \in batterySeen, v \in SeenVolts :
                        c.power = b.power * v \/ c.power = -(b.power * v)
    /\ batterySeen = {NoBattery} => c = NoCounters

PowerInv ==
    /\ gauge \in {"energy", "charge", "none"}
    /\ battery \in batterySeen \/ power = NotReadingPower
    /\ IsFiniteSet(batterySeen) /\ batterySeen # {} /\ \A b \in batterySeen : IsBattery(b)
    /\ IsBattery(battery)
    /\ power # NotReadingPower =>
          gauge # "none" /\ \E n, c : power = [step |-> n, counters |-> c] /\ Gathered(n, c)
    /\ EstimatesTrue

LEMMA BatteriesAre == IsBattery(NoBattery) /\ \A b \in Batteries : IsBattery(b)
  BY PowerAssumption DEF IsBattery, NoBattery

LEMMA NoCountersAre ==
    /\ IsCounters(NoCounters) /\ NoCounters.power = 0 /\ NoCounters.now = 0 /\ NoCounters.full = 0
    /\ NoCounters.state = "Unknown" /\ NoCounters.design = 0
  BY DEF IsCounters, NoCounters

LEMMA EnergyFiles ==
    ASSUME gauge = "energy"
    PROVE  /\ Len(BatteryFiles) = 6
           /\ BatteryFiles[1] = "status" /\ BatteryFiles[2] = "capacity" /\ BatteryFiles[3] = "now"
           /\ BatteryFiles[4] = "full" /\ BatteryFiles[5] = "design" /\ BatteryFiles[6] = "power"
  BY DEF BatteryFiles

LEMMA ChargeFiles ==
    ASSUME gauge = "charge"
    PROVE  /\ Len(BatteryFiles) = 8
           /\ BatteryFiles[1] = "status" /\ BatteryFiles[2] = "capacity" /\ BatteryFiles[3] = "now"
           /\ BatteryFiles[4] = "full" /\ BatteryFiles[5] = "design" /\ BatteryFiles[6] = "volts"
           /\ BatteryFiles[7] = "power" /\ BatteryFiles[8] = "volts"
  BY DEF BatteryFiles

(* Where the reading goes on. *)
LEMMA AfterFileFacts ==
    ASSUME gauge \in {"energy", "charge"}, NEW n \in 1 .. Len(BatteryFiles)
    PROVE  /\ gauge = "energy" =>
                 AfterFile(n) = IF n = 3 /\ ~Present THEN 6 ELSE n + 1
           /\ gauge = "charge" =>
                 AfterFile(n) = IF n = 3 /\ ~Present THEN 7 ELSE IF n = 7 /\ ~Present THEN 9 ELSE n + 1
<1>1. CASE gauge = "energy"
  <2>1. n \in 1..6
    BY <1>1, EnergyFiles
  <2>2. /\ BatteryFiles[n] = "now" <=> n = 3
        /\ BatteryFiles[n] = "power" <=> n = 6
    BY <1>1, <2>1, EnergyFiles
  <2>3. PICK len : len = Len(BatteryFiles)
    OBVIOUS
  <2>4. len = 6
    BY <1>1, <2>3, EnergyFiles
  <2>5. AfterFile(n) = IF n = 3 /\ ~Present THEN len - (IF gauge = "energy" THEN 0 ELSE 1)
                      ELSE IF n = 6 /\ ~Present THEN len + 1 ELSE n + 1
    BY <2>2, <2>3 DEF AfterFile
  <2>. QED  BY <1>1, <2>1, <2>4, <2>5
<1>2. CASE gauge = "charge"
  <2>1. n \in 1..8
    BY <1>2, ChargeFiles
  <2>2. /\ BatteryFiles[n] = "now" <=> n = 3
        /\ BatteryFiles[n] = "power" <=> n = 7
    BY <1>2, <2>1, ChargeFiles
  <2>3. PICK len : len = Len(BatteryFiles)
    OBVIOUS
  <2>4. len = 8
    BY <1>2, <2>3, ChargeFiles
  <2>5. AfterFile(n) = IF n = 3 /\ ~Present THEN len - (IF gauge = "energy" THEN 0 ELSE 1)
                      ELSE IF n = 7 /\ ~Present THEN len + 1 ELSE n + 1
    BY <2>2, <2>3 DEF AfterFile
  <2>. QED  BY <1>2, <2>1, <2>4, <2>5
<1>. QED  BY <1>1, <1>2

LEMMA NothingThere ==
    /\ NoBattery.status = "" /\ NoBattery.now = 0 /\ NoBattery.full = 0 /\ NoBattery.power = 0
    /\ NoBattery.volts = 0
    /\ NoCounters.state = "Unknown" /\ NoCounters.isOnAc = FALSE /\ NoCounters.percent = -1
    /\ NoCounters.now = 0 /\ NoCounters.full = 0 /\ NoCounters.design = 0 /\ NoCounters.power = 0
    /\ NoCounters.health = -1 /\ NoCounters.timeToEmpty = 0 /\ NoCounters.timeToFull = 0
  BY DEF NoBattery, NoCounters

LEMMA SignedZero == \A w, s : w = 0 => Signed(w, s) = 0
<1>1. ASSUME NEW z \in Int, z = 0 PROVE -z = 0
  <2>1. \A y \in Int : y <= 0 /\ 0 <= y => -y <= 0 /\ 0 <= -y /\ -y \in Int
    OBVIOUS
  <2>2. -z <= 0 /\ 0 <= -z /\ -z \in Int
    BY <1>1, <2>1
  <2>. QED  BY <2>2
<1>2. ASSUME NEW w, NEW s, w = 0 PROVE Signed(w, s) = 0
  <2>1. PICK z \in Int : z = w
    BY <1>2
  <2>2. -z = 0
    BY <1>1, <1>2, <2>1
  <2>. QED  BY <1>2, <2>1, <2>2 DEF Signed
<1>. QED  BY <1>2

LEMMA ProductsAre ==
    ASSUME NEW a \in Nat, NEW p \in Int, NEW v \in Nat
    PROVE  a * v \in Nat /\ p * v \in Int /\ 0 * v = 0
  OBVIOUS

(* What a file changes of the counters. *)
LEMMA FieldsRead ==
    ASSUME gauge \in {"energy", "charge"}, NEW n \in 1 .. Len(BatteryFiles),
           NEW c, IsCounters(c), IsBattery(battery)
    PROVE  \A r : r = ReadFile(c, n) =>
             /\ IsCounters(r)
             /\ r.state = IF n = 1 THEN State(battery.status) ELSE c.state
             /\ r.now = IF n = 3 THEN battery.now
                        ELSE IF gauge = "charge" /\ n = 6 THEN c.now * battery.volts ELSE c.now
             /\ r.full = IF n = 4 THEN battery.full
                         ELSE IF gauge = "charge" /\ n = 6 THEN c.full * battery.volts ELSE c.full
             /\ r.power = IF (gauge = "energy" /\ n = 6) \/ (gauge = "charge" /\ n = 7)
                          THEN Signed(battery.power, c.state)
                          ELSE IF gauge = "charge" /\ n = 8 THEN c.power * battery.volts ELSE c.power
             /\ battery = NoBattery /\ c = NoCounters => r = NoCounters
<1> SUFFICES ASSUME NEW r, r = ReadFile(c, n)
             PROVE  /\ IsCounters(r)
                    /\ r.state = IF n = 1 THEN State(battery.status) ELSE c.state
                    /\ r.now = IF n = 3 THEN battery.now
                               ELSE IF gauge = "charge" /\ n = 6 THEN c.now * battery.volts ELSE c.now
                    /\ r.full = IF n = 4 THEN battery.full
                                ELSE IF gauge = "charge" /\ n = 6 THEN c.full * battery.volts ELSE c.full
                    /\ r.power = IF (gauge = "energy" /\ n = 6) \/ (gauge = "charge" /\ n = 7)
                                 THEN Signed(battery.power, c.state)
                                 ELSE IF gauge = "charge" /\ n = 8 THEN c.power * battery.volts ELSE c.power
                    /\ battery = NoBattery /\ c = NoCounters => r = NoCounters
  OBVIOUS
<1>1. c = [state |-> c.state, isOnAc |-> c.isOnAc, percent |-> c.percent, now |-> c.now, full
          |-> c.full, design |-> c.design, power |-> c.power, health |-> c.health, timeToEmpty
          |-> c.timeToEmpty, timeToFull |-> c.timeToFull]
  BY DEF IsCounters
<1>2. \/ gauge = "energy" /\ n \in 1..6
      \/ gauge = "charge" /\ n \in 1..8
  BY EnergyFiles, ChargeFiles
<1>3. CASE n = 1
  <2>1. r = [state |-> State(battery.status), isOnAc |-> State(battery.status) \in {"Charging",
             "Full"}, percent |-> c.percent, now |-> c.now, full |-> c.full, design |-> c.design,
             power |-> c.power, health |-> c.health, timeToEmpty |-> c.timeToEmpty, timeToFull
             |-> c.timeToFull]
    BY <1>1, <1>2, <1>3, EnergyFiles, ChargeFiles DEF ReadFile
  <2>2. battery = NoBattery /\ c = NoCounters => r = NoCounters
    <3> SUFFICES ASSUME battery = NoBattery, c = NoCounters PROVE r = NoCounters
      OBVIOUS
    <3>1. r = [state |-> "Unknown", isOnAc |-> FALSE, percent |-> -1, now |-> 0, full |-> 0,
               design |-> 0, power |-> 0, health |-> -1, timeToEmpty |-> 0, timeToFull |-> 0]
      <4>1. State("") = "Unknown"
        BY DEF State
      <4>2. ("Unknown" \in {"Charging", "Full"}) = FALSE
        OBVIOUS
      <4>. QED  BY <2>1, <4>1, <4>2, NothingThere
    <3>. QED  BY <3>1 DEF NoCounters
  <2>. QED  BY <1>2, <1>3, <2>1, <2>2 DEF IsCounters, IsBattery
<1>4. CASE n = 2
  <2>1. r = [state |-> c.state, isOnAc |-> c.isOnAc, percent |-> IF Present THEN (battery.now *
             100) \div battery.full ELSE -1, now |-> c.now, full |-> c.full, design |-> c.design,
             power |-> c.power, health |-> c.health, timeToEmpty |-> c.timeToEmpty, timeToFull
             |-> c.timeToFull]
    BY <1>1, <1>2, <1>4, EnergyFiles, ChargeFiles DEF ReadFile
  <2>2. battery = NoBattery /\ c = NoCounters => r = NoCounters
    <3> SUFFICES ASSUME battery = NoBattery, c = NoCounters PROVE r = NoCounters
      OBVIOUS
    <3>1. r = [state |-> "Unknown", isOnAc |-> FALSE, percent |-> -1, now |-> 0, full |-> 0,
               design |-> 0, power |-> 0, health |-> -1, timeToEmpty |-> 0, timeToFull |-> 0]
      BY <2>1, NothingThere DEF Present
    <3>. QED  BY <3>1 DEF NoCounters
  <2>. QED  BY <1>2, <1>4, <2>1, <2>2 DEF IsCounters, IsBattery
<1>5. CASE n = 3
  <2>1. r = [state |-> c.state, isOnAc |-> c.isOnAc, percent |-> c.percent, now |-> battery.now,
             full |-> c.full, design |-> c.design, power |-> c.power, health |-> c.health,
             timeToEmpty |-> c.timeToEmpty, timeToFull |-> c.timeToFull]
    BY <1>1, <1>2, <1>5, EnergyFiles, ChargeFiles DEF ReadFile
  <2>2. battery = NoBattery /\ c = NoCounters => r = NoCounters
    <3> SUFFICES ASSUME battery = NoBattery, c = NoCounters PROVE r = NoCounters
      OBVIOUS
    <3>1. r = [state |-> "Unknown", isOnAc |-> FALSE, percent |-> -1, now |-> 0, full |-> 0,
               design |-> 0, power |-> 0, health |-> -1, timeToEmpty |-> 0, timeToFull |-> 0]
      BY <2>1, NothingThere
    <3>. QED  BY <3>1 DEF NoCounters
  <2>. QED  BY <1>2, <1>5, <2>1, <2>2 DEF IsCounters, IsBattery
<1>6. CASE n = 4
  <2>1. r = [state |-> c.state, isOnAc |-> c.isOnAc, percent |-> c.percent, now |-> c.now, full
             |-> battery.full, design |-> c.design, power |-> c.power, health |-> c.health,
             timeToEmpty |-> c.timeToEmpty, timeToFull |-> c.timeToFull]
    BY <1>1, <1>2, <1>6, EnergyFiles, ChargeFiles DEF ReadFile
  <2>2. battery = NoBattery /\ c = NoCounters => r = NoCounters
    <3> SUFFICES ASSUME battery = NoBattery, c = NoCounters PROVE r = NoCounters
      OBVIOUS
    <3>1. r = [state |-> "Unknown", isOnAc |-> FALSE, percent |-> -1, now |-> 0, full |-> 0,
               design |-> 0, power |-> 0, health |-> -1, timeToEmpty |-> 0, timeToFull |-> 0]
      BY <2>1, NothingThere
    <3>. QED  BY <3>1 DEF NoCounters
  <2>. QED  BY <1>2, <1>6, <2>1, <2>2 DEF IsCounters, IsBattery
<1>7. CASE n = 5
  <2>1. r = [state |-> c.state, isOnAc |-> c.isOnAc, percent |-> c.percent, now |-> c.now, full
             |-> c.full, design |-> IF Present THEN Design ELSE 0, power |-> c.power, health |->
             c.health, timeToEmpty |-> c.timeToEmpty, timeToFull |-> c.timeToFull]
    BY <1>1, <1>2, <1>7, EnergyFiles, ChargeFiles DEF ReadFile
  <2>2. battery = NoBattery /\ c = NoCounters => r = NoCounters
    <3> SUFFICES ASSUME battery = NoBattery, c = NoCounters PROVE r = NoCounters
      OBVIOUS
    <3>1. r = [state |-> "Unknown", isOnAc |-> FALSE, percent |-> -1, now |-> 0, full |-> 0,
               design |-> 0, power |-> 0, health |-> -1, timeToEmpty |-> 0, timeToFull |-> 0]
      BY <2>1, NothingThere DEF Present
    <3>. QED  BY <3>1 DEF NoCounters
  <2>. QED  BY <1>2, <1>7, <2>1, <2>2 DEF IsCounters, IsBattery
<1>8. CASE (gauge = "energy" /\ n = 6) \/ (gauge = "charge" /\ n = 7)
  <2>1. r = [state |-> c.state, isOnAc |-> c.isOnAc, percent |-> c.percent, now |-> c.now, full
             |-> c.full, design |-> c.design, power |-> Signed(battery.power, c.state), health
             |-> c.health, timeToEmpty |-> c.timeToEmpty, timeToFull |-> c.timeToFull]
    BY <1>1, <1>2, <1>8, EnergyFiles, ChargeFiles DEF ReadFile
  <2>2. battery = NoBattery /\ c = NoCounters => r = NoCounters
    <3> SUFFICES ASSUME battery = NoBattery, c = NoCounters PROVE r = NoCounters
      OBVIOUS
    <3>1. r = [state |-> "Unknown", isOnAc |-> FALSE, percent |-> -1, now |-> 0, full |-> 0,
               design |-> 0, power |-> 0, health |-> -1, timeToEmpty |-> 0, timeToFull |-> 0]
      BY <2>1, NothingThere DEF Signed
    <3>. QED  BY <3>1 DEF NoCounters
  <2>. QED  BY <1>2, <1>8, <2>1, <2>2 DEF IsCounters, IsBattery, Signed
<1>9. CASE gauge = "charge" /\ n = 6
  <2>1. r = [state |-> c.state, isOnAc |-> c.isOnAc, percent |-> c.percent, now |-> c.now *
             battery.volts, full |-> c.full * battery.volts, design |-> c.design * battery.volts,
             power |-> c.power, health |-> c.health, timeToEmpty |-> c.timeToEmpty, timeToFull
             |-> c.timeToFull]
    BY <1>1, <1>2, <1>9, EnergyFiles, ChargeFiles DEF ReadFile
  <2>2. battery = NoBattery /\ c = NoCounters => r = NoCounters
    <3> SUFFICES ASSUME battery = NoBattery, c = NoCounters PROVE r = NoCounters
      OBVIOUS
    <3>1. r = [state |-> "Unknown", isOnAc |-> FALSE, percent |-> -1, now |-> 0, full |-> 0,
               design |-> 0, power |-> 0, health |-> -1, timeToEmpty |-> 0, timeToFull |-> 0]
      <4>1. 0 * 0 = 0
        OBVIOUS
      <4>. QED  BY <2>1, <4>1, NothingThere
    <3>. QED  BY <3>1 DEF NoCounters
  <2>3. c.now * battery.volts \in Nat /\ c.full * battery.volts \in Nat
    BY ProductsAre DEF IsCounters, IsBattery
  <2>. QED  BY <1>9, <2>1, <2>2, <2>3 DEF IsCounters, IsBattery
<1>10. CASE gauge = "charge" /\ n = 8
  <2>1. r = [state |-> c.state, isOnAc |-> c.isOnAc, percent |-> c.percent, now |-> c.now, full
             |-> c.full, design |-> c.design, power |-> c.power * battery.volts, health |->
             c.health, timeToEmpty |-> c.timeToEmpty, timeToFull |-> c.timeToFull]
    BY <1>1, <1>2, <1>10, EnergyFiles, ChargeFiles DEF ReadFile
  <2>2. battery = NoBattery /\ c = NoCounters => r = NoCounters
    <3> SUFFICES ASSUME battery = NoBattery, c = NoCounters PROVE r = NoCounters
      OBVIOUS
    <3>1. r = [state |-> "Unknown", isOnAc |-> FALSE, percent |-> -1, now |-> 0, full |-> 0,
               design |-> 0, power |-> 0, health |-> -1, timeToEmpty |-> 0, timeToFull |-> 0]
      <4>1. 0 * 0 = 0
        OBVIOUS
      <4>. QED  BY <2>1, <4>1, NothingThere
    <3>. QED  BY <3>1 DEF NoCounters
  <2>3. c.power * battery.volts \in Int
    BY ProductsAre DEF IsCounters, IsBattery
  <2>. QED  BY <1>10, <2>1, <2>2, <2>3 DEF IsCounters, IsBattery
<1>. QED  BY <1>2, <1>3, <1>4, <1>5, <1>6, <1>7, <1>8, <1>9, <1>10

LEMMA StateIsCharging == ASSUME NEW status PROVE State(status) = "Charging" <=> status = "Charging"
  BY DEF State

LEMMA VoltsSeen ==
    ASSUME gauge \in {"energy", "charge"}, battery \in batterySeen, \A b \in batterySeen : IsBattery(b)
    PROVE  /\ gauge = "energy" => SeenVolts = {1}
           /\ gauge = "charge" => battery.volts \in SeenVolts
           /\ SeenVolts # {} /\ SeenVolts \subseteq Nat
  BY DEF SeenVolts, IsBattery

LEMMA ProductsOrdered ==
    ASSUME NEW a \in Nat, NEW b \in Nat, a <= b, NEW v \in Nat
    PROVE  a * v <= b * v
  OBVIOUS

LEMMA NothingIsSeen ==
    ASSUME gauge \in {"energy", "charge"}, battery \in batterySeen, \A b \in batterySeen : IsBattery(b),
           NEW c, c.now = 0, c.full = 0
    PROVE  AmountsSeen(c, SeenVolts)
<1>1. PICK v \in Nat : v \in SeenVolts
  BY VoltsSeen
<1>2. PICK x \in Nat, y \in Nat : x = battery.now /\ y = battery.full
  BY DEF IsBattery
<1>3. 0 <= x * v /\ 0 <= y * v
  BY ProductsOrdered, ProductsAre
<1>. QED  BY <1>1, <1>2, <1>3 DEF AmountsSeen

(* A file more. *)
LEMMA FileRead ==
    ASSUME gauge \in {"energy", "charge"}, battery \in batterySeen, \A b \in batterySeen : IsBattery(b),
           NEW n, NEW c, Gathered(n, c), NEW r, r = ReadFile(c, n), NEW next, next = AfterFile(n)
    PROVE  /\ next <= Len(BatteryFiles) => Gathered(next, r)
           /\ ~(next <= Len(BatteryFiles)) => AllRead(r)
<1>1. n \in 1 .. Len(BatteryFiles) /\ IsCounters(c) /\ IsBattery(battery)
  BY DEF Gathered
<1>2. /\ gauge = "energy" => n \in 1..6 /\ Len(BatteryFiles) = 6
      /\ gauge = "charge" => n \in 1..8 /\ Len(BatteryFiles) = 8
  BY <1>1, EnergyFiles, ChargeFiles
<1>3. /\ gauge = "energy" => next = IF n = 3 /\ ~Present THEN 6 ELSE n + 1
      /\ gauge = "charge" =>
            next = IF n = 3 /\ ~Present THEN 7 ELSE IF n = 7 /\ ~Present THEN 9 ELSE n + 1
  BY <1>1, AfterFileFacts
<1>4. n \in 1..8 /\ next \in Int /\ next > n
  BY <1>2, <1>3
<1>5. /\ IsCounters(r)
      /\ r.state = IF n = 1 THEN State(battery.status) ELSE c.state
      /\ r.now = IF n = 3 THEN battery.now
                 ELSE IF gauge = "charge" /\ n = 6 THEN c.now * battery.volts ELSE c.now
      /\ r.full = IF n = 4 THEN battery.full
                  ELSE IF gauge = "charge" /\ n = 6 THEN c.full * battery.volts ELSE c.full
      /\ r.power = IF (gauge = "energy" /\ n = 6) \/ (gauge = "charge" /\ n = 7)
                   THEN Signed(battery.power, c.state)
                   ELSE IF gauge = "charge" /\ n = 8 THEN c.power * battery.volts ELSE c.power
      /\ battery = NoBattery /\ c = NoCounters => r = NoCounters
  BY <1>1, FieldsRead
<1>6. StateSeen(next, r)
  <2>1. CASE n = 1
    BY <1>5, <2>1, StateIsCharging DEF StateSeen
  <2>2. CASE n # 1
    BY <1>4, <1>5, <2>2 DEF Gathered, StateSeen
  <2>. QED  BY <2>1, <2>2
<1>7. CASE ~(gauge = "charge" /\ n = 8)
  <2>1. PowerSeen(next, r)
    <3>1. CASE (gauge = "energy" /\ n = 6) \/ (gauge = "charge" /\ n = 7)
      <4>1. /\ r.power = Signed(battery.power, c.state) /\ r.state = c.state
            /\ battery.power \in Nat /\ next > 1
        BY <1>1, <1>4, <1>5, <3>1 DEF IsBattery
      <4>2. CASE c.state = "Charging"
        BY <4>1, <4>2 DEF PowerSeen, Signed
      <4>3. CASE c.state # "Charging"
        BY <4>1, <4>3 DEF PowerSeen, Signed
      <4>. QED  BY <4>2, <4>3
    <3>2. CASE ~((gauge = "energy" /\ n = 6) \/ (gauge = "charge" /\ n = 7))
      <4>1. r.power = c.power
        BY <1>5, <1>7, <3>2
      <4>2. CASE n = 1
        <5>1. r.power = 0
          BY <4>1, <4>2, NothingThere DEF Gathered
        <5>. QED  BY <5>1 DEF PowerSeen
      <4>3. CASE n # 1
        <5>1. r.state = c.state /\ next > 1
          BY <1>4, <1>5, <4>3
        <5>. QED  BY <4>1, <5>1 DEF Gathered, PowerSeen
      <4>. QED  BY <4>2, <4>3
    <3>. QED  BY <3>1, <3>2
  <2>2. AmountsSeen(r, IF next > 6 THEN SeenVolts ELSE {1})
    <3>1. CASE n = 3 /\ ~Present
      <4>1. r.now = 0 /\ r.full = 0
        <5>1. battery.now = 0 /\ n = 3
          BY <3>1, NothingThere DEF Present
        <5>2. c.full = 0
          BY <5>1 DEF Gathered
        <5>. QED  BY <1>5, <5>1, <5>2
      <4>2. AmountsSeen(r, SeenVolts)
        BY <4>1, NothingIsSeen
      <4>3. next > 6 \/ SeenVolts = {1}
        BY <1>3, <3>1, VoltsSeen
      <4>. QED  BY <4>2, <4>3
    <3>2. CASE gauge = "charge" /\ n = 6
      <4>1. next > 6 /\ battery.volts \in SeenVolts /\ battery.volts \in Nat
        BY <1>1, <1>3, <3>2, VoltsSeen DEF IsBattery
      <4>2. PICK b \in batterySeen : c.now <= b.now * 1
        BY <3>2 DEF Gathered, AmountsSeen, Scales
      <4>3. PICK d \in batterySeen : c.full <= d.full * 1
        BY <3>2 DEF Gathered, AmountsSeen, Scales
      <4>4. PICK x \in Nat, y \in Nat, z \in Nat, w \in Nat, v \in Nat :
              x = c.now /\ y = b.now /\ z = c.full /\ w = d.full /\ v = battery.volts
        BY <1>1, <4>1 DEF IsCounters, IsBattery
      <4>5. x <= y /\ z <= w
        BY <4>2, <4>3, <4>4
      <4>6. r.now = x * v /\ r.full = z * v
        BY <1>5, <3>2, <4>4
      <4>7. r.now <= b.now * v /\ r.full <= d.full * v
        BY <4>4, <4>5, <4>6, ProductsOrdered
      <4>. QED  BY <4>1, <4>4, <4>7 DEF AmountsSeen
    <3>3. CASE ~(n = 3 /\ ~Present) /\ ~(gauge = "charge" /\ n = 6)
      <4>1. Scales(n) = (IF next > 6 THEN SeenVolts ELSE {1})
        <5>1. CASE gauge = "energy"
          BY <5>1, VoltsSeen DEF Scales
        <5>2. CASE gauge = "charge"
          <6>1. next > 6 <=> n > 6
            BY <1>2, <1>3, <3>3, <5>2
          <6>. QED  BY <6>1 DEF Scales
        <5>. QED  BY <5>1, <5>2
      <4>2. (r.now = c.now \/ (n = 3 /\ r.now = battery.now)) /\ (r.full = c.full \/ (n = 4 /\ r.full = battery.full))
        BY <1>5, <3>3
      <4>3. n <= 4 => Scales(n) = {1}
        BY <1>4 DEF Scales
      <4>4. battery.now <= battery.now * 1 /\ battery.full <= battery.full * 1
        BY <1>1 DEF IsBattery
      <4>5. \E b \in batterySeen, v \in Scales(n) : r.now <= b.now * v
        <5>1. CASE r.now = c.now
          BY <5>1 DEF Gathered, AmountsSeen
        <5>2. CASE n = 3 /\ r.now = battery.now
          BY <4>3, <4>4, <5>2
        <5>. QED  BY <4>2, <5>1, <5>2
      <4>6. \E b \in batterySeen, v \in Scales(n) : r.full <= b.full * v
        <5>1. CASE r.full = c.full
          BY <5>1 DEF Gathered, AmountsSeen
        <5>2. CASE n = 4 /\ r.full = battery.full
          BY <4>3, <4>4, <5>2
        <5>. QED  BY <4>2, <5>1, <5>2
      <4>. QED  BY <4>1, <4>5, <4>6 DEF AmountsSeen
    <3>. QED  BY <3>1, <3>2, <3>3
  <2>3. batterySeen = {NoBattery} => r = NoCounters
    BY <1>5 DEF Gathered
  <2>4. CASE next <= Len(BatteryFiles)
    <3>1. next \in 1 .. Len(BatteryFiles) /\ next # 1
      BY <1>2, <1>4, <2>4
    <3>2. next <= 4 => r.full = 0
      BY <1>4, <1>5 DEF Gathered
    <3>. QED  BY <1>5, <1>6, <2>1, <2>2, <2>3, <2>4, <3>1, <3>2 DEF Gathered, Scales
  <2>5. CASE ~(next <= Len(BatteryFiles))
    <3>1. next > 6
      <4>1. gauge = "energy" => ~(next <= 6)
        BY <1>2, <2>5
      <4>2. gauge = "charge" => ~(next <= 8)
        BY <1>2, <2>5
      <4>. QED  BY <1>4, <4>1, <4>2
    <3>2. r.power # 0 => \E b \in batterySeen, v \in SeenVolts :
                            r.power = b.power * v \/ r.power = -(b.power * v)
      <4>1. CASE gauge = "energy"
        <5> SUFFICES ASSUME r.power # 0
                     PROVE  \E b \in batterySeen, v \in SeenVolts :
                              r.power = b.power * v \/ r.power = -(b.power * v)
          OBVIOUS
        <5>1. PICK b \in batterySeen : r.power = b.power \/ r.power = -b.power
          BY <2>1 DEF PowerSeen
        <5>2. b.power * 1 = b.power
          BY DEF IsBattery
        <5>. QED  BY <4>1, <5>1, <5>2, VoltsSeen
      <4>2. CASE gauge = "charge"
        <5>1. n = 7 /\ ~Present
          <6>1. n \in 1..8 /\ n # 8 /\ ~(next <= 8)
            BY <1>2, <1>7, <2>5, <4>2
          <6>2. next = IF n = 3 /\ ~Present THEN 7 ELSE IF n = 7 /\ ~Present THEN 9 ELSE n + 1
            BY <1>3, <4>2
          <6>. QED  BY <6>1, <6>2
        <5>2. r.power = 0
          <6>1. battery.power = 0
            BY <5>1, NothingThere DEF Present
          <6>2. r.power = Signed(battery.power, c.state)
            BY <1>5, <4>2, <5>1
          <6>. QED  BY <6>1, <6>2, SignedZero
        <5>. QED  BY <5>2
      <4>. QED  BY <4>1, <4>2
    <3>3. /\ r.power > 1 => \E b \in batterySeen : b.status # "Charging"
          /\ r.power < -1 => \E b \in batterySeen : b.status = "Charging"
      <4>1. r.power \in Int
        BY <1>5 DEF IsCounters
      <4>. QED  BY <1>6, <2>1, <4>1 DEF StateSeen, PowerSeen
    <3>. QED  BY <1>5, <2>2, <2>3, <2>5, <3>1, <3>2, <3>3 DEF AllRead
  <2>. QED  BY <2>4, <2>5
<1>8. CASE gauge = "charge" /\ n = 8
  <2>1. ~(next <= Len(BatteryFiles))
    <3>1. next = IF n = 3 /\ ~Present THEN 7 ELSE IF n = 7 /\ ~Present THEN 9 ELSE n + 1
      BY <1>3, <1>8
    <3>2. next = 9 /\ Len(BatteryFiles) = 8
      BY <1>2, <1>8, <3>1
    <3>. QED  BY <3>2
  <2>2. PICK p \in Int, v \in Nat : p = c.power /\ v = battery.volts
    BY <1>1 DEF IsCounters, IsBattery
  <2>3. r.power = p * v /\ v \in SeenVolts
    BY <1>5, <1>8, <2>2, VoltsSeen
  <2>4. /\ p > 0 => \E b \in batterySeen : b.status # "Charging"
        /\ p < 0 => \E b \in batterySeen : b.status = "Charging"
    BY <1>8, <2>2 DEF Gathered, StateSeen, PowerSeen
  <2>5. /\ p * v > 1 => p > 0
        /\ p * v < -1 => p < 0
        /\ p * v # 0 => p # 0
    OBVIOUS
  <2>6. r.power # 0 => \E b \in batterySeen, x \in SeenVolts :
                          r.power = b.power * x \/ r.power = -(b.power * x)
    <3> SUFFICES ASSUME r.power # 0
                 PROVE  \E b \in batterySeen, x \in SeenVolts :
                          r.power = b.power * x \/ r.power = -(b.power * x)
      OBVIOUS
    <3>1. PICK b \in batterySeen : p = b.power \/ p = -b.power
      BY <2>2, <2>3, <2>5 DEF Gathered, PowerSeen
    <3>2. PICK q \in Nat : q = b.power
      BY DEF IsBattery
    <3>3. p * v = q * v \/ p * v = -(q * v)
      BY <3>1, <3>2
    <3>. QED  BY <2>3, <3>2, <3>3
  <2>7. AmountsSeen(r, SeenVolts)
    <3>1. r.now = c.now /\ r.full = c.full /\ Scales(n) = SeenVolts
      BY <1>5, <1>8 DEF Scales
    <3>. QED  BY <3>1 DEF Gathered, AmountsSeen
  <2>8. batterySeen = {NoBattery} => r = NoCounters
    BY <1>5 DEF Gathered
  <2>. QED  BY <1>5, <2>1, <2>3, <2>4, <2>5, <2>6, <2>7, <2>8 DEF AllRead
<1>. QED  BY <1>7, <1>8

-----------------------------------------------------------------------------
(* What is estimated.                                                        *)

SeenPowers == {b.power * v : b \in batterySeen, v \in SeenVolts}
LongestFor(energy) == (energy * Max(SeenVolts) * 36000) \div Min({p \in SeenPowers : p > 1})

EstimatesOf(e) ==
    /\ e.timeToEmpty = 0 \/ e.timeToFull = 0
    /\ e.timeToEmpty > 0 => /\ \E b \in batterySeen : b.status # "Charging"
                            /\ e.timeToEmpty <= LongestFor(Max({b.now : b \in batterySeen}))
    /\ e.timeToFull > 0 => /\ \E b \in batterySeen : b.status = "Charging"
                           /\ e.timeToFull <= LongestFor(Max({b.full : b \in batterySeen}))
    /\ batterySeen = {NoBattery} /\ gauge # "none" => e = NoCounters

LEMMA EstimatesAre == EstimatesTrue <=> (power = NotReadingPower => EstimatesOf(powerShown))
  BY DEF EstimatesTrue, EstimatesOf, LongestFor, SeenPowers, SeenVolts

LEMMA SharesOrdered ==
    ASSUME NEW x \in Nat, NEW y \in Nat, x <= y, NEW p \in Nat, NEW m \in Nat \ {0}, m <= p
    PROVE  Share(x * 36000, p) <= Share(y * 36000, m)
<1>1. PICK c \in Nat, d \in Nat : c = x * 36000 /\ d = y * 36000 /\ c <= d
  OBVIOUS
<1>2. Share(c, p) <= Share(d, m)
  BY <1>1, QuotientsOrdered
<1>. QED  BY <1>1, <1>2

(* An energy no greater than that of a battery seen times a voltage seen, at  *)
(* a power seen, lasts no longer than the greatest of them at the least.      *)
LEMMA LastsNoLonger ==
    ASSUME NEW E \in SUBSET Nat, IsFiniteSet(E), NEW V \in SUBSET Nat, IsFiniteSet(V),
           NEW P \in SUBSET Nat
    PROVE  \A x \in Nat, e \in E, v \in V, p \in P : x <= e * v /\ p > 1 =>
             (x * 36000) \div p <= (Max(E) * Max(V) * 36000) \div Min({q \in P : q > 1})
<1> SUFFICES ASSUME NEW x \in Nat, NEW e \in E, NEW v \in V, NEW p \in P, x <= e * v, p > 1
             PROVE  (x * 36000) \div p <= (Max(E) * Max(V) * 36000) \div Min({q \in P : q > 1})
  OBVIOUS
<1>1. PICK a \in Nat : a = Max(E) /\ e <= a
  BY MaxIsGreatest
<1>2. PICK b \in Nat : b = Max(V) /\ v <= b
  BY MaxIsGreatest
<1>3. PICK Q \in SUBSET Nat : Q = {q \in P : q > 1}
  OBVIOUS
<1>4. PICK m : m = Min(Q)
  OBVIOUS
<1>5. m \in Nat \ {0} /\ m <= p
  <2>1. p \in Q /\ Q # {}
    BY <1>3
  <2>2. m \in Q /\ m <= p
    BY <1>4, <2>1, MinIsLeast
  <2>3. \A q \in Q : q \in Nat \ {0}
    BY <1>3
  <2>. QED  BY <2>2, <2>3
<1>6. e \in Nat /\ v \in Nat /\ p \in Nat
  OBVIOUS
<1>7. e * v <= a * v /\ a * v <= a * b
  <2>1. e * v <= a * v
    BY <1>1, <1>6, ProductsOrdered
  <2>2. v * a <= b * a
    BY <1>2, <1>6, ProductsOrdered
  <2>3. v * a = a * v /\ b * a = a * b
    BY <1>6
  <2>. QED  BY <2>1, <2>2, <2>3
<1>8. PICK y \in Nat : y = a * b /\ x <= y
  <2>1. a * b \in Nat /\ a * v \in Nat /\ e * v \in Nat
    BY <1>6
  <2>. QED  BY <1>7, <2>1
<1>9. Share(x * 36000, p) <= Share(y * 36000, m)
  BY <1>5, <1>6, <1>8, SharesOrdered
<1>. QED  BY <1>1, <1>2, <1>3, <1>4, <1>8, <1>9 DEF Share

LEMMA EstimatesHold ==
    ASSUME gauge \in {"energy", "charge"}, battery \in batterySeen,
           IsFiniteSet(batterySeen), \A b \in batterySeen : IsBattery(b), NEW c, AllRead(c)
    PROVE  EstimatesOf(Estimated(c))
<1>1. PICK e : e = Estimated(c)
  OBVIOUS
<1>2. IsCounters(c)
  BY DEF AllRead
<1>3. e.timeToEmpty = TimeToEmpty(c) /\ e.timeToFull = TimeToFull(c)
  <2>1. c = [state |-> c.state, isOnAc |-> c.isOnAc, percent |-> c.percent, now |-> c.now,
             full |-> c.full, design |-> c.design, power |-> c.power, health |-> c.health,
             timeToEmpty |-> c.timeToEmpty, timeToFull |-> c.timeToFull]
    BY <1>2 DEF IsCounters
  <2>2. e = [state |-> c.state, isOnAc |-> c.isOnAc, percent |-> c.percent, now |-> c.now,
             full |-> c.full, design |-> c.design, power |-> c.power, health |-> Health(c),
             timeToEmpty |-> TimeToEmpty(c), timeToFull |-> TimeToFull(c)]
    BY <1>1, <2>1 DEF Estimated
  <2>. QED  BY <2>2
<1>4. PICK V : V = SeenVolts
  OBVIOUS
<1>5. V \in SUBSET Nat /\ IsFiniteSet(V)
  <2>1. V \in SUBSET Nat
    BY <1>4, VoltsSeen
  <2>2. CASE gauge = "energy"
    BY <1>4, <2>2, VoltsSeen, FS_Singleton
  <2>3. CASE gauge = "charge"
    <3>1. PICK f : f = [b \in batterySeen |-> b.volts]
      OBVIOUS
    <3>2. V = {f[b] : b \in batterySeen}
      BY <1>4, <2>3, <3>1 DEF SeenVolts
    <3>. QED  BY <2>1, <3>2, ImageFinite
  <2>. QED  BY <2>1, <2>2, <2>3
<1>6. PICK P : P = SeenPowers
  OBVIOUS
<1>7. P \in SUBSET Nat /\ \A b \in batterySeen, v \in V : b.power * v \in P
  <2>1. ASSUME NEW b \in batterySeen, NEW v \in V PROVE b.power * v \in Nat
    <3>1. b.power \in Nat /\ v \in Nat
      BY <1>5 DEF IsBattery
    <3>. QED  BY <3>1, ProductsAre
  <2>. QED  BY <1>4, <1>6, <2>1 DEF SeenPowers
<1>8. PICK N : N = {b.now : b \in batterySeen}
  OBVIOUS
<1>9. N \in SUBSET Nat /\ IsFiniteSet(N)
  <2>1. PICK f : f = [b \in batterySeen |-> b.now]
    OBVIOUS
  <2>2. N = {f[b] : b \in batterySeen}
    BY <1>8, <2>1
  <2>3. IsFiniteSet({f[b] : b \in batterySeen})
    BY ImageFinite
  <2>4. \A b \in batterySeen : b.now \in Nat
    BY DEF IsBattery
  <2>. QED  BY <1>8, <2>2, <2>3, <2>4
<1>10. PICK F : F = {b.full : b \in batterySeen}
  OBVIOUS
<1>11. F \in SUBSET Nat /\ IsFiniteSet(F)
  <2>1. PICK f : f = [b \in batterySeen |-> b.full]
    OBVIOUS
  <2>2. F = {f[b] : b \in batterySeen}
    BY <1>10, <2>1
  <2>3. IsFiniteSet({f[b] : b \in batterySeen})
    BY ImageFinite
  <2>4. \A b \in batterySeen : b.full \in Nat
    BY DEF IsBattery
  <2>. QED  BY <1>10, <2>2, <2>3, <2>4
<1>12. c.now \in Nat /\ c.full \in Nat /\ c.power \in Int
  BY <1>2 DEF IsCounters
<1>13. e.timeToEmpty = 0 \/ e.timeToFull = 0
  BY <1>3, <1>12 DEF TimeToEmpty, TimeToFull
<1>14. ASSUME e.timeToEmpty > 0
       PROVE  /\ \E b \in batterySeen : b.status # "Charging"
              /\ e.timeToEmpty <= LongestFor(Max(N))
  <2>1. /\ c.power > 1 /\ c.now > 0
        /\ e.timeToEmpty = (c.now * 36000) \div c.power
    BY <1>3, <1>14 DEF TimeToEmpty
  <2>2. c.power \in P
    <3>1. PICK b \in batterySeen, v \in V : c.power = b.power * v \/ c.power = -(b.power * v)
      BY <1>4, <1>12, <2>1 DEF AllRead
    <3>2. b.power * v \in Nat /\ b.power * v \in P
      BY <1>7
    <3>. QED  BY <2>1, <3>1, <3>2
  <2>3. PICK b \in batterySeen, v \in V : c.now <= b.now * v
    BY <1>4 DEF AllRead, AmountsSeen
  <2>4. b.now \in N
    BY <1>8
  <2>5. (c.now * 36000) \div c.power <= (Max(N) * Max(V) * 36000) \div Min({q \in P : q > 1})
    <3>1. \A x \in Nat, e1 \in N, v1 \in V, p \in P : x <= e1 * v1 /\ p > 1 =>
            (x * 36000) \div p <= (Max(N) * Max(V) * 36000) \div Min({q \in P : q > 1})
      BY <1>5, <1>7, <1>9, LastsNoLonger
    <3>. QED  BY <1>12, <2>1, <2>2, <2>3, <2>4, <3>1
  <2>. QED  BY <1>4, <1>6, <2>1, <2>5 DEF AllRead, LongestFor
<1>15. ASSUME e.timeToFull > 0
       PROVE  /\ \E b \in batterySeen : b.status = "Charging"
              /\ e.timeToFull <= LongestFor(Max(F))
  <2>1. /\ c.power < -1 /\ c.full > c.now
        /\ e.timeToFull = ((c.full - c.now) * 36000) \div (-c.power)
    BY <1>3, <1>15 DEF TimeToFull
  <2>2. PICK p : p = -c.power
    OBVIOUS
  <2>3. p \in P /\ p > 1
    <3>1. PICK b \in batterySeen, v \in V : c.power = b.power * v \/ c.power = -(b.power * v)
      BY <1>4, <1>12, <2>1 DEF AllRead
    <3>2. b.power * v \in Nat /\ b.power * v \in P
      BY <1>7
    <3>3. PICK q \in Nat : q = b.power * v /\ q \in P
      BY <3>2
    <3>4. c.power = -q
      BY <1>12, <2>1, <3>1, <3>3
    <3>. QED  BY <1>12, <2>1, <2>2, <3>3, <3>4
  <2>4. PICK b \in batterySeen, v \in V : c.full <= b.full * v
    BY <1>4 DEF AllRead, AmountsSeen
  <2>5. b.full \in F
    BY <1>10
  <2>6. PICK x \in Nat : x = c.full - c.now /\ x <= c.full
    BY <1>12, <2>1
  <2>7. x <= b.full * v
    <3>1. b.full * v \in Int
      <4>1. b.full \in Nat /\ v \in Nat
        BY <1>5 DEF IsBattery
      <4>. QED  BY <4>1
    <3>. QED  BY <1>12, <2>4, <2>6, <3>1
  <2>8. (x * 36000) \div p <= (Max(F) * Max(V) * 36000) \div Min({q \in P : q > 1})
    <3>1. \A x1 \in Nat, e1 \in F, v1 \in V, p1 \in P : x1 <= e1 * v1 /\ p1 > 1 =>
            (x1 * 36000) \div p1 <= (Max(F) * Max(V) * 36000) \div Min({q \in P : q > 1})
      BY <1>5, <1>7, <1>11, LastsNoLonger
    <3>. QED  BY <2>3, <2>5, <2>6, <2>7, <3>1
  <2>. QED  BY <1>4, <1>6, <2>1, <2>2, <2>6, <2>8 DEF AllRead, LongestFor
<1>16. batterySeen = {NoBattery} /\ gauge # "none" => e = NoCounters
  <2> SUFFICES ASSUME batterySeen = {NoBattery} PROVE e = NoCounters
    OBVIOUS
  <2>1. c = NoCounters
    BY DEF AllRead
  <2>2. /\ Health(c) = -1 /\ TimeToEmpty(c) = 0 /\ TimeToFull(c) = 0
    <3>1. c.power = 0 /\ c.now = 0 /\ c.full = 0 /\ c.design = 0
      BY <2>1, NothingThere
    <3>2. ~(c.power > 1) /\ ~(c.power < -1) /\ ~(c.design > 0)
      BY <3>1
    <3>. QED  BY <3>2 DEF Health, TimeToEmpty, TimeToFull
  <2>3. e = [NoCounters EXCEPT !.health = -1, !.timeToEmpty = 0, !.timeToFull = 0]
    BY <1>1, <2>1, <2>2 DEF Estimated
  <2>. QED  BY <2>3 DEF NoCounters
<1>. QED  BY <1>1, <1>8, <1>10, <1>13, <1>14, <1>15, <1>16 DEF EstimatesOf

-----------------------------------------------------------------------------
(* The invariant.                                                            *)

LEMMA CountersOfReading ==
    \A n, c : /\ [step |-> n, counters |-> c] # NotReadingPower
              /\ [step |-> n, counters |-> c].step = n
              /\ [step |-> n, counters |-> c].counters = c
<1>1. ASSUME NEW n, NEW c PROVE [step |-> n, counters |-> c] # NotReadingPower
  <2>1. "counters" \in DOMAIN [step |-> n, counters |-> c]
    OBVIOUS
  <2>2. "counters" \notin DOMAIN NotReadingPower
    BY DEF NotReadingPower
  <2>. QED  BY <2>1, <2>2
<1>. QED  BY <1>1

(* Another battery only adds to what was seen. *)
LEMMA GatheredGrows ==
    ASSUME batterySeen \subseteq batterySeen', batterySeen # {}, gauge' = gauge,
           NEW n, NEW c, Gathered(n, c)
    PROVE  Gathered(n, c)'
<1>1. Len(BatteryFiles)' = Len(BatteryFiles)
  BY DEF BatteryFiles
<1>2. batterySeen' = {NoBattery} => batterySeen = {NoBattery}
  OBVIOUS
<1>3. StateSeen(n, c)'
  BY DEF Gathered, StateSeen
<1>4. PowerSeen(n, c)'
  BY DEF Gathered, PowerSeen
<1>5. SeenVolts \subseteq SeenVolts'
  BY DEF SeenVolts
<1>6. Scales(n) \subseteq Scales(n)'
  BY <1>5 DEF Scales
<1>7. AmountsSeen(c, Scales(n))'
  <2>1. PICK b \in batterySeen, v \in Scales(n) : c.now <= b.now * v
    BY DEF Gathered, AmountsSeen
  <2>2. PICK d \in batterySeen, w \in Scales(n) : c.full <= d.full * w
    BY DEF Gathered, AmountsSeen
  <2>3. b \in batterySeen' /\ v \in Scales(n)' /\ d \in batterySeen' /\ w \in Scales(n)'
    BY <1>6
  <2>. QED  BY <2>1, <2>2, <2>3 DEF AmountsSeen
<1>. QED  BY <1>1, <1>2, <1>3, <1>4, <1>7 DEF Gathered, IsCounters

(* Nothing is read yet. *)
LEMMA NothingGathered ==
    gauge \in {"energy", "charge"} /\ batterySeen # {} /\ (\A b \in batterySeen : IsBattery(b))
        => Gathered(1, NoCounters)
<1> SUFFICES ASSUME gauge \in {"energy", "charge"}, batterySeen # {}, \A b \in batterySeen : IsBattery(b)
             PROVE  Gathered(1, NoCounters)
  OBVIOUS
<1>1. 1 \in 1 .. Len(BatteryFiles)
  BY EnergyFiles, ChargeFiles
<1>2. AmountsSeen(NoCounters, Scales(1))
  <2>1. PICK b : b \in batterySeen
    OBVIOUS
  <2>2. PICK x \in Nat, y \in Nat : x = b.now /\ y = b.full
    BY <2>1 DEF IsBattery
  <2>3. 0 <= x * 1 /\ 0 <= y * 1
    OBVIOUS
  <2>4. NoCounters.now <= b.now * 1 /\ NoCounters.full <= b.full * 1
    BY <2>2, <2>3, NothingThere
  <2>5. Scales(1) = {1}
    BY DEF Scales
  <2>. QED  BY <2>1, <2>4, <2>5 DEF AmountsSeen
<1>. QED  BY <1>1, <1>2, NoCountersAre DEF Gathered, StateSeen, PowerSeen

(* The invariant holds of what discoverBatteries finds, *)
LEMMA PowerInvInit == PowerInit => PowerInv
<1> SUFFICES ASSUME PowerInit PROVE PowerInv
  OBVIOUS
<1>1. gauge \in {"energy", "charge", "none"}
  BY PowerAssumption DEF PowerInit
<1>2. IsBattery(battery)
  BY BatteriesAre DEF PowerInit
<1>3. power = NotReadingPower /\ batterySeen = {battery} /\ powerShown = NoCounters
  BY DEF PowerInit
<1>4. IsFiniteSet(batterySeen)
  BY <1>3, FS_Singleton
<1>5. EstimatesOf(NoCounters)
  <2>1. ASSUME NEW e, e.timeToEmpty = 0, e.timeToFull = 0, e = NoCounters PROVE EstimatesOf(e)
    BY <2>1 DEF EstimatesOf
  <2>. QED  BY <2>1, NothingThere
<1>6. EstimatesTrue
  BY <1>3, <1>5, EstimatesAre
<1>. QED  BY <1>1, <1>2, <1>3, <1>4, <1>6 DEF PowerInv

(* and every step keeps it. *)
LEMMA PowerInvStep == PowerInv /\ [PowerNext]_powerVars => PowerInv'
<1> SUFFICES ASSUME PowerInv, [PowerNext]_powerVars PROVE PowerInv'
  OBVIOUS
<1> USE DEF PowerInv
<1>1. CASE UNCHANGED powerVars
  <2>1. /\ gauge' = gauge /\ battery' = battery /\ power' = power
        /\ powerShown' = powerShown /\ batterySeen' = batterySeen
    BY <1>1 DEF powerVars
  <2>2. EstimatesTrue'
    BY <2>1 DEF EstimatesTrue
  <2>3. power' # NotReadingPower =>
          gauge' # "none" /\ \E n, c : power' = [step |-> n, counters |-> c] /\ Gathered(n, c)'
    BY <2>1, GatheredGrows
  <2>. QED  BY <2>1, <2>2, <2>3
<1>2. CASE BatteryChange
  <2>1. /\ gauge' = gauge /\ power' = power /\ powerShown' = powerShown
        /\ battery' \in Batteries \cup {NoBattery}
        /\ batterySeen' = IF power = NotReadingPower THEN batterySeen ELSE batterySeen \cup {battery'}
    BY <1>2 DEF BatteryChange
  <2>2. IsBattery(battery')
    BY <2>1, BatteriesAre
  <2>3. CASE power = NotReadingPower
    <3>1. EstimatesTrue'
      BY <2>1, <2>3 DEF EstimatesTrue
    <3>. QED  BY <2>1, <2>2, <2>3, <3>1
  <2>4. CASE power # NotReadingPower
    <3>1. batterySeen' = batterySeen \cup {battery'}
      BY <2>1, <2>4
    <3>2. IsFiniteSet(batterySeen') /\ batterySeen' # {} /\ battery' \in batterySeen'
      BY <3>1, FS_AddElement
    <3>3. \A b \in batterySeen' : IsBattery(b)
      BY <2>2, <3>1
    <3>4. PICK n, c : power = [step |-> n, counters |-> c] /\ Gathered(n, c)
      BY <2>4
    <3>5. Gathered(n, c)'
      BY <2>1, <3>1, <3>4, GatheredGrows
    <3>6. EstimatesTrue'
      BY <2>1, <2>4 DEF EstimatesTrue
    <3>. QED  BY <2>1, <2>2, <2>4, <3>2, <3>3, <3>4, <3>5, <3>6
  <2>. QED  BY <2>3, <2>4
<1>3. CASE ReadPower
  <2>1. /\ power = NotReadingPower /\ batterySeen' = {battery}
        /\ gauge' = gauge /\ battery' = battery
    BY <1>3 DEF ReadPower
  <2>2. /\ IsFiniteSet(batterySeen') /\ batterySeen' # {} /\ battery' \in batterySeen'
        /\ \A b \in batterySeen' : IsBattery(b)
    BY <2>1, FS_Singleton
  <2>3. CASE gauge = "none"
    <3>1. power' = power /\ powerShown' = [NoCounters EXCEPT !.state = "NotPresent", !.isOnAc = TRUE]
      BY <1>3, <2>3 DEF ReadPower
    <3>2. powerShown'.timeToEmpty = 0 /\ powerShown'.timeToFull = 0
      BY <3>1 DEF NoCounters
    <3>3. EstimatesOf(powerShown)'
      BY <2>1, <2>3, <3>2 DEF EstimatesOf
    <3>4. EstimatesTrue'
      BY <3>3, EstimatesAre, PTL
    <3>. QED  BY <2>1, <2>2, <3>1, <3>4
  <2>4. CASE gauge # "none"
    <3>1. power' = [step |-> 1, counters |-> NoCounters]
      BY <1>3, <2>4 DEF ReadPower
    <3>2. Gathered(1, NoCounters)'
      <4>1. (gauge \in {"energy", "charge"})' /\ (batterySeen # {})' /\ (\A b \in batterySeen : IsBattery(b))'
        BY <2>1, <2>2, <2>4
      <4>. QED  BY <4>1, NothingGathered, PTL
    <3>3. power' # NotReadingPower
      BY <3>1, CountersOfReading
    <3>4. EstimatesTrue'
      BY <3>3 DEF EstimatesTrue
    <3>. QED  BY <2>1, <2>2, <2>4, <3>1, <3>2, <3>4
  <2>. QED  BY <2>3, <2>4
<1>4. CASE ReadBattery
  <2>1. /\ power # NotReadingPower /\ batterySeen' = batterySeen
        /\ gauge' = gauge /\ battery' = battery
    BY <1>4 DEF ReadBattery
  <2>2. PICK n, c : power = [step |-> n, counters |-> c] /\ Gathered(n, c)
    BY <2>1
  <2>3. power.step = n /\ power.counters = c
    BY <2>2, CountersOfReading
  <2>4. PICK r, next : r = ReadFile(c, n) /\ next = AfterFile(n)
    OBVIOUS
  <2>5. gauge \in {"energy", "charge"} /\ battery \in batterySeen
    BY <2>1
  <2>6. /\ next <= Len(BatteryFiles) => Gathered(next, r)
        /\ ~(next <= Len(BatteryFiles)) => AllRead(r)
    BY <2>2, <2>4, <2>5, FileRead
  <2>7. CASE next <= Len(BatteryFiles)
    <3>1. power' = [step |-> next, counters |-> r]
      BY <1>4, <2>3, <2>4, <2>7 DEF ReadBattery
    <3>2. Gathered(next, r)'
      BY <2>1, <2>6, <2>7, GatheredGrows
    <3>3. EstimatesTrue'
      BY <3>1, CountersOfReading DEF EstimatesTrue
    <3>. QED  BY <2>1, <2>5, <3>1, <3>2, <3>3
  <2>8. CASE ~(next <= Len(BatteryFiles))
    <3>1. power' = NotReadingPower /\ powerShown' = Estimated(r)
      BY <1>4, <2>3, <2>4, <2>8 DEF ReadBattery
    <3>2. EstimatesOf(Estimated(r))
      BY <2>5, <2>6, <2>8, EstimatesHold
    <3>3. EstimatesOf(powerShown)'
      BY <2>1, <3>1, <3>2 DEF EstimatesOf, LongestFor, SeenPowers, SeenVolts
    <3>4. EstimatesTrue'
      BY <3>3, EstimatesAre, PTL
    <3>. QED  BY <2>1, <2>5, <3>1, <3>4
  <2>. QED  BY <2>7, <2>8
<1>. QED  BY <1>1, <1>2, <1>3, <1>4 DEF PowerNext

(* However the battery changes while its files are read one after another,    *)
(* the estimates shown are those some battery there was could have.           *)
THEOREM EstimatesAlwaysTrue == PowerSpec => []EstimatesTrue
<1>1. PowerInv => EstimatesTrue
  BY DEF PowerInv
<1>. QED  BY <1>1, PowerInvInit, PowerInvStep, PTL DEF PowerSpec

-----------------------------------------------------------------------------
(* The formats.  Induction: a set of naturals with 0 and with the next one of *)
(* each of its members has them all.                                         *)
LEMMA AllNaturals ==
    ASSUME NEW P \in SUBSET Nat, 0 \in P, \A n \in P : n + 1 \in P
    PROVE  P = Nat
<1> SUFFICES ASSUME Nat \ P # {} PROVE FALSE
  OBVIOUS
<1>1. PICK n \in Nat \ P : \A m \in Nat \ P : ~(<<m, n>> \in OpToRel(<, Nat))
  BY NatLessThanWellFounded, WFMin
<1>2. \A m \in Nat \ P : ~(m < n)
  BY <1>1 DEF OpToRel
<1>3. n # 0
  OBVIOUS
<1>4. n - 1 \in Nat /\ n - 1 < n /\ (n - 1) + 1 = n
  BY <1>3
<1>5. n - 1 \in P
  BY <1>2, <1>4
<1>. QED  BY <1>4, <1>5

-----------------------------------------------------------------------------
(* The rest of a division by unit, in tenths of it, rounded: the nearest.    *)
Nearest(value, unit, parts) ==
    LET off == (10 * parts.whole + parts.tenths) * unit - 10 * value
    IN  parts.tenths \in 0..9 /\ -unit <= 2 * off /\ 2 * off <= unit

LEMMA SplitNearest ==
    ASSUME NEW value \in Nat, NEW unit \in Nat \ {0}
    PROVE  /\ Nearest(value, unit, Split(value, unit))
           /\ Split(value, unit).whole \in Nat
           /\ unit * Split(value, unit).whole <= value + unit
           /\ Split(value, unit) = [whole |-> Split(value, unit).whole, tenths |-> Split(value, unit).tenths]
<1>1. PICK whole, rest : whole = value \div unit /\ rest = value % unit
  OBVIOUS
<1>2. whole \in Nat /\ rest \in 0..(unit - 1) /\ value = unit * whole + rest
  BY <1>1, DivisionNats
<1>3. PICK a, double : a = 20 * rest + unit /\ double = 2 * unit
  OBVIOUS
<1>4. a \in Nat /\ double \in Nat \ {0} /\ a < 11 * double /\ rest \in Nat
  BY <1>2, <1>3
<1>5. PICK tenths, over : tenths = a \div double /\ over = a % double
  OBVIOUS
<1>6. tenths \in Nat /\ over \in 0..(double - 1) /\ a = double * tenths + over
  BY <1>4, <1>5, DivisionNats
<1>7. PICK product : product = unit * tenths
  OBVIOUS
<1>8. PICK units : units = unit * whole
  OBVIOUS
<1>9. /\ product \in Nat /\ units \in Nat
      /\ 20 * rest + unit = 2 * product + over
      /\ over \in Nat /\ over < 2 * unit
      /\ value = units + rest /\ rest < unit
  BY <1>2, <1>3, <1>6, <1>7, <1>8
<1>10. tenths <= 10
  <2>1. SUFFICES ASSUME tenths >= 11 PROVE FALSE
    BY <1>6
  <2>2. product >= 11 * unit
    BY <1>6, <1>7, <2>1
  <2>3. 20 * rest + unit >= 22 * unit
    BY <1>6, <1>9, <2>2
  <2>. QED  BY <1>4, <1>9, <2>3
<1>11. Split(value, unit) = Carried(whole, tenths)
  BY <1>1, <1>3, <1>5 DEF Split
<1>12. CASE tenths >= 10
  <2>1. tenths = 10 /\ product = 10 * unit
    BY <1>6, <1>7, <1>10, <1>12
  <2>2. Split(value, unit) = [whole |-> whole + 1, tenths |-> 0]
    BY <1>11, <1>12 DEF Carried
  <2>3. (10 * (whole + 1) + 0) * unit = 10 * units + 10 * unit
    BY <1>2, <1>8
  <2>4. unit * (whole + 1) = units + unit
    BY <1>2, <1>8
  <2>. QED  BY <1>2, <1>9, <2>1, <2>2, <2>3, <2>4 DEF Nearest
<1>13. CASE tenths < 10
  <2>1. Split(value, unit) = [whole |-> whole, tenths |-> tenths]
    BY <1>6, <1>11, <1>13 DEF Carried
  <2>2. (10 * whole + tenths) * unit = 10 * units + product
    BY <1>2, <1>6, <1>7, <1>8
  <2>. QED  BY <1>2, <1>6, <1>8, <1>9, <1>13, <2>1, <2>2 DEF Nearest
<1>. QED  BY <1>6, <1>12, <1>13

LEMMA PercentNearest ==
    ASSUME NEW hundredths \in Nat
    PROVE  /\ Nearest(IF hundredths > 10000 THEN 10000 ELSE hundredths, 100, SplitPercent(hundredths))
           /\ SplitPercent(hundredths).whole \in 0..100
<1>1. PICK value \in Nat : value = (IF hundredths > 10000 THEN 10000 ELSE hundredths) /\ value <= 10000
  OBVIOUS
<1>2. PICK parts : parts = Split(value, 100)
  OBVIOUS
<1>3. PICK whole \in Nat, tenths \in 0..9 :
        /\ parts = [whole |-> whole, tenths |-> tenths]
        /\ -100 <= 2 * ((10 * whole + tenths) * 100 - 10 * value)
        /\ 2 * ((10 * whole + tenths) * 100 - 10 * value) <= 100
  BY <1>2, SplitNearest DEF Nearest
<1>4. whole <= 100
  BY <1>1, <1>3
<1>5. SplitPercent(hundredths) = parts
  BY <1>1, <1>2, <1>3, <1>4 DEF SplitPercent
<1>. QED  BY <1>1, <1>3, <1>4, <1>5 DEF Nearest

(* A size has one of the unit it is shown in, and none of the next. *)
LEMMA ScaleFits ==
    ASSUME NEW bytes \in Nat
    PROVE  /\ Scale(bytes) \in Nat \ {0}
           /\ Scale(bytes) > 1 => bytes >= Scale(bytes)
           /\ Scale(bytes) < Kilo * Kilo * Kilo => bytes < Scale(bytes) * Kilo
<1>1. PICK k \in Nat : k = Kilo /\ k >= 2
  BY FormatAssumption
<1>2. PICK mega, giga : mega = k * k /\ giga = k * k * k
  OBVIOUS
<1>3. mega \in Nat /\ giga \in Nat /\ mega >= 2 * k /\ giga = mega * k
  BY <1>1, <1>2
<1>4. giga >= 2 * mega
  BY <1>1, <1>3
<1>5. Scale(bytes) = IF bytes >= giga THEN giga ELSE IF bytes >= mega THEN mega ELSE IF bytes >= k THEN k ELSE 1
  BY <1>1, <1>2 DEF Scale
<1>. QED  BY <1>1, <1>2, <1>3, <1>4, <1>5

(* At most six separators among twenty digits. *)
LEMMA DigitsGrouped ==
    ASSUME NEW n \in 1..20
    PROVE  /\ SeparatorBefore(n) = {i \in 1..(n - 1) : (n - i) % 3 = 0}
           /\ BufferUsed(n) <= BufferSize
<1>1. n \in Nat /\ n >= 1 /\ n <= 20
  OBVIOUS
<1>2. PICK g : g = FirstGroup(n)
  OBVIOUS
<1>3. g \in 1..3 /\ (n - g) % 3 = 0 /\ g <= n
  BY <1>1, <1>2 DEF FirstGroup
<1>4. ASSUME NEW i \in 0..(n - 1)
      PROVE  i >= g /\ (i - g) % 3 = 0 <=> i >= 1 /\ (n - i) % 3 = 0
  BY <1>1, <1>3
<1>5. SeparatorBefore(n) = {i \in 1..(n - 1) : (n - i) % 3 = 0}
  BY <1>1, <1>2, <1>4 DEF SeparatorBefore
<1>6. PICK S : S = SeparatorBefore(n)
  OBVIOUS
<1>7. S \subseteq {n - 3, n - 6, n - 9, n - 12, n - 15, n - 18}
  BY <1>1, <1>5, <1>6
<1>8. PICK T : T = {n - 3, n - 6, n - 9, n - 12, n - 15, n - 18}
  OBVIOUS
<1>9. IsFiniteSet(T) /\ Cardinality(T) <= 6
  <2>0. \A b \in Nat \ {0} : IsFiniteSet(1..b) /\ Cardinality(1..b) = b
    BY FS_Interval
  <2>1. PICK six \in Nat \ {0} : six = 6
    OBVIOUS
  <2>2. PICK f : f = [k \in 1..six |-> n - 3 * k]
    OBVIOUS
  <2>3. f \in Surjection(1..six, T)
    BY <1>1, <1>8, <2>1, <2>2 DEF Surjection
  <2>4. IsFiniteSet(1..six) /\ Cardinality(1..six) = six
    BY ONLY <2>0, six \in Nat \ {0}
  <2>5. IsFiniteSet(T) /\ Cardinality(T) <= Cardinality(1..six)
    BY <2>3, <2>4, FS_Surjection
  <2>. QED  BY <2>1, <2>4, <2>5
<1>10. Cardinality(S) \in Nat /\ Cardinality(S) <= 6
  <2>1. IsFiniteSet(S) /\ Cardinality(S) <= Cardinality(T)
    BY <1>7, <1>8, <1>9, FS_Subset
  <2>2. Cardinality(S) \in Nat /\ Cardinality(T) \in Nat
    BY <1>9, <2>1, FS_CardinalityType
  <2>. QED  BY <1>9, <2>1, <2>2
<1>11. BufferUsed(n) = n + Cardinality(S) + 2
  BY <1>6 DEF BufferUsed
<1>. QED  BY <1>1, <1>5, <1>10, <1>11 DEF BufferSize

LEMMA DigitsAre == ASSUME argument \in Nat PROVE DigitsNearest
<1>1. Nearest(argument, Scale(argument), Split(argument, Scale(argument)))
  BY ScaleFits, SplitNearest
<1>2. 5 * argument \in Nat /\ 5 * argument = argument * 5
  OBVIOUS
<1>3. /\ Nearest(IF argument * 5 > 10000 THEN 10000 ELSE argument * 5, 100, SplitPercent(argument * 5))
      /\ SplitPercent(argument * 5).whole \in 0..100
  BY <1>2, PercentNearest
<1>4. PICK scale : scale = Scale(argument)
  OBVIOUS
<1>5. PICK percent : percent = IF argument * 5 > 10000 THEN 10000 ELSE argument * 5
  OBVIOUS
<1>6. PICK p, q : p = Split(argument, scale) /\ q = SplitPercent(argument * 5)
  OBVIOUS
<1>7. /\ Nearest(argument, scale, p)
      /\ scale > 1 => argument >= scale
      /\ scale < Kilo * Kilo * Kilo => argument < scale * Kilo
      /\ Nearest(percent, 100, q)
      /\ q.whole \in 0..100
  BY <1>1, <1>3, <1>4, <1>5, <1>6, ScaleFits
<1>8. argument \in 1..20 =>
         /\ SeparatorBefore(argument) = {i \in 1..(argument - 1) : (argument - i) % 3 = 0}
         /\ BufferUsed(argument) <= BufferSize
  BY DigitsGrouped
<1>. QED  BY <1>4, <1>5, <1>6, <1>7, <1>8 DEF DigitsNearest, Nearest

-----------------------------------------------------------------------------
(* The calendar: the function that LocalTime defines, and that it exists.    *)
YearOf(g, d, y) ==
    IF d < YearLength(y) THEN [year |-> y, yday |-> d] ELSE g[d - YearLength(y)][y + 1]

CountsYears(g) ==
    g = [d \in Nat |->
            [y \in Nat |-> IF d < YearLength(y) THEN [year |-> y, yday |-> d]
                           ELSE g[d - YearLength(y)][y + 1]]]

Local(d, y) == (CHOOSE g : CountsYears(g))[d][y]

LEMMA LocalTimeIs == \A day : LocalTime(day) = Local(day, firstYear)
  BY Zenon DEF LocalTime, Local, CountsYears

LEMMA YearsAre == \A y : YearLength(y) \in Nat /\ (YearLength(y) = 365 \/ YearLength(y) = 366)
  BY DEF YearLength

(* Right for the first k + 1 days after the start of any year. *)
RightUpTo(g, k) == \A d, y \in Nat : d <= k => g[d][y] = YearOf(g, d, y)

LEMMA NextDayRight ==
    ASSUME NEW g, NEW h, h = [d \in Nat |-> [y \in Nat |-> YearOf(g, d, y)]],
           NEW k \in Nat, \A d, y \in Nat : d < k => g[d][y] = YearOf(g, d, y)
    PROVE  RightUpTo(h, k)
<1>1. ASSUME NEW d \in Nat, NEW y \in Nat, d <= k PROVE h[d][y] = YearOf(h, d, y)
  <2>1. h[d][y] = YearOf(g, d, y)
    OBVIOUS
  <2>2. CASE d < YearLength(y)
    BY <2>1, <2>2 DEF YearOf
  <2>3. CASE ~(d < YearLength(y))
    <3>1. PICK c \in Nat : c = d - YearLength(y) /\ c < k
      BY <1>1, <2>3, YearsAre
    <3>2. y + 1 \in Nat
      OBVIOUS
    <3>3. h[c][y + 1] = YearOf(g, c, y + 1)
      BY <3>2
    <3>4. g[c][y + 1] = YearOf(g, c, y + 1)
      BY <3>1, <3>2
    <3>5. YearOf(g, d, y) = g[c][y + 1] /\ YearOf(h, d, y) = h[c][y + 1]
      BY <2>3, <3>1 DEF YearOf
    <3>. QED  BY <2>1, <3>3, <3>4, <3>5
  <2>. QED  BY <2>2, <2>3
<1>. QED  BY <1>1 DEF RightUpTo

LEMMA RightExists == ASSUME NEW k \in Nat PROVE \E g : RightUpTo(g, k)
<1> DEFINE P == {j \in Nat : \E g : RightUpTo(g, j)}
<1>1. 0 \in P
  <2>1. PICK h : h = [d \in Nat |-> [y \in Nat |-> YearOf(<<>>, d, y)]]
    OBVIOUS
  <2>2. \A d, y \in Nat : d < 0 => <<>>[d][y] = YearOf(<<>>, d, y)
    OBVIOUS
  <2>3. RightUpTo(h, 0)
    BY <2>1, <2>2, NextDayRight
  <2>. QED  BY <2>3
<1>2. ASSUME NEW j \in P PROVE j + 1 \in P
  <2>1. PICK g : RightUpTo(g, j)
    BY <1>2
  <2>2. PICK h : h = [d \in Nat |-> [y \in Nat |-> YearOf(g, d, y)]]
    OBVIOUS
  <2>3. \A d, y \in Nat : d < j + 1 => g[d][y] = YearOf(g, d, y)
    BY <2>1 DEF RightUpTo
  <2>4. RightUpTo(h, j + 1)
    <3>1. j + 1 \in Nat
      OBVIOUS
    <3> HIDE DEF P
    <3>. QED  BY <2>2, <2>3, <3>1, NextDayRight
  <2>. QED  BY <2>4
<1>3. P = Nat
  <2>1. P \in SUBSET Nat
    OBVIOUS
  <2> HIDE DEF P
  <2>. QED  BY <1>1, <1>2, <2>1, AllNaturals
<1>. QED  BY <1>3

LEMMA RightAgree ==
    ASSUME NEW g, NEW h, NEW k \in Nat, RightUpTo(g, k), RightUpTo(h, k)
    PROVE  \A d, y \in Nat : d <= k => g[d][y] = h[d][y]
<1> DEFINE P == {j \in Nat : \A d, y \in Nat : d <= j /\ d <= k => g[d][y] = h[d][y]}
<1>1. ASSUME NEW j \in Nat, \A d, y \in Nat : d < j /\ d <= k => g[d][y] = h[d][y]
      PROVE  j \in P
  <2>1. ASSUME NEW d \in Nat, NEW y \in Nat, d <= j, d <= k PROVE g[d][y] = h[d][y]
    <3>1. g[d][y] = YearOf(g, d, y) /\ h[d][y] = YearOf(h, d, y)
      BY <2>1 DEF RightUpTo
    <3>2. CASE d < YearLength(y)
      BY <3>1, <3>2 DEF YearOf
    <3>3. CASE ~(d < YearLength(y))
      <4>1. PICK c \in Nat : c = d - YearLength(y) /\ c < j /\ c <= k
        BY <2>1, <3>3, YearsAre
      <4>2. g[c][y + 1] = h[c][y + 1]
        BY <1>1, <4>1
      <4>. QED  BY <3>1, <3>3, <4>1, <4>2 DEF YearOf
    <3>. QED  BY <3>2, <3>3
  <2>. QED  BY <2>1
<1>2. 0 \in P
  BY <1>1
<1>3. ASSUME NEW j \in P PROVE j + 1 \in P
  <2>1. \A d, y \in Nat : d < j + 1 /\ d <= k => g[d][y] = h[d][y]
    BY <1>3
  <2> HIDE DEF P
  <2>2. j + 1 \in Nat
    BY <1>3 DEF P
  <2>. QED  BY <1>1, <2>1, <2>2
<1>4. P = Nat
  <2>1. P \in SUBSET Nat
    OBVIOUS
  <2> HIDE DEF P
  <2>. QED  BY <1>2, <1>3, <2>1, AllNaturals
<1>. QED  BY <1>4

LEMMA YearsCounted == \E g : CountsYears(g)
<1>1. PICK G : G = [k \in Nat |-> CHOOSE g : RightUpTo(g, k)]
  OBVIOUS
<1>2. \A k \in Nat : RightUpTo(G[k], k)
  BY <1>1, RightExists
<1>3. PICK f : f = [d \in Nat |-> [y \in Nat |-> G[d][d][y]]]
  OBVIOUS
<1>4. ASSUME NEW d \in Nat, NEW y \in Nat PROVE f[d][y] = YearOf(f, d, y)
  <2>1. f[d][y] = G[d][d][y] /\ G[d][d][y] = YearOf(G[d], d, y)
    BY <1>2, <1>3 DEF RightUpTo
  <2>2. CASE d < YearLength(y)
    BY <2>1, <2>2 DEF YearOf
  <2>3. CASE ~(d < YearLength(y))
    <3>1. PICK c \in Nat : c = d - YearLength(y) /\ c <= d
      BY <2>3, YearsAre
    <3>2. y + 1 \in Nat
      OBVIOUS
    <3>3. f[c][y + 1] = G[c][c][y + 1]
      BY <1>3, <3>2
    <3>4. RightUpTo(G[d], c)
      <4>1. RightUpTo(G[d], d)
        BY <1>2
      <4>. QED  BY <3>1, <4>1 DEF RightUpTo
    <3>5. G[c][c][y + 1] = G[d][c][y + 1]
      <4>1. RightUpTo(G[c], c)
        BY <1>2
      <4>2. c <= c
        OBVIOUS
      <4>. QED  BY <3>2, <3>4, <4>1, <4>2, RightAgree
    <3>. QED  BY <2>1, <2>3, <3>1, <3>3, <3>5 DEF YearOf
  <2>. QED  BY <2>2, <2>3
<1>5. f = [d \in Nat |-> [y \in Nat |-> YearOf(f, d, y)]]
  <2>1. f = [d \in Nat |-> [y \in Nat |-> f[d][y]]]
    BY <1>3
  <2>. QED  BY <1>4, <2>1
<1>6. CountsYears(f)
  BY <1>5, Zenon DEF CountsYears, YearOf
<1>. QED  BY <1>6

LEMMA LocalStep ==
    ASSUME NEW d \in Nat, NEW y \in Nat
    PROVE  Local(d, y) = IF d < YearLength(y) THEN [year |-> y, yday |-> d]
                         ELSE Local(d - YearLength(y), y + 1)
<1>1. PICK g : g = CHOOSE h : CountsYears(h)
  OBVIOUS
<1>2. CountsYears(g)
  BY <1>1, YearsCounted
<1>3. g[d][y] = IF d < YearLength(y) THEN [year |-> y, yday |-> d] ELSE g[d - YearLength(y)][y + 1]
  <2>1. g[d] = [x \in Nat |-> IF d < YearLength(x) THEN [year |-> x, yday |-> d]
                            ELSE g[d - YearLength(x)][x + 1]]
    BY <1>2, Zenon DEF CountsYears
  <2>. QED  BY <2>1
<1>. QED  BY <1>1, <1>3 DEF Local

(* A day is a day of its year, which is not before the first, nor later than *)
(* if all years had 365 days; and days on from it are counted from there.    *)
DayOf(d, y, z, t) ==
    /\ Local(d, y) = [year |-> z, yday |-> t]
    /\ z >= y /\ t < YearLength(z) /\ 365 * (z - y) + t <= d
    /\ \A e \in Nat : Local(d + e, y) = Local(t + e, z)

LEMMA DayIsOfYear ==
    ASSUME NEW d \in Nat, NEW y \in Nat
    PROVE  \E z, t \in Nat : DayOf(d, y, z, t)
<1> DEFINE P == {j \in Nat : \A c, x \in Nat : c <= j => \E z, t \in Nat : DayOf(c, x, z, t)}
<1>1. ASSUME NEW j \in Nat, \A c, x \in Nat : c < j => \E z, t \in Nat : DayOf(c, x, z, t)
      PROVE  j \in P
  <2>1. ASSUME NEW c \in Nat, NEW x \in Nat, c <= j PROVE \E z, t \in Nat : DayOf(c, x, z, t)
    <3>1. CASE c < YearLength(x)
      <4>1. Local(c, x) = [year |-> x, yday |-> c]
        BY <3>1, LocalStep
      <4>2. DayOf(c, x, x, c)
        BY <3>1, <4>1 DEF DayOf
      <4>. QED  BY <4>2
    <3>2. CASE ~(c < YearLength(x))
      <4>1. PICK b \in Nat : b = c - YearLength(x) /\ b < j /\ b + 365 <= c
        BY <2>1, <3>2, YearsAre
      <4>2. PICK z \in Nat, t \in Nat : DayOf(b, x + 1, z, t)
        BY <1>1, <4>1
      <4>3. Local(c, x) = Local(b, x + 1)
        BY <3>2, <4>1, LocalStep
      <4>4. ASSUME NEW e \in Nat PROVE Local(c + e, x) = Local(t + e, z)
        <5>1. c + e \in Nat /\ ~(c + e < YearLength(x)) /\ (c + e) - YearLength(x) = b + e
          BY <3>2, <4>1, YearsAre
        <5>2. Local(c + e, x) = Local(b + e, x + 1)
          BY <5>1, LocalStep
        <5>. QED  BY <4>2, <5>2 DEF DayOf
      <4>5. DayOf(c, x, z, t)
        <5>1. z >= x + 1 /\ t < YearLength(z) /\ 365 * (z - (x + 1)) + t <= b
          BY <4>2 DEF DayOf
        <5>2. z >= x /\ 365 * (z - x) + t <= c
          BY <4>1, <5>1
        <5>. QED  BY <4>2, <4>3, <4>4, <5>1, <5>2 DEF DayOf
      <4>. QED  BY <4>5
    <3>. QED  BY <3>1, <3>2
  <2>. QED  BY <2>1
<1>2. 0 \in P
  BY <1>1
<1>3. ASSUME NEW j \in P PROVE j + 1 \in P
  <2>1. \A c, x \in Nat : c < j + 1 => \E z, t \in Nat : DayOf(c, x, z, t)
    BY <1>3
  <2> HIDE DEF P
  <2>2. j + 1 \in Nat
    BY <1>3 DEF P
  <2>. QED  BY <1>1, <2>1, <2>2
<1>4. P = Nat
  <2>1. P \in SUBSET Nat
    OBVIOUS
  <2> HIDE DEF P
  <2>. QED  BY <1>2, <1>3, <2>1, AllNaturals
<1>5. d \in P /\ d <= d
  BY <1>4
<1>. QED  BY <1>5

(* Up to 366 days on it is this year, the next, or the first of the one after. *)
OnFrom(date, t, z, e) ==
    \/ t + e < YearLength(z) /\ date = [year |-> z, yday |-> t + e]
    \/ t + e >= YearLength(z) /\ date = [year |-> z + 1, yday |-> (t + e) - YearLength(z)]
    \/ e > 1 /\ \E s \in Nat : date = [year |-> z + 2, yday |-> s]

LEMMA DaysOn ==
    ASSUME NEW t \in Nat, NEW z \in Nat, t < YearLength(z), NEW e \in Nat, e <= 366
    PROVE  OnFrom(Local(t + e, z), t, z, e)
<1> USE DEF OnFrom
<1>1. t + e \in Nat /\ e \in Nat
  OBVIOUS
<1>2. CASE t + e < YearLength(z)
  BY <1>1, <1>2, LocalStep
<1>3. CASE t + e >= YearLength(z)
  <2>1. PICK s \in Nat : s = (t + e) - YearLength(z) /\ s < 366 /\ (e <= 1 => s = 0)
    BY <1>1, <1>3, YearsAre
  <2>2. Local(t + e, z) = Local(s, z + 1)
    BY <1>1, <1>3, <2>1, YearsAre, LocalStep
  <2>3. CASE s < YearLength(z + 1)
    <3>1. Local(s, z + 1) = [year |-> z + 1, yday |-> s]
      BY <2>3, LocalStep
    <3>. QED  BY <1>3, <2>1, <2>2, <3>1
  <2>4. CASE ~(s < YearLength(z + 1))
    <3>1. PICK r \in Nat : r = s - YearLength(z + 1) /\ r < YearLength(z + 2) /\ e > 1
      BY <1>1, <2>1, <2>4, YearsAre
    <3>2. (z + 1) + 1 = z + 2 /\ z + 1 \in Nat /\ z + 2 \in Nat
      OBVIOUS
    <3>3. Local(s, z + 1) = Local(r, z + 2)
      BY <2>4, <3>1, <3>2, LocalStep
    <3>4. Local(r, z + 2) = [year |-> z + 2, yday |-> r]
      BY <3>1, <3>2, LocalStep
    <3>. QED  BY <2>2, <3>1, <3>3, <3>4
  <2>. QED  BY <2>3, <2>4
<1>. QED  BY <1>1, <1>2, <1>3, YearsAre

FormatInv == argument \in 0..MaxArgument /\ firstYear \in FirstYears

LEMMA CalendarRule ==
    ASSUME FormatInv, NEW z \in Nat, z >= firstYear, 365 * (z - firstYear) <= argument
    PROVE  DaysInYear(z) = YearLength(z)
<1>1. firstYear \in Nat /\ argument \in Nat /\ MaxArgument \in Nat /\ argument <= MaxArgument
  BY FormatAssumption DEF FormatInv
<1>2. PICK q, r : q = MaxArgument \div 365 /\ r = MaxArgument % 365
  OBVIOUS
<1>3. q \in Nat /\ r \in 0..364 /\ MaxArgument = 365 * q + r
  BY <1>1, <1>2, DivisionNats
<1>4. z - firstYear <= q
  BY <1>1, <1>3
<1>5. z \in firstYear..(firstYear + q)
  BY <1>1, <1>3, <1>4
<1>6. z \in LeapYears <=> z % 4 = 0 /\ (z % 100 # 0 \/ z % 400 = 0)
  BY <1>2, <1>5, FormatAssumption DEF FormatInv
<1>. QED  BY <1>6, Zenon DEF DaysInYear, YearLength

LEMMA DaysAreNamed == ASSUME FormatInv PROVE DayNamed
<1>1. firstYear \in Nat /\ argument \in Nat
  BY FormatAssumption DEF FormatInv
<1>2. ASSUME NEW ago \in {0, 1, 2, 364, 365, 366}, ago <= argument
      PROVE  DayName(LocalTime(argument - ago), LocalTime(argument)) =
                IF ago = 0 THEN "today" ELSE IF ago = 1 THEN "yesterday" ELSE "date"
  <2>1. PICK day \in Nat : day = argument - ago /\ day + ago = argument /\ day <= argument
    BY <1>1, <1>2
  <2>2. PICK z \in Nat, t \in Nat : DayOf(day, firstYear, z, t)
    BY <1>1, DayIsOfYear
  <2>3. PICK local : local = LocalTime(argument - ago)
    OBVIOUS
  <2>4. PICK now : now = LocalTime(argument)
    OBVIOUS
  <2>5. local = [year |-> z, yday |-> t] /\ t < YearLength(z)
    BY <2>1, <2>2, <2>3, LocalTimeIs DEF DayOf
  <2>6. now = Local(t + ago, z)
    BY <1>2, <2>1, <2>2, <2>4, LocalTimeIs DEF DayOf
  <2>7. DaysInYear(z) = YearLength(z)
    <3>1. z >= firstYear /\ 365 * (z - firstYear) + t <= day
      BY <2>2 DEF DayOf
    <3>2. 365 * (z - firstYear) <= argument
      BY <1>1, <2>1, <3>1
    <3>. QED  BY <3>1, <3>2, CalendarRule
  <2>8. \/ t + ago < YearLength(z) /\ now = [year |-> z, yday |-> t + ago]
        \/ t + ago >= YearLength(z) /\ now = [year |-> z + 1, yday |-> (t + ago) - YearLength(z)]
        \/ ago > 1 /\ \E s \in Nat : now = [year |-> z + 2, yday |-> s]
    <3>1. ago \in Nat /\ ago <= 366
      BY <1>2
    <3>2. OnFrom(now, t, z, ago)
      BY <2>5, <2>6, <3>1, DaysOn
    <3>. QED  BY <3>2 DEF OnFrom
  <2>9. DayName(local, now) = IF ago = 0 THEN "today" ELSE IF ago = 1 THEN "yesterday" ELSE "date"
    <3>1. YearLength(z) \in Nat
      BY YearsAre
    <3>2. local.year = z /\ local.yday = t
      BY <2>5
    <3>3. CASE t + ago < YearLength(z) /\ now = [year |-> z, yday |-> t + ago]
      <4>1. now.year = z /\ now.yday = t + ago
        BY <3>3
      <4>2. local = now <=> ago = 0
        BY <1>2, <2>5, <3>2, <3>3, <4>1
      <4>. QED  BY <1>2, <3>2, <4>1, <4>2 DEF DayName
    <3>4. CASE t + ago >= YearLength(z) /\ now = [year |-> z + 1, yday |-> (t + ago) - YearLength(z)]
      <4>1. now.year = z + 1 /\ now.yday = (t + ago) - YearLength(z)
        BY <3>4
      <4>2. local # now /\ local.year # now.year /\ ago # 0
        BY <1>2, <2>5, <3>1, <3>2, <3>4, <4>1
      <4>3. local.yday = DaysInYear(local.year) - 1 /\ now.yday = 0 <=> ago = 1
        BY <1>2, <2>5, <2>7, <3>1, <3>2, <3>4, <4>1
      <4>. QED  BY <1>2, <3>2, <4>1, <4>2, <4>3 DEF DayName
    <3>5. CASE ago > 1 /\ \E s \in Nat : now = [year |-> z + 2, yday |-> s]
      <4>1. now.year = z + 2
        BY <3>5
      <4>2. local # now
        BY <3>2, <4>1
      <4>. QED  BY <1>2, <3>2, <3>5, <4>1, <4>2 DEF DayName
    <3>. QED  BY <2>8, <3>3, <3>4, <3>5
  <2>. QED  BY <2>3, <2>4, <2>9
<1>3. ASSUME NEW ahead \in {1, 365, 366}
      PROVE  DayName(LocalTime(argument + ahead), LocalTime(argument)) = "date"
  <2>1. PICK z \in Nat, t \in Nat : DayOf(argument, firstYear, z, t)
    BY <1>1, DayIsOfYear
  <2>2. PICK local : local = LocalTime(argument + ahead)
    OBVIOUS
  <2>3. PICK now : now = LocalTime(argument)
    OBVIOUS
  <2>4. now = [year |-> z, yday |-> t] /\ t < YearLength(z)
    BY <2>1, <2>3, LocalTimeIs DEF DayOf
  <2>5. local = Local(t + ahead, z)
    BY <2>1, <2>2, LocalTimeIs DEF DayOf
  <2>6. \/ local = [year |-> z, yday |-> t + ahead]
        \/ local = [year |-> z + 1, yday |-> (t + ahead) - YearLength(z)]
        \/ \E s \in Nat : local = [year |-> z + 2, yday |-> s]
    <3>1. ahead \in Nat /\ ahead <= 366
      BY <1>3
    <3>2. OnFrom(local, t, z, ahead)
      BY <2>4, <2>5, <3>1, DaysOn
    <3>. QED  BY <3>2 DEF OnFrom
  <2>7. \/ local.year = z /\ local.yday = t + ahead
        \/ local.year = z + 1
        \/ local.year = z + 2
    BY <2>6
  <2>8. now.year = z /\ now.yday = t
    BY <2>4
  <2>9. local # now
    BY <1>3, <2>7, <2>8
  <2>10. DayName(local, now) = "date"
    BY <1>3, <2>7, <2>8, <2>9 DEF DayName
  <2>. QED  BY <2>2, <2>3, <2>10
<1>4. ASSUME NEW ago \in {-366, -365, -1, 0, 1, 2, 364, 365, 366}, ago <= argument
      PROVE  DayName(LocalTime(argument - ago), LocalTime(argument)) =
                IF ago = 0 THEN "today" ELSE IF ago = 1 THEN "yesterday" ELSE "date"
  <2>1. CASE ago \in {0, 1, 2, 364, 365, 366}
    BY <1>2, <1>4, <2>1
  <2>2. CASE ago \in {-366, -365, -1}
    <3>1. PICK ahead \in {1, 365, 366} : argument - ago = argument + ahead
      <4>1. 0 - ago \in {1, 365, 366} /\ argument - ago = argument + (0 - ago)
        BY <1>1, <2>2
      <4>. QED  BY <4>1
    <3>2. ago # 0 /\ ago # 1
      BY <2>2
    <3>. QED  BY <1>3, <3>1, <3>2
  <2>. QED  BY <1>4, <2>1, <2>2
<1>. QED  BY <1>4 DEF DayNamed

-----------------------------------------------------------------------------
(* Folds over a sequence: for a step op that is a function of the position   *)
(* and of the value so far, there is the function that FoldLeft defines.     *)
Folds(g, n, base, op) ==
    \A S \in SUBSET (1..n) : g[S] = IF S = {} THEN base ELSE op[Max(S)][g[S \ {Max(S)}]]

LEMMA FoldsExist ==
    ASSUME NEW n \in Nat, NEW D, NEW base \in D, NEW op \in [1..n -> [D -> D]]
    PROVE  \E g \in [SUBSET (1..n) -> D] : Folds(g, n, base, op)
<1> DEFINE N == 1..n
           Step(g, S) == IF S = {} THEN base ELSE op[Max(S)][g[S \ {Max(S)}]]
           UpTo(g, k) == \A S \in SUBSET N : Cardinality(S) <= k => g[S] = Step(g, S)
           P == {k \in Nat : \E g \in [SUBSET N -> D] : UpTo(g, k)}
<1>1. \A S \in SUBSET N :
         /\ Cardinality(S) \in Nat /\ Cardinality(S) <= n /\ (Cardinality(S) = 0 <=> S = {})
         /\ S # {} => /\ Max(S) \in N
                      /\ S \ {Max(S)} \in SUBSET N
                      /\ Cardinality(S \ {Max(S)}) = Cardinality(S) - 1
  <2> SUFFICES ASSUME NEW S \in SUBSET N
               PROVE  /\ Cardinality(S) \in Nat /\ Cardinality(S) <= n /\ (Cardinality(S) = 0 <=> S = {})
                      /\ S # {} => /\ Max(S) \in N
                                   /\ S \ {Max(S)} \in SUBSET N
                                   /\ Cardinality(S \ {Max(S)}) = Cardinality(S) - 1
    OBVIOUS
  <2>1. IsFiniteSet(N) /\ Cardinality(N) = n
    BY FS_Interval
  <2>2. IsFiniteSet(S) /\ Cardinality(S) <= n
    <3> HIDE DEF N
    <3>. QED  BY <2>1, FS_Subset
  <2>3. Cardinality(S) \in Nat /\ (Cardinality(S) = 0 <=> S = {})
    BY <2>2, FS_CardinalityType, FS_EmptySet
  <2>4. ASSUME S # {} PROVE Max(S) \in S /\ Cardinality(S \ {Max(S)}) = Cardinality(S) - 1
    <3>1. S \in SUBSET Nat
      OBVIOUS
    <3>. QED  BY <2>2, <2>4, <3>1, MaxIsGreatest, FS_RemoveElement
  <2>. QED  BY <2>2, <2>3, <2>4
<1>2. ASSUME NEW g \in [SUBSET N -> D], NEW S \in SUBSET N PROVE Step(g, S) \in D
  <2>1. CASE S = {}
    BY <2>1
  <2>2. CASE S # {}
    <3>1. PICK i \in N, R \in SUBSET N : i = Max(S) /\ R = S \ {Max(S)}
      <4> HIDE DEF N
      <4>. QED  BY <1>1, <2>2
    <3>2. op[i] \in [D -> D] /\ g[R] \in D
      OBVIOUS
    <3>3. op[i][g[R]] \in D
      BY <3>2
    <3>. QED  BY <2>2, <3>1, <3>3
  <2>. QED  BY <2>1, <2>2
<1>3. ASSUME NEW k \in Nat, NEW g \in [SUBSET N -> D],
             \A S \in SUBSET N : Cardinality(S) < k => g[S] = Step(g, S)
      PROVE  k \in P
  <2> DEFINE h == [S \in SUBSET N |-> Step(g, S)]
  <2>1. h \in [SUBSET N -> D]
    BY <1>2
  <2>2. ASSUME NEW S \in SUBSET N, Cardinality(S) <= k PROVE h[S] = Step(h, S)
    <3>1. CASE S = {}
      BY <3>1
    <3>2. CASE S # {}
      <4>1. PICK R \in SUBSET N : R = S \ {Max(S)} /\ Cardinality(R) < k
        <5> HIDE DEF N
        <5>1. /\ S \ {Max(S)} \in SUBSET N /\ Cardinality(S) \in Nat
              /\ Cardinality(S \ {Max(S)}) = Cardinality(S) - 1
          BY <1>1, <3>2
        <5>. QED  BY <2>2, <5>1
      <4>2. h[R] = g[R]
        BY <1>3, <4>1
      <4>. QED  BY <3>2, <4>1, <4>2
    <3>. QED  BY <3>1, <3>2
  <2> HIDE DEF h, Step
  <2>3. UpTo(h, k)
    BY <2>2
  <2>. QED  BY <2>1, <2>3
<1>4. 0 \in P
  <2>1. PICK g \in [SUBSET N -> D] : g = [S \in SUBSET N |-> base]
    OBVIOUS
  <2>2. \A S \in SUBSET N : Cardinality(S) \in Nat
    <3> HIDE DEF N
    <3>. QED  BY <1>1
  <2>3. \A S \in SUBSET N : Cardinality(S) < 0 => g[S] = Step(g, S)
    <3> HIDE DEF N, Step
    <3>. QED  BY <2>2
  <2> HIDE DEF P, Step
  <2>. QED  BY <1>3, <2>3
<1>5. ASSUME NEW k \in P PROVE k + 1 \in P
  <2>1. PICK g \in [SUBSET N -> D] : UpTo(g, k)
    BY <1>5
  <2>2. k \in Nat /\ k + 1 \in Nat
    OBVIOUS
  <2>3. \A S \in SUBSET N : Cardinality(S) \in Nat
    <3> HIDE DEF N
    <3>. QED  BY <1>1
  <2>4. \A S \in SUBSET N : Cardinality(S) < k + 1 => g[S] = Step(g, S)
    <3> HIDE DEF N, Step, P
    <3>. QED  BY <2>1, <2>2, <2>3
  <2> HIDE DEF P, Step
  <2>. QED  BY <1>3, <2>2, <2>4
<1>6. P = Nat
  <2>1. P \in SUBSET Nat
    OBVIOUS
  <2> HIDE DEF P
  <2>. QED  BY <1>4, <1>5, <2>1, AllNaturals
<1>7. PICK g \in [SUBSET N -> D] : UpTo(g, n)
  BY <1>6
<1>8. \A S \in SUBSET N : g[S] = Step(g, S)
  <2> HIDE DEF N, Step
  <2>. QED  BY <1>1, <1>7
<1>9. Folds(g, n, base, op)
  BY <1>8, Zenon DEF Folds
<1>. QED  BY <1>9

(* It has the values of the fold after each of the positions. *)
LEMMA PrefixFacts ==
    ASSUME NEW n \in Nat, NEW k \in 0..(n - 1)
    PROVE  /\ 1..(k + 1) \in SUBSET (1..n) /\ 1..(k + 1) # {}
           /\ Max(1..(k + 1)) = k + 1
           /\ (1..(k + 1)) \ {k + 1} = 1..k
<1>1. PICK S : S = 1..(k + 1)
  OBVIOUS
<1>2. S \in SUBSET (1..n) /\ S \in SUBSET Nat /\ k + 1 \in S /\ \A j \in S : j \in Nat /\ j <= k + 1
  BY <1>1
<1>3. IsFiniteSet(S)
  <2>1. k + 1 \in Int /\ 1 \in Int
    OBVIOUS
  <2>. QED  BY <1>1, <2>1, FS_Interval
<1>4. Max(S) \in S /\ \A j \in S : j <= Max(S)
  <2>1. S # {}
    BY <1>2
  <2>. QED  BY <1>2, <1>3, <2>1, MaxIsGreatest
<1>5. Max(S) = k + 1
  <2>1. PICK m \in Nat : m = Max(S) /\ m <= k + 1 /\ k + 1 <= m
    BY <1>2, <1>4
  <2>. QED  BY <2>1
<1>6. S \ {k + 1} = 1..k
  BY <1>1
<1>7. S # {}
  BY <1>2
<1>. QED  BY <1>1, <1>2, <1>5, <1>6, <1>7

(* The bits of a mask in their order. *)
Cpus == [i \in 1..MaskBits |-> i - 1]

NoScan == [start |-> -1, end |-> -1, items |-> <<>>]
Scans == [start : Int, end : Int, items : Seq(Int \X Int)]
Scanned == FoldLeft(ScanCpu, NoScan, Cpus)
ScansTo(g) ==
    g = [S \in SUBSET DOMAIN Cpus |->
            IF S = {} THEN NoScan ELSE ScanCpu(g[S \ {Max(S)}], Cpus[Max(S)])]
Timed == FoldLeft(Noted, <<>>, Cpus)
NotesTo(g) ==
    g = [S \in SUBSET DOMAIN Cpus |->
            IF S = {} THEN <<>> ELSE Noted(g[S \ {Max(S)}], Cpus[Max(S)])]

LEMMA ScannedIs == Scanned = (CHOOSE g : ScansTo(g))[DOMAIN Cpus]
  BY Zenon DEF Scanned, FoldLeft, MapThenFoldSet, ScansTo

LEMMA TimedIs == Timed = (CHOOSE g : NotesTo(g))[DOMAIN Cpus]
  BY Zenon DEF Timed, FoldLeft, MapThenFoldSet, NotesTo

LEMMA ItemsAre == AffinityItems = Flushed(Scanned)
  BY Zenon DEF AffinityItems, Scanned, NoScan, Cpus

LEMMA BitsAre == MaskBits \in Nat /\ MaskBits > 0 /\ DOMAIN Cpus = 1..MaskBits
                 /\ \A i \in 1..MaskBits : Cpus[i] = i - 1
  BY FormatAssumption DEF Cpus

LEMMA WrittenType ==
    ASSUME NEW a \in Int, NEW b \in Int
    PROVE  Written(a, b) \in Seq(Int \X Int)
<1>1. <<a, a>> \in Int \X Int /\ <<b, b>> \in Int \X Int /\ <<a, b>> \in Int \X Int
  OBVIOUS
<1>2. << <<a, a>>, <<b, b>> >> \in Seq(Int \X Int)
  BY <1>1
<1>3. << <<a, b>> >> \in Seq(Int \X Int)
  BY <1>1
<1>. QED  BY <1>2, <1>3 DEF Written

LEMMA ScanType ==
    ASSUME NEW scan \in Scans, NEW bit \in Int
    PROVE  ScanCpu(scan, bit) \in Scans
<1>1. PICK start \in Int, end \in Int, items \in Seq(Int \X Int) :
        scan = [start |-> start, end |-> end, items |-> items]
  BY DEF Scans
<1>2. items \o Written(start, end) \in Seq(Int \X Int)
  BY WrittenType
<1>3. CASE bit \in Mask
  <2>1. ScanCpu(scan, bit) = [start |-> IF start = -1 THEN bit ELSE start, end |-> bit, items |-> items]
    BY <1>1, <1>3 DEF ScanCpu
  <2>. QED  BY <2>1 DEF Scans
<1>4. CASE bit \notin Mask /\ start = -1
  BY <1>1, <1>4 DEF ScanCpu
<1>5. CASE bit \notin Mask /\ start # -1
  <2>1. ScanCpu(scan, bit) = [start |-> -1, end |-> -1, items |-> items \o Written(start, end)]
    BY <1>1, <1>5 DEF ScanCpu
  <2>. QED  BY <1>2, <2>1 DEF Scans
<1>. QED  BY <1>3, <1>4, <1>5

LEMMA ScanSteps ==
    \E f : /\ f[0] = NoScan /\ f[MaskBits] = Scanned
           /\ \A k \in 0..MaskBits : f[k] \in Scans
           /\ \A k \in 0..(MaskBits - 1) : f[k + 1] = ScanCpu(f[k], k)
<1>1. PICK n \in Nat : n = MaskBits /\ n > 0 /\ DOMAIN Cpus = 1..n /\ \A i \in 1..n : Cpus[i] = i - 1
  BY BitsAre
<1>2. PICK op : op = [i \in 1..n |-> [scan \in Scans |-> ScanCpu(scan, i - 1)]]
  OBVIOUS
<1>3. op \in [1..n -> [Scans -> Scans]]
  <2>1. \A i \in 1..n : [scan \in Scans |-> ScanCpu(scan, i - 1)] \in [Scans -> Scans]
    BY ScanType
  <2>. QED  BY <1>2, <2>1
<1>4. NoScan \in Scans
  BY DEF NoScan, Scans
<1>5. PICK g \in [SUBSET (1..n) -> Scans] : Folds(g, n, NoScan, op)
  BY <1>3, <1>4, FoldsExist
<1>6. \A S \in SUBSET (1..n) : S # {} => Max(S) \in 1..n /\ S \ {Max(S)} \in SUBSET (1..n)
  <2> SUFFICES ASSUME NEW S \in SUBSET (1..n), S # {} PROVE Max(S) \in S
    OBVIOUS
  <2>1. IsFiniteSet(1..n) /\ S \in SUBSET Nat
    BY FS_Interval
  <2>. QED  BY <2>1, FS_Subset, MaxIsGreatest
<1>7. \A S \in SUBSET (1..n) :
         g[S] = IF S = {} THEN NoScan ELSE ScanCpu(g[S \ {Max(S)}], Cpus[Max(S)])
  <2> SUFFICES ASSUME NEW S \in SUBSET (1..n), S # {}
               PROVE  g[S] = ScanCpu(g[S \ {Max(S)}], Cpus[Max(S)])
    BY <1>5 DEF Folds
  <2>1. PICK i \in 1..n, R \in SUBSET (1..n) : i = Max(S) /\ R = S \ {Max(S)}
    BY <1>6
  <2>2. g[S] = op[i][g[R]] /\ g[R] \in Scans
    BY <1>5, <2>1 DEF Folds
  <2>3. op[i][g[R]] = ScanCpu(g[R], i - 1) /\ Cpus[i] = i - 1
    BY <1>1, <1>2, <2>2
  <2>. QED  BY <2>1, <2>2, <2>3
<1>8. ScansTo(g)
  <2>1. g = [S \in SUBSET (1..n) |-> g[S]]
    OBVIOUS
  <2>2. g = [S \in SUBSET (1..n) |-> IF S = {} THEN NoScan ELSE ScanCpu(g[S \ {Max(S)}], Cpus[Max(S)])]
    BY <1>7, <2>1
  <2>. QED  BY <1>1, <2>2, Zenon DEF ScansTo
<1>9. PICK h : h = CHOOSE x : ScansTo(x)
  OBVIOUS
<1>10. ScansTo(h)
  BY <1>8, <1>9
<1>11. h[1..n] = Scanned
  BY <1>1, <1>9, ScannedIs
<1>12. \A S \in SUBSET (1..n) :
          h[S] = IF S = {} THEN NoScan ELSE ScanCpu(h[S \ {Max(S)}], Cpus[Max(S)])
  <2>1. h = [S \in SUBSET (1..n) |-> IF S = {} THEN NoScan ELSE ScanCpu(h[S \ {Max(S)}], Cpus[Max(S)])]
    BY <1>1, <1>10, Zenon DEF ScansTo
  <2>. QED  BY <2>1, Zenon
<1>13. PICK f : f = [k \in 0..n |-> h[1..k]]
  OBVIOUS
<1>14. f[0] = NoScan
  <2>1. 1..0 = {} /\ f[0] = h[1..0]
    BY <1>13
  <2>. QED  BY <1>12, <2>1
<1>15. \A k \in 0..(n - 1) : f[k + 1] = ScanCpu(f[k], k)
  <2> SUFFICES ASSUME NEW k \in 0..(n - 1) PROVE f[k + 1] = ScanCpu(f[k], k)
    OBVIOUS
  <2>1. h[1..(k + 1)] = ScanCpu(h[1..k], Cpus[k + 1])
    BY <1>12, PrefixFacts
  <2>2. Cpus[k + 1] = k /\ f[k + 1] = h[1..(k + 1)] /\ f[k] = h[1..k]
    BY <1>1, <1>13
  <2>. QED  BY <2>1, <2>2
<1> DEFINE P == {k \in Nat : k <= n => f[k] \in Scans}
<1>16. 0 \in P
  BY <1>4, <1>14
<1>17. ASSUME NEW k \in P PROVE k + 1 \in P
  <2> SUFFICES ASSUME k + 1 <= n PROVE f[k + 1] \in Scans
    OBVIOUS
  <2>1. k \in 0..(n - 1) /\ k \in Int /\ f[k] \in Scans
    OBVIOUS
  <2>. QED  BY <1>15, <2>1, ScanType
<1>18. P = Nat
  <2>1. P \in SUBSET Nat
    OBVIOUS
  <2> HIDE DEF P
  <2>. QED  BY <1>16, <1>17, <2>1, AllNaturals
<1>19. \A k \in 0..n : f[k] \in Scans
  BY <1>18
<1>20. f[n] = Scanned
  BY <1>11, <1>13
<1>. QED  BY <1>1, <1>14, <1>15, <1>19, <1>20

-----------------------------------------------------------------------------
(* What is written of a mask.                                                *)
Items == Seq(Int \X Int)
Spans(items) == UNION {items[i][1]..items[i][2] : i \in DOMAIN items}
Rising(items) == \A i \in DOMAIN items \ {1} : items[i - 1][2] < items[i][1]
EndsBefore(items, m) == \A i \in DOMAIN items : items[i][2] < m

LEMMA ItemAdded ==
    ASSUME NEW items \in Items, NEW a \in Int, NEW b \in Int, a <= b,
           Rising(items), EndsBefore(items, a)
    PROVE  LET new == Append(items, <<a, b>>)
           IN  /\ new \in Items /\ Len(new) = Len(items) + 1
               /\ Rising(new) /\ EndsBefore(new, b + 1)
               /\ Spans(new) = Spans(items) \cup (a..b)
<1>1. PICK new : new = Append(items, <<a, b>>)
  OBVIOUS
<1>2. PICK n \in Nat : n = Len(items) /\ DOMAIN items = 1..n
  BY DEF Items
<1>3. <<a, b>> \in Int \X Int
  OBVIOUS
<1>4. /\ new \in Items /\ Len(new) = n + 1 /\ DOMAIN new = 1..(n + 1)
      /\ \A i \in 1..n : new[i] = items[i] /\ items[i] \in Int \X Int
      /\ new[n + 1] = <<a, b>>
  BY <1>1, <1>2, <1>3 DEF Items
<1>5. \A i \in 1..n : items[i][1] \in Int /\ items[i][2] \in Int /\ items[i][2] < a
  BY <1>2, <1>4 DEF EndsBefore
<1>6. Rising(new)
  <2> SUFFICES ASSUME NEW i \in 2..(n + 1) PROVE new[i - 1][2] < new[i][1]
    BY <1>4 DEF Rising
  <2>1. CASE i = n + 1
    BY <1>4, <1>5, <2>1
  <2>2. CASE i # n + 1
    <3>1. i \in 1..n /\ i - 1 \in 1..n /\ i \in DOMAIN items \ {1}
      BY <1>2, <2>2
    <3>2. items[i - 1][2] < items[i][1]
      BY <3>1 DEF Rising
    <3>. QED  BY <1>4, <3>1, <3>2
  <2>. QED  BY <2>1, <2>2
<1>7. EndsBefore(new, b + 1)
  <2> SUFFICES ASSUME NEW i \in 1..(n + 1) PROVE new[i][2] < b + 1
    BY <1>4 DEF EndsBefore
  <2>1. CASE i = n + 1
    BY <1>4, <2>1
  <2>2. CASE i # n + 1
    <3>1. i \in 1..n
      BY <2>2
    <3>. QED  BY <1>4, <1>5, <3>1
  <2>. QED  BY <2>1, <2>2
<1>8. \A x : x \in Spans(new) <=> x \in Spans(items) \/ x \in a..b
  <2>1. \A x : x \in Spans(new) <=> \E i \in 1..(n + 1) : x \in new[i][1]..new[i][2]
    BY <1>4 DEF Spans
  <2>2. \A x : x \in Spans(items) <=> \E i \in 1..n : x \in items[i][1]..items[i][2]
    BY <1>2 DEF Spans
  <2>3. ASSUME NEW x PROVE (\E i \in 1..(n + 1) : x \in new[i][1]..new[i][2])
                             <=> (\E i \in 1..n : x \in items[i][1]..items[i][2]) \/ x \in a..b
    <3>1. ASSUME NEW i \in 1..(n + 1), x \in new[i][1]..new[i][2]
          PROVE  (\E j \in 1..n : x \in items[j][1]..items[j][2]) \/ x \in a..b
      <4>1. CASE i = n + 1
        BY <1>4, <3>1, <4>1
      <4>2. CASE i # n + 1
        <5>1. i \in 1..n
          BY <4>2
        <5>. QED  BY <1>4, <3>1, <5>1
      <4>. QED  BY <4>1, <4>2
    <3>2. ASSUME NEW i \in 1..n, x \in items[i][1]..items[i][2]
          PROVE  \E j \in 1..(n + 1) : x \in new[j][1]..new[j][2]
      <4>1. i \in 1..(n + 1)
        OBVIOUS
      <4>. QED  BY <1>4, <3>2, <4>1
    <3>3. ASSUME x \in a..b PROVE \E j \in 1..(n + 1) : x \in new[j][1]..new[j][2]
      <4>1. n + 1 \in 1..(n + 1) /\ x \in new[n + 1][1]..new[n + 1][2]
        BY <1>4, <3>3
      <4>. QED  BY <4>1
    <3>. QED  BY <3>1, <3>2, <3>3
  <2>. QED  BY <2>1, <2>2, <2>3
<1>. QED  BY <1>1, <1>2, <1>4, <1>6, <1>7, <1>8

(* One item for a run, or two. *)
LEMMA RunWritten ==
    ASSUME NEW items \in Items, NEW a \in Int, NEW b \in Int, a <= b,
           Rising(items), EndsBefore(items, a)
    PROVE  LET new == items \o Written(a, b)
           IN  /\ new \in Items
               /\ Len(new) = Len(items) + (IF a + 1 = b THEN 2 ELSE 1)
               /\ Rising(new) /\ EndsBefore(new, b + 1)
               /\ Spans(new) = Spans(items) \cup (a..b)
<1>1. CASE a + 1 = b
  <2>1. PICK one : one = Append(items, <<a, a>>)
    OBVIOUS
  <2>2. /\ one \in Items /\ Len(one) = Len(items) + 1
        /\ Rising(one) /\ EndsBefore(one, a + 1)
        /\ Spans(one) = Spans(items) \cup (a..a)
    BY <2>1, ItemAdded
  <2>3. PICK two : two = Append(one, <<b, b>>)
    OBVIOUS
  <2>4. /\ two \in Items /\ Len(two) = Len(one) + 1
        /\ Rising(two) /\ EndsBefore(two, b + 1)
        /\ Spans(two) = Spans(one) \cup (b..b)
    BY <1>1, <2>2, <2>3, ItemAdded
  <2>5. items \o Written(a, b) = two
    <3>1. Written(a, b) = << <<a, a>>, <<b, b>> >>
      BY <1>1 DEF Written
    <3>2. <<a, a>> \in Int \X Int /\ <<b, b>> \in Int \X Int
      OBVIOUS
    <3>3. PICK x \in Int \X Int, y \in Int \X Int : x = <<a, a>> /\ y = <<b, b>>
      BY <3>2
    <3>4. Append(Append(items, x), y) = items \o <<x, y>>
      BY DEF Items
    <3>. QED  BY <2>1, <2>3, <3>1, <3>3, <3>4
  <2>6. (a..a) \cup (b..b) = a..b
    BY <1>1
  <2>7. Len(items) \in Nat
    BY DEF Items
  <2>. QED  BY <1>1, <2>2, <2>4, <2>5, <2>6, <2>7
<1>2. CASE a + 1 # b
  <2>1. items \o Written(a, b) = Append(items, <<a, b>>)
    <3>1. Written(a, b) = << <<a, b>> >>
      BY <1>2 DEF Written
    <3>2. <<a, b>> \in Int \X Int
      OBVIOUS
    <3>. QED  BY <3>1, <3>2 DEF Items
  <2>. QED  BY <1>2, <2>1, ItemAdded
<1>. QED  BY <1>1, <1>2

(* The runs of a set of processors that end before m, and those of two. *)
IsRun(M, a, b) == a..b \subseteq M /\ a - 1 \notin M /\ b + 1 \notin M
Runs(M) == {r \in M \X M : r[1] <= r[2] /\ IsRun(M, r[1], r[2])}
RunsBefore(M, m) == {r \in Runs(M) : r[2] < m}
PairsBefore(M, m) == {r \in Runs(M) : r[2] < m /\ r[1] + 1 = r[2]}
Counted(M, m) == Cardinality(RunsBefore(M, m)) + Cardinality(PairsBefore(M, m))

LEMMA RunsFinite ==
    ASSUME NEW M \in SUBSET Nat, IsFiniteSet(M), NEW m \in Int
    PROVE  /\ IsFiniteSet(RunsBefore(M, m)) /\ IsFiniteSet(PairsBefore(M, m))
           /\ Cardinality(RunsBefore(M, m)) \in Nat /\ Cardinality(PairsBefore(M, m)) \in Nat
<1>1. IsFiniteSet(M \X M)
  BY FS_Product
<1>2. RunsBefore(M, m) \subseteq M \X M /\ PairsBefore(M, m) \subseteq M \X M
  BY DEF RunsBefore, PairsBefore, Runs
<1>3. IsFiniteSet(RunsBefore(M, m)) /\ IsFiniteSet(PairsBefore(M, m))
  BY <1>1, <1>2, FS_Subset
<1>. QED  BY <1>3, FS_CardinalityType

(* A run that ends is one more, *)
LEMMA RunCounted ==
    ASSUME NEW M \in SUBSET Nat, IsFiniteSet(M), NEW a \in Nat, NEW b \in Nat, a <= b, IsRun(M, a, b)
    PROVE  Counted(M, b + 1) = Counted(M, a) + (IF a + 1 = b THEN 2 ELSE 1)
<1>1. <<a, b>> \in Runs(M)
  <2>1. a \in a..b /\ b \in a..b
    OBVIOUS
  <2>2. a \in M /\ b \in M
    BY <2>1 DEF IsRun
  <2>. QED  BY <2>2 DEF Runs
<1>2. ASSUME NEW r \in Runs(M), r[2] < b + 1, ~(r[2] < a) PROVE r = <<a, b>>
  <2>1. PICK x \in M, y \in M : r = <<x, y>> /\ x <= y /\ x..y \subseteq M /\ x - 1 \notin M /\ y + 1 \notin M
    <3>1. r \in M \X M /\ r[1] <= r[2] /\ IsRun(M, r[1], r[2])
      BY DEF Runs
    <3>2. r = <<r[1], r[2]>> /\ r[1] \in M /\ r[2] \in M
      BY <3>1
    <3>. QED  BY <3>1, <3>2 DEF IsRun
  <2>2. x \in Nat /\ y \in Nat /\ a <= y /\ y <= b
    BY <1>2, <2>1
  <2>3. y = b
    <3>1. SUFFICES ASSUME y # b PROVE FALSE
      OBVIOUS
    <3>2. y + 1 \in a..b
      BY <2>2, <3>1
    <3>. QED  BY <2>1, <3>2 DEF IsRun
  <2>4. ~(x < a)
    <3>1. SUFFICES ASSUME x < a PROVE FALSE
      OBVIOUS
    <3>2. a - 1 \in x..y
      BY <2>2, <3>1
    <3>. QED  BY <2>1, <3>2 DEF IsRun
  <2>5. ~(a < x)
    <3>1. SUFFICES ASSUME a < x PROVE FALSE
      OBVIOUS
    <3>2. x - 1 \in a..b
      BY <2>1, <2>2, <3>1
    <3>. QED  BY <2>1, <3>2 DEF IsRun
  <2>. QED  BY <2>1, <2>2, <2>3, <2>4, <2>5
<1>3. \A r \in Runs(M) : r[2] \in Nat
  BY DEF Runs
<1>4. RunsBefore(M, b + 1) = RunsBefore(M, a) \cup {<<a, b>>} /\ <<a, b>> \notin RunsBefore(M, a)
  <2>1. ASSUME NEW r \in Runs(M) PROVE r[2] < b + 1 <=> r[2] < a \/ r = <<a, b>>
    BY <1>2, <1>3
  <2>. QED  BY <1>1, <2>1 DEF RunsBefore
<1>5. Cardinality(RunsBefore(M, b + 1)) = Cardinality(RunsBefore(M, a)) + 1
  <2>1. IsFiniteSet(RunsBefore(M, a))
    BY RunsFinite
  <2>. QED  BY <1>4, <2>1, FS_AddElement
<1>6. CASE a + 1 = b
  <2>1. PairsBefore(M, b + 1) = PairsBefore(M, a) \cup {<<a, b>>} /\ <<a, b>> \notin PairsBefore(M, a)
    <3>1. ASSUME NEW r \in Runs(M)
          PROVE  r[2] < b + 1 /\ r[1] + 1 = r[2] <=> (r[2] < a /\ r[1] + 1 = r[2]) \/ r = <<a, b>>
      BY <1>2, <1>3, <1>6
    <3>. QED  BY <1>1, <3>1 DEF PairsBefore
  <2>2. Cardinality(PairsBefore(M, b + 1)) = Cardinality(PairsBefore(M, a)) + 1
    <3>1. IsFiniteSet(PairsBefore(M, a))
      BY RunsFinite
    <3>. QED  BY <2>1, <3>1, FS_AddElement
  <2>. QED  BY <1>5, <1>6, <2>2, RunsFinite DEF Counted
<1>7. CASE a + 1 # b
  <2>1. PairsBefore(M, b + 1) = PairsBefore(M, a)
    <3>1. ASSUME NEW r \in Runs(M)
          PROVE  r[2] < b + 1 /\ r[1] + 1 = r[2] <=> r[2] < a /\ r[1] + 1 = r[2]
      BY <1>2, <1>3, <1>7
    <3>. QED  BY <3>1 DEF PairsBefore
  <2>. QED  BY <1>5, <1>7, <2>1, RunsFinite DEF Counted
<1>. QED  BY <1>6, <1>7

(* and none ends at a processor that is not in the set. *)
LEMMA NoRunEnds ==
    ASSUME NEW M \in SUBSET Nat, NEW k \in Nat, k \notin M
    PROVE  Counted(M, k + 1) = Counted(M, k)
<1>1. ASSUME NEW r \in Runs(M) PROVE r[2] \in Nat /\ r[2] # k
  BY DEF Runs
<1>2. \A r \in Runs(M) : r[2] < k + 1 <=> r[2] < k
  BY <1>1
<1>3. RunsBefore(M, k + 1) = RunsBefore(M, k) /\ PairsBefore(M, k + 1) = PairsBefore(M, k)
  BY <1>2 DEF RunsBefore, PairsBefore
<1>. QED  BY <1>3 DEF Counted

(* The items stand for what is below m. *)
Read(M, items, m) ==
    /\ items \in Items /\ Rising(items) /\ EndsBefore(items, m)
    /\ Spans(items) = {x \in M : x < m}
    /\ Len(items) = Counted(M, m)

LEMMA RunRead ==
    ASSUME NEW M \in SUBSET Nat, IsFiniteSet(M), NEW items, NEW a \in Nat, NEW b \in Nat, a <= b,
           IsRun(M, a, b), Read(M, items, a)
    PROVE  Read(M, items \o Written(a, b), b + 1)
<1>1. PICK new : new = items \o Written(a, b)
  OBVIOUS
<1>2. items \in Items /\ Rising(items) /\ EndsBefore(items, a)
  BY DEF Read
<1>3. /\ new \in Items /\ Len(new) = Len(items) + (IF a + 1 = b THEN 2 ELSE 1)
      /\ Rising(new) /\ EndsBefore(new, b + 1)
      /\ Spans(new) = Spans(items) \cup (a..b)
  BY <1>1, <1>2, RunWritten
<1>4. Len(new) = Counted(M, b + 1)
  BY <1>3, RunCounted DEF Read
<1>5. Spans(new) = {x \in M : x < b + 1}
  <2>1. \A x \in a..b : x \in M
    BY DEF IsRun
  <2>2. \A x \in M : x < b + 1 <=> x < a \/ x \in a..b
    OBVIOUS
  <2>3. \A x \in a..b : x < b + 1
    OBVIOUS
  <2>. QED  BY <1>3, <2>1, <2>2, <2>3 DEF Read
<1>. QED  BY <1>1, <1>3, <1>4, <1>5 DEF Read

LEMMA GapRead ==
    ASSUME NEW M \in SUBSET Nat, NEW items, NEW k \in Nat, k \notin M, Read(M, items, k)
    PROVE  Read(M, items, k + 1)
<1>1. EndsBefore(items, k + 1)
  <2>1. \A i \in DOMAIN items : items[i][2] \in Int
    BY DEF Read, Items
  <2>. QED  BY <2>1 DEF Read, EndsBefore
<1>2. {x \in M : x < k + 1} = {x \in M : x < k}
  <2>1. \A x \in M : x < k + 1 <=> x < k
    OBVIOUS
  <2>. QED  BY <2>1
<1>. QED  BY <1>1, <1>2, NoRunEnds DEF Read

(* After the bits below k: the items stand for what is below the run that is *)
(* open, and the run reaches up to k.                                       *)
ScanInv(M, scan, k) ==
    /\ scan \in Scans
    /\ IF scan.start = -1 THEN Read(M, scan.items, k)
       ELSE /\ scan.start \in Nat /\ scan.end = k - 1 /\ scan.start <= scan.end
            /\ scan.start..scan.end \subseteq M /\ scan.start - 1 \notin M
            /\ Read(M, scan.items, scan.start)
    /\ scan.start = -1 => k - 1 \notin M

LEMMA ScanStep ==
    ASSUME NEW M \in SUBSET Nat, IsFiniteSet(M), M = Mask, NEW k \in Nat,
           NEW scan, ScanInv(M, scan, k)
    PROVE  ScanInv(M, ScanCpu(scan, k), k + 1)
<1>1. PICK start \in Int, end \in Int, items \in Items :
        scan = [start |-> start, end |-> end, items |-> items]
  BY DEF Scans, Items, ScanInv
<1>2. PICK new : new = ScanCpu(scan, k)
  OBVIOUS
<1>3. new \in Scans
  BY <1>2, ScanType DEF ScanInv
<1>4. (k + 1) - 1 = k
  OBVIOUS
<1>5. CASE k \in M /\ start = -1
  <2>1. new = [start |-> k, end |-> k, items |-> items]
    BY <1>1, <1>2, <1>5 DEF ScanCpu
  <2>2. Read(M, items, k) /\ k - 1 \notin M
    BY <1>1, <1>5 DEF ScanInv
  <2>3. k..k \subseteq M
    BY <1>5
  <2>. QED  BY <1>2, <1>3, <1>4, <2>1, <2>2, <2>3 DEF ScanInv
<1>6. CASE k \in M /\ start # -1
  <2>1. new = [start |-> start, end |-> k, items |-> items]
    BY <1>1, <1>2, <1>6 DEF ScanCpu
  <2>2. /\ start \in Nat /\ end = k - 1 /\ start <= end
        /\ start..end \subseteq M /\ start - 1 \notin M
        /\ Read(M, items, start)
    BY <1>1, <1>6 DEF ScanInv
  <2>3. start..k \subseteq M /\ start <= k
    <3>1. \A x \in start..k : x \in start..end \/ x = k
      BY <2>2
    <3>. QED  BY <1>6, <2>2, <3>1
  <2>. QED  BY <1>2, <1>3, <1>4, <1>6, <2>1, <2>2, <2>3 DEF ScanInv
<1>7. CASE k \notin M /\ start = -1
  <2>1. new = scan
    BY <1>1, <1>2, <1>7 DEF ScanCpu
  <2>2. Read(M, items, k + 1)
    BY <1>1, <1>7, GapRead DEF ScanInv
  <2>. QED  BY <1>1, <1>2, <1>3, <1>4, <1>7, <2>1, <2>2 DEF ScanInv
<1>8. CASE k \notin M /\ start # -1
  <2>1. new = [start |-> -1, end |-> -1, items |-> items \o Written(start, end)]
    BY <1>1, <1>2, <1>8 DEF ScanCpu
  <2>2. /\ start \in Nat /\ end = k - 1 /\ start <= end
        /\ start..end \subseteq M /\ start - 1 \notin M
        /\ Read(M, items, start)
    BY <1>1, <1>8 DEF ScanInv
  <2>3. end \in Nat /\ end + 1 = k /\ IsRun(M, start, end)
    BY <1>8, <2>2 DEF IsRun
  <2>4. Read(M, items \o Written(start, end), k)
    BY <2>2, <2>3, RunRead
  <2>5. Read(M, items \o Written(start, end), k + 1)
    BY <1>8, <2>4, GapRead
  <2>. QED  BY <1>2, <1>3, <1>4, <1>8, <2>1, <2>5 DEF ScanInv
<1>. QED  BY <1>5, <1>6, <1>7, <1>8

LEMMA MaskIs == Mask \subseteq 0..(MaskBits - 1) /\ Mask \in SUBSET Nat /\ IsFiniteSet(Mask)
<1>1. Mask \subseteq 0..(MaskBits - 1)
  BY Zenon DEF Mask
<1>2. IsFiniteSet(0..(MaskBits - 1))
  <2>1. 0 \in Int /\ MaskBits - 1 \in Int
    BY BitsAre
  <2>. QED  BY <2>1, FS_Interval
<1>3. IsFiniteSet(Mask)
  BY <1>1, <1>2, FS_Subset
<1>. QED  BY <1>1, <1>3

LEMMA NothingRead ==
    ASSUME NEW M \in SUBSET Nat
    PROVE  ScanInv(M, NoScan, 0)
<1>1. Read(M, <<>>, 0)
  <2>1. RunsBefore(M, 0) = {} /\ PairsBefore(M, 0) = {}
    <3>1. ASSUME NEW r \in Runs(M) PROVE ~(r[2] < 0)
      <4>1. r[2] \in M
        BY DEF Runs
      <4>2. PICK y \in Nat : y = r[2]
        BY <4>1
      <4>3. ~(y < 0)
        OBVIOUS
      <4>. QED  BY <4>2, <4>3, Zenon
    <3>. QED  BY <3>1 DEF RunsBefore, PairsBefore
  <2>2. Counted(M, 0) = 0
    BY <2>1, FS_EmptySet DEF Counted
  <2>3. Spans(<<>>) = {} /\ {x \in M : x < 0} = {}
    <3>1. Spans(<<>>) = {}
      <4>1. PICK none : none = <<>> /\ DOMAIN none = {}
        OBVIOUS
      <4>2. Spans(none) = {}
        BY <4>1 DEF Spans
      <4>. QED  BY <4>1, <4>2
    <3>2. \A x \in M : ~(x < 0)
      OBVIOUS
    <3>. QED  BY <3>1, <3>2
  <2>. QED  BY <2>2, <2>3 DEF Read, Items, Rising, EndsBefore
<1>. QED  BY <1>1 DEF ScanInv, NoScan, Scans

LEMMA AffinityIsRead == AffinityRead
<1>1. PICK M : M = Mask
  OBVIOUS
<1>2. M \subseteq 0..(MaskBits - 1) /\ M \in SUBSET Nat /\ IsFiniteSet(M)
  BY <1>1, MaskIs
<1>3. PICK n \in Nat : n = MaskBits /\ n > 0
  BY BitsAre
<1>4. PICK f : /\ f[0] = NoScan /\ f[n] = Scanned
               /\ \A k \in 0..(n - 1) : f[k + 1] = ScanCpu(f[k], k)
  BY <1>3, ScanSteps
<1> DEFINE P == {k \in Nat : k <= n => ScanInv(M, f[k], k)}
<1>5. 0 \in P
  BY <1>2, <1>4, NothingRead
<1>6. ASSUME NEW k \in P PROVE k + 1 \in P
  <2> SUFFICES ASSUME k + 1 <= n PROVE ScanInv(M, f[k + 1], k + 1)
    OBVIOUS
  <2>1. k \in 0..(n - 1) /\ k \in Nat /\ ScanInv(M, f[k], k)
    OBVIOUS
  <2>. QED  BY <1>1, <1>2, <1>4, <2>1, ScanStep
<1>7. P = Nat
  <2>1. P \in SUBSET Nat
    OBVIOUS
  <2> HIDE DEF P
  <2>. QED  BY <1>5, <1>6, <2>1, AllNaturals
<1>8. ScanInv(M, Scanned, n)
  <2>1. n \in P
    BY <1>7
  <2>. QED  BY <1>4, <2>1
<1>9. PICK start \in Int, end \in Int, items \in Items :
        Scanned = [start |-> start, end |-> end, items |-> items]
  BY <1>8 DEF Scans, Items, ScanInv
<1>10. Read(M, AffinityItems, n)
  <2>1. CASE start = -1
    <3>1. AffinityItems = items
      BY <1>9, <2>1, ItemsAre DEF Flushed
    <3>. QED  BY <1>8, <1>9, <2>1, <3>1 DEF ScanInv
  <2>2. CASE start # -1
    <3>1. AffinityItems = items \o Written(start, end)
      BY <1>9, <2>2, ItemsAre DEF Flushed
    <3>2. /\ start \in Nat /\ end = n - 1 /\ start <= end
          /\ start..end \subseteq M /\ start - 1 \notin M
          /\ Read(M, items, start)
      BY <1>8, <1>9, <2>2 DEF ScanInv
    <3>3. end \in Nat /\ end + 1 = n /\ IsRun(M, start, end)
      BY <1>2, <1>3, <3>2 DEF IsRun
    <3>. QED  BY <1>2, <3>1, <3>2, <3>3, RunRead
  <2>. QED  BY <2>1, <2>2
<1>11. PICK written : written = AffinityItems
  OBVIOUS
<1>12. \A x \in M : x \in Nat /\ x < n
  BY <1>2, <1>3
<1>13. UNION {written[i][1]..written[i][2] : i \in DOMAIN written} = M
  <2>1. {x \in M : x < n} = M
    BY <1>12
  <2>. QED  BY <1>10, <1>11, <2>1, Zenon DEF Read, Spans
<1>14. \A i \in DOMAIN written \ {1} : written[i - 1][2] < written[i][1]
  BY <1>10, <1>11 DEF Read, Rising
<1>15. PICK runs : runs = {r \in M \X M : r[1] <= r[2] /\ r[1]..r[2] \subseteq M /\ r[1] - 1 \notin M /\ r[2] + 1 \notin M}
  OBVIOUS
<1>16. RunsBefore(M, n) = runs /\ PairsBefore(M, n) = {r \in runs : r[1] + 1 = r[2]}
  <2>1. Runs(M) = runs
    BY <1>15 DEF Runs, IsRun
  <2>2. \A r \in runs : r[2] < n
    BY <1>12, <1>15
  <2>. QED  BY <2>1, <2>2 DEF RunsBefore, PairsBefore
<1>17. Len(written) = Cardinality(runs) + Cardinality({r \in runs : r[1] + 1 = r[2]})
  BY <1>10, <1>11, <1>16 DEF Read, Counted
<1>. QED  BY <1>1, <1>11, <1>13, <1>14, <1>15, <1>17, Zenon DEF AffinityRead

LEMMA NoteType ==
    ASSUME NEW times \in Seq(Int), NEW bit \in Int
    PROVE  Noted(times, bit) \in Seq(Int)
  BY DEF Noted

LEMMA NoteSteps ==
    \E f : /\ f[0] = <<>> /\ f[MaskBits] = Timed
           /\ \A k \in 0..MaskBits : f[k] \in Seq(Int)
           /\ \A k \in 0..(MaskBits - 1) : f[k + 1] = Noted(f[k], k)
<1>1. PICK n \in Nat : n = MaskBits /\ n > 0 /\ DOMAIN Cpus = 1..n /\ \A i \in 1..n : Cpus[i] = i - 1
  BY BitsAre
<1>2. PICK op : op = [i \in 1..n |-> [times \in Seq(Int) |-> Noted(times, i - 1)]]
  OBVIOUS
<1>3. op \in [1..n -> [Seq(Int) -> Seq(Int)]]
  <2>1. \A i \in 1..n : [times \in Seq(Int) |-> Noted(times, i - 1)] \in [Seq(Int) -> Seq(Int)]
    BY NoteType
  <2>. QED  BY <1>2, <2>1
<1>4. <<>> \in Seq(Int)
  OBVIOUS
<1>5. PICK g \in [SUBSET (1..n) -> Seq(Int)] : Folds(g, n, <<>>, op)
  BY <1>3, <1>4, FoldsExist
<1>6. \A S \in SUBSET (1..n) : S # {} => Max(S) \in 1..n /\ S \ {Max(S)} \in SUBSET (1..n)
  <2> SUFFICES ASSUME NEW S \in SUBSET (1..n), S # {} PROVE Max(S) \in S
    OBVIOUS
  <2>1. IsFiniteSet(1..n) /\ S \in SUBSET Nat
    BY FS_Interval
  <2>. QED  BY <2>1, FS_Subset, MaxIsGreatest
<1>7. \A S \in SUBSET (1..n) :
         g[S] = IF S = {} THEN <<>> ELSE Noted(g[S \ {Max(S)}], Cpus[Max(S)])
  <2> SUFFICES ASSUME NEW S \in SUBSET (1..n), S # {}
               PROVE  g[S] = Noted(g[S \ {Max(S)}], Cpus[Max(S)])
    BY <1>5 DEF Folds
  <2>1. PICK i \in 1..n, R \in SUBSET (1..n) : i = Max(S) /\ R = S \ {Max(S)}
    BY <1>6
  <2>2. g[S] = op[i][g[R]] /\ g[R] \in Seq(Int)
    BY <1>5, <2>1 DEF Folds
  <2>3. op[i][g[R]] = Noted(g[R], i - 1) /\ Cpus[i] = i - 1
    BY <1>1, <1>2, <2>2
  <2>. QED  BY <2>1, <2>2, <2>3
<1>8. NotesTo(g)
  <2>1. g = [S \in SUBSET (1..n) |-> g[S]]
    OBVIOUS
  <2>2. g = [S \in SUBSET (1..n) |-> IF S = {} THEN <<>> ELSE Noted(g[S \ {Max(S)}], Cpus[Max(S)])]
    BY <1>7, <2>1
  <2>. QED  BY <1>1, <2>2, Zenon DEF NotesTo
<1>9. PICK h : h = CHOOSE x : NotesTo(x)
  OBVIOUS
<1>10. NotesTo(h)
  BY <1>8, <1>9
<1>11. h[1..n] = Timed
  BY <1>1, <1>9, TimedIs
<1>12. \A S \in SUBSET (1..n) :
          h[S] = IF S = {} THEN <<>> ELSE Noted(h[S \ {Max(S)}], Cpus[Max(S)])
  <2>1. h = [S \in SUBSET (1..n) |-> IF S = {} THEN <<>> ELSE Noted(h[S \ {Max(S)}], Cpus[Max(S)])]
    BY <1>1, <1>10, Zenon DEF NotesTo
  <2>. QED  BY <2>1, Zenon
<1>13. PICK f : f = [k \in 0..n |-> h[1..k]]
  OBVIOUS
<1>14. f[0] = <<>>
  <2>1. 1..0 = {} /\ f[0] = h[1..0]
    BY <1>13
  <2>. QED  BY <1>12, <2>1
<1>15. \A k \in 0..(n - 1) : f[k + 1] = Noted(f[k], k)
  <2> SUFFICES ASSUME NEW k \in 0..(n - 1) PROVE f[k + 1] = Noted(f[k], k)
    OBVIOUS
  <2>1. h[1..(k + 1)] = Noted(h[1..k], Cpus[k + 1])
    BY <1>12, PrefixFacts
  <2>2. Cpus[k + 1] = k /\ f[k + 1] = h[1..(k + 1)] /\ f[k] = h[1..k]
    BY <1>1, <1>13
  <2>. QED  BY <2>1, <2>2
<1> DEFINE P == {k \in Nat : k <= n => f[k] \in Seq(Int)}
<1>16. 0 \in P
  BY <1>4, <1>14
<1>17. ASSUME NEW k \in P PROVE k + 1 \in P
  <2> SUFFICES ASSUME k + 1 <= n PROVE f[k + 1] \in Seq(Int)
    OBVIOUS
  <2>1. k \in 0..(n - 1) /\ k \in Int /\ f[k] \in Seq(Int)
    OBVIOUS
  <2>. QED  BY <1>15, <2>1, NoteType
<1>18. P = Nat
  <2>1. P \in SUBSET Nat
    OBVIOUS
  <2> HIDE DEF P
  <2>. QED  BY <1>16, <1>17, <2>1, AllNaturals
<1>19. \A k \in 0..n : f[k] \in Seq(Int)
  BY <1>18
<1>20. f[n] = Timed
  BY <1>11, <1>13
<1>. QED  BY <1>1, <1>14, <1>15, <1>19, <1>20

-----------------------------------------------------------------------------
(* The entries of a mask, each later than the one before it. *)
Entries(ts, k) ==
    /\ ts \in Seq(Int) /\ Len(ts) <= k
    /\ \A i \in 1..Len(ts) : 0 <= ts[i] /\ ts[i] < k
    /\ \A i, j \in 1..Len(ts) : i < j => ts[i] < ts[j]

LEMMA EntryNoted ==
    ASSUME NEW k \in Nat, NEW ts, Entries(ts, k)
    PROVE  Entries(Noted(ts, k), k + 1)
<1>1. PICK n \in Nat : n = Len(ts) /\ n <= k
  BY DEF Entries
<1>2. ts \in Seq(Int) /\ \A i \in 1..n : ts[i] \in Int /\ 0 <= ts[i] /\ ts[i] < k
  BY <1>1 DEF Entries
<1>3. \A i, j \in 1..n : i < j => ts[i] < ts[j]
  BY <1>1 DEF Entries
<1>4. CASE k \in Mask
  <2>1. PICK new : new = Append(ts, k)
    OBVIOUS
  <2>2. new \in Seq(Int) /\ Len(new) = n + 1 /\ new[n + 1] = k /\ \A i \in 1..n : new[i] = ts[i]
    BY <1>1, <1>2, <2>1
  <2>3. \A i \in 1..(n + 1) : i \in 1..n \/ i = n + 1
    OBVIOUS
  <2>4. \A i \in 1..(n + 1) : 0 <= new[i] /\ new[i] < k + 1
    BY <1>2, <2>2, <2>3
  <2>5. \A i, j \in 1..(n + 1) : i < j => new[i] < new[j]
    <3>1. ASSUME NEW i \in 1..(n + 1), NEW j \in 1..(n + 1), i < j PROVE new[i] < new[j]
      <4>1. i \in 1..n
        BY <3>1
      <4>2. CASE j = n + 1
        BY <1>2, <2>2, <4>1, <4>2
      <4>3. CASE j \in 1..n
        BY <1>3, <2>2, <3>1, <4>1, <4>3
      <4>. QED  BY <2>3, <4>2, <4>3
    <3>. QED  BY <3>1
  <2>6. Entries(new, k + 1)
    <3>1. n + 1 <= k + 1
      BY <1>1
    <3>. QED  BY <2>2, <2>4, <2>5, <3>1, Zenon DEF Entries
  <2>. QED  BY <1>4, <2>1, <2>6 DEF Noted
<1>5. CASE k \notin Mask
  <2>1. Noted(ts, k) = ts
    BY <1>5 DEF Noted
  <2>2. n <= k + 1 /\ \A i \in 1..n : ts[i] < k + 1
    BY <1>1, <1>2
  <2>. QED  BY <1>1, <1>2, <1>3, <2>1, <2>2 DEF Entries
<1>. QED  BY <1>4, <1>5

LEMMA TimesOfMask == Entries(Timed, MaskBits)
<1>1. PICK n \in Nat : n = MaskBits /\ n > 0
  BY BitsAre
<1>2. PICK f : /\ f[0] = <<>> /\ f[n] = Timed
               /\ \A k \in 0..(n - 1) : f[k + 1] = Noted(f[k], k)
  BY <1>1, NoteSteps
<1> DEFINE P == {k \in Nat : k <= n => Entries(f[k], k)}
<1>3. 0 \in P
  <2>1. Entries(<<>>, 0)
    BY DEF Entries
  <2>. QED  BY <1>2, <2>1
<1>4. ASSUME NEW k \in P PROVE k + 1 \in P
  <2> SUFFICES ASSUME k + 1 <= n PROVE Entries(f[k + 1], k + 1)
    OBVIOUS
  <2>1. k \in 0..(n - 1) /\ k \in Nat /\ Entries(f[k], k)
    OBVIOUS
  <2>. QED  BY <1>2, <2>1, EntryNoted
<1>5. P = Nat
  <2>1. P \in SUBSET Nat
    OBVIOUS
  <2> HIDE DEF P
  <2>. QED  BY <1>3, <1>4, <2>1, AllNaturals
<1>. QED  BY <1>1, <1>2, <1>5

LEMMA LesserOfTwo ==
    ASSUME NEW a \in Nat, NEW b \in Nat
    PROVE  Min({a, b}) = IF a < b THEN a ELSE b
<1>1. PICK S : S = {a, b}
  OBVIOUS
<1>2. Min(S) \in S /\ \A x \in S : Min(S) <= x
  <2>1. S \in SUBSET Nat /\ S # {}
    BY <1>1
  <2>. QED  BY <2>1, MinIsLeast
<1>3. PICK m : m = Min(S)
  OBVIOUS
<1>4. (m = a \/ m = b) /\ m <= a /\ m <= b
  BY <1>1, <1>2, <1>3
<1>. QED  BY <1>1, <1>3, <1>4

LEMMA AtLeastNothing ==
    ASSUME NEW a \in Int
    PROVE  Max({0, a}) = IF a < 0 THEN 0 ELSE a
<1>1. PICK m : m = IF a < 0 THEN 0 ELSE a
  OBVIOUS
<1>2. m \in {0, a} /\ \A y \in {0, a} : m >= y
  BY <1>1
<1>3. \A x \in {0, a} : (\A y \in {0, a} : x >= y) => x = m
  BY <1>1
<1>4. Max({0, a}) = m
  BY <1>2, <1>3 DEF Max
<1>. QED  BY <1>1, <1>4

(* The axis has the ages of all entries, in their order. *)
LEMMA AxisOf ==
    ASSUME NEW k \in Nat, NEW ts, Entries(ts, k)
    PROVE  LET times == buildTimeAxis(ts, k, k)
           IN  /\ times \in Seq(Int) /\ Len(times) = Len(ts)
               /\ \A i \in 1..Len(ts) : times[i] = ts[i] - k
               /\ \A i, j \in 1..Len(ts) : i < j => times[i] < times[j]
<1>1. PICK n \in Nat : n = Len(ts) /\ n <= k
  BY DEF Entries
<1>2. ts \in Seq(Int) /\ \A i \in 1..n : ts[i] \in Int
  BY <1>1 DEF Entries
<1>3. \A i, j \in 1..n : i < j => ts[i] < ts[j]
  BY <1>1 DEF Entries
<1>4. Min({k, n}) = n
  BY <1>1, LesserOfTwo
<1>5. PICK times : times = buildTimeAxis(ts, k, k)
  OBVIOUS
<1>6. times = [i \in 1..n |-> ts[n - n + i] - k]
  BY <1>1, <1>4, <1>5 DEF buildTimeAxis
<1>7. \A i \in 1..n : times[i] = ts[i] - k /\ times[i] \in Int
  <2>1. \A i \in 1..n : n - n + i = i
    OBVIOUS
  <2>. QED  BY <1>2, <1>6, <2>1
<1>8. times \in Seq(Int) /\ Len(times) = n
  <2>1. \A i \in 1..n : ts[n - n + i] - k \in Int
    <3>1. \A i \in 1..n : n - n + i = i
      OBVIOUS
    <3>. QED  BY <1>2, <3>1
  <2>. QED  BY <1>6, <2>1
<1>9. \A i, j \in 1..n : i < j => times[i] < times[j]
  BY <1>2, <1>3, <1>7
<1>. QED  BY <1>1, <1>5, <1>7, <1>8, <1>9

(* The tooltip's entry. *)
NearestEntry(times, x, i) ==
    /\ i = 0 <=> times = <<>>
    /\ \A j \in DOMAIN times :
          /\ Distance(times[i], x) <= Distance(times[j], x)
          /\ j < i => Distance(times[i], x) < Distance(times[j], x)

LEMMA HoveredIsNearest ==
    ASSUME NEW times \in Seq(Int), NEW x \in Int,
           \A i, j \in 1..Len(times) : i < j => times[i] < times[j]
    PROVE  NearestEntry(times, x, hoveredIndexFromPlotX(times, x))
<1>1. PICK n \in Nat : n = Len(times) /\ DOMAIN times = 1..n
  OBVIOUS
<1>2. \A i \in 1..n : times[i] \in Int
  BY <1>1
<1>3. \A i, j \in 1..n : i < j => times[i] < times[j]
  BY <1>1
<1>4. PICK notBelow \in SUBSET (1..n) : notBelow = {i \in 1..n : times[i] >= x}
  OBVIOUS
<1>5. PICK h : h = hoveredIndexFromPlotX(times, x)
  OBVIOUS
<1>6. h = IF times = <<>> THEN 0
          ELSE IF notBelow = {} THEN n
          ELSE IF Min(notBelow) = 1 THEN 1
          ELSE Nearer(times, x, Min(notBelow))
  BY <1>1, <1>4, <1>5 DEF hoveredIndexFromPlotX
<1>7. n = 0 <=> times = <<>>
  BY <1>1
<1>8. CASE times = <<>>
  <2>1. h = 0 /\ DOMAIN times = {}
    BY <1>1, <1>6, <1>7, <1>8
  <2>. QED  BY <1>5, <1>8, <2>1 DEF NearestEntry
<1>9. CASE times # <<>> /\ notBelow = {}
  <2>1. h = n /\ n \in 1..n
    BY <1>1, <1>6, <1>7, <1>9
  <2>2. \A i \in 1..n : times[i] < x
    BY <1>2, <1>4, <1>9
  <2>3. \A j \in 1..n : j = n \/ times[j] < times[n]
    BY <1>3, <2>1
  <2>4. \A j \in 1..n : Distance(times[n], x) <= Distance(times[j], x) /\ ~(n < j)
                         /\ (j < n => Distance(times[n], x) <= Distance(times[j], x))
    BY <1>2, <2>1, <2>2, <2>3 DEF Distance
  <2>5. \A j \in 1..n : j < n => Distance(times[n], x) < Distance(times[j], x)
    BY <1>2, <2>1, <2>2, <2>3 DEF Distance
  <2>. QED  BY <1>1, <1>5, <1>7, <1>9, <2>1, <2>4, <2>5 DEF NearestEntry
<1>10. CASE times # <<>> /\ notBelow # {}
  <2>1. PICK u : u = Min(notBelow)
    OBVIOUS
  <2>2. u \in 1..n /\ times[u] >= x /\ \A i \in 1..n : times[i] >= x => u <= i
    <3>1. notBelow \in SUBSET Nat
      OBVIOUS
    <3>. QED  BY <1>4, <1>10, <2>1, <3>1, MinIsLeast
  <2>3. \A i \in 1..n : i < u => times[i] < x
    BY <1>2, <2>2
  <2>4. \A i \in 1..n : i >= u => times[u] <= times[i]
    BY <1>2, <1>3, <2>2
  <2>5. CASE u = 1
    <3>1. h = 1
      BY <1>6, <1>10, <2>1, <2>5
    <3>2. \A j \in 1..n : Distance(times[1], x) <= Distance(times[j], x) /\ ~(j < 1)
      BY <1>2, <2>2, <2>4, <2>5 DEF Distance
    <3>. QED  BY <1>1, <1>5, <1>10, <3>1, <3>2 DEF NearestEntry
  <2>6. CASE u # 1
    <3>1. PICK l \in 1..n : l = u - 1 /\ l < u
      BY <2>2, <2>6
    <3>2. h = IF Distance(times[u], x) < Distance(times[l], x) THEN u ELSE l
      BY <1>6, <1>10, <2>1, <2>6, <3>1 DEF Nearer
    <3>3. PICK a \in Int, b \in Int : a = times[l] /\ b = times[u] /\ a < x /\ x <= b
      BY <1>2, <2>2, <2>3, <3>1
    <3>4. Distance(times[l], x) = x - a /\ Distance(times[u], x) = b - x
      BY <3>3 DEF Distance
    <3>5. ASSUME NEW j \in 1..n, j < l PROVE Distance(times[j], x) > x - a
      <4>1. times[j] < a /\ times[j] \in Int
        BY <1>2, <1>3, <3>3, <3>5
      <4>. QED  BY <3>3, <4>1 DEF Distance
    <3>6. ASSUME NEW j \in 1..n, j >= u PROVE Distance(times[j], x) >= b - x
      <4>1. times[j] >= b /\ times[j] \in Int
        BY <1>2, <2>4, <3>3, <3>6
      <4>. QED  BY <3>3, <4>1 DEF Distance
    <3>7. \A j \in 1..n : j < l \/ j = l \/ j >= u
      BY <2>2, <3>1
    <3>8. \A j \in 1..n : Distance(times[j], x) \in Int
      BY <1>2 DEF Distance
    <3>9. CASE b - x < x - a
      <4>1. h = u
        BY <3>2, <3>4, <3>9
      <4>2. ASSUME NEW j \in 1..n
            PROVE  b - x <= Distance(times[j], x) /\ (j < u => b - x < Distance(times[j], x))
        <5>1. CASE j < l
          BY <3>3, <3>5, <3>8, <3>9, <5>1
        <5>2. CASE j = l
          BY <3>3, <3>4, <3>9, <5>2
        <5>3. CASE j >= u
          BY <2>2, <3>3, <3>6, <3>8, <5>3
        <5>. QED  BY <3>7, <5>1, <5>2, <5>3
      <4>3. u # 0
        BY <2>2
      <4>. QED  BY <1>1, <1>5, <1>10, <3>4, <4>1, <4>2, <4>3 DEF NearestEntry
    <3>10. CASE ~(b - x < x - a)
      <4>1. h = l
        BY <3>2, <3>4, <3>10
      <4>2. ASSUME NEW j \in 1..n
            PROVE  x - a <= Distance(times[j], x) /\ (j < l => x - a < Distance(times[j], x))
        <5>1. CASE j < l
          BY <3>3, <3>5, <3>8, <5>1
        <5>2. CASE j = l
          BY <3>3, <3>4, <5>2
        <5>3. CASE j >= u
          BY <2>2, <3>1, <3>3, <3>6, <3>8, <3>10, <5>3
        <5>. QED  BY <3>7, <5>1, <5>2, <5>3
      <4>3. l # 0
        OBVIOUS
      <4>. QED  BY <1>1, <1>5, <1>10, <3>4, <4>1, <4>2, <4>3 DEF NearestEntry
    <3>. QED  BY <3>9, <3>10
  <2>. QED  BY <2>5, <2>6
<1>. QED  BY <1>8, <1>9, <1>10

LEMMA WindowFits ==
    ASSUME NEW k \in Nat, NEW ts, Entries(ts, k), NEW visible \in Nat, NEW desired \in Int
    PROVE  LET times == buildTimeAxis(ts, k, k)
               axis == makeTimeAxisConfig(ts, visible, desired)
           IN  /\ axis.xMax - axis.xMin = visible
               /\ axis.xMax <= 0
               /\ axis.xMax < 0 => times # <<>> /\ times[1] <= axis.xMin
<1>1. PICK n \in Nat : n = Len(ts)
  BY DEF Entries
<1>2. PICK times : times = buildTimeAxis(ts, k, k)
  OBVIOUS
<1>3. times \in Seq(Int) /\ Len(times) = n /\ \A i \in 1..n : times[i] = ts[i] - k
  BY <1>1, <1>2, AxisOf
<1>4. PICK span \in Nat : /\ span = IF ts = <<>> THEN 0 ELSE Max({0, ts[n] - ts[1]})
                          /\ span > 0 => n # 0 /\ span = ts[n] - ts[1]
                          /\ n # 0 => ts[n] < k /\ ts[1] \in Int /\ ts[n] \in Int
  <2>1. n # 0 => ts[1] \in Int /\ ts[n] \in Int /\ ts[n] < k
    BY <1>1 DEF Entries
  <2>2. n = 0 <=> ts = <<>>
    BY <1>1 DEF Entries
  <2>3. CASE n = 0
    BY <2>2, <2>3
  <2>4. CASE n # 0
    <3>1. PICK d \in Int : d = ts[n] - ts[1]
      BY <2>1, <2>4
    <3>2. Max({0, d}) = IF d < 0 THEN 0 ELSE d
      BY AtLeastNothing
    <3>. QED  BY <2>1, <2>2, <2>4, <3>1, <3>2
  <2>. QED  BY <2>3, <2>4
<1>5. PICK offset : offset = ClampedOffset(desired, span, visible)
  OBVIOUS
<1>6. offset \in Nat /\ (offset > 0 => offset <= span - visible)
  <2>1. PICK room \in Int : room = Max({0, span - visible}) /\ room = IF span - visible < 0 THEN 0 ELSE span - visible
    BY AtLeastNothing
  <2>. QED  BY <1>5, <2>1 DEF ClampedOffset, Between
<1>7. PICK axis : axis = makeTimeAxisConfig(ts, visible, desired)
  OBVIOUS
<1>8. axis = [xMin |-> 0 - visible - offset, xMax |-> 0 - offset]
  BY <1>1, <1>4, <1>5, <1>7 DEF makeTimeAxisConfig
<1>9. axis.xMax - axis.xMin = visible /\ axis.xMax <= 0
  BY <1>6, <1>8
<1>10. ASSUME axis.xMax < 0 PROVE times # <<>> /\ times[1] <= axis.xMin
  <2>1. offset > 0 /\ offset <= span - visible
    BY <1>6, <1>8, <1>10
  <2>2. n # 0 /\ span = ts[n] - ts[1] /\ ts[n] < k
    <3>1. span > 0
      BY <1>6, <2>1
    <3>. QED  BY <1>4, <3>1
  <2>3. times[1] = ts[1] - k
    BY <1>3, <2>2
  <2>4. ts[1] - k <= 0 - visible - offset
    BY <1>4, <1>6, <2>1, <2>2
  <2>5. times # <<>>
    BY <1>3, <2>2
  <2>. QED  BY <1>8, <2>3, <2>4, <2>5
<1>. QED  BY <1>2, <1>7, <1>9, <1>10

LEMMA ChartsAreReadable == ChartsReadable
<1>1. PICK ts : ts = Timed
  OBVIOUS
<1>2. FoldLeft(Noted, <<>>, [i \in 1..MaskBits |-> i - 1]) = ts
  BY <1>1, Zenon DEF Timed, Cpus
<1>3. PICK n \in Nat : n = MaskBits
  BY BitsAre
<1>4. Entries(ts, n)
  BY <1>1, <1>3, TimesOfMask
<1>5. PICK times : times = buildTimeAxis(ts, n, n)
  OBVIOUS
<1>6. /\ times \in Seq(Int) /\ Len(times) = Len(ts)
      /\ \A i, j \in 1..Len(ts) : i < j => times[i] < times[j]
  BY <1>4, <1>5, AxisOf
<1>7. \A x \in Int : NearestEntry(times, x, hoveredIndexFromPlotX(times, x))
  BY <1>6, HoveredIsNearest
<1>8. \A x \in -n - 1 .. 1 : x \in Int
  OBVIOUS
<1>9. \A visible \in {2, 5}, desired \in {-1, 1, n} :
         LET axis == makeTimeAxisConfig(ts, visible, desired)
         IN  /\ axis.xMax - axis.xMin = visible
             /\ axis.xMax <= 0
             /\ axis.xMax < 0 => times # <<>> /\ times[1] <= axis.xMin
  <2>1. \A visible \in {2, 5}, desired \in {-1, 1, n} : visible \in Nat /\ desired \in Int
    OBVIOUS
  <2>. QED  BY <1>4, <1>5, <2>1, WindowFits
<1>. QED  BY <1>2, <1>3, <1>5, <1>7, <1>8, <1>9, Zenon DEF ChartsReadable, NearestEntry

-----------------------------------------------------------------------------
(* Every size, share, mask, day and chart is written as it should be, on a    *)
(* binary kilo or another, words of any width and any span of years of which  *)
(* LeapYears are those of the calendar.                                       *)
THEOREM FormatsAlwaysTrue == FormatSpec => []FormatsTrue
<1>1. FormatInit => FormatInv
  BY FormatAssumption DEF FormatInit, FormatInv
<1>2. FormatInv /\ [FormatNext]_formatVars => FormatInv'
  <2> SUFFICES ASSUME FormatInv, [FormatNext]_formatVars PROVE FormatInv'
    OBVIOUS
  <2>1. CASE FormatNext
    BY <2>1, FormatAssumption DEF FormatInv, FormatNext, NextArgument
  <2>2. CASE UNCHANGED formatVars
    BY <2>2 DEF FormatInv, formatVars
  <2>. QED  BY <2>1, <2>2
<1>3. FormatInv => FormatsTrue
  <2> SUFFICES ASSUME FormatInv PROVE FormatsTrue
    OBVIOUS
  <2>1. argument \in Nat
    BY FormatAssumption DEF FormatInv
  <2>. QED  BY <2>1, DigitsAre, AffinityIsRead, DaysAreNamed, ChartsAreReadable DEF FormatsTrue
<1>. QED  BY <1>1, <1>2, <1>3, PTL DEF FormatSpec

-----------------------------------------------------------------------------
(* What a loop over positions keeps.                                         *)
KeepsTo(g, positions, S) ==
    g = [T \in SUBSET DOMAIN positions |->
            IF T = {} THEN <<>>
            ELSE IF positions[Max(T)] \in S THEN Append(g[T \ {Max(T)}], positions[Max(T)])
                 ELSE g[T \ {Max(T)}]]

LEMMA KeptIs == \A positions, S :
    Kept(positions, S) = (CHOOSE g : KeepsTo(g, positions, S))[DOMAIN positions]
  BY Zenon DEF Kept, FoldLeft, MapThenFoldSet, KeepsTo

LEMMA LastOfSet ==
    ASSUME NEW n \in Nat, NEW S \in SUBSET (1..n), S # {}
    PROVE  Max(S) \in 1..n /\ S \ {Max(S)} \in SUBSET (1..n)
<1>1. IsFiniteSet(1..n) /\ S \in SUBSET Nat
  BY FS_Interval
<1>2. Max(S) \in S
  BY <1>1, FS_Subset, MaxIsGreatest
<1>. QED  BY <1>2

KeptUpTo(f, n, positions, S, N) ==
    /\ f[0] = <<>>
    /\ \A k \in 0..n : f[k] \in Seq(N)
    /\ \A k \in 0..(n - 1) :
          f[k + 1] = IF positions[k + 1] \in S THEN Append(f[k], positions[k + 1]) ELSE f[k]

LEMMA KeptSteps ==
    ASSUME NEW N, NEW positions \in Seq(N), NEW S
    PROVE  \E f : f[Len(positions)] = Kept(positions, S) /\ KeptUpTo(f, Len(positions), positions, S, N)
<1> DEFINE One(kept, i) == IF positions[i] \in S THEN Append(kept, positions[i]) ELSE kept
<1>1. PICK n \in Nat : n = Len(positions) /\ DOMAIN positions = 1..n /\ \A i \in 1..n : positions[i] \in N
  OBVIOUS
<1>2. PICK op : op = [i \in 1..n |-> [kept \in Seq(N) |-> One(kept, i)]]
  OBVIOUS
<1>3. \A i \in 1..n : \A kept \in Seq(N) : One(kept, i) \in Seq(N)
  BY <1>1
<1>4. op \in [1..n -> [Seq(N) -> Seq(N)]] /\ <<>> \in Seq(N)
  <2> HIDE DEF One
  <2>1. \A i \in 1..n : [kept \in Seq(N) |-> One(kept, i)] \in [Seq(N) -> Seq(N)]
    BY <1>3
  <2>. QED  BY <1>2, <2>1
<1>5. PICK g \in [SUBSET (1..n) -> Seq(N)] : Folds(g, n, <<>>, op)
  BY <1>4, FoldsExist
<1> HIDE DEF One
<1>6. \A T \in SUBSET (1..n) : g[T] = IF T = {} THEN <<>> ELSE One(g[T \ {Max(T)}], Max(T))
  <2> SUFFICES ASSUME NEW T \in SUBSET (1..n), T # {} PROVE g[T] = One(g[T \ {Max(T)}], Max(T))
    BY <1>5 DEF Folds
  <2>1. PICK i \in 1..n, R \in SUBSET (1..n) : i = Max(T) /\ R = T \ {Max(T)}
    BY LastOfSet
  <2>2. g[T] = op[i][g[R]] /\ g[R] \in Seq(N)
    BY <1>5, <2>1 DEF Folds
  <2>3. op[i][g[R]] = One(g[R], i)
    BY <1>2, <2>2
  <2>. QED  BY <2>1, <2>2, <2>3
<1>7. KeepsTo(g, positions, S)
  <2>1. g = [T \in SUBSET (1..n) |-> g[T]]
    OBVIOUS
  <2>2. g = [T \in SUBSET (1..n) |-> IF T = {} THEN <<>> ELSE One(g[T \ {Max(T)}], Max(T))]
    BY <1>6, <2>1
  <2>. QED  BY <1>1, <2>2, Zenon DEF KeepsTo, One
<1>8. PICK h : h = CHOOSE x : KeepsTo(x, positions, S)
  OBVIOUS
<1>9. KeepsTo(h, positions, S)
  BY <1>7, <1>8
<1>10. h[1..n] = Kept(positions, S)
  BY <1>1, <1>8, KeptIs
<1>11. \A T \in SUBSET (1..n) : h[T] = IF T = {} THEN <<>> ELSE One(h[T \ {Max(T)}], Max(T))
  <2>1. h = [T \in SUBSET (1..n) |-> IF T = {} THEN <<>> ELSE One(h[T \ {Max(T)}], Max(T))]
    BY <1>1, <1>9, Zenon DEF KeepsTo, One
  <2>. QED  BY <2>1, Zenon
<1>12. PICK f : f = [k \in 0..n |-> h[1..k]]
  OBVIOUS
<1>13. f[0] = <<>>
  <2>1. 1..0 = {} /\ f[0] = h[1..0]
    BY <1>12
  <2>. QED  BY <1>11, <2>1
<1>14. \A k \in 0..(n - 1) : f[k + 1] = One(f[k], k + 1)
  <2> SUFFICES ASSUME NEW k \in 0..(n - 1) PROVE f[k + 1] = One(f[k], k + 1)
    OBVIOUS
  <2>1. h[1..(k + 1)] = One(h[1..k], k + 1)
    BY <1>11, PrefixFacts
  <2>2. f[k + 1] = h[1..(k + 1)] /\ f[k] = h[1..k]
    BY <1>12
  <2>. QED  BY <2>1, <2>2
<1> DEFINE P == {k \in Nat : k <= n => f[k] \in Seq(N)}
<1>15. 0 \in P
  BY <1>4, <1>13
<1>16. ASSUME NEW k \in P PROVE k + 1 \in P
  <2> SUFFICES ASSUME k + 1 <= n PROVE f[k + 1] \in Seq(N)
    OBVIOUS
  <2>1. k \in 0..(n - 1) /\ k + 1 \in 1..n /\ f[k] \in Seq(N)
    OBVIOUS
  <2>. QED  BY <1>3, <1>14, <2>1
<1>17. P = Nat
  <2>1. P \in SUBSET Nat
    OBVIOUS
  <2> HIDE DEF P
  <2>. QED  BY <1>15, <1>16, <2>1, AllNaturals
<1>18. \A k \in 0..n : f[k] \in Seq(N)
  BY <1>17
<1>19. f[n] = Kept(positions, S)
  BY <1>10, <1>12
<1>20. KeptUpTo(f, n, positions, S, N)
  BY <1>13, <1>14, <1>18 DEF KeptUpTo, One
<1>. QED  BY <1>1, <1>19, <1>20

Once(s) == \A i, j \in DOMAIN s : s[i] = s[j] => i = j

LEMMA KeptFacts ==
    ASSUME NEW N, NEW positions \in Seq(N), NEW S, Once(positions)
    PROVE  /\ Kept(positions, S) \in Seq(N) /\ Once(Kept(positions, S))
           /\ ToSet(Kept(positions, S)) = ToSet(positions) \cap S
<1>1. PICK n \in Nat : n = Len(positions) /\ DOMAIN positions = 1..n /\ \A i \in 1..n : positions[i] \in N
  OBVIOUS
<1>2. PICK f : /\ f[0] = <<>> /\ f[n] = Kept(positions, S)
               /\ \A k \in 0..n : f[k] \in Seq(N)
               /\ \A k \in 0..(n - 1) :
                     f[k + 1] = IF positions[k + 1] \in S THEN Append(f[k], positions[k + 1]) ELSE f[k]
  <2>1. PICK f : f[Len(positions)] = Kept(positions, S) /\ KeptUpTo(f, Len(positions), positions, S, N)
    BY KeptSteps
  <2>2. Len(positions) = n
    BY <1>1
  <2>. QED  BY <2>1, <2>2, Zenon DEF KeptUpTo
<1> DEFINE Right(s, k) ==
             /\ \A i, j \in 1..Len(s) : s[i] = s[j] => i = j
             /\ \A i \in 1..Len(s) : s[i] \in S /\ \E j \in 1..k : s[i] = positions[j]
             /\ \A j \in 1..k : positions[j] \in S => \E i \in 1..Len(s) : s[i] = positions[j]
           P == {k \in Nat : k <= n => Right(f[k], k)}
<1>3. 0 \in P
  BY <1>2
<1>4. ASSUME NEW k \in P PROVE k + 1 \in P
  <2> SUFFICES ASSUME k + 1 <= n PROVE Right(f[k + 1], k + 1)
    OBVIOUS
  <2>1. k \in 0..n /\ k \in 0..(n - 1) /\ k + 1 \in 1..n /\ k \in Nat
    OBVIOUS
  <2>2. PICK s \in Seq(N), t \in Seq(N) : s = f[k] /\ t = f[k + 1]
    BY <1>2, <2>1
  <2>3. Right(s, k)
    BY <2>2
  <2>4. t = IF positions[k + 1] \in S THEN Append(s, positions[k + 1]) ELSE s
    BY <1>2, <2>1, <2>2
  <2>5. \A j \in 1..(k + 1) : j \in 1..k \/ j = k + 1
    OBVIOUS
  <2>6. CASE positions[k + 1] \notin S
    <3>1. t = s
      BY <2>4, <2>6
    <3>2. Right(s, k + 1)
      BY <2>3, <2>5, <2>6
    <3>. QED  BY <2>2, <3>1, <3>2
  <2>7. CASE positions[k + 1] \in S
    <3>1. PICK p \in N : p = positions[k + 1]
      BY <1>1, <2>1
    <3>2. PICK l \in Nat : l = Len(s)
      OBVIOUS
    <3>3. t = Append(s, p) /\ Len(t) = l + 1 /\ t[l + 1] = p /\ \A i \in 1..l : t[i] = s[i]
      BY <2>4, <2>7, <3>1, <3>2
    <3>4. \A i \in 1..(l + 1) : i \in 1..l \/ i = l + 1
      OBVIOUS
    <3>5. ASSUME NEW i \in 1..l PROVE s[i] # p
      <4>1. PICK j \in 1..k : s[i] = positions[j]
        BY <2>3, <3>2
      <4>2. j # k + 1 /\ j \in 1..n /\ k + 1 \in 1..n
        BY <2>1
      <4>. QED  BY <1>1, <3>1, <4>1, <4>2 DEF Once
    <3>6. \A i, j \in 1..(l + 1) : t[i] = t[j] => i = j
      <4>1. \A i, j \in 1..l : s[i] = s[j] => i = j
        BY <2>3, <3>2
      <4>. QED  BY <3>3, <3>4, <3>5, <4>1
    <3>7. \A i \in 1..(l + 1) : t[i] \in S /\ \E j \in 1..(k + 1) : t[i] = positions[j]
      <4>1. \A i \in 1..l : t[i] \in S /\ \E j \in 1..(k + 1) : t[i] = positions[j]
        <5>1. \A j \in 1..k : j \in 1..(k + 1)
          OBVIOUS
        <5>. QED  BY <2>3, <3>2, <3>3, <5>1
      <4>2. t[l + 1] \in S /\ k + 1 \in 1..(k + 1) /\ t[l + 1] = positions[k + 1]
        BY <2>7, <3>1, <3>3
      <4>. QED  BY <3>4, <4>1, <4>2
    <3>8. \A j \in 1..(k + 1) : positions[j] \in S => \E i \in 1..(l + 1) : t[i] = positions[j]
      <4>1. ASSUME NEW j \in 1..k, positions[j] \in S PROVE \E i \in 1..(l + 1) : t[i] = positions[j]
        <5>1. PICK i \in 1..l : s[i] = positions[j]
          BY <2>3, <3>2, <4>1
        <5>2. i \in 1..(l + 1) /\ t[i] = positions[j]
          BY <3>3, <5>1
        <5>. QED  BY <5>2
      <4>2. l + 1 \in 1..(l + 1) /\ t[l + 1] = positions[k + 1]
        BY <3>1, <3>3
      <4>. QED  BY <2>5, <4>1, <4>2
    <3>9. Len(t) = l + 1
      BY <3>3
    <3> HIDE <2>2, <2>3, <2>4, <3>3
    <3>10. Right(t, k + 1)
      BY <3>6, <3>7, <3>8, <3>9
    <3>. QED  BY <2>2, <3>10
  <2>. QED  BY <2>6, <2>7
<1>5. P = Nat
  <2>1. P \in SUBSET Nat
    OBVIOUS
  <2> HIDE DEF P
  <2>. QED  BY <1>3, <1>4, <2>1, AllNaturals
<1>6. PICK s \in Seq(N) : s = Kept(positions, S)
  <2>1. n \in 0..n
    OBVIOUS
  <2>. QED  BY <1>2, <2>1
<1>7. Right(s, n)
  <2>1. n \in P
    BY <1>5
  <2>2. s = f[n]
    BY <1>2, <1>6
  <2>3. Right(f[n], n)
    BY <2>1
  <2> HIDE DEF Right
  <2>. QED  BY <2>2, <2>3
<1>8. DOMAIN s = 1..Len(s)
  OBVIOUS
<1>9. Once(s)
  BY <1>7, <1>8 DEF Once
<1>10. ASSUME NEW x PROVE x \in ToSet(s) <=> x \in ToSet(positions) /\ x \in S
  <2>1. x \in ToSet(s) <=> \E i \in 1..Len(s) : s[i] = x
    BY <1>8 DEF ToSet
  <2>2. x \in ToSet(positions) <=> \E j \in 1..n : positions[j] = x
    BY <1>1 DEF ToSet
  <2>. QED  BY <1>7, <2>1, <2>2
<1>11. ToSet(s) = ToSet(positions) \cap S
  BY <1>10
<1>. QED  BY <1>6, <1>9, <1>11

(* A function applied again and again.                                       *)
Iterates(f, base, op) == f[0] = base /\ \A n \in Nat : f[n + 1] = op[f[n]]

LEMMA Iterations ==
    ASSUME NEW D, NEW base \in D, NEW op \in [D -> D]
    PROVE  \E f \in [Nat -> D] : Iterates(f, base, op)
<1> DEFINE UpTo(g, n) == g[0] = base /\ \A k \in 0..(n - 1) : g[k + 1] = op[g[k]]
           P == {n \in Nat : \E g \in [Nat -> D] : UpTo(g, n)}
<1>1. 0 \in P
  <2>1. [k \in Nat |-> base] \in [Nat -> D] /\ UpTo([k \in Nat |-> base], 0)
    OBVIOUS
  <2>. QED  BY <2>1
<1>2. ASSUME NEW n \in P PROVE n + 1 \in P
  <2>1. PICK g \in [Nat -> D] : UpTo(g, n)
    OBVIOUS
  <2>2. n \in Nat /\ n + 1 \in Nat /\ g[n] \in D /\ op[g[n]] \in D
    OBVIOUS
  <2>3. PICK h \in [Nat -> D] : h = [g EXCEPT ![n + 1] = op[g[n]]]
    BY <2>2
  <2>4. \A k \in Nat : h[k] = IF k = n + 1 THEN op[g[n]] ELSE g[k]
    BY <2>3
  <2>5. UpTo(h, n + 1)
    <3>1. h[0] = base
      BY <2>1, <2>2, <2>4
    <3>2. ASSUME NEW k \in 0..n PROVE h[k + 1] = op[h[k]]
      <4>1. k \in Nat /\ k + 1 \in Nat /\ h[k] = g[k] /\ k # n + 1
        BY <2>2, <2>4
      <4>2. CASE k = n
        BY <2>4, <4>1, <4>2
      <4>3. CASE k # n
        <5>1. k \in 0..(n - 1) /\ h[k + 1] = g[k + 1]
          BY <2>2, <2>4, <4>1, <4>3
        <5>. QED  BY <2>1, <4>1, <5>1
      <4>. QED  BY <4>2, <4>3
    <3>3. 0..n = 0..((n + 1) - 1)
      BY <2>2
    <3>. QED  BY <3>1, <3>2, <3>3
  <2>. QED  BY <2>2, <2>5
<1>3. P = Nat
  <2>1. P \in SUBSET Nat
    OBVIOUS
  <2> HIDE DEF P
  <2>. QED  BY <1>1, <1>2, <2>1, AllNaturals
<1>4. PICK G : \A n \in Nat : G[n] \in [Nat -> D] /\ UpTo(G[n], n)
  <2>1. \A n \in Nat : \E g \in [Nat -> D] : UpTo(g, n)
    BY <1>3
  <2> HIDE DEF UpTo
  <2>2. PICK G : G = [n \in Nat |-> CHOOSE g \in [Nat -> D] : UpTo(g, n)]
    OBVIOUS
  <2>3. ASSUME NEW n \in Nat PROVE G[n] \in [Nat -> D] /\ UpTo(G[n], n)
    <3>1. G[n] = CHOOSE g \in [Nat -> D] : UpTo(g, n)
      BY <2>2
    <3>. QED  BY <2>1, <3>1, Zenon
  <2>. QED  BY <2>3
<1>5. ASSUME NEW n \in Nat PROVE G[n + 1][n] = G[n][n]
  <2> DEFINE Q == {k \in Nat : k <= n => G[n + 1][k] = G[n][k]}
  <2>1. /\ n + 1 \in Nat
        /\ G[n][0] = base /\ \A k \in 0..(n - 1) : G[n][k + 1] = op[G[n][k]]
        /\ G[n + 1][0] = base /\ \A k \in 0..n : G[n + 1][k + 1] = op[G[n + 1][k]]
    <3>1. n + 1 \in Nat /\ (n + 1) - 1 = n
      OBVIOUS
    <3>2. UpTo(G[n], n) /\ UpTo(G[n + 1], n + 1)
      BY <1>4, <3>1
    <3>. QED  BY <3>1, <3>2
  <2>2. 0 \in Q
    BY <2>1
  <2>3. ASSUME NEW k \in Q PROVE k + 1 \in Q
    <3> SUFFICES ASSUME k + 1 <= n PROVE G[n + 1][k + 1] = G[n][k + 1]
      OBVIOUS
    <3>1. k \in 0..(n - 1) /\ k \in 0..n /\ G[n + 1][k] = G[n][k]
      OBVIOUS
    <3>. QED  BY <2>1, <3>1
  <2>4. Q = Nat
    <3>1. Q \in SUBSET Nat
      OBVIOUS
    <3> HIDE DEF Q
    <3>. QED  BY <2>2, <2>3, <3>1, AllNaturals
  <2>5. n \in Q
    BY <2>4
  <2>. QED  BY <2>5
<1>6. PICK f \in [Nat -> D] : f = [n \in Nat |-> G[n][n]]
  BY <1>4
<1>7. f[0] = base
  BY <1>4, <1>6
<1>8. ASSUME NEW n \in Nat PROVE f[n + 1] = op[f[n]]
  <2>1. n + 1 \in Nat /\ n \in 0..((n + 1) - 1)
    OBVIOUS
  <2>2. G[n + 1][n + 1] = op[G[n + 1][n]]
    BY <1>4, <2>1
  <2>. QED  BY <1>5, <1>6, <2>1, <2>2
<1>. QED  BY <1>7, <1>8 DEF Iterates
-----------------------------------------------------------------------------
(* The rows: positions, parents and ancestors.                               *)
Known == snapshots \in Enumerations

LEMMA RowsAreKnown ==
    ASSUME Known
    PROVE  /\ Len(snapshots) \in Nat /\ DOMAIN snapshots = 1..Len(snapshots)
           /\ \A i \in DOMAIN snapshots : snapshots[i] \in Rows
           /\ \A i, j \in DOMAIN snapshots : snapshots[i].pid = snapshots[j].pid => i = j
<1>1. PICK S \in SUBSET Rows : snapshots \in SetToSeqs(S)
  BY DEF Known, Enumerations
<1>2. IsFiniteSet(S)
  BY FS_Subset, RowsAssumption
<1>3. PICK n \in Nat : n = Cardinality(S)
  BY <1>2, FS_CardinalityType
<1>4. snapshots \in [1..n -> S]
  BY <1>1, <1>3 DEF SetToSeqs
<1>5. DOMAIN snapshots = 1..n /\ Len(snapshots) = n
  BY <1>4
<1>6. \A i \in 1..n : snapshots[i] \in Rows /\ snapshots[i].pid \in Int
  BY <1>4, RowsAssumption
<1>7. ASSUME NEW i \in 1..n, NEW j \in 1..n, snapshots[i].pid = snapshots[j].pid PROVE i = j
  <2>1. \A k, l \in 1..n : k < l => snapshots[k].pid < snapshots[l].pid
    BY <1>5 DEF Known, Enumerations
  <2>2. ~(i < j) /\ ~(j < i)
    BY <1>6, <1>7, <2>1
  <2>. QED  BY <2>2
<1>. QED  BY <1>5, <1>6, <1>7

LEMMA FilterFacts ==
    ASSUME Known
    PROVE  /\ FilteredSet \subseteq DOMAIN snapshots /\ IsFiniteSet(FilteredSet)
           /\ FilteredIndices \in Seq(FilteredSet) /\ Once(FilteredIndices)
<1>1. PICK n \in Nat : n = Len(snapshots) /\ DOMAIN snapshots = 1..n
  BY RowsAreKnown
<1>2. PICK positions \in Seq(1..n) : positions = Positions(snapshots)
  <2>1. [i \in 1..n |-> i] \in Seq(1..n)
    OBVIOUS
  <2>. QED  BY <1>1, <2>1 DEF Positions
<1>3. DOMAIN positions = 1..n /\ \A i \in 1..n : positions[i] = i
  BY <1>1, <1>2 DEF Positions
<1>4. Once(positions) /\ ToSet(positions) = 1..n
  BY <1>3 DEF Once, ToSet
<1>5. PICK S : FilteredIndices = Kept(positions, S)
  BY <1>2, Zenon DEF FilteredIndices
<1>6. FilteredIndices \in Seq(1..n) /\ Once(FilteredIndices) /\ FilteredSet = (1..n) \cap S
  BY <1>4, <1>5, KeptFacts DEF FilteredSet
<1>7. FilteredIndices \in Seq(FilteredSet)
  BY <1>6 DEF FilteredSet, ToSet
<1>8. IsFiniteSet(FilteredSet)
  <2>1. IsFiniteSet(1..n)
    BY FS_Interval
  <2>. QED  BY <1>6, <2>1, FS_Subset
<1>. QED  BY <1>1, <1>6, <1>7, <1>8

(* A position's parent is the one that has the pid. *)
LEMMA ParentFacts ==
    ASSUME Known
    PROVE  /\ \A i : ParentOf(i) \in FilteredSet \cup {0}
           /\ \A i \in FilteredSet : \A p \in FilteredSet :
                 ParentOf(i) = p <=> snapshots[i].parent # NoParent /\ snapshots[p].pid = snapshots[i].parent
           /\ ParentOf(0) = 0 /\ 0 \notin FilteredSet
<1> DEFINE parents(i) == {p \in FilteredSet :
                             i # 0 /\ snapshots[i].parent # NoParent /\ snapshots[p].pid = snapshots[i].parent}
<1>1. \A i : parents(i) \in SUBSET FilteredSet
  OBVIOUS
<1>2. \A i : ParentOf(i) = IF parents(i) = {} THEN 0 ELSE CHOOSE p \in parents(i) : TRUE
  BY Zenon DEF ParentOf
<1>3. 0 \notin FilteredSet
  <2>1. \A i \in 1..Len(snapshots) : i # 0
    BY RowsAreKnown
  <2>. QED  BY <2>1, FilterFacts, RowsAreKnown
<1>4. ASSUME NEW i PROVE ParentOf(i) \in FilteredSet \cup {0}
  <2> HIDE DEF parents
  <2>. QED  BY <1>1, <1>2
<1>5. ParentOf(0) = 0
  <2>1. parents(0) = {}
    OBVIOUS
  <2> HIDE DEF parents
  <2>. QED  BY <1>2, <2>1
<1>6. ASSUME NEW i \in FilteredSet, NEW p \in FilteredSet
      PROVE  ParentOf(i) = p <=> snapshots[i].parent # NoParent /\ snapshots[p].pid = snapshots[i].parent
  <2>1. i # 0 /\ p # 0
    BY <1>3
  <2>2. \A q \in parents(i) : q \in FilteredSet /\ snapshots[i].parent # NoParent /\ snapshots[q].pid = snapshots[i].parent
    OBVIOUS
  <2>3. \A q \in parents(i) : \A r \in parents(i) : q = r
    BY FilterFacts, RowsAreKnown
  <2>4. p \in parents(i) <=> snapshots[i].parent # NoParent /\ snapshots[p].pid = snapshots[i].parent
    BY <2>1
  <2>5. ParentOf(i) = IF parents(i) = {} THEN 0 ELSE CHOOSE q \in parents(i) : TRUE
    BY <1>2
  <2> HIDE DEF parents
  <2>6. parents(i) # {} => ParentOf(i) \in parents(i)
    BY <2>5
  <2>. QED  BY <2>1, <2>3, <2>4, <2>5, <2>6
<1>. QED  BY <1>3, <1>4, <1>5, <1>6

LEMMA AncestorSteps ==
    ASSUME Known, NEW i \in FilteredSet \cup {0}
    PROVE  Ancestor(i, 0) = i /\ \A n \in Nat : Ancestor(i, n + 1) = ParentOf(Ancestor(i, n))
<1> DEFINE D == FilteredSet \cup {0}
           IsUp(f) == f = [k \in Nat |-> IF k = 0 THEN i ELSE ParentOf(f[k - 1])]
<1>1. PICK op \in [D -> D] : \A x \in D : op[x] = ParentOf(x)
  <2>1. [x \in D |-> ParentOf(x)] \in [D -> D]
    BY ParentFacts
  <2>. QED  BY <2>1
<1>2. PICK f \in [Nat -> D] : f[0] = i /\ \A n \in Nat : f[n + 1] = op[f[n]]
  <2>1. D # {} /\ i \in D
    OBVIOUS
  <2> HIDE DEF D
  <2>2. PICK f \in [Nat -> D] : Iterates(f, i, op)
    BY <1>1, <2>1, Iterations
  <2>. QED  BY <2>2 DEF Iterates
<1>3. ASSUME NEW k \in Nat, k # 0 PROVE f[k] = ParentOf(f[k - 1])
  <2>1. k - 1 \in Nat /\ (k - 1) + 1 = k
    BY <1>3
  <2>. QED  BY <1>1, <1>2, <2>1
<1>4. IsUp(f)
  <2>1. f = [k \in Nat |-> f[k]]
    OBVIOUS
  <2>. QED  BY <1>2, <1>3, <2>1
<1>5. PICK h : h = CHOOSE g : IsUp(g)
  OBVIOUS
<1>6. h = [k \in Nat |-> IF k = 0 THEN i ELSE ParentOf(h[k - 1])]
  BY <1>4, <1>5
<1>7. \A n : Ancestor(i, n) = h[n]
  BY <1>5, Zenon DEF Ancestor
<1>8. h[0] = i
  BY <1>6
<1>9. ASSUME NEW n \in Nat PROVE h[n + 1] = ParentOf(h[n])
  <2>1. n + 1 \in Nat /\ n + 1 # 0 /\ (n + 1) - 1 = n
    OBVIOUS
  <2>. QED  BY <1>6, <2>1
<1>. QED  BY <1>7, <1>8, <1>9

LEMMA AncestorsAbove ==
    ASSUME Known, NEW i \in FilteredSet, NEW n \in Nat
    PROVE  /\ Ancestor(i, n) \in FilteredSet \cup {0}
           /\ Ancestor(i, n + 1) = Ancestor(ParentOf(i), n)
<1>1. PICK p \in FilteredSet \cup {0} : p = ParentOf(i)
  BY ParentFacts
<1>2. /\ Ancestor(i, 0) = i /\ \A k \in Nat : Ancestor(i, k + 1) = ParentOf(Ancestor(i, k))
      /\ Ancestor(p, 0) = p /\ \A k \in Nat : Ancestor(p, k + 1) = ParentOf(Ancestor(p, k))
  BY AncestorSteps
<1> DEFINE P == {k \in Nat : Ancestor(i, k) \in FilteredSet \cup {0} /\ Ancestor(i, k + 1) = Ancestor(p, k)}
<1>3. 0 \in P
  <2>1. Ancestor(i, 0 + 1) = ParentOf(Ancestor(i, 0))
    BY <1>2
  <2>. QED  BY <1>1, <1>2, <2>1
<1>4. ASSUME NEW k \in P PROVE k + 1 \in P
  <2>1. k \in Nat /\ k + 1 \in Nat /\ Ancestor(i, k + 1) = Ancestor(p, k)
    OBVIOUS
  <2>2. Ancestor(i, (k + 1) + 1) = ParentOf(Ancestor(i, k + 1)) /\ Ancestor(p, k + 1) = ParentOf(Ancestor(p, k))
    BY <1>2, <2>1
  <2>3. Ancestor(i, k + 1) \in FilteredSet \cup {0}
    BY <1>2, <2>1, ParentFacts
  <2>. QED  BY <2>1, <2>2, <2>3
<1>5. P = Nat
  <2>1. P \in SUBSET Nat
    OBVIOUS
  <2> HIDE DEF P
  <2>. QED  BY <1>3, <1>4, <2>1, AllNaturals
<1>6. n \in P
  BY <1>5
<1>. QED  BY <1>1, <1>6

-----------------------------------------------------------------------------
(* The tree as it is cached, and its roots.                                  *)
ChildrenOf(r) ==
    Kept(Positions(snapshots), {i \in DOMAIN snapshots : snapshots[i].parent # NoParent /\ snapshots[i].parent = r.pid})

TreeIsOfRows == Known /\ m_CachedTree = BuildProcessTree(snapshots)

LEMMA CachedChildren ==
    ASSUME TreeIsOfRows, NEW i \in FilteredSet
    PROVE  FilteredChildren(i) = IF Key(snapshots[i]) \in DOMAIN m_CachedTree
                                 THEN Kept(ChildrenOf(snapshots[i]), FilteredSet) ELSE <<>>
<1> DEFINE parents == {r \in ToSet(snapshots) : ChildrenOf(r) # <<>>}
           keys == {Key(r) : r \in parents}
<1>1. m_CachedTree = [k \in keys |-> ChildrenOf(CHOOSE r \in parents : Key(r) = k)]
  BY Zenon DEF TreeIsOfRows, BuildProcessTree, ChildrenOf
<1>2. PICK key : key = Key(snapshots[i])
  OBVIOUS
<1>3. DOMAIN m_CachedTree = keys
  BY <1>1
<1>4. ASSUME key \in keys PROVE m_CachedTree[key] = ChildrenOf(snapshots[i])
  <2>1. m_CachedTree[key] = ChildrenOf(CHOOSE r \in parents : Key(r) = key)
    BY <1>1, <1>4
  <2>2. PICK r : r = CHOOSE q \in parents : Key(q) = key
    OBVIOUS
  <2>3. \E q \in parents : Key(q) = key
    BY <1>4
  <2>4. Key(r) = key
    BY <2>2, <2>3
  <2>5. r.pid = snapshots[i].pid
    BY <1>2, <2>4 DEF Key
  <2>. QED  BY <2>1, <2>2, <2>5 DEF ChildrenOf
<1>5. FilteredChildren(i) = IF key \in DOMAIN m_CachedTree THEN Kept(m_CachedTree[key], FilteredSet) ELSE <<>>
  BY <1>2, Zenon DEF FilteredChildren
<1> HIDE DEF keys
<1>. QED  BY <1>2, <1>3, <1>4, <1>5

LEMMA ChildrenFacts ==
    ASSUME TreeIsOfRows, NEW i \in FilteredSet
    PROVE  /\ FilteredChildren(i) \in Seq(FilteredSet) /\ Once(FilteredChildren(i))
           /\ \A c : c \in ToSet(FilteredChildren(i)) <=> c \in FilteredSet /\ ParentOf(c) = i
<1>1. PICK n \in Nat : n = Len(snapshots) /\ DOMAIN snapshots = 1..n
  BY RowsAreKnown DEF TreeIsOfRows
<1>2. PICK positions \in Seq(1..n) : positions = Positions(snapshots)
  <2>1. [k \in 1..n |-> k] \in Seq(1..n)
    OBVIOUS
  <2>. QED  BY <1>1, <2>1 DEF Positions
<1>3. DOMAIN positions = 1..n /\ \A k \in 1..n : positions[k] = k
  BY <1>1, <1>2 DEF Positions
<1>4. Once(positions) /\ ToSet(positions) = 1..n
  BY <1>3 DEF Once, ToSet
<1>5. PICK S : S = {c \in 1..n : snapshots[c].parent # NoParent /\ snapshots[c].parent = snapshots[i].pid}
  OBVIOUS
<1>6. PICK all : all = ChildrenOf(snapshots[i])
  OBVIOUS
<1>7. all = Kept(positions, S)
  BY <1>1, <1>2, <1>5, <1>6 DEF ChildrenOf
<1>8. all \in Seq(1..n) /\ Once(all) /\ ToSet(all) = S
  <2>1. (1..n) \cap S = S
    BY <1>5
  <2>2. all \in Seq(1..n) /\ Once(all) /\ ToSet(all) = ToSet(positions) \cap S
    BY <1>4, <1>7, KeptFacts
  <2>. QED  BY <1>4, <2>1, <2>2
<1>9. PICK kept : kept = Kept(all, FilteredSet)
  OBVIOUS
<1>10. kept \in Seq(1..n) /\ Once(kept) /\ ToSet(kept) = S \cap FilteredSet
  BY <1>8, <1>9, KeptFacts
<1>11. kept \in Seq(FilteredSet)
  BY <1>10 DEF ToSet
<1>12. \A c : c \in S \cap FilteredSet <=> c \in FilteredSet /\ ParentOf(c) = i
  <2>1. FilteredSet \subseteq 1..n
    BY <1>1, FilterFacts DEF TreeIsOfRows
  <2>2. \A c \in FilteredSet : ParentOf(c) = i <=> snapshots[c].parent # NoParent /\ snapshots[i].pid = snapshots[c].parent
    BY ParentFacts DEF TreeIsOfRows
  <2>. QED  BY <1>5, <2>1, <2>2
<1>13. CASE Key(snapshots[i]) \in DOMAIN m_CachedTree
  <2>1. FilteredChildren(i) = kept
    BY <1>6, <1>9, <1>13, CachedChildren
  <2>. QED  BY <1>10, <1>11, <1>12, <2>1
<1>14. CASE Key(snapshots[i]) \notin DOMAIN m_CachedTree
  <2>1. FilteredChildren(i) = <<>>
    BY <1>14, CachedChildren
  <2>2. all = <<>>
    <3> DEFINE parents == {r \in ToSet(snapshots) : ChildrenOf(r) # <<>>}
    <3>1. m_CachedTree = [k \in {Key(r) : r \in parents} |-> ChildrenOf(CHOOSE r \in parents : Key(r) = k)]
      BY Zenon DEF TreeIsOfRows, BuildProcessTree, ChildrenOf
    <3>2. DOMAIN m_CachedTree = {Key(r) : r \in parents}
      BY <3>1
    <3>3. snapshots[i] \in ToSet(snapshots)
      BY FilterFacts DEF TreeIsOfRows, ToSet
    <3>4. snapshots[i] \notin parents
      BY <1>14, <3>2
    <3>. QED  BY <1>6, <3>3, <3>4
  <2>3. S = {}
    BY <1>8, <2>2 DEF ToSet
  <2>4. <<>> \in Seq(FilteredSet) /\ Once(<<>>) /\ \A c : c \notin ToSet(<<>>)
    BY DEF Once, ToSet
  <2>. QED  BY <1>12, <2>1, <2>3, <2>4
<1>. QED  BY <1>13, <1>14

LEMMA RootFacts ==
    ASSUME Known
    PROVE  /\ Roots \in Seq(FilteredSet) /\ Once(Roots)
           /\ \A c : c \in ToSet(Roots) <=> c \in FilteredSet /\ ParentOf(c) = 0
<1>1. FilteredIndices \in Seq(FilteredSet) /\ Once(FilteredIndices) /\ ToSet(FilteredIndices) = FilteredSet
  BY FilterFacts DEF FilteredSet
<1>2. PICK S : S = {i \in FilteredSet : IsRoot(i)}
  OBVIOUS
<1>3. Roots \in Seq(FilteredSet) /\ Once(Roots) /\ ToSet(Roots) = FilteredSet \cap S
  <2>1. Roots = Kept(FilteredIndices, S)
    BY <1>2 DEF Roots
  <2>. QED  BY <1>1, <2>1, KeptFacts
<1>4. ASSUME NEW c \in FilteredSet PROVE IsRoot(c) <=> ParentOf(c) = 0
  <2>1. ParentOf(c) \in FilteredSet \cup {0} /\ 0 \notin FilteredSet
    BY ParentFacts
  <2>2. \A p \in FilteredSet :
           ParentOf(c) = p <=> snapshots[c].parent # NoParent /\ snapshots[p].pid = snapshots[c].parent
    BY ParentFacts
  <2>3. IsRoot(c) <=> \A p \in FilteredSet : ParentOf(c) # p
    BY <2>2 DEF IsRoot
  <2>. QED  BY <2>1, <2>3
<1>. QED  BY <1>2, <1>3, <1>4
-----------------------------------------------------------------------------
(* The walk, round by round.                                                 *)
Nodes == [index : FilteredSet, depth : Nat]
DrawnRows == [index : FilteredSet, depth : Nat, hasChildren : BOOLEAN]
Walks == [stack : Seq(Nodes), rows : Seq(DrawnRows)]

Below(node) ==
    IF Key(snapshots[node.index]) \in m_CollapsedKeys THEN <<>>
    ELSE [c \in DOMAIN FilteredChildren(node.index) |-> [index |-> FilteredChildren(node.index)[c], depth |-> node.depth + 1]]
RowOf(node) == [index |-> node.index, depth |-> node.depth, hasChildren |-> FilteredChildren(node.index) # <<>>]

LEMMA RoundIs == \A walk :
    DrawTreeNode(walk) =
        IF walk.stack = <<>> THEN walk
        ELSE IF walk.stack[1].depth >= MaxTreeDepth THEN [walk EXCEPT !.stack = Tail(walk.stack)]
        ELSE [stack |-> Below(walk.stack[1]) \o Tail(walk.stack), rows |-> Append(walk.rows, RowOf(walk.stack[1]))]
  BY Zenon DEF DrawTreeNode, Below, RowOf

LEMMA BelowFacts ==
    ASSUME TreeIsOfRows, NEW node \in Nodes
    PROVE  /\ Below(node) \in Seq(Nodes)
           /\ \A j \in 1..Len(Below(node)) :
                 Below(node)[j].depth = node.depth + 1 /\ ParentOf(Below(node)[j].index) = node.index
           /\ \A j, k \in 1..Len(Below(node)) : Below(node)[j].index = Below(node)[k].index => j = k
           /\ \A c \in FilteredSet : ParentOf(c) = node.index /\ Key(snapshots[node.index]) \notin m_CollapsedKeys =>
                 \E j \in 1..Len(Below(node)) : Below(node)[j] = [index |-> c, depth |-> node.depth + 1]
           /\ Len(Below(node)) > 0 => Key(snapshots[node.index]) \notin m_CollapsedKeys
<1>1. PICK i \in FilteredSet, d \in Nat : i = node.index /\ d = node.depth
  BY DEF Nodes
<1>2. PICK children \in Seq(FilteredSet) : children = FilteredChildren(i)
  BY ChildrenFacts
<1>3. Once(children) /\ \A c : c \in ToSet(children) <=> c \in FilteredSet /\ ParentOf(c) = i
  BY <1>2, ChildrenFacts
<1>4. PICK n \in Nat : n = Len(children) /\ DOMAIN children = 1..n /\ \A c \in 1..n : children[c] \in FilteredSet
  OBVIOUS
<1>5. CASE Key(snapshots[i]) \in m_CollapsedKeys
  <2>1. Below(node) = <<>>
    BY <1>1, <1>5 DEF Below
  <2>. QED  BY <1>1, <1>5, <2>1
<1>6. CASE Key(snapshots[i]) \notin m_CollapsedKeys
  <2>1. Below(node) = [c \in 1..n |-> [index |-> children[c], depth |-> d + 1]]
    BY <1>1, <1>2, <1>4, <1>6 DEF Below
  <2>2. PICK s \in Seq(Nodes) : s = Below(node)
    <3>1. \A c \in 1..n : [index |-> children[c], depth |-> d + 1] \in Nodes
      BY <1>4 DEF Nodes
    <3>. QED  BY <2>1, <3>1
  <2>3. Len(s) = n /\ \A c \in 1..n : s[c] = [index |-> children[c], depth |-> d + 1]
    BY <2>1, <2>2
  <2>4. \A c \in 1..n : s[c].index = children[c] /\ s[c].depth = d + 1
    BY <2>3
  <2>5. \A j \in 1..n : ParentOf(s[j].index) = i
    BY <1>3, <1>4, <2>4 DEF ToSet
  <2>6. \A j, k \in 1..n : s[j].index = s[k].index => j = k
    BY <1>3, <1>4, <2>4 DEF Once
  <2>7. ASSUME NEW c \in FilteredSet, ParentOf(c) = i PROVE \E j \in 1..n : s[j] = [index |-> c, depth |-> d + 1]
    <3>1. PICK j \in 1..n : children[j] = c
      BY <1>3, <1>4, <2>7 DEF ToSet
    <3>. QED  BY <2>3, <3>1
  <2>. QED  BY <1>1, <1>6, <2>2, <2>3, <2>4, <2>5, <2>6, <2>7
<1>. QED  BY <1>1, <1>5, <1>6

LEMMA RoundType ==
    ASSUME TreeIsOfRows, NEW walk \in Walks
    PROVE  DrawTreeNode(walk) \in Walks
<1>1. PICK s \in Seq(Nodes), r \in Seq(DrawnRows) : s = walk.stack /\ r = walk.rows /\ walk = [stack |-> s, rows |-> r]
  BY DEF Walks
<1>2. CASE s = <<>>
  <2>1. DrawTreeNode(walk) = walk
    BY <1>1, <1>2, RoundIs
  <2>. QED  BY <2>1
<1>3. CASE s # <<>>
  <2>1. PICK node \in Nodes, t \in Seq(Nodes) : node = s[1] /\ t = Tail(s)
    <3>1. Len(s) \in Nat /\ Len(s) # 0
      BY <1>3
    <3>2. 1 \in 1..Len(s)
      BY <3>1
    <3>3. s[1] \in Nodes
      BY <3>2
    <3>4. Tail(s) \in Seq(Nodes)
      BY <1>3
    <3>. QED  BY <3>3, <3>4
  <2>2. CASE node.depth >= MaxTreeDepth
    <3>1. DrawTreeNode(walk) = [stack |-> t, rows |-> r]
      BY <1>1, <1>3, <2>1, <2>2, RoundIs
    <3>. QED  BY <2>1, <3>1 DEF Walks
  <2>3. CASE ~(node.depth >= MaxTreeDepth)
    <3>1. DrawTreeNode(walk) = [stack |-> Below(node) \o t, rows |-> Append(r, RowOf(node))]
      BY <1>1, <1>3, <2>1, <2>3, RoundIs
    <3>2. PICK b \in Seq(Nodes) : b = Below(node)
      BY BelowFacts
    <3>3. PICK row \in DrawnRows : row = RowOf(node)
      <4>1. PICK has \in BOOLEAN : has = (FilteredChildren(node.index) # <<>>)
        OBVIOUS
      <4>2. RowOf(node) = [index |-> node.index, depth |-> node.depth, hasChildren |-> has]
        BY <4>1, Zenon DEF RowOf
      <4>. QED  BY <4>2 DEF Nodes, DrawnRows
    <3>4. b \o t \in Seq(Nodes) /\ Append(r, row) \in Seq(DrawnRows)
      OBVIOUS
    <3>. QED  BY <3>1, <3>2, <3>3, <3>4 DEF Walks
  <2>. QED  BY <2>2, <2>3
<1>. QED  BY <1>2, <1>3

FirstWalk == [stack |-> [r \in DOMAIN Roots |-> [index |-> Roots[r], depth |-> 0]], rows |-> <<>>]

LEMMA FirstWalkType ==
    ASSUME Known
    PROVE  FirstWalk \in Walks
<1>1. PICK roots \in Seq(FilteredSet) : roots = Roots
  BY RootFacts
<1>2. [r \in DOMAIN roots |-> [index |-> roots[r], depth |-> 0]] \in Seq(Nodes)
  <2>1. PICK n \in Nat : DOMAIN roots = 1..n /\ \A r \in 1..n : roots[r] \in FilteredSet
    OBVIOUS
  <2>2. \A r \in 1..n : [index |-> roots[r], depth |-> 0] \in Nodes
    BY <2>1 DEF Nodes
  <2>. QED  BY <2>1, <2>2
<1>3. <<>> \in Seq(DrawnRows)
  OBVIOUS
<1>. QED  BY <1>1, <1>2, <1>3 DEF FirstWalk, Walks

LEMMA WalkSteps ==
    ASSUME TreeIsOfRows
    PROVE  /\ TreeWalk(0) = FirstWalk
           /\ \A n \in Nat : TreeWalk(n) \in Walks /\ TreeWalk(n + 1) = DrawTreeNode(TreeWalk(n))
<1> DEFINE IsWalk(f) == f = [n \in Nat |-> IF n = 0 THEN FirstWalk ELSE DrawTreeNode(f[n - 1])]
<1>1. PICK op \in [Walks -> Walks] : \A w \in Walks : op[w] = DrawTreeNode(w)
  <2>1. [w \in Walks |-> DrawTreeNode(w)] \in [Walks -> Walks]
    BY RoundType
  <2>. QED  BY <2>1
<1>2. PICK f \in [Nat -> Walks] : Iterates(f, FirstWalk, op)
  BY <1>1, FirstWalkType, Iterations DEF TreeIsOfRows
<1>3. ASSUME NEW k \in Nat, k # 0 PROVE f[k] = DrawTreeNode(f[k - 1])
  <2>1. k - 1 \in Nat /\ (k - 1) + 1 = k
    BY <1>3
  <2>. QED  BY <1>1, <1>2, <2>1 DEF Iterates
<1>4. IsWalk(f)
  <2>1. f = [n \in Nat |-> f[n]] /\ f[0] = FirstWalk
    BY <1>2 DEF Iterates
  <2>. QED  BY <1>3, <2>1
<1>5. PICK h : h = CHOOSE g : IsWalk(g)
  OBVIOUS
<1>6. h = [n \in Nat |-> IF n = 0 THEN FirstWalk ELSE DrawTreeNode(h[n - 1])]
  BY <1>4, <1>5
<1>7. \A n : TreeWalk(n) = h[n]
  BY <1>5, Zenon DEF TreeWalk, FirstWalk
<1>8. h[0] = FirstWalk
  BY <1>6
<1>9. ASSUME NEW n \in Nat PROVE h[n + 1] = DrawTreeNode(h[n])
  <2>1. n + 1 \in Nat /\ n + 1 # 0 /\ (n + 1) - 1 = n
    OBVIOUS
  <2>. QED  BY <1>6, <2>1
<1> DEFINE P == {n \in Nat : h[n] \in Walks}
<1>10. 0 \in P
  BY <1>8, FirstWalkType DEF TreeIsOfRows
<1>11. ASSUME NEW n \in P PROVE n + 1 \in P
  BY <1>9, RoundType
<1>12. P = Nat
  <2>1. P \in SUBSET Nat
    OBVIOUS
  <2> HIDE DEF P
  <2>. QED  BY <1>10, <1>11, <2>1, AllNaturals
<1>. QED  BY <1>7, <1>8, <1>9, <1>12

-----------------------------------------------------------------------------
(* What the walk reaches.                                                    *)
LEMMA RootReached ==
    ASSUME Known, NEW c \in FilteredSet, ParentOf(c) = 0
    PROVE  Reached(c, 0)
<1>1. Ancestor(c, 0) = c /\ Ancestor(c, 0 + 1) = ParentOf(Ancestor(c, 0))
  BY AncestorSteps
<1>2. c # 0
  BY ParentFacts
<1>. QED  BY <1>1, <1>2 DEF Reached, IsDepth

LEMMA ChildReached ==
    ASSUME Known, NEW i \in FilteredSet, NEW c \in FilteredSet, NEW d \in Nat, ParentOf(c) = i,
           Reached(i, d), Key(snapshots[i]) \notin m_CollapsedKeys
    PROVE  Reached(c, d + 1)
<1>1. \A n \in Nat : Ancestor(c, n + 1) = Ancestor(i, n)
  BY AncestorsAbove
<1>2. Ancestor(i, 0) = i
  BY AncestorSteps
<1>3. d + 1 \in Nat /\ Ancestor(i, d) # 0 /\ Ancestor(i, d + 1) = 0
  BY DEF Reached, IsDepth
<1>4. Ancestor(c, d + 1) # 0 /\ Ancestor(c, (d + 1) + 1) = 0
  BY <1>1, <1>3
<1>5. ASSUME NEW n \in 1..(d + 1) PROVE Key(snapshots[Ancestor(c, n)]) \notin m_CollapsedKeys
  <2>1. PICK m \in Nat : n = m + 1 /\ (m = 0 \/ m \in 1..d)
    <3>1. n - 1 \in Nat /\ n = (n - 1) + 1 /\ (n - 1 = 0 \/ n - 1 \in 1..d)
      OBVIOUS
    <3>. QED  BY <3>1
  <2>2. Ancestor(c, n) = Ancestor(i, m)
    BY <1>1, <2>1
  <2>3. CASE m = 0
    BY <1>2, <2>2, <2>3
  <2>4. CASE m \in 1..d
    BY <2>2, <2>4 DEF Reached
  <2>. QED  BY <2>1, <2>3, <2>4
<1>. QED  BY <1>4, <1>5 DEF Reached, IsDepth

LEMMA ReachedAtZero ==
    ASSUME Known, NEW c \in FilteredSet, Reached(c, 0)
    PROVE  ParentOf(c) = 0
<1>1. Ancestor(c, 0) = c /\ Ancestor(c, 0 + 1) = ParentOf(Ancestor(c, 0))
  BY AncestorSteps
<1>. QED  BY <1>1 DEF Reached, IsDepth
-----------------------------------------------------------------------------
(* The stack after a round: what is below its top, and the others.           *)
Pops(s, u, b) ==
    /\ Len(s) \in Nat /\ Len(u) \in Nat /\ Len(b) \in Nat /\ 1 \in 1..Len(s)
    /\ \A j \in 1..Len(u) : \/ j \in 1..Len(b) /\ u[j] = b[j]
                            \/ \E k \in 2..Len(s) : j = k - 1 + Len(b) /\ u[j] = s[k]
    /\ \A k \in 2..Len(s) : k - 1 + Len(b) \in 1..Len(u) /\ u[k - 1 + Len(b)] = s[k]
    /\ \A j \in 1..Len(b) : j \in 1..Len(u) /\ u[j] = b[j]

LEMMA StackPops ==
    ASSUME NEW N, NEW s \in Seq(N), s # <<>>, NEW b \in Seq(N)
    PROVE  b \o Tail(s) \in Seq(N) /\ Pops(s, b \o Tail(s), b)
<1>1. PICK l \in Nat, m \in Nat : l = Len(s) /\ m = Len(b) /\ l # 0
  <2>1. Len(s) \in Nat /\ Len(s) # 0 /\ Len(b) \in Nat
    OBVIOUS
  <2>. QED  BY <2>1
<1>2. PICK t \in Seq(N) : t = Tail(s)
  <2>1. Tail(s) \in Seq(N)
    BY HeadTailProperties
  <2>. QED  BY <2>1
<1>3. Len(t) = l - 1 /\ \A j \in 1..(l - 1) : t[j] = s[j + 1]
  BY <1>1, <1>2, HeadTailProperties
<1>4. PICK u \in Seq(N) : u = b \o t
  <2>1. b \o t \in Seq(N)
    BY ConcatProperties
  <2>. QED  BY <2>1
<1>5. /\ Len(u) = m + (l - 1)
      /\ \A j \in 1..(m + (l - 1)) : u[j] = IF j <= m THEN b[j] ELSE t[j - m]
  <2>1. /\ Len(b \o t) = Len(b) + Len(t)
        /\ \A j \in 1..(Len(b) + Len(t)) : (b \o t)[j] = IF j <= Len(b) THEN b[j] ELSE t[j - Len(b)]
    BY ConcatProperties
  <2>2. Len(b) + Len(t) = m + (l - 1) /\ Len(b) = m
    BY <1>1, <1>3
  <2>. QED  BY <1>4, <2>1, <2>2, Zenon
<1>6. ASSUME NEW j \in 1..(m + (l - 1))
      PROVE  \/ j \in 1..m /\ u[j] = b[j]
             \/ \E k \in 2..l : j = k - 1 + m /\ u[j] = s[k]
  <2>1. CASE j <= m
    BY <1>5, <2>1
  <2>2. CASE ~(j <= m)
    <3>1. PICK k \in 2..l : k = j - m + 1 /\ j = k - 1 + m /\ j - m \in 1..(l - 1)
      <4>1. j - m + 1 \in 2..l /\ j = (j - m + 1) - 1 + m /\ j - m \in 1..(l - 1)
        BY <2>2
      <4>. QED  BY <4>1
    <3>2. u[j] = s[k]
      BY <1>3, <1>5, <2>2, <3>1
    <3>. QED  BY <3>1, <3>2
  <2>. QED  BY <2>1, <2>2
<1>7. ASSUME NEW k \in 2..l PROVE k - 1 + m \in 1..(m + (l - 1)) /\ u[k - 1 + m] = s[k]
  <2>1. PICK j \in 1..(m + (l - 1)) : j = k - 1 + m /\ ~(j <= m) /\ j - m = k - 1 /\ k - 1 \in 1..(l - 1) /\ (k - 1) + 1 = k
    <3>1. k - 1 + m \in 1..(m + (l - 1)) /\ ~(k - 1 + m <= m) /\ (k - 1 + m) - m = k - 1 /\ k - 1 \in 1..(l - 1) /\ (k - 1) + 1 = k
      OBVIOUS
    <3>. QED  BY <3>1
  <2>. QED  BY <1>3, <1>5, <2>1
<1>8. \A j \in 1..m : j \in 1..(m + (l - 1)) /\ u[j] = b[j]
  BY <1>1, <1>5
<1>9. 1 \in 1..l
  BY <1>1
<1>. QED  BY <1>1, <1>2, <1>4, <1>5, <1>6, <1>7, <1>8, <1>9 DEF Pops
-----------------------------------------------------------------------------
(* What holds of the walk between two rounds.                                *)
Hangs(r, n, i, d) ==
    d > 0 => \E m \in 1..n : /\ r[m].index = ParentOf(i) /\ r[m].depth < d
                             /\ \A k \in (m + 1)..n : r[k].depth >= d

StackInv(s, r, popped) ==
    /\ \A j \in 1..Len(s) : /\ Reached(s[j].index, s[j].depth) /\ s[j].index \notin popped
                            /\ Hangs(r, Len(r), s[j].index, s[j].depth)
    /\ \A j, k \in 1..Len(s) : s[j].index = s[k].index => j = k
    /\ \A j, k \in 1..Len(s) : j < k => s[k].depth <= s[j].depth

RowsInv(r, popped) ==
    /\ \A n \in 1..Len(r) : /\ Reached(r[n].index, r[n].depth) /\ r[n].depth < MaxTreeDepth
                            /\ r[n].index \in popped
                            /\ Hangs(r, n - 1, r[n].index, r[n].depth)
    /\ \A m, n \in 1..Len(r) : r[m].index = r[n].index => m = n

PoppedInv(popped) == popped \subseteq FilteredSet /\ \A c \in popped : ParentOf(c) \in popped \cup {0}

Waits(s, i, d) == \E k \in 0..d : \E j \in 1..Len(s) : s[j].index = Ancestor(i, k) /\ s[j].depth = d - k

NoneMissed(s, r) ==
    \A i \in FilteredSet : \A d \in 0..(MaxTreeDepth - 1) :
        Reached(i, d) => Waits(s, i, d) \/ \E n \in 1..Len(r) : r[n].index = i

WalkInv(s, r, popped) == StackInv(s, r, popped) /\ RowsInv(r, popped) /\ PoppedInv(popped) /\ NoneMissed(s, r)

LEMMA FirstWalkInv ==
    ASSUME TreeIsOfRows, NEW s \in Seq(Nodes), s = FirstWalk.stack
    PROVE  WalkInv(s, <<>>, {})
<1>1. PICK roots \in Seq(FilteredSet) : roots = Roots
  BY RootFacts DEF TreeIsOfRows
<1>2. PICK n \in Nat : n = Len(roots) /\ DOMAIN roots = 1..n /\ \A j \in 1..n : roots[j] \in FilteredSet
  OBVIOUS
<1>3. s = [j \in 1..n |-> [index |-> roots[j], depth |-> 0]]
  BY <1>1, <1>2 DEF FirstWalk
<1>4. Len(s) = n /\ \A j \in 1..n : s[j].index = roots[j] /\ s[j].depth = 0
  BY <1>3
<1>5. \A j, k \in 1..n : roots[j] = roots[k] => j = k
  BY <1>1, <1>2, RootFacts DEF Once, TreeIsOfRows
<1>6. \A c : (\E j \in 1..n : roots[j] = c) <=> c \in FilteredSet /\ ParentOf(c) = 0
  BY <1>1, <1>2, RootFacts DEF ToSet, TreeIsOfRows
<1>7. StackInv(s, <<>>, {})
  <2>1. \A j \in 1..n : Reached(s[j].index, 0)
    BY <1>2, <1>4, <1>6, RootReached DEF TreeIsOfRows
  <2>. QED  BY <1>4, <1>5, <2>1 DEF StackInv, Hangs
<1>8. RowsInv(<<>>, {}) /\ PoppedInv({})
  BY DEF RowsInv, PoppedInv
<1>9. NoneMissed(s, <<>>)
  <2> SUFFICES ASSUME NEW i \in FilteredSet, NEW d \in 0..(MaxTreeDepth - 1), Reached(i, d) PROVE Waits(s, i, d)
    BY DEF NoneMissed
  <2>1. d \in Nat /\ d \in 0..d /\ d - d = 0
    BY RowsAssumption
  <2>2. Ancestor(i, d) \in FilteredSet /\ ParentOf(Ancestor(i, d)) = 0
    <3>1. Ancestor(i, d) # 0 /\ Ancestor(i, d + 1) = 0
      BY DEF Reached, IsDepth
    <3>2. Ancestor(i, d) \in FilteredSet \cup {0}
      BY <2>1, AncestorsAbove DEF TreeIsOfRows
    <3>3. Ancestor(i, d + 1) = ParentOf(Ancestor(i, d))
      BY <2>1, AncestorSteps DEF TreeIsOfRows
    <3>. QED  BY <3>1, <3>2, <3>3
  <2>3. PICK j \in 1..n : roots[j] = Ancestor(i, d)
    BY <1>6, <2>2
  <2>4. s[j].index = Ancestor(i, d) /\ s[j].depth = d - d
    BY <1>4, <2>1, <2>3
  <2>. QED  BY <1>4, <2>1, <2>4 DEF Waits
<1>. QED  BY <1>7, <1>8, <1>9 DEF WalkInv

(* A row that is no shallower does not come between. *)
LEMMA HangsOn ==
    ASSUME NEW r \in Seq(DrawnRows), NEW row \in DrawnRows, NEW i, NEW d \in Nat,
           Hangs(r, Len(r), i, d), row.depth >= d
    PROVE  Hangs(Append(r, row), Len(r) + 1, i, d)
<1>1. PICK n \in Nat : n = Len(r)
  OBVIOUS
<1>2. PICK q \in Seq(DrawnRows) : q = Append(r, row)
  <2>1. Append(r, row) \in Seq(DrawnRows)
    OBVIOUS
  <2>. QED  BY <2>1
<1>3. q[n + 1] = row /\ \A k \in 1..n : q[k] = r[k]
  BY <1>1, <1>2
<1> SUFFICES ASSUME d > 0
             PROVE  \E m \in 1..(n + 1) : /\ q[m].index = ParentOf(i) /\ q[m].depth < d
                                          /\ \A k \in (m + 1)..(n + 1) : q[k].depth >= d
  BY <1>1, <1>2 DEF Hangs
<1>4. PICK m \in 1..n : /\ r[m].index = ParentOf(i) /\ r[m].depth < d
                        /\ \A k \in (m + 1)..n : r[k].depth >= d
  BY <1>1 DEF Hangs
<1>5. m \in 1..(n + 1) /\ q[m] = r[m]
  BY <1>3
<1>6. ASSUME NEW k \in (m + 1)..(n + 1) PROVE q[k].depth >= d
  <2>1. CASE k = n + 1
    BY <1>3, <2>1
  <2>2. CASE k # n + 1
    <3>1. k \in (m + 1)..n /\ k \in 1..n
      BY <2>2
    <3>. QED  BY <1>3, <1>4, <3>1
  <2>. QED  BY <2>1, <2>2
<1>. QED  BY <1>4, <1>5, <1>6

LEMMA HangsBefore ==
    ASSUME NEW r \in Seq(DrawnRows), NEW row \in DrawnRows, NEW i, NEW d \in Nat, NEW n \in 0..Len(r),
           Hangs(r, n, i, d)
    PROVE  Hangs(Append(r, row), n, i, d)
<1>1. PICK q \in Seq(DrawnRows) : q = Append(r, row)
  <2>1. Append(r, row) \in Seq(DrawnRows)
    OBVIOUS
  <2>. QED  BY <2>1
<1>2. \A k \in 1..n : q[k] = r[k]
  BY <1>1
<1> SUFFICES ASSUME d > 0
             PROVE  \E m \in 1..n : /\ q[m].index = ParentOf(i) /\ q[m].depth < d
                                    /\ \A k \in (m + 1)..n : q[k].depth >= d
  BY <1>1 DEF Hangs
<1>3. PICK m \in 1..n : /\ r[m].index = ParentOf(i) /\ r[m].depth < d
                        /\ \A k \in (m + 1)..n : r[k].depth >= d
  BY DEF Hangs
<1>4. \A k \in (m + 1)..n : k \in 1..n
  OBVIOUS
<1>. QED  BY <1>2, <1>3, <1>4

(* The children of the row just drawn hang on it. *)
LEMMA ChildHangs ==
    ASSUME NEW r \in Seq(DrawnRows), NEW row \in DrawnRows, NEW c, ParentOf(c) = row.index
    PROVE  Hangs(Append(r, row), Len(r) + 1, c, row.depth + 1)
<1>1. PICK n \in Nat : n = Len(r)
  OBVIOUS
<1>2. PICK q \in Seq(DrawnRows) : q = Append(r, row)
  <2>1. Append(r, row) \in Seq(DrawnRows)
    OBVIOUS
  <2>. QED  BY <2>1
<1>3. q[n + 1] = row /\ row.depth \in Nat
  BY <1>1, <1>2 DEF DrawnRows
<1>4. /\ n + 1 \in 1..(n + 1) /\ q[n + 1].index = ParentOf(c) /\ q[n + 1].depth < row.depth + 1
      /\ \A k \in ((n + 1) + 1)..(n + 1) : q[k].depth >= row.depth + 1
  BY <1>3
<1>. QED  BY <1>1, <1>2, <1>4 DEF Hangs

(* One round, with the top of the stack taken off: b is put on it, and the   *)
(* rows are q.                                                               *)
LEMMA StackAfterRound ==
    ASSUME TreeIsOfRows, NEW s \in Seq(Nodes), NEW r \in Seq(DrawnRows), NEW popped, WalkInv(s, r, popped),
           NEW u \in Seq(Nodes), NEW b \in Seq(Nodes), Pops(s, u, b),
           NEW q \in Seq(DrawnRows),
           NEW node \in Nodes, node = s[1],
           \A j \in 1..Len(b) : b[j].depth = node.depth + 1 /\ ParentOf(b[j].index) = node.index,
           \A j, k \in 1..Len(b) : b[j].index = b[k].index => j = k,
           Len(b) > 0 => Key(snapshots[node.index]) \notin m_CollapsedKeys,
           \A k \in 2..Len(s) : Hangs(q, Len(q), s[k].index, s[k].depth),
           \A j \in 1..Len(b) : Hangs(q, Len(q), b[j].index, b[j].depth)
    PROVE  StackInv(u, q, popped \cup {node.index})
<1>1. PICK i \in FilteredSet, d \in Nat : i = node.index /\ d = node.depth
  BY DEF Nodes
<1>2. PICK l \in Nat, m \in Nat, n \in Nat : l = Len(s) /\ m = Len(b) /\ n = Len(u)
  OBVIOUS
<1>3. /\ 1 \in 1..l
      /\ \A j \in 1..l : s[j] \in Nodes /\ s[j].index \in FilteredSet /\ s[j].depth \in Nat
      /\ \A j \in 1..m : b[j] \in Nodes /\ b[j].index \in FilteredSet /\ b[j].depth \in Nat
      /\ \A j \in 1..n : \/ j \in 1..m /\ u[j] = b[j]
                         \/ \E k \in 2..l : j = k - 1 + m /\ u[j] = s[k]
  <2>1. \A x \in Nodes : x.index \in FilteredSet /\ x.depth \in Nat
    BY DEF Nodes
  <2>. QED  BY <1>2, <2>1 DEF Pops
<1>4. /\ \A j \in 1..l : Reached(s[j].index, s[j].depth) /\ s[j].index \notin popped
      /\ \A j, k \in 1..l : s[j].index = s[k].index => j = k
      /\ \A j, k \in 1..l : j < k => s[k].depth <= s[j].depth
  BY <1>2 DEF WalkInv, StackInv
<1>5. s[1].index = i /\ s[1].depth = d /\ Reached(i, d) /\ i \notin popped
  BY <1>1, <1>3, <1>4
<1>6. ASSUME NEW j \in 1..m
      PROVE  /\ b[j].depth = d + 1 /\ ParentOf(b[j].index) = i /\ Reached(b[j].index, d + 1)
             /\ b[j].index # i /\ b[j].index \notin popped
             /\ \A k \in 1..l : s[k].index # b[j].index
  <2>1. PICK c \in FilteredSet : c = b[j].index
    BY <1>3
  <2>2. b[j].depth = d + 1 /\ ParentOf(c) = i /\ Key(snapshots[i]) \notin m_CollapsedKeys
    BY <1>1, <1>2, <2>1
  <2>3. Reached(c, d + 1)
    BY <1>5, <2>2, ChildReached DEF TreeIsOfRows
  <2>4. i # 0
    BY ParentFacts DEF TreeIsOfRows
  <2>5. c \notin popped
    BY <1>5, <2>2, <2>4 DEF WalkInv, PoppedInv
  <2>6. ASSUME NEW k \in 1..l PROVE s[k].index # c
    <3> SUFFICES ASSUME s[k].index = c PROVE FALSE
      OBVIOUS
    <3>1. s[k].depth \in Nat /\ Reached(c, s[k].depth) /\ Hangs(r, Len(r), c, s[k].depth)
      BY <1>2, <1>3 DEF WalkInv, StackInv
    <3>2. s[k].depth # 0
      BY <2>2, <2>4, <3>1, ReachedAtZero DEF TreeIsOfRows
    <3>3. PICK a \in 1..Len(r) : r[a].index = ParentOf(c)
      BY <3>1, <3>2 DEF Hangs
    <3>4. r[a].index \in popped
      BY DEF WalkInv, RowsInv
    <3>. QED  BY <1>5, <2>2, <3>3, <3>4
  <2>7. c # i
    BY <1>3, <1>5, <2>6
  <2>. QED  BY <2>1, <2>2, <2>3, <2>5, <2>6, <2>7
<1>7. ASSUME NEW k \in 2..l
      PROVE  /\ k \in 1..l /\ Reached(s[k].index, s[k].depth) /\ s[k].index # i /\ s[k].index \notin popped
             /\ s[k].depth <= d
  <2>1. k \in 1..l /\ 1 < k /\ k # 1
    OBVIOUS
  <2>. QED  BY <1>3, <1>4, <1>5, <2>1
<1>8. ASSUME NEW j \in 1..n
      PROVE  /\ Reached(u[j].index, u[j].depth) /\ u[j].index \notin popped \cup {i}
             /\ Hangs(q, Len(q), u[j].index, u[j].depth)
  <2>1. CASE j \in 1..m /\ u[j] = b[j]
    BY <1>2, <1>6, <2>1
  <2>2. CASE \E k \in 2..l : j = k - 1 + m /\ u[j] = s[k]
    BY <1>2, <1>7, <2>2
  <2>. QED  BY <1>3, <2>1, <2>2
<1>9. ASSUME NEW j \in 1..n, NEW k \in 1..n, u[j].index = u[k].index PROVE j = k
  <2>1. CASE (j \in 1..m /\ u[j] = b[j]) /\ (k \in 1..m /\ u[k] = b[k])
    BY <1>2, <1>9, <2>1
  <2>2. ASSUME NEW x \in 1..m, NEW y \in 2..l, b[x].index = s[y].index PROVE FALSE
    BY <1>6, <1>7, <2>2
  <2>3. ASSUME NEW x \in 2..l, NEW y \in 2..l, s[x].index = s[y].index PROVE x = y
    BY <1>4, <1>7, <2>3
  <2>4. CASE (j \in 1..m /\ u[j] = b[j]) /\ k \notin 1..m
    <3>1. PICK y \in 2..l : u[k] = s[y]
      BY <1>3, <2>4
    <3>. QED  BY <1>9, <2>2, <2>4, <3>1
  <2>5. CASE (k \in 1..m /\ u[k] = b[k]) /\ j \notin 1..m
    <3>1. PICK y \in 2..l : u[j] = s[y]
      BY <1>3, <2>5
    <3>. QED  BY <1>9, <2>2, <2>5, <3>1
  <2>6. CASE /\ \E x \in 2..l : j = x - 1 + m /\ u[j] = s[x]
             /\ \E y \in 2..l : k = y - 1 + m /\ u[k] = s[y]
    <3>1. PICK x \in 2..l : j = x - 1 + m /\ u[j] = s[x]
      BY <2>6
    <3>2. PICK y \in 2..l : k = y - 1 + m /\ u[k] = s[y]
      BY <2>6
    <3>3. x = y
      BY <1>9, <2>3, <3>1, <3>2
    <3>. QED  BY <3>1, <3>2, <3>3
  <2>7. \A x \in 2..l : x - 1 + m \notin 1..m
    OBVIOUS
  <2>. QED  BY <1>3, <2>1, <2>4, <2>5, <2>6, <2>7
<1>10. ASSUME NEW j \in 1..n, NEW k \in 1..n, j < k PROVE u[k].depth <= u[j].depth
  <2>1. CASE j \in 1..m /\ u[j] = b[j]
    <3>1. u[j].depth = d + 1
      BY <1>6, <2>1
    <3>2. u[k].depth <= d + 1
      <4>1. CASE k \in 1..m /\ u[k] = b[k]
        BY <1>6, <4>1
      <4>2. CASE \E x \in 2..l : k = x - 1 + m /\ u[k] = s[x]
        BY <1>3, <1>7, <4>2
      <4>. QED  BY <1>3, <4>1, <4>2
    <3>. QED  BY <3>1, <3>2
  <2>2. CASE \E x \in 2..l : j = x - 1 + m /\ u[j] = s[x]
    <3>1. PICK x \in 2..l : j = x - 1 + m /\ u[j] = s[x]
      BY <2>2
    <3>2. k \notin 1..m
      BY <1>10, <3>1
    <3>3. PICK y \in 2..l : k = y - 1 + m /\ u[k] = s[y]
      BY <1>3, <3>2
    <3>4. x < y /\ x \in 1..l /\ y \in 1..l
      BY <1>10, <3>1, <3>3
    <3>. QED  BY <1>4, <3>1, <3>3, <3>4
  <2>. QED  BY <1>3, <2>1, <2>2
<1>. QED  BY <1>1, <1>2, <1>8, <1>9, <1>10 DEF StackInv

(* The row of the top of the stack is like the others. *)
LEMMA RowsAfterRound ==
    ASSUME TreeIsOfRows, NEW s \in Seq(Nodes), NEW r \in Seq(DrawnRows), NEW popped, WalkInv(s, r, popped),
           s # <<>>, NEW row \in DrawnRows, row.index = s[1].index, row.depth = s[1].depth, row.depth < MaxTreeDepth
    PROVE  RowsInv(Append(r, row), popped \cup {row.index})
<1>1. PICK n \in Nat : n = Len(r)
  OBVIOUS
<1>2. PICK q \in Seq(DrawnRows) : q = Append(r, row)
  <2>1. Append(r, row) \in Seq(DrawnRows)
    OBVIOUS
  <2>. QED  BY <2>1
<1>3. Len(q) = n + 1 /\ q[n + 1] = row /\ \A k \in 1..n : q[k] = r[k]
  BY <1>1, <1>2
<1>4. /\ Reached(row.index, row.depth) /\ row.index \notin popped
      /\ Hangs(r, n, row.index, row.depth)
  <2>1. 1 \in 1..Len(s)
    BY EmptySeq
  <2>. QED  BY <1>1, <2>1 DEF WalkInv, StackInv
<1>5. \A k \in 1..n : /\ Reached(r[k].index, r[k].depth) /\ r[k].depth < MaxTreeDepth /\ r[k].index \in popped
                      /\ Hangs(r, k - 1, r[k].index, r[k].depth)
  BY <1>1 DEF WalkInv, RowsInv
<1>6. \A j, k \in 1..n : r[j].index = r[k].index => j = k
  BY <1>1 DEF WalkInv, RowsInv
<1>7. \A k \in 1..(n + 1) : k \in 1..n \/ k = n + 1
  OBVIOUS
<1>8. row.depth \in Nat /\ \A k \in 1..n : r[k].depth \in Nat
  <2>1. \A x \in DrawnRows : x.depth \in Nat
    BY DEF DrawnRows
  <2>2. \A k \in 1..n : r[k] \in DrawnRows
    BY <1>1
  <2>. QED  BY <2>1, <2>2
<1>9. ASSUME NEW k \in 1..(n + 1)
      PROVE  /\ Reached(q[k].index, q[k].depth) /\ q[k].depth < MaxTreeDepth
             /\ q[k].index \in popped \cup {row.index}
             /\ Hangs(q, k - 1, q[k].index, q[k].depth)
  <2>1. CASE k = n + 1
    <3>1. Hangs(q, n, row.index, row.depth)
      <4>1. n \in 0..Len(r)
        BY <1>1
      <4>. QED  BY <1>2, <1>4, <1>8, <4>1, HangsBefore
    <3>2. k - 1 = n
      BY <2>1
    <3>. QED  BY <1>3, <1>4, <2>1, <3>1, <3>2
  <2>2. CASE k \in 1..n
    <3>1. Hangs(q, k - 1, r[k].index, r[k].depth)
      <4>1. k - 1 \in 0..Len(r) /\ r[k].depth \in Nat /\ Hangs(r, k - 1, r[k].index, r[k].depth)
        BY <1>1, <1>5, <1>8, <2>2
      <4>. QED  BY <1>2, <4>1, HangsBefore
    <3>. QED  BY <1>3, <1>5, <2>2, <3>1
  <2>. QED  BY <1>7, <2>1, <2>2
<1>10. \A j, k \in 1..(n + 1) : q[j].index = q[k].index => j = k
  BY <1>3, <1>4, <1>5, <1>6, <1>7
<1>. QED  BY <1>2, <1>3, <1>9, <1>10 DEF RowsInv

LEMMA PoppedAfterRound ==
    ASSUME TreeIsOfRows, NEW s \in Seq(Nodes), NEW r \in Seq(DrawnRows), NEW popped, WalkInv(s, r, popped),
           s # <<>>, NEW node \in Nodes, node = s[1]
    PROVE  PoppedInv(popped \cup {node.index}) /\ node.index \notin popped
<1>1. PICK i \in FilteredSet, d \in Nat : i = node.index /\ d = node.depth
  BY DEF Nodes
<1>2. i \notin popped /\ Reached(i, d) /\ Hangs(r, Len(r), i, d)
  <2>1. 1 \in 1..Len(s)
    BY EmptySeq
  <2>. QED  BY <1>1, <2>1 DEF WalkInv, StackInv
<1>3. ParentOf(i) \in popped \cup {0}
  <2>1. CASE d = 0
    BY <1>2, <2>1, ReachedAtZero DEF TreeIsOfRows
  <2>2. CASE d > 0
    BY <1>2, <2>2 DEF Hangs, WalkInv, RowsInv
  <2>. QED  BY <2>1, <2>2
<1>. QED  BY <1>1, <1>2, <1>3 DEF WalkInv, PoppedInv

Served(q, b, node) ==
    /\ \E k \in 1..Len(q) : q[k].index = node.index
    /\ \A c \in FilteredSet : ParentOf(c) = node.index /\ Key(snapshots[node.index]) \notin m_CollapsedKeys =>
          \E j \in 1..Len(b) : b[j] = [index |-> c, depth |-> node.depth + 1]

(* Who waited for the top of the stack is drawn or waits for what is below it. *)
LEMMA NoneMissedAfterRound ==
    ASSUME TreeIsOfRows, NEW s \in Seq(Nodes), NEW r \in Seq(DrawnRows), NEW popped, WalkInv(s, r, popped),
           NEW u \in Seq(Nodes), NEW b \in Seq(Nodes), Pops(s, u, b),
           NEW q \in Seq(DrawnRows), \A k \in 1..Len(r) : k \in 1..Len(q) /\ q[k] = r[k],
           NEW node \in Nodes, node = s[1],
           node.depth >= MaxTreeDepth \/ Served(q, b, node)
    PROVE  NoneMissed(u, q)
<1>1. PICK l \in Nat, m \in Nat, n \in Nat : l = Len(s) /\ m = Len(b) /\ n = Len(u)
  OBVIOUS
<1>2. /\ \A k \in 2..l : k - 1 + m \in 1..n /\ u[k - 1 + m] = s[k]
      /\ \A j \in 1..m : j \in 1..n /\ u[j] = b[j]
  BY <1>1 DEF Pops
<1> SUFFICES ASSUME NEW i \in FilteredSet, NEW d \in 0..(MaxTreeDepth - 1), Reached(i, d),
                    \A k \in 1..Len(q) : q[k].index # i
             PROVE  Waits(u, i, d)
  BY DEF NoneMissed
<1>3. Waits(s, i, d)
  <2>1. \A k \in 1..Len(r) : r[k].index # i
    OBVIOUS
  <2>. QED  BY <2>1 DEF WalkInv, NoneMissed
<1>4. PICK k \in 0..d, j \in 1..l : s[j].index = Ancestor(i, k) /\ s[j].depth = d - k
  BY <1>1, <1>3 DEF Waits
<1>5. CASE j # 1
  <2>1. j \in 2..l
    BY <1>5
  <2>2. j - 1 + m \in 1..n /\ u[j - 1 + m].index = Ancestor(i, k) /\ u[j - 1 + m].depth = d - k
    BY <1>2, <1>4, <2>1
  <2>. QED  BY <1>1, <2>2 DEF Waits
<1>6. CASE j = 1
  <2>1. node.index = Ancestor(i, k) /\ node.depth = d - k
    BY <1>4, <1>6
  <2>2. d \in Nat /\ k \in Nat /\ d < MaxTreeDepth /\ d - k <= d
    BY RowsAssumption
  <2>3. ~(node.depth >= MaxTreeDepth)
    BY <2>1, <2>2, RowsAssumption
  <2>4. k # 0
    <3>1. Ancestor(i, 0) = i
      BY AncestorSteps DEF TreeIsOfRows
    <3>. QED  BY <2>1, <2>3, <3>1 DEF Served
  <2>5. PICK h \in Nat : k = h + 1 /\ h \in 0..d /\ d - h = (d - k) + 1
    <3>1. k - 1 \in Nat /\ k = (k - 1) + 1 /\ k - 1 \in 0..d /\ d - (k - 1) = (d - k) + 1
      BY <2>2, <2>4
    <3>. QED  BY <3>1
  <2>6. PICK c : c = Ancestor(i, h)
    OBVIOUS
  <2>7. ParentOf(c) = node.index
    BY <2>1, <2>5, <2>6, AncestorSteps DEF TreeIsOfRows
  <2>8. c \in FilteredSet
    <3>1. c \in FilteredSet \cup {0}
      BY <2>5, <2>6, AncestorsAbove DEF TreeIsOfRows
    <3>2. c # 0
      <4>1. ParentOf(0) = 0 /\ 0 \notin FilteredSet /\ node.index \in FilteredSet
        BY ParentFacts DEF TreeIsOfRows, Nodes
      <4>. QED  BY <2>7, <4>1
    <3>. QED  BY <3>1, <3>2
  <2>9. Key(snapshots[node.index]) \notin m_CollapsedKeys
    <3>1. k \in 1..d
      BY <2>2, <2>4
    <3>. QED  BY <2>1, <3>1 DEF Reached
  <2>10. PICK x \in 1..m : b[x] = [index |-> c, depth |-> node.depth + 1]
    BY <1>1, <2>3, <2>7, <2>8, <2>9 DEF Served
  <2>11. x \in 1..n /\ u[x].index = Ancestor(i, h) /\ u[x].depth = d - h
    <3>1. x \in 1..n /\ u[x] = b[x]
      BY <1>2
    <3>2. u[x].index = c /\ u[x].depth = node.depth + 1
      BY <2>10, <3>1
    <3>3. node.depth + 1 = d - h
      BY <2>1, <2>5
    <3>. QED  BY <2>6, <3>1, <3>2, <3>3
  <2>. QED  BY <1>1, <2>5, <2>11 DEF Waits
<1>. QED  BY <1>5, <1>6

LEMMA RoundKeeps ==
    ASSUME TreeIsOfRows, NEW w \in Walks, NEW popped, WalkInv(w.stack, w.rows, popped), w.stack # <<>>
    PROVE  /\ w.stack[1].index \notin popped
           /\ WalkInv(DrawTreeNode(w).stack, DrawTreeNode(w).rows, popped \cup {w.stack[1].index})
<1>1. PICK s \in Seq(Nodes), r \in Seq(DrawnRows) : s = w.stack /\ r = w.rows /\ w = [stack |-> s, rows |-> r]
  BY DEF Walks
<1>2. PICK node \in Nodes : node = s[1]
  <2>1. 1 \in 1..Len(s)
    BY <1>1, EmptySeq
  <2>. QED  BY <2>1
<1>3. PICK i \in FilteredSet, d \in Nat : i = node.index /\ d = node.depth
  BY DEF Nodes
<1>4. WalkInv(s, r, popped) /\ s # <<>>
  BY <1>1
<1>5. PoppedInv(popped \cup {i}) /\ i \notin popped
  BY <1>2, <1>3, <1>4, PoppedAfterRound
<1>6. PICK n \in Nat : n = Len(r)
  OBVIOUS
<1>7. /\ \A j \in 1..Len(s) : s[j].depth \in Nat /\ Hangs(r, n, s[j].index, s[j].depth)
      /\ \A k \in 2..Len(s) : k \in 1..Len(s) /\ s[k].depth <= d
  <2>1. \A j \in 1..Len(s) : s[j].depth \in Nat
    <3>1. \A x \in Nodes : x.depth \in Nat
      BY DEF Nodes
    <3>2. \A j \in 1..Len(s) : s[j] \in Nodes
      OBVIOUS
    <3>. QED  BY <3>1, <3>2
  <2>2. \A j \in 1..Len(s) : Hangs(r, n, s[j].index, s[j].depth)
    BY <1>4, <1>6 DEF WalkInv, StackInv
  <2>3. \A k \in 2..Len(s) : k \in 1..Len(s) /\ 1 \in 1..Len(s) /\ 1 < k
    OBVIOUS
  <2>4. \A k \in 2..Len(s) : s[k].depth <= s[1].depth
    BY <1>4, <2>3 DEF WalkInv, StackInv
  <2>. QED  BY <1>2, <1>3, <2>1, <2>2, <2>3, <2>4
<1>8. CASE d >= MaxTreeDepth
  <2>1. DrawTreeNode(w) = [stack |-> Tail(s), rows |-> r]
    BY <1>1, <1>2, <1>3, <1>4, <1>8, RoundIs
  <2>2. PICK b \in Seq(Nodes) : b = <<>>
    BY EmptySeq
  <2>3. PICK u \in Seq(Nodes) : u = Tail(s) /\ Pops(s, u, b)
    <3>1. b \o Tail(s) = Tail(s)
      BY <1>4, <2>2, HeadTailProperties, ConcatEmptySeq
    <3>. QED  BY <1>4, <3>1, StackPops
  <2>4. StackInv(u, r, popped \cup {i})
    <3>1. Len(b) = 0
      BY <2>2
    <3>2. \A k \in 2..Len(s) : Hangs(r, Len(r), s[k].index, s[k].depth)
      BY <1>6, <1>7
    <3>3. /\ \A j \in 1..Len(b) : b[j].depth = node.depth + 1 /\ ParentOf(b[j].index) = node.index
          /\ \A j, k \in 1..Len(b) : b[j].index = b[k].index => j = k
          /\ Len(b) > 0 => Key(snapshots[node.index]) \notin m_CollapsedKeys
          /\ \A j \in 1..Len(b) : Hangs(r, Len(r), b[j].index, b[j].depth)
      BY <3>1
    <3>. QED  BY <1>2, <1>3, <1>4, <2>3, <3>2, <3>3, StackAfterRound
  <2>5. RowsInv(r, popped \cup {i})
    BY <1>4 DEF WalkInv, RowsInv
  <2>6. NoneMissed(u, r)
    BY <1>2, <1>3, <1>4, <1>8, <2>3, NoneMissedAfterRound
  <2>7. DrawTreeNode(w).stack = u /\ DrawTreeNode(w).rows = r
    BY <2>1, <2>3
  <2>8. WalkInv(u, r, popped \cup {i})
    BY <1>5, <2>4, <2>5, <2>6 DEF WalkInv
  <2>. QED  BY <1>1, <1>2, <1>3, <1>5, <2>7, <2>8
<1>9. CASE ~(d >= MaxTreeDepth)
  <2>1. DrawTreeNode(w) = [stack |-> Below(node) \o Tail(s), rows |-> Append(r, RowOf(node))]
    BY <1>1, <1>2, <1>3, <1>4, <1>9, RoundIs
  <2>2. PICK b \in Seq(Nodes) : b = Below(node)
    BY BelowFacts
  <2>3. /\ \A j \in 1..Len(b) : b[j].depth = d + 1 /\ ParentOf(b[j].index) = i
        /\ \A j, k \in 1..Len(b) : b[j].index = b[k].index => j = k
        /\ \A c \in FilteredSet : ParentOf(c) = i /\ Key(snapshots[i]) \notin m_CollapsedKeys =>
              \E j \in 1..Len(b) : b[j] = [index |-> c, depth |-> d + 1]
        /\ Len(b) > 0 => Key(snapshots[i]) \notin m_CollapsedKeys
    BY <1>3, <2>2, BelowFacts
  <2>4. PICK u \in Seq(Nodes) : u = b \o Tail(s) /\ Pops(s, u, b)
    BY <1>4, StackPops
  <2>5. PICK row \in DrawnRows : row = RowOf(node) /\ row.index = i /\ row.depth = d
    <3>1. PICK has \in BOOLEAN : has = (FilteredChildren(node.index) # <<>>)
      OBVIOUS
    <3>2. RowOf(node) = [index |-> i, depth |-> d, hasChildren |-> has]
      BY <1>3, <3>1, Zenon DEF RowOf
    <3>. QED  BY <3>2 DEF DrawnRows
  <2>6. PICK q \in Seq(DrawnRows) : q = Append(r, row)
    <3>1. Append(r, row) \in Seq(DrawnRows)
      OBVIOUS
    <3>. QED  BY <3>1
  <2>7. Len(q) = n + 1 /\ q[n + 1] = row /\ \A k \in 1..n : k \in 1..Len(q) /\ q[k] = r[k]
    BY <1>6, <2>6
  <2>8. \A k \in 2..Len(s) : Hangs(q, n + 1, s[k].index, s[k].depth)
    <3> SUFFICES ASSUME NEW k \in 2..Len(s) PROVE Hangs(q, n + 1, s[k].index, s[k].depth)
      OBVIOUS
    <3>1. s[k].depth \in Nat /\ Hangs(r, Len(r), s[k].index, s[k].depth) /\ row.depth >= s[k].depth
      BY <1>6, <1>7, <2>5
    <3>. QED  BY <1>6, <2>6, <3>1, HangsOn
  <2>9. \A j \in 1..Len(b) : Hangs(q, n + 1, b[j].index, d + 1)
    BY <1>6, <2>3, <2>5, <2>6, ChildHangs
  <2>10. StackInv(u, q, popped \cup {i})
    <3>1. /\ \A j \in 1..Len(b) : b[j].depth = node.depth + 1 /\ ParentOf(b[j].index) = node.index
          /\ Len(b) > 0 => Key(snapshots[node.index]) \notin m_CollapsedKeys
      BY <1>3, <2>3
    <3>2. /\ \A k \in 2..Len(s) : Hangs(q, Len(q), s[k].index, s[k].depth)
          /\ \A j \in 1..Len(b) : Hangs(q, Len(q), b[j].index, b[j].depth)
      BY <2>3, <2>7, <2>8, <2>9
    <3>. QED  BY <1>2, <1>3, <1>4, <2>3, <2>4, <3>1, <3>2, StackAfterRound
  <2>11. RowsInv(q, popped \cup {i})
    <3>1. row.index = s[1].index /\ row.depth = s[1].depth /\ row.depth < MaxTreeDepth
      BY <1>2, <1>3, <1>9, <2>5, RowsAssumption
    <3>. QED  BY <1>4, <2>5, <2>6, <3>1, RowsAfterRound
  <2>12. NoneMissed(u, q)
    <3>1. Served(q, b, node)
      <4>1. n + 1 \in 1..Len(q) /\ q[n + 1].index = i
        BY <2>5, <2>7
      <4>. QED  BY <1>3, <2>3, <4>1 DEF Served
    <3>2. \A k \in 1..Len(r) : k \in 1..Len(q) /\ q[k] = r[k]
      BY <1>6, <2>7
    <3>. QED  BY <1>2, <1>4, <2>4, <3>1, <3>2, NoneMissedAfterRound
  <2>13. DrawTreeNode(w).stack = u /\ DrawTreeNode(w).rows = q
    BY <2>1, <2>2, <2>4, <2>5, <2>6
  <2>14. WalkInv(u, q, popped \cup {i})
    BY <1>5, <2>10, <2>11, <2>12 DEF WalkInv
  <2>. QED  BY <1>1, <1>2, <1>3, <1>5, <2>13, <2>14
<1>. QED  BY <1>8, <1>9

(* Each round takes a process off the stack that was not taken before.       *)
Walked(n, popped) ==
    /\ WalkInv(TreeWalk(n).stack, TreeWalk(n).rows, popped)
    /\ TreeWalk(n).stack = <<>> \/ Cardinality(popped) = n

LEMMA WalkEnds ==
    ASSUME TreeIsOfRows
    PROVE  /\ TreeDrawn \in Walks /\ TreeDrawn.stack = <<>>
           /\ \E popped : WalkInv(<<>>, TreeRows, popped)
<1>1. /\ TreeWalk(0) = FirstWalk
      /\ \A n \in Nat : TreeWalk(n) \in Walks /\ TreeWalk(n + 1) = DrawTreeNode(TreeWalk(n))
  BY WalkSteps
<1> DEFINE P == {n \in Nat : \E popped : Walked(n, popped)}
<1>2. 0 \in P
  <2>1. PICK s \in Seq(Nodes) : s = FirstWalk.stack
    BY FirstWalkType DEF TreeIsOfRows, Walks
  <2>2. FirstWalk.rows = <<>>
    BY DEF FirstWalk
  <2>3. WalkInv(TreeWalk(0).stack, TreeWalk(0).rows, {})
    BY <1>1, <2>1, <2>2, FirstWalkInv
  <2>4. Cardinality({}) = 0
    BY FS_EmptySet
  <2>. QED  BY <2>3, <2>4 DEF Walked
<1>3. ASSUME NEW n \in P PROVE n + 1 \in P
  <2>1. n \in Nat
    OBVIOUS
  <2>2. PICK popped : Walked(n, popped)
    OBVIOUS
  <2>3. PICK w \in Walks : w = TreeWalk(n) /\ TreeWalk(n + 1) = DrawTreeNode(w)
    BY <1>1, <2>1
  <2>4. WalkInv(w.stack, w.rows, popped) /\ (w.stack = <<>> \/ Cardinality(popped) = n)
    BY <2>2, <2>3 DEF Walked
  <2>5. CASE w.stack = <<>>
    <3>1. DrawTreeNode(w) = w
      BY <2>5, RoundIs
    <3>2. Walked(n + 1, popped)
      BY <2>3, <2>4, <2>5, <3>1 DEF Walked
    <3>. QED  BY <2>1, <3>2
  <2>6. CASE w.stack # <<>>
    <3>1. PICK i : i = w.stack[1].index
      OBVIOUS
    <3>2. i \notin popped /\ WalkInv(DrawTreeNode(w).stack, DrawTreeNode(w).rows, popped \cup {i})
      BY <2>4, <2>6, <3>1, RoundKeeps
    <3>3. IsFiniteSet(popped)
      BY <2>4, FilterFacts, FS_Subset DEF TreeIsOfRows, WalkInv, PoppedInv
    <3>4. Cardinality(popped \cup {i}) = n + 1
      BY <2>4, <2>6, <3>2, <3>3, FS_AddElement
    <3>5. Walked(n + 1, popped \cup {i})
      BY <2>3, <3>2, <3>4 DEF Walked
    <3>. QED  BY <2>1, <3>5
  <2>. QED  BY <2>5, <2>6
<1>4. P = Nat
  <2>1. P \in SUBSET Nat
    OBVIOUS
  <2> HIDE DEF P
  <2>. QED  BY <1>2, <1>3, <2>1, AllNaturals
<1>5. PICK n \in Nat : n = Len(snapshots) /\ DOMAIN snapshots = 1..n
  BY RowsAreKnown DEF TreeIsOfRows
<1>6. PICK popped : Walked(n, popped)
  <2>1. n \in P
    BY <1>4
  <2>. QED  BY <2>1
<1>7. PICK w \in Walks : w = TreeWalk(n) /\ w = TreeDrawn
  BY <1>1, <1>5 DEF TreeDrawn
<1>8. WalkInv(w.stack, w.rows, popped) /\ (w.stack = <<>> \/ Cardinality(popped) = n)
  BY <1>6, <1>7 DEF Walked
<1>9. w.stack = <<>>
  <2> SUFFICES ASSUME w.stack # <<>> PROVE FALSE
    OBVIOUS
  <2>1. FilteredSet \subseteq 1..n /\ popped \subseteq FilteredSet
    BY <1>5, <1>8, FilterFacts DEF TreeIsOfRows, WalkInv, PoppedInv
  <2>2. IsFiniteSet(1..n) /\ Cardinality(1..n) = n
    <3>1. 1 \in Int /\ n \in Int
      OBVIOUS
    <3>. QED  BY <3>1, FS_Interval
  <2>3. popped = 1..n
    <3>1. popped \in SUBSET (1..n) /\ Cardinality(popped) = Cardinality(1..n)
      BY <1>8, <2>1, <2>2
    <3>. QED  BY <2>2, <3>1, FS_Subset
  <2>4. PICK s \in Seq(Nodes) : s = w.stack
    BY DEF Walks
  <2>5. s[1].index \in FilteredSet /\ s[1].index \notin popped
    <3>1. 1 \in 1..Len(s)
      BY <2>4, EmptySeq
    <3>2. s[1] \in Nodes
      BY <3>1
    <3>. QED  BY <1>8, <2>4, <3>1, <3>2 DEF Nodes, WalkInv, StackInv
  <2>. QED  BY <2>1, <2>3, <2>5
<1>. QED  BY <1>7, <1>8, <1>9 DEF TreeRows

LEMMA TreeIsComplete ==
    ASSUME m_TreeViewEnabled => TreeIsOfRows
    PROVE  TreeComplete
<1> SUFFICES ASSUME TreeIsOfRows PROVE m_TreeViewEnabled => TreeComplete
  BY DEF TreeComplete
<1>1. PICK w \in Walks : w = TreeDrawn /\ w.stack = <<>> /\ w.rows = TreeRows
  BY WalkEnds DEF TreeRows
<1>2. PICK rows \in Seq(DrawnRows) : rows = TreeRows
  BY <1>1 DEF Walks
<1>3. PICK popped : WalkInv(<<>>, rows, popped)
  BY <1>2, WalkEnds
<1>4. PICK n \in Nat : n = Len(rows) /\ DOMAIN rows = 1..n /\ \A k \in 1..n : rows[k].depth \in Nat
  <2>1. \A x \in DrawnRows : x.depth \in Nat
    BY DEF DrawnRows
  <2>. QED  BY <2>1
<1>5. \A k \in 1..n : /\ Reached(rows[k].index, rows[k].depth) /\ rows[k].depth < MaxTreeDepth
                      /\ Hangs(rows, k - 1, rows[k].index, rows[k].depth)
  BY <1>3, <1>4 DEF WalkInv, RowsInv
<1>6. \A j, k \in 1..n : rows[j].index = rows[k].index => j = k
  BY <1>3, <1>4 DEF WalkInv, RowsInv
<1>7. ASSUME NEW i \in FilteredSet, NEW d \in 0..(MaxTreeDepth - 1), Reached(i, d)
      PROVE  \E k \in 1..n : rows[k].index = i
  <2>1. ~Waits(<<>>, i, d)
    BY DEF Waits
  <2>. QED  BY <1>3, <1>4, <1>7, <2>1 DEF WalkInv, NoneMissed
<1>8. ASSUME NEW k \in 1..n
      PROVE  /\ rows[k].depth \in 0..(MaxTreeDepth - 1) /\ Reached(rows[k].index, rows[k].depth)
             /\ rows[k].depth > 0 =>
                   \E m \in 1..(k - 1) :
                       /\ rows[m].index = ParentOf(rows[k].index) /\ rows[m].depth < rows[k].depth
                       /\ \A j \in (m + 1)..(k - 1) : rows[j].depth >= rows[k].depth
  BY <1>4, <1>5, RowsAssumption DEF Hangs
<1>. QED  BY <1>1, <1>2, <1>4, <1>6, <1>7, <1>8 DEF TreeComplete

-----------------------------------------------------------------------------
(* Finitely many things that are ordered can be put in order.                *)
LEMMA GreatestExists ==
    ASSUME NEW F, IsFiniteSet(F), NEW L,
           \A x \in F : <<x, x>> \notin L,
           \A x, y, z \in F : <<x, y>> \in L /\ <<y, z>> \in L => <<x, z>> \in L,
           NEW S \in SUBSET F, S # {}
    PROVE  \E x \in S : \A y \in S : <<x, y>> \notin L
<1> DEFINE Has(T) == \E x \in T : \A y \in T : <<x, y>> \notin L
           P == {k \in Nat : \A T \in SUBSET F : Cardinality(T) = k + 1 => Has(T)}
<1>1. \A T \in SUBSET F : /\ IsFiniteSet(T) /\ Cardinality(T) \in Nat /\ (Cardinality(T) = 0 <=> T = {})
                          /\ \A x \in T : Cardinality(T \ {x}) = Cardinality(T) - 1
  BY FS_Subset, FS_CardinalityType, FS_EmptySet, FS_RemoveElement
<1>2. 0 \in P
  <2> SUFFICES ASSUME NEW T \in SUBSET F, Cardinality(T) = 1 PROVE Has(T)
    OBVIOUS
  <2>1. PICK x \in T : TRUE
    BY <1>1
  <2>2. T \ {x} = {}
    <3>1. Cardinality(T \ {x}) = 0
      BY <1>1
    <3>. QED  BY <1>1, <3>1
  <2>. QED  BY <2>1, <2>2
<1>3. ASSUME NEW k \in P PROVE k + 1 \in P
  <2>1. k \in Nat /\ k + 1 \in Nat
    OBVIOUS
  <2> SUFFICES ASSUME NEW T \in SUBSET F, Cardinality(T) = (k + 1) + 1 PROVE Has(T)
    BY <2>1
  <2>2. PICK x \in T : TRUE
    BY <1>1, <2>1
  <2>3. PICK U \in SUBSET F : U = T \ {x}
    OBVIOUS
  <2>4. Cardinality(U) = k + 1
    BY <1>1, <2>1, <2>3
  <2>5. Has(U)
    BY <2>4
  <2>6. PICK m \in U : \A y \in U : <<m, y>> \notin L
    BY <2>5
  <2>7. \A y \in T : y = x \/ y \in U
    BY <2>3
  <2>8. m \in F /\ x \in F /\ m \in T /\ <<x, x>> \notin L /\ <<m, m>> \notin L
    BY <2>3
  <2>9. CASE <<m, x>> \in L
    <3>1. \A y \in U : <<x, y>> \notin L
      BY <2>6, <2>8, <2>9
    <3>. QED  BY <2>7, <2>8, <3>1
  <2>10. CASE <<m, x>> \notin L
    BY <2>6, <2>7, <2>8, <2>10
  <2>. QED  BY <2>9, <2>10
<1>4. P = Nat
  <2>1. P \in SUBSET Nat
    OBVIOUS
  <2> HIDE DEF P
  <2>. QED  BY <1>2, <1>3, <2>1, AllNaturals
<1>5. PICK k \in Nat : Cardinality(S) = k + 1
  <2>1. Cardinality(S) - 1 \in Nat /\ Cardinality(S) = (Cardinality(S) - 1) + 1
    BY <1>1
  <2>. QED  BY <2>1
<1>6. k \in P
  BY <1>4
<1>. QED  BY <1>5, <1>6

LEMMA OrderExists ==
    ASSUME NEW F, IsFiniteSet(F), NEW L,
           \A x \in F : <<x, x>> \notin L,
           \A x, y, z \in F : <<x, y>> \in L /\ <<y, z>> \in L => <<x, z>> \in L
    PROVE  \E order \in SetToSeqs(F) : \A i, j \in DOMAIN order : i < j => <<order[j], order[i]>> \notin L
<1> DEFINE Orders(f, k, T) == /\ f \in [1..k -> T]
                              /\ \A i, j \in 1..k : i # j => f[i] # f[j]
                              /\ \A i, j \in 1..k : i < j => <<f[j], f[i]>> \notin L
           P == {k \in Nat : \A T \in SUBSET F : Cardinality(T) = k => \E f : Orders(f, k, T)}
<1>1. \A T \in SUBSET F : /\ IsFiniteSet(T) /\ Cardinality(T) \in Nat /\ (Cardinality(T) = 0 <=> T = {})
                          /\ \A x \in T : Cardinality(T \ {x}) = Cardinality(T) - 1
  BY FS_Subset, FS_CardinalityType, FS_EmptySet, FS_RemoveElement
<1>2. 0 \in P
  <2> SUFFICES ASSUME NEW T \in SUBSET F PROVE \E f : Orders(f, 0, T)
    OBVIOUS
  <2>1. Orders([i \in 1..0 |-> i], 0, T)
    OBVIOUS
  <2>. QED  BY <2>1
<1>3. ASSUME NEW k \in P PROVE k + 1 \in P
  <2>1. k \in Nat /\ k + 1 \in Nat
    OBVIOUS
  <2> SUFFICES ASSUME NEW T \in SUBSET F, Cardinality(T) = k + 1 PROVE \E f : Orders(f, k + 1, T)
    BY <2>1
  <2>2. T # {}
    BY <1>1, <2>1
  <2>3. PICK x \in T : \A y \in T : <<x, y>> \notin L
    BY <2>2, GreatestExists
  <2>4. PICK U \in SUBSET F : U = T \ {x}
    OBVIOUS
  <2>5. Cardinality(U) = k
    <3>1. Cardinality(T \ {x}) = Cardinality(T) - 1
      BY <1>1
    <3>. QED  BY <2>1, <2>4, <3>1
  <2>6. PICK f : Orders(f, k, U)
    BY <2>5
  <2>7. \A i \in 1..k : f[i] \in T /\ f[i] # x
    BY <2>4, <2>6
  <2>8. PICK g : g = [i \in 1..(k + 1) |-> IF i = k + 1 THEN x ELSE f[i]]
    OBVIOUS
  <2>9. \A i \in 1..(k + 1) : i \in 1..k \/ i = k + 1
    OBVIOUS
  <2>10. g[k + 1] = x /\ \A i \in 1..k : g[i] = f[i]
    BY <2>1, <2>8
  <2>11. g \in [1..(k + 1) -> T]
    BY <2>7, <2>8, <2>9
  <2>12. \A i, j \in 1..(k + 1) : i # j => g[i] # g[j]
    BY <2>6, <2>7, <2>9, <2>10
  <2>13. ASSUME NEW i \in 1..(k + 1), NEW j \in 1..(k + 1), i < j PROVE <<g[j], g[i]>> \notin L
    <3>1. i \in 1..k
      BY <2>1, <2>9, <2>13
    <3>2. CASE j = k + 1
      BY <2>3, <2>7, <2>10, <3>1, <3>2
    <3>3. CASE j \in 1..k
      BY <2>6, <2>10, <2>13, <3>1, <3>3
    <3>. QED  BY <2>9, <3>2, <3>3
  <2>14. Orders(g, k + 1, T)
    BY <2>11, <2>12, <2>13
  <2>. QED  BY <2>14
<1>4. P = Nat
  <2>1. P \in SUBSET Nat
    OBVIOUS
  <2> HIDE DEF P
  <2>. QED  BY <1>2, <1>3, <2>1, AllNaturals
<1>5. PICK k \in Nat : k = Cardinality(F) /\ k \in P
  BY <1>1, <1>4
<1>6. PICK f : Orders(f, k, F)
  BY <1>5
<1>7. f \in SetToSeqs(F)
  BY <1>5, <1>6 DEF SetToSeqs
<1>8. DOMAIN f = 1..k
  BY <1>6
<1>. QED  BY <1>6, <1>7, <1>8
-----------------------------------------------------------------------------
(* The comparator compares two numbers of each row, one after the other.     *)
Major(r) == IF sort.column = "PID" THEN r.pid ELSE IF sort.column = "CpuPercent" THEN r.cpu ELSE Len(r.engines)
Minor(r) == IF sort.column \in {"PID", "CpuPercent"} \/ r.engines = <<>> THEN 0 ELSE r.engines[1]

Before(a, b) == Major(a) < Major(b) \/ (Major(a) = Major(b) /\ Minor(a) < Minor(b))
Precedes(a, b) == IF sort.ascending THEN Before(a, b) ELSE Before(b, a)

LEMMA MajorMinor ==
    ASSUME NEW r \in Rows
    PROVE  Major(r) \in Int /\ Minor(r) \in Int
<1>1. r.pid \in Int /\ r.cpu \in Int /\ r.engines \in Seq(Int)
  BY RowsAssumption
<1>2. Len(r.engines) \in Int
  BY <1>1
<1>3. r.engines # <<>> => r.engines[1] \in Int
  <2>1. r.engines # <<>> => 1 \in 1..Len(r.engines)
    BY <1>1, EmptySeq
  <2>. QED  BY <1>1, <2>1
<1>. QED  BY <1>1, <1>2, <1>3 DEF Major, Minor

LEMMA LessPrecedes ==
    ASSUME NEW a \in Rows, NEW b \in Rows
    PROVE  Less(a, b) <=> Precedes(a, b)
<1>1. /\ a.pid \in Int /\ a.cpu \in Int /\ a.engines \in Seq(Int)
      /\ b.pid \in Int /\ b.cpu \in Int /\ b.engines \in Seq(Int)
  BY RowsAssumption
<1>2. Major(a) \in Int /\ Minor(a) \in Int /\ Major(b) \in Int /\ Minor(b) \in Int
  BY MajorMinor
<1>3. /\ sort.ascending => \A x, y \in Int : Compare(sort.ascending, x < y, x = y) <=> x < y
      /\ ~sort.ascending => \A x, y \in Int : Compare(sort.ascending, x < y, x = y) <=> y < x
  <2>1. \A x, y \in Int : ~(x < y) /\ ~(x = y) <=> y < x
    OBVIOUS
  <2>. QED  BY <2>1, Zenon DEF Compare
<1>4. /\ sort.ascending => (Precedes(a, b) <=> Before(a, b))
      /\ ~sort.ascending => (Precedes(a, b) <=> Before(b, a))
  BY Zenon DEF Precedes
<1>5. ASSUME NEW x \in Int, NEW y \in Int, Before(a, b) <=> x < y, Before(b, a) <=> y < x
       PROVE  Compare(sort.ascending, x < y, x = y) <=> Precedes(a, b)
  BY <1>3, <1>4, <1>5, Zenon
<1>6. CASE sort.column = "PID"
  <2>1. Less(a, b) <=> Compare(sort.ascending, a.pid < b.pid, a.pid = b.pid)
    BY <1>6, Zenon DEF Less
  <2>2. Major(a) = a.pid /\ Major(b) = b.pid /\ Minor(a) = 0 /\ Minor(b) = 0
    BY <1>6 DEF Major, Minor
  <2>3. (Before(a, b) <=> a.pid < b.pid) /\ (Before(b, a) <=> b.pid < a.pid)
    BY <1>1, <2>2 DEF Before
  <2>. QED  BY <1>1, <1>5, <2>1, <2>3, Zenon
<1>7. CASE sort.column = "CpuPercent"
  <2>1. Less(a, b) <=> Compare(sort.ascending, a.cpu < b.cpu, a.cpu = b.cpu)
    BY <1>7 DEF Less
  <2>2. Major(a) = a.cpu /\ Major(b) = b.cpu /\ Minor(a) = 0 /\ Minor(b) = 0
    BY <1>7 DEF Major, Minor
  <2>3. (Before(a, b) <=> a.cpu < b.cpu) /\ (Before(b, a) <=> b.cpu < a.cpu)
    BY <1>1, <2>2 DEF Before
  <2>. QED  BY <1>1, <1>5, <2>1, <2>3, Zenon
<1>8. CASE sort.column \notin {"PID", "CpuPercent"}
  <2>1. PICK m \in Nat, n \in Nat : m = Len(a.engines) /\ n = Len(b.engines)
    BY <1>1
  <2>2. Less(a, b) <=> IF m # n THEN Compare(sort.ascending, m < n, m = n)
                       ELSE a.engines # <<>> /\ Compare(sort.ascending, a.engines[1] < b.engines[1], a.engines[1] = b.engines[1])
    BY <1>8, <2>1 DEF Less
  <2>3. Major(a) = m /\ Major(b) = n
    BY <1>8, <2>1 DEF Major
  <2>4. CASE m # n
    <3>1. (Before(a, b) <=> m < n) /\ (Before(b, a) <=> n < m)
      BY <2>1, <2>3, <2>4 DEF Before
    <3>2. m \in Int /\ n \in Int
      OBVIOUS
    <3>. QED  BY <1>5, <2>2, <2>4, <3>1, <3>2, Zenon
  <2>5. CASE m = n /\ a.engines = <<>>
    <3>1. b.engines = <<>>
      <4>1. m = 0
        BY <2>1, <2>5, EmptySeq
      <4>. QED  BY <1>1, <2>1, <2>5, <4>1, EmptySeq
    <3>2. Minor(a) = 0 /\ Minor(b) = 0
      BY <2>5, <3>1 DEF Minor
    <3>. QED  BY <1>4, <2>1, <2>2, <2>3, <2>5, <3>2 DEF Before
  <2>6. CASE m = n /\ a.engines # <<>>
    <3>1. b.engines # <<>>
      <4>1. m \in Nat \ {0}
        BY <1>1, <2>1, <2>6, EmptySeq
      <4>. QED  BY <2>1, <2>6, <4>1, EmptySeq
    <3>2. Minor(a) = a.engines[1] /\ Minor(b) = b.engines[1]
      BY <1>8, <2>6, <3>1 DEF Minor
    <3>3. PICK x \in Int, y \in Int : x = a.engines[1] /\ y = b.engines[1]
      BY <1>2, <3>2
    <3>4. (Before(a, b) <=> x < y) /\ (Before(b, a) <=> y < x)
      BY <2>1, <2>3, <2>6, <3>2, <3>3 DEF Before
    <3>5. Compare(sort.ascending, x < y, x = y) <=> Precedes(a, b)
      BY <1>5, <3>4
    <3>. QED  BY <2>2, <2>6, <3>3, <3>5, Zenon
  <2>. QED  BY <2>4, <2>5, <2>6
<1>. QED  BY <1>6, <1>7, <1>8

LEMMA LessOrders ==
    ASSUME NEW a \in Rows, NEW b \in Rows, NEW c \in Rows
    PROVE  /\ ~Less(a, a)
           /\ Less(a, b) /\ Less(b, c) => Less(a, c)
           /\ (~Less(a, b) /\ ~Less(b, a)) /\ (~Less(b, c) /\ ~Less(c, b)) => ~Less(a, c) /\ ~Less(c, a)
<1>1. /\ Major(a) \in Int /\ Minor(a) \in Int /\ Major(b) \in Int /\ Minor(b) \in Int
      /\ Major(c) \in Int /\ Minor(c) \in Int
  BY MajorMinor
<1>2. /\ ~Precedes(a, a)
      /\ Precedes(a, b) /\ Precedes(b, c) => Precedes(a, c)
      /\ (~Precedes(a, b) /\ ~Precedes(b, a)) /\ (~Precedes(b, c) /\ ~Precedes(c, b))
            => ~Precedes(a, c) /\ ~Precedes(c, a)
  <2>1. /\ sort.ascending => \A x, y : Precedes(x, y) <=> Before(x, y)
        /\ ~sort.ascending => \A x, y : Precedes(x, y) <=> Before(y, x)
    BY Zenon DEF Precedes
  <2>2. CASE sort.ascending
    BY <1>1, <2>1, <2>2 DEF Before
  <2>3. CASE ~sort.ascending
    BY <1>1, <2>1, <2>3 DEF Before
  <2>. QED  BY <2>2, <2>3
<1>. QED  BY <1>2, LessPrecedes

LEMMA ListIsSortable ==
    ASSUME Known
    PROVE  ListSortable
<1>1. \A r \in ToSet(snapshots) : r \in Rows
  BY RowsAreKnown DEF ToSet
<1>2. \A i \in FilteredSet : snapshots[i] \in Rows
  BY RowsAreKnown, FilterFacts
<1>3. ListOrders # {}
  <2>1. PICK L : L = {p \in FilteredSet \X FilteredSet : Less(snapshots[p[1]], snapshots[p[2]])}
    OBVIOUS
  <2>2. \A x, y \in FilteredSet : <<x, y>> \in L <=> Less(snapshots[x], snapshots[y])
    BY <2>1
  <2>3. \A x \in FilteredSet : <<x, x>> \notin L
    BY <1>2, <2>2, LessOrders
  <2>4. \A x, y, z \in FilteredSet : <<x, y>> \in L /\ <<y, z>> \in L => <<x, z>> \in L
    BY <1>2, <2>2, LessOrders
  <2>5. PICK order \in SetToSeqs(FilteredSet) : \A i, j \in DOMAIN order : i < j => <<order[j], order[i]>> \notin L
    BY <2>3, <2>4, FilterFacts, OrderExists
  <2>6. \A i \in DOMAIN order : order[i] \in FilteredSet
    BY DEF SetToSeqs
  <2>7. order \in ListOrders
    BY <2>2, <2>5, <2>6 DEF ListOrders
  <2>. QED  BY <2>7
<1>. QED  BY <1>1, <1>3, LessOrders DEF ListSortable
-----------------------------------------------------------------------------
(* The tree in use is of the rows that are shown.                            *)
PanelInv == Known /\ (m_TreeViewEnabled => m_CachedTree = BuildProcessTree(snapshots))

(* The table shows every process the filter lets through, as a list that can *)
(* be sorted or as a tree that is drawn to its end, for any processes with   *)
(* any parents, and whatever is filtered, sorted and collapsed.              *)
THEOREM TableAlwaysTrue == PanelSpec => []TableTrue
<1>1. PanelInit => PanelInv
  BY DEF PanelInit, PanelInv, Known
<1>2. PanelInv /\ [PanelNext]_panelVars => PanelInv'
  <2> SUFFICES ASSUME PanelInv, [PanelNext]_panelVars PROVE PanelInv'
    OBVIOUS
  <2>1. CASE Refresh
    <3>1. snapshots' \in Enumerations /\ m_TreeViewEnabled' = m_TreeViewEnabled
      BY <2>1 DEF Refresh
    <3>2. m_CachedTree' = IF m_TreeViewEnabled THEN BuildProcessTree(snapshots') ELSE m_CachedTree
      BY <2>1 DEF Refresh, TreeAfterRefresh
    <3>3. BuildProcessTree(snapshots)' = BuildProcessTree(snapshots')
      BY DEF BuildProcessTree
    <3>. QED  BY <3>1, <3>2, <3>3 DEF PanelInv, Known, Enumerations
  <2>2. CASE ToggleView
    BY <2>2 DEF ToggleView, PanelInv, Known
  <2>3. CASE ChangeFilter \/ ChangeSort \/ ToggleRow \/ UNCHANGED panelVars
    BY <2>3 DEF ChangeFilter, ChangeSort, ToggleRow, panelVars, PanelInv, Known
  <2>. QED  BY <2>1, <2>2, <2>3 DEF PanelNext
<1>3. PanelInv => TableTrue
  BY TreeIsComplete, ListIsSortable DEF PanelInv, TreeIsOfRows, TableTrue
<1>. QED  BY <1>1, <1>2, <1>3, PTL DEF PanelSpec
==============================================================================

--------------------------- MODULE SystemModel_proof ---------------------------
(***************************************************************************)
(* Theorems about SystemModel's histories, for any number of refreshing    *)
(* threads, cores and interfaces, any windows and any length of time, and, *)
(* for one refresher, about its order, window, power and rates.            *)
(***************************************************************************)
EXTENDS SystemModel, TimeWindow_proof, TLAPS, WellFoundedInduction,
        SequenceTheorems, FiniteSetTheorems

\* The minimum that truncation takes is the length of some deque and at most
\* that of each one that is not empty.
LEMMA ShortestFacts ==
    ASSUME NEW lengths, lengths \subseteq Nat, NEW some \in lengths, some # 0
    PROVE  /\ Shortest(lengths) \in Nat /\ Shortest(lengths) >= 1
           /\ \A m \in lengths : m = 0 \/ Shortest(lengths) <= m
<1> DEFINE sizes == lengths \ {0}
<1>1. sizes \subseteq Nat /\ sizes # {}
  OBVIOUS
<1>2. PICK n \in sizes : \A m \in sizes : ~(<<m, n>> \in OpToRel(<, Nat))
  <2> HIDE DEF sizes
  <2>. QED  BY <1>1, NatLessThanWellFounded, WFMin
<1>3. \A m \in sizes : n <= m
  <2>1. \A m \in sizes : ~(m < n)
    BY <1>1, <1>2 DEF OpToRel
  <2> HIDE DEF sizes
  <2>. QED  BY <1>1, <2>1
<1>4. \E m \in lengths \ {0} : \A k \in lengths \ {0} : m <= k
  BY <1>3
<1>5. /\ Shortest(lengths) \in lengths \ {0}
      /\ \A k \in lengths \ {0} : Shortest(lengths) <= k
  <2>1. ~(lengths \subseteq {0})
    OBVIOUS
  <2>. QED  BY <1>4, <2>1 DEF Shortest
<1>6. PICK s \in lengths \ {0} : s = Shortest(lengths)
  BY <1>5
<1>7. s \in Nat /\ s # 0 /\ \A k \in lengths : k = 0 \/ s <= k
  BY <1>5, <1>6
<1>. QED  BY <1>6, <1>7

\* The deques as every refresh and window change hands them to trimHistory.
Aligned(d) ==
    /\ d.timestamps \in Seq(Nat) /\ d.timestamps # <<>>
    /\ d.tracks = [k \in Tracks |-> d.timestamps]
    /\ d.power \in Seq(Int) /\ Len(d.power) = Len(d.timestamps)
    /\ d.cores \in Seq(Seq(Nat))

\* What a trim leaves of the deques d when n entries are older than the window
\* and no deque that is not empty is shorter than size without them.
Cut(d, window, n, size) ==
    /\ n = TrimCount(d.timestamps, window)
    /\ size >= 1 /\ size <= Len(d.timestamps) - n
    /\ timestamps' = KeepLast(DropFront(d.timestamps, n), size)
    /\ tracks' = [k \in Tracks |-> timestamps']
    /\ powerHistory' = KeepLast(DropFront(d.power, n), size)
    /\ coreHistory' = [c \in DOMAIN d.cores |-> KeepLast(DropFront(d.cores[c], n), size)]
    /\ \A c \in DOMAIN d.cores :
         /\ DropFront(d.cores[c], n) \in Seq(Nat)
         /\ Len(DropFront(d.cores[c], n)) = 0 \/ size <= Len(DropFront(d.cores[c], n))
    /\ DOMAIN ifaceHistory' = DOMAIN d.ifaces

\* Every trim is such a cut.
LEMMA TrimmedBy ==
    ASSUME NEW d, Aligned(d), NEW window \in Nat, Trimmed(d, window)
    PROVE  \E n \in 0 .. Len(d.timestamps) - 1, size \in Nat : Cut(d, window, n, size)
<1>1. PICK ts \in Seq(Nat) : ts = d.timestamps
  BY DEF Aligned
<1>2. PICK pw \in Seq(Int) : pw = d.power
  BY DEF Aligned
<1>3. PICK co \in Seq(Seq(Nat)) : co = d.cores
  BY DEF Aligned
<1>4. ts # <<>> /\ Len(pw) = Len(ts) /\ d.tracks = [k \in Tracks |-> ts]
  BY <1>1, <1>2 DEF Aligned
<1>5. PICK n \in 0 .. Len(ts) - 1 : n = TrimCount(ts, window)
  BY <1>4, TrimCountStops
<1>6. n \in Nat /\ n < Len(ts)
  BY <1>5
<1>7. PICK rts \in Seq(Nat) : rts = DropFront(ts, n)
  BY <1>6, DropFrontLength
<1>8. rts # <<>> /\ rts[Len(rts)] = ts[Len(ts)] /\ Len(rts) = Len(ts) - n
  BY <1>5, <1>7, DropFrontFacts
<1>9. PICK rpw \in Seq(Int) : rpw = DropFront(pw, n)
  BY <1>6, DropFrontLength
<1>10. Len(rpw) = Len(rts)
  <2>1. Len(rpw) = IF n <= Len(pw) THEN Len(pw) - n ELSE 0
    BY <1>6, <1>9, DropFrontLength
  <2>. QED  BY <1>4, <1>6, <1>8, <2>1
<1> DEFINE rco == [c \in DOMAIN co |-> DropFront(co[c], n)]
<1>11. /\ DOMAIN rco = 1 .. Len(co)
       /\ \A c \in DOMAIN rco : rco[c] \in Seq(Nat)
  <2>1. \A c \in DOMAIN co : co[c] \in Seq(Nat)
    OBVIOUS
  <2>. QED  BY <1>6, <2>1, DropFrontLength
<1> DEFINE rest == Without(d, n)
<1>12. /\ rest.timestamps = rts
       /\ rest.tracks = [k \in Tracks |-> rts]
       /\ rest.power = rpw
       /\ rest.cores = rco
  BY <1>1, <1>2, <1>3, <1>4, <1>7, <1>9 DEF Without
<1> DEFINE lengths == Lengths(rest)
<1>13. /\ lengths \subseteq Nat
       /\ Len(rts) \in lengths
       /\ \A c \in DOMAIN rco : Len(rco[c]) \in lengths
  <2> HIDE DEF rest, rco
  <2>. QED  BY <1>10, <1>11, <1>12 DEF Lengths
<1>14. PICK size \in Nat : /\ size = Shortest(lengths)
                           /\ size >= 1
                           /\ \A m \in lengths : m = 0 \/ size <= m
  <2> HIDE DEF lengths
  <2>1. Len(rts) # 0
    BY <1>8
  <2>. QED  BY <1>13, <2>1, ShortestFacts
<1>15. size <= Len(rts)
  BY <1>8, <1>13, <1>14
<1>16. /\ timestamps' = KeepLast(rts, size)
       /\ tracks' = [k \in Tracks |-> KeepLast(rts, size)]
       /\ powerHistory' = KeepLast(rpw, size)
       /\ coreHistory' = [c \in DOMAIN rco |-> KeepLast(rco[c], size)]
  <2>1. /\ timestamps' = KeepLast(rest.timestamps, size)
        /\ tracks' = [k \in Tracks |-> KeepLast(rest.tracks[k], size)]
        /\ powerHistory' = KeepLast(rest.power, size)
        /\ coreHistory' = [c \in DOMAIN rest.cores |->
                              KeepLast(rest.cores[c], size)]
    <3> HIDE DEF rest
    <3>1. rest = Without(d, TrimCount(d.timestamps, window))
      BY <1>1, <1>5 DEF rest
    <3>. QED  BY <1>14, <3>1, Zenon DEF Trimmed, CutTimestamps
  <2> HIDE DEF rest, rco
  <2>. QED  BY <1>12, <2>1
<1>17. DOMAIN ifaceHistory' = DOMAIN d.ifaces
  BY Zenon DEF Trimmed, Without
<1>18. ASSUME NEW c \in DOMAIN co
       PROVE  /\ DropFront(co[c], n) \in Seq(Nat)
              /\ \/ Len(DropFront(co[c], n)) = 0
                 \/ size <= Len(DropFront(co[c], n))
  <2>1. c \in DOMAIN rco /\ rco[c] = DropFront(co[c], n)
    OBVIOUS
  <2>2. rco[c] \in Seq(Nat) /\ Len(rco[c]) \in lengths
    BY <1>11, <1>13, <2>1
  <2>3. Len(rco[c]) = 0 \/ size <= Len(rco[c])
    BY <1>14, <2>2
  <2>. QED  BY <2>1, <2>2, <2>3
<1>19. coreHistory' = [c \in DOMAIN co |-> KeepLast(DropFront(co[c], n), size)]
  BY <1>16
<1>20. /\ timestamps' = KeepLast(DropFront(ts, n), size)
       /\ tracks' = [k \in Tracks |-> timestamps']
       /\ powerHistory' = KeepLast(DropFront(pw, n), size)
  BY <1>7, <1>9, <1>16
<1>21. size <= Len(ts) - n
  BY <1>8, <1>15
<1> HIDE DEF rco, rest, lengths
<1>22. Cut(d, window, n, size)
  BY <1>1, <1>2, <1>3, <1>5, <1>14, <1>17, <1>18, <1>19, <1>20, <1>21 DEF Cut
<1>. QED  BY <1>1, <1>5, <1>22

\* A trim leaves the newest timestamp, the aggregates aligned with the
\* timestamps, and of each core nothing or as many entries as timestamps.
LEMMA TrimmedDeques ==
    ASSUME NEW d, Aligned(d), NEW window \in Nat, Trimmed(d, window)
    PROVE  /\ timestamps' \in Seq(Nat)
           /\ timestamps' # <<>>
           /\ timestamps'[Len(timestamps')] = d.timestamps[Len(d.timestamps)]
           /\ tracks' = [k \in Tracks |-> timestamps']
           /\ powerHistory' \in Seq(Int)
           /\ Len(powerHistory') = Len(timestamps')
           /\ coreHistory' \in Seq(Seq(Nat))
           /\ \A c \in DOMAIN coreHistory' :
                 \/ coreHistory'[c] = <<>>
                 \/ Len(coreHistory'[c]) = Len(timestamps')
<1>1. PICK ts \in Seq(Nat), pw \in Seq(Int), co \in Seq(Seq(Nat)) :
        ts = d.timestamps /\ pw = d.power /\ co = d.cores
  BY DEF Aligned
<1>2. ts # <<>> /\ Len(pw) = Len(ts)
  BY <1>1 DEF Aligned
<1>3. PICK n \in 0 .. Len(ts) - 1, size \in Nat : Cut(d, window, n, size)
  BY <1>1, TrimmedBy
<1>4. /\ size >= 1 /\ size <= Len(ts) - n
      /\ timestamps' = KeepLast(DropFront(ts, n), size)
      /\ tracks' = [k \in Tracks |-> timestamps']
      /\ powerHistory' = KeepLast(DropFront(pw, n), size)
      /\ coreHistory' = [c \in DOMAIN co |-> KeepLast(DropFront(co[c], n), size)]
      /\ \A c \in DOMAIN co :
           /\ DropFront(co[c], n) \in Seq(Nat)
           /\ Len(DropFront(co[c], n)) = 0 \/ size <= Len(DropFront(co[c], n))
  BY <1>1, <1>3 DEF Cut
<1>5. n \in Nat /\ n < Len(ts)
  BY <1>3, <1>4
<1>6. PICK rts \in Seq(Nat) : rts = DropFront(ts, n)
  BY <1>5, DropFrontLength
<1>7. rts # <<>> /\ rts[Len(rts)] = ts[Len(ts)] /\ Len(rts) = Len(ts) - n
  BY <1>3, <1>4, <1>6, DropFrontFacts
<1>8. PICK rpw \in Seq(Int) : rpw = DropFront(pw, n)
  BY <1>5, DropFrontLength
<1>9. Len(rpw) = Len(rts)
  <2>1. Len(rpw) = IF n <= Len(pw) THEN Len(pw) - n ELSE 0
    BY <1>5, <1>8, DropFrontLength
  <2>. QED  BY <1>2, <1>5, <1>7, <2>1
<1>10. /\ timestamps' \in Seq(Nat)
      /\ timestamps' # <<>>
      /\ timestamps'[Len(timestamps')] = ts[Len(ts)]
      /\ Len(timestamps') = size
  <2>1. /\ KeepLast(rts, size) \in Seq(Nat)
        /\ Len(KeepLast(rts, size)) = size
    <3>1. size \in Nat /\ size <= Len(rts)
      BY <1>3, <1>4, <1>7
    <3>. QED  BY <3>1, KeepLastLength
  <2>2. /\ KeepLast(rts, size) # <<>>
        /\ KeepLast(rts, size)[Len(KeepLast(rts, size))] = rts[Len(rts)]
    BY <1>3, <1>4, <1>7, KeepLastKeepsNewest
  <2>. QED  BY <1>3, <1>4, <1>6, <1>7, <2>1, <2>2, Zenon
<1>11. powerHistory' \in Seq(Int) /\ Len(powerHistory') = size
  <2>1. size \in Nat /\ size <= Len(rpw)
    BY <1>3, <1>4, <1>7, <1>9
  <2>2. KeepLast(rpw, size) \in Seq(Int) /\ Len(KeepLast(rpw, size)) = size
    BY <2>1, KeepLastLength
  <2>. QED  BY <1>4, <1>8, <2>2
<1>12. ASSUME NEW c \in DOMAIN co
       PROVE  /\ KeepLast(DropFront(co[c], n), size) \in Seq(Nat)
              /\ \/ KeepLast(DropFront(co[c], n), size) = <<>>
                 \/ Len(KeepLast(DropFront(co[c], n), size)) = size
  <2>1. PICK s \in Seq(Nat) : s = DropFront(co[c], n)
    BY <1>3, <1>4
  <2>2. Len(s) = 0 \/ size <= Len(s)
    BY <1>3, <1>4, <2>1
  <2>3. /\ KeepLast(s, size) \in Seq(Nat)
        /\ Len(KeepLast(s, size)) = IF Len(s) > size THEN size ELSE Len(s)
    BY KeepLastLength
  <2>4. CASE Len(s) = 0
    <3>1. s = <<>> /\ ~(Len(s) > size)
      BY <1>3, <1>4, <2>4
    <3>. QED  BY <2>1, <3>1 DEF KeepLast
  <2>5. CASE size <= Len(s)
    BY <1>3, <1>4, <2>1, <2>3, <2>5
  <2>. QED  BY <2>2, <2>4, <2>5
<1>13. /\ coreHistory' \in Seq(Seq(Nat))
       /\ \A c \in DOMAIN coreHistory' :
             coreHistory'[c] = <<>> \/ Len(coreHistory'[c]) = size
  <2> DEFINE kept == [c \in DOMAIN co |-> KeepLast(DropFront(co[c], n), size)]
  <2>1. DOMAIN co = 1 .. Len(co) /\ Len(co) \in Nat
    OBVIOUS
  <2>2. DOMAIN kept = 1 .. Len(co)
    BY <2>1
  <2>3. \A c \in DOMAIN kept : /\ kept[c] \in Seq(Nat)
                               /\ kept[c] = <<>> \/ Len(kept[c]) = size
    BY <1>12
  <2>4. coreHistory' = kept
    BY <1>4
  <2> HIDE DEF kept
  <2>5. kept = [c \in 1 .. Len(co) |-> kept[c]]
    BY <1>4, <2>2, <2>4
  <2>6. kept \in Seq(Seq(Nat))
    BY <2>1, <2>2, <2>3, <2>5
  <2>. QED  BY <2>3, <2>4, <2>6
<1>. QED  BY <1>1, <1>3, <1>4, <1>10, <1>11, <1>13

------------------------------------------------------------------------------
(* What a refresher carries from step to step.                             *)

\* Counters by interface.
Nets == UNION {[here -> Nat] : here \in SUBSET Interfaces}

Readings == [cores : Nat, net : Nets, missed : BOOLEAN, at : Nat, power : Int, now : Int]

ReadingsInv ==
    /\ clock \in Nat
    /\ cores \in Nat
    /\ traffic \in Nets
    /\ pc \in [Threads -> {"idle", "power", "publish", "clock", "update"}]
    /\ sample \in [Threads -> Readings]
    /\ \A t \in Threads : pc[t] = "update" => sample[t].now \in Nat
    /\ previous.cores \in Nat
    /\ prevTimestamp \in Int
    /\ power \in Int
    /\ maxHistory \in Nat

\* The clamped window is a natural number, whatever was asked for.
LEMMA ClampIsNat ==
    ASSUME NEW seconds \in Int
    PROVE  ClampHistorySeconds(seconds) \in Nat
  BY SystemModelAssumption DEF ClampHistorySeconds, Larger, Smaller

LEMMA NetsChange ==
    /\ <<>> \in Nets
    /\ \A net \in Nets : \A i \in DOMAIN net : \A n \in Nat :
          [net EXCEPT ![i] = net[i] + n] \in Nets
    /\ \A net \in Nets : \A i : [j \in DOMAIN net \ {i} |-> net[j]] \in Nets
    /\ \A net \in Nets : \A i \in Interfaces :
          [j \in DOMAIN net \cup {i} |-> IF j = i THEN 0 ELSE net[j]] \in Nets
<1>1. <<>> \in Nets
  <2>1. <<>> \in [{} -> Nat]
    OBVIOUS
  <2>. QED  BY <2>1 DEF Nets
<1>2. ASSUME NEW net \in Nets, NEW i \in DOMAIN net, NEW n \in Nat
      PROVE  [net EXCEPT ![i] = net[i] + n] \in Nets
  <2>1. PICK here \in SUBSET Interfaces : net \in [here -> Nat]
    BY DEF Nets
  <2>2. [net EXCEPT ![i] = net[i] + n] \in [here -> Nat]
    BY <2>1
  <2>. QED  BY <2>2 DEF Nets
<1>3. ASSUME NEW net \in Nets, NEW i
      PROVE  [j \in DOMAIN net \ {i} |-> net[j]] \in Nets
  <2>1. PICK here \in SUBSET Interfaces : net \in [here -> Nat]
    BY DEF Nets
  <2>2. [j \in DOMAIN net \ {i} |-> net[j]] \in [here \ {i} -> Nat]
    BY <2>1
  <2>. QED  BY <2>2 DEF Nets
<1>4. ASSUME NEW net \in Nets, NEW i \in Interfaces
      PROVE  [j \in DOMAIN net \cup {i} |-> IF j = i THEN 0 ELSE net[j]]
                \in Nets
  <2>1. PICK here \in SUBSET Interfaces : net \in [here -> Nat]
    BY DEF Nets
  <2>2. [j \in DOMAIN net \cup {i} |-> IF j = i THEN 0 ELSE net[j]]
           \in [here \cup {i} -> Nat]
    BY <2>1
  <2>3. here \cup {i} \in SUBSET Interfaces
    OBVIOUS
  <2>. QED  BY <2>2, <2>3 DEF Nets
<1>. QED  BY <1>1, <1>2, <1>3, <1>4

LEMMA ReadingsStep == ReadingsInv /\ [Next]_vars => ReadingsInv'
<1> SUFFICES ASSUME ReadingsInv, [Next]_vars PROVE ReadingsInv'
  OBVIOUS
<1> USE DEF ReadingsInv
<1>1. CASE Tick
  <2>1. clock' \in Nat /\ traffic' \in Nets
    <3>1. CASE traffic' = traffic
      BY <1>1, <3>1 DEF Tick
    <3>2. ASSUME NEW i \in DOMAIN traffic, NEW n \in 1 .. LinkSpeed,
                 traffic' = [traffic EXCEPT ![i] = traffic[i] + n]
          PROVE  traffic' \in Nets
      <4>1. n \in Nat
        BY SystemModelAssumption
      <4>2. [traffic EXCEPT ![i] = traffic[i] + n] \in Nets
        BY <4>1, NetsChange, Zenon
      <4>. QED  BY <3>2, <4>2
    <3>. QED  BY <1>1, <3>1, <3>2 DEF Tick
  <2>. QED  BY <1>1, <2>1 DEF Tick, threads, snapshot
<1>2. CASE Hotplug
  BY <1>2, SystemModelAssumption DEF Hotplug, threads, snapshot
<1>3. ASSUME NEW i \in Interfaces, Plug(i) \/ Unplug(i) PROVE ReadingsInv'
  <2>1. traffic' \in Nets
    BY <1>3, NetsChange DEF Plug, Unplug
  <2>. QED  BY <1>3, <2>1 DEF Plug, Unplug, threads, snapshot
<1>4. ASSUME NEW t \in Threads, ReadCounters(t) PROVE ReadingsInv'
  <2>1. sample' \in [Threads -> Readings]
    <3>1. ASSUME NEW missed \in BOOLEAN
          PROVE  [cores |-> cores, net |-> IF missed THEN <<>> ELSE traffic, missed |-> missed,
                  at |-> clock, power |-> -1, now |-> sample[t].now] \in Readings
      <4>1. (IF missed THEN <<>> ELSE traffic) \in Nets
        BY NetsChange
      <4>. QED  BY <4>1 DEF Readings
    <3>. QED  BY <1>4, <3>1 DEF ReadCounters
  <2>2. pc' \in [Threads -> {"idle", "power", "publish", "clock", "update"}]
    BY <1>4 DEF ReadCounters
  <2>3. \A u \in Threads : pc'[u] = "update" => sample'[u].now \in Nat
    BY <1>4 DEF ReadCounters
  <2>. QED  BY <1>4, <2>1, <2>2, <2>3 DEF ReadCounters, machine, snapshot
<1>5. ASSUME NEW t \in Threads, ReadPower(t) PROVE ReadingsInv'
  <2>1. PICK r \in Readings : r = sample[t]
    OBVIOUS
  <2>2. [r EXCEPT !.power = clock] \in Readings
        /\ [r EXCEPT !.power = clock].now = r.now
    BY DEF Readings
  <2>3. sample' = [sample EXCEPT ![t] = [r EXCEPT !.power = clock]]
    BY <1>5, <2>1 DEF ReadPower
  <2>. QED  BY <1>5, <2>1, <2>2, <2>3 DEF ReadPower, machine, snapshot
<1>6. ASSUME NEW t \in Threads, PublishPower(t) PROVE ReadingsInv'
  BY <1>6 DEF PublishPower, machine, snapshot, Readings
<1>7. ASSUME NEW t \in Threads, ReadClock(t) PROVE ReadingsInv'
  <2>1. PICK r \in Readings : r = sample[t]
    OBVIOUS
  <2>2. [r EXCEPT !.now = clock] \in Readings
        /\ [r EXCEPT !.now = clock].now = clock
    BY DEF Readings
  <2>3. sample' = [sample EXCEPT ![t] = [r EXCEPT !.now = clock]]
    BY <1>7, <2>1 DEF ReadClock
  <2>. QED  BY <1>7, <2>1, <2>2, <2>3 DEF ReadClock, machine, snapshot
<1>8. ASSUME NEW t \in Threads, UpdateFromCounters(t) PROVE ReadingsInv'
  <2>1. /\ previous' = [cores |-> sample[t].cores, net |-> sample[t].net]
        /\ prevTimestamp' = sample[t].now
        /\ power' = power
        /\ UNCHANGED <<clock, cores, traffic, maxHistory>>
        /\ pc' = [pc EXCEPT ![t] = "idle"]
        /\ sample' = [sample EXCEPT ![t] = Resting(sample[t].now)]
    BY <1>8 DEF UpdateFromCounters, PreservedPower, machine
  <2>2. sample[t] \in Readings /\ sample[t].cores \in Nat
        /\ sample[t].now \in Int
    BY DEF Readings
  <2>3. Resting(sample[t].now) \in Readings
    BY <2>2, NetsChange DEF Resting, Readings
  <2>. QED  BY <2>1, <2>2, <2>3
<1>9. ASSUME NEW seconds \in WindowValues, SetMaxHistorySeconds(seconds)
      PROVE  ReadingsInv'
  <2>1. maxHistory' \in Nat
    BY <1>9, ClampIsNat, SystemModelAssumption DEF SetMaxHistorySeconds
  <2>. QED  BY <1>9, <2>1 DEF SetMaxHistorySeconds, machine, threads, snapshot
<1>10. CASE Done \/ UNCHANGED vars
  BY <1>10 DEF Done, vars, machine, threads, snapshot
<1>. QED
  BY <1>1, <1>2, <1>3, <1>4, <1>5, <1>6, <1>7, <1>8, <1>9, <1>10 DEF Next

LEMMA ReadingsInvariant == Spec => []ReadingsInv
<1>1. Init => ReadingsInv
  <2> SUFFICES ASSUME Init PROVE ReadingsInv
    OBVIOUS
  <2>1. traffic \in Nets
    <3>1. PICK here \in SUBSET Interfaces : traffic = [i \in here |-> 0]
      BY DEF Init
    <3>2. traffic \in [here -> Nat]
      BY <3>1
    <3>. QED  BY <3>2 DEF Nets
  <2>2. Resting(-1) \in Readings
    BY NetsChange DEF Resting, Readings
  <2>. QED  BY <2>1, <2>2, SystemModelAssumption DEF Init, ReadingsInv
<1>. QED  BY <1>1, ReadingsStep, PTL DEF Spec

------------------------------------------------------------------------------
(* The histories.                                                          *)

\* Truncation makes the lengths of cores agree; it never touches an aggregate's
\* alignment, because aggregates and timestamps are extended and cut together.
HistoryInv ==
    /\ timestamps \in Seq(Nat)
    /\ timestamps # <<>> => timestamps[Len(timestamps)] = prevTimestamp
    /\ tracks = [k \in Tracks |-> timestamps]
    /\ powerHistory \in Seq(Int)
    /\ Len(powerHistory) = Len(timestamps)
    /\ coreHistory \in Seq(Seq(Nat))
    /\ CoreLengthsAgree

NewestKept ==
    timestamps # <<>> => /\ timestamps' # <<>>
                         /\ timestamps'[Len(timestamps')] = prevTimestamp'

\* The deques with the entries of a refresh are what trimHistory expects.
LEMMA ExtendedAligned ==
    ASSUME HistoryInv, NEW now \in Nat, NEW shown \in Int, NEW both \in Nat,
           NEW net
    PROVE  /\ Aligned(Extended(now, shown, both, net))
           /\ LET ts == Extended(now, shown, both, net).timestamps
              IN  ts[Len(ts)] = now
<1> DEFINE d == Extended(now, shown, both, net)
           longer == 1 .. Larger(Len(coreHistory), both)
           old(c) == IF c <= Len(coreHistory) THEN coreHistory[c] ELSE <<>>
           core(c) == IF c <= both THEN Append(old(c), now) ELSE old(c)
<1>1. /\ d.timestamps = Append(timestamps, now)
      /\ d.tracks = [k \in Tracks |-> Append(tracks[k], now)]
      /\ d.power = Append(powerHistory, shown)
      /\ d.cores = [c \in longer |-> core(c)]
  BY DEF Extended
<1>2. /\ Append(timestamps, now) \in Seq(Nat)
      /\ Append(timestamps, now) # <<>>
      /\ Len(Append(timestamps, now)) = Len(timestamps) + 1
      /\ Append(timestamps, now)[Len(timestamps) + 1] = now
  <2>1. PICK ts \in Seq(Nat) : ts = timestamps
    BY DEF HistoryInv
  <2>2. /\ Append(ts, now) \in Seq(Nat)
        /\ Len(Append(ts, now)) = Len(ts) + 1
        /\ Append(ts, now)[Len(ts) + 1] = now
    OBVIOUS
  <2>3. Append(ts, now) # <<>>
    BY <2>2
  <2>. QED  BY <2>1, <2>2, <2>3
<1>3. [k \in Tracks |-> Append(tracks[k], now)]
         = [k \in Tracks |-> Append(timestamps, now)]
  BY DEF HistoryInv
<1>4. /\ Append(powerHistory, shown) \in Seq(Int)
      /\ Len(Append(powerHistory, shown)) = Len(timestamps) + 1
  BY DEF HistoryInv
<1>5. [c \in longer |-> core(c)] \in Seq(Seq(Nat))
  <2>1. Larger(Len(coreHistory), both) \in Nat
    BY DEF HistoryInv, Larger
  <2>2. ASSUME NEW c \in longer PROVE core(c) \in Seq(Nat)
    <3>1. old(c) \in Seq(Nat)
      <4>1. c <= Len(coreHistory) => coreHistory[c] \in Seq(Nat)
        BY <2>1 DEF HistoryInv
      <4>2. <<>> \in Seq(Nat)
        OBVIOUS
      <4>. QED  BY <4>1, <4>2
    <3> HIDE DEF old
    <3>. QED  BY <3>1
  <2> HIDE DEF core
  <2>. QED  BY <2>1, <2>2
<1> HIDE DEF d, core, longer
<1>6. Aligned(d)
  BY <1>1, <1>2, <1>3, <1>4, <1>5 DEF Aligned
<1>7. d.timestamps[Len(d.timestamps)] = now
  BY <1>1, <1>2
<1>. QED  BY <1>6, <1>7 DEF d

\* What a trim of the deques d, made at the time prevTimestamp', leaves.
LEMMA TrimKeepsHistory ==
    ASSUME NEW d, Aligned(d), NEW window \in Nat, Trimmed(d, window),
           prevTimestamp' = d.timestamps[Len(d.timestamps)]
    PROVE  HistoryInv' /\ NewestKept
  BY TrimmedDeques DEF HistoryInv, CoreLengthsAgree, NewestKept

LEMMA HistoryStep ==
    ASSUME ReadingsInv, HistoryInv, [Next]_vars
    PROVE  HistoryInv' /\ NewestKept
<1>1. ASSUME UNCHANGED deques, prevTimestamp' = prevTimestamp
      PROVE  HistoryInv' /\ NewestKept
  BY <1>1 DEF HistoryInv, CoreLengthsAgree, NewestKept, deques
<1>2. CASE Tick \/ Hotplug
  BY <1>1, <1>2 DEF Tick, Hotplug, snapshot
<1>3. ASSUME NEW i \in Interfaces, Plug(i) \/ Unplug(i)
      PROVE  HistoryInv' /\ NewestKept
  BY <1>1, <1>3 DEF Plug, Unplug, snapshot
<1>4. ASSUME NEW t \in Threads,
             \/ ReadCounters(t) \/ ReadPower(t) \/ PublishPower(t)
             \/ ReadClock(t)
      PROVE  HistoryInv' /\ NewestKept
  BY <1>1, <1>4
     DEF ReadCounters, ReadPower, PublishPower, ReadClock, snapshot
<1>5. ASSUME NEW t \in Threads, UpdateFromCounters(t)
      PROVE  HistoryInv' /\ NewestKept
  <2> DEFINE both == Smaller(sample[t].cores, previous.cores)
  <2>1. /\ sample[t].now \in Nat
        /\ both \in Nat
        /\ power \in Int /\ maxHistory \in Nat
    BY <1>5 DEF UpdateFromCounters, ReadingsInv, Readings, Smaller
  <2>2. prevTimestamp' = sample[t].now
    BY <1>5 DEF UpdateFromCounters
  <2>3. CASE prevTimestamp # -1
    <3> DEFINE d == Extended(sample[t].now, power, both, sample[t].net)
    <3>1. Trimmed(d, maxHistory)
      BY <1>5, <2>3, Zenon DEF UpdateFromCounters, PreservedPower
    <3>2. Aligned(d) /\ d.timestamps[Len(d.timestamps)] = sample[t].now
      BY <2>1, ExtendedAligned
    <3> HIDE DEF d
    <3>. QED  BY <2>1, <2>2, <3>1, <3>2, TrimKeepsHistory
  <2>4. CASE prevTimestamp = -1
    <3>1. UNCHANGED deques
      BY <1>5, <2>4 DEF UpdateFromCounters
    <3>2. timestamps = <<>>
      <4>1. PICK ts \in Seq(Nat) : ts = timestamps
        BY DEF HistoryInv
      <4>2. ts # <<>> => ts[Len(ts)] \in Nat
        OBVIOUS
      <4>3. ts # <<>> => ts[Len(ts)] = -1
        BY <2>4, <4>1 DEF HistoryInv
      <4>. QED  BY <4>1, <4>2, <4>3
    <3>. QED  BY <3>1, <3>2 DEF HistoryInv, CoreLengthsAgree, NewestKept, deques
  <2>. QED  BY <2>3, <2>4
<1>6. ASSUME NEW seconds \in WindowValues, SetMaxHistorySeconds(seconds)
      PROVE  HistoryInv' /\ NewestKept
  <2>1. prevTimestamp' = prevTimestamp
    BY <1>6 DEF SetMaxHistorySeconds, snapshot
  <2>2. CASE timestamps = <<>>
    BY <1>1, <1>6, <2>1, <2>2 DEF SetMaxHistorySeconds
  <2>3. CASE timestamps # <<>>
    <3>1. PICK window \in Nat : window = maxHistory'
      BY <1>6, ClampIsNat, SystemModelAssumption DEF SetMaxHistorySeconds
    <3>2. PICK d : d = Deques
      OBVIOUS
    <3>3. Trimmed(d, window)
      BY <1>6, <2>3, <3>1, <3>2, Zenon DEF SetMaxHistorySeconds
    <3>4. Aligned(d) /\ d.timestamps = timestamps
      BY <2>3, <3>2 DEF Aligned, Deques, HistoryInv
    <3>5. prevTimestamp' = d.timestamps[Len(d.timestamps)]
      BY <2>1, <2>3, <3>4 DEF HistoryInv
    <3>. QED  BY <3>3, <3>4, <3>5, TrimKeepsHistory
  <2>. QED  BY <2>2, <2>3
<1>7. CASE Done \/ UNCHANGED vars
  BY <1>1, <1>7 DEF Done, vars, snapshot
<1>. QED  BY <1>2, <1>3, <1>4, <1>5, <1>6, <1>7 DEF Next

LEMMA HistoryInvariant == Spec => [](ReadingsInv /\ HistoryInv)
<1>1. Init => HistoryInv
  BY DEF Init, HistoryInv, CoreLengthsAgree
<1>2. ReadingsInv /\ HistoryInv /\ [Next]_vars => HistoryInv'
  BY HistoryStep
<1>. QED  BY <1>1, <1>2, ReadingsInvariant, PTL DEF Spec

\* Aggregates, power and timestamps stay aligned in every reachable state,
\* however refreshers interleave and cores and interfaces come and go.
THEOREM AlwaysAligned == Spec => []HistoryAligned
<1>1. HistoryInv => HistoryAligned
  BY DEF HistoryInv, HistoryAligned
<1>. QED  BY <1>1, HistoryInvariant, PTL

\* The entry of the refresh applied last survives every trim and truncation.
THEOREM NewestNeverLost == Spec => HistoryKeepsNewest
<1>1. ReadingsInv /\ HistoryInv /\ [Next]_vars => [NewestKept]_vars
  BY HistoryStep
<1>. QED  BY <1>1, HistoryInvariant, PTL
          DEF Spec, HistoryKeepsNewest, NewestKept

------------------------------------------------------------------------------
(* One refresher, which is how SystemMetricsPanel uses the model.          *)

\* What DropFront and then KeepLast leave is an end of the sequence.
IsEnd(kept, s, m, size) ==
    /\ Len(kept) = size
    /\ \A i \in 1 .. size : kept[i] = s[m + i]

LEMMA EndOf ==
    ASSUME NEW S, NEW s \in Seq(S), NEW n \in Nat, NEW m \in Nat,
           NEW size \in Nat, n <= m, Len(s) = m + size
    PROVE  /\ KeepLast(DropFront(s, n), size) \in Seq(S)
           /\ IsEnd(KeepLast(DropFront(s, n), size), s, m, size)
<1>1. Len(s) \in Nat /\ n <= Len(s)
  OBVIOUS
<1>2. PICK rest \in Seq(S) : rest = DropFront(s, n)
  BY DropFrontLength
<1>3. Len(rest) = Len(s) - n
  BY <1>1, <1>2, DropFrontLength
<1>4. \A i \in 1 .. Len(s) - n : rest[i] = s[n + i]
  BY <1>1, <1>2 DEF DropFront
<1>5. KeepLast(rest, size) \in Seq(S) /\ Len(KeepLast(rest, size)) = size
  <2>1. size <= Len(rest)
    BY <1>3
  <2>. QED  BY <2>1, KeepLastLength
<1>6. ASSUME NEW i \in 1 .. size
      PROVE  KeepLast(rest, size)[i] = s[m + i]
  <2>1. CASE Len(rest) > size
    <3>1. PICK k \in Nat : k = Len(rest) - size
      BY <2>1
    <3>2. KeepLast(rest, size) = DropFront(rest, k)
      BY <2>1, <3>1 DEF KeepLast
    <3>3. k + i \in 1 .. Len(rest) /\ Len(rest) - k = size
      BY <3>1
    <3>4. DropFront(rest, k)[i] = rest[k + i]
      BY <3>1, <3>3 DEF DropFront
    <3>5. rest[k + i] = s[n + (k + i)]
      BY <1>3, <1>4, <3>3
    <3>6. n + (k + i) = m + i
      BY <1>1, <1>3, <3>1
    <3>. QED  BY <3>2, <3>4, <3>5, <3>6
  <2>2. CASE ~(Len(rest) > size)
    <3>1. Len(rest) = size
      BY <1>3, <2>2
    <3>2. KeepLast(rest, size) = rest
      BY <2>2 DEF KeepLast
    <3>3. n = m /\ size = Len(s) - n
      BY <1>1, <1>3, <3>1
    <3>4. rest[i] = s[n + i]
      BY <1>4, <3>3
    <3>. QED  BY <3>2, <3>3, <3>4
  <2>. QED  BY <2>1, <2>2
<1>7. IsEnd(KeepLast(rest, size), s, m, size)
  BY <1>5, <1>6 DEF IsEnd
<1>. QED  BY <1>2, <1>5, <1>7

\* Each power entry was read after the timestamp before its own, and not after
\* its own.
Paired(ts, pw) ==
    \A n \in 1 .. Len(ts) :
        /\ pw[n] <= ts[n]
        /\ n > 1 => pw[n] >= ts[n - 1]

\* A trim keeps order and pairs, and leaves nothing older than the window.
LEMMA TrimmedOrder ==
    ASSUME NEW d, Aligned(d), NEW window \in Nat, Trimmed(d, window),
           Increasing(d.timestamps)
    PROVE  /\ Increasing(timestamps') /\ Within(timestamps', window)
           /\ Paired(d.timestamps, d.power) => Paired(timestamps', powerHistory')
           /\ Len(coreHistory') = Len(d.cores)
           /\ DOMAIN ifaceHistory' = DOMAIN d.ifaces
<1>1. PICK ts \in Seq(Nat), pw \in Seq(Int), co \in Seq(Seq(Nat)) :
        ts = d.timestamps /\ pw = d.power /\ co = d.cores
  BY DEF Aligned
<1>2. ts # <<>> /\ Len(pw) = Len(ts) /\ Increasing(ts)
  BY <1>1 DEF Aligned
<1>3. PICK n \in 0 .. Len(ts) - 1, size \in Nat : Cut(d, window, n, size)
  BY <1>1, TrimmedBy
<1>4. /\ n = TrimCount(ts, window)
      /\ size >= 1 /\ size <= Len(ts) - n
      /\ timestamps' = KeepLast(DropFront(ts, n), size)
      /\ powerHistory' = KeepLast(DropFront(pw, n), size)
      /\ coreHistory' = [c \in DOMAIN co |-> KeepLast(DropFront(co[c], n), size)]
      /\ DOMAIN ifaceHistory' = DOMAIN d.ifaces
  BY <1>1, <1>3 DEF Cut
<1>5. n \in Nat /\ Len(ts) \in Nat
  BY <1>3
<1>6. PICK m \in Nat : m = Len(ts) - size
  BY <1>4, <1>5
<1>7. n <= m /\ Len(ts) = m + size /\ Len(pw) = m + size
  BY <1>2, <1>4, <1>5, <1>6
<1>8. PICK new \in Seq(Nat) : new = timestamps' /\ IsEnd(new, ts, m, size)
  <2>1. KeepLast(DropFront(ts, n), size) \in Seq(Nat)
    BY <1>5, <1>7, EndOf
  <2>2. IsEnd(KeepLast(DropFront(ts, n), size), ts, m, size)
    BY <1>5, <1>7, EndOf
  <2>. QED  BY <1>4, <2>1, <2>2
<1>9. /\ Len(new) = size /\ DOMAIN new = 1 .. size
      /\ \A i \in 1 .. size : new[i] = ts[m + i]
  BY <1>8 DEF IsEnd
<1>10. \A i \in 1 .. size : powerHistory'[i] = pw[m + i]
  <2>1. IsEnd(KeepLast(DropFront(pw, n), size), pw, m, size)
    BY <1>5, <1>7, EndOf
  <2>. QED  BY <1>4, <2>1 DEF IsEnd
<1>11. /\ DOMAIN ts = 1 .. Len(ts)
       /\ \A i \in 1 .. size : m + i \in DOMAIN ts /\ m + i \in Nat
  BY <1>5, <1>7
<1>12. Increasing(new)
  <2> SUFFICES ASSUME NEW i \in 1 .. size, NEW j \in 1 .. size, i < j
               PROVE  new[i] < new[j]
    BY <1>9 DEF Increasing
  <2>1. m + i < m + j
    OBVIOUS
  <2>2. ts[m + i] < ts[m + j]
    BY <1>2, <1>11, <2>1 DEF Increasing
  <2>. QED  BY <1>9, <2>2
<1>13. Within(new, window)
  <2> SUFFICES ASSUME NEW i \in 1 .. size
               PROVE  new[size] - new[i] <= window
    BY <1>9 DEF Within
  <2>1. new[size] = ts[Len(ts)] /\ new[i] = ts[m + i]
    <3>1. size \in 1 .. size
      BY <1>4
    <3>. QED  BY <1>7, <1>9, <3>1
  <2>2. ts[n + 1] >= ts[Len(ts)] - window
    BY <1>2, <1>4, TrimCountStops
  <2>3. PICK p \in 1 .. Len(ts), q \in 1 .. Len(ts) : p = n + 1 /\ q = m + i
    <3>1. n + 1 \in 1 .. Len(ts)
      BY <1>3, <1>5
    <3>2. m + i \in 1 .. Len(ts)
      BY <1>11
    <3>. QED  BY <3>1, <3>2
  <2>4. PICK a \in Nat, b \in Nat, c \in Nat :
          a = ts[p] /\ b = ts[q] /\ c = ts[Len(ts)]
    <3>1. ts[p] \in Nat /\ ts[q] \in Nat
      BY ElementOfSeq
    <3>2. ts[Len(ts)] \in Nat
      BY <1>2
    <3>. QED  BY <3>1, <3>2
  <2>5. a <= b
    <3>1. CASE p = q
      BY <2>4, <3>1
    <3>2. CASE p < q
      <4>1. p \in DOMAIN ts /\ q \in DOMAIN ts
        BY <1>11
      <4>2. ts[p] < ts[q]
        BY <1>2, <3>2, <4>1 DEF Increasing
      <4>. QED  BY <2>4, <4>2
    <3>3. p <= q
      BY <1>7, <2>3
    <3>. QED  BY <3>1, <3>2, <3>3
  <2>6. a >= c - window
    BY <2>2, <2>3, <2>4
  <2>7. c - b <= window
    BY <2>5, <2>6
  <2>. QED  BY <2>1, <2>3, <2>4, <2>7
<1>14. Paired(ts, pw) => Paired(new, powerHistory')
  <2> SUFFICES ASSUME Paired(ts, pw), NEW i \in 1 .. size
               PROVE  /\ powerHistory'[i] <= new[i]
                      /\ i > 1 => powerHistory'[i] >= new[i - 1]
    BY <1>9 DEF Paired
  <2>1. pw[m + i] <= ts[m + i]
    BY <1>7, <1>11 DEF Paired
  <2>2. ASSUME i > 1 PROVE pw[m + i] >= new[i - 1]
    <3>1. i - 1 \in 1 .. size /\ m + (i - 1) = (m + i) - 1 /\ m + i > 1
      BY <2>2
    <3>2. pw[m + i] >= ts[(m + i) - 1]
      BY <1>7, <1>11, <3>1 DEF Paired
    <3>. QED  BY <1>9, <3>1, <3>2
  <2>. QED  BY <1>9, <1>10, <2>1, <2>2
<1>15. Len(coreHistory') = Len(co)
  <2>1. DOMAIN co = 1 .. Len(co) /\ Len(co) \in Nat
    OBVIOUS
  <2>2. coreHistory' \in Seq(Seq(Nat))
    BY TrimmedDeques
  <2>3. PICK ch \in Seq(Seq(Nat)) : ch = coreHistory'
    BY <2>2
  <2>4. DOMAIN ch = 1 .. Len(co)
    BY <1>4, <2>1, <2>3
  <2>. QED  BY <2>1, <2>3, <2>4
<1>. QED  BY <1>1, <1>4, <1>8, <1>12, <1>13, <1>14, <1>15

\* With one refresher, each refresh is over before the next reads anything.
OneRefresher == \E t \in Threads : Threads = {t}

\* What a refresher holds at the position p, when the last refresh applied was
\* at prev and the power published was read at pow.
Turn(r, p, prev, pow, now) ==
    /\ r.at >= 0 /\ r.at <= now
    /\ r.now >= -1 /\ r.now <= now
    /\ r.power >= -1 /\ r.power <= now
    /\ r.cores <= MaxCores
    /\ p # "update" => r.now = prev
    /\ p = "update" => prev < r.now /\ pow <= r.now
    /\ p \in {"power", "publish", "clock"} => prev < now
    /\ p = "publish" => prev < r.power
    /\ HasPowerProbe /\ p \in {"clock", "update"} => prev < pow

\* The machine and the model, with every refresher's turn.
TurnInv ==
    /\ clock <= MaxClock
    /\ cores \in 1 .. MaxCores
    /\ maxHistory \in MinWindow .. MaxWindow
    /\ prevTimestamp >= -1 /\ prevTimestamp <= clock
    /\ power >= -1 /\ power <= clock
    /\ previous.cores <= MaxCores
    /\ \A t \in Threads : Turn(sample[t], pc[t], prevTimestamp, power, clock)

\* The clamped window is between the bounds.
LEMMA ClampInBounds ==
    ASSUME NEW seconds \in Int
    PROVE  ClampHistorySeconds(seconds) \in MinWindow .. MaxWindow
<1>1. MinWindow <= MaxWindow /\ MinWindow \in Nat /\ MaxWindow \in Nat
  BY SystemModelAssumption
<1>. QED  BY <1>1 DEF ClampHistorySeconds, Larger, Smaller

\* With one refresher, no step of another comes between its reads and update.
LEMMA TurnStep ==
    ASSUME OneRefresher, ReadingsInv, TurnInv, [Next]_vars
    PROVE  TurnInv'
<1>1. PICK t \in Threads : Threads = {t}
  BY DEF OneRefresher
<1>2. PICK r \in Readings : r = sample[t]
  BY DEF ReadingsInv
<1>3. Turn(r, pc[t], prevTimestamp, power, clock)
  BY <1>2 DEF TurnInv
<1>4. /\ clock \in Nat /\ cores \in Nat /\ prevTimestamp \in Int /\ power \in Int
      /\ r.at \in Nat /\ r.now \in Int /\ r.power \in Int /\ r.cores \in Nat
      /\ MaxCores \in Nat /\ MaxClock \in Nat /\ previous.cores \in Nat
  BY SystemModelAssumption DEF ReadingsInv, Readings
<1>5. /\ sample \in [Threads -> Readings]
      /\ pc \in [Threads -> {"idle", "power", "publish", "clock", "update"}]
  BY DEF ReadingsInv
<1>6. /\ clock <= MaxClock /\ cores \in 1 .. MaxCores
      /\ maxHistory \in MinWindow .. MaxWindow
      /\ prevTimestamp >= -1 /\ prevTimestamp <= clock
      /\ power >= -1 /\ power <= clock
      /\ previous.cores <= MaxCores
  BY DEF TurnInv
<1>7. ASSUME UNCHANGED <<pc, sample, previous, prevTimestamp, power>>,
             clock' \in Nat, clock <= clock', clock' <= MaxClock,
             cores' \in 1 .. MaxCores, maxHistory' \in MinWindow .. MaxWindow
      PROVE  TurnInv'
  <2>1. prevTimestamp <= clock' /\ power <= clock'
    BY <1>4, <1>6, <1>7
  <2>2. Turn(r, pc[t], prevTimestamp, power, clock')
    BY <1>3, <1>4, <1>7 DEF Turn
  <2>. QED  BY <1>1, <1>2, <1>6, <1>7, <2>1, <2>2 DEF TurnInv
<1>8. CASE Tick
  BY <1>4, <1>6, <1>7, <1>8 DEF Tick, threads, snapshot
<1>9. CASE Hotplug
  BY <1>4, <1>6, <1>7, <1>9 DEF Hotplug, threads, snapshot
<1>10. ASSUME NEW i \in Interfaces, Plug(i) \/ Unplug(i) PROVE TurnInv'
  BY <1>4, <1>6, <1>7, <1>10 DEF Plug, Unplug, threads, snapshot
<1>11. ASSUME NEW s \in Readings,
              sample' = [sample EXCEPT ![t] = s],
              UNCHANGED <<machine, maxHistory>>,
              prevTimestamp' >= -1, prevTimestamp' <= clock,
              power' >= -1, power' <= clock, previous'.cores <= MaxCores,
              Turn(s, pc'[t], prevTimestamp', power', clock)
       PROVE  TurnInv'
  <2>1. sample'[t] = s
    BY <1>5, <1>11
  <2>2. UNCHANGED <<clock, cores, maxHistory>>
    BY <1>11 DEF machine
  <2>. QED  BY <1>1, <1>6, <1>11, <2>1, <2>2 DEF TurnInv
<1>12. ASSUME ReadCounters(t) PROVE TurnInv'
  <2>0. PICK missed \in BOOLEAN :
           sample' = [sample EXCEPT ![t] =
              [cores |-> cores, net |-> IF missed THEN <<>> ELSE traffic,
               missed |-> missed, at |-> clock, power |-> -1,
               now |-> sample[t].now]]
    BY <1>12 DEF ReadCounters
  <2>a. PICK net \in Nets : net = IF missed THEN <<>> ELSE traffic
    BY NetsChange DEF ReadingsInv
  <2>1. PICK s : s = [cores |-> cores, net |-> net, missed |-> missed,
                      at |-> clock, power |-> -1, now |-> r.now]
    OBVIOUS
  <2>2. s \in Readings /\ s.at = clock /\ s.power = -1 /\ s.now = r.now /\ s.cores = cores
    BY <1>4, <2>1 DEF Readings
  <2>3. /\ sample' = [sample EXCEPT ![t] = s]
        /\ pc[t] = "idle" /\ clock > r.now
        /\ pc'[t] = IF HasPowerProbe THEN "power" ELSE "clock"
        /\ UNCHANGED <<machine, maxHistory, prevTimestamp, power, previous>>
    <3>1. sample' = [sample EXCEPT ![t] = s]
      BY <1>2, <2>0, <2>a, <2>1, Zenon
    <3>. QED  BY <1>2, <1>5, <1>12, <3>1 DEF ReadCounters, snapshot
  <2>4. pc'[t] \in {"power", "clock"} /\ (HasPowerProbe => pc'[t] = "power")
    BY <2>3
  <2>5. Turn(s, pc'[t], prevTimestamp', power', clock)
    BY <1>3, <1>4, <1>6, <2>2, <2>3, <2>4 DEF Turn
  <2>6. /\ prevTimestamp' >= -1 /\ prevTimestamp' <= clock
        /\ power' >= -1 /\ power' <= clock /\ previous'.cores <= MaxCores
    BY <1>3, <1>4, <1>6, <2>2, <2>3, <2>4 DEF Turn
  <2>. QED  BY <1>11, <2>2, <2>3, <2>4, <2>5, <2>6
<1>13. ASSUME ReadPower(t) PROVE TurnInv'
  <2>1. PICK s : s = [r EXCEPT !.power = clock]
    OBVIOUS
  <2>2. /\ s \in Readings /\ s.power = clock
        /\ s.at = r.at /\ s.now = r.now /\ s.cores = r.cores
    BY <1>4, <2>1 DEF Readings
  <2>3. /\ sample' = [sample EXCEPT ![t] = s]
        /\ pc[t] = "power" /\ pc'[t] = "publish"
        /\ UNCHANGED <<machine, maxHistory, prevTimestamp, power, previous>>
    BY <1>2, <1>5, <1>13, <2>1 DEF ReadPower, snapshot
  <2>5. Turn(s, pc'[t], prevTimestamp', power', clock)
    BY <1>3, <1>4, <1>6, <2>2, <2>3 DEF Turn
  <2>6. /\ prevTimestamp' >= -1 /\ prevTimestamp' <= clock
        /\ power' >= -1 /\ power' <= clock /\ previous'.cores <= MaxCores
    BY <1>3, <1>4, <1>6, <2>2, <2>3 DEF Turn
  <2>. QED  BY <1>11, <2>2, <2>3, <2>5, <2>6
<1>14. ASSUME PublishPower(t) PROVE TurnInv'
  <2>1. /\ sample' = [sample EXCEPT ![t] = r]
        /\ pc[t] = "publish" /\ pc'[t] = "clock"
        /\ power' = r.power
        /\ UNCHANGED <<machine, maxHistory, prevTimestamp, previous>>
    BY <1>2, <1>5, <1>14 DEF PublishPower, snapshot
  <2>5. Turn(r, pc'[t], prevTimestamp', power', clock)
    BY <1>3, <1>4, <1>6, <2>1 DEF Turn
  <2>6. /\ prevTimestamp' >= -1 /\ prevTimestamp' <= clock
        /\ power' >= -1 /\ power' <= clock /\ previous'.cores <= MaxCores
    BY <1>3, <1>4, <1>6, <2>1 DEF Turn
  <2>. QED  BY <1>11, <2>1, <2>5, <2>6
<1>15. ASSUME ReadClock(t) PROVE TurnInv'
  <2>1. PICK s : s = [r EXCEPT !.now = clock]
    OBVIOUS
  <2>2. /\ s \in Readings /\ s.now = clock
        /\ s.at = r.at /\ s.power = r.power /\ s.cores = r.cores
    BY <1>4, <2>1 DEF Readings
  <2>3. /\ sample' = [sample EXCEPT ![t] = s]
        /\ pc[t] = "clock" /\ pc'[t] = "update"
        /\ UNCHANGED <<machine, maxHistory, prevTimestamp, power, previous>>
    BY <1>2, <1>5, <1>15, <2>1 DEF ReadClock, snapshot
  <2>5. Turn(s, pc'[t], prevTimestamp', power', clock)
    BY <1>3, <1>4, <1>6, <2>2, <2>3 DEF Turn
  <2>6. /\ prevTimestamp' >= -1 /\ prevTimestamp' <= clock
        /\ power' >= -1 /\ power' <= clock /\ previous'.cores <= MaxCores
    BY <1>3, <1>4, <1>6, <2>2, <2>3 DEF Turn
  <2>. QED  BY <1>11, <2>2, <2>3, <2>5, <2>6
<1>16. ASSUME UpdateFromCounters(t) PROVE TurnInv'
  <2>1. PICK s : s = Resting(r.now)
    OBVIOUS
  <2>2. /\ s \in Readings /\ s.now = r.now /\ s.at = 0 /\ s.power = -1 /\ s.cores = 0
    BY <1>4, <2>1, NetsChange DEF Resting, Readings
  <2>3. /\ sample' = [sample EXCEPT ![t] = s]
        /\ pc[t] = "update" /\ pc'[t] = "idle"
        /\ previous' = [cores |-> r.cores, net |-> r.net]
        /\ prevTimestamp' = r.now /\ power' = power
        /\ UNCHANGED <<machine, maxHistory>>
    BY <1>2, <1>5, <1>16, <2>1 DEF UpdateFromCounters, PreservedPower
  <2>5. Turn(s, pc'[t], prevTimestamp', power', clock)
    BY <1>3, <1>4, <1>6, <2>2, <2>3 DEF Turn
  <2>6. /\ prevTimestamp' >= -1 /\ prevTimestamp' <= clock
        /\ power' >= -1 /\ power' <= clock /\ previous'.cores <= MaxCores
    BY <1>3, <1>4, <1>6, <2>2, <2>3 DEF Turn
  <2>. QED  BY <1>11, <2>2, <2>3, <2>5, <2>6
<1>17. ASSUME NEW seconds \in WindowValues, SetMaxHistorySeconds(seconds)
       PROVE  TurnInv'
  <2>1. maxHistory' \in MinWindow .. MaxWindow
    BY <1>17, ClampInBounds, SystemModelAssumption DEF SetMaxHistorySeconds
  <2>. QED  BY <1>4, <1>6, <1>7, <1>17, <2>1
            DEF SetMaxHistorySeconds, machine, threads, snapshot
<1>18. CASE Done \/ UNCHANGED vars
  BY <1>4, <1>6, <1>7, <1>18 DEF Done, vars, machine, threads, snapshot
<1>. QED
  BY <1>1, <1>8, <1>9, <1>10, <1>12, <1>13, <1>14, <1>15, <1>16, <1>17, <1>18 DEF Next

\* The deques in the order and the window, with each power at its timestamp.
OrderInv ==
    /\ Increasing(timestamps) /\ Within(timestamps, maxHistory)
    /\ HasPowerProbe => Paired(timestamps, powerHistory)
    /\ Len(coreHistory) <= MaxCores
    /\ DOMAIN ifaceHistory \subseteq Interfaces

\* What a trim of ordered deques leaves.
LEMMA TrimKeepsOrder ==
    ASSUME NEW d, Aligned(d), NEW window \in Nat, Trimmed(d, window),
           Increasing(d.timestamps), maxHistory' = window,
           HasPowerProbe => Paired(d.timestamps, d.power),
           Len(d.cores) <= MaxCores, DOMAIN d.ifaces \subseteq Interfaces
    PROVE  OrderInv'
<1>1. /\ Increasing(timestamps') /\ Within(timestamps', window)
      /\ Paired(d.timestamps, d.power) => Paired(timestamps', powerHistory')
      /\ Len(coreHistory') = Len(d.cores)
      /\ DOMAIN ifaceHistory' = DOMAIN d.ifaces
  BY TrimmedOrder
<1>. QED  BY <1>1 DEF OrderInv

\* No timestamp is after that of the last refresh.
LEMMA LastIsLatest ==
    ASSUME NEW ts \in Seq(Nat), Increasing(ts), NEW i \in 1 .. Len(ts)
    PROVE  ts[i] <= ts[Len(ts)]
<1>1. Len(ts) \in Nat /\ DOMAIN ts = 1 .. Len(ts) /\ Len(ts) \in DOMAIN ts
  OBVIOUS
<1>2. CASE i = Len(ts)
  <2>1. ts[i] \in Nat
    OBVIOUS
  <2>. QED  BY <1>2, <2>1
<1>3. CASE i < Len(ts)
  <2>1. ts[i] < ts[Len(ts)]
    BY <1>1, <1>3 DEF Increasing
  <2>2. ts[i] \in Nat /\ ts[Len(ts)] \in Nat
    BY <1>1
  <2>. QED  BY <2>1, <2>2
<1>4. PICK n \in Nat : n = Len(ts)
  BY <1>1
<1>5. i \in 1 .. n
  BY <1>4
<1>6. i = Len(ts) \/ i < Len(ts)
  BY <1>4, <1>5
<1>. QED  BY <1>2, <1>3, <1>6

\* A refresh that comes after the last one, with a power read in between,
\* extends ordered deques to ordered deques.
LEMMA ExtendedOrder ==
    ASSUME HistoryInv, OrderInv, prevTimestamp \in Int,
           NEW now \in Nat, prevTimestamp < now, NEW both \in Nat, both <= MaxCores,
           NEW net \in Nets, power \in Int,
           HasPowerProbe => prevTimestamp < power /\ power <= now
    PROVE  LET d == Extended(now, power, both, net)
           IN  /\ Increasing(d.timestamps)
               /\ HasPowerProbe => Paired(d.timestamps, d.power)
               /\ Len(d.cores) <= MaxCores
               /\ DOMAIN d.ifaces \subseteq Interfaces
<1> DEFINE d == Extended(now, power, both, net)
<1>1. PICK ts \in Seq(Nat), pw \in Seq(Int) : ts = timestamps /\ pw = powerHistory
  BY DEF HistoryInv
<1>2. d.timestamps = Append(ts, now) /\ d.power = Append(pw, power)
  BY <1>1 DEF Extended
<1>3. Increasing(ts) /\ Len(pw) = Len(ts) /\ Len(ts) \in Nat /\ DOMAIN ts = 1 .. Len(ts)
  BY <1>1 DEF HistoryInv, OrderInv
<1>4. Len(ts) >= 1 => ts[Len(ts)] = prevTimestamp
  BY <1>1 DEF HistoryInv
<1>5. ASSUME NEW i \in DOMAIN ts PROVE ts[i] < now
  <2>1. i \in 1 .. Len(ts) /\ Len(ts) >= 1
    BY <1>3
  <2>2. ts[i] <= prevTimestamp
    BY <1>3, <1>4, <2>1, LastIsLatest
  <2>3. ts[i] \in Nat
    BY <2>1
  <2>. QED  BY <2>2, <2>3
<1>6. Increasing(Append(ts, now))
  BY <1>3, <1>5, AppendKeepsOrder
<1>7. PICK new \in Seq(Nat) : new = Append(ts, now)
  BY AppendKeepsOrder, <1>3, <1>5
<1>8. PICK npw \in Seq(Int) : npw = Append(pw, power)
  <2>1. Append(pw, power) \in Seq(Int)
    BY Zenon, AppendProperties
  <2>. QED  BY <2>1
<1>9. /\ Len(new) = Len(ts) + 1 /\ \A i \in 1 .. Len(ts) : new[i] = ts[i]
      /\ new[Len(ts) + 1] = now
      /\ \A i \in 1 .. Len(ts) : npw[i] = pw[i]
      /\ npw[Len(ts) + 1] = power
  BY <1>3, <1>7, <1>8
<1>10. ASSUME HasPowerProbe PROVE Paired(new, npw)
  <2> SUFFICES ASSUME NEW n \in 1 .. Len(new)
               PROVE  /\ npw[n] <= new[n]
                      /\ n > 1 => npw[n] >= new[n - 1]
    BY DEF Paired
  <2>1. CASE n = Len(ts) + 1
    <3>1. npw[n] = power /\ new[n] = now
      BY <1>9, <2>1
    <3>2. ASSUME n > 1 PROVE new[n - 1] = prevTimestamp
      <4>1. n - 1 = Len(ts) /\ Len(ts) >= 1
        BY <1>3, <2>1, <3>2
      <4>2. new[Len(ts)] = ts[Len(ts)]
        BY <1>3, <1>9, <4>1
      <4>. QED  BY <1>4, <4>1, <4>2
    <3>. QED  BY <1>10, <3>1, <3>2
  <2>2. CASE n # Len(ts) + 1
    <3>1. n \in 1 .. Len(ts)
      BY <1>3, <1>9, <2>2
    <3>2. Paired(ts, pw)
      BY <1>1, <1>10 DEF OrderInv
    <3>3. pw[n] <= ts[n] /\ (n > 1 => pw[n] >= ts[n - 1])
      BY <3>1, <3>2 DEF Paired
    <3>4. n > 1 => new[n - 1] = ts[n - 1]
      <4>1. n > 1 => n - 1 \in 1 .. Len(ts)
        BY <1>3, <3>1
      <4>. QED  BY <1>9, <4>1
    <3>5. npw[n] = pw[n] /\ new[n] = ts[n]
      BY <1>9, <3>1
    <3>. QED  BY <3>3, <3>4, <3>5
  <2>. QED  BY <2>1, <2>2
<1>11. Len(d.cores) <= MaxCores
  <2>1. PICK k \in Nat : k = Larger(Len(coreHistory), both)
    BY DEF HistoryInv, Larger
  <2>2. k <= MaxCores
    BY <2>1 DEF OrderInv, Larger
  <2>3. DOMAIN d.cores = 1 .. k
    BY <2>1 DEF Extended
  <2>4. Len(d.cores) = k
    <3>1. d.cores \in Seq(Seq(Nat))
      BY ExtendedAligned DEF Aligned
    <3>2. PICK co \in Seq(Seq(Nat)) : co = d.cores
      BY <3>1
    <3>3. DOMAIN co = 1 .. k
      BY <2>3, <3>2
    <3>4. Len(co) = k
      BY <3>3
    <3>. QED  BY <3>2, <3>4
  <2>. QED  BY <2>2, <2>4
<1>12. DOMAIN d.ifaces \subseteq Interfaces
  <2>1. DOMAIN net \subseteq Interfaces
    BY DEF Nets
  <2>. QED  BY <2>1 DEF Extended, OrderInv
<1>. QED  BY <1>2, <1>6, <1>7, <1>8, <1>10, <1>11, <1>12

\* Only a refresh and a change of the window touch the deques.
LEMMA OrderStep ==
    ASSUME OneRefresher, ReadingsInv, TurnInv, HistoryInv, OrderInv, [Next]_vars
    PROVE  OrderInv'
<1>1. ASSUME UNCHANGED <<deques, maxHistory>> PROVE OrderInv'
  BY <1>1 DEF OrderInv, Paired, deques
<1>2. CASE Tick \/ Hotplug
  BY <1>1, <1>2 DEF Tick, Hotplug
<1>3. ASSUME NEW i \in Interfaces, Plug(i) \/ Unplug(i) PROVE OrderInv'
  BY <1>1, <1>3 DEF Plug, Unplug
<1>4. ASSUME NEW t \in Threads,
             \/ ReadCounters(t) \/ ReadPower(t) \/ PublishPower(t)
             \/ ReadClock(t)
      PROVE  OrderInv'
  BY <1>1, <1>4 DEF ReadCounters, ReadPower, PublishPower, ReadClock
<1>5. ASSUME NEW t \in Threads, UpdateFromCounters(t) PROVE OrderInv'
  <2>1. CASE prevTimestamp = -1
    BY <1>1, <1>5, <2>1 DEF UpdateFromCounters
  <2>2. CASE prevTimestamp # -1
    <3>1. PICK r \in Readings : r = sample[t]
      BY DEF ReadingsInv
    <3>2. PICK both \in Nat : both = Smaller(r.cores, previous.cores)
      BY <3>1 DEF ReadingsInv, Readings, Smaller
    <3>3. both <= MaxCores
      <4>1. previous.cores <= MaxCores /\ previous.cores \in Nat /\ r.cores <= MaxCores
        BY <3>1 DEF TurnInv, Turn, ReadingsInv
      <4>2. r.cores \in Nat /\ MaxCores \in Nat
        BY SystemModelAssumption DEF Readings
      <4>. QED  BY <3>2, <4>1, <4>2 DEF Smaller
    <3>4. PICK d : d = Extended(r.now, power, both, r.net)
      OBVIOUS
    <3>5. Trimmed(d, maxHistory) /\ maxHistory' = maxHistory
      BY <1>5, <2>2, <3>1, <3>2, <3>4, Zenon DEF UpdateFromCounters, PreservedPower
    <3>6. pc[t] = "update"
      BY <1>5 DEF UpdateFromCounters
    <3>7. /\ r.now \in Nat /\ power \in Int /\ maxHistory \in Nat
          /\ prevTimestamp \in Int /\ r.net \in Nets
      BY <3>1, <3>6 DEF ReadingsInv, Readings
    <3>8. /\ prevTimestamp < r.now /\ power <= r.now
          /\ HasPowerProbe => prevTimestamp < power
      <4>1. Turn(r, "update", prevTimestamp, power, clock)
        BY <3>1, <3>6 DEF TurnInv
      <4>. QED  BY <4>1 DEF Turn
    <3>9. Aligned(d)
      BY <3>4, <3>7, ExtendedAligned
    <3>10. /\ Increasing(d.timestamps)
           /\ HasPowerProbe => Paired(d.timestamps, d.power)
           /\ Len(d.cores) <= MaxCores
           /\ DOMAIN d.ifaces \subseteq Interfaces
      BY <3>3, <3>4, <3>7, <3>8, ExtendedOrder
    <3>. QED  BY <3>5, <3>7, <3>9, <3>10, TrimKeepsOrder
  <2>. QED  BY <2>1, <2>2
<1>6. ASSUME NEW seconds \in WindowValues, SetMaxHistorySeconds(seconds)
      PROVE  OrderInv'
  <2>1. PICK window \in Nat : window = maxHistory'
    BY <1>6, ClampIsNat, SystemModelAssumption DEF SetMaxHistorySeconds
  <2>2. CASE timestamps = <<>>
    <3>1. UNCHANGED deques
      BY <1>6, <2>2 DEF SetMaxHistorySeconds
    <3>2. Within(timestamps', maxHistory')
      BY <2>2, <3>1 DEF deques, Within
    <3>. QED  BY <3>1, <3>2 DEF OrderInv, Paired, deques
  <2>3. CASE timestamps # <<>>
    <3>1. PICK d : d = Deques
      OBVIOUS
    <3>2. Trimmed(d, window)
      BY <1>6, <2>1, <2>3, <3>1, Zenon DEF SetMaxHistorySeconds
    <3>3. Aligned(d)
      BY <2>3, <3>1 DEF Aligned, Deques, HistoryInv
    <3>4. /\ d.timestamps = timestamps /\ d.power = powerHistory
          /\ d.cores = coreHistory /\ d.ifaces = ifaceHistory
      BY <3>1 DEF Deques
    <3>. QED  BY <2>1, <3>2, <3>3, <3>4, TrimKeepsOrder DEF OrderInv
  <2>. QED  BY <2>2, <2>3
<1>7. CASE Done \/ UNCHANGED vars
  BY <1>1, <1>7 DEF Done, vars
<1>. QED  BY <1>2, <1>3, <1>4, <1>5, <1>6, <1>7 DEF Next

\* The invariants of one refresher, together.
LEMMA TurnInvariant ==
    ASSUME OneRefresher
    PROVE  Spec => [](ReadingsInv /\ HistoryInv /\ TurnInv /\ OrderInv)
<1>1. Init => TurnInv
  BY SystemModelAssumption DEF Init, TurnInv, Turn, Resting
<1>2. Init => OrderInv
  <2> SUFFICES ASSUME Init PROVE OrderInv
    OBVIOUS
  <2>1. /\ timestamps = <<>> /\ powerHistory = <<>>
        /\ coreHistory = <<>> /\ ifaceHistory = <<>>
    BY DEF Init
  <2>. QED  BY <2>1, SystemModelAssumption DEF OrderInv, Increasing, Within, Paired
<1>3. ReadingsInv /\ TurnInv /\ [Next]_vars => TurnInv'
  BY TurnStep
<1>4. ReadingsInv /\ TurnInv /\ HistoryInv /\ OrderInv /\ [Next]_vars => OrderInv'
  BY OrderStep
<1>. QED  BY <1>1, <1>2, <1>3, <1>4, HistoryInvariant, PTL DEF Spec

\* With one refresher, which is how the panel uses the model, the timestamps
\* are in order and within the window, whatever windows are set when.
THEOREM AlwaysInWindow ==
    ASSUME OneRefresher
    PROVE  Spec => []WindowRespected
<1>1. ReadingsInv /\ HistoryInv /\ TurnInv /\ OrderInv => WindowRespected
  <2> SUFFICES ASSUME ReadingsInv, HistoryInv, TurnInv, OrderInv
               PROVE  WindowRespected
    OBVIOUS
  <2>1. timestamps \in Seq(0 .. clock)
    <3>1. PICK ts \in Seq(Nat) : ts = timestamps
      BY DEF HistoryInv
    <3>2. Increasing(ts) /\ prevTimestamp <= clock /\ clock \in Nat
          /\ (ts # <<>> => ts[Len(ts)] = prevTimestamp)
      BY <3>1 DEF HistoryInv, OrderInv, TurnInv, ReadingsInv
    <3>3. ASSUME NEW i \in 1 .. Len(ts) PROVE ts[i] \in 0 .. clock
      <4>1. ts[i] \in Nat /\ ts[Len(ts)] \in Nat /\ ts # <<>>
        OBVIOUS
      <4>2. ts[i] <= ts[Len(ts)]
        BY <3>2, LastIsLatest
      <4>. QED  BY <3>2, <4>1, <4>2
    <3>4. ts \in Seq(0 .. clock)
      <4>1. Len(ts) \in Nat /\ ts = [i \in 1 .. Len(ts) |-> ts[i]]
        OBVIOUS
      <4>2. ts \in [1 .. Len(ts) -> 0 .. clock]
        BY <3>3, <4>1
      <4>3. PICK n \in Nat : n = Len(ts)
        BY <4>1
      <4>4. ts \in [1 .. n -> 0 .. clock]
        BY <4>2, <4>3
      <4>5. PICK S : S = 0 .. clock
        OBVIOUS
      <4>6. ts \in [1 .. n -> S]
        BY <4>4, <4>5
      <4>7. Seq(S) = UNION {[1 .. m -> S] : m \in Nat}
        BY SeqDef, Zenon
      <4>8. ts \in UNION {[1 .. m -> S] : m \in Nat}
        BY <4>6
      <4>. QED  BY <4>5, <4>7, <4>8, Zenon
    <3>. QED  BY <3>1, <3>4
  <2>2. ASSUME NEW t \in Threads
        PROVE  /\ sample[t].at \in 0 .. clock
               /\ sample[t].now \in -1 .. clock
               /\ sample[t].power \in -1 .. clock
               /\ sample[t].cores \in 0 .. MaxCores
               /\ DOMAIN sample[t].net \subseteq Interfaces
    <3>1. PICK r \in Readings : r = sample[t]
      BY DEF ReadingsInv
    <3>2. Turn(r, pc[t], prevTimestamp, power, clock)
      BY <3>1 DEF TurnInv
    <3>3. /\ r.at \in Nat /\ r.now \in Int /\ r.power \in Int /\ r.cores \in Nat
          /\ MaxCores \in Nat /\ clock \in Nat
          /\ DOMAIN r.net \subseteq Interfaces
      BY SystemModelAssumption DEF Readings, ReadingsInv, Nets
    <3>. QED  BY <3>1, <3>2, <3>3 DEF Turn
  <2>3. /\ clock \in 0 .. MaxClock
        /\ cores \in 1 .. MaxCores
        /\ DOMAIN traffic \subseteq Interfaces
        /\ \A i \in DOMAIN traffic : traffic[i] \in Nat
        /\ pc \in [Threads -> {"idle", "power", "publish", "clock", "update"}]
        /\ power \in -1 .. clock
        /\ prevTimestamp \in -1 .. clock
        /\ maxHistory \in MinWindow .. MaxWindow
    BY SystemModelAssumption DEF ReadingsInv, TurnInv, Nets
  <2>4. TypeOK
    BY <2>1, <2>2, <2>3 DEF TypeOK, OrderInv
  <2>. QED  BY <2>4 DEF WindowRespected, OrderInv
<1>. QED  BY <1>1, TurnInvariant, PTL

\* With one refresher and a power probe, each entry's power was read after the
\* refresh before it and before its own, although it is published on its own.
THEOREM PowerAlwaysOfItsRefresh ==
    ASSUME OneRefresher, HasPowerProbe
    PROVE  Spec => []PowerOfItsRefresh
<1>1. HistoryInv /\ OrderInv => PowerOfItsRefresh
  <2> SUFFICES ASSUME HistoryInv, OrderInv PROVE PowerOfItsRefresh
    OBVIOUS
  <2>1. PICK pw \in Seq(Int) : pw = powerHistory
    BY DEF HistoryInv
  <2>2. DOMAIN pw = 1 .. Len(timestamps) /\ Paired(timestamps, pw)
    BY <2>1 DEF HistoryInv, OrderInv
  <2>. QED  BY <2>1, <2>2 DEF PowerOfItsRefresh, Paired
<1>. QED  BY <1>1, TurnInvariant, PTL

------------------------------------------------------------------------------
(* The totals.                                                             *)

\* FoldFunction's order, and the function it defines: the sums of f over the
\* subsets of its domain.
Picked(S) == CHOOSE x \in S : TRUE
IsSum(g, f) ==
    g = [S \in SUBSET DOMAIN f |-> IF S = {} THEN 0 ELSE f[Picked(S)] + g[S \ {Picked(S)}]]
Sums(f) == CHOOSE g : IsSum(g, f)

\* A finite function to natural numbers.
Summable(f) == IsFiniteSet(DOMAIN f) /\ \A i \in DOMAIN f : f[i] \in Nat

\* The principle of induction, for a set.
LEMMA AllNaturals ==
    ASSUME NEW P \in SUBSET Nat, 0 \in P, \A n \in P : n + 1 \in P
    PROVE  P = Nat
<1> SUFFICES ASSUME Nat \ P # {} PROVE FALSE
  OBVIOUS
<1>1. PICK n \in Nat \ P : \A m \in Nat \ P : ~(<<m, n>> \in OpToRel(<, Nat))
  BY NatLessThanWellFounded, WFMin
<1>2. \A m \in Nat \ P : ~(m < n)
  BY <1>1 DEF OpToRel
<1>3. n # 0
  OBVIOUS
<1>4. n - 1 \in Nat /\ n - 1 < n /\ (n - 1) + 1 = n
  BY <1>3
<1>5. n - 1 \in P
  BY <1>2, <1>4
<1>. QED  BY <1>4, <1>5

\* The set without the element that a sum takes first.
LEMMA PickedFacts ==
    ASSUME NEW f, Summable(f), NEW S \in SUBSET DOMAIN f
    PROVE  /\ IsFiniteSet(S) /\ Cardinality(S) \in Nat
           /\ Cardinality(S) = 0 <=> S = {}
           /\ S # {} => Picked(S) \in S
           /\ \A x \in S : /\ S \ {x} \in SUBSET DOMAIN f
                           /\ Cardinality(S \ {x}) = Cardinality(S) - 1
                           /\ Cardinality(S) # 0
<1>1. IsFiniteSet(S)
  BY FS_Subset DEF Summable
<1>2. Cardinality(S) \in Nat /\ (Cardinality(S) = 0 <=> S = {})
  BY <1>1, FS_CardinalityType, FS_EmptySet
<1>3. S # {} => Picked(S) \in S
  BY DEF Picked
<1>4. ASSUME NEW x \in S PROVE Cardinality(S \ {x}) = Cardinality(S) - 1
  BY <1>1, FS_RemoveElement
<1>. QED  BY <1>1, <1>2, <1>3, <1>4

\* The sums exist, and are natural numbers: the sets of n elements extend to
\* those of n + 1.
LEMMA SumsExist ==
    ASSUME NEW f, Summable(f)
    PROVE  /\ Sums(f) \in [SUBSET DOMAIN f -> Nat]
           /\ Sums(f)[{}] = 0
           /\ \A S \in SUBSET DOMAIN f : S # {} =>
                 Sums(f)[S] = f[Picked(S)] + Sums(f)[S \ {Picked(S)}]
<1> DEFINE D == DOMAIN f
           Next1(g, S) == IF S = {} THEN 0 ELSE f[Picked(S)] + g[S \ {Picked(S)}]
           UpTo(g, n) == \A S \in SUBSET D : Cardinality(S) <= n => g[S] = Next1(g, S)
           P == {n \in Nat : \E g \in [SUBSET D -> Nat] : UpTo(g, n)}
<1>1. 0 \in P
  <2>1. PICK g \in [SUBSET D -> Nat] : g = [S \in SUBSET D |-> 0]
    OBVIOUS
  <2>2. ASSUME NEW S \in SUBSET D, Cardinality(S) <= 0 PROVE g[S] = Next1(g, S)
    BY <2>1, <2>2, PickedFacts
  <2>. QED  BY <2>2
<1>2. ASSUME NEW n \in P PROVE n + 1 \in P
  <2>1. n \in Nat /\ n + 1 \in Nat
    OBVIOUS
  <2>2. PICK g \in [SUBSET D -> Nat] : UpTo(g, n)
    BY <1>2
  <2>3. ASSUME NEW S \in SUBSET D PROVE Next1(g, S) \in Nat
    <3>1. CASE S = {}
      BY <3>1
    <3>2. CASE S # {}
      <4>1. Picked(S) \in D /\ S \ {Picked(S)} \in SUBSET D
        BY <3>2, PickedFacts
      <4>2. f[Picked(S)] \in Nat /\ g[S \ {Picked(S)}] \in Nat
        BY <4>1 DEF Summable
      <4>. QED  BY <3>2, <4>2
    <3>. QED  BY <3>1, <3>2
  <2> DEFINE h == [S \in SUBSET D |-> Next1(g, S)]
  <2>4. h \in [SUBSET D -> Nat]
    BY <2>3
  <2>5. ASSUME NEW S \in SUBSET D, Cardinality(S) <= n + 1 PROVE h[S] = Next1(h, S)
    <3>1. CASE S = {}
      BY <3>1
    <3>2. CASE S # {}
      <4>1. PICK R : R = S \ {Picked(S)}
        OBVIOUS
      <4>2. R \in SUBSET D /\ Cardinality(R) = Cardinality(S) - 1 /\ Cardinality(S) \in Nat
        BY <3>2, <4>1, PickedFacts
      <4>3. Cardinality(R) <= n
        BY <2>1, <2>5, <4>2
      <4>4. g[R] = Next1(g, R)
        BY <2>2, <4>2, <4>3
      <4>5. h[R] = g[R]
        BY <4>2, <4>4
      <4>. QED  BY <3>2, <4>1, <4>5
    <3>. QED  BY <3>1, <3>2
  <2> HIDE DEF h, Next1
  <2>6. UpTo(h, n + 1)
    BY <2>5
  <2>. QED  BY <2>1, <2>4, <2>6
<1>3. P \in SUBSET Nat
  OBVIOUS
<1>4. P = Nat
  <2> HIDE DEF P
  <2>. QED  BY <1>1, <1>2, <1>3, AllNaturals
<1>5. Cardinality(D) \in Nat /\ \A S \in SUBSET D : Cardinality(S) <= Cardinality(D)
  BY FS_CardinalityType, FS_Subset DEF Summable
<1>6. PICK g \in [SUBSET D -> Nat] : UpTo(g, Cardinality(D))
  <2>1. Cardinality(D) \in P
    BY <1>4, <1>5
  <2>. QED  BY <2>1
<1>7. \A S \in SUBSET D : g[S] = Next1(g, S)
  BY <1>5, <1>6
<1>8. IsSum(g, f)
  <2>1. g = [S \in SUBSET D |-> g[S]]
    OBVIOUS
  <2>. QED  BY <1>7, <2>1, Zenon DEF IsSum
<1>9. PICK s : s = Sums(f) /\ IsSum(s, f)
  BY <1>8 DEF Sums
<1>10. s = [S \in SUBSET D |-> Next1(s, S)]
  BY <1>9, Zenon DEF IsSum
<1>11. \A S \in SUBSET D : s[S] = Next1(s, S)
  <2> HIDE DEF Next1
  <2>. QED  BY <1>10
<1> DEFINE Q == {n \in Nat : \A S \in SUBSET D : Cardinality(S) = n => s[S] \in Nat}
<1>12. 0 \in Q
  <2>1. ASSUME NEW S \in SUBSET D, Cardinality(S) = 0 PROVE s[S] \in Nat
    BY <1>11, <2>1, PickedFacts
  <2>. QED  BY <2>1
<1>13. ASSUME NEW n \in Q PROVE n + 1 \in Q
  <2>1. ASSUME NEW S \in SUBSET D, Cardinality(S) = n + 1 PROVE s[S] \in Nat
    <3>1. PICK R : R = S \ {Picked(S)}
      OBVIOUS
    <3>2. /\ S # {} /\ Picked(S) \in D
          /\ R \in SUBSET D /\ Cardinality(R) = n
      BY <2>1, <3>1, PickedFacts
    <3>3. s[R] \in Nat /\ f[Picked(S)] \in Nat
      BY <3>2, <1>13 DEF Summable
    <3>4. s[S] = f[Picked(S)] + s[R]
      BY <1>11, <3>1, <3>2
    <3>. QED  BY <3>3, <3>4
  <2>. QED  BY <2>1
<1>14. Q \in SUBSET Nat
  OBVIOUS
<1>15. Q = Nat
  <2> HIDE DEF Q
  <2>. QED  BY <1>12, <1>13, <1>14, AllNaturals
<1>16. \A S \in SUBSET D : s[S] \in Nat
  BY <1>15, PickedFacts
<1>17. s \in [SUBSET D -> Nat]
  <2> HIDE DEF Next1
  <2>. QED  BY <1>10, <1>11, <1>16
<1>18. {} \in SUBSET D
  OBVIOUS
<1>. QED  BY <1>9, <1>11, <1>17, <1>18

\* The order of a sum does not matter: any element can be taken first.
LEMMA SumsPeel ==
    ASSUME NEW f, Summable(f)
    PROVE  \A S \in SUBSET DOMAIN f : \A i \in S :
              Sums(f)[S] = f[i] + Sums(f)[S \ {i}]
<1> DEFINE D == DOMAIN f
<1>1. PICK s \in [SUBSET D -> Nat] :
        /\ s = Sums(f)
        /\ \A S \in SUBSET D : S # {} => s[S] = f[Picked(S)] + s[S \ {Picked(S)}]
  BY SumsExist
<1> DEFINE Any(S) == \A i \in S : s[S] = f[i] + s[S \ {i}]
           P == {n \in Nat : \A S \in SUBSET D : Cardinality(S) = n => Any(S)}
<1>2. 0 \in P
  BY PickedFacts
<1>3. ASSUME NEW n \in P PROVE n + 1 \in P
  <2>1. ASSUME NEW S \in SUBSET D, Cardinality(S) = n + 1, NEW i \in S
        PROVE  s[S] = f[i] + s[S \ {i}]
    <3>1. PICK c \in S : c = Picked(S)
      BY PickedFacts
    <3>2. s[S] = f[c] + s[S \ {c}]
      BY <1>1, <3>1
    <3>3. CASE c = i
      BY <3>2, <3>3
    <3>4. CASE c # i
      <4>1. /\ S \ {c} \in SUBSET D /\ Cardinality(S \ {c}) = n
            /\ S \ {i} \in SUBSET D /\ Cardinality(S \ {i}) = n
        BY <2>1, PickedFacts
      <4>2. s[S \ {c}] = f[i] + s[(S \ {c}) \ {i}]
        BY <1>3, <3>4, <4>1
      <4>3. s[S \ {i}] = f[c] + s[(S \ {i}) \ {c}]
        BY <1>3, <3>4, <4>1
      <4>4. PICK R \in SUBSET D : R = (S \ {c}) \ {i} /\ R = (S \ {i}) \ {c}
        OBVIOUS
      <4>5. f[c] \in Nat /\ f[i] \in Nat /\ s[R] \in Nat
        BY DEF Summable
      <4>6. PICK a, b, r, p, q, u \in Nat :
              /\ a = f[c] /\ b = f[i] /\ r = s[R]
              /\ p = s[S \ {c}] /\ q = s[S \ {i}] /\ u = s[S]
        BY <4>1, <4>5
      <4>7. u = a + p /\ p = b + r /\ q = a + r
        BY <3>2, <4>2, <4>3, <4>4, <4>6
      <4>8. u = b + q
        BY <4>7
      <4>. QED  BY <4>6, <4>8
    <3>. QED  BY <3>3, <3>4
  <2>. QED  BY <2>1
<1>4. P \in SUBSET Nat
  OBVIOUS
<1>5. P = Nat
  <2> HIDE DEF P
  <2>. QED  BY <1>2, <1>3, <1>4, AllNaturals
<1>6. \A S \in SUBSET D : Any(S)
  BY <1>5, PickedFacts
<1>. QED  BY <1>1, <1>6

\* A sum depends on nothing but the values it adds up.
LEMMA SumsAgree ==
    ASSUME NEW f, Summable(f), NEW h, Summable(h)
    PROVE  \A S \in SUBSET (DOMAIN f \cap DOMAIN h) :
              (\A i \in S : f[i] = h[i]) => Sums(f)[S] = Sums(h)[S]
<1> DEFINE D == DOMAIN f \cap DOMAIN h
           P == {n \in Nat : \A S \in SUBSET D :
                    Cardinality(S) = n /\ (\A i \in S : f[i] = h[i]) => Sums(f)[S] = Sums(h)[S]}
<1>1. 0 \in P
  <2>1. ASSUME NEW S \in SUBSET D, Cardinality(S) = 0 PROVE S = {}
    BY <2>1, PickedFacts
  <2>. QED  BY <2>1, SumsExist
<1>2. ASSUME NEW n \in P PROVE n + 1 \in P
  <2>1. ASSUME NEW S \in SUBSET D, Cardinality(S) = n + 1, \A i \in S : f[i] = h[i]
        PROVE  Sums(f)[S] = Sums(h)[S]
    <3>0. S \in SUBSET DOMAIN f /\ S \in SUBSET DOMAIN h
      OBVIOUS
    <3>1. S # {}
      BY <2>1, <3>0, PickedFacts
    <3>2. PICK c \in S : TRUE
      BY <3>1
    <3>3. S \ {c} \in SUBSET D /\ Cardinality(S \ {c}) = n
      BY <2>1, <3>0, PickedFacts
    <3>4. Sums(f)[S \ {c}] = Sums(h)[S \ {c}]
      BY <1>2, <2>1, <3>3
    <3>5. /\ Sums(f)[S] = f[c] + Sums(f)[S \ {c}]
          /\ Sums(h)[S] = h[c] + Sums(h)[S \ {c}]
      BY <3>0, SumsPeel
    <3>. QED  BY <2>1, <3>4, <3>5
  <2>. QED  BY <2>1
<1>3. P \in SUBSET Nat
  OBVIOUS
<1>4. P = Nat
  <2> HIDE DEF P
  <2>. QED  BY <1>1, <1>2, <1>3, AllNaturals
<1>5. \A S \in SUBSET D : Cardinality(S) \in Nat
  BY PickedFacts
<1>. QED  BY <1>4, <1>5

\* The total is the sum over the whole domain.
LEMMA TotalIsSum == \A net : TotalBytes(net) = Sums(net)[DOMAIN net]
  BY Zenon DEF TotalBytes, FoldFunction, FoldFunctionOnSet, MapThenFoldSet, Sums, IsSum, Picked
\* What the machine does to a total: bytes received are added to it, an
\* interface that goes takes its bytes away, one that comes brings none.
LEMMA TotalsChange ==
    ASSUME NEW net \in Nets
    PROVE  /\ Summable(net)
           /\ TotalBytes(net) \in Nat
           /\ \A i \in DOMAIN net : \A n \in Nat :
                 TotalBytes([net EXCEPT ![i] = net[i] + n]) = TotalBytes(net) + n
           /\ \A i \in DOMAIN net :
                 TotalBytes([j \in DOMAIN net \ {i} |-> net[j]]) <= TotalBytes(net)
           /\ \A i \in Interfaces \ DOMAIN net :
                 TotalBytes([j \in DOMAIN net \cup {i} |-> IF j = i THEN 0 ELSE net[j]])
                    = TotalBytes(net)
<1>1. \A f \in Nets : Summable(f)
  <2>1. ASSUME NEW f \in Nets PROVE Summable(f)
    <3>1. PICK here \in SUBSET Interfaces : f \in [here -> Nat]
      BY DEF Nets
    <3>2. IsFiniteSet(here)
      BY FS_Subset, SystemModelAssumption
    <3>. QED  BY <3>1, <3>2 DEF Summable
  <2>. QED  BY <2>1
<1>2. \A f \in Nets : TotalBytes(f) = Sums(f)[DOMAIN f] /\ Sums(f) \in [SUBSET DOMAIN f -> Nat]
  BY <1>1, TotalIsSum, SumsExist
<1>3. PICK D : D = DOMAIN net
  OBVIOUS
<1>4. TotalBytes(net) = Sums(net)[D] /\ \A S \in SUBSET D : Sums(net)[S] \in Nat
  BY <1>2, <1>3
<1>5. \A i \in D : net[i] \in Nat /\ Sums(net)[D] = net[i] + Sums(net)[D \ {i}]
  <2>1. D \in SUBSET DOMAIN net
    BY <1>3
  <2>. QED  BY <1>1, <1>3, <2>1, SumsPeel DEF Summable
<1>6. ASSUME NEW i \in D, NEW n \in Nat
      PROVE  TotalBytes([net EXCEPT ![i] = net[i] + n]) = TotalBytes(net) + n
  <2>1. PICK f \in Nets : f = [net EXCEPT ![i] = net[i] + n]
    BY <1>3, NetsChange, Zenon
  <2>2. DOMAIN f = D /\ f[i] = net[i] + n /\ \A j \in D \ {i} : f[j] = net[j]
    BY <1>3, <2>1
  <2>3. Sums(f)[D] = f[i] + Sums(f)[D \ {i}]
    <3>1. D \in SUBSET DOMAIN f
      BY <2>2
    <3>. QED  BY <1>1, <3>1, SumsPeel
  <2>4. Sums(f)[D \ {i}] = Sums(net)[D \ {i}]
    <3>1. D \ {i} \in SUBSET (DOMAIN f \cap DOMAIN net)
      BY <1>3, <2>2
    <3>. QED  BY <1>1, <2>2, <3>1, SumsAgree
  <2>5. Sums(net)[D \ {i}] \in Nat /\ net[i] \in Nat
    BY <1>4, <1>5
  <2>6. TotalBytes(f) = Sums(f)[D]
    BY <1>2, <2>2
  <2>. QED  BY <1>4, <1>5, <2>1, <2>2, <2>3, <2>4, <2>5, <2>6
<1>7. ASSUME NEW i \in D
      PROVE  TotalBytes([j \in D \ {i} |-> net[j]]) <= TotalBytes(net)
  <2>1. PICK f \in Nets : f = [j \in D \ {i} |-> net[j]]
    BY <1>3, NetsChange, Zenon
  <2>2. DOMAIN f = D \ {i} /\ \A j \in D \ {i} : f[j] = net[j]
    BY <2>1
  <2>3. Sums(f)[D \ {i}] = Sums(net)[D \ {i}]
    <3>1. D \ {i} \in SUBSET (DOMAIN f \cap DOMAIN net)
      BY <1>3, <2>2
    <3>. QED  BY <1>1, <2>2, <3>1, SumsAgree
  <2>4. Sums(net)[D \ {i}] \in Nat /\ net[i] \in Nat
    BY <1>4, <1>5
  <2>5. TotalBytes(f) = Sums(f)[D \ {i}]
    BY <1>2, <2>2
  <2>6. Sums(net)[D] = net[i] + Sums(net)[D \ {i}]
    BY <1>5
  <2>7. PICK a, b \in Nat : a = net[i] /\ b = Sums(net)[D \ {i}]
    BY <2>4
  <2>8. TotalBytes(f) = b /\ TotalBytes(net) = a + b
    BY <1>4, <2>3, <2>5, <2>6, <2>7
  <2>. QED  BY <2>1, <2>7, <2>8
<1>8. ASSUME NEW i \in Interfaces \ D
      PROVE  TotalBytes([j \in D \cup {i} |-> IF j = i THEN 0 ELSE net[j]]) = TotalBytes(net)
  <2>1. PICK f \in Nets : f = [j \in D \cup {i} |-> IF j = i THEN 0 ELSE net[j]]
    BY <1>3, NetsChange, Zenon
  <2>2. DOMAIN f = D \cup {i} /\ f[i] = 0 /\ \A j \in D : f[j] = net[j]
    BY <2>1
  <2>3. Sums(f)[D \cup {i}] = f[i] + Sums(f)[D]
    <3>1. D \cup {i} \in SUBSET DOMAIN f /\ i \in D \cup {i} /\ (D \cup {i}) \ {i} = D
      BY <2>2
    <3>. QED  BY <1>1, <3>1, SumsPeel
  <2>4. Sums(f)[D] = Sums(net)[D]
    <3>1. D \in SUBSET (DOMAIN f \cap DOMAIN net)
      BY <1>3, <2>2
    <3>. QED  BY <1>1, <2>2, <3>1, SumsAgree
  <2>5. Sums(net)[D] \in Nat
    BY <1>4
  <2>6. TotalBytes(f) = Sums(f)[D \cup {i}]
    BY <1>2, <2>2
  <2>. QED  BY <1>4, <2>1, <2>2, <2>3, <2>4, <2>5, <2>6
<1>. QED  BY <1>1, <1>3, <1>4, <1>6, <1>7, <1>8

\* Without an interface the total is 0.
LEMMA NothingSums == TotalBytes(<<>>) = 0
<1>1. <<>> \in Nets /\ DOMAIN <<>> = {}
  BY NetsChange
<1>2. Summable(<<>>)
  BY <1>1, TotalsChange
<1>3. Sums(<<>>)[{}] = 0
  BY <1>2, SumsExist
<1>. QED  BY <1>1, <1>3, TotalIsSum

------------------------------------------------------------------------------
(* The rates.                                                              *)

\* From the time since to the time at, no more arrived than the links carry:
\* counters that were base are net.  Of the total that is so unless base was
\* missed.
Carried(missed, base, since, net, at) ==
    /\ since \in Int /\ at \in Int /\ since <= at
    /\ missed = FALSE => TotalBytes(net) <= TotalBytes(base) + LinkSpeed * (at - since)
    /\ \A i \in DOMAIN base \cap DOMAIN net : net[i] <= base[i] + LinkSpeed * (at - since)

\* Every step of the machine adds to what arrived no more than a tick allows.
LEMMA CarriedStep ==
    ASSUME ReadingsInv, NEW base \in Nets, NEW since, NEW missed, Carried(missed, base, since, traffic, clock),
           \/ Tick \/ \E i \in Interfaces : Plug(i) \/ Unplug(i)
    PROVE  Carried(missed, base, since, traffic', clock')
<1> USE DEF Carried
<1>1. /\ traffic \in Nets /\ clock \in Nat /\ LinkSpeed \in Nat
      /\ \A i \in DOMAIN traffic : traffic[i] \in Nat
      /\ \A i \in DOMAIN base : base[i] \in Nat
      /\ TotalBytes(traffic) \in Nat /\ TotalBytes(base) \in Nat
  BY SystemModelAssumption, TotalsChange DEF ReadingsInv, Summable
<1>2. PICK k \in Nat : k = LinkSpeed * (clock - since)
  BY <1>1
<1>3. CASE Tick
  <2>1. clock' = clock + 1 /\ LinkSpeed * (clock' - since) = k + LinkSpeed
    BY <1>1, <1>2, <1>3 DEF Tick
  <2>2. CASE traffic' = traffic
    BY <1>1, <1>2, <2>1, <2>2
  <2>3. ASSUME NEW i \in DOMAIN traffic, NEW n \in 1 .. LinkSpeed,
               traffic' = [traffic EXCEPT ![i] = traffic[i] + n]
        PROVE  Carried(missed, base, since, traffic', clock')
    <3>1. n \in Nat /\ n <= LinkSpeed
      BY <1>1
    <3>2. TotalBytes(traffic') = TotalBytes(traffic) + n
      <4>1. \A j \in DOMAIN traffic : \A m \in Nat :
               TotalBytes([traffic EXCEPT ![j] = traffic[j] + m]) = TotalBytes(traffic) + m
        <5>1. traffic \in Nets
          BY <1>1
        <5>. QED  BY <5>1, TotalsChange, Zenon
      <4>2. TotalBytes([traffic EXCEPT ![i] = traffic[i] + n]) = TotalBytes(traffic) + n
        BY <3>1, <4>1, Zenon
      <4>. QED  BY <2>3, <4>2
    <3>3. \A j \in DOMAIN base \cap DOMAIN traffic' : traffic'[j] <= base[j] + (k + LinkSpeed)
      BY <1>1, <1>2, <2>3, <3>1
    <3>. QED  BY <1>1, <1>2, <2>1, <3>1, <3>2, <3>3
  <2>. QED  BY <1>3, <2>2, <2>3 DEF Tick
<1>4. ASSUME NEW i \in Interfaces, Unplug(i) PROVE Carried(missed, base, since, traffic', clock')
  <2>1. /\ i \in DOMAIN traffic /\ clock' = clock
        /\ traffic' = [j \in DOMAIN traffic \ {i} |-> traffic[j]]
    BY <1>4 DEF Unplug
  <2>2. traffic' \in Nets
    BY <1>1, <2>1, NetsChange
  <2>3. TotalBytes(traffic') <= TotalBytes(traffic) /\ TotalBytes(traffic') \in Nat
    BY <1>1, <2>1, <2>2, TotalsChange
  <2>4. \A j \in DOMAIN base \cap DOMAIN traffic' : traffic'[j] <= base[j] + k
    BY <1>1, <1>2, <2>1
  <2>. QED  BY <1>1, <1>2, <2>1, <2>3, <2>4
<1>5. ASSUME NEW i \in Interfaces, Plug(i) PROVE Carried(missed, base, since, traffic', clock')
  <2>1. /\ i \in Interfaces \ DOMAIN traffic /\ clock' = clock
        /\ traffic' = [j \in DOMAIN traffic \cup {i} |-> IF j = i THEN 0 ELSE traffic[j]]
    BY <1>5 DEF Plug
  <2>2. TotalBytes(traffic') = TotalBytes(traffic)
    BY <1>1, <2>1, TotalsChange
  <2>3. \A j \in DOMAIN base \cap DOMAIN traffic' : traffic'[j] <= base[j] + k
    BY <1>1, <1>2, <2>1
  <2>. QED  BY <1>1, <1>2, <2>1, <2>2, <2>3
<1>. QED  BY <1>3, <1>4, <1>5

\* A rate of such counters, over any time that contains them, is one the link
\* can carry.
LEMMA RateCarried ==
    ASSUME NEW current \in Nat, NEW before \in Nat, NEW seconds \in Int, NEW late \in Nat,
           NEW gap \in Nat, seconds > 0 => gap <= seconds + late,
           seconds > 0 => current <= before + LinkSpeed * gap
    PROVE  /\ Rate(current, before, seconds).bytes
                 <= LinkSpeed * (Rate(current, before, seconds).over + late)
<1>1. LinkSpeed \in Nat /\ Word \in Nat /\ Word >= 1
  BY SystemModelAssumption
<1>2. CASE ~(seconds > 0)
  <2>1. Rate(current, before, seconds).bytes = 0 /\ Rate(current, before, seconds).over = 0
    BY <1>2 DEF Rate, NoRate
  <2>2. LinkSpeed * (0 + late) \in Nat
    BY <1>1
  <2>. QED  BY <2>1, <2>2
<1>3. CASE seconds > 0
  <2>1. /\ Rate(current, before, seconds).bytes = Difference(current, before)
        /\ Rate(current, before, seconds).over = seconds
    BY <1>3 DEF Rate
  <2>2. PICK k \in Nat : k = LinkSpeed * gap
    BY <1>1
  <2>3. PICK m \in Nat : m = seconds + late
    BY <1>3
  <2>4. k <= LinkSpeed * m
    <3>1. gap <= m
      BY <1>3, <2>3
    <3>. QED  BY <1>1, <2>2, <3>1
  <2>5. Difference(current, before) <= k
    <3>1. CASE current >= before
      <4>1. PICK d \in Nat : d = current - before
        BY <3>1
      <4>2. d % Word <= d
        BY <1>1
      <4>3. d <= k
        BY <1>3, <2>2, <4>1
      <4>4. Difference(current, before) = d % Word /\ d % Word \in Int
        BY <1>1, <3>1, <4>1 DEF Difference, Minus
      <4>. QED  BY <4>2, <4>3, <4>4
    <3>2. CASE ~(current >= before)
      BY <3>2 DEF Difference
    <3>. QED  BY <3>1, <3>2
  <2>6. Difference(current, before) \in Int
    BY <1>1 DEF Difference, Minus
  <2>7. LinkSpeed * m \in Int
    BY <1>1
  <2>8. Difference(current, before) <= LinkSpeed * m
    BY <2>4, <2>5, <2>6, <2>7
  <2>. QED  BY <2>1, <2>3, <2>8
<1>. QED  BY <1>2, <1>3

\* When the counters of the last refresh applied were read.
Probed == prevTimestamp - delay.last

\* What a refresher at the position p holds, r, when the counters of the last
\* refresh applied, base or missed, were read at since and the machine's are
\* net at now.
Carrying(r, p, counted, missed, base, since, net, now) ==
    p # "idle" =>
       /\ p = "update" => r.at <= r.now
       /\ Carried(r.missed, r.net, r.at, net, now)
       /\ counted => Carried(missed, base, since, r.net, r.at)

\* No more is on its way than the links carried since it was counted last.
LinkInv ==
    /\ previous.net \in Nets
    /\ delay.last \in Nat /\ delay.before \in Nat
    /\ delay.missed \in BOOLEAN /\ delay.missedBefore \in BOOLEAN
    /\ prevTimestamp # -1 => Carried(delay.missed, previous.net, Probed, traffic, clock)
    /\ \A t \in Threads :
          Carrying(sample[t], pc[t], prevTimestamp # -1, delay.missed, previous.net, Probed, traffic, clock)
    /\ RatesWithinLinks

\* Time passes and traffic goes on between two steps of a refresh; what it reads
\* next includes both.
LEMMA LinkStep ==
    ASSUME OneRefresher, ReadingsInv, TurnInv, LinkInv, [Next]_vars
    PROVE  LinkInv'
<1>1. PICK t \in Threads : Threads = {t}
  BY DEF OneRefresher
<1>2. PICK r \in Readings : r = sample[t]
  BY DEF ReadingsInv
<1>3. /\ r.net \in Nets /\ r.missed \in BOOLEAN /\ r.at \in Nat /\ r.at <= clock /\ r.now \in Int
      /\ traffic \in Nets /\ clock \in Nat /\ prevTimestamp \in Int /\ prevTimestamp >= -1
      /\ sample \in [Threads -> Readings]
      /\ pc \in [Threads -> {"idle", "power", "publish", "clock", "update"}]
      /\ pc[t] = "update" => prevTimestamp < r.now
  BY <1>2 DEF ReadingsInv, TurnInv, Readings, Turn
<1>4. /\ previous.net \in Nets /\ delay.last \in Nat /\ delay.before \in Nat
      /\ delay.missed \in BOOLEAN /\ delay.missedBefore \in BOOLEAN
      /\ prevTimestamp # -1 => Carried(delay.missed, previous.net, Probed, traffic, clock)
      /\ Carrying(r, pc[t], prevTimestamp # -1, delay.missed, previous.net, Probed, traffic, clock)
      /\ RatesWithinLinks
  BY <1>2 DEF LinkInv
<1>5. ASSUME UNCHANGED snapshot, NEW s, sample'[t] = s,
             prevTimestamp # -1 => Carried(delay.missed, previous.net, Probed, traffic', clock'),
             Carrying(s, pc'[t], prevTimestamp # -1, delay.missed, previous.net, Probed, traffic', clock')
      PROVE  LinkInv'
  <2>1. UNCHANGED <<previous, prevTimestamp, rates, totalRate, delay>>
    BY <1>5 DEF snapshot
  <2>2. Probed' = Probed /\ RatesWithinLinks'
    BY <1>4, <2>1 DEF Probed, RatesWithinLinks, TotalWithinLinks
  <2>3. Carried(delay.missed, previous.net, Probed, traffic', clock') =>
           Carried(delay.missed, previous.net, Probed, traffic, clock)'
    BY <2>1, <2>2 DEF Carried
  <2>4. Carrying(s, pc'[t], prevTimestamp # -1, delay.missed, previous.net, Probed, traffic', clock') =>
           Carrying(sample[t], pc[t], prevTimestamp # -1, delay.missed, previous.net, Probed, traffic, clock)'
    BY <1>5, <2>1, <2>2 DEF Carrying, Carried
  <2>. QED  BY <1>1, <1>4, <1>5, <2>1, <2>2, <2>3, <2>4 DEF LinkInv
<1>6. ASSUME Tick \/ \E i \in Interfaces : Plug(i) \/ Unplug(i) PROVE LinkInv'
  <2>1. UNCHANGED <<snapshot, threads>>
    BY <1>6 DEF Tick, Plug, Unplug
  <2>2. prevTimestamp # -1 => Carried(delay.missed, previous.net, Probed, traffic', clock')
    BY <1>4, <1>6, CarriedStep
  <2>3. pc[t] # "idle" => Carried(r.missed, r.net, r.at, traffic', clock')
    BY <1>3, <1>4, <1>6, CarriedStep DEF Carrying
  <2>4. sample'[t] = r /\ pc'[t] = pc[t]
    BY <1>2, <2>1 DEF threads
  <2>5. Carrying(r, pc'[t], prevTimestamp # -1, delay.missed, previous.net, Probed, traffic', clock')
    BY <1>4, <2>3, <2>4 DEF Carrying
  <2>. QED  BY <1>5, <2>1, <2>2, <2>4, <2>5
<1>7. ASSUME UNCHANGED <<clock, traffic, snapshot, threads>> PROVE LinkInv'
  <2>1. sample'[t] = r /\ pc'[t] = pc[t] /\ clock' = clock /\ traffic' = traffic /\ UNCHANGED snapshot
    BY <1>2, <1>7 DEF threads
  <2>. QED  BY <1>4, <1>5, <2>1
<1>8. CASE Hotplug
  BY <1>7, <1>8 DEF Hotplug
<1>9. ASSUME NEW seconds \in WindowValues, SetMaxHistorySeconds(seconds) PROVE LinkInv'
  BY <1>7, <1>9 DEF SetMaxHistorySeconds, machine
<1>10. CASE Done \/ UNCHANGED vars
  BY <1>7, <1>10 DEF Done, vars, machine
<1>11. ASSUME ReadCounters(t) PROVE LinkInv'
  <2>1. PICK missed \in BOOLEAN :
           sample' = [sample EXCEPT ![t] =
              [cores |-> cores, net |-> IF missed THEN <<>> ELSE traffic, missed |-> missed,
               at |-> clock, power |-> -1, now |-> sample[t].now]]
    BY <1>11 DEF ReadCounters
  <2>2. PICK net : net = IF missed THEN <<>> ELSE traffic
    OBVIOUS
  <2>3. PICK s : s = [cores |-> cores, net |-> net, missed |-> missed,
                      at |-> clock, power |-> -1, now |-> sample[t].now]
    OBVIOUS
  <2>4. /\ sample'[t] = s /\ pc'[t] \in {"power", "clock"}
        /\ clock' = clock /\ traffic' = traffic /\ UNCHANGED snapshot
    BY <1>3, <1>11, <2>1, <2>2, <2>3 DEF ReadCounters, machine
  <2>5. s.net = net /\ s.at = clock /\ s.missed = missed
    BY <2>3
  <2>6. LinkSpeed * (clock - clock) = 0
    BY <1>3, SystemModelAssumption
  <2>7. TotalBytes(traffic) \in Nat /\ \A i \in DOMAIN traffic : traffic[i] \in Nat
    BY <1>3, TotalsChange DEF Summable
  <2>8. CASE missed = FALSE
    <3>1. net = traffic
      BY <2>2, <2>8
    <3>2. Carried(FALSE, traffic, clock, traffic, clock)
      BY <1>3, <2>6, <2>7 DEF Carried
    <3>. QED  BY <1>4, <1>5, <2>4, <2>5, <2>8, <3>1, <3>2 DEF Carrying
  <2>9. CASE missed = TRUE
    <3>1. net = <<>> /\ DOMAIN net = {}
      BY <2>2, <2>9
    <3>2. Carried(TRUE, net, clock, traffic, clock)
      BY <1>3, <3>1 DEF Carried
    <3>3. prevTimestamp # -1 => Carried(delay.missed, previous.net, Probed, net, clock)
      <4>1. TotalBytes(net) <= TotalBytes(traffic)
        BY <2>7, <3>1, NothingSums
      <4>2. TotalBytes(net) \in Nat /\ TotalBytes(previous.net) \in Nat
        BY <1>4, <3>1, NothingSums, TotalsChange
      <4>3. SUFFICES ASSUME prevTimestamp # -1
                     PROVE  Carried(delay.missed, previous.net, Probed, net, clock)
        OBVIOUS
      <4>4. Carried(delay.missed, previous.net, Probed, traffic, clock)
        BY <1>4, <4>3
      <4>5. PICK k \in Nat : k = LinkSpeed * (clock - Probed)
        BY <1>3, <4>4, SystemModelAssumption DEF Carried
      <4>. QED  BY <2>7, <3>1, <4>1, <4>2, <4>4, <4>5 DEF Carried
    <3>. QED  BY <1>4, <1>5, <2>4, <2>5, <2>9, <3>2, <3>3 DEF Carrying
  <2>. QED  BY <2>8, <2>9
<1>12. ASSUME ReadPower(t) \/ PublishPower(t) \/ ReadClock(t) PROVE LinkInv'
  <2>1. PICK s : s = sample'[t]
    OBVIOUS
  <2>2. /\ s.net = r.net /\ s.at = r.at /\ s.missed = r.missed
        /\ pc[t] # "idle" /\ pc'[t] # "idle"
        /\ pc'[t] = "update" => s.now = clock
        /\ clock' = clock /\ traffic' = traffic /\ UNCHANGED snapshot
    <3>1. CASE ReadPower(t)
      <4>1. sample' = [sample EXCEPT ![t] = [r EXCEPT !.power = clock]]
        BY <1>2, <3>1 DEF ReadPower
      <4>2. s = [r EXCEPT !.power = clock]
        BY <1>3, <2>1, <4>1
      <4>. QED  BY <1>3, <3>1, <4>2 DEF ReadPower, machine, Readings
    <3>2. CASE PublishPower(t)
      BY <1>2, <1>3, <2>1, <3>2 DEF PublishPower, machine, snapshot
    <3>3. CASE ReadClock(t)
      <4>1. sample' = [sample EXCEPT ![t] = [r EXCEPT !.now = clock]]
        BY <1>2, <3>3 DEF ReadClock
      <4>2. s = [r EXCEPT !.now = clock]
        BY <1>3, <2>1, <4>1
      <4>. QED  BY <1>3, <3>3, <4>2 DEF ReadClock, machine, Readings
    <3>. QED  BY <1>12, <3>1, <3>2, <3>3
  <2>3. Carrying(s, pc'[t], prevTimestamp # -1, delay.missed, previous.net, Probed, traffic', clock')
    BY <1>3, <1>4, <2>2 DEF Carrying
  <2>. QED  BY <1>4, <1>5, <2>1, <2>2, <2>3
<1>13. ASSUME UpdateFromCounters(t) PROVE LinkInv'
  <2>1. PICK seconds : seconds = IF prevTimestamp # -1 THEN r.now - prevTimestamp ELSE 0
    OBVIOUS
  <2>2. /\ pc[t] = "update" /\ pc'[t] = "idle"
        /\ rates' = InterfaceRates(r.net, seconds)
        /\ totalRate' = Rate(TotalBytes(r.net), TotalBytes(previous.net), seconds)
        /\ previous' = [cores |-> r.cores, net |-> r.net]
        /\ prevTimestamp' = r.now
        /\ delay' = [last |-> r.now - r.at, before |-> delay.last,
                     missed |-> r.missed, missedBefore |-> delay.missed]
        /\ clock' = clock /\ traffic' = traffic
    BY <1>2, <1>3, <1>13, <2>1 DEF UpdateFromCounters, machine
  <2>3. /\ r.at <= r.now /\ Carried(r.missed, r.net, r.at, traffic, clock)
        /\ prevTimestamp # -1 => Carried(delay.missed, previous.net, Probed, r.net, r.at)
    BY <1>4, <2>2 DEF Carrying
  <2>4. /\ previous'.net = r.net /\ delay'.last = r.now - r.at
        /\ delay'.before = delay.last /\ Probed' = r.at
        /\ delay'.missed = r.missed /\ delay'.missedBefore = delay.missed
    BY <1>3, <2>2 DEF Probed
  <2>5. Carried(delay.missed, previous.net, Probed, traffic, clock)'
    BY <2>2, <2>3, <2>4
  <2>6. PICK late, gap \in Nat :
           /\ late = delay.last
           /\ gap = IF prevTimestamp # -1 THEN r.at - Probed ELSE 0
    BY <1>3, <1>4, <2>3 DEF Carried, Probed
  <2>7. seconds \in Int /\ (seconds > 0 => prevTimestamp # -1 /\ gap <= seconds + late)
    BY <1>3, <1>4, <2>1, <2>3, <2>6 DEF Probed
  <2>8. /\ TotalBytes(r.net) \in Nat /\ TotalBytes(previous.net) \in Nat
        /\ delay.missed = FALSE /\ seconds > 0 =>
              TotalBytes(r.net) <= TotalBytes(previous.net) + LinkSpeed * gap
    BY <1>3, <1>4, <2>3, <2>6, <2>7, TotalsChange DEF Carried
  <2>9. delay.missed = FALSE => totalRate'.bytes <= LinkSpeed * (totalRate'.over + late)
    BY <2>2, <2>6, <2>7, <2>8, RateCarried
  <2>10. ASSUME NEW i \in DOMAIN rates'
         PROVE  rates'[i].bytes <= LinkSpeed * (rates'[i].over + late)
    <3>1. i \in DOMAIN r.net /\ r.net[i] \in Nat
      BY <1>3, <2>2, <2>10, TotalsChange DEF InterfaceRates, Summable
    <3>2. CASE i \in DOMAIN previous.net
      <4>1. rates'[i] = Rate(r.net[i], previous.net[i], seconds) /\ previous.net[i] \in Nat
        BY <1>4, <2>2, <3>1, <3>2, TotalsChange DEF InterfaceRates, Summable
      <4>2. seconds > 0 => r.net[i] <= previous.net[i] + LinkSpeed * gap
        BY <2>3, <2>6, <2>7, <3>1, <3>2 DEF Carried
      <4>. QED  BY <2>6, <2>7, <3>1, <4>1, <4>2, RateCarried
    <3>3. CASE i \notin DOMAIN previous.net
      <4>1. rates'[i].bytes = 0 /\ rates'[i].over = 0
        BY <2>2, <3>1, <3>3 DEF InterfaceRates, NoRate
      <4>2. LinkSpeed * (0 + late) \in Nat
        BY <2>6, SystemModelAssumption
      <4>. QED  BY <4>1, <4>2
    <3>. QED  BY <3>2, <3>3
  <2>11. RatesWithinLinks'
    BY <1>4, <2>4, <2>6, <2>9, <2>10 DEF RatesWithinLinks, TotalWithinLinks
  <2>12. \A u \in Threads : pc'[u] = "idle"
    BY <1>1, <2>2
  <2>13. /\ delay'.last \in Nat /\ delay'.before \in Nat /\ previous'.net \in Nets
         /\ delay'.missed \in BOOLEAN /\ delay'.missedBefore \in BOOLEAN
    BY <1>3, <1>4, <2>3, <2>4
  <2>. QED  BY <2>5, <2>11, <2>12, <2>13 DEF LinkInv, Carrying
<1>. QED
  BY <1>1, <1>6, <1>8, <1>9, <1>10, <1>11, <1>12, <1>13 DEF Next

\* With one refresher, no rate shows more than the links can carry in the time
\* it is shown over, and what arrived between the probe's reading and the
\* clock's of the refresh before, whatever interfaces come, go, restart or are
\* missed; the total of a refresh after one that missed them is left out.
THEOREM RatesAlwaysWithinLinks ==
    ASSUME OneRefresher
    PROVE  Spec => []RatesWithinLinks
<1>1. Init => LinkInv
  <2> SUFFICES ASSUME Init PROVE LinkInv
    OBVIOUS
  <2>1. /\ previous.net = <<>> /\ delay.last = 0 /\ delay.before = 0
        /\ delay.missed = FALSE /\ delay.missedBefore = FALSE
        /\ prevTimestamp = -1 /\ rates = <<>> /\ totalRate = NoRate
        /\ \A t \in Threads : pc[t] = "idle"
    BY DEF Init
  <2>2. DOMAIN rates = {}
    BY <2>1
  <2>3. RatesWithinLinks
    BY <2>1, <2>2, SystemModelAssumption DEF RatesWithinLinks, TotalWithinLinks, NoRate
  <2>4. previous.net \in Nets
    BY <2>1, NetsChange
  <2>5. delay.last \in Nat /\ delay.before \in Nat
    BY <2>1
  <2>6. delay.missed \in BOOLEAN /\ delay.missedBefore \in BOOLEAN
    BY <2>1, Zenon
  <2>. QED  BY <2>1, <2>3, <2>4, <2>5, <2>6 DEF LinkInv, Carrying
<1>2. ReadingsInv /\ TurnInv /\ LinkInv /\ [Next]_vars => LinkInv'
  BY LinkStep
<1>3. LinkInv => RatesWithinLinks
  BY DEF LinkInv
<1>. QED  BY <1>1, <1>2, <1>3, TurnInvariant, PTL DEF Spec
==============================================================================

-------------------------- MODULE ProcessModel_proof --------------------------
(***************************************************************************)
(* Theorems about ProcessModel, for any number of refreshing threads, any  *)
(* processes, any windows and any length of time.                          *)
(***************************************************************************)
EXTENDS ProcessModel, TimeWindow_proof, SequenceTheorems, TLAPS

------------------------------------------------------------------------------
(* The deques.                                                             *)

\* Timestamps come from a clock read under the lock, so the next one is later
\* than every one that is kept; that, and a window that is never negative, is
\* what makes trimHistory's early stop right.
HistoryInv ==
    /\ clock \in Nat
    /\ prevSampleTime \in Int /\ prevSampleTime <= clock
    /\ maxHistory \in Nat
    /\ timestamps \in Seq(Nat)
    /\ \A i \in DOMAIN timestamps : timestamps[i] <= prevSampleTime
    /\ Increasing(timestamps)
    /\ Within(timestamps, maxHistory)
    /\ history = [k \in Tracks |-> timestamps]

\* A trim of consistent deques leaves consistent deques.
LEMMA TrimmedDeques ==
    ASSUME NEW ts \in Seq(Nat), ts # <<>>, Increasing(ts), NEW window \in Nat,
           Trimmed(ts, [k \in Tracks |-> ts], window)
    PROVE  /\ timestamps' \in Seq(Nat)
           /\ timestamps' # <<>>
           /\ timestamps'[Len(timestamps')] = ts[Len(ts)]
           /\ \A i \in DOMAIN timestamps' :
                 \E j \in DOMAIN ts : timestamps'[i] = ts[j]
           /\ Increasing(timestamps')
           /\ Within(timestamps', window)
           /\ history' = [k \in Tracks |-> timestamps']
  BY TrimKeepsNewest DEF Trimmed

\* The newest entry is there after the step, or a later one is.
NewestKept ==
    timestamps # <<>> => /\ timestamps' # <<>>
                         /\ timestamps'[Len(timestamps')]
                              >= timestamps[Len(timestamps)]

LEMMA HistoryStep ==
    ASSUME HistoryInv, [Next]_vars
    PROVE  HistoryInv' /\ NewestKept
<1> USE DEF HistoryInv, NewestKept
<1>. timestamps # <<>> => timestamps[Len(timestamps)] \in Nat
  OBVIOUS
<1>1. CASE Tick
  <2>1. /\ clock' = clock + 1
        /\ UNCHANGED <<prevSampleTime, timestamps, history, maxHistory>>
    BY <1>1 DEF Tick, model, deques
  <2>. QED  BY <2>1
<1>2. ASSUME NEW p \in Pids, Exit(p) \/ Reuse(p) PROVE HistoryInv' /\ NewestKept
  BY <1>2 DEF Exit, Reuse, model, deques
<1>3. ASSUME NEW t \in Threads, Enumerate(t) \/ ReadTotal(t) PROVE HistoryInv' /\ NewestKept
  BY <1>3 DEF Enumerate, ReadTotal, world, model, deques
<1>4. ASSUME NEW t \in Threads, ComputeSnapshots(t)
      PROVE  HistoryInv' /\ NewestKept
  <2>1. /\ clock' = clock
        /\ maxHistory' = maxHistory
        /\ prevSampleTime' = clock
    BY <1>4 DEF ComputeSnapshots, SampleTime, world
  <2>2. CASE prevSampleTime # -1 /\ clock > prevSampleTime
    <3> DEFINE new == Append(timestamps, clock)
    <3>1. \A i \in DOMAIN timestamps : timestamps[i] < clock
      BY <2>2
    <3>2. /\ new \in Seq(Nat)
          /\ new # <<>>
          /\ new[Len(new)] = clock
          /\ \A i \in DOMAIN new : new[i] <= clock
          /\ Increasing(new)
      BY <3>1, AppendKeepsOrder
    <3>3. [k \in Tracks |-> Append(history[k], clock)] = [k \in Tracks |-> new]
      OBVIOUS
    <3>4. Trimmed(new, [k \in Tracks |-> new], maxHistory)
      <4>1. clock - prevSampleTime > 0 /\ prevSampleTime # -1
        BY <2>2
      <4>2. Trimmed(new, [k \in Tracks |-> Append(history[k], clock)], maxHistory)
        BY <1>4, <4>1, Zenon DEF ComputeSnapshots, SampleTime
      <4>. QED  BY <3>3, <4>2, Zenon
    <3> HIDE DEF new
    <3>5. /\ timestamps' \in Seq(Nat)
          /\ timestamps' # <<>>
          /\ timestamps'[Len(timestamps')] = new[Len(new)]
          /\ \A i \in DOMAIN timestamps' :
                \E j \in DOMAIN new : timestamps'[i] = new[j]
          /\ Increasing(timestamps')
          /\ Within(timestamps', maxHistory)
          /\ history' = [k \in Tracks |-> timestamps']
      BY <3>2, <3>4, TrimmedDeques
    <3>6. \A i \in DOMAIN timestamps' : timestamps'[i] <= clock
      BY <3>2, <3>5
    <3>7. NewestKept
      <4>1. timestamps # <<>> => timestamps[Len(timestamps)] < clock
        BY <3>1
      <4>. QED  BY <3>2, <3>5, <4>1
    <3>. QED  BY <2>1, <3>5, <3>6, <3>7
  <2>3. CASE ~(prevSampleTime # -1 /\ clock > prevSampleTime)
    <3>1. timestamps' = timestamps /\ history' = history
      BY <1>4, <2>3 DEF ComputeSnapshots, SampleTime
    <3>2. \A i \in DOMAIN timestamps : timestamps[i] <= clock
      OBVIOUS
    <3>. QED  BY <2>1, <3>1, <3>2
  <2>. QED  BY <2>2, <2>3
<1>5. ASSUME NEW seconds \in WindowValues, SetMaxHistorySeconds(seconds)
      PROVE  HistoryInv' /\ NewestKept
  <2>1. /\ maxHistory' = Larger(0, seconds)
        /\ maxHistory' \in Nat
        /\ clock' = clock
        /\ prevSampleTime' = prevSampleTime
    BY <1>5, ProcessModelAssumption
       DEF SetMaxHistorySeconds, Larger, world, model
  <2>2. CASE timestamps = <<>>
    BY <1>5, <2>1, <2>2 DEF SetMaxHistorySeconds, Within
  <2>3. CASE timestamps # <<>>
    <3>1. Trimmed(timestamps, [k \in Tracks |-> timestamps], maxHistory')
      BY <1>5, <2>3 DEF SetMaxHistorySeconds
    <3>2. /\ timestamps' \in Seq(Nat)
          /\ timestamps' # <<>>
          /\ timestamps'[Len(timestamps')] = timestamps[Len(timestamps)]
          /\ \A i \in DOMAIN timestamps' :
                \E j \in DOMAIN timestamps : timestamps'[i] = timestamps[j]
          /\ Increasing(timestamps')
          /\ Within(timestamps', maxHistory')
          /\ history' = [k \in Tracks |-> timestamps']
      <4>1. PICK window \in Nat : window = maxHistory'
        BY <2>1
      <4>2. Trimmed(timestamps, [k \in Tracks |-> timestamps], window)
        BY <3>1, <4>1
      <4>. QED  BY <2>3, <4>1, <4>2, TrimmedDeques
    <3>3. \A i \in DOMAIN timestamps' : timestamps'[i] <= prevSampleTime
      BY <3>2
    <3>. QED  BY <2>1, <3>2, <3>3
  <2>. QED  BY <2>2, <2>3
<1>6. CASE Done \/ UNCHANGED vars
  BY <1>6 DEF Done, vars, world, model, deques
<1>. QED  BY <1>1, <1>2, <1>3, <1>4, <1>5, <1>6 DEF Next

LEMMA HistoryInvariant == Spec => []HistoryInv
<1>1. Init => HistoryInv
  BY ProcessModelAssumption DEF Init, HistoryInv, Increasing, Within
<1>2. HistoryInv /\ [Next]_vars => HistoryInv'
  BY HistoryStep
<1>. QED  BY <1>1, <1>2, PTL DEF Spec

\* Every aggregate has exactly the timestamps' entries in every reachable state,
\* however refreshes and window changes interleave.
THEOREM AlwaysAligned == Spec => []HistoryAligned
<1>1. HistoryInv => HistoryAligned
  BY DEF HistoryInv, HistoryAligned
<1>. QED  BY <1>1, HistoryInvariant, PTL

\* Timestamps strictly increase and none is ever outside the window, which
\* trimHistory's early stop both relies on and provides.
THEOREM AlwaysInWindow == Spec => []WindowRespected
<1>1. HistoryInv => WindowRespected
  BY DEF HistoryInv, WindowRespected, Increasing, Within
<1>. QED  BY <1>1, HistoryInvariant, PTL

\* No refresh and no window, zero and negative ones included, empties a history.
THEOREM NewestNeverLost == Spec => HistoryKeepsNewest
<1>1. HistoryInv /\ [Next]_vars => [NewestKept]_vars
  BY HistoryStep
<1>. QED  BY <1>1, HistoryInvariant, PTL
          DEF Spec, HistoryKeepsNewest, NewestKept

------------------------------------------------------------------------------
(* The maps.                                                               *)

\* Storing the refresh's entries and pruning the rest leaves exactly those.
LEMMA StoredPruned ==
    ASSUME NEW map, NEW new
    PROVE  LET result == Pruned(Stored(map, new), DOMAIN new)
           IN  /\ DOMAIN result = DOMAIN new
               /\ \A k \in DOMAIN new : result[k] = new[k]
  BY DEF Pruned, Stored

\* What a refresh leaves in the maps.
LEMMA ComputeMaps ==
    ASSUME NEW t \in Threads, ComputeSnapshots(t)
    PROVE  /\ DOMAIN snapshots' = DOMAIN sample[t].counters
           /\ DOMAIN prevCounters' = DOMAIN sample[t].counters
           /\ DOMAIN peakRss' = DOMAIN sample[t].counters
           /\ DOMAIN baselines' = DOMAIN sample[t].counters
           /\ \A k \in DOMAIN sample[t].counters :
                 prevCounters'[k] = sample[t].counters[k]
<1> DEFINE counters == sample[t].counters
           newPeak  == [k \in DOMAIN counters |-> Peak(k, counters[k])]
<1>1. /\ prevCounters' = Pruned(Stored(prevCounters, counters), DOMAIN counters)
      /\ peakRss' = Pruned(Stored(peakRss, newPeak), DOMAIN counters)
      /\ DOMAIN snapshots' = DOMAIN counters
      /\ DOMAIN baselines' = DOMAIN counters
  BY DEF ComputeSnapshots
<1>2. DOMAIN newPeak = DOMAIN counters
  OBVIOUS
<1> HIDE DEF counters, newPeak
<1>3. DOMAIN peakRss' = DOMAIN counters
  BY <1>1, <1>2, StoredPruned
<1>4. /\ DOMAIN prevCounters' = DOMAIN counters
      /\ \A k \in DOMAIN counters : prevCounters'[k] = counters[k]
  BY <1>1, StoredPruned
<1>. QED  BY <1>1, <1>3, <1>4 DEF counters

\* No map ever holds a process that the last refresh did not see.
THEOREM NothingLeftBehind == Spec => []MapsPruned
<1>1. Init => MapsPruned
  BY DEF Init, MapsPruned
<1>2. MapsPruned /\ [Next]_vars => MapsPruned'
  <2> SUFFICES ASSUME MapsPruned, [Next]_vars PROVE MapsPruned'
    OBVIOUS
  <2>1. ASSUME NEW t \in Threads, ComputeSnapshots(t) PROVE MapsPruned'
    BY <2>1, ComputeMaps DEF MapsPruned
  <2>2. ASSUME UNCHANGED model PROVE MapsPruned'
    BY <2>2 DEF MapsPruned, model
  <2>3. (\E t \in Threads : ComputeSnapshots(t)) \/ UNCHANGED model
    BY DEF Next, Tick, Exit, Reuse, Enumerate, ReadTotal, SetMaxHistorySeconds,
           Done, vars
  <2>. QED  BY <2>1, <2>2, <2>3
<1>. QED  BY <1>1, <1>2, PTL DEF Spec

------------------------------------------------------------------------------
(* CPU shares.                                                             *)

\* The counters of one process read at two times: in between it used no more
\* CPU time than passed.
Agree(earlier, from, later, to) ==
    \A k \in DOMAIN earlier \cap DOMAIN later :
        from <= to => /\ earlier[k].cpu <= later[k].cpu
                      /\ later[k].cpu <= earlier[k].cpu + (to - from)

\* Counters read at time at are of processes that were there: of the one that
\* has the pid now, or of one that had it earlier.
Past(counters, at) ==
    \A k \in DOMAIN counters :
        /\ k \in Keys
        /\ counters[k].cpu \in Nat
        /\ k[2] <= procs[k[1]].start
        /\ procs[k[1]].alive /\ k[2] = procs[k[1]].start =>
             /\ counters[k].cpu <= procs[k[1]].cpu
             /\ procs[k[1]].cpu <= counters[k].cpu + (clock - at)

\* When the previous counters were read: the refresh before read the total that
\* many ticks later.
PrevAt == prevTotal - skew.last

ProcessesInv ==
    /\ clock \in 0 .. MaxClock
    /\ procs \in [Pids -> Process]

SamplesInv ==
    /\ DOMAIN sample = Threads
    /\ DOMAIN pc = Threads
    /\ \A t \in Threads :
         /\ sample[t] = [counters |-> sample[t].counters, at |-> sample[t].at,
                         total |-> sample[t].total]
         /\ sample[t].at \in 0 .. clock
         /\ sample[t].total \in 0 .. clock
         /\ pc[t] = "sampled" => sample[t].at <= sample[t].total
         /\ Past(sample[t].counters, sample[t].at)

PreviousInv ==
    /\ prevTotal \in 0 .. clock
    /\ skew = [last |-> skew.last, before |-> skew.before]
    /\ skew.last \in 0 .. prevTotal
    /\ skew.before \in Nat
    /\ Past(prevCounters, PrevAt)

\* Any two readings a refresh can be computed from agree, taken in any order.
ReadingsAgree ==
    \A t \in Threads :
        /\ Agree(sample[t].counters, sample[t].at, prevCounters, PrevAt)
        /\ Agree(prevCounters, PrevAt, sample[t].counters, sample[t].at)
        /\ \A u \in Threads : Agree(sample[t].counters, sample[t].at,
                                    sample[u].counters, sample[u].at)

CpuInv == ProcessesInv /\ SamplesInv /\ PreviousInv /\ ReadingsAgree

LEMMA ProcessesStep ==
    ASSUME ProcessesInv, [Next]_vars
    PROVE  ProcessesInv' /\ clock <= clock'
<1> USE ProcessModelAssumption DEF ProcessesInv
<1>1. CASE Tick
  <2>1. clock' \in 0 .. MaxClock /\ clock <= clock'
    <3>1. clock < MaxClock /\ clock' = clock + 1
      BY <1>1 DEF Tick
    <3>2. clock \in Nat /\ MaxClock \in Nat
      OBVIOUS
    <3>. QED  BY <3>1, <3>2
  <2>2. ASSUME NEW p \in Pids, NEW r \in RssValues, NEW n \in NetValues,
               procs' = [procs EXCEPT ![p] = Ran(procs[p], r, n)]
        PROVE  procs' \in [Pids -> Process]
    <3>1. procs[p] \in Process /\ r \in Nat /\ n \in Nat
      OBVIOUS
    <3>2. Ran(procs[p], r, n) \in Process
      BY <3>1 DEF Process, Ran, Larger
    <3>. QED  BY <2>2, <3>2
  <2>3. procs' \in [Pids -> Process]
    BY <1>1, <2>2 DEF Tick
  <2>. QED  BY <2>1, <2>3
<1>2. ASSUME NEW p \in Pids, Exit(p) PROVE ProcessesInv' /\ clock <= clock'
  BY <1>2 DEF Exit, Gone, Process
<1>3. ASSUME NEW p \in Pids, Reuse(p) PROVE ProcessesInv' /\ clock <= clock'
  BY <1>3 DEF Reuse, NewProcess, Process
<1>4. CASE UNCHANGED world
  BY <1>4 DEF world
<1>. QED  BY <1>1, <1>2, <1>3, <1>4
          DEF Next, Enumerate, ReadTotal, ComputeSnapshots,
              SetMaxHistorySeconds, Done, vars, world

\* Whatever happens to the processes, counters read before it stay in the past.
LEMMA PastKept ==
    ASSUME ProcessesInv, [Next]_vars,
           NEW counters, NEW at \in 0 .. clock, Past(counters, at)
    PROVE  Past(counters, at)'
<1> SUFFICES ASSUME NEW k \in DOMAIN counters
             PROVE  /\ k[2] <= procs'[k[1]].start
                    /\ procs'[k[1]].alive /\ k[2] = procs'[k[1]].start =>
                         /\ counters[k].cpu <= procs'[k[1]].cpu
                         /\ procs'[k[1]].cpu <= counters[k].cpu + (clock' - at)
  BY DEF Past
<1> PICK q : q = k[1]
  OBVIOUS
<1>1. /\ q \in Pids
      /\ k[2] \in Nat
      /\ counters[k].cpu \in Nat
      /\ k[2] <= procs[q].start
      /\ procs[q].alive /\ k[2] = procs[q].start =>
           /\ counters[k].cpu <= procs[q].cpu
           /\ procs[q].cpu <= counters[k].cpu + (clock - at)
  BY DEF Past, Keys
<1>2. /\ procs[q].start \in Nat /\ procs[q].cpu \in Nat
      /\ clock \in Nat /\ at \in Nat /\ DOMAIN procs = Pids
  BY <1>1, ProcessModelAssumption DEF ProcessesInv, Process
<1>3. CASE Tick
  <2>1. clock' = clock + 1
    BY <1>3 DEF Tick
  <2>2. CASE UNCHANGED procs
    BY <1>1, <1>2, <2>1, <2>2
  <2>3. ASSUME NEW p \in Pids, NEW r \in RssValues, NEW n \in NetValues,
               procs[p].alive,
               procs' = [procs EXCEPT ![p] = Ran(procs[p], r, n)]
        PROVE  /\ procs'[q].start = procs[q].start
               /\ procs'[q].alive = procs[q].alive
               /\ procs'[q].cpu \in {procs[q].cpu, procs[q].cpu + 1}
    <3>1. procs[q].alive \in BOOLEAN /\ procs[p].alive \in BOOLEAN
      BY <1>1 DEF ProcessesInv, Process
    <3>. QED  BY <1>1, <1>2, <2>3, <3>1 DEF Ran
  <2>4. UNCHANGED procs \/ /\ procs'[q].start = procs[q].start
                           /\ procs'[q].alive = procs[q].alive
                           /\ procs'[q].cpu \in {procs[q].cpu, procs[q].cpu + 1}
    BY <1>3, <2>3 DEF Tick
  <2>. QED  BY <1>1, <1>2, <2>1, <2>2, <2>4
<1>4. ASSUME NEW p \in Pids, Exit(p)
      PROVE  /\ clock' = clock
             /\ \/ procs'[q] = procs[q]
                \/ ~procs'[q].alive /\ procs'[q].start = procs[q].start
  BY <1>1, <1>2, <1>4 DEF Exit, Gone
<1>5. ASSUME NEW p \in Pids, Reuse(p)
      PROVE  /\ clock' = clock
             /\ procs'[q].start \in Nat
             /\ \/ procs'[q] = procs[q]
                \/ procs'[q].start > procs[q].start
  BY <1>1, <1>2, <1>5 DEF Reuse, NewProcess
<1>6. CASE \E p \in Pids : Exit(p)
  BY <1>1, <1>2, <1>4, <1>6
<1>7. CASE \E p \in Pids : Reuse(p)
  BY <1>1, <1>2, <1>5, <1>7
<1>8. CASE UNCHANGED world
  BY <1>1, <1>2, <1>8 DEF world
<1>. QED  BY <1>3, <1>6, <1>7, <1>8
          DEF Next, Enumerate, ReadTotal, ComputeSnapshots,
              SetMaxHistorySeconds, Done, vars, world

\* A reading of the processes as they are agrees with every older reading.
LEMMA PresentAgrees ==
    ASSUME ProcessesInv, NEW old, NEW at \in 0 .. clock, Past(old, at),
           NEW counters,
           \A k \in DOMAIN counters : /\ k \in Keys
                                      /\ procs[k[1]].alive
                                      /\ k[2] = procs[k[1]].start
                                      /\ counters[k] = procs[k[1]]
    PROVE  /\ Agree(old, at, counters, clock)
           /\ Agree(counters, clock, old, at)
<1> SUFFICES ASSUME NEW k \in DOMAIN old \cap DOMAIN counters
             PROVE  /\ old[k].cpu <= counters[k].cpu
                    /\ counters[k].cpu <= old[k].cpu + (clock - at)
                    /\ clock <= at => /\ counters[k].cpu <= old[k].cpu
                                      /\ old[k].cpu <= counters[k].cpu + (at - clock)
  BY DEF Agree
<1>1. /\ old[k].cpu \in Nat
      /\ old[k].cpu <= procs[k[1]].cpu
      /\ procs[k[1]].cpu <= old[k].cpu + (clock - at)
      /\ counters[k] = procs[k[1]]
      /\ k[1] \in Pids
  BY DEF Past, Keys
<1>2. clock \in Nat /\ at \in Nat /\ at <= clock /\ procs[k[1]].cpu \in Nat
  BY <1>1, ProcessModelAssumption DEF ProcessesInv, Process
<1>. QED  BY <1>1, <1>2

\* enumerate() reads the processes as they are.
LEMMA EnumerateReads ==
    ASSUME CpuInv, NEW t \in Threads, Enumerate(t)
    PROVE  /\ sample'[t] = [counters |-> sample'[t].counters, at |-> clock,
                            total |-> 0]
           /\ \A u \in Threads \ {t} : sample'[u] = sample[u] /\ pc'[u] = pc[u]
           /\ pc'[t] = "enumerated"
           /\ DOMAIN sample' = Threads /\ DOMAIN pc' = Threads
           /\ \A k \in DOMAIN sample'[t].counters :
                 /\ k \in Keys
                 /\ procs[k[1]].alive
                 /\ k[2] = procs[k[1]].start
                 /\ sample'[t].counters[k] = procs[k[1]]
<1>1. PICK seen \in SUBSET {p \in Pids : procs[p].alive} :
        sample' = [sample EXCEPT ![t] =
            [counters |-> [k \in {<<p, procs[p].start>> : p \in seen} |->
                              procs[k[1]]],
             at |-> clock, total |-> 0]]
  BY DEF Enumerate
<1>2. \A p \in seen : <<p, procs[p].start>> \in Keys
  BY DEF Keys, CpuInv, ProcessesInv, Process
<1>. QED  BY <1>1, <1>2 DEF Enumerate, CpuInv, SamplesInv

LEMMA EnumerateStep ==
    ASSUME CpuInv, NEW t \in Threads, Enumerate(t)
    PROVE  SamplesInv' /\ PreviousInv' /\ ReadingsAgree'
<1> DEFINE read == sample'[t].counters
<1>1. UNCHANGED <<clock, procs, prevCounters, prevTotal, skew>>
  BY DEF Enumerate, world, model
<1>2. PrevAt' = PrevAt /\ PrevAt \in 0 .. clock /\ clock \in Nat
  BY <1>1, ProcessModelAssumption DEF PrevAt, CpuInv, PreviousInv, ProcessesInv
<1>3. \A old, at : Past(old, at)' <=> Past(old, at)
  BY <1>1 DEF Past
<1>4. PreviousInv'
  BY <1>1, <1>2, <1>3 DEF CpuInv, PreviousInv
<1>5. /\ sample'[t].at = clock
      /\ sample'[t].total = 0
      /\ sample'[t] = [counters |-> read, at |-> sample'[t].at,
                       total |-> sample'[t].total]
  <2>1. PICK r : r = read
    OBVIOUS
  <2>2. sample'[t] = [counters |-> r, at |-> clock, total |-> 0]
    BY <2>1, EnumerateReads
  <2>. QED  BY <2>1, <2>2
<1>6. Past(read, clock)
  <2> SUFFICES ASSUME NEW k \in DOMAIN read
               PROVE  /\ k \in Keys
                      /\ read[k].cpu \in Nat
                      /\ k[2] <= procs[k[1]].start
                      /\ read[k].cpu <= procs[k[1]].cpu
                      /\ procs[k[1]].cpu <= read[k].cpu + (clock - clock)
    BY DEF Past
  <2>1. k \in Keys /\ k[2] = procs[k[1]].start /\ read[k] = procs[k[1]]
    BY EnumerateReads
  <2>2. procs[k[1]].cpu \in Nat /\ procs[k[1]].start \in Nat
    BY <2>1 DEF Keys, CpuInv, ProcessesInv, Process
  <2>. QED  BY <1>2, <2>1, <2>2
<1>7. SamplesInv'
  BY <1>1, <1>2, <1>3, <1>5, <1>6, EnumerateReads DEF CpuInv, SamplesInv
<1>8. ASSUME NEW old, NEW at \in 0 .. clock, Past(old, at)
      PROVE  Agree(old, at, read, clock) /\ Agree(read, clock, old, at)
  BY <1>8, PresentAgrees, EnumerateReads DEF CpuInv
<1>9. /\ Agree(read, clock, prevCounters, PrevAt)
      /\ Agree(prevCounters, PrevAt, read, clock)
      /\ Agree(read, clock, read, clock)
  BY <1>2, <1>6, <1>8 DEF CpuInv, PreviousInv
<1>10. ASSUME NEW u \in Threads \ {t}
       PROVE  /\ sample'[u] = sample[u]
              /\ Agree(read, clock, sample[u].counters, sample[u].at)
              /\ Agree(sample[u].counters, sample[u].at, read, clock)
  BY <1>8, EnumerateReads DEF CpuInv, SamplesInv
<1> HIDE DEF read
<1>11. ReadingsAgree'
  BY <1>1, <1>2, <1>5, <1>9, <1>10 DEF CpuInv, ReadingsAgree, read
<1>. QED  BY <1>4, <1>7, <1>11

LEMMA ReadTotalStep ==
    ASSUME CpuInv, NEW t \in Threads, ReadTotal(t)
    PROVE  SamplesInv' /\ PreviousInv' /\ ReadingsAgree'
<1>1. UNCHANGED <<clock, procs, prevCounters, prevTotal, skew>>
  BY DEF ReadTotal, world, model
<1>2. PrevAt' = PrevAt
  BY <1>1 DEF PrevAt
<1>3. \A old, at : Past(old, at)' <=> Past(old, at)
  BY <1>1 DEF Past
<1>4. PreviousInv'
  BY <1>1, <1>2, <1>3 DEF CpuInv, PreviousInv
<1>5. /\ sample'[t] = [counters |-> sample[t].counters, at |-> sample[t].at,
                       total |-> clock]
      /\ \A u \in Threads \ {t} : sample'[u] = sample[u] /\ pc'[u] = pc[u]
      /\ DOMAIN sample' = Threads /\ DOMAIN pc' = Threads
  <2>1. sample[t] = [counters |-> sample[t].counters, at |-> sample[t].at,
                     total |-> sample[t].total]
    BY DEF CpuInv, SamplesInv
  <2>2. PICK c, a : c = sample[t].counters /\ a = sample[t].at
    OBVIOUS
  <2>3. sample[t] = [counters |-> c, at |-> a, total |-> sample[t].total]
    BY <2>1, <2>2
  <2>4. sample' = [sample EXCEPT ![t] = [sample[t] EXCEPT !.total = clock]]
    BY DEF ReadTotal
  <2>5. sample'[t] = [counters |-> c, at |-> a, total |-> clock]
    BY <2>3, <2>4 DEF CpuInv, SamplesInv
  <2>. QED  BY <2>2, <2>4, <2>5 DEF ReadTotal, CpuInv, SamplesInv
<1>6. \A u \in Threads : /\ sample'[u].counters = sample[u].counters
                         /\ sample'[u].at = sample[u].at
  BY <1>5
<1>7. sample'[t].total = clock /\ clock \in 0 .. clock
  BY <1>5, ProcessModelAssumption DEF CpuInv, ProcessesInv
<1>8. SamplesInv'
  <2> SUFFICES ASSUME NEW u \in Threads
               PROVE  /\ sample'[u] = [counters |-> sample'[u].counters,
                                       at |-> sample'[u].at,
                                       total |-> sample'[u].total]
                      /\ sample'[u].at \in 0 .. clock
                      /\ sample'[u].total \in 0 .. clock
                      /\ pc'[u] = "sampled" => sample'[u].at <= sample'[u].total
                      /\ Past(sample'[u].counters, sample'[u].at)
    BY <1>1, <1>3, <1>5 DEF SamplesInv
  <2>1. /\ sample[u].at \in 0 .. clock
        /\ Past(sample[u].counters, sample[u].at)
    BY DEF CpuInv, SamplesInv
  <2>2. CASE u = t
    BY <1>5, <1>6, <1>7, <2>1, <2>2
  <2>3. CASE u # t
    BY <1>5, <2>1, <2>3 DEF CpuInv, SamplesInv
  <2>. QED  BY <2>2, <2>3
<1>9. ReadingsAgree'
  BY <1>1, <1>2, <1>6 DEF CpuInv, ReadingsAgree
<1>. QED  BY <1>4, <1>8, <1>9

\* Nothing but the clock and the processes changes: readings age together.
LEMMA WorldStep ==
    ASSUME CpuInv, [Next]_vars, UNCHANGED <<threads, model, skew>>
    PROVE  SamplesInv' /\ PreviousInv' /\ ReadingsAgree'
<1>1. UNCHANGED <<sample, pc, prevCounters, prevTotal, skew>>
  BY DEF threads, model
<1>2. PrevAt' = PrevAt /\ PrevAt \in 0 .. clock
  BY <1>1, ProcessModelAssumption DEF PrevAt, CpuInv, PreviousInv, ProcessesInv
<1>3. /\ clock \in Nat /\ clock' \in Nat /\ clock <= clock'
      /\ prevTotal \in 0 .. clock
  BY ProcessesStep, ProcessModelAssumption DEF CpuInv, ProcessesInv, PreviousInv
<1>4. \A n \in 0 .. clock : n \in 0 .. clock'
  BY <1>3
<1>5. ASSUME NEW old, NEW at \in 0 .. clock, Past(old, at) PROVE Past(old, at)'
  BY <1>5, PastKept DEF CpuInv
<1>6. PreviousInv'
  BY <1>1, <1>2, <1>3, <1>4, <1>5 DEF CpuInv, PreviousInv
<1>7. SamplesInv'
  BY <1>1, <1>4, <1>5 DEF CpuInv, SamplesInv
<1>8. ReadingsAgree'
  BY <1>1, <1>2 DEF CpuInv, ReadingsAgree
<1>. QED  BY <1>6, <1>7, <1>8

\* What a refresh leaves behind besides the maps.
LEMMA ComputeRest ==
    ASSUME CpuInv, NEW t \in Threads, ComputeSnapshots(t)
    PROVE  /\ UNCHANGED <<clock, procs>>
           /\ prevTotal' = sample[t].total
           /\ skew' = [last |-> sample[t].total - sample[t].at,
                       before |-> skew.last]
           /\ sample'[t] = NoSample
           /\ pc'[t] = "idle"
           /\ \A u \in Threads \ {t} : sample'[u] = sample[u] /\ pc'[u] = pc[u]
           /\ DOMAIN sample' = Threads /\ DOMAIN pc' = Threads
           /\ sample[t].at \in Nat /\ sample[t].total \in Nat
           /\ sample[t].total <= clock
           /\ sample[t].at <= sample[t].total
           /\ clock \in Nat
           /\ PrevAt' = sample[t].at
<1>1. /\ UNCHANGED <<clock, procs>>
      /\ prevTotal' = sample[t].total
      /\ skew' = [last |-> sample[t].total - sample[t].at, before |-> skew.last]
      /\ sample' = [sample EXCEPT ![t] = NoSample]
      /\ pc' = [pc EXCEPT ![t] = "idle"]
      /\ pc[t] = "sampled"
  BY DEF ComputeSnapshots, world
<1>2. clock \in Nat
  BY ProcessModelAssumption DEF CpuInv, ProcessesInv
<1>3. /\ sample[t].at \in 0 .. clock /\ sample[t].total \in 0 .. clock
      /\ sample[t].at <= sample[t].total
      /\ DOMAIN sample = Threads /\ DOMAIN pc = Threads
  BY <1>1 DEF CpuInv, SamplesInv
<1>4. skew'.last = sample[t].total - sample[t].at
  BY <1>1
<1>5. PrevAt' = sample[t].at
  BY <1>1, <1>2, <1>3, <1>4 DEF PrevAt
<1>. QED  BY <1>1, <1>2, <1>3, <1>5

LEMMA ComputeStep ==
    ASSUME CpuInv, NEW t \in Threads, ComputeSnapshots(t)
    PROVE  SamplesInv' /\ PreviousInv' /\ ReadingsAgree'
<1> DEFINE counters == sample[t].counters
           at == sample[t].at
<1>1. /\ DOMAIN prevCounters' = DOMAIN counters
      /\ \A k \in DOMAIN counters : prevCounters'[k] = counters[k]
  BY ComputeMaps
<1>2. /\ UNCHANGED <<clock, procs>>
      /\ PrevAt' = at
      /\ clock \in Nat
  BY ComputeRest
<1>3. Past(counters, at)
  BY DEF CpuInv, SamplesInv
<1>4. PreviousInv'
  <2>1. Past(prevCounters, PrevAt)'
    BY <1>1, <1>2, <1>3 DEF Past
  <2>2. prevTotal' \in 0 .. clock' /\ skew'.last \in 0 .. prevTotal'
    BY <1>2, ComputeRest
  <2>3. skew' = [last |-> skew'.last, before |-> skew'.before]
        /\ skew'.before = skew.last
    BY ComputeRest
  <2>4. skew.last \in Nat
    BY <1>2 DEF CpuInv, PreviousInv
  <2>. QED  BY <2>1, <2>2, <2>3, <2>4 DEF PreviousInv
<1>5. DOMAIN NoSample.counters = {} /\ NoSample.at = 0 /\ NoSample.total = 0
      /\ NoSample = [counters |-> NoSample.counters, at |-> NoSample.at,
                     total |-> NoSample.total]
  BY DEF NoSample
<1>6. SamplesInv'
  <2> SUFFICES ASSUME NEW u \in Threads
               PROVE  /\ sample'[u] = [counters |-> sample'[u].counters,
                                       at |-> sample'[u].at,
                                       total |-> sample'[u].total]
                      /\ sample'[u].at \in 0 .. clock
                      /\ sample'[u].total \in 0 .. clock
                      /\ pc'[u] = "sampled" => sample'[u].at <= sample'[u].total
                      /\ Past(sample[u].counters, sample[u].at)'
    BY <1>2, ComputeRest DEF SamplesInv
  <2>1. CASE u = t
    <3>1. sample'[u] = NoSample /\ pc'[u] = "idle"
      BY <2>1, ComputeRest
    <3>2. Past(sample[u].counters, sample[u].at)'
      BY <3>1, <1>5 DEF Past
    <3>. QED  BY <3>1, <3>2, <1>2, <1>5
  <2>2. CASE u # t
    <3>1. sample'[u] = sample[u] /\ pc'[u] = pc[u]
      BY <2>2, ComputeRest
    <3>2. Past(sample[u].counters, sample[u].at)
      BY DEF CpuInv, SamplesInv
    <3>3. Past(sample[u].counters, sample[u].at)'
      BY <3>1, <3>2, <1>2 DEF Past
    <3>. QED  BY <3>1, <3>3 DEF CpuInv, SamplesInv
  <2>. QED  BY <2>1, <2>2
<1>7. \A c, from, to : /\ Agree(NoSample.counters, from, c, to)
                       /\ Agree(c, from, NoSample.counters, to)
  BY <1>5 DEF Agree
<1>8. \A c, from, to : /\ Agree(c, from, counters, to)
                            => Agree(c, from, prevCounters', to)
                       /\ Agree(counters, from, c, to)
                            => Agree(prevCounters', from, c, to)
  BY <1>1 DEF Agree
<1>9. ReadingsAgree'
  <2> SUFFICES ASSUME NEW u \in Threads
               PROVE  /\ Agree(sample'[u].counters, sample'[u].at, prevCounters', at)
                      /\ Agree(prevCounters', at, sample'[u].counters, sample'[u].at)
                      /\ \A v \in Threads :
                           Agree(sample'[u].counters, sample'[u].at,
                                 sample'[v].counters, sample'[v].at)
    BY <1>2 DEF ReadingsAgree, Agree
  <2>1. \A v \in Threads : sample'[v] = NoSample \/ sample'[v] = sample[v]
    BY ComputeRest
  <2>2. \A v \in Threads : Agree(sample[u].counters, sample[u].at,
                                 sample[v].counters, sample[v].at)
    BY DEF CpuInv, ReadingsAgree
  <2>3. /\ Agree(sample[u].counters, sample[u].at, counters, at)
        /\ Agree(counters, at, sample[u].counters, sample[u].at)
    BY DEF CpuInv, ReadingsAgree
  <2> HIDE DEF counters, at
  <2>. QED  BY <1>7, <1>8, <2>1, <2>2, <2>3
<1>. QED  BY <1>4, <1>6, <1>9

LEMMA CpuInvariant == Spec => []CpuInv
<1>1. Init => CpuInv
  <2> SUFFICES ASSUME Init PROVE CpuInv
    OBVIOUS
  <2> USE ProcessModelAssumption
  <2>1. ProcessesInv
    BY DEF Init, ProcessesInv, Process, NewProcess
  <2>2. \A t \in Threads : sample[t] = NoSample
    BY DEF Init
  <2>3. /\ NoSample = [counters |-> NoSample.counters, at |-> NoSample.at,
                       total |-> NoSample.total]
        /\ NoSample.at = 0 /\ NoSample.total = 0
        /\ DOMAIN NoSample.counters = {}
    BY DEF NoSample
  <2>4. clock = 0 /\ DOMAIN prevCounters = {}
    BY DEF Init
  <2>5. SamplesInv
    BY <2>2, <2>3, <2>4 DEF Init, SamplesInv, Past
  <2>6. PreviousInv
    BY <2>4 DEF Init, PreviousInv, Past
  <2>7. ReadingsAgree
    BY <2>2, <2>3, <2>4 DEF ReadingsAgree, Agree
  <2>. QED  BY <2>1, <2>5, <2>6, <2>7 DEF CpuInv
<1>2. CpuInv /\ [Next]_vars => CpuInv'
  <2> SUFFICES ASSUME CpuInv, [Next]_vars PROVE CpuInv'
    OBVIOUS
  <2>1. ASSUME NEW t \in Threads,
               Enumerate(t) \/ ReadTotal(t) \/ ComputeSnapshots(t)
        PROVE  SamplesInv' /\ PreviousInv' /\ ReadingsAgree'
    BY <2>1, EnumerateStep, ReadTotalStep, ComputeStep
  <2>2. (UNCHANGED <<threads, model, skew>>)
          \/ \E t \in Threads : Enumerate(t) \/ ReadTotal(t) \/ ComputeSnapshots(t)
    BY DEF Next, Tick, Exit, Reuse, SetMaxHistorySeconds, Done, vars
  <2>3. ProcessesInv'
    BY ProcessesStep DEF CpuInv
  <2>. QED  BY <2>1, <2>2, <2>3, WorldStep DEF CpuInv
<1>. QED  BY <1>1, <1>2, PTL DEF Spec

\* A guarded difference is never more than the true one, and never negative.
LEMMA DifferenceBound ==
    ASSUME NEW a \in Nat, NEW b \in Nat
    PROVE  /\ Difference(a, b) \in Nat
           /\ a >= b => Difference(a, b) <= a - b
           /\ a <= b => Difference(a, b) = 0
<1>1. Word \in Nat /\ Word >= 1
  BY ProcessModelAssumption
<1>2. ASSUME NEW n \in Nat PROVE n % Word \in Nat /\ n % Word <= n
  <2>1. n % Word \in 0 .. Word - 1
    BY <1>1
  <2>2. n < Word => n % Word = n
    BY <1>1
  <2>. QED  BY <1>1, <2>1, <2>2
<1>3. a >= b => a - b \in Nat
  OBVIOUS
<1>4. a <= b /\ a >= b => a - b = 0
  OBVIOUS
<1>. QED  BY <1>2, <1>3, <1>4 DEF Difference, Minus

\* A process never shows more CPU than passed between the two refreshes the
\* share is made of, but for the ticks between the two reads of the first one:
\* for any threads, interleaving, exits and pid reuse, as long as the counters
\* do not wrap around.
THEOREM CpuShareCorrect ==
    ASSUME MaxClock < Word
    PROVE  Spec => []CpuShareBounded
<1>1. Init => CpuShareBounded
  BY DEF Init, CpuShareBounded
<1>2. CpuInv /\ CpuShareBounded /\ [Next]_vars => CpuShareBounded'
  <2> SUFFICES ASSUME CpuInv, CpuShareBounded, [Next]_vars
               PROVE  CpuShareBounded'
    OBVIOUS
  <2>1. ASSUME UNCHANGED <<snapshots, skew>> PROVE CpuShareBounded'
    BY <2>1 DEF CpuShareBounded
  <2>2. ASSUME NEW t \in Threads, ComputeSnapshots(t) PROVE CpuShareBounded'
    <3> DEFINE counters == sample[t].counters
               at == sample[t].at
               total == sample[t].total
               last == skew.last
    <3>1. /\ at \in Nat /\ total \in Nat /\ at <= total /\ total <= MaxClock
          /\ skew'.before = last
      BY <2>2, ComputeRest, ProcessModelAssumption DEF CpuInv, ProcessesInv
    <3>2. /\ prevTotal \in Nat /\ last \in Nat /\ last <= prevTotal
          /\ PrevAt = prevTotal - last
      BY ProcessModelAssumption DEF CpuInv, PreviousInv, ProcessesInv, PrevAt
    <3>3. TotalDelta(total) > 0
            => TotalDelta(total) = total - prevTotal /\ total > prevTotal
      <4>1. Word \in Nat /\ MaxClock \in Nat
        BY ProcessModelAssumption
      <4>2. total > prevTotal => total - prevTotal \in Nat
                                 /\ total - prevTotal < Word
        BY <3>1, <3>2, <4>1
      <4>3. total > prevTotal => (total - prevTotal) % Word = total - prevTotal
        BY <4>1, <4>2
      <4>. QED  BY <3>1, <3>2, <4>3 DEF TotalDelta, Minus
    <3>4. /\ DOMAIN snapshots' = DOMAIN counters
          /\ \A k \in DOMAIN counters :
               snapshots'[k].share = CpuShare(k, counters[k], TotalDelta(total))
      BY <2>2 DEF ComputeSnapshots
    <3>5. /\ Agree(prevCounters, PrevAt, counters, at)
          /\ Agree(counters, at, prevCounters, PrevAt)
          /\ Past(prevCounters, PrevAt)
          /\ Past(counters, at)
      BY DEF CpuInv, ReadingsAgree, PreviousInv, SamplesInv
    <3> HIDE DEF counters, at, total, last
    <3>6. ASSUME NEW k \in DOMAIN counters,
                 k \in DOMAIN prevCounters, TotalDelta(total) > 0
          PROVE  Difference(counters[k].cpu, prevCounters[k].cpu)
                   <= TotalDelta(total) + last
      <4>1. PICK cur \in Nat, prev \in Nat :
               cur = counters[k].cpu /\ prev = prevCounters[k].cpu
        BY <3>5, <3>6 DEF Past
      <4>2. /\ PrevAt <= at => prev <= cur /\ cur <= prev + (at - PrevAt)
            /\ at <= PrevAt => cur <= prev
        BY <3>5, <3>6, <4>1 DEF Agree
      <4>3. TotalDelta(total) + last = (total - prevTotal) + last
            /\ total > prevTotal
        BY <3>3, <3>6
      <4>4. CASE PrevAt <= at
        <5>1. cur - prev <= (total - prevTotal) + last
          BY <3>1, <3>2, <4>1, <4>2, <4>4
        <5>2. prev <= cur
          BY <4>2, <4>4
        <5>3. Difference(cur, prev) \in Nat /\ Difference(cur, prev) <= cur - prev
          BY <5>2, DifferenceBound
        <5>4. Difference(cur, prev) <= (total - prevTotal) + last
          BY <3>1, <3>2, <4>1, <5>1, <5>3
        <5>. QED  BY <4>1, <4>3, <5>4
      <4>5. CASE ~(PrevAt <= at)
        <5>1. cur <= prev
          BY <3>1, <3>2, <4>2, <4>5
        <5>2. Difference(cur, prev) = 0
          BY <5>1, DifferenceBound
        <5>. QED  BY <3>1, <3>2, <4>1, <4>3, <5>2
      <4>. QED  BY <4>4, <4>5
    <3>7. ASSUME NEW k \in DOMAIN counters
          PROVE  snapshots'[k].share.cpu <= snapshots'[k].share.of + skew'.before
      <4>1. CASE k \in DOMAIN prevCounters /\ TotalDelta(total) > 0
        <5>1. snapshots'[k].share =
                [cpu |-> Difference(counters[k].cpu, prevCounters[k].cpu),
                 of |-> TotalDelta(total)]
          BY <3>4, <4>1 DEF CpuShare
        <5>2. /\ snapshots'[k].share.cpu
                   = Difference(counters[k].cpu, prevCounters[k].cpu)
              /\ snapshots'[k].share.of = TotalDelta(total)
          BY <5>1
        <5>. QED  BY <3>1, <3>6, <4>1, <5>2
      <4>2. CASE ~(k \in DOMAIN prevCounters /\ TotalDelta(total) > 0)
        <5>1. snapshots'[k].share = [cpu |-> 0, of |-> 0]
          BY <3>4, <4>2 DEF CpuShare
        <5>2. snapshots'[k].share.cpu = 0 /\ snapshots'[k].share.of = 0
          BY <5>1
        <5>. QED  BY <3>1, <3>2, <5>2
      <4>. QED  BY <4>1, <4>2
    <3>. QED  BY <3>4, <3>7 DEF CpuShareBounded
  <2>3. (UNCHANGED <<snapshots, skew>>) \/ \E t \in Threads : ComputeSnapshots(t)
    BY DEF Next, Tick, Exit, Reuse, Enumerate, ReadTotal, SetMaxHistorySeconds,
           Done, vars, model
  <2>. QED  BY <2>1, <2>2, <2>3
<1>. QED  BY <1>1, <1>2, CpuInvariant, PTL DEF Spec

------------------------------------------------------------------------------
(* Peaks.                                                                  *)

PeakInv ==
    /\ \A t \in Threads : \A k \in DOMAIN sample[t].counters :
         sample[t].counters[k].rss \in Nat
    /\ \A k \in DOMAIN peakRss :
         peakRss[k] \in Nat /\ peakRss[k] >= prevCounters[k].rss

\* What a step does to the peaks.
PeaksGrow ==
    /\ \A k \in DOMAIN peakRss \cap DOMAIN peakRss' : peakRss'[k] >= peakRss[k]
    /\ \A k \in DOMAIN peakRss' : peakRss'[k] >= prevCounters'[k].rss

LEMMA ComputePeaks ==
    ASSUME ~HasPeakRss, PeakInv, NEW t \in Threads, ComputeSnapshots(t)
    PROVE  /\ PeaksGrow
           /\ \A k \in DOMAIN peakRss' : peakRss'[k] \in Nat
<1> DEFINE counters == sample[t].counters
           newPeak  == [k \in DOMAIN counters |-> Peak(k, counters[k])]
<1>1. peakRss' = Pruned(Stored(peakRss, newPeak), DOMAIN counters)
  BY DEF ComputeSnapshots
<1>2. /\ DOMAIN newPeak = DOMAIN counters
      /\ \A k \in DOMAIN counters : newPeak[k] = Peak(k, counters[k])
  OBVIOUS
<1>3. /\ \A k \in DOMAIN counters : counters[k].rss \in Nat
      /\ \A k \in DOMAIN peakRss : peakRss[k] \in Nat
  BY DEF PeakInv
<1>4. /\ DOMAIN peakRss' = DOMAIN counters
      /\ \A k \in DOMAIN counters : prevCounters'[k] = counters[k]
  BY ComputeMaps
<1> HIDE DEF counters, newPeak
<1>5. \A k \in DOMAIN counters : peakRss'[k] = Peak(k, counters[k])
  BY <1>1, <1>2, StoredPruned
<1>6. ASSUME NEW k \in DOMAIN counters
      PROVE  /\ Peak(k, counters[k]) \in Nat
             /\ Peak(k, counters[k]) >= counters[k].rss
             /\ k \in DOMAIN peakRss => Peak(k, counters[k]) >= peakRss[k]
  BY <1>3, <1>6 DEF Peak, Larger
<1>. QED  BY <1>4, <1>5, <1>6 DEF PeaksGrow

\* totalCpuTime() leaves the counters of every refresh alone.
LEMMA ReadTotalKeeps ==
    ASSUME CpuInv, NEW t \in Threads, ReadTotal(t)
    PROVE  \A u \in Threads : sample'[u].counters = sample[u].counters
<1>1. DOMAIN sample = Threads
  BY DEF CpuInv, SamplesInv
<1>2. PICK r : r = sample[t]
  OBVIOUS
<1>3. PICK counters, at, total :
        r = [counters |-> counters, at |-> at, total |-> total]
  BY <1>2 DEF CpuInv, SamplesInv
<1>4. sample' = [sample EXCEPT ![t] = [r EXCEPT !.total = clock]]
  BY <1>2 DEF ReadTotal
<1>5. [r EXCEPT !.total = clock].counters = counters
  BY <1>3
<1>. QED  BY <1>1, <1>2, <1>3, <1>4, <1>5

LEMMA PeakStep ==
    ASSUME ~HasPeakRss, CpuInv, PeakInv, [Next]_vars
    PROVE  PeakInv' /\ PeaksGrow
<1>. USE DEF PeakInv
<1>1. DOMAIN sample = Threads
  BY DEF CpuInv, SamplesInv
<1>2. ASSUME UNCHANGED <<threads, model>> PROVE PeakInv' /\ PeaksGrow
  BY <1>2 DEF threads, model, PeaksGrow
<1>3. ASSUME NEW t \in Threads, Enumerate(t) PROVE PeakInv' /\ PeaksGrow
  <2>1. \A k \in DOMAIN sample'[t].counters : sample'[t].counters[k].rss \in Nat
    <3> SUFFICES ASSUME NEW k \in DOMAIN sample'[t].counters
                 PROVE  sample'[t].counters[k].rss \in Nat
      OBVIOUS
    <3>1. k \in Keys /\ sample'[t].counters[k] = procs[k[1]]
      BY <1>3, EnumerateReads
    <3>2. procs[k[1]].rss \in Nat
      BY <3>1 DEF Keys, CpuInv, ProcessesInv, Process
    <3>. QED  BY <3>1, <3>2
  <2>2. \A u \in Threads \ {t} : sample'[u] = sample[u]
    BY <1>3, EnumerateReads
  <2>3. UNCHANGED <<peakRss, prevCounters>>
    BY <1>3 DEF Enumerate, model
  <2>. QED  BY <2>1, <2>2, <2>3 DEF PeaksGrow
<1>4. ASSUME NEW t \in Threads, ReadTotal(t) PROVE PeakInv' /\ PeaksGrow
  <2>1. \A u \in Threads : sample'[u].counters = sample[u].counters
    BY <1>4, ReadTotalKeeps
  <2>2. UNCHANGED <<peakRss, prevCounters>>
    BY <1>4 DEF ReadTotal, model
  <2>. QED  BY <2>1, <2>2 DEF PeaksGrow
<1>5. ASSUME NEW t \in Threads, ComputeSnapshots(t) PROVE PeakInv' /\ PeaksGrow
  <2>1. sample' = [sample EXCEPT ![t] = NoSample]
    BY <1>5 DEF ComputeSnapshots
  <2>2. \A u \in Threads : \A k \in DOMAIN sample'[u].counters :
          sample'[u].counters[k].rss \in Nat
    BY <1>1, <2>1 DEF NoSample
  <2>. QED  BY <1>5, <2>2, ComputePeaks DEF PeaksGrow
<1>6. CASE \E seconds \in WindowValues : SetMaxHistorySeconds(seconds)
  BY <1>2, <1>6 DEF SetMaxHistorySeconds
<1>7. CASE Tick \/ (\E p \in Pids : Exit(p) \/ Reuse(p)) \/ Done
            \/ UNCHANGED vars
  BY <1>2, <1>7 DEF Tick, Exit, Reuse, Done, vars
<1>. QED  BY <1>3, <1>4, <1>5, <1>6, <1>7 DEF Next

\* Where the system reports no peaks (Linux), a peak never falls while its
\* process stays and covers the RSS shown with it, whichever refreshes of
\* whichever threads are applied in whatever order.
THEOREM PeakNeverFalls ==
    ASSUME ~HasPeakRss PROVE Spec => PeakNeverDecreases
<1>1. Init => PeakInv
  BY DEF Init, PeakInv, NoSample
<1>2. CpuInv /\ PeakInv /\ [Next]_vars => PeakInv' /\ [PeaksGrow]_vars
  BY PeakStep
<1>. QED  BY <1>1, <1>2, CpuInvariant, PTL
          DEF Spec, PeakNeverDecreases, PeaksGrow

------------------------------------------------------------------------------
(* Types, baselines and network bytes.                                     *)

\* What enumerate() returns.
Reading(counters) ==
    /\ DOMAIN counters \subseteq Keys
    /\ \A k \in DOMAIN counters : counters[k] \in Process

\* The maps, that of prevCounters being the last reading applied.
MapsTyped ==
    /\ Reading(prevCounters)
    /\ \A k \in DOMAIN peakRss : peakRss[k] \in Nat
    /\ \A k \in DOMAIN baselines :
         baselines[k].net \in Nat /\ baselines[k].firstSeen \in 0 .. clock

\* The network bytes shown are at most those beyond the baseline, the CPU ticks
\* at most those the process has used.
ShownInv ==
    \A k \in DOMAIN snapshots :
        /\ snapshots[k].share.cpu <= prevCounters[k].cpu
        /\ snapshots[k].net \in Nat
        /\ \/ snapshots[k].net = 0
           \/ snapshots[k].net + baselines[k].net <= prevCounters[k].net

RestInv ==
    /\ pc \in [Threads -> {"idle", "enumerated", "sampled"}]
    /\ prevSampleTime >= -1

TypeInv ==
    /\ \A t \in Threads : Reading(sample[t].counters)
    /\ MapsTyped
    /\ MapsPruned
    /\ ShownInv
    /\ RestInv

\* What one process of a refresh shows, from counters of the right type.
LEMMA ShownFits ==
    ASSUME CpuInv, MapsTyped,
           NEW k, NEW current \in Process, NEW total
    PROVE  /\ CpuShare(k, current, total).cpu <= current.cpu
           /\ Baseline(k, current).net \in Nat
           /\ Baseline(k, current).firstSeen \in 0 .. clock
           /\ NetBytes(current, Baseline(k, current)) \in Nat
           /\ \/ NetBytes(current, Baseline(k, current)) = 0
              \/ NetBytes(current, Baseline(k, current))
                     + Baseline(k, current).net <= current.net
<1>1. current.cpu \in Nat /\ current.net \in Nat /\ clock \in Nat
  BY ProcessModelAssumption DEF Process, CpuInv, ProcessesInv
<1>2. CpuShare(k, current, total).cpu <= current.cpu
  <2>1. CASE k \in DOMAIN prevCounters /\ total > 0
    <3>1. PICK previous \in Nat : previous = prevCounters[k].cpu
      BY <2>1 DEF MapsTyped, Reading, Process
    <3>2. /\ Difference(current.cpu, previous) \in Nat
          /\ current.cpu >= previous
               => Difference(current.cpu, previous) <= current.cpu - previous
          /\ current.cpu <= previous => Difference(current.cpu, previous) = 0
      BY <1>1, DifferenceBound
    <3>3. Difference(current.cpu, previous) <= current.cpu
      BY <1>1, <3>2
    <3>4. CpuShare(k, current, total)
            = [cpu |-> Difference(current.cpu, previous), of |-> total]
      BY <2>1, <3>1 DEF CpuShare
    <3>. QED  BY <3>3, <3>4
  <2>2. CASE ~(k \in DOMAIN prevCounters /\ total > 0)
    <3>1. CpuShare(k, current, total) = [cpu |-> 0, of |-> 0]
      BY <2>2 DEF CpuShare
    <3>. QED  BY <1>1, <3>1
  <2>. QED  BY <2>1, <2>2
<1>3. /\ Baseline(k, current).net \in Nat
      /\ Baseline(k, current).firstSeen \in 0 .. clock
  <2>1. CASE k \in DOMAIN baselines
    BY <2>1 DEF Baseline, MapsTyped
  <2>2. CASE k \notin DOMAIN baselines
    <3>1. Baseline(k, current) = [net |-> current.net, firstSeen |-> clock]
      BY <2>2 DEF Baseline
    <3>. QED  BY <1>1, <3>1
  <2>. QED  BY <2>1, <2>2
<1>4. PICK base : base = Baseline(k, current)
  OBVIOUS
<1>5. \/ NetBytes(current, base) = 0
      \/ NetBytes(current, base) = Difference(current.net, base.net)
  BY DEF NetBytes
<1>6. /\ Difference(current.net, base.net) \in Nat
      /\ \/ Difference(current.net, base.net) = 0
         \/ Difference(current.net, base.net) + base.net <= current.net
  <2>1. PICK from \in Nat : from = base.net
    BY <1>3, <1>4
  <2>2. /\ Difference(current.net, from) \in Nat
        /\ current.net >= from
             => Difference(current.net, from) <= current.net - from
        /\ current.net <= from => Difference(current.net, from) = 0
    BY <1>1, DifferenceBound
  <2>. QED  BY <1>1, <2>1, <2>2
<1>. QED  BY <1>2, <1>3, <1>4, <1>5, <1>6

\* What a refresh leaves behind.
LEMMA ComputeShown ==
    ASSUME CpuInv, MapsTyped, NEW t \in Threads, ComputeSnapshots(t),
           Reading(sample[t].counters)
    PROVE  /\ MapsTyped'
           /\ MapsPruned'
           /\ ShownInv'
           /\ \A k \in DOMAIN baselines' :
                baselines'[k] = IF k \in DOMAIN baselines THEN baselines[k]
                                ELSE [net |-> prevCounters'[k].net,
                                      firstSeen |-> prevSampleTime']
<1> DEFINE counters == sample[t].counters
           newPeak  == [k \in DOMAIN counters |-> Peak(k, counters[k])]
<1>1. /\ DOMAIN snapshots' = DOMAIN counters
      /\ DOMAIN prevCounters' = DOMAIN counters
      /\ DOMAIN peakRss' = DOMAIN counters
      /\ DOMAIN baselines' = DOMAIN counters
      /\ \A k \in DOMAIN counters : prevCounters'[k] = counters[k]
  BY ComputeMaps
<1>2. PICK total :
        \A k \in DOMAIN counters :
          /\ snapshots'[k].share = CpuShare(k, counters[k], total)
          /\ snapshots'[k].net
               = NetBytes(counters[k], Baseline(k, counters[k]))
          /\ baselines'[k] = Baseline(k, counters[k])
  BY DEF ComputeSnapshots
<1>3. prevSampleTime' = clock /\ clock' = clock
  BY DEF ComputeSnapshots, SampleTime, world
<1>4. peakRss' = Pruned(Stored(peakRss, newPeak), DOMAIN counters)
  BY DEF ComputeSnapshots
<1>5. /\ DOMAIN newPeak = DOMAIN counters
      /\ \A k \in DOMAIN counters : newPeak[k] = Peak(k, counters[k])
  OBVIOUS
<1>6. \A k \in DOMAIN counters : k \in Keys /\ counters[k] \in Process
  BY DEF Reading
<1> HIDE DEF counters, newPeak
<1>7. \A k \in DOMAIN counters : peakRss'[k] = Peak(k, counters[k])
  BY <1>4, <1>5, StoredPruned
<1>8. ASSUME NEW k \in DOMAIN counters PROVE Peak(k, counters[k]) \in Nat
  <2>1. counters[k].rss \in Nat /\ counters[k].peak \in Nat
    BY <1>6 DEF Process
  <2>2. k \in DOMAIN peakRss => peakRss[k] \in Nat
    BY DEF MapsTyped
  <2>. QED  BY <2>1, <2>2 DEF Peak, Larger
<1>9. \A k \in DOMAIN counters :
        /\ CpuShare(k, counters[k], total).cpu <= counters[k].cpu
        /\ Baseline(k, counters[k]).net \in Nat
        /\ Baseline(k, counters[k]).firstSeen \in 0 .. clock
        /\ NetBytes(counters[k], Baseline(k, counters[k])) \in Nat
        /\ \/ NetBytes(counters[k], Baseline(k, counters[k])) = 0
           \/ NetBytes(counters[k], Baseline(k, counters[k]))
                  + Baseline(k, counters[k]).net <= counters[k].net
  BY <1>6, ShownFits
<1>10. MapsTyped'
  BY <1>1, <1>2, <1>3, <1>6, <1>7, <1>8, <1>9 DEF MapsTyped, Reading
<1>11. MapsPruned'
  BY <1>1 DEF MapsPruned
<1>12. ShownInv'
  BY <1>1, <1>2, <1>9 DEF ShownInv
<1>13. \A k \in DOMAIN baselines' :
         baselines'[k] = IF k \in DOMAIN baselines THEN baselines[k]
                         ELSE [net |-> prevCounters'[k].net,
                               firstSeen |-> prevSampleTime']
  BY <1>1, <1>2, <1>3 DEF Baseline
<1>. QED  BY <1>10, <1>11, <1>12, <1>13

\* What BaselineOfFirstSight says of one step.
BaselineKept ==
    \A k \in DOMAIN baselines' :
        /\ baselines'[k] = IF k \in DOMAIN baselines THEN baselines[k]
                           ELSE [net |-> prevCounters'[k].net,
                                 firstSeen |-> prevSampleTime']
        /\ \/ snapshots'[k].net = 0
           \/ snapshots'[k].net + baselines'[k].net <= prevCounters'[k].net

LEMMA TypeStep ==
    ASSUME CpuInv, TypeInv, [Next]_vars
    PROVE  TypeInv' /\ BaselineKept
<1>1. DOMAIN sample = Threads
  BY DEF CpuInv, SamplesInv
<1>2. /\ clock \in Nat /\ clock' \in Nat /\ clock <= clock'
  BY ProcessesStep, ProcessModelAssumption DEF CpuInv, ProcessesInv
<1>3. ASSUME UNCHANGED model
      PROVE  MapsTyped' /\ MapsPruned' /\ ShownInv' /\ BaselineKept
  <2>1. UNCHANGED <<snapshots, prevCounters, peakRss, baselines>>
    BY <1>3 DEF model
  <2>2. MapsTyped'
    BY <1>2, <2>1 DEF TypeInv, MapsTyped, Reading
  <2>3. MapsPruned' /\ ShownInv'
    BY <2>1 DEF TypeInv, MapsPruned, ShownInv
  <2>4. BaselineKept
    BY <2>1 DEF TypeInv, MapsPruned, ShownInv, BaselineKept
  <2>. QED  BY <2>2, <2>3, <2>4
<1>4. ASSUME UNCHANGED <<threads, model>> PROVE TypeInv' /\ BaselineKept
  <2>1. UNCHANGED <<pc, sample, prevSampleTime>>
    BY <1>4 DEF threads, model
  <2>2. RestInv' /\ \A t \in Threads : Reading(sample'[t].counters)
    BY <2>1 DEF TypeInv, RestInv
  <2>3. MapsTyped' /\ MapsPruned' /\ ShownInv' /\ BaselineKept
    BY <1>3, <1>4
  <2>. QED  BY <2>2, <2>3 DEF TypeInv, Reading
<1>5. ASSUME NEW t \in Threads, Enumerate(t) PROVE TypeInv' /\ BaselineKept
  <2>1. Reading(sample'[t].counters)
    <3> SUFFICES ASSUME NEW k \in DOMAIN sample'[t].counters
                 PROVE  k \in Keys /\ sample'[t].counters[k] \in Process
      BY DEF Reading
    <3>1. k \in Keys /\ sample'[t].counters[k] = procs[k[1]]
      BY <1>5, EnumerateReads
    <3>. QED  BY <3>1 DEF Keys, CpuInv, ProcessesInv
  <2>2. \A u \in Threads \ {t} : sample'[u] = sample[u]
    BY <1>5, EnumerateReads
  <2>3. \A u \in Threads : Reading(sample'[u].counters)
    BY <2>1, <2>2 DEF TypeInv
  <2>4. RestInv'
    BY <1>5 DEF Enumerate, model, TypeInv, RestInv
  <2>5. MapsTyped' /\ MapsPruned' /\ ShownInv' /\ BaselineKept
    BY <1>3, <1>5 DEF Enumerate
  <2>. QED  BY <2>3, <2>4, <2>5 DEF TypeInv, Reading
<1>6. ASSUME NEW t \in Threads, ReadTotal(t) PROVE TypeInv' /\ BaselineKept
  <2>1. \A u \in Threads : sample'[u].counters = sample[u].counters
    BY <1>6, ReadTotalKeeps
  <2>2. \A u \in Threads : Reading(sample'[u].counters)
    BY <2>1 DEF TypeInv
  <2>3. RestInv'
    BY <1>6 DEF ReadTotal, model, TypeInv, RestInv
  <2>4. MapsTyped' /\ MapsPruned' /\ ShownInv' /\ BaselineKept
    BY <1>3, <1>6 DEF ReadTotal
  <2>. QED  BY <2>2, <2>3, <2>4 DEF TypeInv, Reading
<1>7. ASSUME NEW t \in Threads, ComputeSnapshots(t)
      PROVE  TypeInv' /\ BaselineKept
  <2>1. /\ sample' = [sample EXCEPT ![t] = NoSample]
        /\ pc' = [pc EXCEPT ![t] = "idle"]
        /\ prevSampleTime' = clock
    BY <1>7 DEF ComputeSnapshots, SampleTime
  <2>2. \A u \in Threads : Reading(sample'[u].counters)
    BY <1>1, <2>1 DEF TypeInv, NoSample, Reading
  <2>3. RestInv'
    BY <1>2, <2>1 DEF TypeInv, RestInv
  <2>4. /\ MapsTyped' /\ MapsPruned' /\ ShownInv'
        /\ \A k \in DOMAIN baselines' :
             baselines'[k] = IF k \in DOMAIN baselines THEN baselines[k]
                             ELSE [net |-> prevCounters'[k].net,
                                   firstSeen |-> prevSampleTime']
    BY <1>7, ComputeShown DEF TypeInv
  <2>5. BaselineKept
    BY <2>4 DEF MapsPruned, ShownInv, BaselineKept
  <2>. QED  BY <2>2, <2>3, <2>4, <2>5 DEF TypeInv, Reading
<1>8. CASE \E seconds \in WindowValues : SetMaxHistorySeconds(seconds)
  BY <1>4, <1>8 DEF SetMaxHistorySeconds
<1>9. CASE Tick \/ (\E p \in Pids : Exit(p) \/ Reuse(p)) \/ Done
            \/ UNCHANGED vars
  BY <1>4, <1>9 DEF Tick, Exit, Reuse, Done, vars
<1>. QED  BY <1>5, <1>6, <1>7, <1>8, <1>9 DEF Next

LEMMA TypeInvariant == Spec => []TypeInv
<1>1. Init => TypeInv
  BY DEF Init, TypeInv, Reading, MapsTyped, MapsPruned, ShownInv, RestInv,
         NoSample
<1>2. CpuInv /\ TypeInv /\ [Next]_vars => TypeInv'
  BY TypeStep
<1>. QED  BY <1>1, <1>2, CpuInvariant, PTL DEF Spec

LEMMA TypesFit ==
    ASSUME HistoryInv, CpuInv, TypeInv
    PROVE  TypeOK
<1>1. clock \in 0 .. MaxClock /\ procs \in [Pids -> Process] /\ clock \in Nat
  BY ProcessModelAssumption DEF CpuInv, ProcessesInv
<1>2. ASSUME NEW t \in Threads
      PROVE  /\ sample[t].at \in 0 .. clock
             /\ sample[t].total \in 0 .. clock
             /\ DOMAIN sample[t].counters \subseteq Keys
             /\ \A k \in DOMAIN sample[t].counters :
                  sample[t].counters[k] \in Process
  BY DEF CpuInv, SamplesInv, TypeInv, Reading
<1>3. /\ DOMAIN snapshots \subseteq Keys
      /\ \A k \in DOMAIN prevCounters : prevCounters[k] \in Process
      /\ \A k \in DOMAIN peakRss : peakRss[k] \in Nat
      /\ \A k \in DOMAIN baselines :
           baselines[k].net \in Nat /\ baselines[k].firstSeen \in 0 .. clock
  BY DEF TypeInv, MapsTyped, MapsPruned, Reading
<1>4. /\ prevTotal \in 0 .. clock
      /\ prevSampleTime \in -1 .. clock
      /\ maxHistory \in Nat
      /\ pc \in [Threads -> {"idle", "enumerated", "sampled"}]
  BY <1>1 DEF CpuInv, PreviousInv, HistoryInv, TypeInv, RestInv
<1>5. timestamps \in Seq(0 .. clock)
  <2>1. timestamps \in Seq(Nat)
    BY DEF HistoryInv
  <2>2. \A i \in 1 .. Len(timestamps) : timestamps[i] \in 0 .. clock
    BY <1>1, <2>1 DEF HistoryInv
  <2>3. /\ Len(timestamps) \in Nat
        /\ timestamps \in [1 .. Len(timestamps) -> Nat]
    BY <2>1
  <2>4. timestamps \in [1 .. Len(timestamps) -> 0 .. clock]
    BY <2>2, <2>3
  <2>. QED  BY <2>3, <2>4, SeqDef
<1>. QED  BY <1>1, <1>2, <1>3, <1>4, <1>5 DEF TypeOK

\* No recorded time lies in the future and no difference wraps: a process never
\* shows more ticks or bytes than it has in all, whichever refresh comes late.
THEOREM NeverWraps == Spec => []NoWrap
<1>1. HistoryInv /\ CpuInv /\ TypeInv => NoWrap
  <2> SUFFICES ASSUME HistoryInv, CpuInv, TypeInv PROVE NoWrap
    OBVIOUS
  <2>1. TypeOK
    BY TypesFit
  <2>2. ASSUME NEW k \in DOMAIN snapshots
        PROVE  /\ snapshots[k].share.cpu <= prevCounters[k].cpu
               /\ snapshots[k].net <= prevCounters[k].net
    <3>1. k \in DOMAIN prevCounters /\ k \in DOMAIN baselines
      BY DEF TypeInv, MapsPruned
    <3>2. prevCounters[k].net \in Nat /\ baselines[k].net \in Nat
      BY <3>1 DEF TypeInv, MapsTyped, Reading, Process
    <3>3. snapshots[k].net = 0
            \/ snapshots[k].net + baselines[k].net <= prevCounters[k].net
      BY DEF TypeInv, ShownInv
    <3>. QED  BY <3>2, <3>3 DEF TypeInv, ShownInv
  <2>. QED  BY <2>1, <2>2 DEF NoWrap
<1>. QED  BY <1>1, HistoryInvariant, CpuInvariant, TypeInvariant, PTL

\* A process's baseline is the counter of the refresh that first saw it and
\* stays while it is in every refresh; only bytes beyond it are ever shown.
THEOREM BaselineStays == Spec => BaselineOfFirstSight
<1>1. CpuInv /\ TypeInv /\ [Next]_vars => [BaselineKept]_vars
  BY TypeStep
<1>. QED  BY <1>1, CpuInvariant, TypeInvariant, PTL
          DEF Spec, BaselineOfFirstSight, BaselineKept
==============================================================================

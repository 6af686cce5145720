----------------------------- MODULE ProcessModel -----------------------------
(***************************************************************************)
(* Domain::ProcessModel (src/src/Domain/ProcessModel.cpp) and the          *)
(* operating system it samples.                                            *)
(*                                                                         *)
(* Several threads may refresh the model (the UI through refresh, a        *)
(* background sampler through updateFromCounters).  A refresh reads the    *)
(* process counters and then the machine's CPU total, outside any lock,    *)
(* and applies them in one critical section of m_Mutex: three steps, each  *)
(* of which may interleave with the other threads, with setMaxHistory-     *)
(* Seconds and with processes that run, exit and reuse a pid.              *)
(*                                                                         *)
(* A process is known by uniqueKey, here the pair <<pid, start>> that the  *)
(* code hashes.  Of the counters the model keeps the four that are treated *)
(* differently: CPU time (a share of the machine's), RSS, the peak RSS the *)
(* system reports, and network bytes (an average since first seen); the    *)
(* I/O, page fault and energy rates are computed like the CPU difference.  *)
(* One history entry stands for the aggregate of the refresh made at that  *)
(* time, so that alignment is visible.                                     *)
(***************************************************************************)
EXTENDS Integers, Sequences, TimeWindow

CONSTANTS
    Threads,          \* the callers of refresh / updateFromCounters
    Pids,
    HasPeakRss,       \* m_Capabilities.hasPeakRss
    RssValues,        \* resident set sizes a process may have
    NetValues,        \* values of the cumulative network counter
    WindowValues,     \* arguments of setMaxHistorySeconds
    InitialWindow,    \* m_MaxHistorySeconds = 300
    MinTimeForRate,   \* MIN_TIME_FOR_RATE
    MaxSaneRate,      \* MAX_SANE_RATE
    Word,             \* counters are unsigned: arithmetic is modulo Word
    MaxClock          \* bound: the time up to which the system runs

ASSUME ProcessModelAssumption ==
    /\ HasPeakRss \in BOOLEAN
    /\ RssValues \subseteq Nat /\ RssValues # {}
    /\ NetValues \subseteq Nat /\ NetValues # {}
    /\ WindowValues \subseteq Int
    /\ InitialWindow \in Nat
    /\ MinTimeForRate \in Nat \ {0}
    /\ MaxSaneRate \in Nat
    /\ Word \in Nat \ {0}
    /\ MaxClock \in Nat

VARIABLES
    clock,            \* steady_clock::now(); also CPU ticks since boot
    procs,            \* the system's processes; of an exited one, its start
    pc, sample,       \* per thread: progress of its refresh, what it read
    snapshots,        \* m_Snapshots, by uniqueKey
    prevCounters,     \* m_PrevCounters
    peakRss,          \* m_PeakRss
    baselines,        \* m_NetworkBaselines
    prevTotal,        \* m_PrevTotalCpuTime
    prevSampleTime,   \* m_PrevSampleTime, -1 until m_HasPrevSampleTime
    timestamps,       \* m_Timestamps
    history,          \* the five aggregate deques
    maxHistory,       \* m_MaxHistorySeconds
    skew              \* history variable, see CpuShareBounded

world   == <<clock, procs>>
threads == <<pc, sample>>
model   == <<snapshots, prevCounters, peakRss, baselines, prevTotal,
             prevSampleTime>>
deques  == <<timestamps, history, maxHistory>>
vars    == <<world, threads, model, deques, skew>>

Keys == Pids \X Nat

\* m_SystemNetSentHistory, ..., m_SystemPowerHistory
Tracks == {"netSent", "netRecv", "pageFaults", "threadCount", "power"}

Process == [alive : BOOLEAN, start : Nat, cpu : Nat, rss : Nat, peak : Nat,
            net : Nat]

NewProcess(start, rss, net) ==
    [alive |-> TRUE, start |-> start, cpu |-> 0, rss |-> rss, peak |-> rss,
     net |-> net]

\* Of an exited process only the start matters any more.
Gone(start) ==
    [alive |-> FALSE, start |-> start, cpu |-> 0, rss |-> 0, peak |-> 0,
     net |-> 0]

Larger(a, b) == IF a >= b THEN a ELSE b

\* A process after one more tick of CPU time.
Ran(old, rss, net) ==
    [alive |-> TRUE, start |-> old.start, cpu |-> old.cpu + 1, rss |-> rss,
     peak |-> Larger(old.peak, rss), net |-> net]

NoSample == [counters |-> <<>>, at |-> 0, total |-> 0]

Init ==
    /\ clock = 0
    /\ \E r \in RssValues, n \in NetValues :
         procs = [p \in Pids |-> NewProcess(0, r, n)]
    /\ pc = [t \in Threads |-> "idle"]
    /\ sample = [t \in Threads |-> NoSample]
    /\ snapshots = <<>>
    /\ prevCounters = <<>>
    /\ peakRss = <<>>
    /\ baselines = <<>>
    /\ prevTotal = 0
    /\ prevSampleTime = -1
    /\ timestamps = <<>>
    /\ history = [k \in Tracks |-> <<>>]
    /\ maxHistory = InitialWindow
    /\ skew = [last |-> 0, before |-> 0]

------------------------------------------------------------------------------
(* The system.                                                             *)

\* One tick of CPU time passes.  It goes to at most one process, whose memory
\* and connections may have changed; closed connections take their bytes with
\* them, so the network counter moves both ways.
Tick ==
    /\ clock < MaxClock
    /\ clock' = clock + 1
    /\ \/ UNCHANGED procs
       \/ \E p \in Pids, r \in RssValues, n \in NetValues :
            /\ procs[p].alive
            /\ procs' = [procs EXCEPT ![p] = Ran(procs[p], r, n)]
    /\ UNCHANGED <<threads, model, deques, skew>>

Exit(p) ==
    /\ procs[p].alive
    /\ procs' = [procs EXCEPT ![p] = Gone(procs[p].start)]
    /\ UNCHANGED <<clock, threads, model, deques, skew>>

\* The pid comes back as another process, later than the one that had it.
Reuse(p) ==
    /\ ~procs[p].alive
    /\ clock > procs[p].start
    /\ \E r \in RssValues, n \in NetValues :
         procs' = [procs EXCEPT ![p] = NewProcess(clock, r, n)]
    /\ UNCHANGED <<clock, threads, model, deques, skew>>

------------------------------------------------------------------------------
(* Faulty variants of operators and actions below, each a mistake that a   *)
(* property at the end of this module must catch; Next uses none of them.  *)

\* The subtraction without its guard.
DifferenceUnguarded(current, previous) == (current - previous) % Word

\* Entries of exited processes stay behind.
NotPruned(map, active) == map

\* emplace instead of operator[]: the first value stays.
StoredOnce(map, new) ==
    [k \in DOMAIN map \cup DOMAIN new |->
        IF k \in DOMAIN map THEN map[k] ELSE new[k]]

\* A new process starts from zero bytes.
BaselineFromZero(k, current) ==
    IF k \in DOMAIN baselines THEN baselines[k]
    ELSE [net |-> 0, firstSeen |-> clock]

\* The peak is not compared with the one before.
PeakIsCurrent(k, current) == current.rss

\* The clock is read with the counters, before the lock is taken.
SampleTimeUnlocked(t) == sample[t].at

\* setMaxHistorySeconds trims the timestamps and forgets the aggregates.
SetMaxTrimsTimestamps(seconds) ==
    LET window == IF seconds > 0 THEN seconds ELSE 0
        last   == timestamps[Len(timestamps)]
    IN  /\ maxHistory' = window
        /\ timestamps' = SelectSeq(timestamps, LAMBDA ts : ts >= last - window)
        /\ UNCHANGED history
        /\ UNCHANGED <<world, threads, model, skew>>

\* setMaxHistorySeconds accepts a negative window.
SetMaxUnclamped(seconds) ==
    LET last   == timestamps[Len(timestamps)]
        kept   == SelectSeq(timestamps, LAMBDA ts : ts >= last - seconds)
    IN  /\ maxHistory' = seconds
        /\ timestamps' = kept
        /\ history' = [k \in Tracks |-> kept]
        /\ UNCHANGED <<world, threads, model, skew>>

------------------------------------------------------------------------------
(* Differences, rates and the maps of ProcessModel.                        *)

Minus(a, b) == (a - b) % Word

\* A later counter that is below an earlier one counts as no activity.
Difference(current, previous) ==
    IF current >= previous THEN Minus(current, previous) ELSE 0

\* std::erase_if(map, key is not active).
Pruned(map, active) == [k \in DOMAIN map \cap active |-> map[k]]

\* map[key] = value for every key of the refresh.
Stored(map, new) ==
    [k \in DOMAIN map \cup DOMAIN new |->
        IF k \in DOMAIN new THEN new[k] ELSE map[k]]

TotalDelta(total) ==
    IF prevTotal > 0 /\ total > prevTotal THEN Minus(total, prevTotal) ELSE 0

\* The process's share of the CPU, as numerator over denominator; a process
\* without previous counters, or a refresh without a total, has none.
CpuShare(k, current, totalDelta) ==
    IF k \in DOMAIN prevCounters /\ totalDelta > 0
      THEN [cpu |-> Difference(current.cpu, prevCounters[k].cpu),
            of |-> totalDelta]
      ELSE [cpu |-> 0, of |-> 0]

Baseline(k, current) ==
    IF k \in DOMAIN baselines THEN baselines[k]
    ELSE [net |-> current.net, firstSeen |-> clock]

\* Bytes since first seen; none in the first moments or at an insane rate.
NetBytes(current, baseline) ==
    LET elapsed == clock - baseline.firstSeen
        bytes   == Difference(current.net, baseline.net)
    IN  IF elapsed >= MinTimeForRate /\ bytes <= MaxSaneRate * elapsed
          THEN bytes ELSE 0

Peak(k, current) ==
    IF HasPeakRss /\ current.peak > 0 THEN current.peak
    ELSE IF k \in DOMAIN peakRss THEN Larger(peakRss[k], current.rss)
    ELSE current.rss

\* trimHistory() on deques that have just become ts and tracks.
Trimmed(ts, tracks, window) ==
    LET n == TrimCount(ts, window)
    IN  /\ timestamps' = DropFront(ts, n)
        /\ history' = [k \in Tracks |-> DropFront(tracks[k], n)]

------------------------------------------------------------------------------
(* A refresh, in three steps.                                              *)

\* enumerate(): the processes that live and whose /proc entries can be read.
Enumerate(t) ==
    /\ pc[t] = "idle"
    /\ pc' = [pc EXCEPT ![t] = "enumerated"]
    /\ \E seen \in SUBSET {p \in Pids : procs[p].alive} :
         sample' = [sample EXCEPT ![t] =
            [counters |-> [k \in {<<p, procs[p].start>> : p \in seen} |->
                              procs[k[1]]],
             at |-> clock, total |-> 0]]
    /\ UNCHANGED <<world, model, deques, skew>>

\* totalCpuTime()
ReadTotal(t) ==
    /\ pc[t] = "enumerated"
    /\ pc' = [pc EXCEPT ![t] = "sampled"]
    /\ sample' = [sample EXCEPT ![t].total = clock]
    /\ UNCHANGED <<world, model, deques, skew>>

\* computeSnapshots(), under m_Mutex; its clock is read under the lock too.
SampleTime(t) == clock

ComputeSnapshots(t) ==
    LET counters   == sample[t].counters
        active     == DOMAIN counters
        now        == SampleTime(t)
        elapsed    == IF prevSampleTime = -1 THEN 0 ELSE now - prevSampleTime
        totalDelta == TotalDelta(sample[t].total)
        newBase    == [k \in active |-> Baseline(k, counters[k])]
        newPeak    == [k \in active |-> Peak(k, counters[k])]
    IN  /\ pc[t] = "sampled"
        /\ pc' = [pc EXCEPT ![t] = "idle"]
        /\ sample' = [sample EXCEPT ![t] = NoSample]
        /\ snapshots' =
             [k \in active |->
                [share |-> CpuShare(k, counters[k], totalDelta),
                 peak  |-> newPeak[k],
                 net   |-> NetBytes(counters[k], newBase[k])]]
        /\ prevCounters' = Pruned(Stored(prevCounters, counters), active)
        /\ peakRss' = Pruned(Stored(peakRss, newPeak), active)
        /\ baselines' = newBase
        /\ prevTotal' = sample[t].total
        /\ prevSampleTime' = now
        /\ IF elapsed > 0
             THEN Trimmed(Append(timestamps, now),
                          [k \in Tracks |-> Append(history[k], now)],
                          maxHistory)
             ELSE UNCHANGED <<timestamps, history>>
        /\ skew' = [last |-> sample[t].total - sample[t].at,
                    before |-> skew.last]
        /\ UNCHANGED <<world, maxHistory>>

SetMaxHistorySeconds(seconds) ==
    /\ maxHistory' = Larger(0, seconds)
    /\ IF timestamps = <<>>
         THEN UNCHANGED <<timestamps, history>>
         ELSE Trimmed(timestamps, history, maxHistory')
    /\ UNCHANGED <<world, threads, model, skew>>

\* Time is bounded: the system rests when it has run out and all is quiet.
Done == clock = MaxClock /\ UNCHANGED vars

Next ==
    \/ Tick
    \/ \E p \in Pids : Exit(p) \/ Reuse(p)
    \/ \E t \in Threads : Enumerate(t) \/ ReadTotal(t) \/ ComputeSnapshots(t)
    \/ \E seconds \in WindowValues : SetMaxHistorySeconds(seconds)
    \/ Done

Spec == Init /\ [][Next]_vars

------------------------------------------------------------------------------
(* Properties.                                                             *)

\* The shape of every variable; no recorded time or total lies in the future.
TypeOK ==
    /\ clock \in 0 .. MaxClock
    /\ procs \in [Pids -> Process]
    /\ pc \in [Threads -> {"idle", "enumerated", "sampled"}]
    /\ \A t \in Threads :
         /\ sample[t].at \in 0 .. clock
         /\ sample[t].total \in 0 .. clock
         /\ DOMAIN sample[t].counters \subseteq Keys
         /\ \A k \in DOMAIN sample[t].counters :
              sample[t].counters[k] \in Process
    /\ DOMAIN snapshots \subseteq Keys
    /\ \A k \in DOMAIN prevCounters : prevCounters[k] \in Process
    /\ \A k \in DOMAIN peakRss : peakRss[k] \in Nat
    /\ \A k \in DOMAIN baselines :
         baselines[k].net \in Nat /\ baselines[k].firstSeen \in 0 .. clock
    /\ prevTotal \in 0 .. clock
    /\ prevSampleTime \in -1 .. clock
    /\ timestamps \in Seq(0 .. clock)
    /\ maxHistory \in Nat

\* Whatever refreshes and window changes interleave, every aggregate has one
\* entry per timestamp and it is that refresh's: the deques grow together and
\* trimHistory drops as many entries from each.
HistoryAligned == \A k \in Tracks : history[k] = timestamps

\* Timestamps strictly increase although refreshes of several threads are
\* applied in any order (trimHistory stops at the first recent one and relies
\* on it), and after a refresh or a window change none is outside the window.
WindowRespected == Increasing(timestamps) /\ Within(timestamps, maxHistory)

\* A history once begun is never emptied, not even by a window of zero or less.
HistoryKeepsNewest ==
    [][timestamps # <<>> => /\ timestamps' # <<>>
                            /\ timestamps'[Len(timestamps')]
                                 >= timestamps[Len(timestamps)]]_vars

\* The three maps hold exactly the processes of the last refresh applied: an
\* exited process, or a pid's former owner, leaves nothing behind.
MapsPruned ==
    /\ DOMAIN prevCounters = DOMAIN snapshots
    /\ DOMAIN peakRss = DOMAIN snapshots
    /\ DOMAIN baselines = DOMAIN snapshots

\* No difference wraps: a rate is never computed from more ticks or bytes than
\* the process has in all, although a late refresh makes counters go backwards.
NoWrap ==
    /\ TypeOK
    /\ \A k \in DOMAIN snapshots :
         /\ snapshots[k].share.cpu <= prevCounters[k].cpu
         /\ snapshots[k].net <= prevCounters[k].net

\* Bytes moved before the model first saw a process are never shown as its
\* traffic: its baseline is the first counter seen and stays for as long as the
\* process is in every refresh, and only bytes beyond it are shown, none when
\* closed connections have taken the counter below it.
BaselineOfFirstSight ==
    [][\A k \in DOMAIN baselines' :
         /\ baselines'[k] = IF k \in DOMAIN baselines THEN baselines[k]
                            ELSE [net |-> prevCounters'[k].net,
                                  firstSeen |-> prevSampleTime']
         /\ \/ snapshots'[k].net = 0
            \/ snapshots'[k].net + baselines'[k].net
                   <= prevCounters'[k].net]_vars

\* CPU% exceeds 100 by no more than the machine ran between the two probe reads
\* (enumerate, then totalCpuTime) of the refresh before: numerator and
\* denominator always span the same two refreshes, in whatever order threads
\* apply theirs and whichever processes an enumeration misses.
CpuShareBounded ==
    \A k \in DOMAIN snapshots :
        snapshots[k].share.cpu <= snapshots[k].share.of + skew.before

\* "Peak working set (never decreases)": while a process stays in successive
\* refreshes its peak does not fall, and it covers the RSS shown with it.
PeakNeverDecreases ==
    [][/\ \A k \in DOMAIN peakRss \cap DOMAIN peakRss' : peakRss'[k] >= peakRss[k]
       /\ \A k \in DOMAIN peakRss' : peakRss'[k] >= prevCounters'[k].rss]_vars
==============================================================================

------------------------------ MODULE SystemModel ------------------------------
(***************************************************************************)
(* Domain::SystemModel (src/src/Domain/SystemModel.cpp) and the machine it *)
(* samples: cores that go off- and online, network interfaces that come    *)
(* and go.                                                                 *)
(*                                                                         *)
(* A refresh reads the probe, reads and publishes the power status, reads  *)
(* the clock and then, under m_Mutex, computes the snapshot and extends    *)
(* the histories: five steps, each of which may interleave with the other  *)
(* refreshers and with setMaxHistorySeconds.  The clock is read before the *)
(* lock is taken (ProcessModel reads it after).                            *)
(*                                                                         *)
(* One history entry stands for the value of the refresh that had this     *)
(* clock reading, and a power entry for the time at which the power was    *)
(* read, so that alignment is visible.  Receiving stands for transmitting  *)
(* too; memory and static data pass through and are left out; computeCpu-  *)
(* Usage has a module of its own, CpuUsage.                                *)
(***************************************************************************)
EXTENDS Integers, Sequences, FiniteSets, Functions, TimeWindow

CONSTANTS
    Threads,          \* the callers of refresh / updateFromCounters
    MaxCores,         \* cores the machine has; at least one is online
    Interfaces,       \* names network interfaces may have
    LinkSpeed,        \* bytes an interface can receive in a tick
    HasPowerProbe,    \* m_PowerProbe is not null
    WindowValues,     \* arguments of setMaxHistorySeconds
    MinWindow,        \* HISTORY_SECONDS_MIN
    MaxWindow,        \* HISTORY_SECONDS_MAX
    InitialWindow,    \* HISTORY_SECONDS_DEFAULT
    Word,             \* counters are unsigned: arithmetic is modulo Word
    MaxClock          \* bound: the time up to which the machine runs

ASSUME SystemModelAssumption ==
    /\ MaxCores \in Nat /\ MaxCores >= 1
    /\ IsFiniteSet(Interfaces)
    /\ LinkSpeed \in Nat
    /\ HasPowerProbe \in BOOLEAN
    /\ WindowValues \subseteq Int
    /\ MinWindow \in Nat /\ MaxWindow \in Nat
    /\ InitialWindow \in MinWindow .. MaxWindow
    /\ Word \in Nat /\ Word >= 1
    /\ MaxClock \in Nat

VARIABLES
    clock,            \* steady_clock::now()
    cores,            \* number of cores online, as /proc/stat lists them
    traffic,          \* bytes received, by interface present
    pc, sample,       \* per thread: progress of its refresh, what it read
    previous,         \* m_PrevCounters
    prevTimestamp,    \* m_PrevTimestamp, -1 until m_HasPrevious
    power,            \* m_Snapshot.power: when it was read, -1 before
    rates,            \* m_Snapshot's receive rates, by interface
    totalRate,        \* m_Snapshot.netRxBytesPerSec
    timestamps,       \* m_Timestamps
    tracks,           \* the aggregate deques but m_PowerHistory
    powerHistory,     \* m_PowerHistory
    coreHistory,      \* m_PerCoreHistory
    ifaceHistory,     \* m_PerInterfaceRxHistory
    maxHistory,       \* m_MaxHistorySeconds
    delay             \* history variable: of the refresh applied last and the
                      \* one before, how late the clock was read after the
                      \* probe and whether the interfaces were missed

machine   == <<clock, cores, traffic>>
threads   == <<pc, sample>>
snapshot  == <<previous, prevTimestamp, rates, totalRate, delay>>
deques    == <<timestamps, tracks, powerHistory, coreHistory, ifaceHistory>>
vars      == <<machine, threads, snapshot, power, deques, maxHistory>>

\* m_CpuHistory, ..., m_NetTxHistory; the charge is read with the power.
Tracks == {"cpu", "user", "system", "iowait", "idle", "memory", "cached",
           "swap", "netRx", "netTx"}

\* What a thread holds between refreshes: the time of its last one.
Resting(now) == [cores |-> 0, net |-> <<>>, missed |-> FALSE, at |-> 0,
                 power |-> -1, now |-> now]

NoRate == [bytes |-> 0, over |-> 0]

Init ==
    /\ clock = 0
    /\ cores \in 1 .. MaxCores
    /\ \E here \in SUBSET Interfaces : traffic = [i \in here |-> 0]
    /\ pc = [t \in Threads |-> "idle"]
    /\ sample = [t \in Threads |-> Resting(-1)]
    /\ previous = [cores |-> 0, net |-> <<>>]
    /\ prevTimestamp = -1
    /\ power = -1
    /\ rates = <<>>
    /\ totalRate = NoRate
    /\ timestamps = <<>>
    /\ tracks = [k \in Tracks |-> <<>>]
    /\ powerHistory = <<>>
    /\ coreHistory = <<>>
    /\ ifaceHistory = <<>>
    /\ maxHistory = InitialWindow
    /\ delay = [last |-> 0, before |-> 0, missed |-> FALSE,
                missedBefore |-> FALSE]

------------------------------------------------------------------------------
(* The machine.                                                            *)

\* One tick passes; at most one interface receives, at its link's speed or
\* less.
Tick ==
    /\ clock < MaxClock
    /\ clock' = clock + 1
    /\ \/ UNCHANGED traffic
       \/ \E i \in DOMAIN traffic, n \in 1 .. LinkSpeed :
            traffic' = [traffic EXCEPT ![i] = traffic[i] + n]
    /\ UNCHANGED <<cores, threads, snapshot, power, deques, maxHistory>>

\* A core goes offline or comes (back) online.
Hotplug ==
    /\ cores' \in {cores - 1, cores + 1} \cap (1 .. MaxCores)
    /\ UNCHANGED <<clock, traffic, threads, snapshot, power, deques,
                   maxHistory>>

\* An interface goes away with its counter, or appears and counts from zero.
Unplug(i) ==
    /\ i \in DOMAIN traffic
    /\ traffic' = [j \in DOMAIN traffic \ {i} |-> traffic[j]]
    /\ UNCHANGED <<clock, cores, threads, snapshot, power, deques, maxHistory>>

Plug(i) ==
    /\ i \notin DOMAIN traffic
    /\ traffic' = [j \in DOMAIN traffic \cup {i} |->
                      IF j = i THEN 0 ELSE traffic[j]]
    /\ UNCHANGED <<clock, cores, threads, snapshot, power, deques, maxHistory>>

------------------------------------------------------------------------------
(* Faulty variants of operators and actions below, each a mistake that a   *)
(* property at the end of this module must catch; Next uses none of them.  *)

\* The subtraction without its guard.
DifferenceUnguarded(current, before) == (current - before) % Word

\* The window is only bounded above.
ClampWithoutMin(seconds) == IF seconds > MaxWindow THEN MaxWindow ELSE seconds

\* Timestamps are trimmed to the window but not truncated with the rest.
CutTimestampsByTime(d, window) ==
    DropFront(d.timestamps, TrimCount(d.timestamps, window))

\* The window is set and the histories are left as they are.
SetMaxUntrimmed(seconds) ==
    /\ maxHistory' = IF seconds < MinWindow THEN MinWindow
                     ELSE IF seconds > MaxWindow THEN MaxWindow ELSE seconds
    /\ UNCHANGED <<machine, threads, snapshot, power, deques>>

\* The snapshot is replaced whole, power included.
PowerReplaced == -1

------------------------------------------------------------------------------
(* Rates and trimming.                                                     *)

Smaller(a, b) == IF a <= b THEN a ELSE b
Larger(a, b)  == IF a >= b THEN a ELSE b

Minus(a, b) == (a - b) % Word

\* "Only compute if counters increased".
Difference(current, before) ==
    IF current >= before THEN Minus(current, before) ELSE 0

\* A rate is bytes over seconds; without an earlier counter or time it is 0.
Rate(current, before, seconds) ==
    IF seconds > 0 THEN [bytes |-> Difference(current, before),
                         over |-> seconds]
    ELSE NoRate

\* netRxBytes: the sum over the interfaces present.
TotalBytes(net) == FoldFunction(+, 0, net)

InterfaceRates(net, seconds) ==
    [i \in DOMAIN net |->
        IF i \in DOMAIN previous.net
          THEN Rate(net[i], previous.net[i], seconds)
          ELSE NoRate]

ClampHistorySeconds(seconds) == Larger(MinWindow, Smaller(seconds, MaxWindow))

\* The deques as trimHistory finds them.
Deques == [timestamps |-> timestamps, tracks |-> tracks,
           power |-> powerHistory, cores |-> coreHistory,
           ifaces |-> ifaceHistory]

\* The lengths that take part in the minimum, interfaces' do not, after n
\* entries were removed from the front of each deque.
Lengths(d) ==
    {Len(d.timestamps), Len(d.power)} \cup {Len(d.tracks[k]) : k \in Tracks}
        \cup {Len(d.cores[c]) : c \in DOMAIN d.cores}

Without(d, n) ==
    [timestamps |-> DropFront(d.timestamps, n),
     tracks     |-> [k \in Tracks |-> DropFront(d.tracks[k], n)],
     power      |-> DropFront(d.power, n),
     cores      |-> [c \in DOMAIN d.cores |-> DropFront(d.cores[c], n)],
     ifaces     |-> [i \in DOMAIN d.ifaces |-> DropFront(d.ifaces[i], n)]]

\* What truncation leaves of the timestamps.
CutTimestamps(d, window) ==
    LET rest == Without(d, TrimCount(d.timestamps, window))
    IN  KeepLast(rest.timestamps, Shortest(Lengths(rest)))

\* trimHistory() on deques that have just become d.
Trimmed(d, window) ==
    LET rest == Without(d, TrimCount(d.timestamps, window))
        size == Shortest(Lengths(rest))
    IN  /\ timestamps' = CutTimestamps(d, window)
        /\ tracks' = [k \in Tracks |-> KeepLast(rest.tracks[k], size)]
        /\ powerHistory' = KeepLast(rest.power, size)
        /\ coreHistory' = [c \in DOMAIN rest.cores |->
                              KeepLast(rest.cores[c], size)]
        /\ ifaceHistory' = rest.ifaces

\* Every deque after a refresh at now: cores that both this and the previous
\* refresh listed, and the interfaces that this one lists, get an entry.
Extended(now, shown, both, net) ==
    [timestamps |-> Append(timestamps, now),
     tracks |-> [k \in Tracks |-> Append(tracks[k], now)],
     power  |-> Append(powerHistory, shown),
     cores  |-> [c \in 1 .. Larger(Len(coreHistory), both) |->
                    LET old == IF c <= Len(coreHistory) THEN coreHistory[c]
                               ELSE <<>>
                    IN  IF c <= both THEN Append(old, now) ELSE old],
     ifaces |-> [i \in DOMAIN ifaceHistory \cup DOMAIN net |->
                    LET old == IF i \in DOMAIN ifaceHistory
                                 THEN ifaceHistory[i] ELSE <<>>
                    IN  IF i \in DOMAIN net THEN Append(old, now) ELSE old]]

------------------------------------------------------------------------------
(* A refresh.                                                              *)

\* m_Probe->read().  If /proc/net/dev cannot be opened there is no interface
\* and the total is 0.  A thread's refreshes are a tick apart at least (bound:
\* the shortest refresh interval is a tick).
ReadCounters(t) ==
    /\ pc[t] = "idle"
    /\ clock > sample[t].now
    /\ pc' = [pc EXCEPT ![t] = IF HasPowerProbe THEN "power" ELSE "clock"]
    /\ \E missed \in BOOLEAN :
          sample' = [sample EXCEPT ![t] =
             [cores |-> cores, net |-> IF missed THEN <<>> ELSE traffic,
              missed |-> missed, at |-> clock, power |-> -1,
              now |-> sample[t].now]]
    /\ UNCHANGED <<machine, snapshot, power, deques, maxHistory>>

\* m_PowerProbe->read()
ReadPower(t) ==
    /\ pc[t] = "power"
    /\ pc' = [pc EXCEPT ![t] = "publish"]
    /\ sample' = [sample EXCEPT ![t].power = clock]
    /\ UNCHANGED <<machine, snapshot, power, deques, maxHistory>>

\* The first critical section: m_Snapshot.power = powerStatus.
PublishPower(t) ==
    /\ pc[t] = "publish"
    /\ pc' = [pc EXCEPT ![t] = "clock"]
    /\ power' = sample[t].power
    /\ UNCHANGED <<machine, sample, snapshot, deques, maxHistory>>

\* updateFromCounters reads the clock before it takes the lock.
ReadClock(t) ==
    /\ pc[t] = "clock"
    /\ pc' = [pc EXCEPT ![t] = "update"]
    /\ sample' = [sample EXCEPT ![t].now = clock]
    /\ UNCHANGED <<machine, snapshot, power, deques, maxHistory>>

\* The power status that computeSnapshot carries over to the new snapshot.
PreservedPower == power

\* The second critical section: computeSnapshot, then the previous counters.
UpdateFromCounters(t) ==
    LET net     == sample[t].net
        now     == sample[t].now
        hasPrev == prevTimestamp # -1
        seconds == IF hasPrev THEN now - prevTimestamp ELSE 0
        both    == Smaller(sample[t].cores, previous.cores)
    IN  /\ pc[t] = "update"
        /\ pc' = [pc EXCEPT ![t] = "idle"]
        /\ sample' = [sample EXCEPT ![t] = Resting(now)]
        /\ rates' = InterfaceRates(net, seconds)
        /\ totalRate' = Rate(TotalBytes(net), TotalBytes(previous.net),
                             seconds)
        /\ power' = PreservedPower
        /\ IF hasPrev
             THEN Trimmed(Extended(now, PreservedPower, both, net), maxHistory)
             ELSE UNCHANGED deques
        /\ previous' = [cores |-> sample[t].cores, net |-> net]
        /\ prevTimestamp' = now
        /\ delay' = [last |-> now - sample[t].at, before |-> delay.last,
                     missed |-> sample[t].missed,
                     missedBefore |-> delay.missed]
        /\ UNCHANGED <<machine, maxHistory>>

SetMaxHistorySeconds(seconds) ==
    /\ maxHistory' = ClampHistorySeconds(seconds)
    /\ IF timestamps = <<>> THEN UNCHANGED deques
       ELSE Trimmed(Deques, maxHistory')
    /\ UNCHANGED <<machine, threads, snapshot, power>>

\* Time is bounded: the machine rests when it has run out and all is quiet.
Done == clock = MaxClock /\ UNCHANGED vars

Next ==
    \/ Tick \/ Hotplug
    \/ \E i \in Interfaces : Plug(i) \/ Unplug(i)
    \/ \E t \in Threads : ReadCounters(t) \/ ReadPower(t) \/ PublishPower(t)
                            \/ ReadClock(t) \/ UpdateFromCounters(t)
    \/ \E seconds \in WindowValues : SetMaxHistorySeconds(seconds)
    \/ Done

Spec == Init /\ [][Next]_vars

------------------------------------------------------------------------------
(* Properties.                                                             *)

\* The shape of every variable; the window stays within its bounds, and no
\* reading is from the future.
TypeOK ==
    /\ clock \in 0 .. MaxClock
    /\ cores \in 1 .. MaxCores
    /\ DOMAIN traffic \subseteq Interfaces
    /\ \A i \in DOMAIN traffic : traffic[i] \in Nat
    /\ pc \in [Threads -> {"idle", "power", "publish", "clock", "update"}]
    /\ \A t \in Threads :
         /\ sample[t].at \in 0 .. clock
         /\ sample[t].now \in -1 .. clock
         /\ sample[t].power \in -1 .. clock
         /\ sample[t].cores \in 0 .. MaxCores
         /\ DOMAIN sample[t].net \subseteq Interfaces
    /\ power \in -1 .. clock
    /\ prevTimestamp \in -1 .. clock
    /\ maxHistory \in MinWindow .. MaxWindow
    /\ timestamps \in Seq(0 .. clock)
    /\ Len(coreHistory) <= MaxCores
    /\ DOMAIN ifaceHistory \subseteq Interfaces

\* What truncation "to the smallest non-empty size" provides: a core has no
\* history or one as long as the timestamps, which CpuCoresSection needs when
\* it places a core's samples on the time axis.
CoreLengthsAgree ==
    \A c \in DOMAIN coreHistory :
        coreHistory[c] = <<>> \/ Len(coreHistory[c]) = Len(timestamps)

\* Every aggregate's entries are those of the timestamps, in the same places,
\* and the power has as many, and each core none or as many, whatever
\* refreshers and window changes do and however cores and interfaces come and go.
HistoryAligned ==
    /\ \A k \in Tracks : tracks[k] = timestamps
    /\ Len(powerHistory) = Len(timestamps)
    /\ CoreLengthsAgree

\* With one refresher the timestamps are in order and within the window.
WindowRespected ==
    /\ TypeOK
    /\ Increasing(timestamps) /\ Within(timestamps, maxHistory)

\* A history once begun is never emptied: the entry of the refresh applied
\* last stays, whatever window is set and whichever core comes online.
HistoryKeepsNewest ==
    [][timestamps # <<>> =>
         /\ timestamps' # <<>>
         /\ timestamps'[Len(timestamps')] = prevTimestamp']_vars

\* The total shown is no more than the links can carry in the time it is shown
\* over, plus what arrived between probe and clock reading of the refresh before.
TotalWithinLinks ==
    totalRate.bytes <= LinkSpeed * (totalRate.over + delay.before)

\* No interface is shown to receive more than its link can carry, whatever was
\* missed, and neither are all together unless the refresh before missed the
\* interfaces: counter and clock of two refreshes are always those of the same
\* two, and a counter that restarted (unplugged and plugged again) counts as
\* nothing. After a miss the total is what was ever received.
RatesWithinLinks ==
    /\ \A i \in DOMAIN rates :
         rates[i].bytes <= LinkSpeed * (rates[i].over + delay.before)
    /\ delay.missedBefore \/ TotalWithinLinks

\* The power of an entry was read in the refresh that made the entry: after
\* the entry before it and not after its own time, although power and counters
\* are published in two critical sections.
PowerOfItsRefresh ==
    \A n \in DOMAIN powerHistory :
        /\ powerHistory[n] <= timestamps[n]
        /\ n > 1 => powerHistory[n] >= timestamps[n - 1]
==============================================================================

------------------------------ MODULE StorageModel ------------------------------
(***************************************************************************)
(* Domain::StorageModel (src/src/Domain/StorageModel.cpp) over a disk      *)
(* probe, and the disks it samples, which come and go.                     *)
(*                                                                         *)
(* sample() is called by one thread only, but time passes inside it: it    *)
(* reads the clock, then the probe, and reads the clock once more when it  *)
(* computes a rate.  What it reads of a disk is represented by the sectors *)
(* read; writes, operations and busy time are computed the same way.  A    *)
(* rate is the pair of the sectors and the time they are divided by.       *)
(***************************************************************************)
EXTENDS SteadyClock, Sequences, TimeWindow

CONSTANTS
    Devices,          \* names of the disks the machine may have
    DiskSpeed,        \* sectors a disk can read in a tick
    CumulativeDisks,  \* the probe's readSectors counts all sectors ever read
                      \* (LinuxDiskProbe), or is a rate (WindowsDiskProbe)
    MaxHistorySeconds \* m_MaxHistorySeconds: setMaxHistorySeconds is called
                      \* with this value before every sample

ASSUME StorageAssumption ==
    /\ DiskSpeed \in Nat
    /\ CumulativeDisks \in BOOLEAN
    /\ MaxHistorySeconds \in Nat

VARIABLES
    sectors,          \* the machine's disks: sectors read since plugged in
    lifetime,         \* history variable: sectors each disk ever read
    collected,        \* the lifetime at the last PdhCollectQueryData
    m_DiskStates,     \* by disk: previous counters and when they were sampled
    m_LatestSnapshot, \* by disk: the rate of its last sample
    m_Timestamps,     \* and m_History, of which each entry is one snapshot
    storagePc,        \* progress of sample(): idle, read, compute
    sampleNow,        \* its local now (kept after it returned)
    counters,         \* its local counters
    accounted         \* history variable: sectors the rates account for

disks   == <<sectors, lifetime, collected>>
storage == <<m_DiskStates, m_LatestSnapshot, m_Timestamps, storagePc,
             sampleNow, counters, accounted>>

NoDiskRate == [sectors |-> 0, over |-> 0]

StorageInit ==
    /\ \E here \in SUBSET Devices : sectors = [d \in here |-> 0]
    /\ lifetime = [d \in Devices |-> 0]
    /\ collected = [d \in Devices |-> [sectors |-> 0, time |-> 0]]
    /\ m_DiskStates = <<>>
    /\ m_LatestSnapshot = <<>>
    /\ m_Timestamps = <<>>
    /\ storagePc = "idle"
    /\ sampleNow = -1
    /\ counters = <<>>
    /\ accounted = [d \in Devices |-> 0]

------------------------------------------------------------------------------
(* The disks.                                                              *)

\* In a tick a disk reads at its speed or not at all.
DisksWork ==
    \E busy \in SUBSET DOMAIN sectors :
        /\ sectors' = [d \in DOMAIN sectors |->
              IF d \in busy THEN sectors[d] + DiskSpeed ELSE sectors[d]]
        /\ lifetime' = [d \in Devices |->
              IF d \in busy THEN lifetime[d] + DiskSpeed ELSE lifetime[d]]
        /\ UNCHANGED collected

\* A disk is unplugged, its counter with it, or appears and counts from zero.
PlugOrUnplug(d) ==
    /\ sectors' = IF d \in DOMAIN sectors
                  THEN [e \in DOMAIN sectors \ {d} |-> sectors[e]]
                  ELSE [e \in DOMAIN sectors \cup {d} |->
                           IF e = d THEN 0 ELSE sectors[e]]
    /\ UNCHANGED <<clock, lifetime, collected, storage>>

------------------------------------------------------------------------------
(* Faulty variants, each a mistake that a property below must catch; Next  *)
(* uses none of them.                                                      *)

\* A counter that fell is taken for a wrap of the counter.
DeltaUnguarded(current, previous) ==
    IF current >= previous THEN current - previous ELSE previous

------------------------------------------------------------------------------
(* sample().                                                               *)

\* What the probe reports of a disk: its counter, or sectors per tick since
\* the query was last collected.
ReadSectors(d) ==
    IF CumulativeDisks THEN sectors[d]
    ELSE (lifetime[d] - collected[d].sectors)
            \div (IF clock > collected[d].time THEN clock - collected[d].time ELSE 1)

\* sample() begins: it reads the clock.
SampleStart ==
    /\ storagePc = "idle" /\ clock > sampleNow
    /\ storagePc' = "read"
    /\ sampleNow' = clock
    /\ UNCHANGED <<disks, m_DiskStates, m_LatestSnapshot, m_Timestamps,
                   counters, accounted>>

\* The probe is read: the disks present, or none at all when /proc/diskstats
\* cannot be opened or the query fails.
SampleRead ==
    /\ storagePc = "read"
    /\ storagePc' = "compute"
    /\ \/ /\ counters' = [d \in DOMAIN sectors |->
                [sectors |-> ReadSectors(d), lifetime |-> lifetime[d],
                 intact |-> sectors[d] = lifetime[d]]]
          /\ collected' = [d \in Devices |-> [sectors |-> lifetime[d], time |-> clock]]
       \/ counters' = <<>> /\ UNCHANGED collected
    /\ UNCHANGED <<sectors, lifetime, m_DiskStates, m_LatestSnapshot, m_Timestamps,
                   sampleNow, accounted>>

Delta(current, previous) ==
    IF current >= previous THEN current - previous ELSE 0

\* The clock is read again for every rate.
Elapsed(d) == clock - m_DiskStates[d].time

computeDiskSnapshot(d) ==
    IF d \notin DOMAIN m_DiskStates \/ Elapsed(d) <= 0 THEN NoDiskRate
    ELSE [sectors |-> Delta(counters[d].sectors, m_DiskStates[d].sectors),
          over |-> Elapsed(d)]

\* The state of a disk for the next sample: its counters and the time at
\* which this sample began.
DiskState(d) ==
    [sectors |-> counters[d].sectors, lifetime |-> counters[d].lifetime,
     intact |-> counters[d].intact, time |-> sampleNow]

trimHistory(times) == DropFront(times, TrimCount(times, MaxHistorySeconds))

\* Every disk read is given its rate and its new state (one that was not
\* read keeps its state), and the snapshot is published.
SampleCompute ==
    /\ storagePc = "compute"
    /\ storagePc' = "idle"
    /\ m_LatestSnapshot' = [d \in DOMAIN counters |-> computeDiskSnapshot(d)]
    /\ m_DiskStates' = [d \in DOMAIN m_DiskStates \cup DOMAIN counters |->
            IF d \in DOMAIN counters THEN DiskState(d) ELSE m_DiskStates[d]]
    /\ accounted' = [d \in Devices |->
            IF d \notin DOMAIN counters THEN accounted[d]
            ELSE IF d \notin DOMAIN m_DiskStates THEN counters[d].lifetime
            ELSE accounted[d] + computeDiskSnapshot(d).sectors]
    /\ m_Timestamps' = trimHistory(Append(m_Timestamps, sampleNow))
    /\ counters' = <<>>
    /\ UNCHANGED <<disks, sampleNow>>
==============================================================================

------------------------------- MODULE GPUModel -------------------------------
(***************************************************************************)
(* Domain::GPUModel (src/src/Domain/GPUModel.cpp) over a GPU probe whose   *)
(* reading may miss a GPU or fail.                                         *)
(*                                                                         *)
(* refresh() reads the probe, then the clock, and publishes under m_Mutex; *)
(* time passes between the two.  A reading stands for the counters of one  *)
(* GPU and is represented by the time it was taken at; a history ring      *)
(* (Domain::History, see HistoryRing) by what BoundedHistory says of it.   *)
(***************************************************************************)
EXTENDS SteadyClock, Sequences, TimeWindow

CONSTANTS
    Gpus,             \* ids the probe may report
    GpuCapacity       \* GPU_HISTORY_CAPACITY

ASSUME GpuAssumption == GpuCapacity \in Nat /\ GpuCapacity >= 1

VARIABLES
    m_GPUInfo,          \* ids found by enumerateGPUs at construction
    m_Snapshots,        \* by GPU of the last reading: the interval of its rates
    m_Histories,        \* by GPU of m_GPUInfo: the times of its entries
    m_HistoryTimestamps,
    m_PrevCounters,     \* by GPU of the last reading: when that was published
    m_PrevSampleTime,
    gpuPc,              \* progress of refresh(): idle, publish
    currentCounters,    \* its local currentCounters: the GPUs they are of
    missed              \* history variable: GPUs absent from some reading

gpu == <<m_GPUInfo, m_Snapshots, m_Histories, m_HistoryTimestamps,
         m_PrevCounters, m_PrevSampleTime, gpuPc, currentCounters, missed>>

\* The constructor: enumerateGPUs may find some of them, or throw.
GpuInit ==
    /\ m_GPUInfo \in SUBSET Gpus
    /\ m_Snapshots = <<>>
    /\ m_Histories = [g \in m_GPUInfo |-> <<>>]
    /\ m_HistoryTimestamps = <<>>
    /\ m_PrevCounters = <<>>
    /\ m_PrevSampleTime = clock
    /\ gpuPc = "idle"
    /\ currentCounters = {}
    /\ missed = {}

------------------------------------------------------------------------------
(* Faulty variants, each a mistake that a property must catch.             *)

\* Counters of GPUs that were not read stay.
PreviousKept(read, now) ==
    [g \in DOMAIN m_PrevCounters \cup read |->
        IF g \in read THEN now ELSE m_PrevCounters[g]]

------------------------------------------------------------------------------
(* refresh().                                                              *)

\* The probe is read: it reports any of the GPUs.
GpuRead ==
    /\ gpuPc = "idle"
    /\ gpuPc' = "publish"
    /\ currentCounters' \in SUBSET Gpus
    /\ UNCHANGED <<m_GPUInfo, m_Snapshots, m_Histories, m_HistoryTimestamps,
                   m_PrevCounters, m_PrevSampleTime, missed>>

Trimmed(ts) == KeepLast(ts, GpuCapacity)

\* computeSnapshot: rates need a previous reading, and are divided by the
\* time since the last refresh.
computeSnapshot(g) ==
    IF g \in DOMAIN m_PrevCounters /\ clock > m_PrevSampleTime
    THEN [since |-> m_PrevCounters[g], over |-> clock - m_PrevSampleTime]
    ELSE [since |-> clock, over |-> 0]

\* The counters that replace m_PrevCounters, which is cleared first.
Previous(read, now) == [g \in read |-> now]

\* The clock is read and everything is published under the lock: a timestamp
\* in any case, an entry for the GPUs that were read and are known.
GpuPublish ==
    /\ gpuPc = "publish"
    /\ gpuPc' = "idle"
    /\ m_Snapshots' = [g \in currentCounters |-> computeSnapshot(g)]
    /\ m_HistoryTimestamps' = Trimmed(Append(m_HistoryTimestamps, clock))
    /\ m_Histories' = [g \in m_GPUInfo |->
            IF g \in currentCounters
            THEN KeepLast(Append(m_Histories[g], clock), GpuCapacity)
            ELSE m_Histories[g]]
    /\ m_PrevCounters' = Previous(currentCounters, clock)
    /\ m_PrevSampleTime' = clock
    /\ missed' = missed \cup (Gpus \ currentCounters)
    /\ currentCounters' = {}
    /\ UNCHANGED m_GPUInfo

\* The probe throws: refresh() changes nothing.
GpuReadFails ==
    /\ gpuPc = "publish"
    /\ gpuPc' = "idle"
    /\ currentCounters' = {}
    /\ UNCHANGED <<m_GPUInfo, m_Snapshots, m_Histories, m_HistoryTimestamps,
                   m_PrevCounters, m_PrevSampleTime, missed>>
==============================================================================

--------------------------- MODULE SystemMetricsPanel ---------------------------
(***************************************************************************)
(* App::SystemMetricsPanel (src/src/App/Panels/SystemMetricsPanel.cpp and  *)
(* its sections), which refreshes the SystemModel, StorageModel and        *)
(* GPUModel it owns from onUpdate, in that order and on the UI thread, and *)
(* draws what they keep.                                                   *)
(*                                                                         *)
(* Of SystemModel (it has a module of its own) the panel needs the times   *)
(* of its entries and the interfaces of its snapshot; of ProcessModel,     *)
(* which a sampler thread refreshes, the times of its entries.             *)
(***************************************************************************)
EXTENDS StorageModel, GPUModel, Charts, FiniteSets, SequencesExt

CONSTANTS
    Interfaces,       \* names of network interfaces
    Total,            \* what the network section shows when none is selected
    HasProcessModel,  \* setProcessModel was called
    RefreshInterval,  \* m_RefreshInterval, in ticks: clampRefreshInterval leaves
                      \* no setting below REFRESH_INTERVAL_MIN_MS
    MaxDelta          \* MAX_DELTA_TIME of the main loop

ASSUME PanelAssumption ==
    /\ IsFiniteSet(Interfaces) /\ Total \notin Interfaces
    /\ HasProcessModel \in BOOLEAN
    /\ RefreshInterval \in Nat \ {0}
    /\ MaxDelta \in Nat

VARIABLES
    links,                  \* the machine's interfaces, as the kernel lists them
    interfaces,             \* snapshot().networkInterfaces of m_Model
    systemTimes,            \* timestamps() of m_Model, and each of its histories
    processTimes,           \* historyTimestamps() of m_ProcessModel, likewise
    m_TimestampsCache,
    m_RefreshAccumulatorSec,
    m_ForceRefresh,
    panelPc,                \* progress of onAttach or of a frame's updates:
                            \* idle, processes, system, storage, gpu, cache;
                            \* detached after onDetach
    lastFrame,              \* when onUpdate was last called; -1 in onAttach
    m_SelectedNetworkInterface,  \* 0 for the total, else a position
    smoothedNet,            \* whose rates the bars mix; empty: not initialized
    told,                   \* history variable: the deltaTimes since onAttach
    relisted                \* history variable: the list of interfaces changed
                            \* since one was selected

system == <<links, interfaces, systemTimes, processTimes>>
panel  == <<m_TimestampsCache, m_RefreshAccumulatorSec, m_ForceRefresh,
            panelPc, lastFrame, m_SelectedNetworkInterface, smoothedNet,
            told, relisted>>
vars   == <<clock, disks, storage, gpu, system, panel>>

\* onAttach has constructed the models and is about to refresh them.
Init ==
    /\ ClockInit
    /\ StorageInit
    /\ GpuInit
    /\ \E here \in SUBSET Interfaces : links \in SetToSeqs(here)
    /\ interfaces = <<>>
    /\ systemTimes = <<>>
    /\ processTimes = <<>>
    /\ m_TimestampsCache = <<>>
    /\ m_RefreshAccumulatorSec = 0
    /\ m_ForceRefresh = TRUE
    /\ panelPc = "system"
    /\ lastFrame = -1
    /\ m_SelectedNetworkInterface = 0
    /\ smoothedNet = {}
    /\ told = 0
    /\ relisted = FALSE

------------------------------------------------------------------------------
(* What happens around the panel.                                          *)

Tick == Advance /\ DisksWork /\ UNCHANGED <<storage, gpu, system, panel>>

Plug == \E d \in Devices : PlugOrUnplug(d) /\ UNCHANGED <<gpu, system, panel>>

\* An interface disappears, or appears at the end of the list.
Relink(name) ==
    /\ \/ \E i \in DOMAIN links : links[i] = name /\ links' = RemoveAt(links, i)
       \/ ~Contains(links, name) /\ links' = Append(links, name)
    /\ UNCHANGED <<clock, disks, storage, gpu, interfaces, systemTimes, processTimes,
                   panel>>

Windowed(times) == DropFront(times, TrimCount(times, MaxHistorySeconds))

------------------------------------------------------------------------------
(* Faulty variants, each a mistake that a property below must catch.       *)

\* The timestamps are taken before the models refresh.
CacheKept(times) == m_TimestampsCache

------------------------------------------------------------------------------
(* onAttach and onUpdate.                                                  *)

IntervalElapsed(accumulated) ==
    RefreshInterval > 0 /\ accumulated >= RefreshInterval

\* Whole intervals are taken off the accumulator.
Remainder(accumulated) ==
    IF RefreshInterval > 0 THEN accumulated % RefreshInterval ELSE 0

\* Frames take at least a tick (bound): two of them in one tick show no more.
OnUpdate ==
    /\ panelPc = "idle"
    /\ clock > lastFrame
    /\ LET deltaTime == Min({clock - lastFrame, MaxDelta})
           accumulated == m_RefreshAccumulatorSec + deltaTime
       IN  /\ m_RefreshAccumulatorSec' = accumulated
           /\ told' = told + deltaTime
           /\ panelPc' = IF m_ForceRefresh \/ IntervalElapsed(accumulated)
                         THEN IF HasProcessModel /\ IntervalElapsed(accumulated)
                              THEN "processes" ELSE "system"
                         ELSE "idle"
    /\ lastFrame' = clock
    /\ UNCHANGED <<clock, disks, storage, gpu, system, m_TimestampsCache,
                   m_ForceRefresh, m_SelectedNetworkInterface, smoothedNet, relisted>>

\* ProcessesPanel::onUpdate comes first in a frame; it has the same cadence
\* but for refreshes that were forced here.
RefreshProcesses ==
    /\ panelPc = "processes"
    /\ panelPc' = "system"
    /\ processTimes' = Windowed(Append(processTimes, clock))
    /\ UNCHANGED <<clock, disks, storage, gpu, links, interfaces, systemTimes,
                   m_TimestampsCache, m_RefreshAccumulatorSec, m_ForceRefresh, lastFrame,
                   m_SelectedNetworkInterface, smoothedNet, told, relisted>>

\* m_Model->setMaxHistorySeconds and refresh; the first refresh has nothing
\* to compare with and makes no entry.
RefreshSystem ==
    /\ panelPc = "system"
    /\ panelPc' = "storage"
    /\ interfaces' = links
    /\ systemTimes' = IF lastFrame = -1 THEN <<>>
                      ELSE Windowed(Append(systemTimes, clock))
    /\ relisted' = (relisted \/ links # interfaces)
    /\ UNCHANGED <<clock, disks, storage, gpu, links, processTimes, m_TimestampsCache,
                   m_RefreshAccumulatorSec, m_ForceRefresh, lastFrame,
                   m_SelectedNetworkInterface, smoothedNet, told>>

\* m_StorageModel->sample and m_GPUModel->refresh take their own steps.
PanelGoesTo(pc) ==
    /\ panelPc' = pc
    /\ UNCHANGED <<m_TimestampsCache, m_RefreshAccumulatorSec, m_ForceRefresh, lastFrame,
                   m_SelectedNetworkInterface, smoothedNet, told, relisted>>

RefreshStorage ==
    /\ panelPc = "storage"
    /\ \/ SampleStart /\ UNCHANGED panel
       \/ SampleRead /\ UNCHANGED panel
       \/ SampleCompute /\ PanelGoesTo("gpu")
    /\ UNCHANGED <<clock, gpu, system>>

RefreshGpu ==
    /\ panelPc = "gpu"
    /\ \/ GpuRead /\ UNCHANGED panel
       \/ GpuPublish /\ PanelGoesTo("cache")
       \/ GpuReadFails /\ PanelGoesTo("cache")
    /\ UNCHANGED <<clock, disks, storage, system>>

Cached(times) == times

\* The rest of onUpdate; after onAttach the main loop starts its clock.
RefreshDone ==
    /\ panelPc = "cache"
    /\ panelPc' = "idle"
    /\ m_TimestampsCache' = Cached(systemTimes)
    /\ m_ForceRefresh' = FALSE
    /\ m_RefreshAccumulatorSec' = Remainder(m_RefreshAccumulatorSec)
    /\ lastFrame' = IF lastFrame = -1 THEN clock ELSE lastFrame
    /\ UNCHANGED <<clock, disks, storage, gpu, system,
                   m_SelectedNetworkInterface, smoothedNet, told, relisted>>

RequestRefresh ==
    /\ panelPc = "idle"
    /\ ~m_ForceRefresh
    /\ m_ForceRefresh' = TRUE
    /\ UNCHANGED <<clock, disks, storage, gpu, system, m_TimestampsCache,
                   m_RefreshAccumulatorSec, panelPc, lastFrame,
                   m_SelectedNetworkInterface, smoothedNet, told, relisted>>

OnDetach ==
    /\ panelPc = "idle"
    /\ PanelGoesTo("detached")
    /\ UNCHANGED <<clock, disks, storage, gpu, system>>

------------------------------------------------------------------------------
(* What the sections draw.                                                 *)

\* The position clamped to the interfaces there are.
ClampedSelection == Min({m_SelectedNetworkInterface, Len(interfaces)})

NameAt(position) == IF position = 0 THEN Total ELSE interfaces[position]

\* renderNetworkSection clamps the selection and moves the bars towards the
\* rates of what is selected.
RenderNetwork ==
    /\ panelPc = "idle"
    /\ m_SelectedNetworkInterface' = ClampedSelection
    /\ smoothedNet' = smoothedNet \cup {NameAt(ClampedSelection)}
    /\ UNCHANGED <<clock, disks, storage, gpu, system, m_TimestampsCache,
                   m_RefreshAccumulatorSec, m_ForceRefresh, panelPc, lastFrame,
                   told, relisted>>

\* The bars after another interface was chosen: not initialized.
BarsAfterChoice(names) == {}

\* The user picks an entry of the list; the bars start again from its rates.
SelectInterface(position) ==
    /\ panelPc = "idle"
    /\ m_SelectedNetworkInterface' = position
    /\ smoothedNet' = BarsAfterChoice(smoothedNet) \cup {NameAt(position)}
    /\ relisted' = FALSE
    /\ UNCHANGED <<clock, disks, storage, gpu, system, m_TimestampsCache,
                   m_RefreshAccumulatorSec, m_ForceRefresh, panelPc, lastFrame, told>>

\* Histories of SystemModel against the cached timestamps: the overview's CPU
\* usage and its parts, the CPU tab's, memory with cache and swap, and a core
\* that has been online throughout.
CpuChart == Drawn(m_TimestampsCache, systemTimes, clock)
CpuTabChart == Drawn(m_TimestampsCache, systemTimes, clock)
MemoryChart == Drawn(m_TimestampsCache, systemTimes, clock)
CoreChart == [times   |-> buildTimeAxis(m_TimestampsCache, Len(systemTimes), clock),
              entries |-> systemTimes]

\* Histories against timestamps fetched in the same frame.
NetworkChart == Drawn(systemTimes, systemTimes, clock)
StorageChart == Drawn(m_Timestamps, m_Timestamps, clock)
ThreadsChart == Drawn(processTimes, processTimes, clock)
GpuCoreChart(g) == Drawn(m_HistoryTimestamps, m_Histories[g], clock)
GpuThermalChart(g) == Drawn(m_HistoryTimestamps, m_Histories[g], clock)

\* Power of the processes and charge of the battery share an axis: that of
\* the processes if it has a time, for as many entries as the longer has.
PowerChart ==
    LET align == IF processTimes # <<>> THEN processTimes ELSE m_TimestampsCache
        power == KeepLast(processTimes, Len(align))
        battery == KeepLast(systemTimes, Len(m_TimestampsCache))
    IN  [times   |-> buildTimeAxis(align, Max({Len(power), Len(battery)}), clock),
         power   |-> power,
         battery |-> battery]

------------------------------------------------------------------------------

\* Once detached, or at the end of time, the panel rests.
Done == (panelPc = "detached" \/ clock = MaxClock) /\ UNCHANGED vars

Next ==
    \/ Tick
    \/ Plug
    \/ \E name \in Interfaces : Relink(name)
    \/ OnUpdate
    \/ RefreshProcesses
    \/ RefreshSystem
    \/ RefreshStorage
    \/ RefreshGpu
    \/ RefreshDone
    \/ RequestRefresh
    \/ OnDetach
    \/ RenderNetwork
    \/ \E position \in 0 .. Len(interfaces) : SelectInterface(position)
    \/ Done

Spec == Init /\ [][Next]_vars

------------------------------------------------------------------------------
(* Properties.                                                             *)

\* A disk is never said to read faster than it can: a rate divides what was
\* read between two probe readings by a time that covers both (the clock is
\* read before the first of them and after the second).
DiskRateBounded ==
    \A d \in DOMAIN m_LatestSnapshot :
        m_LatestSnapshot[d].sectors <= DiskSpeed * m_LatestSnapshot[d].over

\* The rates of a disk account for every sector it read up to its last
\* sample, once, whatever readings failed and however long steps took; for a
\* disk that was unplugged, for no more than it read.
DisksAccounted ==
    \A d \in DOMAIN m_DiskStates :
        /\ accounted[d] <= m_DiskStates[d].lifetime
        /\ m_DiskStates[d].intact => accounted[d] = m_DiskStates[d].lifetime

\* A GPU's rates are of its own interval: they are divided by the time since
\* the counters they are compared with were published.
GpuIntervalOwn ==
    \A g \in DOMAIN m_Snapshots :
        m_Snapshots[g].over > 0 =>
            m_Snapshots[g].since + m_Snapshots[g].over = m_PrevSampleTime

\* An entry is drawn at its age, and every entry drawn has a point of the axis.
Timed(chart) ==
    \A i \in DOMAIN chart.entries :
        i \in DOMAIN chart.times /\ chart.times[i] + clock = chart.entries[i]

\* The charts of a GPU that no reading missed show every entry at the time it
\* was made, although timestamps and entries are trimmed apart.
GpuChartTrue ==
    \A g \in m_GPUInfo \ missed :
        Timed(GpuCoreChart(g)) /\ Timed(GpuThermalChart(g))

\* The charts of histories that are refreshed together show every entry at
\* the time it was made, in every frame: those against the timestamps cached
\* in onUpdate too.
ChartsTimed ==
    panelPc = "idle" =>
        /\ Timed(CpuChart) /\ Timed(CpuTabChart)
        /\ Timed(MemoryChart) /\ Timed(CoreChart)
        /\ Timed(NetworkChart) /\ Timed(StorageChart) /\ Timed(ThreadsChart)

\* No time that the main loop told of is lost or counted twice by the refresh
\* cadence, whatever refreshes were forced in between.
NoDrift ==
    panelPc = "idle" => m_RefreshAccumulatorSec = Remainder(told)

\* As long as the list of interfaces stays what it was when one was selected,
\* the bars show that interface and no trace of another.
NetBarsOfSelection ==
    ~relisted => smoothedNet \subseteq {NameAt(m_SelectedNetworkInterface)}

\* What storage, GPUs and the panel make of the refreshes (StorageModel.cpp,
\* GPUModel.cpp, SystemMetricsPanel.cpp), each the conjunction of the above.
DisksTrue == DiskRateBounded /\ DisksAccounted
GpusTrue == GpuIntervalOwn /\ GpuChartTrue
PanelTrue == ChartsTimed /\ NoDrift /\ NetBarsOfSelection

\* Every entry of the power chart has a point of its axis ("Align to
\* timestamps - use process timestamps as primary if available, else system
\* timestamps", renderOverview).
PowerChartTimed ==
    panelPc = "idle" =>
        /\ Len(PowerChart.power) <= Len(PowerChart.times)
        /\ Len(PowerChart.battery) <= Len(PowerChart.times)
==============================================================================

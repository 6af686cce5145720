------------------------ MODULE SystemMetricsPanel_proof ------------------------
(***************************************************************************)
(* Theorems about StorageModel, GPUModel and SystemMetricsPanel, for any   *)
(* disks, GPUs, interfaces, histories and refresh intervals.               *)
(***************************************************************************)
EXTENDS SystemMetricsPanel, TimeWindow_proof, FiniteSetTheorems

------------------------------------------------------------------------------
(* Lemmas about the operators.                                             *)

\* std::min of two numbers.
LEMMA MinOfTwo ==
    ASSUME NEW a \in Int, NEW b \in Int
    PROVE  Min({a, b}) = IF a < b THEN a ELSE b
<1>1. CASE a < b
  <2>1. \A x \in {a, b} : (\A y \in {a, b} : x =< y) <=> x = a
    BY <1>1
  <2>2. Min({a, b}) = CHOOSE x \in {a, b} : \A y \in {a, b} : x =< y
    BY DEF Min
  <2>. QED  BY <1>1, <2>1, <2>2
<1>2. CASE ~(a < b)
  <2>1. \A x \in {a, b} : (\A y \in {a, b} : x =< y) <=> x = b
    BY <1>2
  <2>2. Min({a, b}) = CHOOSE x \in {a, b} : \A y \in {a, b} : x =< y
    BY DEF Min
  <2>. QED  BY <1>2, <2>1, <2>2
<1>. QED  BY <1>1, <1>2

\* A history drawn against its own times shows every entry at its age.
LEMMA DrawnIsTimed ==
    ASSUME NEW ts \in Seq(Nat), clock \in Nat
    PROVE  /\ Timed(Drawn(ts, ts, clock))
           /\ Timed([times |-> buildTimeAxis(ts, Len(ts), clock), entries |-> ts])
<1>1. Len(ts) \in Nat /\ DOMAIN ts = 1 .. Len(ts) /\ \A i \in DOMAIN ts : ts[i] \in Nat
  OBVIOUS
<1>2. Min({Len(ts), Len(ts)}) = Len(ts)
  BY <1>1, MinOfTwo
<1>3. KeepLast(ts, Len(ts)) = ts
  BY <1>1 DEF KeepLast
<1>4. buildTimeAxis(ts, Len(ts), clock) = [i \in 1 .. Len(ts) |-> ts[Len(ts) - Len(ts) + i] - clock]
  BY <1>2 DEF buildTimeAxis
<1>5. \A i \in DOMAIN ts :
          /\ i \in DOMAIN buildTimeAxis(ts, Len(ts), clock)
          /\ buildTimeAxis(ts, Len(ts), clock)[i] + clock = ts[i]
  BY <1>1, <1>4
<1>. QED  BY <1>2, <1>3, <1>5 DEF Drawn, cropFrontToSize, Timed

\* A refresh that appends the present and trims leaves times.
LEMMA WindowedType ==
    ASSUME NEW ts \in Seq(Nat), NEW now \in Nat
    PROVE  /\ Windowed(Append(ts, now)) \in Seq(Nat)
           /\ trimHistory(Append(ts, now)) \in Seq(Nat)
<1>1. MaxHistorySeconds \in Nat
  BY StorageAssumption
<1>2. Append(ts, now) \in Seq(Nat) /\ Append(ts, now) # <<>>
  <2>1. Append(ts, now) \in Seq(Nat) /\ Len(Append(ts, now)) = Len(ts) + 1
    OBVIOUS
  <2>2. Len(ts) + 1 # 0 /\ Len(<<>>) = 0
    OBVIOUS
  <2>. QED  BY <2>1, <2>2
<1>3. TrimCount(Append(ts, now), MaxHistorySeconds) \in 0 .. Len(Append(ts, now)) - 1
  BY <1>1, <1>2, TrimCountStops
<1>4. DropFront(Append(ts, now), TrimCount(Append(ts, now), MaxHistorySeconds)) \in Seq(Nat)
  BY <1>2, <1>3, DropFrontFacts
<1>. QED  BY <1>4 DEF Windowed, trimHistory

\* Whole intervals do not change the remainder.
LEMMA RemainderIsUnique ==
    ASSUME NEW a \in Nat, NEW k \in Nat, a < RefreshInterval
    PROVE  Remainder(a + k * RefreshInterval) = a
<1>. RefreshInterval \in Nat \ {0}
  BY PanelAssumption
<1>. QED  BY DEF Remainder

LEMMA RemainderLeaves ==
    ASSUME NEW a \in Nat
    PROVE  /\ Remainder(a) \in Nat /\ Remainder(a) < RefreshInterval
           /\ \E k \in Nat : a = Remainder(a) + k * RefreshInterval
<1>. RefreshInterval \in Nat \ {0}
  BY PanelAssumption
<1>. QED  BY DEF Remainder

------------------------------------------------------------------------------
(* The panel.                                                              *)

\* What the charts draw: times, and the cached timestamps of a panel at rest
\* those of the system model.
TimesInv ==
    /\ clock \in Nat
    /\ sampleNow \in Int
    /\ storagePc # "idle" => sampleNow \in Nat
    /\ systemTimes \in Seq(Nat) /\ processTimes \in Seq(Nat) /\ m_Timestamps \in Seq(Nat)
    /\ panelPc \in {"idle", "detached"} => m_TimestampsCache = systemTimes

\* What the main loop told and the accumulator differ by whole intervals; at
\* rest less than one is accumulated.
CadenceInv ==
    /\ clock \in Nat /\ lastFrame \in Int
    /\ m_RefreshAccumulatorSec \in Nat
    /\ \E k \in Nat : told = m_RefreshAccumulatorSec + k * RefreshInterval
    /\ panelPc = "idle" => m_RefreshAccumulatorSec < RefreshInterval

\* While the list of interfaces stays what it was, the selection is one of
\* them and the bars are of it.
NetInv ==
    /\ links \in Seq(Interfaces) /\ interfaces \in Seq(Interfaces)
    /\ m_SelectedNetworkInterface \in Nat
    /\ ~relisted => /\ m_SelectedNetworkInterface <= Len(interfaces)
                    /\ smoothedNet \subseteq {NameAt(m_SelectedNetworkInterface)}

LEMMA TimesStep == ASSUME TimesInv, Next PROVE TimesInv'
<1> USE DEF storage, gpu, system, panel, disks, vars
<1>1. CASE Tick
  BY <1>1 DEF Tick, Advance, DisksWork, TimesInv
<1>2. CASE Plug
  BY <1>2 DEF Plug, PlugOrUnplug, TimesInv
<1>3. ASSUME NEW name \in Interfaces, Relink(name) PROVE TimesInv'
  BY <1>3 DEF Relink, TimesInv
<1>4. CASE OnUpdate
  BY <1>4 DEF OnUpdate, TimesInv
<1>5. CASE RefreshProcesses
  BY <1>5, WindowedType DEF RefreshProcesses, TimesInv
<1>6. CASE RefreshSystem
  BY <1>6, WindowedType DEF RefreshSystem, TimesInv
<1>7. CASE RefreshStorage
  <2>1. CASE SampleStart /\ UNCHANGED panel
    BY <1>7, <2>1 DEF RefreshStorage, SampleStart, TimesInv
  <2>2. CASE SampleRead /\ UNCHANGED panel
    BY <1>7, <2>2 DEF RefreshStorage, SampleRead, TimesInv
  <2>3. CASE SampleCompute /\ PanelGoesTo("gpu")
    BY <1>7, <2>3, WindowedType DEF RefreshStorage, SampleCompute, PanelGoesTo, TimesInv
  <2>. QED  BY <1>7, <2>1, <2>2, <2>3 DEF RefreshStorage
<1>8. CASE RefreshGpu
  BY <1>8 DEF RefreshGpu, PanelGoesTo, TimesInv
<1>9. CASE RefreshDone
  BY <1>9 DEF RefreshDone, Cached, TimesInv
<1>10. CASE RequestRefresh
  BY <1>10 DEF RequestRefresh, TimesInv
<1>11. CASE OnDetach
  BY <1>11 DEF OnDetach, PanelGoesTo, TimesInv
<1>12. CASE RenderNetwork
  BY <1>12 DEF RenderNetwork, TimesInv
<1>13. ASSUME NEW position \in 0 .. Len(interfaces), SelectInterface(position) PROVE TimesInv'
  BY <1>13 DEF SelectInterface, TimesInv
<1>14. CASE Done
  BY <1>14 DEF Done, TimesInv
<1>. QED  BY <1>1, <1>2, <1>3, <1>4, <1>5, <1>6, <1>7, <1>8, <1>9, <1>10, <1>11, <1>12, <1>13,
              <1>14 DEF Next

LEMMA CadenceStep == ASSUME CadenceInv, Next PROVE CadenceInv'
<1> USE DEF storage, gpu, system, panel, disks, vars
<1>0. RefreshInterval \in Nat \ {0} /\ MaxDelta \in Nat
  BY PanelAssumption
<1>1. CASE Tick
  BY <1>1 DEF Tick, Advance, DisksWork, CadenceInv
<1>2. CASE Plug
  BY <1>2 DEF Plug, PlugOrUnplug, CadenceInv
<1>3. ASSUME NEW name \in Interfaces, Relink(name) PROVE CadenceInv'
  BY <1>3 DEF Relink, CadenceInv
<1>4. CASE OnUpdate
  <2>1. PICK delta \in Nat : /\ m_RefreshAccumulatorSec' = m_RefreshAccumulatorSec + delta
                            /\ told' = told + delta
    <3>1. Min({clock - lastFrame, MaxDelta}) \in Nat
      BY <1>0, <1>4, MinOfTwo DEF OnUpdate, CadenceInv
    <3>. QED  BY <1>4, <3>1 DEF OnUpdate
  <2>2. PICK k \in Nat : told = m_RefreshAccumulatorSec + k * RefreshInterval
    BY DEF CadenceInv
  <2>3. told' = m_RefreshAccumulatorSec' + k * RefreshInterval
    <3>1. k * RefreshInterval \in Nat
      BY <1>0
    <3>. QED  BY <2>1, <2>2, <3>1 DEF CadenceInv
  <2>4. m_RefreshAccumulatorSec' \in Nat
    BY <2>1 DEF CadenceInv
  <2>5. panelPc' = "idle" => m_RefreshAccumulatorSec' < RefreshInterval
    BY <1>0, <1>4, <2>4 DEF OnUpdate, IntervalElapsed
  <2>. QED  BY <1>4, <2>3, <2>4, <2>5 DEF OnUpdate, CadenceInv
<1>5. CASE RefreshProcesses
  BY <1>5 DEF RefreshProcesses, CadenceInv
<1>6. CASE RefreshSystem
  BY <1>6 DEF RefreshSystem, CadenceInv
<1>7. CASE RefreshStorage
  BY <1>7 DEF RefreshStorage, PanelGoesTo, CadenceInv
<1>8. CASE RefreshGpu
  BY <1>8 DEF RefreshGpu, PanelGoesTo, CadenceInv
<1>9. CASE RefreshDone
  <2>1. PICK k \in Nat : told = m_RefreshAccumulatorSec + k * RefreshInterval
    BY DEF CadenceInv
  <2>2. PICK n \in Nat : m_RefreshAccumulatorSec
                            = Remainder(m_RefreshAccumulatorSec) + n * RefreshInterval
    BY RemainderLeaves DEF CadenceInv
  <2>3. /\ m_RefreshAccumulatorSec' \in Nat /\ m_RefreshAccumulatorSec' < RefreshInterval
        /\ m_RefreshAccumulatorSec' = Remainder(m_RefreshAccumulatorSec)
    BY <1>9, RemainderLeaves DEF RefreshDone, CadenceInv
  <2>4. told' = m_RefreshAccumulatorSec' + (k + n) * RefreshInterval
    <3>1. /\ (k + n) * RefreshInterval = k * RefreshInterval + n * RefreshInterval
          /\ k * RefreshInterval \in Nat /\ n * RefreshInterval \in Nat
      BY <1>0
    <3>. QED  BY <1>9, <2>1, <2>2, <2>3, <3>1 DEF RefreshDone
  <2>5. k + n \in Nat
    OBVIOUS
  <2>. QED  BY <1>9, <2>3, <2>4, <2>5 DEF RefreshDone, CadenceInv
<1>10. CASE RequestRefresh
  BY <1>10 DEF RequestRefresh, CadenceInv
<1>11. CASE OnDetach
  BY <1>11 DEF OnDetach, PanelGoesTo, CadenceInv
<1>12. CASE RenderNetwork
  BY <1>12 DEF RenderNetwork, CadenceInv
<1>13. ASSUME NEW position \in 0 .. Len(interfaces), SelectInterface(position) PROVE CadenceInv'
  BY <1>13 DEF SelectInterface, CadenceInv
<1>14. CASE Done
  BY <1>14 DEF Done, CadenceInv
<1>. QED  BY <1>1, <1>2, <1>3, <1>4, <1>5, <1>6, <1>7, <1>8, <1>9, <1>10, <1>11, <1>12, <1>13,
              <1>14 DEF Next

LEMMA NetStep == ASSUME NetInv, Next PROVE NetInv'
<1> USE DEF storage, gpu, system, panel, disks, vars
<1>1. CASE Tick
  BY <1>1 DEF Tick, NetInv, NameAt
<1>2. CASE Plug
  BY <1>2 DEF Plug, PlugOrUnplug, NetInv, NameAt
<1>3. ASSUME NEW name \in Interfaces, Relink(name) PROVE NetInv'
  <2>1. links' \in Seq(Interfaces)
    <3>1. CASE \E i \in DOMAIN links : links' = RemoveAt(links, i)
      <4>1. PICK i \in DOMAIN links : links' = RemoveAt(links, i)
        BY <3>1
      <4>2. i \in Nat /\ i >= 1 /\ i <= Len(links) /\ Len(links) \in Nat
        BY DEF NetInv
      <4>3. /\ SubSeq(links, 1, i - 1) \in Seq(Interfaces)
            /\ SubSeq(links, i + 1, Len(links)) \in Seq(Interfaces)
        BY <4>2 DEF NetInv
      <4>. QED  BY <4>1, <4>3 DEF RemoveAt
    <3>2. CASE links' = Append(links, name)
      BY <1>3, <3>2 DEF NetInv
    <3>. QED  BY <1>3, <3>1, <3>2 DEF Relink
  <2>. QED  BY <1>3, <2>1 DEF Relink, NetInv, NameAt
<1>4. CASE OnUpdate
  BY <1>4 DEF OnUpdate, NetInv, NameAt
<1>5. CASE RefreshProcesses
  BY <1>5 DEF RefreshProcesses, NetInv, NameAt
<1>6. CASE RefreshSystem
  BY <1>6 DEF RefreshSystem, NetInv, NameAt
<1>7. CASE RefreshStorage
  BY <1>7 DEF RefreshStorage, PanelGoesTo, NetInv, NameAt
<1>8. CASE RefreshGpu
  BY <1>8 DEF RefreshGpu, PanelGoesTo, NetInv, NameAt
<1>9. CASE RefreshDone
  BY <1>9 DEF RefreshDone, NetInv, NameAt
<1>10. CASE RequestRefresh
  BY <1>10 DEF RequestRefresh, NetInv, NameAt
<1>11. CASE OnDetach
  BY <1>11 DEF OnDetach, PanelGoesTo, NetInv, NameAt
<1>12. CASE RenderNetwork
  <2>1. Len(interfaces) \in Nat /\ m_SelectedNetworkInterface \in Nat
    BY DEF NetInv
  <2>2. ClampedSelection = IF m_SelectedNetworkInterface < Len(interfaces)
                           THEN m_SelectedNetworkInterface ELSE Len(interfaces)
    BY <2>1, MinOfTwo DEF ClampedSelection
  <2>3. /\ ClampedSelection \in Nat
        /\ ~relisted => ClampedSelection = m_SelectedNetworkInterface
    BY <2>1, <2>2 DEF NetInv
  <2>. QED  BY <1>12, <2>3 DEF RenderNetwork, NetInv, NameAt
<1>13. ASSUME NEW position \in 0 .. Len(interfaces), SelectInterface(position) PROVE NetInv'
  BY <1>13 DEF SelectInterface, BarsAfterChoice, NetInv, NameAt
<1>14. CASE Done
  BY <1>14 DEF Done, NetInv, NameAt
<1>. QED  BY <1>1, <1>2, <1>3, <1>4, <1>5, <1>6, <1>7, <1>8, <1>9, <1>10, <1>11, <1>12, <1>13,
              <1>14 DEF Next

\* The kernel lists each of finitely many interfaces once.
LEMMA ListsOfInterfaces ==
    ASSUME NEW here \in SUBSET Interfaces, NEW list \in SetToSeqs(here)
    PROVE  list \in Seq(Interfaces)
<1>1. IsFiniteSet(here)
  BY PanelAssumption, FS_Subset
<1>2. Cardinality(here) \in Nat
  BY <1>1, FS_CardinalityType
<1>3. list \in [1 .. Cardinality(here) -> here]
  BY DEF SetToSeqs
<1>4. list \in [1 .. Cardinality(here) -> Interfaces]
  BY <1>3
<1>. QED  BY <1>2, <1>4

LEMMA PanelInit == Init => TimesInv /\ CadenceInv /\ NetInv
  BY PanelAssumption, ListsOfInterfaces
  DEF Init, ClockInit, StorageInit, TimesInv, CadenceInv, NetInv, NameAt

\* A panel at rest draws every history it keeps at its times, drops no time
\* the main loop told it of, and smooths the rates of the interface that is
\* selected (SystemMetricsPanel.cpp and its sections).
THEOREM PanelAlwaysTrue == Spec => []PanelTrue
<1>1. TimesInv /\ CadenceInv /\ NetInv => PanelTrue
  <2> SUFFICES ASSUME TimesInv, CadenceInv, NetInv PROVE PanelTrue
    OBVIOUS
  <2>1. ChartsTimed
    <3> SUFFICES ASSUME panelPc = "idle"
                 PROVE  /\ Timed(CpuChart) /\ Timed(CpuTabChart)
                        /\ Timed(MemoryChart) /\ Timed(CoreChart)
                        /\ Timed(NetworkChart) /\ Timed(StorageChart) /\ Timed(ThreadsChart)
      BY DEF ChartsTimed
    <3>1. m_TimestampsCache = systemTimes /\ clock \in Nat
      BY DEF TimesInv
    <3>2. /\ systemTimes \in Seq(Nat) /\ processTimes \in Seq(Nat)
          /\ m_Timestamps \in Seq(Nat)
      BY DEF TimesInv
    <3>3. Timed(NetworkChart) /\ Timed(StorageChart) /\ Timed(ThreadsChart)
      BY <3>1, <3>2, DrawnIsTimed DEF NetworkChart, StorageChart, ThreadsChart
    <3>4. Timed(Drawn(systemTimes, systemTimes, clock))
          /\ Timed([times |-> buildTimeAxis(systemTimes, Len(systemTimes), clock),
                    entries |-> systemTimes])
      BY <3>1, <3>2, DrawnIsTimed
    <3>. QED  BY <3>1, <3>3, <3>4 DEF CpuChart, CpuTabChart, MemoryChart, CoreChart
  <2>2. NoDrift
    <3> SUFFICES ASSUME panelPc = "idle" PROVE m_RefreshAccumulatorSec = Remainder(told)
      BY DEF NoDrift
    <3>. QED  BY RemainderIsUnique DEF CadenceInv
  <2>3. NetBarsOfSelection
    BY DEF NetInv, NetBarsOfSelection
  <2>. QED  BY <2>1, <2>2, <2>3 DEF PanelTrue
<1>2. ASSUME TimesInv, CadenceInv, NetInv, UNCHANGED vars
      PROVE  TimesInv' /\ CadenceInv' /\ NetInv'
  BY <1>2 DEF vars, panel, system, gpu, storage, disks, TimesInv, CadenceInv, NetInv, NameAt
<1>3. TimesInv /\ CadenceInv /\ NetInv /\ [Next]_vars => TimesInv' /\ CadenceInv' /\ NetInv'
  BY <1>2, TimesStep, CadenceStep, NetStep
<1>. QED  BY PanelInit, <1>1, <1>3, PTL DEF Spec

------------------------------------------------------------------------------
(* The GPUs.                                                               *)

\* Counters kept are of the last refresh, and a GPU that no reading missed has
\* an entry for every timestamp.
GpuInv ==
    /\ clock \in Nat /\ m_PrevSampleTime \in Nat /\ m_PrevSampleTime <= clock
    /\ m_GPUInfo \subseteq Gpus
    /\ \A g \in DOMAIN m_PrevCounters : m_PrevCounters[g] = m_PrevSampleTime
    /\ GpuIntervalOwn
    /\ m_HistoryTimestamps \in Seq(Nat)
    /\ \A g \in m_GPUInfo \ missed : m_Histories[g] = m_HistoryTimestamps

LEMMA GpuPublishStep ==
    ASSUME GpuInv, GpuPublish, clock' = clock
    PROVE  GpuInv'
<1>1. GpuIntervalOwn'
  <2> SUFFICES ASSUME NEW g \in currentCounters, computeSnapshot(g).over > 0
               PROVE  computeSnapshot(g).since + computeSnapshot(g).over = clock
    BY DEF GpuPublish, GpuIntervalOwn
  <2>1. g \in DOMAIN m_PrevCounters /\ clock > m_PrevSampleTime
    BY DEF computeSnapshot
  <2>2. /\ computeSnapshot(g).since = m_PrevSampleTime
        /\ computeSnapshot(g).over = clock - m_PrevSampleTime
    BY <2>1 DEF computeSnapshot, GpuInv
  <2>. QED  BY <2>2 DEF GpuInv
<1>2. /\ m_HistoryTimestamps' = KeepLast(Append(m_HistoryTimestamps, clock), GpuCapacity)
      /\ m_HistoryTimestamps' \in Seq(Nat)
  <2>1. Append(m_HistoryTimestamps, clock) \in Seq(Nat) /\ GpuCapacity \in Nat
    BY GpuAssumption DEF GpuInv
  <2>. QED  BY <2>1, KeepLastLength DEF GpuPublish, Trimmed
<1>3. ASSUME NEW g \in m_GPUInfo' \ missed'
      PROVE  m_Histories'[g] = m_HistoryTimestamps'
  <2>1. g \in m_GPUInfo \ missed /\ g \in currentCounters
    BY <1>3 DEF GpuPublish, GpuInv
  <2>2. m_Histories'[g] = KeepLast(Append(m_Histories[g], clock), GpuCapacity)
    BY <2>1 DEF GpuPublish
  <2>. QED  BY <1>2, <2>1, <2>2 DEF GpuInv
<1>4. \A g \in DOMAIN m_PrevCounters' : m_PrevCounters'[g] = m_PrevSampleTime'
  BY DEF GpuPublish, Previous
<1>. QED  BY <1>1, <1>2, <1>3, <1>4 DEF GpuPublish, GpuInv

LEMMA GpuStep == ASSUME GpuInv, Next PROVE GpuInv'
<1> USE DEF storage, gpu, system, panel, disks, vars
<1>1. CASE Tick
  BY <1>1 DEF Tick, Advance, GpuInv, GpuIntervalOwn
<1>2. CASE RefreshGpu
  <2>1. CASE GpuPublish
    BY <1>2, <2>1, GpuPublishStep DEF RefreshGpu
  <2>2. CASE GpuRead
    BY <1>2, <2>2 DEF RefreshGpu, GpuRead, GpuInv, GpuIntervalOwn
  <2>3. CASE GpuReadFails
    BY <1>2, <2>3 DEF RefreshGpu, GpuReadFails, GpuInv, GpuIntervalOwn
  <2>. QED  BY <1>2, <2>1, <2>2, <2>3 DEF RefreshGpu
<1>3. CASE UNCHANGED <<clock, gpu>>
  BY <1>3 DEF GpuInv, GpuIntervalOwn
<1>4. ~Tick /\ ~RefreshGpu => UNCHANGED <<clock, gpu>>
  BY DEF Next, Plug, PlugOrUnplug, Relink, OnUpdate, RefreshProcesses, RefreshSystem,
         RefreshStorage, RefreshDone, RequestRefresh, OnDetach, RenderNetwork,
         SelectInterface, Done
<1>. QED  BY <1>1, <1>2, <1>3, <1>4

\* A GPU's rates are divided by the interval its counters span, and as long as
\* no reading missed it its charts show each entry at its time, whatever
\* readings failed (GPUModel.cpp, GpuSection.cpp).
THEOREM GpusAlwaysTrue == Spec => []GpusTrue
<1>1. Init => GpuInv
  BY DEF Init, ClockInit, GpuInit, GpuInv, GpuIntervalOwn
<1>2. GpuInv /\ [Next]_vars => GpuInv'
  <2>1. ASSUME GpuInv, UNCHANGED vars PROVE GpuInv'
    BY <2>1 DEF vars, gpu, GpuInv, GpuIntervalOwn
  <2>. QED  BY <2>1, GpuStep
<1>3. GpuInv => GpusTrue
  <2> SUFFICES ASSUME GpuInv PROVE GpuChartTrue
    BY DEF GpuInv, GpusTrue
  <2> SUFFICES ASSUME NEW g \in m_GPUInfo \ missed
               PROVE  Timed(GpuCoreChart(g)) /\ Timed(GpuThermalChart(g))
    BY DEF GpuChartTrue
  <2>1. m_Histories[g] = m_HistoryTimestamps /\ m_HistoryTimestamps \in Seq(Nat) /\ clock \in Nat
    BY DEF GpuInv
  <2>2. Timed(Drawn(m_HistoryTimestamps, m_HistoryTimestamps, clock))
    BY <2>1, DrawnIsTimed
  <2>. QED  BY <2>1, <2>2 DEF GpuCoreChart, GpuThermalChart
<1>. QED  BY <1>1, <1>2, <1>3, PTL DEF Spec

------------------------------------------------------------------------------
(* The disks.                                                              *)

\* What a disk can read in a time, in the parts the steps below need.
Reach(ticks) == DiskSpeed * ticks

LEMMA ReachFacts ==
    ASSUME NEW n \in Nat
    PROVE  Reach(n) \in Nat /\ Reach(n + 1) = Reach(n) + DiskSpeed
<1>1. DiskSpeed \in Nat
  BY StorageAssumption
<1>. QED  BY <1>1 DEF Reach

\* Sectors of a disk that its counter does not show: those from before it was
\* unplugged.
Lost(d) == IF d \in DOMAIN sectors THEN lifetime[d] - sectors[d] ELSE lifetime[d]

IsReading(r) ==
    /\ r.sectors \in Nat /\ r.lifetime \in Nat
    /\ r.sectors <= r.lifetime
    /\ r.intact <=> r.sectors = r.lifetime

DiskTypeInv ==
    /\ clock \in Nat
    /\ storagePc \in {"idle", "read", "compute"}
    /\ sampleNow \in Int /\ sampleNow <= clock
    /\ storagePc # "idle" => sampleNow \in Nat
    /\ DOMAIN sectors \subseteq Devices
    /\ \A d \in DOMAIN sectors :
           sectors[d] \in Nat /\ sectors[d] <= lifetime[d]
    /\ \A d \in Devices : lifetime[d] \in Nat /\ accounted[d] \in Nat

\* A disk's state is a reading not ahead of the disk, of a sample that began
\* before the present one; up to it the rates account for what they should.
StateInv(d) ==
    LET r == m_DiskStates[d]
    IN  /\ d \in Devices /\ IsReading(r)
        /\ r.time \in Nat /\ r.time <= sampleNow
        /\ storagePc # "idle" => r.time < sampleNow
        /\ r.lifetime <= lifetime[d]
        /\ r.lifetime - r.sectors <= Lost(d)
        /\ d \in DOMAIN sectors => sectors[d] <= r.sectors + Reach(clock - r.time)
        /\ accounted[d] <= r.lifetime
        /\ r.intact => accounted[d] = r.lifetime

\* A counter held by sample() is a reading not ahead of the disk either, and
\* not behind its state.
CounterInv(d) ==
    LET c == counters[d]
        r == m_DiskStates[d]
    IN  /\ d \in Devices /\ IsReading(c)
        /\ c.lifetime <= lifetime[d]
        /\ c.lifetime - c.sectors <= Lost(d)
        /\ d \in DOMAIN sectors => sectors[d] <= c.sectors + Reach(clock - sampleNow)
        /\ d \in DOMAIN m_DiskStates =>
               /\ r.lifetime <= c.lifetime
               /\ r.lifetime - r.sectors <= c.lifetime - c.sectors
               /\ c.sectors <= r.sectors + Reach(clock - r.time)

SnapshotInv(d) ==
    m_LatestSnapshot[d].sectors <= Reach(m_LatestSnapshot[d].over)

DiskInv ==
    /\ DiskTypeInv
    /\ storagePc # "compute" => counters = <<>>
    /\ \A d \in DOMAIN m_DiskStates : StateInv(d)
    /\ \A d \in DOMAIN counters : CounterInv(d)
    /\ \A d \in DOMAIN m_LatestSnapshot : SnapshotInv(d)

\* A tick: every disk reads at most at its speed, and what it reads its
\* counter shows.
LEMMA DisksTick ==
    ASSUME DiskInv, Tick
    PROVE  DiskInv'
<1>1. PICK busy \in SUBSET DOMAIN sectors :
          /\ sectors' = [d \in DOMAIN sectors |->
                IF d \in busy THEN sectors[d] + DiskSpeed ELSE sectors[d]]
          /\ lifetime' = [d \in Devices |->
                IF d \in busy THEN lifetime[d] + DiskSpeed ELSE lifetime[d]]
  BY DEF Tick, DisksWork
<1>2. /\ clock \in Nat /\ clock' = clock + 1
      /\ UNCHANGED <<m_DiskStates, m_LatestSnapshot, storagePc, sampleNow, counters, accounted>>
  BY DEF Tick, Advance, storage, DiskInv, DiskTypeInv
<1>3. DOMAIN sectors' = DOMAIN sectors /\ DOMAIN sectors \subseteq Devices
  BY <1>1 DEF DiskInv, DiskTypeInv
<1>4. DiskSpeed \in Nat
  BY StorageAssumption
<1>5. ASSUME NEW d \in Devices
      PROVE  /\ lifetime[d] \in Nat /\ lifetime'[d] \in Nat /\ lifetime[d] <= lifetime'[d]
             /\ d \in DOMAIN sectors =>
                    /\ sectors[d] \in Nat /\ sectors'[d] \in Nat
                    /\ sectors'[d] <= lifetime'[d]
                    /\ sectors'[d] <= sectors[d] + DiskSpeed
             /\ Lost(d)' = Lost(d)
  <2>1. lifetime[d] \in Nat /\ accounted[d] \in Nat
    BY DEF DiskInv, DiskTypeInv
  <2>2. CASE d \in busy
    <3>1. /\ d \in DOMAIN sectors /\ sectors[d] \in Nat /\ sectors[d] <= lifetime[d]
          /\ sectors'[d] = sectors[d] + DiskSpeed /\ lifetime'[d] = lifetime[d] + DiskSpeed
      BY <1>1, <2>2 DEF DiskInv, DiskTypeInv
    <3>2. Lost(d)' = lifetime'[d] - sectors'[d] /\ Lost(d) = lifetime[d] - sectors[d]
      BY <1>3, <3>1 DEF Lost
    <3>. QED  BY <1>4, <2>1, <3>1, <3>2
  <2>3. CASE d \notin busy
    <3>1. /\ lifetime'[d] = lifetime[d]
          /\ d \in DOMAIN sectors => /\ sectors[d] \in Nat /\ sectors[d] <= lifetime[d]
                                     /\ sectors'[d] = sectors[d]
      BY <1>1, <2>3 DEF DiskInv, DiskTypeInv
    <3>2. Lost(d)' = Lost(d)
      BY <1>3, <3>1 DEF Lost
    <3>. QED  BY <1>4, <2>1, <3>1, <3>2
  <2>. QED  BY <2>2, <2>3
<1>6. ASSUME NEW t \in Int, t <= clock
      PROVE  Reach(clock' - t) = Reach(clock - t) + DiskSpeed /\ Reach(clock - t) \in Nat
  <2>1. clock - t \in Nat /\ clock' - t = (clock - t) + 1
    BY <1>2, <1>6
  <2>. QED  BY <2>1, ReachFacts
<1>7. DiskTypeInv'
  BY <1>2, <1>3, <1>5 DEF DiskInv, DiskTypeInv
<1>8. ASSUME NEW d \in DOMAIN m_DiskStates PROVE StateInv(d)'
  <2>1. StateInv(d) /\ sampleNow \in Int /\ sampleNow <= clock
    BY <1>8 DEF DiskInv, DiskTypeInv
  <2>2. PICK r : r = m_DiskStates[d]
    OBVIOUS
  <2>3. d \in Devices /\ r.time \in Nat /\ r.time <= clock /\ r.sectors \in Nat /\ r.lifetime \in Nat
    BY <1>2, <2>1, <2>2 DEF StateInv, IsReading
  <2>4. Reach(clock' - r.time) = Reach(clock - r.time) + DiskSpeed /\ Reach(clock - r.time) \in Nat
    BY <1>6, <2>3
  <2>5. d \in DOMAIN sectors' => sectors'[d] <= r.sectors + Reach(clock' - r.time)
    <3>1. d \in DOMAIN sectors => sectors[d] <= r.sectors + Reach(clock - r.time)
      BY <2>1, <2>2 DEF StateInv
    <3>. QED  BY <1>3, <1>4, <1>5, <2>3, <2>4, <3>1
  <2>6. r.lifetime <= lifetime'[d] /\ r.lifetime - r.sectors <= Lost(d)'
    BY <1>5, <2>1, <2>2, <2>3 DEF StateInv
  <2>. QED  BY <1>2, <2>1, <2>2, <2>3, <2>5, <2>6 DEF StateInv
<1>9. ASSUME NEW d \in DOMAIN counters PROVE CounterInv(d)'
  <2>1. /\ CounterInv(d) /\ sampleNow \in Int /\ sampleNow <= clock
        /\ d \in DOMAIN m_DiskStates => StateInv(d)
    BY <1>9 DEF DiskInv, DiskTypeInv
  <2>2. PICK c : c = counters[d]
    OBVIOUS
  <2>3. d \in Devices /\ c.sectors \in Nat /\ c.lifetime \in Nat
    BY <2>1, <2>2 DEF CounterInv, IsReading
  <2>4. d \in DOMAIN sectors' => sectors'[d] <= c.sectors + Reach(clock' - sampleNow)
    <3>1. d \in DOMAIN sectors => sectors[d] <= c.sectors + Reach(clock - sampleNow)
      BY <2>1, <2>2 DEF CounterInv
    <3>2. Reach(clock' - sampleNow) = Reach(clock - sampleNow) + DiskSpeed
          /\ Reach(clock - sampleNow) \in Nat
      BY <1>6, <2>1
    <3>. QED  BY <1>3, <1>4, <1>5, <2>3, <3>1, <3>2
  <2>5. c.lifetime <= lifetime'[d] /\ c.lifetime - c.sectors <= Lost(d)'
    BY <1>5, <2>1, <2>2, <2>3 DEF CounterInv
  <2>6. ASSUME d \in DOMAIN m_DiskStates
        PROVE  c.sectors <= m_DiskStates[d].sectors + Reach(clock' - m_DiskStates[d].time)
    <3>1. PICK r : r = m_DiskStates[d]
      OBVIOUS
    <3>2. r.time \in Nat /\ r.time <= clock /\ r.sectors \in Nat
      BY <1>2, <2>1, <2>6, <3>1 DEF StateInv, IsReading
    <3>3. c.sectors <= r.sectors + Reach(clock - r.time)
      BY <2>1, <2>2, <2>6, <3>1 DEF CounterInv
    <3>4. Reach(clock' - r.time) = Reach(clock - r.time) + DiskSpeed /\ Reach(clock - r.time) \in Nat
      BY <1>6, <3>2
    <3>. QED  BY <1>4, <2>3, <3>1, <3>2, <3>3, <3>4
  <2>. QED  BY <1>2, <2>1, <2>2, <2>3, <2>4, <2>5, <2>6 DEF CounterInv
<1>. QED  BY <1>2, <1>7, <1>8, <1>9 DEF DiskInv, SnapshotInv

\* A disk is unplugged or plugged in: its counter shows less, what it read
\* stays.
LEMMA DisksPlug ==
    ASSUME DiskInv, NEW d \in Devices, PlugOrUnplug(d)
    PROVE  DiskInv'
<1>1. /\ UNCHANGED <<clock, lifetime, m_DiskStates, m_LatestSnapshot, storagePc, sampleNow,
                     counters, accounted>>
      /\ clock \in Nat /\ sampleNow \in Int /\ sampleNow <= clock
  BY DEF PlugOrUnplug, storage, DiskInv, DiskTypeInv
<1>2. ASSUME NEW e \in Devices
      PROVE  /\ lifetime[e] \in Nat /\ Lost(e) \in Nat /\ Lost(e)' \in Nat /\ Lost(e) <= Lost(e)'
             /\ e \in DOMAIN sectors' =>
                    /\ sectors'[e] \in Nat /\ sectors'[e] <= lifetime[e]
                    /\ sectors'[e] = 0 \/ (e \in DOMAIN sectors /\ sectors'[e] = sectors[e])
  <2>1. lifetime[e] \in Nat
        /\ (e \in DOMAIN sectors => sectors[e] \in Nat /\ sectors[e] <= lifetime[e])
    BY DEF DiskInv, DiskTypeInv
  <2>2. CASE d \in DOMAIN sectors
    <3>1. /\ DOMAIN sectors' = DOMAIN sectors \ {d}
          /\ \A x \in DOMAIN sectors' : sectors'[x] = sectors[x]
      BY <2>2 DEF PlugOrUnplug
    <3>. QED  BY <1>1, <2>1, <3>1 DEF Lost
  <2>3. CASE d \notin DOMAIN sectors
    <3>1. /\ DOMAIN sectors' = DOMAIN sectors \cup {d}
          /\ \A x \in DOMAIN sectors : sectors'[x] = sectors[x]
          /\ sectors'[d] = 0
      BY <2>3 DEF PlugOrUnplug
    <3>2. CASE e = d
      <4>1. Lost(e) = lifetime[e] /\ sectors'[e] = 0
        BY <2>3, <3>1, <3>2 DEF Lost
      <4>2. Lost(e)' = lifetime[e]
        <5>1. Lost(e)' = lifetime[e] - 0
          BY <1>1, <3>1, <3>2 DEF Lost
        <5>. QED  BY <2>1, <5>1
      <4>. QED  BY <2>1, <4>1, <4>2
    <3>3. CASE e # d
      <4>1. (e \in DOMAIN sectors') <=> (e \in DOMAIN sectors)
        BY <3>1, <3>3
      <4>2. Lost(e)' = Lost(e)
        BY <1>1, <3>1, <4>1 DEF Lost
      <4>3. Lost(e) \in Nat
        BY <2>1 DEF Lost
      <4>. QED  BY <2>1, <3>1, <4>1, <4>2, <4>3
    <3>. QED  BY <3>2, <3>3
  <2>. QED  BY <2>2, <2>3
<1>3. DOMAIN sectors' \subseteq Devices
  BY DEF PlugOrUnplug, DiskInv, DiskTypeInv
<1>4. DiskTypeInv'
  BY <1>1, <1>2, <1>3 DEF DiskInv, DiskTypeInv
<1>5. ASSUME NEW t \in Int, t <= clock PROVE Reach(clock - t) \in Nat
  BY <1>1, <1>5, ReachFacts
<1>6. ASSUME NEW e \in DOMAIN m_DiskStates PROVE StateInv(e)'
  <2>1. StateInv(e) /\ e \in Devices
    BY <1>6 DEF DiskInv, StateInv
  <2>2. PICK r : r = m_DiskStates[e]
    OBVIOUS
  <2>3. r.time \in Nat /\ r.time <= clock /\ r.sectors \in Nat /\ r.lifetime \in Nat
    BY <1>1, <2>1, <2>2 DEF StateInv, IsReading
  <2>4. r.lifetime - r.sectors <= Lost(e)'
    BY <1>2, <2>1, <2>2, <2>3 DEF StateInv
  <2>5. e \in DOMAIN sectors' => sectors'[e] <= r.sectors + Reach(clock - r.time)
    <3>1. Reach(clock - r.time) \in Nat
      BY <1>5, <2>3
    <3>2. e \in DOMAIN sectors => sectors[e] <= r.sectors + Reach(clock - r.time)
      BY <2>1, <2>2 DEF StateInv
    <3>. QED  BY <1>2, <2>1, <2>3, <3>1, <3>2
  <2>. QED  BY <1>1, <2>1, <2>2, <2>4, <2>5 DEF StateInv
<1>7. ASSUME NEW e \in DOMAIN counters PROVE CounterInv(e)'
  <2>1. CounterInv(e) /\ e \in Devices
    BY <1>7 DEF DiskInv, CounterInv
  <2>2. PICK c : c = counters[e]
    OBVIOUS
  <2>3. c.sectors \in Nat /\ c.lifetime \in Nat
    BY <2>1, <2>2 DEF CounterInv, IsReading
  <2>4. c.lifetime - c.sectors <= Lost(e)'
    BY <1>2, <2>1, <2>2, <2>3 DEF CounterInv
  <2>5. e \in DOMAIN sectors' => sectors'[e] <= c.sectors + Reach(clock - sampleNow)
    <3>1. Reach(clock - sampleNow) \in Nat
      BY <1>1, <1>5
    <3>2. e \in DOMAIN sectors => sectors[e] <= c.sectors + Reach(clock - sampleNow)
      BY <2>1, <2>2 DEF CounterInv
    <3>. QED  BY <1>2, <2>1, <2>3, <3>1, <3>2
  <2>. QED  BY <1>1, <2>1, <2>2, <2>4, <2>5 DEF CounterInv
<1>. QED  BY <1>1, <1>4, <1>6, <1>7 DEF DiskInv, SnapshotInv

\* sample() begins: the clock is later than at the last sample.
LEMMA DisksStart ==
    ASSUME DiskInv, SampleStart, clock' = clock
    PROVE  DiskInv'
<1>1. /\ UNCHANGED <<sectors, lifetime, m_DiskStates, m_LatestSnapshot, counters, accounted>>
      /\ storagePc' = "read" /\ sampleNow' = clock /\ counters = <<>>
      /\ clock \in Nat /\ sampleNow \in Int /\ sampleNow < clock
  BY DEF SampleStart, disks, DiskInv, DiskTypeInv
<1>2. DiskTypeInv'
  BY <1>1 DEF DiskInv, DiskTypeInv
<1>3. ASSUME NEW d \in DOMAIN m_DiskStates PROVE StateInv(d)'
  <2>1. StateInv(d)
    BY <1>3 DEF DiskInv
  <2>2. m_DiskStates[d].time \in Nat /\ m_DiskStates[d].time < sampleNow'
    BY <1>1, <2>1 DEF StateInv
  <2>3. Lost(d)' = Lost(d)
    BY <1>1 DEF Lost
  <2>. QED  BY <1>1, <2>1, <2>2, <2>3 DEF StateInv
<1>. QED  BY <1>1, <1>2, <1>3 DEF DiskInv, SnapshotInv

\* The probe is read: the counters are those of the disks now.
LEMMA DisksRead ==
    ASSUME DiskInv, SampleRead, clock' = clock, CumulativeDisks
    PROVE  DiskInv'
<1>1. /\ UNCHANGED <<sectors, lifetime, m_DiskStates, m_LatestSnapshot, sampleNow, accounted>>
      /\ storagePc = "read" /\ storagePc' = "compute"
      /\ clock \in Nat /\ sampleNow \in Int /\ sampleNow <= clock
  BY DEF SampleRead, DiskInv, DiskTypeInv
<1>2. \/ counters' = <<>>
      \/ counters' = [d \in DOMAIN sectors |->
             [sectors |-> sectors[d], lifetime |-> lifetime[d],
              intact |-> sectors[d] = lifetime[d]]]
  BY DEF SampleRead, ReadSectors
<1>3. DiskTypeInv'
  BY <1>1 DEF DiskInv, DiskTypeInv
<1>4. \A d : Lost(d)' = Lost(d)
  BY <1>1 DEF Lost
<1>5. ASSUME NEW d \in DOMAIN m_DiskStates PROVE StateInv(d)'
  <2>1. StateInv(d)
    BY <1>5 DEF DiskInv
  <2>. QED  BY <1>1, <1>4, <2>1 DEF StateInv
<1>6. ASSUME NEW d \in DOMAIN counters' PROVE CounterInv(d)'
  <2>1. d \in DOMAIN sectors /\ d \in Devices
    BY <1>2 DEF DiskInv, DiskTypeInv
  <2>2. PICK c : c = counters'[d]
    OBVIOUS
  <2>3. c = [sectors |-> sectors[d], lifetime |-> lifetime[d], intact |-> sectors[d] = lifetime[d]]
    BY <1>2, <2>1, <2>2
  <2>4. sectors[d] \in Nat /\ lifetime[d] \in Nat /\ sectors[d] <= lifetime[d]
    BY <2>1 DEF DiskInv, DiskTypeInv
  <2>5. IsReading(c) /\ c.lifetime = lifetime[d] /\ c.sectors = sectors[d]
    BY <2>3, <2>4 DEF IsReading
  <2>6. Lost(d) = lifetime[d] - sectors[d]
    BY <2>1 DEF Lost
  <2>7. sectors[d] <= c.sectors + Reach(clock - sampleNow)
    <3>1. clock - sampleNow \in Nat
      BY <1>1
    <3>2. Reach(clock - sampleNow) \in Nat
      BY <3>1, ReachFacts
    <3>. QED  BY <2>4, <2>5, <3>2
  <2>8. ASSUME d \in DOMAIN m_DiskStates
        PROVE  LET r == m_DiskStates[d]
               IN  /\ r.lifetime <= c.lifetime
                   /\ r.lifetime - r.sectors <= c.lifetime - c.sectors
                   /\ c.sectors <= r.sectors + Reach(clock - r.time)
    <3>1. StateInv(d)
      BY <2>8 DEF DiskInv
    <3>. QED  BY <2>1, <2>5, <2>6, <3>1 DEF StateInv
  <2>9. /\ c.lifetime <= lifetime[d] /\ c.lifetime - c.sectors <= Lost(d)
    BY <2>4, <2>5, <2>6
  <2>. QED  BY <1>1, <1>4, <2>1, <2>2, <2>5, <2>7, <2>8, <2>9 DEF CounterInv
<1>. QED  BY <1>1, <1>3, <1>5, <1>6 DEF DiskInv, SnapshotInv

\* The rates: what the counter gained, over a time in which the disk could read
\* it; if it fell, nothing.  Either way they account for no more than was read,
\* and for all of it when the counter shows all of it.
LEMMA RateOfDisk ==
    ASSUME DiskInv, storagePc = "compute",
           NEW d \in DOMAIN counters, d \in DOMAIN m_DiskStates
    PROVE  LET s == computeDiskSnapshot(d)
               c == counters[d]
           IN  /\ s.sectors \in Nat
               /\ s.sectors <= Reach(s.over)
               /\ accounted[d] + s.sectors <= c.lifetime
               /\ c.intact => accounted[d] + s.sectors = c.lifetime
<1>1. /\ StateInv(d) /\ CounterInv(d)
      /\ clock \in Nat /\ sampleNow \in Int /\ sampleNow <= clock
      /\ accounted[d] \in Nat
  BY DEF DiskInv, DiskTypeInv, CounterInv
<1>2. PICK r : r = m_DiskStates[d]
  OBVIOUS
<1>3. PICK c : c = counters[d]
  OBVIOUS
<1>4. /\ IsReading(r) /\ r.time \in Nat /\ r.time < clock
      /\ accounted[d] <= r.lifetime
      /\ r.intact => accounted[d] = r.lifetime
  BY <1>1, <1>2 DEF StateInv
<1>5. /\ IsReading(c)
      /\ r.lifetime <= c.lifetime
      /\ r.lifetime - r.sectors <= c.lifetime - c.sectors
      /\ c.sectors <= r.sectors + Reach(clock - r.time)
  BY <1>1, <1>2, <1>3 DEF CounterInv
<1>6. computeDiskSnapshot(d) = [sectors |-> Delta(c.sectors, r.sectors), over |-> clock - r.time]
  <2>1. ~(Elapsed(d) <= 0) /\ Elapsed(d) = clock - r.time
    BY <1>1, <1>2, <1>4 DEF Elapsed
  <2>. QED  BY <1>2, <1>3, <2>1 DEF computeDiskSnapshot
<1>7. Reach(clock - r.time) \in Nat
  <2>1. clock - r.time \in Nat
    BY <1>1, <1>4
  <2>. QED  BY <2>1, ReachFacts
<1>8. CASE c.sectors >= r.sectors
  <2>1. Delta(c.sectors, r.sectors) = c.sectors - r.sectors
    BY <1>8 DEF Delta
  <2>2. c.intact => accounted[d] = r.lifetime /\ r.lifetime = r.sectors /\ c.lifetime = c.sectors
    BY <1>4, <1>5 DEF IsReading
  <2>. QED  BY <1>1, <1>3, <1>4, <1>5, <1>6, <1>7, <1>8, <2>1, <2>2 DEF IsReading
<1>9. CASE ~(c.sectors >= r.sectors)
  <2>1. Delta(c.sectors, r.sectors) = 0
    BY <1>9 DEF Delta
  <2>2. ~c.intact
    BY <1>4, <1>5, <1>9 DEF IsReading
  <2>. QED  BY <1>1, <1>3, <1>4, <1>5, <1>6, <1>7, <2>1, <2>2 DEF IsReading
<1>. QED  BY <1>8, <1>9

LEMMA DisksCompute ==
    ASSUME DiskInv, SampleCompute, clock' = clock
    PROVE  DiskInv'
<1>1. /\ UNCHANGED <<sectors, lifetime, sampleNow>>
      /\ storagePc = "compute" /\ storagePc' = "idle" /\ counters' = <<>>
      /\ clock \in Nat /\ sampleNow \in Nat /\ sampleNow <= clock
  BY DEF SampleCompute, disks, DiskInv, DiskTypeInv
<1>2. \A d : Lost(d)' = Lost(d)
  BY <1>1 DEF Lost
<1>3. ASSUME NEW d \in DOMAIN counters PROVE d \in Devices /\ CounterInv(d)
  BY <1>3 DEF DiskInv, CounterInv
<1>4. /\ \A d \in DOMAIN m_DiskStates' :
             \/ d \in DOMAIN counters /\ m_DiskStates'[d] = DiskState(d)
             \/ /\ d \notin DOMAIN counters /\ d \in DOMAIN m_DiskStates
                /\ m_DiskStates'[d] = m_DiskStates[d]
  BY DEF SampleCompute
<1>5. ASSUME NEW d \in Devices
      PROVE  /\ accounted'[d] \in Nat
             /\ d \notin DOMAIN counters => accounted'[d] = accounted[d]
             /\ d \in DOMAIN counters =>
                    /\ accounted'[d] <= counters[d].lifetime
                    /\ counters[d].intact => accounted'[d] = counters[d].lifetime
  <2>1. accounted[d] \in Nat
    BY DEF DiskInv, DiskTypeInv
  <2>2. CASE d \notin DOMAIN counters
    <3>1. accounted'[d] = accounted[d]
      BY <2>2 DEF SampleCompute
    <3>. QED  BY <2>1, <2>2, <3>1
  <2>3. CASE d \in DOMAIN counters /\ d \notin DOMAIN m_DiskStates
    <3>1. accounted'[d] = counters[d].lifetime
      BY <2>3 DEF SampleCompute
    <3>2. counters[d].lifetime \in Nat
      BY <1>3, <2>3 DEF CounterInv, IsReading
    <3>. QED  BY <2>3, <3>1, <3>2
  <2>4. CASE d \in DOMAIN counters /\ d \in DOMAIN m_DiskStates
    <3>1. PICK s : s = computeDiskSnapshot(d)
      OBVIOUS
    <3>2. accounted'[d] = accounted[d] + s.sectors
      BY <2>4, <3>1 DEF SampleCompute
    <3>3. /\ s.sectors \in Nat
          /\ accounted[d] + s.sectors <= counters[d].lifetime
          /\ counters[d].intact => accounted[d] + s.sectors = counters[d].lifetime
      BY <1>1, <2>4, <3>1, RateOfDisk
    <3>. QED  BY <2>1, <2>4, <3>2, <3>3
  <2>. QED  BY <2>2, <2>3, <2>4
<1>6. DiskTypeInv'
  BY <1>1, <1>5 DEF DiskInv, DiskTypeInv
<1>7. ASSUME NEW d \in DOMAIN m_DiskStates' PROVE StateInv(d)'
  <2>1. CASE d \in DOMAIN counters /\ m_DiskStates'[d] = DiskState(d)
    <3>1. d \in Devices /\ CounterInv(d)
      BY <1>3, <2>1
    <3>2. PICK c : c = counters[d]
      OBVIOUS
    <3>3. PICK r : r = m_DiskStates'[d]
      OBVIOUS
    <3>4. /\ r.sectors = c.sectors /\ r.lifetime = c.lifetime /\ r.intact = c.intact
          /\ r.time = sampleNow
      BY <2>1, <3>2, <3>3 DEF DiskState
    <3>5. /\ IsReading(c)
          /\ c.lifetime <= lifetime[d]
          /\ c.lifetime - c.sectors <= Lost(d)
          /\ d \in DOMAIN sectors => sectors[d] <= c.sectors + Reach(clock - sampleNow)
      BY <3>1, <3>2 DEF CounterInv
    <3>6. IsReading(r)
      BY <3>4, <3>5 DEF IsReading
    <3>7. accounted'[d] <= r.lifetime /\ (r.intact => accounted'[d] = r.lifetime)
      BY <1>5, <2>1, <3>1, <3>2, <3>4
    <3>. QED  BY <1>1, <1>2, <3>1, <3>3, <3>4, <3>5, <3>6, <3>7 DEF StateInv
  <2>2. CASE /\ d \notin DOMAIN counters /\ d \in DOMAIN m_DiskStates
             /\ m_DiskStates'[d] = m_DiskStates[d]
    <3>1. StateInv(d) /\ d \in Devices
      BY <2>2 DEF DiskInv, StateInv
    <3>2. accounted'[d] = accounted[d]
      BY <1>5, <2>2, <3>1
    <3>. QED  BY <1>1, <1>2, <2>2, <3>1, <3>2 DEF StateInv
  <2>. QED  BY <1>4, <2>1, <2>2
<1>8. ASSUME NEW d \in DOMAIN m_LatestSnapshot' PROVE SnapshotInv(d)'
  <2>1. d \in DOMAIN counters /\ m_LatestSnapshot'[d] = computeDiskSnapshot(d)
    BY <1>8 DEF SampleCompute
  <2>2. computeDiskSnapshot(d).sectors <= Reach(computeDiskSnapshot(d).over)
    <3>1. CASE d \in DOMAIN m_DiskStates
      BY <1>1, <2>1, <3>1, RateOfDisk
    <3>2. CASE d \notin DOMAIN m_DiskStates
      <4>1. computeDiskSnapshot(d) = [sectors |-> 0, over |-> 0]
        BY <3>2 DEF computeDiskSnapshot, NoDiskRate
      <4>2. Reach(0) \in Nat
        BY ReachFacts
      <4>. QED  BY <4>1, <4>2
    <3>. QED  BY <3>1, <3>2
  <2>. QED  BY <2>1, <2>2 DEF SnapshotInv
<1>. QED  BY <1>1, <1>6, <1>7, <1>8 DEF DiskInv

LEMMA DisksStep == ASSUME DiskInv, Next, CumulativeDisks PROVE DiskInv'
<1> USE DEF storage, gpu, system, panel, disks, vars
<1>1. CASE Tick
  BY <1>1, DisksTick
<1>2. CASE Plug
  BY <1>2, DisksPlug DEF Plug
<1>3. CASE RefreshStorage
  BY <1>3, DisksStart, DisksRead, DisksCompute DEF RefreshStorage
<1>4. CASE UNCHANGED <<clock, disks, storage>>
  BY <1>4 DEF DiskInv, DiskTypeInv, StateInv, CounterInv, SnapshotInv, Lost
<1>5. ~Tick /\ ~Plug /\ ~RefreshStorage => UNCHANGED <<clock, disks, storage>>
  BY DEF Next, Relink, OnUpdate, RefreshProcesses, RefreshSystem, RefreshGpu, RefreshDone,
         RequestRefresh, OnDetach, RenderNetwork, SelectInterface, Done
<1>. QED  BY <1>1, <1>2, <1>3, <1>4, <1>5

\* Where the probe's counters count, no disk is ever said to read faster than
\* it can, and the rates account for every sector once, whatever readings
\* failed, disks came and went and steps took (StorageModel.cpp).
THEOREM DisksAlwaysTrue ==
    ASSUME CumulativeDisks
    PROVE  Spec => []DisksTrue
<1>1. Init => DiskInv
  BY DEF Init, ClockInit, StorageInit, DiskInv, DiskTypeInv
<1>2. DiskInv /\ [Next]_vars => DiskInv'
  <2>1. ASSUME DiskInv, UNCHANGED vars PROVE DiskInv'
    BY <2>1 DEF vars, disks, storage, DiskInv, DiskTypeInv, StateInv, CounterInv, SnapshotInv, Lost
  <2>. QED  BY <2>1, DisksStep
<1>3. DiskInv => DisksTrue
  BY DEF DiskInv, SnapshotInv, StateInv, Reach, DisksTrue, DiskRateBounded, DisksAccounted
<1>. QED  BY <1>1, <1>2, <1>3, PTL DEF Spec
==============================================================================

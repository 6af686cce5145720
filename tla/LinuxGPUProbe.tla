----------------------------- MODULE LinuxGPUProbe -----------------------------
(* Platform::LinuxGPUProbe (src/src/Platform/Linux) over the NVML, DRM and    *)
(* ROCm probes: how GPUs are named when they are enumerated and when they are *)
(* read, and the processes of the NVIDIA ones, which start and end between    *)
(* the calls that count them and the calls that list them. Both checks of     *)
(* this module end in a disagreement with the source.                         *)
EXTENDS Integers, Sequences, FiniteSets, SequencesExt, FiniteSetsExt

CONSTANTS
    NvidiaGpus, IntelGpus, AmdGpus,     \* device indices, {} if the library is not there
    GpuPids,                            \* pids, above 0
    MaxGpuEvents                        \* bound: processes that start or end to use a GPU

VARIABLES
    running,        \* by engine, the <<pid, GPU>> pairs there are
    gpuEvents,      \* how often that has changed
    infos,          \* ids in the answer of enumerateGPUs
    counters,       \* ids in the last answer of readGPUCounters
    nvml,           \* readProcessGPUCounters in progress: [step, gpu, id, engine, count]
    rows,           \* allCounters: [pid, gpuId, activeEngines]
    usedAlways,     \* history variable: by engine, pairs there were throughout the call
    excused         \* history variable: in the call a process began to use a GPU, or a query failed

gpuVars == <<running, gpuEvents, infos, counters, nvml, rows, usedAlways, excused>>
callVars == <<usedAlways, excused>>

Engines == {"Compute", "3D"}
NotReading == [step |-> "none"]
-----------------------------------------------------------------------------
(* Names of GPUs.                                                            *)

(* The UUID, or the index if NVML does not tell, asked for anew in each call. *)
NvidiaId(d, told) == IF told THEN <<"GPU-uuid", d>> ELSE <<"nvidia-", d>>

(* discoverDRMCards names a card once, by its PCI address or its name. *)
IntelId(d) == <<"pci", d>>

(* enumerateGPUs of ROCmGPUProbe: the unique id, the PCI id or the index; readGPUCounters: the index. *)
AmdEnumeratedId(d, told) == IF told = "unique" THEN <<"unique", d>>
                            ELSE IF told = "pci" THEN <<"pci", d>> ELSE <<"amd_", d>>
AmdReadId(d) == <<"", d>>

(* What enumerateGPUs and readGPUCounters of the probes put together may name. *)
EnumeratedIds ==
    {{NvidiaId(d, nvidia[d]) : d \in NvidiaGpus} \cup {IntelId(d) : d \in IntelGpus}
        \cup {AmdEnumeratedId(d, amd[d]) : d \in AmdGpus} :
            nvidia \in [NvidiaGpus -> BOOLEAN], amd \in [AmdGpus -> {"unique", "pci", "none"}]}
ReadIds ==
    {{NvidiaId(d, nvidia[d]) : d \in NvidiaGpus} \cup {IntelId(d) : d \in IntelGpus}
        \cup {AmdReadId(d) : d \in AmdGpus} : nvidia \in [NvidiaGpus -> BOOLEAN]}

(* GPUModel enumerates once. *)
GpuProbeInit ==
    /\ running = [e \in Engines |-> {}]
    /\ gpuEvents = 0
    /\ infos \in EnumeratedIds
    /\ counters = {}
    /\ nvml = NotReading
    /\ rows = <<>>
    /\ usedAlways = running /\ excused = FALSE

ReadGPUCounters ==
    /\ counters' \in ReadIds
    /\ UNCHANGED <<running, gpuEvents, infos, nvml, rows, callVars>>
-----------------------------------------------------------------------------
(* A process begins to use an engine of a GPU, or ceases to.                 *)
GpuUseChange ==
    /\ gpuEvents < MaxGpuEvents
    /\ gpuEvents' = gpuEvents + 1
    /\ \E e \in Engines, use \in GpuPids \X NvidiaGpus :
          /\ running' = [running EXCEPT ![e] = IF use \in @ THEN @ \ {use} ELSE @ \cup {use}]
          /\ excused' = (excused \/ use \notin running[e])
    /\ usedAlways' = [e \in Engines |-> usedAlways[e] \cap running'[e]]
    /\ UNCHANGED <<infos, counters, nvml, rows>>
-----------------------------------------------------------------------------
(* readProcessGPUCounters of NVMLGPUProbe, for one GPU after another.        *)

Reading(d) == IF d \in NvidiaGpus THEN \E told \in BOOLEAN : nvml' = [step |-> "count", engine |-> "Compute", gpu |-> d,
                                                                      id |-> NvidiaId(d, told), count |-> 0]
              ELSE nvml' = NotReading

ReadProcesses ==
    /\ nvml = NotReading /\ NvidiaGpus # {}
    /\ Reading(Min(NvidiaGpus))
    /\ rows' = <<>>
    /\ usedAlways' = running /\ excused' = FALSE
    /\ UNCHANGED <<running, gpuEvents, infos, counters>>

(* After the compute processes come the graphics ones, then the next GPU. *)
Onwards ==
    IF nvml.engine = "Compute" THEN nvml' = [nvml EXCEPT !.step = "count", !.engine = "3D"]
    ELSE LET later == {d \in NvidiaGpus : d > nvml.gpu}
         IN  IF later = {} THEN nvml' = NotReading ELSE Reading(Min(later))

PidsOf(e, d) == {p \in GpuPids : <<p, d>> \in running[e]}

(* What NVML answers a query that leaves no room for any process: how many    *)
(* there are, as NVML_ERROR_INSUFFICIENT_SIZE unless there are none.          *)
CountAnswer(e, d) ==
    [result |-> IF PidsOf(e, d) = {} THEN "SUCCESS" ELSE "INSUFFICIENT_SIZE",
     count  |-> Cardinality(PidsOf(e, d))]
Failure == [result |-> "ERROR", count |-> 0]

(* The first call asks how many there are, with no room for any; they are     *)
(* listed only if it succeeds with a count above 0.                           *)
CountProcesses ==
    /\ nvml # NotReading /\ nvml.step = "count"
    /\ \E answer \in {CountAnswer(nvml.engine, nvml.gpu), Failure} :
          /\ IF answer.result = "SUCCESS" /\ answer.count > 0
             THEN nvml' = [nvml EXCEPT !.step = "list", !.count = answer.count]
             ELSE Onwards
          /\ excused' = (excused \/ answer = Failure)
    /\ UNCHANGED <<running, gpuEvents, infos, counters, rows, usedAlways>>

Found(all, pid, gpuId) == {n \in DOMAIN all : all[n].pid = pid /\ all[n].gpuId = gpuId}

(* A graphics process joins the row it has, compute processes are added. *)
Merged(all, pid) ==
    IF nvml.engine = "3D" /\ Found(all, pid, nvml.id) # {}
    THEN [all EXCEPT ![Min(Found(all, pid, nvml.id))].activeEngines = Append(@, "3D")]
    ELSE Append(all, [pid |-> pid, gpuId |-> nvml.id, activeEngines |-> <<nvml.engine>>])

(* The second call fills as many entries as there are processes now: it fails *)
(* if there are more than were counted, and of entries it does not fill the   *)
(* pid stays 0. CountAnswer never has it come to this.                        *)
ListProcesses ==
    /\ nvml # NotReading /\ nvml.step = "list"
    /\ LET now == PidsOf(nvml.engine, nvml.gpu)
           entries == SetToSeq(now) \o [n \in 1 .. (nvml.count - Cardinality(now)) |-> 0]
       IN  rows' = IF Cardinality(now) > nvml.count THEN rows ELSE FoldLeft(Merged, rows, entries)
    /\ Onwards
    /\ UNCHANGED <<running, gpuEvents, infos, counters, callVars>>

GpuProbeNext == ReadGPUCounters \/ GpuUseChange \/ ReadProcesses \/ CountProcesses \/ ListProcesses
GpuProbeSpec == GpuProbeInit /\ [][GpuProbeNext]_gpuVars
-----------------------------------------------------------------------------
(* "Per-process GPU usage", which capabilities() says NVML has: a process     *)
(* that used an engine of a GPU throughout the call has a row that says so,   *)
(* at least if no query failed and no other process came meanwhile.           *)
GpuProcessesListed ==
    nvml = NotReading /\ ~excused =>
        \A e \in Engines : \A use \in usedAlways[e] :
            \E n \in DOMAIN rows : /\ rows[n].pid = use[1] /\ rows[n].gpuId[2] = use[2]
                                   /\ e \in ToSet(rows[n].activeEngines)

(* "Associates with GPUInfo": the counters are of GPUs that were enumerated. *)
CountersAssociated == counters \subseteq infos
=============================================================================

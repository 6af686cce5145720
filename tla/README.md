# A TLA+ verification project for TaskSmack

TaskSmack is a system monitor in C++23: platform probes read operating-system
counters, domain models turn successive readings into rates and histories, and
ImGui panels show them and let the user act on processes. This directory models
the parts whose correctness depends on the order of events, checks the models
with TLC on small instances and proves the central invariants with TLAPS for
every value of the constants. Paths below are relative to `src/`, the
repository's root; `PROJECT.json` maps every definition to its lines.

## 1. The system

### How the parts interact

```
 main -> Application (frame loop) -> ShellLayer -> ProcessesPanel -> ProcessModel  -> IProcessProbe (Linux, Windows)
                                        |            | selected pid                     ^ BackgroundSampler (own thread)
                                        |            v
                                        |         ProcessDetailsPanel -> IProcessActions -> kill(2), setpriority(2)
                                        |-> SystemMetricsPanel -> SystemModel, StorageModel, GPUModel -> probes
                                        |-> SettingsLayer -> UserConfig, Theme
```

Everything runs on the UI thread, once per frame, with one exception:
`BackgroundSampler` owns a thread that calls the probe and a callback. The
domain models are written for several threads nevertheless: all of them guard
their published state with a mutex, and `ProcessModel::updateFromCounters` and
`SystemModel::updateFromCounters` exist for a sampler's callback.

### Inventory

For each part: its state; its operations; what makes it hard; what makes it
correct. "Modelled in" names the module, "-" is a part without one (section 8).

| part | state | operations | hard behaviour | correct when | modelled in |
| --- | --- | --- | --- | --- | --- |
| `Domain::BackgroundSampler` | running and request flags, interval, callback and its mutex, jthread with stop token | start, stop, destructor, setCallback, requestRefresh, setInterval, the loop | every call may come between any two steps of the loop; join against sleep and callback | a callback is never used after it was replaced, nothing runs after stop, stop returns, requests are served | `BackgroundSampler` |
| `Domain::History<T,N>` | array, write index, size | push, clear, [], latest, copyTo | index arithmetic across the wrap, copies in two chunks | it shows the last N values in order | `HistoryRing` |
| `Domain::ProcessModel` | snapshots, previous counters, peaks, network baselines, previous total, six deques, window | refresh, updateFromCounters, setMaxHistorySeconds | probe is read outside the lock; processes exit and pids are reused; counters fall | deques aligned and in the window, maps without leftovers, differences that do not wrap, shares of the right interval | `ProcessModel` |
| `Domain::SystemModel` | snapshot, previous counters and their time, some fifteen deques and two maps of deques, window | refresh, updateFromCounters, setMaxHistorySeconds | cores and interfaces come and go; clock read outside the lock; power published on its own | deques aligned, rates physically possible, power of its own refresh | `SystemModel`, `CpuUsage` |
| `Domain::StorageModel` | per-disk previous counters and their time, snapshot, deques, window | sample | three clock readings in a sample; disks that come and go; a probe that reads none | rates account for what was read and never exceed the disk | `StorageModel` |
| `Domain::GPUModel` | GPU list, previous counters, one ring per GPU, timestamps | refresh, history reads | GPUs missing from a reading, a reading that fails | rates of their own interval, entries under their own time | `GPUModel` |
| `App::SystemMetricsPanel`, sections | accumulator, cached histories, selected interface, smoothed values | onAttach, onUpdate, requestRefresh, drawing | histories refreshed and trimmed apart share one axis; selection by index | charts pair values with their times, the cadence loses no time | `SystemMetricsPanel`, `Charts` |
| `App::ProcessesPanel` | refresh accumulator, selection, sort and filter, cached tree, collapsed rows, columns | onUpdate, click, tree and list rendering | frame times; positions cached by one refresh and used after another; parents in a circle | refreshes on its cadence whatever the frames, draws every process once | `ProcessDetails` (cadence, selection), `ProcessesPanel` (table), `Application` (columns) |
| `App::ProcessDetailsPanel` | selected pid, cached snapshot, 17 deques, dialog, slider, feedback | setSelectedPid, updateWithSnapshot, renderActions | a selection that changes under a dialog; a process that goes; deltaTime that is clamped | shows the selection's data, acts only as asked | `ProcessDetails` |
| `App::ShellLayer`, `Core::Application`, `main` | active tab, layer stack, last frame time, window | run, onUpdate, onRender, onDetach, start-up | order of hand-over in a frame; order of attaching and detaching | list and details agree; what is in force at closing is in force again | `Application`, `ProcessDetails` |
| `App::UserConfig` | settings | load, save | missing or malformed keys, values out of range, a save that fails half-way | values in bounds; load after save gives the same settings | `UserConfig`, `Application` |
| `App::SettingsLayer` | indices of the options chosen | requestOpen, loadCurrentSettings, applySettings, cancel | values that are no option; a dialog closed and opened again | what is applied is what was chosen | `Application` |
| `UI::Theme`, `ThemeLoader` | schemes, current and pending index, font size | loadThemes, setTheme, applyPendingTheme | change deferred to the next frame; a name that is no longer there | the change asked for last is in force | `Theme`, `Application` |
| `UI::Format`, `ChartWidgets` | none | formatting, time axes, tooltips | carries, widths, calendar, masks | what is written is the nearest, and reads back | `Format`, `Charts` |
| `Platform::NetlinkSocketStats` | socket, cached results and their time | queryAllSockets, invalidateCache | dumps in parts, failed sends and receives, replies left behind | a query never waits for nothing; answers complete and recent | `NetlinkSocketStats` |
| `Platform::LinuxSystemProbe` | link-speed cache | read, cleanup | lock released during the sysfs read | speeds recent | `LinuxSystemProbe`, `SystemModel` (totals), `CpuUsage` |
| `Platform::LinuxProcessProbe` | capabilities, socket statistics | enumerate | a row is put together from many files; energy and bytes attributed by share or inode | rows of one process, shared sockets counted once, counters that do not fall | `LinuxProcessProbe` |
| Linux GPU probes | vendor handles | enumerate, read, processes | ids made up in two places; processes counted, then listed, by calls that answer with an error code of their own | counters belong to a GPU, processes that use one are listed | `LinuxGPUProbe` |
| disk and power probes | none | read | the files of a battery change while they are read | estimates possible | `LinuxPowerProbe`, `StorageModel` |
| `Platform::LinuxProcessActions` | none | setPriority, terminate, kill, stop, resume | target may have gone | a call is as asked | `ProcessDetails` |
| Windows platform | API handles | read | disk counters that are rates | counters cumulative | `StorageModel` (disks), else - |
| paths, factories, icons, `AboutLayer` | GLFW and ImGui objects | construction, drawing | | | - |

`PROJECT.json` lists every hazard found in this code at its line, with the
properties that would catch it going wrong or the reason that none does.

## 2. Modules

| module | models | kind |
| --- | --- | --- |
| `SamplerContract` | what a background sampler promises its owner | abstract specification |
| `BackgroundSampler` | `Domain/BackgroundSampler.cpp` | component |
| `BoundedHistory` | what `Domain::History` is for | abstract specification |
| `HistoryRing` | `Domain/History.h` | component |
| `TimeWindow` | the trimming that `ProcessModel`, `SystemModel` and `ProcessDetailsPanel` share | operators |
| `ProcessModel` | `Domain/ProcessModel.cpp` and the processes it samples | component |
| `SystemModel` | `Domain/SystemModel.cpp` and the machine it samples | component |
| `CpuUsage` | `SystemModel::computeCpuUsage` and Linux's CPU accounting | component |
| `ProcessDetails` | main loop, list, details, actions and the processes acted on | composition of the App layer |
| `SteadyClock` | `std::chrono::steady_clock` | shared variable |
| `StorageModel`, `GPUModel` | `Domain/StorageModel.cpp`, `Domain/GPUModel.cpp` and their probes | components |
| `Charts` | `UI/ChartWidgets.h` | operators |
| `SystemMetricsPanel` | `App/Panels/SystemMetricsPanel.cpp` and its sections | composition of the two models, the charts and the panel |
| `Theme`, `UserConfig` | `UI/Theme*.cpp`, `App/UserConfig.cpp` | operators on the theme's and the file's state |
| `Application` | `main.cpp`, `Core/Application.cpp`, the layers, the dialog and the window, over restarts | composition with `Theme` and `UserConfig` |
| `ProcessesPanel` | the table and the tree of `App/Panels/ProcessesPanel.cpp` | component |
| `Format` | `UI/Format.h` | functions against their meaning |
| `NetlinkSocketStats`, `LinuxProcessProbe`, `LinuxSystemProbe`, `LinuxGPUProbe`, `LinuxPowerProbe` | the probes of `Platform/Linux`, each with the kernel it reads | components |
| `Parts_proof` | | theorems about `HistoryRing`, `CpuUsage`, `LinuxPowerProbe`, `Format`, `ProcessesPanel` |
| `Probes_proof` | | theorems about `NetlinkSocketStats`, `LinuxProcessProbe`, `LinuxSystemProbe` |
| `Application_proof` | | theorems about `Application` and `ProcessDetails` |
| `SystemMetricsPanel_proof` | | theorems about the panel, `StorageModel` and `GPUModel` |
| other `*_proof` | | theorems about the module of that name |
| `MC*` with `*.cfg` | | instances for TLC |

`MCParts`, `MCMachine` and `MCApplication` put components that share no state into
one run: the variable `part` says which of them moves in a behaviour, and the
others stay in one initial state. That is no composition, only a way to check
several state spaces, one beside the other, with one configuration. `MCRestart` is
the instance of `Application` alone, which `MCApplication` adds `ProcessDetails` to;
`MCBackgroundSampler` is that of `BackgroundSampler` for `sampler_request`.

### BackgroundSampler

Two processes: the owner (`owner`: idle, or inside start, stop or the
destructor) and the sampling thread (`thread`: its position in `samplerLoop`).
A step is one atomic access, one critical section or one call out of the class,
so `stop()` is `StopSampler` (flag), `RequestStop` (token) and `Join`, and
`start()` is `Start` (flag) and `Spawn` (thread). `SetCallback` waits while the
thread is in a call, since the loop holds `m_CallbackMutex` for as long as the
call lasts. `SetInterval` and `RequestRefresh` may come from any thread at any
time. Time is the interval and what is left of the sleep, in units of which a
chunk is `CheckInterval`. There is one owner: start and stop test `m_Running`
and act on it separately, and the class is used by one owner everywhere.
`asked` remembers whether a request is waiting and whether it was made early
enough to be erased by `m_RefreshRequested.store(false)`.

### HistoryRing

The array, the write index and the size, with `push`, `clear`, `operator[]`,
`latest` and `copyTo`. `BoundedHistory` is the sequence it stands for, and
`KeepsLast` the refinement: what `operator[]` shows is that sequence.

### ProcessModel

A refresh is three steps, because the code reads the probe outside the lock:
`Enumerate`, `ReadTotal`, and `ComputeSnapshots` under `m_Mutex` with the
trimming it ends in. Between them other threads refresh, `SetMaxHistorySeconds`
is called, and the system runs (`Tick`), exits (`Exit`) and restarts (`Reuse`)
processes; an enumeration may miss any process. A process is identified by the
pair of pid and start time, which the code hashes. Of the counters, those
treated differently are kept: CPU time (a share), RSS and peak, network bytes
(an average since first seen); I/O, page faults and energy are differences like
CPU's. A history entry is the time of the refresh that made it, so an entry in
the wrong place is visible. `skew` records how far apart the two probe reads of
the last refreshes were.

### SystemModel and CpuUsage

A refresh is five steps: `ReadCounters`, `ReadPower`, `PublishPower` (the first
critical section), `ReadClock` (before the lock) and `UpdateFromCounters` (the
second critical section: snapshot, histories, `trimHistory`, previous
counters). The machine ticks, moves bytes, takes cores off- and online and
plugs interfaces, whose counters restart from zero; a reading may miss all of
them (`/proc/net/dev` not opened), which leaves a total of 0. `trimHistory` is modelled
in full: it drops what is older than the window, then truncates all deques but
the interfaces' to the shortest that is not empty. `CpuUsage` has the ten
counters as unsigned words, including the cases in which Linux counts guest
time twice and takes iowait back.

### ProcessDetails

A frame is `OnUpdate` and one render step. `OnUpdate(elapsed)` is
`Application::run`'s clamped `deltaTime`, the list's accumulator and refresh,
`setSelectedPid` (written as `Kept(old, reset)`, what a field is after it) and
`updateWithSnapshot` with sampling and trimming. The render steps are drawing
only (`Watch`), switching tabs, selecting a row, and in the actions tab the
buttons, the two answers of the dialog, the slider and "Apply". Processes exit
and pids are reused between any two steps. What ImGui does is modelled from how
the panel uses it: an open modal dialog blocks tabs, buttons and slider.
`asked` remembers what the user asked for and for which pid; `refreshed` when
the list was refreshed and how much time the clamp has cut since.

### StorageModel, GPUModel and SystemMetricsPanel

`SystemMetricsPanel::onUpdate` is `OnUpdate` (the accumulator and the clamped
frame) and, when a refresh is due, a sequence of steps between which time passes:
`RefreshSystem`, `RefreshStorage` (in it `StorageModel::sample`'s clock, probe and
computation) and `RefreshGpu` (probe, then publication). Disks read sectors,
are unplugged (`Plug`) and come back; a GPU misses readings, or the reading
throws; links go up and down (`Relink`) under the interface that is selected.
`RefreshProcesses` is the process model's own cadence, which the panel shares a
chart with. `Charts` has the axis: `alignTimestamps`, `buildTimeAxis` and the
windows a plot shows. A drawn entry is compared with the time it was made at.

### Application, Theme and UserConfig

The program from start to exit: `Start` is `runApp` (load, themes, window, layers
attached), a frame is `Poll` (events: window moved, closed), `Update`,
`BeginFrame` (the queued theme), `RenderShell` and `RenderSettings` (in both the
user may act), `Close` detaches the layers and saves, `Crash` does not. Between
runs the file may be edited by hand to anything and themes come and go. `save`
can fail to open the file, or empty it and write nothing. `atClose` remembers
what was in force when the program was closed, and `edited` whether the file was
edited since it was last read or written.

`RestartKeeps` compares what the user saw at the end with what is there after the
next start. It says nothing where a save failed, where a theme was still queued
(chosen in the last frame, or the window closed before the first), or where the file
had been edited while the program ran: the last two are disagreements with what
the source and its documents say. The run `config_edits` shows the second,
section 6 tells of the first.

### ProcessesPanel and Format

`Refresh`, `ChangeFilter`, `ToggleView`, `ChangeSort` and `ToggleRow` on the cached
tree of positions; what is drawn is an operator of the state (`TreeRows`,
`ListOrders`), compared with the ancestors of each process by their pids.
`DrawTreeNode` is one round of the loop over the explicit stack. The code starts a loop
for each root; `TreeWalk` is these loops one after the other, the roots to come waiting
below what the present one has pushed. It takes as many rounds as there are processes,
and `TreeComplete` says that the stack is then empty.
`Format` is one variable, the argument, over which functions are evaluated.

### The Linux probes

Each is its read loop, one step per file or system call, against a kernel
that changes between any two steps. `NetlinkSocketStats`: `Send` and `Receive`
per dump, datagrams that hold several messages, the queue of the socket with
what earlier queries left in it, the cache. `LinuxProcessProbe`: each field of a
row is the start time of the process it was read from; sockets are handed on.
`LinuxSystemProbe`: the cache's lookup, sysfs read and store as three steps of
two readers, and the clean-up. `LinuxGPUProbe`: ids as tuples of what they are
made from; the count and list calls of NVML with their results. A counting call
without room for any process succeeds only when there is none; the list call is
modelled as the code has it and, for that reason, never made. `LinuxPowerProbe`: the files in order,
then the estimates by cross-multiplication.

## 3. Runs and what they show

The passing runs end with TLC having seen every reachable state within the
constraints named below, on two workers. Every property of a passing run is
violated when the definition it depends on is replaced by a faulty variant
(`mutants` in `PROJECT.json`; the variants are operators of the modules that
`Next` does not use).

| run | instance | states | shows |
| --- | --- | --- | --- |
| `process` | 2 threads, 1 pid with exits and reuse, windows of -1, 0 and 2, 2 sizes, 2 byte counts, time to 5 | 2.1 million | histories aligned, ordered, in the window and never emptied; maps pruned; no wrap; shares bounded by the skew of the probe reads; baseline of the first sight; peaks never fall |
| `metrics` | 1 disk, 1 GPU with a ring of 2, 2 interfaces, the process history beside, time to 3; one of disk, GPU and links is busy in a behaviour | 7.2 million | disk rates bounded and complete, GPU rates and charts true, every chart timed, no drift of the cadence, network bars of the selection |
| `app` | settings beyond every bound, 2 built-in themes and 3 directories of the user's, 3 fonts; or 2 pids, 2 nice values, frames of 0, 1 and 3 with a clamp of 2 | 7.1 million | settings bounded and kept over a restart, theme in force; details aligned, of the selection, fresh, and acting as asked |
| `parts` | a sampler with 2 callbacks, intervals 0, 1 and 5, chunk 2, an iteration of 0 or 1; or a ring of 4 slots and 3 values; CPU words of 16 values and 3 ticks; 5 processes with a chain, a circle and a pid used twice; 5 battery states; arguments to 4200 | 454,000 | the sampler keeps its contract, flags agree with the thread, no chunk slept on a late request, stop returns, requests served; the ring implements the bounded history and its reads agree; CPU percentages; table and tree complete; estimates possible; formats nearest |
| `machine` | `SystemModel` with 1 thread, 2 cores, 1 interface of 1 byte a tick that a reading may miss, power probe, windows of 2 and -3 (below the least), time to 3, without the interface to 4; or 3 sockets and 2 failures; 2 pids and a shared socket; 1 interface, 2 readers | 3.2 million | alignment, order and window, newest entry kept, rates within the link, power of its own refresh; no query waits for nothing, answers recent, rows of one process, sockets counted once, speeds recent |

Seven runs end in a violation, and each is a finding:

| run | property | what happens |
| --- | --- | --- |
| `sampler_request` | `ImmediateRefresh` | `BackgroundSampler.h:55` promises that a request is served by the next iteration. `samplerLoop` clears the flag after the callback, whoever set it: a request made after the enumeration is erased and the loop sleeps the whole interval. `RequestServed` (in `parts`) shows that it is served in the end, by the ordinary cadence. |
| `metrics_power` | `PowerChartTimed` | The power chart takes the larger of the power and battery histories' lengths, but its axis is cut to the process model's timestamps. When the process history is trimmed later than the other, the battery line and the tooltip read more points than the axis has. |
| `process_energy` | `EnergyCumulative` | `ProcessTypes.h:50` calls a process's energy cumulative. It is the machine's counter times the process's share of all CPU time since the start, so it falls when others catch up, and the model shows no power for that interval. |
| `gpu_ids` | `CountersAssociated` | The ROCm probe enumerates a GPU under its unique or PCI id, and reads counters under its index: the counters belong to no GPU that was enumerated. |
| `windows_disks` | `DisksAccounted` | `StorageTypes.h:10` calls disk counters cumulative. The Windows probe fills in rates, of which `StorageModel` takes differences: a disk that reads steadily shows zero. |
| `gpu_processes` | `GpuProcessesListed` | `capabilities()` of the Linux NVML probe says it has per-process metrics. It asks for the number of processes with a count of 0 and no array and goes on only if that returns `NVML_SUCCESS`; NVML answers `NVML_ERROR_INSUFFICIENT_SIZE` when there is any. A process that uses the GPU throughout the call, with no query failing and no other coming, is not in the answer. No model reads the answer yet. |
| `config_edits` | `EditsPreserved` | Every file that `UserConfig::save` writes says "Manual edits are preserved." It is written whole from the settings in memory: an edit made while the program runs is gone once it is closed. |

### Why the bounds are enough

* Two threads are the most that matter: the lock makes each update atomic, and
  what can go wrong is one refresh being applied between another's reads and
  its update. The proofs of `ProcessModel` and `SystemModel` cover any number;
  `machine` has one refresher of `SystemModel`, for which order, window, rates and
  power hold. What remains with a refresher that was overtaken (alignment, the
  newest entry) is in the theorems, and in no run.
* `OneMissed` (`machine`): the interfaces are missed by at most one of three refreshes
  in a row, as far as previous counters reach, and only with the initial window and
  all cores, which no rate depends on. `Unplugged`: rates take four refreshes, of which
  each pair is a case; time 4 is for histories, from which the initial window drops an
  entry then, and interfaces have no part in the cut.
* `Narrowed` (`process`): once a process has been seen, it runs for two ticks
  under the initial window, and it is large or has sent something, not both,
  since memory and network meet in no definition. Without a process, windows
  and time are free to 5, enough for two refreshers to be out of order, a window
  to be set between, and entries to leave it.
* `OneBusy` (`metrics`): disk, GPU and links share the clock and the panel's order
  of refreshing, and no state; the clock and the process history are always free.
  `NotForced` cuts requests out of the two runs that only look for a violation.
* `OneThing` (`app`): the table is not drawn once a dialog is open or the window
  has moved; column settings are read by no part of either.
* `FewCollapsed` (`parts`): two rows collapsed at once, one above the other or beside it.
* `Narrowed` (`machine`): energy stays as it is, which no property of that run reads;
  `process_energy` is about it.
* Two callbacks tell "the installed one" from "the one being replaced". An
  interval of 5 with a chunk of 2 has a last chunk shorter than the others; with
  intervals of 0 and 1 an iteration of 1 outlasts or uses up the interval, so that
  the sleep left is negative or zero.
* Four slots and three values make the ring wrap, wrap again, and distinguish
  neighbours; a capacity of 4 has copies in two chunks of every split.
* Frames of 0 ticks are frames shorter than a tick, so any number of user
  inputs fits between two refreshes: the depth of the interaction is unbounded.
  Frames of 3 with a clamp of 2 are those the main loop cuts. The four signals
  are sent alike, and one stands for them.
* Arguments to 4200 pass the unit `Kilo` (16) two times, all 12 bits of a mask, and, in
  days, more than eleven years from 1898, 1998 and 2002: across 1900, which is no
  leap year, across 2000, which is one, and across an ordinary one.
* Failures, events and calls are as many as it takes for one to disturb what an
  earlier one left: two failures, so that replies left behind by the first meet
  the second; three starts with two pids, so that one is reused.

`Word` is 16 (2^w for w = 4) where arithmetic is modular: all counters of an
instance stay below it except those of `CpuUsage`, which start at its edge and
wrap, so a difference that goes below zero shows as a value near 16.

Symmetry is used where values are alike and no property is about liveness:
threads (`process`), pids (`app`), readers (`machine`). Clocks stop at their bound;
`Done` (or `Destroyed`) is the one step with which such a model rests, and
deadlock is checked. `parts`, `machine`, `process_energy`, `gpu_ids` and `gpu_processes` have
components that bound the number of events instead and end when these are used up,
so there it is not: that the sampler does not hang is `StopReturns` and `RequestServed`.

## 4. Fairness

Only `BackgroundSampler` has liveness. `Fairness` is weak fairness of the
sampling thread and of the owner's unfinished call: a thread that can take a
step takes it in the end (the OS scheduler), the probe and the callback return,
and an owner inside stop() goes on. Nothing is assumed of clients: they need
never call anything, nor ever stop calling. `Join` needs no more than weak
fairness because it stays enabled once the thread has left. The abstract
contract's fairness (`Call`, `Return`) is implied, and checked by `KeepsContract`.
`StopReturns` holds because the token is tested between chunks. `RequestServed`
is stated for a sampler that stays running; a client that sets a new interval
again and again delays nothing since the loop reads it once per iteration.

## 5. Theorems

Assumptions are the `ASSUME`s of the modules, which type the constants (and
order the bounds of windows); the clock's bound is any natural number.

| theorem | says | argument |
| --- | --- | --- |
| `BackgroundSampler_proof!TypeCorrect` | types, and sleep never above an interval | `SleepInv`: a chunk is entered only with sleep left, so subtracting the lesser of it and the chunk cannot pass below zero |
| `...!LifecycleCorrect` | `isRunning()` is true to the thread between calls | `LifecycleInv` ties each position of the owner to the flag, the token and the thread; the property alone says nothing of the middle of a call |
| `...!ContractKept` | the sampler implements the safety part of `SamplerContract` | `CallInv`: a call is under way exactly at "invoking", and then it is of the installed callback; each action is a step of the contract or a stutter |
| `...!RequestCutsSleep` | a request made outside an iteration lets no further chunk be slept (`PromptRefresh`) | `RequestInv`: such a request keeps its flag up, since it can only be pending where no "clear" comes before the next enumeration |
| `Parts_proof!TypeCorrect`, `!RingImplementsBoundedHistory` | indices in range; the ring implements the bounded history, for every capacity | the slot that `operator[]` reads (`AtSlot`), and how `push` shifts it (`PushShifts`), from two facts about remainders |
| `...!ReadsAlwaysAgree` | `latest` and `copyTo` agree with `operator[]`, for every capacity and buffer | `copyTo`'s two chunks meet at the end of the array |
| `...!UsageAlwaysShown` | a CPU's percentages are those of the time spent and add up to no more than all, for counters of any width | `CpuInv`: each counter is what was sampled and what it gained since, modulo its range (`Gained`: a guest's tick counts twice, iowait may be taken back), so the clamped differences give back what was gained, and ten of them in a row do not wrap |
| `...!EstimatesAlwaysTrue` | battery times are possible for some battery that was there, whatever changes between two files | `PowerInv` with `Gathered`: after n files, each value read is one of a battery seen since the call began, in the unit of the file (`AmountsSeen`), so a product or quotient of two is of two batteries seen |
| `...!FormatsAlwaysTrue` | what `UI::Format` writes is the nearest and reads back, for any argument, unit, mask width and first year | functions over data, each by an induction of its own (`AllNaturals`): days are counted through years (`CountsYears`, `DaysAreNamed`), a mask is scanned bit by bit (`ScanSteps`), a fold is taken apart into its steps (`FoldsExist`) |
| `...!TableAlwaysTrue` | the tree's walk ends and draws each process once, at its depth, below its parent, unless an ancestor is collapsed, it is too deep or in a circle; the list can be sorted; for any processes and parents | `PanelInv`: the cached tree is that of the rows shown. Per round, `WalkInv`: nobody is missed (`NoneMissed`: who is reached is drawn or has an ancestor on the stack, as deep as it is), nobody is taken twice (a child is pushed when its parent is popped), and depths fall along the stack, so what is pushed hangs on the last shallower row (`Hangs`); each round pops another process (`WalkEnds`) |
| `TimeWindow_proof` (lemmas) | dropping and keeping the ends of sequences | lemmas cited by the proofs of the histories below |
| `ProcessModel_proof!AlwaysAligned`, `!AlwaysInWindow`, `!NewestNeverLost` | the three history properties, any number of threads | `HistoryInv`: alignment, order and window together, with no timestamp in the future, without which an append could break the order |
| `...!NothingLeftBehind` | maps hold the last refresh only | each of the maps is pruned to, or built from, the same set of keys |
| `...!CpuShareCorrect` | a share exceeds 100% by no more than the skew | `CpuInv`: CPU times are bounded by the ticks passed since each reading, for processes, for samples in flight and for previous counters, and they grow no faster than the clock |
| `...!PeakNeverFalls` | peaks do not fall and cover the RSS, where the model keeps them itself | `PeakInv` relates the map of peaks to that of previous counters |
| `...!NeverWraps` | types, no time in the future, and no difference that wraps, whichever refresh comes late | `TypeInv` with `CpuInv` and `HistoryInv`: readings in flight and applied are typed alike, and `ShownInv` keeps the bytes shown with the baseline within the counter |
| `...!BaselineStays` | a baseline is the first counter seen and stays; only bytes beyond it are shown | `TypeInv`: the same invariant before a step, and what a refresh leaves (`ComputeShown`) after it |
| `SystemModel_proof!AlwaysAligned`, `!NewestNeverLost` | the history properties, any machine and any number of refreshers | `ReadingsInv` types what refreshers hold; `HistoryInv` is alignment and core lengths together: the minimum over the lengths is the timestamps' or a new core's |
| `...!AlwaysInWindow` | types, order and window, for one refresher (`OneRefresher`) | `TurnInv`: at each position of a refresh, what was read is later than the last refresh applied; so appending keeps the order, and a cut (`TrimmedOrder`) keeps an end of the sequence that begins in the window |
| `...!PowerAlwaysOfItsRefresh` | the power of an entry is of its own refresh, for one refresher with a power probe | the same two invariants, with the power and the timestamps cut at the same place (`Paired`) |
| `...!RatesAlwaysWithinLinks` | no interface's rate, and not their total unless the refresh before missed them, exceeds what the links carry, for any set of interfaces and one refresher | `LinkInv`: what has arrived since the counters applied, what a reading holds, and what is between reading and clock are each no more than the links carried in that time (`Carried`); lemmas on totals (`SumsExist`, `SumsAgree`, `TotalsChange`): a fold over a set is a sum whatever the order, and changes by what its terms change |
| `SystemMetricsPanel_proof!PanelAlwaysTrue` | every chart timed, no drift, bars of the selection | `TimesInv`: a panel at rest has cached the model's times; `CadenceInv`: time told and time accumulated differ by whole intervals; `NetInv`: the selection is in the list as long as the list stays |
| `...!GpusAlwaysTrue` | GPU rates over their own interval, entries at their times, whatever readings fail | `GpuInv`: counters kept are all of the last refresh; a GPU that was never missed has the timestamps' own history, ring and all |
| `...!DisksAlwaysTrue` | disk rates possible and complete where counters are cumulative | `DiskInv`: what a disk read since it was last sampled, and in flight since the reading, is no more than it could in that time; sampled and shown sectors add up to the counter, over replugging |
| `Application_proof!AlwaysFresh` | the list's age, for every sequence of frames | `FreshInv`: the list is no older than the accumulator and the time cut together, and the accumulator is below the interval |
| `...!AlwaysAsAsked` | signals and priorities only as asked | `RequestInv` ties dialog, popup and slider to what was asked for the pid in the panel |
| `...!AlwaysAligned` | the 17 deques aligned, samples an interval apart and in the window | `Good` adds to the property the time since the last sample, without which the next could be too close, and types the deques so that one trim's count fits all |
| `...!AlwaysOfSelection` | everything shown is of the selected pid, and as the list shows it | `ShownInv`: between selecting in the list and the next update the details may lag, and only then |
| `...!RestartsKeep` | what is in force at the end is in force after a restart, for any themes and hand-written files, but for a theme still queued and an edit overwritten | `RestartInv`: started with the file at hand the program would show what it was closed with (`Shown`); it needs `ColumnsInv` (settings, panel and table have the same columns) and `ThemeInv`, and that what `save` writes `load` leaves as it is |
| `...!ThemesInForce` | the theme drawn is the one the settings name | `ThemeInv`: the theme of the settings is in force or queued, and none is queued while a frame is drawn |
| `...!SettingsStayBounded` | panels and window get values within bounds, whatever the file says | `AppTypeInv`, in which the fields of a file are any integers and those of the settings are clamped |
| `Probes_proof!NeverWaitsForNothing` | a query waits only when a datagram is there | `QueueInv`: while a dump goes on something is queued, and when none does the last datagram queued is one that ends a query, whatever failed before |
| `...!AnswersAlwaysRecent` | until something fails, an answer has the sockets of TCP and UDP, each once, with bytes it had within the cache's time to live | `AnswersInv`: `TrafficInv` (bytes only grow, and what they were is on record), `CallsInv` (what a call gathered is all of the dumps behind it; one datagram is `Pending`, and it is of the dump at hand), `SocketCacheInv`, `AnswerInv`; a sequence without duplicates has as many entries as sockets, by a bijection |
| `...!EnumerationIsTrue` | what `enumerate` returns is the processes there are, for any pids and any starts and exits between two files | `EnumerationInv`: a row holds what its process had when each file was read (`ReadUpTo`), for a process that is in `throughout` its own; pids are taken in order, so none is skipped or repeated |
| `...!SocketsAreCountedOnce` | a socket's bytes are charged once, to a holder | `NetInv` in it: a socket is charged to the process that the map has for it, which held it since the call began |
| `...!SpeedAlwaysRecent`, `!LinkSpeedAlwaysTrue` | a speed shown is one sysfs had within the cache's time to live, for any number of readers; with one reader, not from before the interface came up or back | `SpeedInv`: an entry's speed was had at its stamp or later, since the clock is read before sysfs, whoever stores when; `SoleInv`: an entry stored up is one of an interface seen up, but between the store and the end of its read |

`PeakNeverFalls` and `CpuShareCorrect` state what they need as hypotheses:
the first is for systems that do not report a peak (`~HasPeakRss`, Linux); where
the peak is taken from the system, as on Windows, two concurrent refreshers
applied out of order can make it fall. The second assumes that the machine stops
before its tick counter wraps (`MaxClock < Word`): a 64-bit counter does not wrap. `AlwaysInWindow` and
`PowerAlwaysOfItsRefresh` of `SystemModel` need the one refresher they name, which
is how `SystemMetricsPanel` uses the model: it reads the clock before the lock,
and a second refresher could be overtaken. `ProcessDetails`'s theorems assume that
a nice value of 0 exists, `LinuxSystemProbe`'s that interfaces and readers are
finitely many.

`RatesAlwaysWithinLinks` is also of one refresher. `DisksAlwaysTrue` is for probes that
count (`CumulativeDisks`, Linux); the Windows one is the finding `windows_disks`.
`CpuUsage` assumes that an interval's ticks are fewer than half of what a counter can
hold (`2 * MaxTicks < Word`), `Application` that a config file has integers where `load`
takes integers, and that a theme directory is finite; `UserConfig` that the bounds of
`Domain::Sampling` and of `UserSettings` are in order. Themes are identified by ranks, as their files are sorted
by name. Sockets, interfaces and pids are finitely many, and a refresh interval is above 0
(`clampRefreshInterval` leaves none below 100 ms).

`Format` assumes that a kilo is more than 1, that a word has a bit, and that `LeapYears` are
those of the calendar for the years its argument, taken as days, can reach.

`ProcessesPanel` assumes finitely many rows, with numbers to sort by, and no more of their
parents; its probe returns no pid twice (`EnumerationIsTrue` above).

Of the properties of passing runs, all invariants have a theorem, and of the
action and temporal properties all that are safety.

Induction over data is carried out by hand where a theorem needs it, since the library's
induction theorems take an operator as a parameter: each is stated as a set of numbers
and closed by `AllNaturals`, and a recursive function is first shown to exist
(`Iterations`, `FoldsExist`).

### Only model-checked

* Liveness (`StopReturns`, `RequestServed`) and the fairness of the contract:
  temporal reasoning with ENABLED is beyond the prover.
* The seven properties of the runs that end in a violation are false, and their
  negation is what the counterexample shows.

## 6. Other observations

These came up while modelling and no run states them, because no document says
what is meant, because they follow from a choice the code makes, or, the first
three, because they are seen in the code as it stands.

* A theme applied in the dialog is saved and queued until the next frame begins. If
  the window is closed before that, `captureFromApplication` (`UserConfig.cpp:390`)
  takes the theme still in force and overwrites the one saved, although
  `assets/themes/README.md:212-214` answers "Theme resets after restart" with "Themes
  are applied via Settings → Apply" and "Settings are saved to `config.toml`". The
  same happens to the configured theme when the window is closed before the first
  frame. `RestartKeeps` says nothing of an end with a theme queued, for that reason.
* `assets/themes/README.md:25`: "User themes are loaded in addition to built-in
  themes." `UILayer::onAttach` calls `loadThemes` for the built-in directory and then
  for the user's, and it replaces the list (`Theme.cpp:193`): with one theme of the
  user's own, the dialog has no built-in one. `ThemeInForce` is about themes that are
  among those found.
* When `/proc/net/dev` cannot be opened (`LinuxSystemProbe.cpp:344`), the total of that
  refresh is 0, and the next one shows all bytes the interfaces ever received as the
  rate of one interval (`SystemModel.cpp:438`). The rates of single interfaces are not
  affected: one without a previous counter has none. `RatesWithinLinks` excuses the
  total after a miss.

* `Application::run` clamps `deltaTime` to 0.1 s. The accumulator of
  `ProcessesPanel::onUpdate` keeps its remainder "to avoid drift on low FPS",
  but below 10 frames a second time is lost before it arrives there.
  `SnapshotsFresh` is stated with the time cut for that reason.
* Linux counts guest time in `guest` and in `user`; `CpuCounters::total` adds
  both, so with guests the denominator is too large and percentages too small.
  `UsageIsTimeSpent` is stated for intervals without guests.
* `SystemModel::trimHistory` truncates every deque to the shortest that is not
  empty: when a core comes online its deque has one entry, and all histories are
  cut to one entry although the window has room. `HistoryKeepsNewest` says what is
  left; nothing says what is meant.
* A core that is offline keeps its old history beside timestamps that move on;
  `CoreLengthsAgree` (in `HistoryAligned`) holds of the lengths and says nothing of
  the times. Cores are matched by position: with a lower one offline, those above
  it would take each other's previous counters.
* `ShellLayer::onUpdate` and `setSelectedPid` go by pid: when the selected pid
  comes back as another process, its samples join the history of the one that
  exited, although the models tell them apart by `uniqueKey`.
* Entries of a GPU that a reading missed join its ring without a gap, so they stand at
  later times than their own; `GpuChartTrue` is about GPUs that were never missed.
* The interface is selected by its index: when the list shrinks the clamp may select
  another one, which `NetBarsOfSelection` leaves out by excusing a list that has just
  changed.
* Processes whose parents form a circle have no root and are not drawn in the tree;
  `TableTrue` leaves them out.
* A query of sockets that fails half-way is cached for the whole time to live, and what
  it left in the socket is taken for the answer to the next; `AnswersRecent` is about
  answers before the first failure, `ReplyComes` holds after it.
* The seventeen deques of the details panel are one function in the model: that each of
  the hand-written lists names all of them is read in the source, not checked.
* The details panel never clears `m_HasSnapshot` when the selected process goes,
  so "not found (may have exited)" appears only before the first snapshot.
* After a successful "Apply" the slider shows the old nice value until the list
  has refreshed.
* `SettingsLayer::applySettings` saves a new refresh rate or history length, but
  running panels have read theirs at start.
* `BackgroundSampler` must not be stopped, nor its callback replaced, from its
  own callback: the first joins itself, the second locks a mutex it holds.
  Nobody does.

## 7. Abstractions

Values are what the properties tell apart: a callback is a model value, a
history entry the time it was made, a rate a pair of difference and duration, a
percentage a pair of numerator and denominator, a field read from `/proc` the
start time of the process it is of, a counter of a GPU the time it was read at, a
GPU's id the tuple of what its string is made from, an affinity mask a set. Double
arithmetic, logging, smoothing (but for what it keeps from one interface to the
next), layout and drawing are left out. Counters of the environment move as the
system may move them, and readings are copies. Several deques that are treated
alike are one function `Tracks`; fields that are computed alike (sectors read and
written, width and height, receiving and transmitting) are one.
A process that refreshes on the UI thread is one step in `ProcessDetails` and
three in `ProcessModel`. The kernel, ImGui, GLFW and toml++ are modelled from how
the code uses them, and marked external in the map.

## 8. Not modelled, and why

* The Windows platform but for its disk counters and the peak it reports: plain
  reads of system interfaces, one call after another, with no state but handles.
* Drawing: sections, widgets, icons, fonts, the about box, texts of cells; they
  have no state of their own whose order of change matters.
* Parsing of `/proc`, sysfs, TOML and vendor structures, user names, paths and
  factories: functions of their input without state.
* `computePowerStatus`, memory, swap, load and static data of `SystemModel`: fields
  passed through.
* `ProcessModel::makeUniqueKey`: the key is the pair it hashes. A collision takes
  a pid and a start time that differ in matching bits of 64-bit words.
* `ProcessesPanel::setSamplingInterval` and `requestRefresh`, which nobody calls.
* The details panel's smoothing, peak percentage and the persistent text of a
  failed priority change.

## 9. What is left

In the order in which it would add most:

1. `ProcessKey`: `makeUniqueKey` over narrow words, in a module that uses `Bitwise`.
2. `WindowsProcessProbe`'s two-pass enumeration, as `LinuxProcessProbe`.

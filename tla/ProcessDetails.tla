----------------------------- MODULE ProcessDetails -----------------------------
(***************************************************************************)
(* What the user sees of one process and does to it: the main loop of      *)
(* Core::Application, ShellLayer, the process list (App::ProcessesPanel),  *)
(* the details and their action dialog and priority slider                 *)
(* (App::ProcessDetailsPanel) and LinuxProcessActions, with the processes  *)
(* of the system.                                                          *)
(*                                                                         *)
(* A frame is two steps.  OnUpdate lets the list refresh on its cadence,   *)
(* tells the details which pid is selected and hands them its snapshot;    *)
(* a render step draws the active tab and takes at most one input of the   *)
(* user.  Between the two, and between frames, processes exit, are         *)
(* reniced and have their pids reused.  ProcessModel::refresh is one step  *)
(* here, since the list calls it on the UI thread; ProcessModel has it in  *)
(* full.                                                                   *)
(*                                                                         *)
(* Of a snapshot only the process and its nice value matter, and an entry  *)
(* of a history stands for the process it is of and the time it was made.  *)
(***************************************************************************)
EXTENDS Integers, Sequences, TimeWindow

CONSTANTS
    Pids,
    NoPid,            \* -1
    Nices,            \* nice values the slider can show, clampNice's range
    Actions,          \* "terminate", "kill", "stop", "resume"
    FrameTimes,       \* how long a frame may take
    MaxDelta,         \* MAX_DELTA_TIME
    RefreshInterval,  \* m_RefreshInterval, from refreshIntervalMs
    SampleInterval,   \* HISTORY_SAMPLE_INTERVAL
    ResultTime,       \* m_ActionResultTimer after an action
    Window,           \* m_MaxHistorySeconds
    MaxClock          \* bound: the time up to which the application runs

ASSUME ProcessDetailsAssumption ==
    /\ NoPid \notin Pids
    /\ Nices \subseteq Int /\ 0 \in Nices
    /\ FrameTimes \subseteq Nat
    /\ MaxDelta \in Nat \ {0}
    /\ RefreshInterval \in Nat \ {0}
    /\ SampleInterval \in Nat \ {0}
    /\ ResultTime \in Nat \ {0}
    /\ Window \in Nat
    /\ MaxClock \in Nat

VARIABLES
    clock,            \* steady_clock::now()
    procs,            \* the system's processes; of an exited one, its start
    phase,            \* what the main loop does next: "update" or "render"
    shown,            \* the snapshots of the list, by pid
    accumulator,      \* ProcessesPanel: m_RefreshAccumulatorSec
    selected,         \* ProcessesPanel: m_SelectedPid
    tab,              \* the content drawn: "list" (and others), "actions"
    detailsPid,       \* ProcessDetailsPanel: m_SelectedPid, and below
    cached,           \* m_CachedSnapshot; NoSnapshot: ~m_HasSnapshot
    history,          \* m_HistoryTimer, m_Timestamps and the deques
    dialog,           \* m_ShowConfirmDialog, m_ConfirmAction
    popup,            \* the modal dialog is open
    slider,           \* m_PriorityNiceValue, m_PriorityChanged
    feedback,         \* m_LastActionResult: whose it is; m_ActionResultTimer
    call,             \* the system call that the frame made for the user
    refreshed,        \* history variable: the last refresh, and time cut since
    asked             \* history variable: what the user asked for

world   == <<clock, procs>>
list    == <<shown, accumulator, refreshed>>
details == <<detailsPid, cached, history>>
control == <<dialog, popup, slider, feedback>>
vars    == <<world, phase, list, selected, tab, details, control, call, asked>>

\* Sixteen deques that are treated alike; these stand for them.
Tracks == {"cpu", "memory", "gpu"}

Alive == {p \in Pids : procs[p].alive}

NoSnapshot == [pid |-> NoPid, start |-> 0, nice |-> 0]
NoCall     == [pid |-> NoPid, action |-> "none", nice |-> 0]
NoHistory  == [timer |-> 0, timestamps |-> <<>>,
               tracks |-> [k \in Tracks |-> <<>>]]
NoWish     == [signal |-> NoCall, nice |-> NoCall]
AtRest     == [nice |-> 0, changed |-> FALSE]

\* ShellLayer and the panels as onAttach leaves them: the list has refreshed.
Init ==
    /\ clock = 0
    /\ procs = [p \in Pids |-> [alive |-> TRUE, start |-> 0, nice |-> 0]]
    /\ phase = "update"
    /\ shown = [p \in Pids |-> [start |-> 0, nice |-> 0]]
    /\ accumulator = 0
    /\ selected = NoPid
    /\ tab = "list"
    /\ detailsPid = NoPid
    /\ cached = NoSnapshot
    /\ history = NoHistory
    /\ dialog = [show |-> FALSE, action |-> "none"]
    /\ popup = FALSE
    /\ slider = AtRest
    /\ feedback = [of |-> NoPid, timer |-> 0]
    /\ call = NoCall
    /\ refreshed = [at |-> 0, cut |-> 0]
    /\ asked = NoWish

------------------------------------------------------------------------------
(* The system.                                                             *)

Exit(p) ==
    /\ procs[p].alive
    /\ procs' = [procs EXCEPT ![p].alive = FALSE]
    /\ UNCHANGED <<clock, phase, list, selected, tab, details, control, call, asked>>

\* The pid comes back as another process, later than the one that had it.
Reuse(p) ==
    /\ ~procs[p].alive
    /\ clock > procs[p].start
    /\ procs' = [procs EXCEPT ![p] = [alive |-> TRUE, start |-> clock, nice |-> 0]]
    /\ UNCHANGED <<clock, phase, list, selected, tab, details, control, call, asked>>

------------------------------------------------------------------------------
(* Faulty variants of operators below, each a mistake that a property at   *)
(* the end of this module must catch; Next uses none of them.              *)

\* The accumulator is assigned where it should be added to.
RefreshListForgets(dt, elapsed) ==
    IF dt >= RefreshInterval
      THEN /\ accumulator' = 0
           /\ refreshed' = [at |-> clock', cut |-> 0]
           /\ shown' = [p \in Alive |-> [start |-> procs[p].start,
                                         nice |-> procs[p].nice]]
      ELSE /\ accumulator' = dt
           /\ refreshed' = [at |-> refreshed.at, cut |-> refreshed.cut + (elapsed - dt)]
           /\ UNCHANGED shown

\* Selecting another pid resets nothing.
KeptAlways(old, reset) == old

\* A deque is forgotten when the others are trimmed.
TrimHistoryTimestamps(timestamps, tracks) ==
    [timer      |-> 0,
     timestamps |-> DropFront(timestamps, TrimCount(timestamps, Window)),
     tracks     |-> tracks]

\* The request for a dialog outlives it.
ClosedDialogStays == dialog

------------------------------------------------------------------------------
(* The update half of a frame.                                             *)

\* Application::run clamps the time it tells the layers.
DeltaTime(elapsed) == IF elapsed < MaxDelta THEN elapsed ELSE MaxDelta

\* ProcessesPanel::onUpdate; what is left of the interval is kept.  A process
\* whose files cannot be read is missed.
RefreshList(dt, elapsed) ==
    IF accumulator + dt >= RefreshInterval
      THEN /\ accumulator' = (accumulator + dt) % RefreshInterval
           /\ \E seen \in SUBSET Alive :
                shown' = [p \in seen |-> [start |-> procs[p].start,
                                          nice |-> procs[p].nice]]
           /\ refreshed' = [at |-> clock', cut |-> 0]
      ELSE /\ accumulator' = accumulator + dt
           /\ refreshed' = [at |-> refreshed.at, cut |-> refreshed.cut + (elapsed - dt)]
           /\ UNCHANGED shown

\* What setSelectedPid leaves of a state of the panel: what it was, or its
\* reset when another pid is selected.
Kept(old, reset) == IF selected = detailsPid THEN old ELSE reset

\* The snapshot of the selected pid in the list, if it is there.
SelectedSnapshot ==
    IF selected \in DOMAIN shown'
      THEN [pid |-> selected, start |-> shown'[selected].start,
            nice |-> shown'[selected].nice]
      ELSE NoSnapshot

\* trimHistory() of the details panel, at the time now just pushed.
TrimHistory(timestamps, tracks) ==
    LET n    == TrimCount(timestamps, Window)
        ts   == DropFront(timestamps, n)
        rest == [k \in Tracks |-> DropFront(tracks[k], n)]
        size == Shortest({Len(ts)} \cup {Len(rest[k]) : k \in Tracks})
    IN  [timer      |-> 0,
         timestamps |-> KeepLast(ts, size),
         tracks     |-> [k \in Tracks |-> KeepLast(rest[k], size)]]

\* A snapshot reaches the history when the sample interval has passed; the
\* timer starts again from zero.
Sampled(old, snapshot, dt, now) ==
    IF snapshot = NoSnapshot THEN old
    ELSE IF old.timer + dt < SampleInterval
      THEN [old EXCEPT !.timer = @ + dt]
    ELSE LET entry == [pid |-> snapshot.pid, start |-> snapshot.start, at |-> now]
         IN  TrimHistory(Append(old.timestamps, now),
                         [k \in Tracks |-> Append(old.tracks[k], entry)])

ClosedDialog == [show |-> FALSE, action |-> dialog.action]

\* The result of an action fades; its timer outlives a change of selection.
Faded(old, dt) ==
    IF old.timer <= 0 THEN old
    ELSE IF old.timer > dt THEN [old EXCEPT !.timer = @ - dt]
    ELSE [of |-> NoPid, timer |-> 0]

\* setSelectedPid, then updateWithSnapshot.  The snapshot that is shown is
\* not given up when its process is gone.
UpdateDetails(dt) ==
    /\ detailsPid' = selected
    /\ cached' = IF SelectedSnapshot # NoSnapshot THEN SelectedSnapshot
                 ELSE Kept(cached, NoSnapshot)
    /\ history' = Sampled(Kept(history, NoHistory), SelectedSnapshot, dt, clock')
    /\ dialog' = Kept(dialog, ClosedDialog)
    /\ slider' = Kept(slider, AtRest)
    /\ feedback' = Faded(Kept(feedback, [of |-> NoPid, timer |-> feedback.timer]), dt)

OnUpdate(elapsed) ==
    /\ phase = "update"
    /\ clock + elapsed <= MaxClock
    /\ phase' = "render"
    /\ clock' = clock + elapsed
    /\ RefreshList(DeltaTime(elapsed), elapsed)
    /\ UpdateDetails(DeltaTime(elapsed))
    /\ call' = NoCall
    /\ asked' = Kept(asked, NoWish)
    /\ UNCHANGED <<procs, selected, tab, popup>>

------------------------------------------------------------------------------
(* The render half of a frame, with at most one input.                     *)

\* The slider follows the process until the user moves it.
Drawn == IF slider.changed THEN slider ELSE [nice |-> cached.nice, changed |-> FALSE]

\* Drawing the actions opens the dialog that was asked for.
Draw(t) ==
    IF t = "actions" /\ cached # NoSnapshot
      THEN popup' = dialog.show /\ slider' = Drawn
      ELSE UNCHANGED <<popup, slider>>

Watch ==
    /\ phase = "render"
    /\ phase' = "update"
    /\ Draw(tab)
    /\ UNCHANGED <<world, list, selected, tab, details, dialog, feedback, call, asked>>

\* renderTabBar comes before the content; an open dialog blocks it.
OpenTab(t) ==
    /\ phase = "render"
    /\ ~popup
    /\ tab # t
    /\ phase' = "update"
    /\ tab' = t
    /\ Draw(t)
    /\ UNCHANGED <<world, list, selected, details, dialog, feedback, call, asked>>

Select(p) ==
    /\ phase = "render"
    /\ tab = "list"
    /\ p \in DOMAIN shown
    /\ phase' = "update"
    /\ selected' = p
    /\ UNCHANGED <<world, list, tab, details, control, call, asked>>

\* A frame of the details' actions.
InActions ==
    /\ phase = "render"
    /\ tab = "actions"
    /\ cached # NoSnapshot
    /\ phase' = "update"
    /\ UNCHANGED <<clock, list, selected, tab, details>>

\* The buttons "Terminate", "Kill", "Pause" and "Resume"; an open dialog, or
\* one that opens in this frame, blocks them and the slider.
Ask(a) ==
    /\ InActions
    /\ ~dialog.show
    /\ dialog' = [show |-> TRUE, action |-> a]
    /\ slider' = Drawn
    /\ asked' = [signal |-> [pid |-> detailsPid, action |-> a, nice |-> 0],
                 nice   |-> asked.nice]
    /\ UNCHANGED <<procs, popup, feedback, call>>

Answered ==
    /\ InActions
    /\ popup
    /\ popup' = FALSE
    /\ dialog' = ClosedDialog
    /\ slider' = Drawn
    /\ asked' = [signal |-> NoCall, nice |-> asked.nice]
    /\ UNCHANGED procs

\* The signal is sent, and its result shown for a while whatever it is.
Yes ==
    /\ Answered
    /\ call' = [pid |-> detailsPid, action |-> dialog.action, nice |-> 0]
    /\ feedback' = [of |-> detailsPid, timer |-> ResultTime]

No == Answered /\ UNCHANGED <<feedback, call>>

MoveSlider(n) ==
    /\ InActions
    /\ ~dialog.show
    /\ n # Drawn.nice
    /\ slider' = [nice |-> n, changed |-> TRUE]
    /\ asked' = [signal |-> asked.signal,
                 nice   |-> [pid |-> detailsPid, action |-> "setPriority", nice |-> n]]
    /\ UNCHANGED <<procs, dialog, popup, feedback, call>>

\* LinuxProcessActions: setpriority(2) fails for a process that is gone, and
\* may fail for one that belongs to someone else.
Outcomes(p) == {FALSE, procs[p].alive}

\* "Apply" is enabled once the slider was moved; when it fails the slider goes
\* back to the nice value the details show.
Apply ==
    /\ InActions
    /\ ~dialog.show
    /\ slider.changed
    /\ call' = [pid |-> detailsPid, action |-> "setPriority",
                nice |-> slider.nice]
    /\ \E success \in Outcomes(detailsPid) :
         IF success
           THEN /\ procs' = [procs EXCEPT ![detailsPid].nice = slider.nice]
                /\ slider' = [nice |-> slider.nice, changed |-> FALSE]
           ELSE /\ slider' = [nice |-> cached.nice, changed |-> FALSE]
                /\ UNCHANGED procs
    /\ asked' = [signal |-> asked.signal, nice |-> NoCall]
    /\ UNCHANGED <<dialog, popup, feedback>>

Next ==
    \/ \E p \in Pids : Exit(p) \/ Reuse(p)
    \/ \E elapsed \in FrameTimes : OnUpdate(elapsed)
    \/ Watch
    \/ \E t \in {"list", "actions"} : OpenTab(t)
    \/ \E p \in Pids : Select(p)
    \/ \E a \in Actions : Ask(a)
    \/ Yes \/ No
    \/ \E n \in Nices : MoveSlider(n)
    \/ Apply

Spec == Init /\ [][Next]_vars

------------------------------------------------------------------------------
(* Properties.                                                             *)

Entries == UNION {{history.tracks[k][i] : i \in DOMAIN history.tracks[k]} : k \in Tracks}

\* The shape of every variable; what is left of the interval is less than one.
TypeOK ==
    /\ clock \in 0 .. MaxClock
    /\ procs \in [Pids -> [alive : BOOLEAN, start : 0 .. clock, nice : Nices]]
    /\ phase \in {"update", "render"}
    /\ DOMAIN shown \subseteq Pids
    /\ accumulator \in 0 .. RefreshInterval - 1
    /\ {selected, detailsPid, cached.pid} \subseteq Pids \cup {NoPid}
    /\ tab \in {"list", "actions"}
    /\ history.timer \in 0 .. SampleInterval - 1
    /\ history.timestamps \in Seq(0 .. clock)
    /\ popup \in BOOLEAN /\ slider.changed \in BOOLEAN
    /\ dialog.show \in BOOLEAN
    /\ slider.nice \in Nices \cup {0}
    /\ feedback.timer \in 0 .. ResultTime

\* Every deque has the timestamps' entries in the same places; timestamps are
\* at least a sample interval apart and within the window, although a sample
\* is made only while the process is listed and frames take any time.
HistoryAligned ==
    /\ \A k \in Tracks :
         [i \in DOMAIN history.tracks[k] |-> history.tracks[k][i].at]
           = history.timestamps
    /\ \A i, j \in DOMAIN history.timestamps :
         i < j => history.timestamps[j] - history.timestamps[i]
                    >= (j - i) * SampleInterval
    /\ Within(history.timestamps, Window)

\* Whatever the user is shown is of the pid that is selected: the snapshot, all
\* of the history, the result of the last action; and the details show what
\* the list beside them shows.
ShowsSelection ==
    /\ TypeOK
    /\ phase = "render" => detailsPid = selected
    /\ cached.pid \in {detailsPid, NoPid}
    /\ \A e \in Entries : e.pid = detailsPid
    /\ feedback.of \in {detailsPid, NoPid}
    /\ phase = "render" /\ detailsPid \in DOMAIN shown =>
         cached = [pid |-> detailsPid, start |-> shown[detailsPid].start,
                   nice |-> shown[detailsPid].nice]

\* A system call is made only for the selected pid and only as the user asked
\* for it while that pid was selected, and once for each time they asked: a
\* confirmation or a slider left over from another process does nothing.
ActsAsAsked ==
    [][call' # call =>
         \/ call' = NoCall
         \/ call'.pid = selected /\ call' \in {asked.signal, asked.nice}]_vars

\* What is drawn is never older than the refresh interval, except by the time
\* by which the main loop cut the frames since then.
SnapshotsFresh ==
    phase = "render" => clock - refreshed.at < RefreshInterval + refreshed.cut
==============================================================================

--------------------------- MODULE MCProcessModel ---------------------------
(***************************************************************************)
(* An instance of ProcessModel: one pid (it is reused), two threads and    *)
(* five ticks.  The threads are alike, so their permutation is a symmetry  *)
(* of the safety properties.                                               *)
(***************************************************************************)
EXTENDS ProcessModel, TLC

\* A window below zero (the code clamps it) and one longer than the initial.
MCWindows == {-1, 2}

\* The process exits before a refresh has seen it.
NoProcessSeen ==
    /\ \A p \in Pids : procs[p] = Gone(0)
    /\ prevCounters = <<>>
    /\ \A t \in Threads : sample[t].counters = <<>>

\* Bounds: a process runs for two ticks, under one window, and is large or
\* has sent something, not both, and neither at first; without one the
\* windows change and the clock goes on.
Narrowed ==
    \/ NoProcessSeen
    \/ /\ clock <= 2
       /\ maxHistory = InitialWindow
       /\ \A p \in Pids : procs[p].rss <= 1 \/ procs[p].net = 0
       /\ clock = 0 => \A p \in Pids : procs[p].rss <= 1 /\ procs[p].net = 0

ThreadSymmetry == Permutations(Threads)
==============================================================================

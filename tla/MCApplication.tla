--------------------------- MODULE MCApplication ---------------------------
(* The App layer, seen twice: the program's life with its settings and themes *)
(* (Application), and one session of the process list and the details that   *)
(* it shows meanwhile (ProcessDetails). They share no state but what          *)
(* onAttach copies, so each has behaviours of its own here.                   *)
(*                                                                            *)
(* Of Application: the instance of MCRestart. Of ProcessDetails: two alike    *)
(* pids, and frames shorter than a tick, of one and of three, of which the    *)
(* main loop tells the layers two.                                            *)
EXTENDS MCRestart, ProcessDetails, TLC

VARIABLE part

MCNices == {0, 5}

PartsInit ==
    /\ part \in {"life", "session"}
    /\ AppInit /\ (part # "life" => userThemes = {})
    /\ Init

PartsNext ==
    \/ part = "life" /\ AppNext /\ UNCHANGED <<part, vars>>
    \/ part = "session" /\ Next /\ UNCHANGED <<part, appVars>>

PartsSpec == PartsInit /\ [][PartsNext]_<<part, appVars, vars>>

(* Bounds the search: the table is not shown in a session in which a dialog   *)
(* has selected something or the window was moved.                            *)
OneThing ==
    /\ table.drawn => ~settingsDialog.open /\ window.pos \notin Places
    /\ settingsDialog.open => window.pos \notin Places

PidSymmetry == Permutations(Pids)
=============================================================================

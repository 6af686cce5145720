--------------------------- MODULE SamplerContract ---------------------------
(***************************************************************************)
(* What Domain::BackgroundSampler promises its owner, without threads,     *)
(* locks, flags or sleeps: while it is active it keeps handing samples to  *)
(* the installed handler; a handler is replaced only between two calls, so *)
(* a call that is under way is always to the installed handler; and it     *)
(* goes inactive only between two calls, so nothing is delivered once      *)
(* stop() has returned.                                                    *)
(***************************************************************************)
CONSTANTS Callbacks,    \* the functions a client may install
          NoCallback    \* the empty std::function

VARIABLES active,       \* a sampling thread exists
          handler,      \* the installed callback
          calling       \* the callback being run, NoCallback between calls

vars == <<active, handler, calling>>

Handlers == Callbacks \cup {NoCallback}

TypeOK ==
    /\ active \in BOOLEAN
    /\ handler \in Handlers
    /\ calling \in Handlers

Init ==
    /\ active = FALSE
    /\ handler = NoCallback
    /\ calling = NoCallback

Activate ==
    /\ ~active
    /\ active' = TRUE
    /\ UNCHANGED <<handler, calling>>

Deactivate ==
    /\ active
    /\ calling = NoCallback
    /\ active' = FALSE
    /\ UNCHANGED <<handler, calling>>

Replace ==
    /\ calling = NoCallback
    /\ handler' \in Handlers
    /\ UNCHANGED <<active, calling>>

Call ==
    /\ active
    /\ calling = NoCallback
    /\ handler # NoCallback
    /\ calling' = handler
    /\ UNCHANGED <<active, handler>>

Return ==
    /\ calling # NoCallback
    /\ calling' = NoCallback
    /\ UNCHANGED <<active, handler>>

Next == Activate \/ Deactivate \/ Replace \/ Call \/ Return

SafetySpec == Init /\ [][Next]_vars

Spec == SafetySpec /\ WF_vars(Call) /\ WF_vars(Return)
==============================================================================

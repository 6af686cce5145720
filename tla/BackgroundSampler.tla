-------------------------- MODULE BackgroundSampler --------------------------
(***************************************************************************)
(* Domain::BackgroundSampler (src/src/Domain/BackgroundSampler.cpp).       *)
(*                                                                         *)
(* One owner thread constructs, starts, stops and destroys the sampler and *)
(* installs its callback; any thread (the callback included) may call      *)
(* requestRefresh and setInterval; the jthread runs samplerLoop.  Every    *)
(* atomic load or store, every critical section and every call that leaves *)
(* the class (enumerate, the callback, join) is a step of its own.         *)
(*                                                                         *)
(* Time is the sampler's own arithmetic: an interval, the time one         *)
(* iteration took and the sleep that is left are numbers of milliseconds,  *)
(* scaled down.                                                            *)
(***************************************************************************)
EXTENDS Integers

CONSTANTS Callbacks,        \* the functions a client may install
          NoCallback,       \* the empty std::function
          Intervals,        \* the values passed to setInterval
          InitialInterval,  \* SamplerConfig::interval
          CheckInterval,    \* checkInterval: the longest single sleep
          MaxElapsed        \* bound: the longest enumerate + callback

ASSUME SamplerAssumption ==
    /\ NoCallback \notin Callbacks
    /\ Intervals \subseteq Nat
    /\ InitialInterval \in Intervals
    /\ CheckInterval \in Nat \ {0}
    /\ MaxElapsed \in Nat

VARIABLES
    running,            \* m_Running
    refreshRequested,   \* m_RefreshRequested
    stopRequested,      \* the stop state of m_SamplerThread's token
    interval,           \* m_Config.interval
    callback,           \* m_Callback
    invoked,            \* the callback samplerLoop is inside, or NoCallback
    thread,             \* where m_SamplerThread is ("none": not joinable)
    sleepTime,          \* samplerLoop's local
    owner,              \* where the owner is inside start, stop or ~
    alive,              \* the destructor has not been entered
    asked               \* history variable: the unserved refresh request

vars == <<running, refreshRequested, stopRequested, interval, callback,
          invoked, thread, sleepTime, owner, alive, asked>>

\* What the owner's lifecycle calls and the thread's own progress touch.
lifecycle == <<running, stopRequested, owner, alive>>
shared    == <<refreshRequested, interval, callback, asked>>

ThreadAt == {"none", "loop", "enumerating", "publish", "invoking", "clear",
             "interval", "sleep", "chunk", "exited"}
OwnerAt  == {"idle", "spawning", "stopping", "joining"}

\* A request is "early" when it arrives after an enumeration has returned and
\* before that iteration clears the flag: the sample under way is older than
\* the request.  One that arrives inside enumerate() counts as served by it,
\* and any other is "late".  It is served when an enumeration begins.
BeforeClear == {"publish", "invoking", "clear"}

Least(a, b) == IF a < b THEN a ELSE b

\* Every variable has its type, and the sleep that is left never exceeds an
\* interval a client configured.
TypeOK ==
    /\ running \in BOOLEAN
    /\ refreshRequested \in BOOLEAN
    /\ stopRequested \in BOOLEAN
    /\ interval \in Intervals
    /\ callback \in Callbacks \cup {NoCallback}
    /\ invoked \in Callbacks \cup {NoCallback}
    /\ thread \in ThreadAt
    /\ sleepTime \in Int
    /\ -MaxElapsed <= sleepTime
    /\ \E i \in Intervals : sleepTime <= i
    /\ owner \in OwnerAt
    /\ alive \in BOOLEAN
    /\ asked \in {"no", "early", "late"}

Init ==
    /\ running = FALSE
    /\ refreshRequested = FALSE
    /\ stopRequested = FALSE
    /\ interval = InitialInterval
    /\ callback = NoCallback
    /\ invoked = NoCallback
    /\ thread = "none"
    /\ sleepTime = 0
    /\ owner = "idle"
    /\ alive = TRUE
    /\ asked = "no"

------------------------------------------------------------------------------
(* Faulty variants of some operations below, each a mistake the properties *)
(* at the end of this module must catch.  They are not part of Next.       *)

\* start() hands the old, already stopped, token to the new thread.
SpawnReusesToken ==
    /\ owner = "spawning"
    /\ thread' = "loop"
    /\ owner' = "idle"
    /\ UNCHANGED <<running, stopRequested, alive, invoked, sleepTime, shared>>

\* stop() joins without request_stop().
JoinWithoutRequest ==
    /\ owner = "stopping"
    /\ owner' = "joining"
    /\ UNCHANGED <<running, stopRequested, alive, invoked, thread, sleepTime,
                   shared>>

\* setCallback does not take m_CallbackMutex.
SetCallbackUnlocked ==
    /\ alive
    /\ owner = "idle"
    /\ callback' \in Callbacks \cup {NoCallback}
    /\ UNCHANGED <<refreshRequested, interval, asked, invoked, thread,
                   sleepTime, lifecycle>>

\* The sleep does not watch m_RefreshRequested.
SleepTestIgnoresRequest ==
    /\ thread = "sleep"
    /\ thread' = IF sleepTime > 0 /\ ~stopRequested THEN "chunk" ELSE "loop"
    /\ UNCHANGED <<invoked, sleepTime, shared, lifecycle>>

\* The sleep that is left is not counted down: only a request ends it.
SleepChunkKeepsTime ==
    /\ thread = "chunk"
    /\ thread' = "sleep"
    /\ UNCHANGED <<invoked, sleepTime, shared, lifecycle>>

------------------------------------------------------------------------------
(* The owner: start, stop and the destructor.                              *)

\* start() when m_Running is false; otherwise it logs and returns.
Start ==
    /\ alive
    /\ owner = "idle"
    /\ ~running
    /\ running' = TRUE
    /\ owner' = "spawning"
    /\ UNCHANGED <<stopRequested, alive, invoked, thread, sleepTime, shared>>

\* m_SamplerThread = std::jthread(...): a new thread with a new stop state.
Spawn ==
    /\ owner = "spawning"
    /\ thread' = "loop"
    /\ stopRequested' = FALSE
    /\ owner' = "idle"
    /\ UNCHANGED <<running, alive, invoked, sleepTime, shared>>

\* stop() past its m_Running test: the flag falls before the thread is told.
StopSampler ==
    /\ owner = "idle"
    /\ running
    /\ running' = FALSE
    /\ owner' = IF thread = "none" THEN "idle" ELSE "stopping"
    /\ UNCHANGED <<stopRequested, invoked, thread, sleepTime, shared>>

Stop == alive /\ StopSampler /\ UNCHANGED alive

\* ~BackgroundSampler calls stop(), which returns at once when not running.
Destroy ==
    /\ alive
    /\ owner = "idle"
    /\ alive' = FALSE
    /\ \/ StopSampler
       \/ /\ ~running
          /\ UNCHANGED <<running, stopRequested, owner, invoked, thread,
                         sleepTime, shared>>

RequestStop ==
    /\ owner = "stopping"
    /\ stopRequested' = TRUE
    /\ owner' = "joining"
    /\ UNCHANGED <<running, alive, invoked, thread, sleepTime, shared>>

Join ==
    /\ owner = "joining"
    /\ thread = "exited"
    /\ thread' = "none"
    /\ owner' = "idle"
    /\ UNCHANGED <<running, stopRequested, alive, invoked, sleepTime, shared>>

OwnerFinishes == Spawn \/ RequestStop \/ Join

------------------------------------------------------------------------------
(* Calls any thread may make on a live sampler.                            *)

\* setCallback blocks while samplerLoop holds m_CallbackMutex in a call.
SetCallback ==
    /\ alive
    /\ owner = "idle"
    /\ thread # "invoking"
    /\ callback' \in Callbacks \cup {NoCallback}
    /\ UNCHANGED <<refreshRequested, interval, asked, invoked, thread,
                   sleepTime, lifecycle>>

RequestRefresh ==
    /\ alive
    /\ refreshRequested' = TRUE
    /\ asked' = CASE thread = "enumerating"   -> asked
                  [] thread \in BeforeClear    -> "early"
                  [] OTHER                     -> "late"
    /\ UNCHANGED <<interval, callback, invoked, thread, sleepTime, lifecycle>>

SetInterval ==
    /\ alive
    /\ interval' \in Intervals
    /\ UNCHANGED <<refreshRequested, callback, asked, invoked, thread,
                   sleepTime, lifecycle>>

------------------------------------------------------------------------------
(* samplerLoop, run by m_SamplerThread.                                    *)

LoopHead ==
    /\ thread = "loop"
    /\ IF stopRequested
         THEN thread' = "exited" /\ UNCHANGED asked
         ELSE thread' = "enumerating" /\ asked' = "no"
    /\ UNCHANGED <<refreshRequested, interval, callback, invoked, sleepTime,
                   lifecycle>>

\* enumerate() and totalCpuTime() return.
Enumerated ==
    /\ thread = "enumerating"
    /\ thread' = "publish"
    /\ UNCHANGED <<invoked, sleepTime, shared, lifecycle>>

\* Takes m_CallbackMutex; it is held for as long as the call lasts.
Publish ==
    /\ thread = "publish"
    /\ thread' = IF callback = NoCallback THEN "clear" ELSE "invoking"
    /\ invoked' = callback
    /\ UNCHANGED <<sleepTime, shared, lifecycle>>

CallbackReturns ==
    /\ thread = "invoking"
    /\ thread' = "clear"
    /\ invoked' = NoCallback
    /\ UNCHANGED <<sleepTime, shared, lifecycle>>

\* m_RefreshRequested.store(false), whoever set it and whenever.
ClearRequest ==
    /\ thread = "clear"
    /\ refreshRequested' = FALSE
    /\ thread' = "interval"
    /\ UNCHANGED <<interval, callback, asked, invoked, sleepTime, lifecycle>>

ReadInterval ==
    /\ thread = "interval"
    /\ \E elapsed \in 0..MaxElapsed : sleepTime' = interval - elapsed
    /\ thread' = "sleep"
    /\ UNCHANGED <<invoked, shared, lifecycle>>

SleepTest ==
    /\ thread = "sleep"
    /\ thread' = IF sleepTime > 0 /\ ~stopRequested /\ ~refreshRequested
                   THEN "chunk" ELSE "loop"
    /\ UNCHANGED <<invoked, sleepTime, shared, lifecycle>>

SleepChunk ==
    /\ thread = "chunk"
    /\ sleepTime' = sleepTime - Least(sleepTime, CheckInterval)
    /\ thread' = "sleep"
    /\ UNCHANGED <<invoked, shared, lifecycle>>

SamplerStep ==
    \/ LoopHead \/ Enumerated \/ Publish \/ CallbackReturns
    \/ ClearRequest \/ ReadInterval \/ SleepTest \/ SleepChunk

\* The object is gone: the one state in which the system rests.
Destroyed == ~alive /\ owner = "idle" /\ UNCHANGED vars

Next ==
    \/ Start \/ Stop \/ Destroy \/ OwnerFinishes
    \/ SetCallback \/ RequestRefresh \/ SetInterval
    \/ SamplerStep
    \/ Destroyed

Fairness == WF_vars(SamplerStep) /\ WF_vars(OwnerFinishes)

SafetySpec == Init /\ [][Next]_vars

Spec == SafetySpec /\ Fairness

------------------------------------------------------------------------------
(* Properties.                                                             *)

\* Between two lifecycle calls of the owner isRunning() tells the truth: a
\* running sampler has a thread that is in its loop, and a stopped one has no
\* thread left, so neither the probe nor a callback can be in use any more.
LifecycleAgreement ==
    owner = "idle" =>
        IF running THEN thread \notin {"none", "exited"} ELSE thread = "none"

\* The sampler keeps the contract of SamplerContract: a callback is replaced
\* only between calls (setCallback waits for m_CallbackMutex), the thread goes
\* away only between calls (stop joins), and while it lives it keeps calling.
Contract == INSTANCE SamplerContract WITH
                active <- thread # "none", handler <- callback,
                calling <- invoked
KeepsContract == Contract!Spec

\* requestRefresh made while the sampler waits, is about to wait or is off cuts
\* the wait short: no further chunk is slept before the next enumeration.
PromptRefresh ==
    [][(thread = "sleep" /\ thread' = "chunk") => asked # "late"]_vars

\* BackgroundSampler.h promises "an immediate refresh (next iteration)" for
\* every request, one made during an iteration included: no chunk is slept
\* while a request waits for the next enumeration.
ImmediateRefresh ==
    [][(thread = "sleep" /\ thread' = "chunk") => asked = "no"]_vars

\* stop() and the destructor return: the loop looks at its stop token once per
\* chunk, so the join cannot wait for ever.
StopReturns == (owner \in {"stopping", "joining"}) ~> (owner = "idle")

\* A request is served in the end, even one whose flag was cleared under it:
\* the sampler enumerates again, or is stopped.
RequestServed == (asked # "no" /\ running) ~> (asked = "no" \/ ~running)
==============================================================================

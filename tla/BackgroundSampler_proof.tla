----------------------- MODULE BackgroundSampler_proof -----------------------
(***************************************************************************)
(* Theorems about BackgroundSampler, for all callbacks, intervals, chunk   *)
(* lengths and iteration times.                                            *)
(***************************************************************************)
EXTENDS BackgroundSampler, TLAPS

\* A sleeping thread has a positive time left, which is what keeps the
\* subtraction of a chunk from passing zero.
SleepInv == thread = "chunk" => sleepTime > 0

\* Every reachable state is well typed, and the sleep that is left stays within
\* the interval configured (samplerLoop's arithmetic never overshoots).
THEOREM TypeCorrect == Spec => [](TypeOK /\ SleepInv)
<1>1. Init => TypeOK /\ SleepInv
  <2> SUFFICES ASSUME Init PROVE TypeOK /\ SleepInv
    OBVIOUS
  <2>1. InitialInterval \in Intervals /\ 0 <= InitialInterval
    BY SamplerAssumption
  <2>2. \E i \in Intervals : 0 <= i
    BY <2>1
  <2>3. -MaxElapsed <= 0
    BY SamplerAssumption
  <2>4. sleepTime = 0 /\ -MaxElapsed <= sleepTime /\ sleepTime \in Int
    BY <2>3 DEF Init
  <2>5. \E i \in Intervals : sleepTime <= i
    BY <2>2, <2>4
  <2>. QED  BY <2>1, <2>4, <2>5 DEF Init, TypeOK, SleepInv, ThreadAt, OwnerAt
<1>2. TypeOK /\ SleepInv /\ [Next]_vars => (TypeOK /\ SleepInv)'
  <2> SUFFICES ASSUME TypeOK, SleepInv, [Next]_vars PROVE (TypeOK /\ SleepInv)'
    OBVIOUS
  <2> USE DEF TypeOK, SleepInv, ThreadAt, OwnerAt, shared, lifecycle
  <2>1. CASE Start
    BY <2>1 DEF Start
  <2>2. CASE Stop
    BY <2>2 DEF Stop, StopSampler
  <2>3. CASE Destroy
    BY <2>3 DEF Destroy, StopSampler
  <2>4. CASE OwnerFinishes
    BY <2>4 DEF OwnerFinishes, Spawn, RequestStop, Join
  <2>5. CASE SetCallback
    BY <2>5 DEF SetCallback
  <2>6. CASE RequestRefresh
    BY <2>6 DEF RequestRefresh
  <2>7. CASE SetInterval
    BY <2>7 DEF SetInterval
  <2>8. CASE SamplerStep
    <3>1. CASE LoopHead
      BY <3>1 DEF LoopHead
    <3>2. CASE Enumerated
      BY <3>2 DEF Enumerated
    <3>3. CASE Publish
      BY <3>3 DEF Publish
    <3>4. CASE CallbackReturns
      BY <3>4 DEF CallbackReturns
    <3>5. CASE ClearRequest
      BY <3>5 DEF ClearRequest
    <3>6. CASE ReadInterval
      <4>1. PICK elapsed \in 0..MaxElapsed : sleepTime' = interval - elapsed
        BY <3>6 DEF ReadInterval
      <4>2. /\ interval \in Nat
            /\ elapsed \in Nat
            /\ elapsed <= MaxElapsed
        BY SamplerAssumption
      <4>3. sleepTime' \in Int /\ -MaxElapsed <= sleepTime' /\ sleepTime' <= interval
        BY <4>1, <4>2, SamplerAssumption
      <4>4. \E i \in Intervals : sleepTime' <= i
        BY <4>3
      <4>. QED  BY <3>6, <4>3, <4>4 DEF ReadInterval
    <3>7. CASE SleepTest
      BY <3>7 DEF SleepTest
    <3>8. CASE SleepChunk
      <4>1. sleepTime \in Int /\ sleepTime > 0
        BY <3>8 DEF SleepChunk
      <4>2. CheckInterval \in Int /\ CheckInterval > 0 /\ MaxElapsed \in Nat
        BY SamplerAssumption
      <4>3. /\ sleepTime' \in Int
            /\ 0 <= sleepTime'
            /\ sleepTime' <= sleepTime
        BY <3>8, <4>1, <4>2 DEF SleepChunk, Least
      <4>4. PICK i \in Intervals : sleepTime <= i
        OBVIOUS
      <4>5. i \in Nat
        BY SamplerAssumption
      <4>6. sleepTime' <= i /\ -MaxElapsed <= sleepTime'
        BY <4>1, <4>2, <4>3, <4>4, <4>5
      <4>. QED  BY <3>8, <4>3, <4>6 DEF SleepChunk
    <3>. QED  BY <2>8, <3>1, <3>2, <3>3, <3>4, <3>5, <3>6, <3>7, <3>8
              DEF SamplerStep
  <2>9. CASE Destroyed
    BY <2>9 DEF Destroyed, vars
  <2>10. CASE UNCHANGED vars
    BY <2>10 DEF vars
  <2>. QED  BY <2>1, <2>2, <2>3, <2>4, <2>5, <2>6, <2>7, <2>8, <2>9, <2>10 DEF Next
<1>. QED  BY <1>1, <1>2, PTL DEF Spec, SafetySpec

------------------------------------------------------------------------------
(* The lifecycle protocol between the owner and the thread.                *)

\* Where the owner is inside start() or stop() fixes what the thread can be
\* doing; the thread's exit implies that it was told to stop, and it is told
\* only by an owner that then waits for it.
LifecycleInv ==
    /\ owner = "idle" => (running <=> thread # "none")
    /\ owner = "spawning" => running /\ thread = "none"
    /\ owner \in {"stopping", "joining"} => ~running /\ thread # "none"
    /\ stopRequested /\ thread # "none" => owner = "joining"
    /\ thread = "exited" => stopRequested

LEMMA LifecycleStep ==
    ASSUME TypeOK, LifecycleInv, [Next]_vars
    PROVE  LifecycleInv'
<1> USE DEF TypeOK, LifecycleInv, ThreadAt, OwnerAt, shared, lifecycle
<1>1. CASE Start
  BY <1>1 DEF Start
<1>2. CASE Stop
  BY <1>2 DEF Stop, StopSampler
<1>3. CASE Destroy
  BY <1>3 DEF Destroy, StopSampler
<1>4. CASE OwnerFinishes
  BY <1>4 DEF OwnerFinishes, Spawn, RequestStop, Join
<1>5. CASE SetCallback
  BY <1>5 DEF SetCallback
<1>6. CASE RequestRefresh
  BY <1>6 DEF RequestRefresh
<1>7. CASE SetInterval
  BY <1>7 DEF SetInterval
<1>8. CASE SamplerStep
  <2>1. CASE LoopHead
    BY <2>1 DEF LoopHead
  <2>2. CASE Enumerated
    BY <2>2 DEF Enumerated
  <2>3. CASE Publish
    BY <2>3 DEF Publish
  <2>4. CASE CallbackReturns
    BY <2>4 DEF CallbackReturns
  <2>5. CASE ClearRequest
    BY <2>5 DEF ClearRequest
  <2>6. CASE ReadInterval
    BY <2>6 DEF ReadInterval
  <2>7. CASE SleepTest
    BY <2>7 DEF SleepTest
  <2>8. CASE SleepChunk
    BY <2>8 DEF SleepChunk
  <2>. QED  BY <1>8, <2>1, <2>2, <2>3, <2>4, <2>5, <2>6, <2>7, <2>8
            DEF SamplerStep
<1>9. CASE UNCHANGED vars
  BY <1>9 DEF vars
<1>. QED  BY <1>1, <1>2, <1>3, <1>4, <1>5, <1>6, <1>7, <1>8, <1>9
          DEF Next, Destroyed

\* After start(), stop() or the destructor has returned, isRunning() and the
\* thread agree: running means a thread inside its loop, stopped means none.
THEOREM LifecycleCorrect == Spec => []LifecycleAgreement
<1>1. Init => LifecycleInv
  BY DEF Init, LifecycleInv
<1>2. TypeOK /\ LifecycleInv /\ [Next]_vars => LifecycleInv'
  BY LifecycleStep
<1>3. TypeOK /\ LifecycleInv => LifecycleAgreement
  BY DEF TypeOK, LifecycleInv, LifecycleAgreement
<1>. QED  BY <1>1, <1>2, <1>3, TypeCorrect, PTL DEF Spec, SafetySpec

------------------------------------------------------------------------------
(* The contract.                                                           *)

\* The thread is inside a callback exactly at "invoking", and it is the
\* installed one: setCallback waits for the lock the call holds.
CallInv ==
    /\ invoked # NoCallback <=> thread = "invoking"
    /\ thread = "invoking" => invoked = callback

LEMMA CallStep ==
    ASSUME TypeOK, LifecycleInv, CallInv, [Next]_vars
    PROVE  CallInv' /\ [Contract!Next]_(Contract!vars)
<1> USE DEF TypeOK, CallInv, ThreadAt, shared, lifecycle, Contract!vars
<1>1. CASE Start
  BY <1>1 DEF Start
<1>2. CASE Stop
  BY <1>2 DEF Stop, StopSampler
<1>3. CASE Destroy
  BY <1>3 DEF Destroy, StopSampler
<1>4. CASE Spawn
  BY <1>4 DEF Spawn, LifecycleInv, Contract!Next, Contract!Activate
<1>5. CASE RequestStop
  BY <1>5 DEF RequestStop
<1>6. CASE Join
  BY <1>6 DEF Join, Contract!Next, Contract!Deactivate
<1>7. CASE SetCallback
  BY <1>7 DEF SetCallback, Contract!Next, Contract!Replace, Contract!Handlers
<1>8. CASE RequestRefresh
  BY <1>8 DEF RequestRefresh
<1>9. CASE SetInterval
  BY <1>9 DEF SetInterval
<1>10. CASE SamplerStep
  <2>1. CASE LoopHead
    BY <2>1 DEF LoopHead
  <2>2. CASE Enumerated
    BY <2>2 DEF Enumerated
  <2>3. CASE Publish
    BY <2>3 DEF Publish, Contract!Next, Contract!Call
  <2>4. CASE CallbackReturns
    BY <2>4 DEF CallbackReturns, Contract!Next, Contract!Return
  <2>5. CASE ClearRequest
    BY <2>5 DEF ClearRequest
  <2>6. CASE ReadInterval
    BY <2>6 DEF ReadInterval
  <2>7. CASE SleepTest
    BY <2>7 DEF SleepTest
  <2>8. CASE SleepChunk
    BY <2>8 DEF SleepChunk
  <2>. QED  BY <1>10, <2>1, <2>2, <2>3, <2>4, <2>5, <2>6, <2>7, <2>8
            DEF SamplerStep
<1>11. CASE UNCHANGED vars
  BY <1>11 DEF vars
<1>. QED  BY <1>1, <1>2, <1>3, <1>4, <1>5, <1>6, <1>7, <1>8, <1>9, <1>10, <1>11
          DEF Next, OwnerFinishes, Destroyed

\* Every behaviour of the sampler, its flags, lock and sleeps hidden, is a
\* behaviour of the contract (the contract's fairness is left to TLC).
THEOREM ContractKept == Spec => Contract!SafetySpec
<1>1. Init => LifecycleInv /\ CallInv /\ Contract!Init
  BY DEF Init, LifecycleInv, CallInv, Contract!Init
<1>2. TypeOK /\ LifecycleInv /\ [Next]_vars => LifecycleInv'
  BY LifecycleStep
<1>3. TypeOK /\ LifecycleInv /\ CallInv /\ [Next]_vars
        => CallInv' /\ [Contract!Next]_(Contract!vars)
  BY CallStep
<1>. QED  BY <1>1, <1>2, <1>3, TypeCorrect, PTL
          DEF Spec, SafetySpec, Contract!SafetySpec
------------------------------------------------------------------------------
(* Requests.                                                               *)

\* A request that came while the thread waited has its flag up until the next
\* enumeration begins: between there and "clear" none is left.
RequestInv ==
    /\ asked = "late" => refreshRequested
    /\ thread \in {"enumerating"} \cup BeforeClear => asked # "late"

LEMMA RequestStep ==
    ASSUME TypeOK, LifecycleInv, RequestInv, [Next]_vars
    PROVE  RequestInv'
<1> USE DEF TypeOK, RequestInv, BeforeClear, ThreadAt, shared, lifecycle
<1>1. CASE Start
  BY <1>1 DEF Start
<1>2. CASE Stop
  BY <1>2 DEF Stop, StopSampler
<1>3. CASE Destroy
  BY <1>3 DEF Destroy, StopSampler
<1>4. CASE Spawn
  BY <1>4 DEF Spawn
<1>5. CASE RequestStop
  BY <1>5 DEF RequestStop
<1>6. CASE Join
  BY <1>6 DEF Join
<1>7. CASE SetCallback
  BY <1>7 DEF SetCallback
<1>8. CASE RequestRefresh
  BY <1>8 DEF RequestRefresh
<1>9. CASE SetInterval
  BY <1>9 DEF SetInterval
<1>10. CASE SamplerStep
  <2>1. CASE LoopHead
    BY <2>1 DEF LoopHead
  <2>2. CASE Enumerated
    BY <2>2 DEF Enumerated
  <2>3. CASE Publish
    BY <2>3 DEF Publish
  <2>4. CASE CallbackReturns
    BY <2>4 DEF CallbackReturns
  <2>5. CASE ClearRequest
    BY <2>5 DEF ClearRequest
  <2>6. CASE ReadInterval
    BY <2>6 DEF ReadInterval
  <2>7. CASE SleepTest
    BY <2>7 DEF SleepTest
  <2>8. CASE SleepChunk
    BY <2>8 DEF SleepChunk
  <2>. QED  BY <1>10, <2>1, <2>2, <2>3, <2>4, <2>5, <2>6, <2>7, <2>8
            DEF SamplerStep
<1>11. CASE UNCHANGED vars
  BY <1>11 DEF vars
<1>. QED  BY <1>1, <1>2, <1>3, <1>4, <1>5, <1>6, <1>7, <1>8, <1>9, <1>10, <1>11
          DEF Next, OwnerFinishes, Destroyed

\* A request made while the sampler waits, is about to wait or is off lets no
\* further chunk be slept: nothing but an enumeration takes it back.
THEOREM RequestCutsSleep == Spec => PromptRefresh
<1>1. Init => RequestInv
  BY DEF Init, RequestInv, BeforeClear
<1>2. TypeOK /\ LifecycleInv /\ RequestInv /\ [Next]_vars => RequestInv'
  BY RequestStep
<1>3. ASSUME RequestInv, [Next]_vars
      PROVE  [(thread = "sleep" /\ thread' = "chunk") => asked # "late"]_vars
  <2> SUFFICES ASSUME thread = "sleep", thread' = "chunk", Next PROVE asked # "late"
    BY <1>3
  <2>1. SleepTest
    BY DEF Next, Start, Stop, StopSampler, Destroy, OwnerFinishes, Spawn, RequestStop, Join,
           SetCallback, RequestRefresh, SetInterval, SamplerStep, LoopHead, Enumerated,
           Publish, CallbackReturns, ClearRequest, ReadInterval, SleepChunk, Destroyed, vars
  <2>2. ~refreshRequested
    BY <2>1 DEF SleepTest
  <2>. QED  BY <1>3, <2>2 DEF RequestInv
<1>4. Init => LifecycleInv
  BY DEF Init, LifecycleInv
<1>5. TypeOK /\ LifecycleInv /\ [Next]_vars => LifecycleInv'
  BY LifecycleStep
<1>. QED  BY <1>1, <1>2, <1>3, <1>4, <1>5, TypeCorrect, PTL
          DEF Spec, SafetySpec, PromptRefresh
==============================================================================

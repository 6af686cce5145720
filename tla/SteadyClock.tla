------------------------------ MODULE SteadyClock ------------------------------
(***************************************************************************)
(* std::chrono::steady_clock as the models and the panels read it: time    *)
(* passes between any two steps and never runs backwards.                  *)
(***************************************************************************)
EXTENDS Integers

CONSTANT MaxClock     \* bound: the time up to which the machine runs

ASSUME ClockAssumption == MaxClock \in Nat

VARIABLE clock

ClockInit == clock = 0

\* The part of a tick that concerns the clock; what else a tick brings is
\* for the modules that extend this one to say.
Advance == clock < MaxClock /\ clock' = clock + 1
==============================================================================

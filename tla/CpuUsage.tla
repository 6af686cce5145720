-------------------------------- MODULE CpuUsage --------------------------------
(***************************************************************************)
(* SystemModel::computeCpuUsage and Platform::CpuCounters::total (src/src/ *)
(* Domain/SystemModel.cpp, src/src/Platform/SystemTypes.h) over a CPU as   *)
(* Linux accounts for it: each tick goes to one mode, a guest's tick is    *)
(* also counted as user (or nice) time, and iowait may be taken back       *)
(* (proc(5)).  A percentage is a pair of numerator and denominator.        *)
(***************************************************************************)
EXTENDS Integers

CONSTANTS
    Word,             \* counters are unsigned: arithmetic is modulo Word
    MaxTicks          \* bound: ticks until the CPU rests

ASSUME CpuUsageAssumption ==
    /\ Word \in Nat /\ MaxTicks \in Nat \ {0}
    \* an interval is shorter than the range of the counters' sum
    /\ 2 * MaxTicks < Word

VARIABLES
    ticks,            \* ticks so far
    cpu,              \* the kernel's counters
    previous,         \* m_PrevCounters.cpuTotal
    usage,            \* m_Snapshot.cpuTotal
    spent,            \* history variable: ticks by mode since the last sample
    taken,            \* history variable: iowait was taken back since then
    shown             \* history variable: spent and taken of the last interval

cpuVars == <<ticks, cpu, previous, usage, spent, taken, shown>>

Modes == {"user", "nice", "system", "idle", "iowait", "irq", "softirq",
          "steal", "guest", "guestNice"}

NoTicks == [m \in Modes |-> 0]

\* The default CpuUsage: every percentage 0.
NoUsage == [user |-> 0, system |-> 0, idle |-> 0, iowait |-> 0, steal |-> 0,
            total |-> 0, of |-> 1]

CpuInit ==
    /\ ticks = 0
    /\ \E n \in {0, Word - 1} : cpu = [m \in Modes |-> n]
    /\ previous = cpu
    /\ usage = NoUsage
    /\ spent = NoTicks
    /\ taken = FALSE
    /\ shown = [spent |-> NoTicks, taken |-> FALSE]

------------------------------------------------------------------------------
(* The kernel.                                                             *)

\* The counters that a tick in mode m advances.
Charged(m) ==
    {m} \cup (IF m = "guest" THEN {"user"}
              ELSE IF m = "guestNice" THEN {"nice"} ELSE {})

Tick(m) ==
    /\ ticks < MaxTicks
    /\ ticks' = ticks + 1
    /\ cpu' = [c \in Modes |-> IF c \in Charged(m) THEN (cpu[c] + 1) % Word
                               ELSE cpu[c]]
    /\ spent' = [spent EXCEPT ![m] = spent[m] + 1]
    /\ UNCHANGED <<previous, usage, taken, shown>>

\* "The value in this field may decrease in certain conditions."
IowaitTakenBack ==
    /\ ~taken
    /\ cpu["iowait"] > 0
    /\ cpu' = [cpu EXCEPT !["iowait"] = cpu["iowait"] - 1]
    /\ taken' = TRUE
    /\ UNCHANGED <<ticks, previous, usage, spent, shown>>

------------------------------------------------------------------------------
(* Faulty variants of operators below; Next uses none of them.             *)

\* Nice time before the interval counts as the interval's.
UserDeltaOfNice(current, before) ==
    (current["user"] + current["nice"] - before["user"]) % Word

------------------------------------------------------------------------------
(* computeCpuUsage                                                         *)

\* CpuCounters::total()
CpuTotal(c) ==
    (c["user"] + c["nice"] + c["system"] + c["idle"] + c["iowait"] + c["irq"]
       + c["softirq"] + c["steal"] + c["guest"] + c["guestNice"]) % Word

ModeDelta(current, before, mode) == (current[mode] - before[mode]) % Word

UserDelta(current, before) ==
    (current["user"] + current["nice"] - (before["user"] + before["nice"]))
        % Word

\* std::clamp of 100 * delta / of to 0..100.
ClampedShare(delta, of) == IF delta < 0 THEN 0 ELSE IF delta > of THEN of ELSE delta

ComputeCpuUsage(current, before) ==
    LET of == (CpuTotal(current) - CpuTotal(before)) % Word
    IN  IF of = 0 THEN NoUsage
        ELSE [user   |-> ClampedShare(UserDelta(current, before), of),
              system |-> ClampedShare(ModeDelta(current, before, "system"), of),
              idle   |-> ClampedShare(ModeDelta(current, before, "idle"), of),
              iowait |-> ClampedShare(ModeDelta(current, before, "iowait"), of),
              steal  |-> ClampedShare(ModeDelta(current, before, "steal"), of),
              total  |-> ClampedShare(of - ModeDelta(current, before, "idle"), of),
              of     |-> of]

\* A refresh of the model reads the counters and shows the interval's usage.
RefreshUsage ==
    /\ usage' = ComputeCpuUsage(cpu, previous)
    /\ previous' = cpu
    /\ shown' = [spent |-> spent, taken |-> taken]
    /\ spent' = NoTicks
    /\ taken' = FALSE
    /\ UNCHANGED <<ticks, cpu>>

CpuNext == (\E m \in Modes : Tick(m)) \/ IowaitTakenBack \/ RefreshUsage

CpuSpec == CpuInit /\ [][CpuNext]_cpuVars

------------------------------------------------------------------------------
(* Properties.                                                             *)

Elapsed(s) ==
    s["user"] + s["nice"] + s["system"] + s["idle"] + s["iowait"] + s["irq"]
      + s["softirq"] + s["steal"] + s["guest"] + s["guestNice"]

\* Every percentage is between 0 and 100, even when iowait is taken back and a
\* difference wraps around.
PercentagesValid ==
    /\ cpu \in [Modes -> 0 .. Word - 1]
    /\ usage.of \in 1 .. Word - 1
    /\ \A p \in DOMAIN usage \ {"of"} : usage[p] \in 0 .. usage.of

\* Over an interval in which no guest runs and no time is taken back, each
\* percentage is the share of the interval's ticks spent in its modes, niced
\* time being user time and everything but idle counting as used, across a
\* wrap of any counter.
UsageIsTimeSpent ==
    LET s == shown.spent
    IN  (~shown.taken /\ s["guest"] = 0 /\ s["guestNice"] = 0
            /\ Elapsed(s) > 0) =>
        usage = [user |-> s["user"] + s["nice"], system |-> s["system"],
                 idle |-> s["idle"], iowait |-> s["iowait"],
                 steal |-> s["steal"], total |-> Elapsed(s) - s["idle"],
                 of |-> Elapsed(s)]

\* The stacked CPU chart never exceeds its axis: the parts add up to 100% at
\* most and those that are not idle to the total at most, guests included.
PartsFit ==
    ~shown.taken =>
        /\ usage.user + usage.system + usage.iowait + usage.steal
              <= usage.total
        /\ usage.total + usage.idle <= usage.of

\* What the snapshot and the stacked chart show of a CPU (computeCpuUsage).
UsageShown == PercentagesValid /\ UsageIsTimeSpent /\ PartsFit
==============================================================================

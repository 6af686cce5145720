---------------------------- MODULE LinuxPowerProbe ----------------------------
(* Platform::LinuxPowerProbe::read (src/src/Platform/Linux): a battery, read  *)
(* from sysfs one file after another while it is charged, discharged, plugged *)
(* in or taken out.  Energies are in Wh, power is in tenths of a watt.        *)
EXTENDS Integers, Sequences, FiniteSets, FiniteSetsExt

CONSTANTS
    Gauges,             \* files the battery has: "energy" (and power) or "charge" (and current)
    Batteries,          \* what it may be like: [status, now, full, power, volts]
    Design,             \* energy_full_design or charge_full_design
    MaxPowerEvents      \* bound: changes of the battery

ASSUME PowerAssumption ==
    /\ Gauges \subseteq {"energy", "charge"} /\ Design \in Nat \ {0} /\ MaxPowerEvents \in Nat
    /\ \A b \in Batteries : b.now \in Nat /\ b.full \in Nat \ {0} /\ b.power \in Nat /\ b.volts \in Nat

VARIABLES
    gauge,              \* of the first of m_BatteryPaths, "none" if there is none
    battery,            \* the battery there is, NoBattery if it has been taken out
    powerEvents,
    power,              \* readBattery in progress: [step] and what was read
    powerShown,         \* counters of the last call
    batterySeen         \* history variable: what the battery has been since that call began

powerVars == <<gauge, battery, powerEvents, power, powerShown, batterySeen>>

NoBattery == [status |-> "", now |-> 0, full |-> 0, power |-> 0, volts |-> 0]
NotReadingPower == [step |-> "none"]
NoCounters ==
    [state |-> "Unknown", isOnAc |-> FALSE, percent |-> -1, now |-> 0, full |-> 0, design |-> 0,
     power |-> 0, health |-> -1, timeToEmpty |-> 0, timeToFull |-> 0]

(* discoverBatteries, in the constructor. *)
PowerInit ==
    /\ gauge \in Gauges \cup {"none"}
    /\ battery \in IF gauge = "none" THEN {NoBattery} ELSE Batteries
    /\ powerEvents = 0
    /\ power = NotReadingPower
    /\ powerShown = NoCounters /\ batterySeen = {battery}

BatteryChange ==
    /\ powerEvents < MaxPowerEvents /\ gauge # "none"
    /\ powerEvents' = powerEvents + 1
    /\ battery' \in Batteries \cup {NoBattery}
    /\ batterySeen' = IF power = NotReadingPower THEN batterySeen ELSE batterySeen \cup {battery'}
    /\ UNCHANGED <<gauge, power, powerShown>>
-----------------------------------------------------------------------------
(* Faulty variant: power is positive whatever it does. *)
Unsigned(watts, state) == watts
-----------------------------------------------------------------------------
(* parseBatteryState *)
State(status) ==
    CASE status = "Charging" -> "Charging"
      [] status = "Discharging" -> "Discharging"
      [] status \in {"Full", "Not charging"} -> "Full"
      [] OTHER -> "Unknown"

Present == battery # NoBattery

(* "Negate if charging" *)
Signed(watts, state) == IF state = "Charging" THEN -watts ELSE watts

(* A file that cannot be read gives 0, the capacity -1.  The energy of a      *)
(* battery that tells its charge is that times the voltage at the moment, and *)
(* so is its power, of a voltage read again.                                  *)
BatteryFiles == IF gauge = "energy" THEN <<"status", "capacity", "now", "full", "design", "power">>
         ELSE <<"status", "capacity", "now", "full", "design", "volts", "power", "volts">>
ReadFile(c, n) ==
    LET file == BatteryFiles[n]
    IN  CASE file = "status" -> [c EXCEPT !.state = State(battery.status),
                                          !.isOnAc = State(battery.status) \in {"Charging", "Full"}]
          [] file = "capacity" -> [c EXCEPT !.percent = IF Present THEN (battery.now * 100) \div battery.full ELSE -1]
          [] file = "now" -> [c EXCEPT !.now = battery.now]
          [] file = "full" -> [c EXCEPT !.full = battery.full]
          [] file = "design" -> [c EXCEPT !.design = IF Present THEN Design ELSE 0]
          [] file = "power" -> [c EXCEPT !.power = Signed(battery.power, c.state)]
          [] file = "volts" /\ n = 6 ->
                [c EXCEPT !.now = @ * battery.volts, !.full = @ * battery.volts, !.design = @ * battery.volts]
          [] OTHER -> [c EXCEPT !.power = @ * battery.volts]

(* If there is no energy_now (or charge_now) the files after it are not read, *)
(* nor is the voltage after the current.                                      *)
AfterFile(n) == IF BatteryFiles[n] = "now" /\ ~Present THEN Len(BatteryFiles) - (IF gauge = "energy" THEN 0 ELSE 1)
                ELSE IF BatteryFiles[n] = "power" /\ ~Present THEN Len(BatteryFiles) + 1
                ELSE n + 1

(* Health, and the time left at the present power if that is above 0.1 W. *)
Health(c) == IF gauge = "energy" /\ c.design > 0 THEN (c.full * 100) \div c.design ELSE -1
TimeToEmpty(c) == IF c.power > 1 /\ c.now > 0 THEN (c.now * 36000) \div c.power ELSE 0
TimeToFull(c) == IF c.power < -1 /\ c.full > c.now THEN ((c.full - c.now) * 36000) \div (-c.power) ELSE 0
Estimated(c) ==
    [c EXCEPT !.health = Health(c), !.timeToEmpty = TimeToEmpty(c), !.timeToFull = TimeToFull(c)]

ReadPower ==
    /\ power = NotReadingPower
    /\ batterySeen' = {battery}
    /\ IF gauge = "none" THEN /\ powerShown' = [NoCounters EXCEPT !.state = "NotPresent", !.isOnAc = TRUE]
                              /\ UNCHANGED power
       ELSE /\ power' = [step |-> 1, counters |-> NoCounters]
            /\ UNCHANGED powerShown
    /\ UNCHANGED <<gauge, battery, powerEvents>>

ReadBattery ==
    /\ power # NotReadingPower
    /\ LET counters == ReadFile(power.counters, power.step)
           next == AfterFile(power.step)
       IN  IF next <= Len(BatteryFiles) THEN /\ power' = [step |-> next, counters |-> counters]
                                      /\ UNCHANGED powerShown
           ELSE /\ power' = NotReadingPower
                /\ powerShown' = Estimated(counters)
    /\ UNCHANGED <<gauge, battery, powerEvents, batterySeen>>

PowerNext == BatteryChange \/ ReadPower \/ ReadBattery
PowerSpec == PowerInit /\ [][PowerNext]_powerVars
-----------------------------------------------------------------------------
(* However the battery changes between two files: of the times to empty and   *)
(* to full one at most is given, the first only of a battery that was not     *)
(* charging and the second only of one that was, at some moment of the read;  *)
(* neither is above what its least power and greatest energy there make it;   *)
(* and of a battery that was out throughout nothing is shown.                *)
EstimatesTrue ==
    power = NotReadingPower =>
        LET Volts == IF gauge = "charge" THEN {b.volts : b \in batterySeen} ELSE {1}
            Powers == {b.power * v : b \in batterySeen, v \in Volts}
            Longest(energy) == (energy * Max(Volts) * 36000) \div Min({p \in Powers : p > 1})
        IN  /\ powerShown.timeToEmpty = 0 \/ powerShown.timeToFull = 0
            /\ powerShown.timeToEmpty > 0 =>
                  /\ \E b \in batterySeen : b.status # "Charging"
                  /\ powerShown.timeToEmpty <= Longest(Max({b.now : b \in batterySeen}))
            /\ powerShown.timeToFull > 0 =>
                  /\ \E b \in batterySeen : b.status = "Charging"
                  /\ powerShown.timeToFull <= Longest(Max({b.full : b \in batterySeen}))
            /\ (batterySeen = {NoBattery} /\ gauge # "none") => powerShown = NoCounters
=============================================================================

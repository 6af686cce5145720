-------------------------------- MODULE MCParts --------------------------------
(* A BackgroundSampler with an interval of zero (it never sleeps), one shorter *)
(* than a chunk, and one of two chunks and a remainder; and components that   *)
(* meet only through what others make of their results. Each is in a          *)
(* behaviour of its own: one of them acts, the others stay as they were.      *)
EXTENDS BackgroundSampler, HistoryRing, CpuUsage, ProcessesPanel, LinuxPowerProbe, Format, TLC

VARIABLE part

MCIntervals == {0, 1, 5}

(* Processes with a parent each, one pid used again by a later process, with *)
(* parents that form chains, a circle or a pid that is its own parent.       *)
P(pid, start, parent, name, cpuPercent, engines) ==
    [pid |-> pid, start |-> start, parent |-> parent, name |-> name, cpu |-> cpuPercent, engines |-> engines]
MCRows == {P(1, 1, 0, <<"A", "b">>, 0, <<>>), P(2, 1, 1, <<"a">>, 1, <<1>>), P(2, 2, 3, <<"b">>, 0, <<2>>),
           P(3, 1, 2, <<"B", "a">>, 1, <<1, 2>>), P(4, 1, 3, <<"A">>, 0, <<>>)}
MCTerms == {<<"A">>, <<"b">>, <<"B", "A">>}
MCLower(c) == CASE c = "A" -> "a" [] c = "B" -> "b" [] OTHER -> c
MCSortColumns == {"PID", "CpuPercent", "GpuEngine"}

(* A battery that is charged, discharged, or neither; two voltages. *)
B(status, now, watts, volts) == [status |-> status, now |-> now, full |-> 2, power |-> watts, volts |-> volts]
MCBatteries == {B("Charging", 1, 3, 1), B("Charging", 1, 1, 2), B("Discharging", 1, 3, 2),
                B("Discharging", 2, 2, 1), B("Not charging", 2, 0, 1)}

PartsInit ==
    /\ part \in {"sampler", "ring", "cpu", "panel", "battery", "format"}
    /\ Init
    /\ RingInit
    /\ CpuInit /\ (part # "cpu" => cpu["user"] = 0)
    /\ PanelInit /\ (part # "panel" => snapshots = <<>>)
    /\ PowerInit /\ (part # "battery" => gauge = "none")
    /\ FormatInit /\ (part # "format" => firstYear = 1898)

PartsNext ==
    \/ part = "sampler" /\ Next /\ UNCHANGED <<part, ringVars, cpuVars, panelVars, powerVars, formatVars>>
    \/ part = "ring" /\ RingNext /\ UNCHANGED <<part, vars, cpuVars, panelVars, powerVars, formatVars>>
    \/ part = "cpu" /\ CpuNext /\ UNCHANGED <<part, vars, ringVars, panelVars, powerVars, formatVars>>
    \/ part = "panel" /\ PanelNext /\ UNCHANGED <<part, vars, ringVars, cpuVars, powerVars, formatVars>>
    \/ part = "battery" /\ PowerNext /\ UNCHANGED <<part, vars, ringVars, cpuVars, panelVars, formatVars>>
    \/ part = "format" /\ FormatNext /\ UNCHANGED <<part, vars, ringVars, cpuVars, panelVars, powerVars>>

(* The fairness is that of the sampler, which asks nothing of it at rest. *)
PartsSpec ==
    PartsInit /\ [][PartsNext]_<<part, vars, ringVars, cpuVars, panelVars, powerVars, formatVars>> /\ Fairness

(* Bound: rows collapsed at a time. *)
FewCollapsed == Cardinality(m_CollapsedKeys) <= 2
================================================================================

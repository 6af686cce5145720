------------------------------ MODULE MCMachine ------------------------------
(* What samples the machine: SystemModel on a small machine (one refresher,   *)
(* two cores, one interface, four ticks), and the Linux probes. Each is in a  *)
(* behaviour of its own: one of them acts, the others rest as they began.     *)
EXTENDS SystemModel, NetlinkSocketStats, LinuxProcessProbe, LinuxSystemProbe, TLC

VARIABLE part

(* A window below the least one. *)
MCNarrow == {-3}

(* A TCP socket of a process and one of none, and a UDP socket. *)
MCDump(s) == IF s = 2 THEN 4 ELSE 1

MachineInit ==
    /\ part \in {"system", "netlink", "processes", "interfaces"}
    /\ Init /\ (part # "system" => cores = 1 /\ traffic = <<>>)
    /\ NetlinkInit /\ (part # "netlink" => m_Available)
    /\ ProbeInit
    /\ LinkInit /\ (part # "interfaces" => callers = Readers /\ \A n \in Ifaces : ~ifaces[n].up /\ ifaces[n].speed = 1)

MachineNext ==
    \/ part = "system" /\ Next /\ UNCHANGED <<part, netVars, probeVars, linkVars>>
    \/ part = "netlink" /\ NetlinkNext /\ UNCHANGED <<part, vars, probeVars, linkVars>>
    \/ part = "processes" /\ ProbeNext /\ UNCHANGED <<part, vars, netVars, linkVars>>
    \/ part = "interfaces" /\ LinkNext /\ UNCHANGED <<part, vars, netVars, probeVars>>

MachineSpec == MachineInit /\ [][MachineNext]_<<part, vars, netVars, probeVars, linkVars>>

(* Bound: the interfaces are missed by at most one of three refreshes in a    *)
(* row, while all cores are online and the window is as it was.               *)
OneMissed ==
    \A t \in Threads :
        LET misses == <<sample[t].missed, delay.missed, delay.missedBefore>>
            None   == [n \in 1 .. 3 |-> FALSE]
        IN  \/ misses = None
            \/ /\ \E n \in 1 .. 3 : misses = [None EXCEPT ![n] = TRUE]
               /\ cores = MaxCores /\ maxHistory = InitialWindow

(* Bound: interfaces are there for three ticks, histories grow for one more.  *)
Unplugged == clock = MaxClock => previous.net = <<>> /\ traffic = <<>>

(* Bound: the energy counter matters to no property of this run. *)
Narrowed == energy = 0

ReaderSymmetry == Permutations(Readers)
================================================================================

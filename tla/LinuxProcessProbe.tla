-------------------------- MODULE LinuxProcessProbe --------------------------
(* Platform::LinuxProcessProbe::enumerate (src/src/Platform/Linux), a read of *)
(* /proc file by file while processes start, run and exit.  A process is told *)
(* from others by its start time; a field of a row is the start time of the   *)
(* process it was read from, NotRead if its file could not be read.           *)
EXTENDS Integers, Sequences, FiniteSets, SequencesExt, FiniteSetsExt, TLC

CONSTANTS
    Pids,
    Inodes,         \* of sockets
    HasPowerCap,    \* m_HasPowerCap: there is a RAPL energy file
    MaxStarts,      \* bound: processes started
    MaxEnergy,      \* bound: the energy counter
    MaxCalls        \* bound: calls of enumerate

ASSUME ProbeAssumption ==
    /\ Pids \subseteq Nat \ {0} /\ HasPowerCap \in BOOLEAN
    /\ MaxStarts \in Nat /\ MaxEnergy \in Nat /\ MaxCalls \in Nat

VARIABLES
    procs,          \* the processes there are, by pid
    holders,        \* by inode, the pids with a file descriptor for it
    energy,         \* of the package, in microjoules
    starts,         \* number of processes started
    at,             \* where enumerate is: [step, pid]
    row,            \* counters, of the process at hand
    processes,      \* rows so far
    diag,           \* what queryAllSockets returned: inodes
    inodeToPid,
    returned,       \* rows of the last call, and how many calls there were
    existed,        \* history variable: processes there have been during the call
    throughout,     \* history variable: those there have been from its beginning on
    held            \* history variable: <<inode, pid>> there have been during the call

kernelVars == <<procs, holders, energy, starts, existed, throughout, held>>
probeVars == <<kernelVars, at, row, processes, diag, inodeToPid, returned>>

NotRead == 0
NoRow == [pid |-> 0]
Outside == [step |-> "outside", pid |-> 0]
Instances(ps) == {<<p, ps[p].start>> : p \in DOMAIN ps}
Holdings(hs) == {h \in Inodes \X Pids : h[2] \in hs[h[1]]}

ProbeInit ==
    /\ procs = [p \in {} |-> 0]
    /\ holders = [i \in Inodes |-> {}]
    /\ energy = 0 /\ starts = 0
    /\ at = Outside /\ row = NoRow /\ processes = <<>> /\ diag = {}
    /\ inodeToPid = [i \in {} |-> 0]
    /\ returned = [calls |-> 0, rows |-> <<>>]
    /\ existed = {} /\ throughout = {} /\ held = {}
-----------------------------------------------------------------------------
(* The kernel.                                                               *)

(* A process has the sockets of its parent; of other users' processes fd and *)
(* io are not readable.                                                      *)
Start(p, parent, readable) ==
    /\ starts < MaxStarts
    /\ p \notin DOMAIN procs /\ parent \in DOMAIN procs \cup {0}
    /\ starts' = starts + 1
    /\ procs' = [q \in DOMAIN procs \cup {p} |->
                    IF q = p THEN [start |-> starts', cpu |-> 0, readable |-> readable] ELSE procs[q]]
    /\ holders' = [i \in Inodes |-> IF parent \in holders[i] THEN holders[i] \cup {p} ELSE holders[i]]
    /\ existed' = existed \cup Instances(procs')
    /\ held' = held \cup Holdings(holders')
    /\ UNCHANGED <<energy, throughout>>

Exit(p) ==
    /\ procs' = [q \in DOMAIN procs \ {p} |-> procs[q]]
    /\ holders' = [i \in Inodes |-> holders[i] \ {p}]
    /\ throughout' = throughout \ {<<p, procs[p].start>>}
    /\ UNCHANGED <<energy, starts, existed, held>>

OpenSocket(i, p) ==
    /\ holders[i] = {}
    /\ holders' = [holders EXCEPT ![i] = {p}]
    /\ held' = held \cup Holdings(holders')
    /\ UNCHANGED <<procs, energy, starts, existed, throughout>>

(* The package needs energy whether or not a process of ours runs. *)
Run(p) ==
    /\ energy < MaxEnergy
    /\ energy' = energy + 1
    /\ procs' = IF p = 0 THEN procs ELSE [procs EXCEPT ![p].cpu = @ + 1]
    /\ UNCHANGED <<holders, starts, existed, throughout, held>>

Kernel ==
    /\ returned.calls < MaxCalls
    /\ \/ \E p \in Pids, parent \in Pids \cup {0}, readable \in BOOLEAN : Start(p, parent, readable)
       \/ \E p \in DOMAIN procs : Exit(p)
       \/ \E i \in Inodes, p \in DOMAIN procs : OpenSocket(i, p)
       \/ \E p \in DOMAIN procs \cup {0} : Run(p)
    /\ UNCHANGED <<at, row, processes, diag, inodeToPid, returned>>
-----------------------------------------------------------------------------
(* Faulty variants of operators below.                                       *)

(* The last entry of the directory is taken for its end. *)
LaterBelowLast(p) == {q \in DOMAIN procs : q > p /\ \E r \in DOMAIN procs : r > q}

(* Every process with the socket is charged with it. *)
SocketsOfAll(p) == {i \in diag : p \in holders[i]}
-----------------------------------------------------------------------------
(* enumerate                                                                 *)

Later(p) == {q \in DOMAIN procs : q > p}

Enumerate ==
    /\ at = Outside /\ returned.calls < MaxCalls
    /\ at' = [step |-> "entry", pid |-> 0]
    /\ existed' = Instances(procs) /\ throughout' = Instances(procs) /\ held' = Holdings(holders)
    /\ UNCHANGED <<procs, holders, energy, starts, row, processes, diag, inodeToPid, returned>>

(* directory_iterator: the next pid there is. *)
NextEntry ==
    /\ at.step = "entry"
    /\ at' = IF Later(at.pid) = {} THEN [step |-> "energy", pid |-> 0]
             ELSE [step |-> "stat", pid |-> Min(Later(at.pid))]
    /\ UNCHANGED <<kernelVars, row, processes, diag, inodeToPid, returned>>

(* A row with what is in stat; other fields keep their defaults. *)
Fresh(old, p) ==
    [pid |-> p, start |-> procs[p].start, cpu |-> procs[p].cpu, rss |-> procs[p].start, user |-> NotRead,
     command |-> NotRead, mask |-> NotRead, handles |-> NotRead, io |-> NotRead, status |-> NotRead,
     energy |-> 0, net |-> {}]

(* parseProcessStat fails if the process has exited since. *)
ParseProcessStat ==
    /\ at.step = "stat"
    /\ IF at.pid \in DOMAIN procs THEN /\ row' = Fresh(row, at.pid)
                                       /\ at' = [at EXCEPT !.step = "statm"]
       ELSE /\ at' = [at EXCEPT !.step = "entry"]
            /\ UNCHANGED row
    /\ UNCHANGED <<kernelVars, processes, diag, inodeToPid, returned>>

(* The start time of the process with the pid, if it may be read. *)
There(readable) == at.pid \in DOMAIN procs /\ (readable => procs[at.pid].readable)
Whose == procs[at.pid].start

(* The rest, in this order, each leaving its field alone if it cannot be read. *)
Files == <<"statm", "status", "cmdline", "affinity", "fd", "io", "freezer">>
ReadInto(file) ==
    CASE file = "statm" -> IF There(FALSE) THEN [row EXCEPT !.rss = Whose] ELSE row
      [] file = "status" -> IF There(FALSE) THEN [row EXCEPT !.user = Whose] ELSE row
      [] file = "cmdline" -> IF There(FALSE) THEN [row EXCEPT !.command = Whose] ELSE row
      [] file = "affinity" -> [row EXCEPT !.mask = IF There(FALSE) THEN Whose ELSE NotRead]
      [] file = "fd" -> IF There(TRUE) THEN [row EXCEPT !.handles = Whose] ELSE row
      [] file = "io" -> IF There(TRUE) THEN [row EXCEPT !.io = Whose] ELSE row
      [] file = "freezer" -> [row EXCEPT !.status = IF There(FALSE) THEN Whose ELSE NotRead]

ParseFile ==
    \E n \in DOMAIN Files :
        /\ at.step = Files[n]
        /\ row' = ReadInto(Files[n])
        /\ IF n < Len(Files) THEN /\ at' = [at EXCEPT !.step = Files[n + 1]]
                                  /\ UNCHANGED processes
           ELSE /\ at' = [at EXCEPT !.step = "entry"]
                /\ processes' = Append(processes, ReadInto(Files[n]))
        /\ UNCHANGED <<kernelVars, diag, inodeToPid, returned>>

(* attributeEnergyToProcesses: the counter of the package, divided among the  *)
(* rows by the processor time of their whole lives.                           *)
CpuOfAll == FoldSeq(LAMBDA r, sum : sum + r.cpu, 0, processes)
(* readSystemEnergy *)
SystemEnergy == IF HasPowerCap THEN energy ELSE 0

EnergyShare(r) == (SystemEnergy * r.cpu) \div CpuOfAll

AttributeEnergy ==
    /\ at.step = "energy"
    /\ processes' = IF SystemEnergy # 0 /\ CpuOfAll # 0
                    THEN [n \in DOMAIN processes |-> [processes[n] EXCEPT !.energy = EnergyShare(processes[n])]]
                    ELSE processes
    /\ at' = [step |-> "sockets", pid |-> 0]
    /\ UNCHANGED <<kernelVars, row, diag, inodeToPid, returned>>

(* attributeNetworkToProcesses asks for the sockets first, *)
QueryAllSockets ==
    /\ at.step = "sockets"
    /\ diag' = {i \in Inodes : holders[i] # {}}
    /\ inodeToPid' = [i \in {} |-> 0]
    /\ at' = [step |-> IF diag' = {} THEN "return" ELSE "fds", pid |-> 0]
    /\ UNCHANGED <<kernelVars, row, processes, returned>>

(* then buildInodeToPidMap goes through /proc again; a later pid replaces one before it, *)
BuildInodeToPidMap ==
    /\ at.step = "fds"
    /\ IF {q \in DOMAIN procs : q > at.pid} = {} THEN /\ at' = [step |-> "attribute", pid |-> 0]
                                                      /\ UNCHANGED inodeToPid
       ELSE LET p == Min({q \in DOMAIN procs : q > at.pid})
                seen == IF procs[p].readable THEN {i \in Inodes : p \in holders[i]} ELSE {}
            IN  /\ inodeToPid' = [i \in DOMAIN inodeToPid \cup seen |-> IF i \in seen THEN p ELSE inodeToPid[i]]
                /\ at' = [at EXCEPT !.pid = p]
    /\ UNCHANGED <<kernelVars, row, processes, diag, returned>>

(* and aggregateByPid adds up, without passing the largest number, the bytes of these sockets. *)
SocketsOf(p) == {i \in diag \cap DOMAIN inodeToPid : inodeToPid[i] = p}

AttributeNetwork ==
    /\ at.step = "attribute"
    /\ processes' = [n \in DOMAIN processes |-> [processes[n] EXCEPT !.net = SocketsOf(processes[n].pid)]]
    /\ at' = [step |-> "return", pid |-> 0]
    /\ UNCHANGED <<kernelVars, row, diag, inodeToPid, returned>>

Return ==
    /\ at.step = "return"
    /\ returned' = [calls |-> returned.calls + 1, rows |-> processes]
    /\ at' = Outside /\ row' = NoRow /\ processes' = <<>> /\ diag' = {} /\ inodeToPid' = [i \in {} |-> 0]
    /\ UNCHANGED kernelVars

ProbeNext ==
    \/ Kernel \/ Enumerate \/ NextEntry \/ ParseProcessStat \/ ParseFile \/ AttributeEnergy
    \/ QueryAllSockets \/ BuildInodeToPidMap \/ AttributeNetwork \/ Return

ProbeSpec == ProbeInit /\ [][ProbeNext]_probeVars
-----------------------------------------------------------------------------
RowSet == {processes[n] : n \in DOMAIN processes}
Reused(r) == \E e \in existed : e[1] = r.pid /\ e[2] # r.start

(* When /proc has been read, every process that was there throughout is in    *)
(* the list, no pid is there twice, and whatever is in the list was there.    *)
ListTrue ==
    at.step = "return" =>
        /\ Cardinality({r.pid : r \in RowSet}) = Len(processes)
        /\ {<<r.pid, r.start>> : r \in RowSet} \subseteq existed
        /\ throughout \subseteq {<<r.pid, r.start>> : r \in RowSet}

(* Although nothing keeps a process from going between any two of its files,  *)
(* no field of a row is another process's, unless the pid changed hands, and  *)
(* of a process that was there throughout nothing readable is missing.        *)
RowsOfOneProcess ==
    \A r \in RowSet :
        LET always == {r.rss, r.user, r.command, r.mask, r.status}
            private == {r.handles, r.io}
        IN  /\ ~Reused(r) => always \cup private \subseteq {r.start, NotRead}
            /\ <<r.pid, r.start>> \in throughout =>
                  always = {r.start} /\ private = IF procs[r.pid].readable THEN {r.start} ELSE {NotRead}

(* What enumerate returns is the processes there are. *)
EnumerationTrue == ListTrue /\ RowsOfOneProcess

(* The bytes of a socket that several processes share are counted once, for   *)
(* a process that has had it since the call began.                            *)
SocketsCountedOnce ==
    /\ \A r, q \in RowSet : r # q => r.net \cap q.net = {}
    /\ \A r \in RowSet : \A i \in r.net : <<i, r.pid>> \in held

(* "Cumulative energy consumption in microjoules" never falls for a process. *)
EnergyCumulative ==
    [][\A n \in DOMAIN returned.rows, m \in DOMAIN returned'.rows :
          LET before == returned.rows[n]
              now == returned'.rows[m]
          IN  before.pid = now.pid /\ before.start = now.start => now.energy >= before.energy]_returned
=============================================================================

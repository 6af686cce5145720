--------------------------- MODULE LinuxSystemProbe ---------------------------
(* Platform::LinuxSystemProbe::read (src/src/Platform/Linux) for the network  *)
(* interfaces: their counters from /proc/net/dev, state from sysfs, and link  *)
(* speed from sysfs by way of a cache whose lock is not held while sysfs is   *)
(* read.  One thread or two use the probe.                                    *)
EXTENDS Integers, Sequences, FiniteSets, SequencesExt

CONSTANTS
    Ifaces,         \* names of interfaces; "lo" may be one
    Speeds,         \* link speeds above zero
    Readers,        \* threads
    SpeedTtl,       \* LINK_SPEED_CACHE_TTL_SECONDS
    MaxSeconds,     \* bound: the clock
    MaxEvents       \* bound: changes to interfaces

ASSUME SystemProbeAssumption ==
    /\ SpeedTtl \in Nat \ {0} /\ MaxSeconds \in Nat /\ MaxEvents \in Nat
    /\ Speeds \subseteq Nat \ {0}
    /\ IsFiniteSet(Ifaces) /\ IsFiniteSet(Readers)

VARIABLES
    ifaces,             \* the interfaces there are: up, speed
    seconds,            \* steady_clock
    events,             \* changes so far
    callers,            \* the readers that call
    m_InterfaceCache,   \* by name: linkSpeedMbps, wasUp, lastSpeedCheck
    reader,             \* of each reader, where it is
    speedsIn,           \* history variable: by second, what sysfs had for each interface
    lastSeen            \* history variable: interfaces that were up when last looked at

linkVars == <<ifaces, seconds, events, callers, m_InterfaceCache, reader, speedsIn, lastSeen>>

Away == [pc |-> "away", todo |-> <<>>, listed |-> {}, since |-> 0, isUp |-> FALSE, now |-> 0, speed |-> 0]
Sysfs(now, n) == IF n \in DOMAIN now /\ now[n].up THEN now[n].speed ELSE 0
SpeedsNow(now) == [n \in Ifaces |-> {Sysfs(now, n)}]
NoEntries == [n \in {} |-> 0]

LinkInit ==
    /\ \E up \in BOOLEAN, speed \in Speeds : ifaces = [n \in Ifaces |-> [up |-> up, speed |-> speed]]
    /\ seconds = 1 /\ events = 0
    /\ callers \in {{r} : r \in Readers} \cup {Readers}
    /\ m_InterfaceCache = NoEntries
    /\ reader = [r \in Readers |-> Away]
    /\ speedsIn = <<SpeedsNow(ifaces)>>
    /\ lastSeen = {}
-----------------------------------------------------------------------------
(* Interfaces are plugged in and out, go up and down and change speed.       *)
IfaceChange ==
    /\ events < MaxEvents
    /\ events' = events + 1
    /\ \E n \in Ifaces :
          \/ /\ n \in DOMAIN ifaces
             /\ ifaces' = [m \in DOMAIN ifaces \ {n} |-> ifaces[m]]
          \/ \E up \in BOOLEAN, speed \in Speeds :
                ifaces' = [m \in DOMAIN ifaces \cup {n} |-> IF m = n THEN [up |-> up, speed |-> speed] ELSE ifaces[m]]
    /\ speedsIn' = [speedsIn EXCEPT ![seconds] = [n \in Ifaces |-> @[n] \cup {Sysfs(ifaces', n)}]]
    /\ UNCHANGED <<seconds, callers, m_InterfaceCache, reader, lastSeen>>

SecondPasses ==
    /\ seconds < MaxSeconds
    /\ seconds' = seconds + 1
    /\ speedsIn' = Append(speedsIn, SpeedsNow(ifaces))
    /\ UNCHANGED <<ifaces, events, callers, m_InterfaceCache, reader, lastSeen>>
-----------------------------------------------------------------------------
(* Faulty variants of operators below.                                       *)
(* The entry is stamped when it is stored. *)
CheckedAtStore(now) == seconds
-----------------------------------------------------------------------------
(* readNetworkCounters: a line for each interface but the loopback.          *)
Read(r) ==
    /\ r \in callers /\ reader[r] = Away
    /\ LET names == SetToSeq(DOMAIN ifaces \ {"lo"})
       IN  reader' = [reader EXCEPT ![r] = [Away EXCEPT !.pc = "next", !.todo = names, !.listed = ToSet(names)]]
    /\ UNCHANGED <<ifaces, seconds, events, callers, m_InterfaceCache, speedsIn, lastSeen>>

(* readInterfaceOperState, false for an interface that has gone *)
OperState(r) ==
    /\ reader[r].pc = "next" /\ reader[r].todo # <<>>
    /\ LET n == Head(reader[r].todo)
       IN  reader' = [reader EXCEPT ![r] = [@ EXCEPT !.pc = "now", !.since = seconds,
                                                      !.isUp = n \in DOMAIN ifaces /\ ifaces[n].up]]
    /\ UNCHANGED <<ifaces, seconds, events, callers, m_InterfaceCache, speedsIn, lastSeen>>

(* getInterfaceLinkSpeed reads the clock before it takes the lock, *)
ReadTime(r) ==
    /\ reader[r].pc = "now"
    /\ reader' = [reader EXCEPT ![r] = [@ EXCEPT !.pc = "check", !.now = seconds]]
    /\ UNCHANGED <<ifaces, seconds, events, callers, m_InterfaceCache, speedsIn, lastSeen>>

Got(r, speed) == [reader[r] EXCEPT !.pc = "got", !.speed = speed]
Hit(entry, isUp) == [entry EXCEPT !.wasUp = isUp]

(* looks into the cache, *)
CheckCache(r) ==
    /\ reader[r].pc = "check"
    /\ LET n == Head(reader[r].todo)
           isUp == reader[r].isUp
           cached == n \in DOMAIN m_InterfaceCache
           entry == m_InterfaceCache[n]
           valid == cached /\ (entry.wasUp \/ ~isUp) /\ reader[r].now - entry.lastSpeedCheck < SpeedTtl
       IN  IF valid THEN /\ m_InterfaceCache' = [m_InterfaceCache EXCEPT ![n] = Hit(@, isUp)]
                         /\ reader' = [reader EXCEPT ![r] = Got(r, entry.linkSpeedMbps)]
           ELSE /\ reader' = [reader EXCEPT ![r] = [@ EXCEPT !.pc = "sysfs"]]
                /\ UNCHANGED m_InterfaceCache
    /\ UNCHANGED <<ifaces, seconds, events, callers, speedsIn, lastSeen>>

(* reads sysfs without the lock, which gives 0 for what is not known, *)
ReadSysfs(r) ==
    /\ reader[r].pc = "sysfs"
    /\ reader' = [reader EXCEPT ![r] = [@ EXCEPT !.pc = "store", !.speed = Sysfs(ifaces, Head(reader[r].todo))]]
    /\ UNCHANGED <<ifaces, seconds, events, callers, m_InterfaceCache, speedsIn, lastSeen>>

Stamped(now) == now

(* and stores what it has, whatever happened to the entry in the meantime. *)
StoreEntry(r) ==
    /\ reader[r].pc = "store"
    /\ LET n == Head(reader[r].todo)
           entry == [linkSpeedMbps |-> reader[r].speed, wasUp |-> reader[r].isUp,
                     lastSpeedCheck |-> Stamped(reader[r].now)]
       IN  m_InterfaceCache' = [m \in DOMAIN m_InterfaceCache \cup {n} |->
                                   IF m = n THEN entry ELSE m_InterfaceCache[m]]
    /\ reader' = [reader EXCEPT ![r] = Got(r, reader[r].speed)]
    /\ UNCHANGED <<ifaces, seconds, events, callers, speedsIn, lastSeen>>

(* The interface is added to the counters. *)
NextInterface(r) ==
    /\ reader[r].pc = "got"
    /\ LET n == Head(reader[r].todo)
       IN  lastSeen' = IF reader[r].isUp THEN lastSeen \cup {n} ELSE lastSeen \ {n}
    /\ reader' = [reader EXCEPT ![r] = [Away EXCEPT !.pc = "next", !.todo = Tail(reader[r].todo),
                                                       !.listed = reader[r].listed]]
    /\ UNCHANGED <<ifaces, seconds, events, callers, m_InterfaceCache, speedsIn>>

(* cleanupStaleInterfaceCacheEntries *)
Cleanup(r) ==
    /\ reader[r].pc = "next" /\ reader[r].todo = <<>>
    /\ m_InterfaceCache' = [n \in DOMAIN m_InterfaceCache \cap reader[r].listed |-> m_InterfaceCache[n]]
    /\ lastSeen' = lastSeen \cap reader[r].listed
    /\ reader' = [reader EXCEPT ![r] = Away]
    /\ UNCHANGED <<ifaces, seconds, events, callers, speedsIn>>

LinkNext ==
    \/ IfaceChange \/ SecondPasses
    \/ \E r \in Readers : \/ Read(r) \/ OperState(r) \/ ReadTime(r) \/ CheckCache(r) \/ ReadSysfs(r)
                          \/ StoreEntry(r) \/ NextInterface(r) \/ Cleanup(r)

LinkSpec == LinkInit /\ [][LinkNext]_linkVars
-----------------------------------------------------------------------------
HadBetween(n, from, to) == UNION {speedsIn[t][n] : t \in from..to}

(* The speed shown is one the interface had within the time to live of the   *)
(* cache, however the reads of two threads interleave and though entries are *)
(* put back that were cleaned up, overwritten by older reads or kept for     *)
(* another interface of the same name.                                       *)
SpeedRecent ==
    \A r \in callers :
        reader[r].pc = "got" =>
            LET from == IF reader[r].now < SpeedTtl THEN 1 ELSE reader[r].now - SpeedTtl + 1
            IN  reader[r].speed \in HadBetween(Head(reader[r].todo), from, seconds)

(* As long as one thread uses the probe, an interface that comes up, or back, *)
(* as far as the reads could see, is not shown with the speed it had before.  *)
ReplugSeen ==
    Cardinality(callers) = 1 =>
        \A r \in callers :
            (reader[r].pc = "got" /\ reader[r].isUp /\ Head(reader[r].todo) \notin lastSeen) =>
                reader[r].speed \in HadBetween(Head(reader[r].todo), reader[r].since, seconds)

(* What getInterfaceLinkSpeed returns, with its cache. *)
LinkSpeedTrue == SpeedRecent /\ ReplugSeen
=============================================================================

------------------------------ MODULE Probes_proof ------------------------------
(***************************************************************************)
(* Theorems about the probes: NetlinkSocketStats, for any sockets, dumps,  *)
(* time to live and number of failures; LinuxProcessProbe, for any         *)
(* processes, sockets and number of calls; LinuxSystemProbe, for any       *)
(* interfaces, speeds, time to live and number of readers.                 *)
(***************************************************************************)
EXTENDS NetlinkSocketStats, LinuxProcessProbe, LinuxSystemProbe,
        FiniteSetTheorems, SequenceTheorems, WellFoundedInduction, TLAPS

------------------------------------------------------------------------------
(* NetlinkSocketStats.                                                     *)

Messages ==
    [type : {"SOCK_DIAG_BY_FAMILY"}, inode : Sockets, bytes : Nat]
        \cup [type : {"NLMSG_DONE", "NLMSG_ERROR"}]
Datagrams == Seq(Messages)

(* A datagram upon which a query stops. *)
Final(datagram) == \E i \in DOMAIN datagram : EndsQuery(datagram[i].type)

(* While a dump goes on something is left to receive, and when none does the  *)
(* last datagram in the queue is one that ends a query.                       *)
QueueInv ==
    /\ bytes \in [Sockets -> Nat]
    /\ dump \subseteq Sockets
    /\ queue \in Seq(Datagrams)
    /\ dump # {} => queue # <<>>
    /\ dump = {} /\ queue # <<>> => Final(queue[Len(queue)])

LEMMA Sent ==
    ASSUME NEW S, NEW q \in Seq(S), NEW d \in S
    PROVE  /\ Append(q, d) \in Seq(S)
           /\ Append(q, d) # <<>>
           /\ Append(q, d)[Len(Append(q, d))] = d
           /\ q \o <<d>> \in Seq(S)
           /\ q \o <<d>> # <<>>
           /\ Len(q \o <<d>>) \in DOMAIN (q \o <<d>>)
           /\ (q \o <<d>>)[Len(q \o <<d>>)] = d
  OBVIOUS

LEMMA OneLeft ==
    ASSUME NEW S, NEW q \in Seq(S), q # <<>>, Tail(q) = <<>>
    PROVE  Head(q) = q[Len(q)]
<1>1. Len(Tail(q)) = Len(q) - 1 /\ Len(q) \in Nat /\ Len(Tail(q)) = 0
  OBVIOUS
<1>2. Len(q) = 1
  BY <1>1
<1>. QED  BY <1>2

LEMMA FinalSingle ==
    ASSUME NEW type \in {"NLMSG_DONE", "NLMSG_ERROR"}
    PROVE  << [type |-> type] >> \in Datagrams /\ Final(<< [type |-> type] >>)
<1>1. << [type |-> type] >> \in Datagrams
  BY DEF Datagrams, Messages
<1>2. 1 \in DOMAIN << [type |-> type] >> /\ << [type |-> type] >>[1].type = type
  OBVIOUS
<1>. QED  BY <1>1, <1>2 DEF Final, EndsQuery

(* The datagram that leaves no socket to report ends the dump. *)
LEMMA DatagramEnds ==
    ASSUME bytes \in [Sockets -> Nat], NEW left \in SUBSET Sockets
    PROVE  /\ Datagram(left) \in Datagrams
           /\ Rest(left) \subseteq Sockets
           /\ Rest(left) = {} => Final(Datagram(left))
<1>1. CASE left = {}
  BY <1>1, FinalSingle DEF Datagram, Rest
<1>2. CASE left # {}
  <2> DEFINE s == CHOOSE x \in left : TRUE
             done == << [type |-> "NLMSG_DONE"] >>
             rest == IF left = {s} THEN done ELSE <<>>
  <2>1. s \in left
    BY <1>2
  <2> HIDE DEF s
  <2>2. Message(s) \in Messages
    BY <2>1 DEF Message, Messages
  <2>3. Datagram(left) = <<Message(s)>> \o rest /\ Rest(left) = left \ {s}
    BY <1>2 DEF Datagram, Rest, s
  <2>4. <<Message(s)>> \in Datagrams /\ rest \in Datagrams
    BY <2>2, FinalSingle DEF Datagrams
  <2>5. Datagram(left) \in Datagrams
    BY <2>3, <2>4 DEF Datagrams
  <2>6. ASSUME Rest(left) = {} PROVE Final(Datagram(left))
    <3>1. left = {s}
      BY <2>1, <2>3, <2>6
    <3>2. Datagram(left) = <<Message(s)>> \o << [type |-> "NLMSG_DONE"] >>
      BY <2>3, <3>1
    <3> DEFINE q == <<Message(s)>>
               d == [type |-> "NLMSG_DONE"]
    <3>3. q \in Seq(Messages) /\ d \in Messages /\ d.type = "NLMSG_DONE"
      BY <2>2 DEF Messages
    <3>4. Datagram(left) = q \o <<d>>
      BY <3>2
    <3> HIDE DEF q, d
    <3>5. /\ Len(q \o <<d>>) \in DOMAIN (q \o <<d>>)
          /\ (q \o <<d>>)[Len(q \o <<d>>)] = d
      BY <3>3, Sent
    <3>. QED  BY <3>3, <3>4, <3>5 DEF Final, EndsQuery
  <2>. QED  BY <2>3, <2>5, <2>6
<1>. QED  BY <1>1, <1>2

(* What a request leaves in the queue. *)
LEMMA RequestQueues ==
    ASSUME QueueInv, NEW d, Requested(d), bytes' = bytes
    PROVE  QueueInv' /\ queue' # <<>>
<1> DEFINE all == {s \in Sockets : Dump(s) = d}
           refused == dump # {} \/ d \in Unsupported
<1>1. /\ all \in SUBSET Sockets /\ bytes \in [Sockets -> Nat]
      /\ queue \in Seq(Datagrams) /\ dump \subseteq Sockets
  BY DEF QueueInv
<1>2. /\ queue' = Append(queue, IF refused THEN << [type |-> "NLMSG_ERROR"] >> ELSE Datagram(all))
      /\ dump' = IF refused THEN dump ELSE Rest(all)
  BY DEF Requested
<1> HIDE DEF all
<1>3. CASE refused
  BY <1>1, <1>2, <1>3, FinalSingle, Sent DEF QueueInv
<1>4. CASE ~refused
  BY <1>1, <1>2, <1>4, DatagramEnds, Sent DEF QueueInv
<1>. QED  BY <1>3, <1>4

(* A receive that does not end the query leaves the next datagram behind. *)
LEMMA ReceiveLeaves ==
    ASSUME QueueInv, queue # <<>>, Received, bytes' = bytes
    PROVE  QueueInv' /\ (~Final(Head(queue)) => queue' # <<>>)
<1>1. /\ bytes \in [Sockets -> Nat] /\ dump \in SUBSET Sockets
      /\ queue \in Seq(Datagrams) /\ Tail(queue) \in Seq(Datagrams)
  BY DEF QueueInv
<1>2. CASE dump = {}
  <2>1. queue' = Tail(queue) /\ dump' = {}
    BY <1>1, <1>2 DEF Received, Rest
  <2>2. Tail(queue) # <<>> => Tail(queue)[Len(Tail(queue))] = queue[Len(queue)]
    BY <1>1
  <2>3. Tail(queue) = <<>> => Head(queue) = queue[Len(queue)]
    BY <1>1, OneLeft
  <2>. QED  BY <1>1, <1>2, <2>1, <2>2, <2>3 DEF QueueInv
<1>3. CASE dump # {}
  <2>1. queue' = Tail(queue) \o <<Datagram(dump)>> /\ dump' = Rest(dump)
    BY <1>3 DEF Received
  <2>. QED  BY <1>1, <2>1, DatagramEnds, Sent DEF QueueInv
<1>. QED  BY <1>2, <1>3

LEMMA NotDone ==
    ASSUME NEW datagram, ~Parsed(datagram).done
    PROVE  ~Final(datagram)
<1> DEFINE ends == {i \in DOMAIN datagram : EndsQuery(datagram[i].type)}
<1>1. Parsed(datagram).done = (ends # {})
  BY DEF Parsed
<1>. QED  BY <1>1 DEF Final

LEMMA NextDumpSends == ASSUME NEW results PROVE NextDump(results).step # "recv"
  BY DEF NextDump

(* A query never waits in recv, with m_SocketMutex held, for a datagram that  *)
(* the kernel will not send: whatever sends and receives have failed before,  *)
(* and whatever replies of earlier queries that has left in the socket.       *)
THEOREM NeverWaitsForNothing == NetlinkSpec => []ReplyComes
<1> DEFINE Inv == QueueInv /\ ReplyComes
<1>1. NetlinkInit => Inv
  BY DEF NetlinkInit, QueueInv, ReplyComes, Query, Idle
<1>2. Inv /\ [NetlinkNext]_netVars => Inv'
  <2> SUFFICES ASSUME QueueInv, ReplyComes, [NetlinkNext]_netVars
               PROVE  QueueInv' /\ ReplyComes'
    OBVIOUS
  <2>1. CASE Traffic
    <3>1. bytes' \in [Sockets -> Nat]
      BY <2>1 DEF Traffic, QueueInv
    <3>. QED  BY <2>1, <3>1 DEF Traffic, QueueInv, ReplyComes
  <2>2. CASE UNCHANGED <<bytes, queue, dump, call>>
    BY <2>2 DEF QueueInv, ReplyComes
  <2>3. CASE CacheMiss \/ QueryUncached
    BY <2>3 DEF CacheMiss, QueryUncached, netKernel, QueueInv, ReplyComes, Query
  <2>4. CASE Send
    <3>1. bytes' = bytes
      BY <2>4 DEF Send, netKernel
    <3>2. CASE Requested(call.d)
      BY <3>1, <3>2, RequestQueues DEF ReplyComes
    <3>3. CASE call' = NextDump(call.results) /\ UNCHANGED <<queue, dump>>
      BY <3>1, <3>3, NextDumpSends DEF QueueInv, ReplyComes
    <3>. QED  BY <2>4, <3>2, <3>3 DEF Send
  <2>5. CASE Receive
    <3>1. bytes' = bytes /\ queue # <<>> /\ Received
      BY <2>5 DEF Receive, netKernel
    <3>2. QueueInv' /\ (~Final(Head(queue)) => queue' # <<>>)
      BY <3>1, ReceiveLeaves
    <3>3. CASE Parsed(Head(queue)).done
      <4>1. call' = NextDump(call.results \o Parsed(Head(queue)).results)
        BY <2>5, <3>3 DEF Receive
      <4>. QED  BY <3>2, <4>1, NextDumpSends DEF ReplyComes
    <3>4. CASE ~Parsed(Head(queue)).done
      BY <3>2, <3>4, NotDone DEF ReplyComes
    <3>. QED  BY <3>3, <3>4
  <2>6. CASE ReceiveFails
    BY <2>6, NextDumpSends DEF ReceiveFails, netKernel, QueueInv, ReplyComes
  <2>7. CASE QueryReturns
    BY <2>7 DEF QueryReturns, netKernel, QueueInv, ReplyComes
  <2>. QED
    BY <2>1, <2>2, <2>3, <2>4, <2>5, <2>6, <2>7
       DEF NetlinkNext, TimePasses, Unavailable, CacheHit, InvalidateCache, netVars, netKernel, netCache
<1>. QED  BY <1>1, <1>2, PTL DEF NetlinkSpec

(* What was reported of sockets: each once, with bytes it had between two times. *)
Reports == [inode : Sockets \ {0}, bytes : Nat]
Reported(results, S, low, high) ==
    /\ results \in Seq(Reports)
    /\ \A i, j \in DOMAIN results : results[i].inode = results[j].inode => i = j
    /\ {results[i].inode : i \in DOMAIN results} = S
    /\ \A i \in DOMAIN results :
          Dump(results[i].inode) <= 2 =>
              results[i].bytes \in low[results[i].inode] .. high[results[i].inode]

NoMore(f, g) == \A s \in Sockets : f[s] <= g[s]

LEMMA NothingReported ==
    ASSUME NEW low, NEW high PROVE Reported(<<>>, {}, low, high)
  BY DEF Reported

LEMMA ReportedWider ==
    ASSUME NEW r, NEW S, NEW low, NEW high, Reported(r, S, low, high),
           NEW lower, NEW higher, NoMore(lower, low), NoMore(high, higher),
           low \in [Sockets -> Nat], high \in [Sockets -> Nat],
           lower \in [Sockets -> Nat], higher \in [Sockets -> Nat]
    PROVE  Reported(r, S, lower, higher)
<1>1. ASSUME NEW i \in DOMAIN r, Dump(r[i].inode) <= 2
      PROVE  r[i].bytes \in lower[r[i].inode] .. higher[r[i].inode]
  <2>1. r[i] \in Reports
    BY DEF Reported
  <2>2. PICK s \in Sockets, b \in Nat : s = r[i].inode /\ b = r[i].bytes
    BY <2>1 DEF Reports
  <2>3. b \in low[s] .. high[s]
    BY <1>1, <2>2 DEF Reported
  <2>4. lower[s] <= low[s] /\ high[s] <= higher[s]
    BY DEF NoMore
  <2>5. low[s] \in Nat /\ high[s] \in Nat /\ lower[s] \in Nat /\ higher[s] \in Nat
    OBVIOUS
  <2>6. b \in lower[s] .. higher[s]
    BY <2>3, <2>4, <2>5
  <2>. QED  BY <2>2, <2>6
<1>. QED  BY <1>1 DEF Reported

LEMMA ReportedMore ==
    ASSUME NEW r, NEW S, NEW low, NEW high, Reported(r, S, low, high),
           NEW s \in Sockets \ {0}, s \notin S, NEW b \in Nat, Dump(s) <= 2 => b \in low[s] .. high[s]
    PROVE  Reported(r \o <<[inode |-> s, bytes |-> b]>>, S \cup {s}, low, high)
<1>1. PICK x : x = [inode |-> s, bytes |-> b]
  OBVIOUS
<1>2. x \in Reports /\ x.inode = s /\ x.bytes = b
  BY <1>1 DEF Reports
<1>3. PICK q : q = r \o <<x>>
  OBVIOUS
<1>4. r \in Seq(Reports)
  BY DEF Reported
<1>5. PICK n \in Nat : n = Len(r) /\ DOMAIN r = 1..n
  BY <1>4
<1>6. /\ q \in Seq(Reports) /\ DOMAIN q = 1 .. n + 1
      /\ \A i \in 1..n : q[i] = r[i]
      /\ q[n + 1] = x
  BY <1>2, <1>3, <1>4, <1>5
<1>7. \A i \in 1..n : r[i].inode \in S
  BY <1>5 DEF Reported
<1>8. ASSUME NEW i \in 1 .. n + 1, NEW j \in 1 .. n + 1, q[i].inode = q[j].inode PROVE i = j
  <2>1. CASE i \in 1..n /\ j \in 1..n
    BY <1>5, <1>6, <1>8, <2>1 DEF Reported
  <2>2. CASE i \notin 1..n /\ j \notin 1..n
    BY <2>2
  <2>3. CASE i \in 1..n /\ j \notin 1..n
    <3>1. j = n + 1
      BY <2>3
    <3>. QED  BY <1>2, <1>6, <1>7, <1>8, <2>3, <3>1
  <2>4. CASE i \notin 1..n /\ j \in 1..n
    <3>1. i = n + 1
      BY <2>4
    <3>. QED  BY <1>2, <1>6, <1>7, <1>8, <2>4, <3>1
  <2>. QED  BY <2>1, <2>2, <2>3, <2>4
<1>9. {q[i].inode : i \in DOMAIN q} = S \cup {s}
  <2>1. ASSUME NEW i \in 1 .. n + 1 PROVE q[i].inode \in S \cup {s}
    <3>1. i \in 1..n \/ i = n + 1
      OBVIOUS
    <3>. QED  BY <1>2, <1>6, <1>7, <3>1
  <2>2. ASSUME NEW t \in S PROVE \E i \in 1 .. n + 1 : q[i].inode = t
    <3>1. PICK i \in 1..n : r[i].inode = t
      BY <1>5 DEF Reported
    <3>2. i \in 1 .. n + 1
      OBVIOUS
    <3>. QED  BY <1>6, <3>1, <3>2
  <2>3. n + 1 \in 1 .. n + 1 /\ q[n + 1].inode = s
    BY <1>2, <1>6
  <2>. QED  BY <1>6, <2>1, <2>2, <2>3
<1>10. ASSUME NEW i \in 1 .. n + 1, Dump(q[i].inode) <= 2
       PROVE  q[i].bytes \in low[q[i].inode] .. high[q[i].inode]
  <2>1. CASE i \in 1..n
    BY <1>5, <1>6, <1>10, <2>1 DEF Reported
  <2>2. CASE i = n + 1
    BY <1>2, <1>6, <1>10, <2>2
  <2>. QED  BY <2>1, <2>2
<1>11. Reported(q, S \cup {s}, low, high)
  BY <1>6, <1>8, <1>9, <1>10 DEF Reported
<1>. QED  BY <1>1, <1>3, <1>11

-----------------------------------------------------------------------------
(* What is parsed of the datagrams there are.                                *)

Socket(s, b) == [type |-> "SOCK_DIAG_BY_FAMILY", inode |-> s, bytes |-> b]
End(type) == << [type |-> type] >>
Taken(s, b) == IF s = 0 THEN <<>> ELSE <<[inode |-> s, bytes |-> b]>>

LEMMA Two ==
    ASSUME NEW a, NEW b
    PROVE  \A q : q = <<a>> \o <<b>> => DOMAIN q = 1..2 /\ q[1] = a /\ q[2] = b
<1>1. <<a>> \in Seq({a, b}) /\ <<b>> \in Seq({a, b})
  OBVIOUS
<1>2. Len(<<a>>) = 1 /\ Len(<<b>>) = 1
  OBVIOUS
<1>3. ASSUME NEW q, q = <<a>> \o <<b>> PROVE DOMAIN q = 1..2 /\ q[1] = a /\ q[2] = b
  BY <1>1, <1>2, <1>3
<1>. QED  BY <1>3

LEMMA One ==
    ASSUME NEW a
    PROVE  \A q : q = <<a>> \o <<>> => DOMAIN q = 1..1 /\ q[1] = a
<1>1. <<a>> \in Seq({a}) /\ <<>> \in Seq({a})
  OBVIOUS
<1>2. ASSUME NEW q, q = <<a>> \o <<>> PROVE DOMAIN q = 1..1 /\ q[1] = a
  BY <1>1, <1>2
<1>. QED  BY <1>2

EndsOf(datagram) == {i \in DOMAIN datagram : EndsQuery(datagram[i].type)}
KeptOf(datagram) == {i \in DOMAIN datagram : /\ datagram[i].type = "SOCK_DIAG_BY_FAMILY" /\ datagram[i].inode # 0
                                             /\ \A j \in EndsOf(datagram) : i < j}
PlaceOf(S, n) == CHOOSE i \in S : Cardinality({j \in S : j <= i}) = n

LEMMA ParsedIs ==
    ASSUME NEW datagram
    PROVE  /\ Parsed(datagram).done = (EndsOf(datagram) # {})
           /\ Parsed(datagram).results =
                 [n \in 1 .. Cardinality(KeptOf(datagram)) |->
                    [inode |-> datagram[PlaceOf(KeptOf(datagram), n)].inode,
                     bytes |-> datagram[PlaceOf(KeptOf(datagram), n)].bytes]]
  BY DEF Parsed, EndsOf, KeptOf, PlaceOf

LEMMA ParsedNone ==
    ASSUME NEW datagram, KeptOf(datagram) = {}
    PROVE  Parsed(datagram).results = <<>>
<1>1. PICK n : n = Cardinality(KeptOf(datagram))
  OBVIOUS
<1>2. 1..n = {}
  <2>1. n = 0
    BY <1>1, FS_EmptySet
  <2>. QED  BY <2>1
<1>3. PICK r : r = Parsed(datagram).results
  OBVIOUS
<1>4. r = [k \in 1..n |->
             [inode |-> datagram[PlaceOf(KeptOf(datagram), k)].inode,
              bytes |-> datagram[PlaceOf(KeptOf(datagram), k)].bytes]]
  BY <1>1, <1>3, ParsedIs
<1>5. r = [k \in DOMAIN r |-> r[k]] /\ DOMAIN r = {}
  BY <1>2, <1>4
<1>6. r = <<>>
  BY <1>5
<1>. QED  BY <1>3, <1>6

LEMMA ParsedFirst ==
    ASSUME NEW datagram, KeptOf(datagram) = {1}
    PROVE  Parsed(datagram).results = <<[inode |-> datagram[1].inode, bytes |-> datagram[1].bytes]>>
<1>1. Cardinality(KeptOf(datagram)) = 1
  BY FS_Singleton
<1>2. PlaceOf({1}, 1) = 1
  <2>1. {j \in {1} : j <= 1} = {1}
    OBVIOUS
  <2>2. Cardinality({j \in {1} : j <= 1}) = 1
    BY <2>1, FS_Singleton
  <2>3. \E i \in {1} : Cardinality({j \in {1} : j <= i}) = 1
    BY <2>2
  <2>4. PlaceOf({1}, 1) \in {1}
    BY <2>3 DEF PlaceOf
  <2>. QED  BY <2>4
<1>3. Parsed(datagram).results =
         [n \in 1..1 |-> [inode |-> datagram[PlaceOf({1}, n)].inode, bytes |-> datagram[PlaceOf({1}, n)].bytes]]
  BY <1>1, ParsedIs
<1>4. PICK x : x = [inode |-> datagram[1].inode, bytes |-> datagram[1].bytes]
  OBVIOUS
<1>5. Parsed(datagram).results = [n \in 1..1 |-> x]
  <2>1. \A n \in 1..1 : n = 1
    OBVIOUS
  <2>. QED  BY <1>2, <1>3, <1>4, <2>1
<1>6. [n \in 1..1 |-> x] = <<x>>
  OBVIOUS
<1>. QED  BY <1>4, <1>5, <1>6

(* Of a datagram that has a socket in front, and perhaps an end behind it. *)
LEMMA ParsedSocket ==
    ASSUME NEW s, NEW b, NEW ended \in BOOLEAN, NEW datagram,
           datagram = <<Socket(s, b)>> \o (IF ended THEN End("NLMSG_DONE") ELSE <<>>)
    PROVE  Parsed(datagram).done = ended /\ Parsed(datagram).results = Taken(s, b)
<1>1. /\ DOMAIN datagram = IF ended THEN 1..2 ELSE 1..1
      /\ datagram[1] = Socket(s, b)
      /\ ended => datagram[2] = [type |-> "NLMSG_DONE"]
  <2>1. CASE ended
    <3>1. datagram = <<Socket(s, b)>> \o << [type |-> "NLMSG_DONE"] >>
      BY <2>1 DEF End
    <3>2. PICK x, y : x = Socket(s, b) /\ y = [type |-> "NLMSG_DONE"]
      OBVIOUS
    <3>3. datagram = <<x>> \o <<y>>
      BY <3>1, <3>2
    <3>4. DOMAIN datagram = 1..2 /\ datagram[1] = x /\ datagram[2] = y
      BY <3>3, Two
    <3>. QED  BY <2>1, <3>2, <3>4
  <2>2. CASE ~ended
    <3>1. datagram = <<Socket(s, b)>> \o <<>>
      BY <2>2
    <3>. QED  BY <2>2, <3>1, One
  <2>. QED  BY <2>1, <2>2
<1>2. datagram[1].type = "SOCK_DIAG_BY_FAMILY" /\ datagram[1].inode = s /\ datagram[1].bytes = b
  BY <1>1 DEF Socket
<1>3. ended => datagram[2].type = "NLMSG_DONE"
  BY <1>1
<1>4. \A i \in DOMAIN datagram : i = 1 \/ (i = 2 /\ ended)
  <2>1. \A i \in 1..2 : i = 1 \/ i = 2
    OBVIOUS
  <2>2. \A i \in 1..1 : i = 1
    OBVIOUS
  <2>. QED  BY <1>1, <2>1, <2>2
<1>5. 1 \in DOMAIN datagram /\ (ended => 2 \in DOMAIN datagram)
  BY <1>1
<1>6. EndsQuery("NLMSG_DONE") /\ ~EndsQuery("SOCK_DIAG_BY_FAMILY")
  BY DEF EndsQuery
<1>7. EndsOf(datagram) = IF ended THEN {2} ELSE {}
  BY <1>2, <1>3, <1>4, <1>5, <1>6 DEF EndsOf
<1>8. KeptOf(datagram) = IF s = 0 THEN {} ELSE {1}
  <2>1. \A j \in EndsOf(datagram) : 1 < j
    BY <1>7
  <2>2. ASSUME NEW i \in KeptOf(datagram) PROVE i = 1 /\ s # 0
    BY <1>2, <1>3, <1>4 DEF KeptOf
  <2>3. s # 0 => 1 \in KeptOf(datagram)
    BY <1>2, <1>5, <2>1 DEF KeptOf
  <2>. QED  BY <2>2, <2>3
<1>9. Parsed(datagram).done = ended
  BY <1>7, ParsedIs
<1>10. CASE s = 0
  BY <1>8, <1>9, <1>10, ParsedNone DEF Taken
<1>11. CASE s # 0
  BY <1>2, <1>8, <1>9, <1>11, ParsedFirst DEF Taken
<1>. QED  BY <1>10, <1>11

LEMMA ParsedEnd ==
    ASSUME NEW type \in {"NLMSG_DONE", "NLMSG_ERROR"}
    PROVE  Parsed(End(type)).done = TRUE /\ Parsed(End(type)).results = <<>>
<1>1. PICK datagram : datagram = End(type)
  OBVIOUS
<1>2. DOMAIN datagram = {1} /\ datagram[1].type = type
  BY <1>1 DEF End
<1>3. EndsOf(datagram) = {1}
  BY <1>2 DEF EndsOf, EndsQuery
<1>4. KeptOf(datagram) = {}
  BY <1>2 DEF KeptOf
<1>. QED  BY <1>1, <1>3, <1>4, ParsedIs, ParsedNone

-----------------------------------------------------------------------------
(* The invariant.                                                            *)

Live == Sockets \ {0}
Before(d) == {s \in Live : Dump(s) < d}
Of(d) == {s \in Sockets : Dump(s) = d}

(* Bytes only grow, and bytesAt has what they were. *)
TrafficInv ==
    /\ bytes \in [Sockets -> Nat] /\ netClock \in Nat \ {0}
    /\ bytesAt \in Seq([Sockets -> Nat]) /\ Len(bytesAt) = netClock
    /\ \A t \in 1..netClock : NoMore(bytesAt[t], bytes)
    /\ \A t, u \in 1..netClock : t <= u => NoMore(bytesAt[t], bytesAt[u])

Since(results, S, t) == t \in 1..netClock /\ Reported(results, S, bytesAt[t], bytes)

(* While a reply is awaited there is one datagram: the last of a dump that    *)
(* has no socket, or the next socket of one, ending it if it is the last.     *)
Pending ==
    \/ /\ dump = {} /\ Since(call.results, Before(call.d + 1), call.now)
       /\ \E type \in {"NLMSG_DONE", "NLMSG_ERROR"} : queue = <<End(type)>>
    \/ \E s \in Of(call.d), b \in Nat :
          /\ dump \subseteq Of(call.d) \ {s}
          /\ Since(call.results, Before(call.d + 1) \ (dump \cup {s}), call.now)
          /\ Dump(s) <= 2 => b \in bytesAt[call.now][s] .. bytes[s]
          /\ queue = << <<Socket(s, b)>> \o (IF dump = {} THEN End("NLMSG_DONE") ELSE <<>>) >>

(* Until something fails: what a call has gathered is what the dumps behind   *)
(* it have, since the call began; nothing of an earlier dump is left over;    *)
(* the cache and the answer are complete.                                     *)
CallInv ==
    /\ call = [of |-> call.of, step |-> call.step, d |-> call.d, now |-> call.now, results |-> call.results]
    /\ call.of \in {"warm-up", "cached", "uncached"} /\ call.step \in {"send", "recv", "return"}
    /\ call.d \in 1..5
    /\ call.step # "return" => call.d <= (IF call.of = "warm-up" THEN 2 ELSE 4)
    /\ call.step = "return" /\ call.of # "warm-up" => call.d = 5
    /\ call.step # "recv" =>
          queue = <<>> /\ dump = {} /\ Since(call.results, Before(call.d), call.now)
    /\ call.step = "recv" => Pending

CallsInv == (call = Idle /\ queue = <<>> /\ dump = {}) \/ (call # Idle /\ CallInv)

SocketCacheInv == m_LastQueryTime # Never => CacheTtl > 0 /\ Since(m_CachedResults, Live, m_LastQueryTime)

Earliest(t) == IF CacheTtl = 0 THEN t ELSE IF t < CacheTtl THEN 1 ELSE t - CacheTtl + 1
AnswerInv ==
    m_Available /\ answer # NoAnswer =>
        answer.at \in 1..netClock /\ Since(answer.results, Live, Earliest(answer.at))

AnswersInv ==
    /\ TrafficInv /\ failures \in Nat
    /\ failures = 0 => CallsInv /\ SocketCacheInv /\ AnswerInv

LEMMA NoMoreRefl == \A f : f \in [Sockets -> Nat] => NoMore(f, f)
  BY DEF NoMore

LEMMA SinceGrows ==
    ASSUME TrafficInv, TrafficInv', netClock <= netClock', NoMore(bytes, bytes'),
           \A t \in 1..netClock : bytesAt'[t] = bytesAt[t],
           NEW r, NEW S, NEW t, Since(r, S, t)
    PROVE  Since(r, S, t)'
<1>1. t \in 1..netClock /\ t \in 1..netClock'
  BY DEF Since, TrafficInv
<1>2. PICK low : low = bytesAt[t]
  OBVIOUS
<1>3. low \in [Sockets -> Nat] /\ low = bytesAt'[t]
  BY <1>1, <1>2 DEF TrafficInv
<1>4. PICK high : high = bytes
  OBVIOUS
<1>5. PICK higher : higher = bytes'
  OBVIOUS
<1>6. high \in [Sockets -> Nat] /\ higher \in [Sockets -> Nat]
  BY <1>4, <1>5 DEF TrafficInv
<1>7. Reported(r, S, low, high) /\ NoMore(high, higher)
  BY <1>2, <1>4, <1>5 DEF Since
<1>8. Reported(r, S, low, higher)
  BY <1>3, <1>6, <1>7, NoMoreRefl, ReportedWider
<1>. QED  BY <1>1, <1>3, <1>5, <1>8 DEF Since

LEMMA SinceEarlier ==
    ASSUME TrafficInv, NEW r, NEW S, NEW t, Since(r, S, t), NEW u \in 1..netClock, u <= t
    PROVE  Since(r, S, u)
<1>1. t \in 1..netClock
  BY DEF Since
<1>2. PICK low, lower, high : low = bytesAt[t] /\ lower = bytesAt[u] /\ high = bytes
  OBVIOUS
<1>3. low \in [Sockets -> Nat] /\ lower \in [Sockets -> Nat] /\ high \in [Sockets -> Nat]
  BY <1>1, <1>2 DEF TrafficInv
<1>4. NoMore(lower, low)
  BY <1>1, <1>2 DEF TrafficInv
<1>5. Reported(r, S, low, high)
  BY <1>2 DEF Since
<1>6. Reported(r, S, lower, high)
  BY <1>3, <1>4, <1>5, NoMoreRefl, ReportedWider
<1>. QED  BY <1>2, <1>6 DEF Since

(* What was gathered is kept by a step that takes neither time nor bytes. *)
LEMMA SinceKept ==
    ASSUME UNCHANGED netKernel, NEW r, NEW S, NEW t
    PROVE  Since(r, S, t)' <=> Since(r, S, t)
  BY DEF Since, netKernel

(* The kernel's own steps. *)
LEMMA KernelGrows ==
    ASSUME TrafficInv, Traffic \/ TimePasses
    PROVE  /\ TrafficInv' /\ netClock <= netClock' /\ NoMore(bytes, bytes')
           /\ \A t \in 1..netClock : bytesAt'[t] = bytesAt[t]
           /\ UNCHANGED <<queue, dump, netCache, call, answer, failures>>
<1>1. CASE Traffic
  <2>1. PICK s \in Sockets : bytes' = [bytes EXCEPT ![s] = @ + 1]
    BY <1>1 DEF Traffic
  <2>2. netClock' = netClock /\ bytesAt' = bytesAt
    BY <1>1 DEF Traffic
  <2>3. bytes \in [Sockets -> Nat]
    BY DEF TrafficInv
  <2>4. bytes' \in [Sockets -> Nat] /\ \A x \in Sockets : bytes[x] <= bytes'[x]
    BY <2>1, <2>3
  <2>5. ASSUME NEW t \in 1..netClock PROVE NoMore(bytesAt[t], bytes')
    <3>1. bytesAt[t] \in [Sockets -> Nat] /\ NoMore(bytesAt[t], bytes)
      BY DEF TrafficInv
    <3>2. ASSUME NEW x \in Sockets PROVE bytesAt[t][x] <= bytes'[x]
      <4>1. bytesAt[t][x] \in Nat /\ bytes[x] \in Nat /\ bytes'[x] \in Nat
        BY <2>3, <2>4, <3>1
      <4>2. bytesAt[t][x] <= bytes[x] /\ bytes[x] <= bytes'[x]
        BY <2>4, <3>1 DEF NoMore
      <4>. QED  BY <4>1, <4>2
    <3>. QED  BY <3>2 DEF NoMore
  <2>6. TrafficInv'
    BY <2>2, <2>4, <2>5 DEF TrafficInv
  <2>. QED  BY <1>1, <2>2, <2>4, <2>6 DEF Traffic, NoMore, TrafficInv
<1>2. CASE TimePasses
  <2>1. /\ netClock' = netClock + 1 /\ bytesAt' = Append(bytesAt, bytes) /\ bytes' = bytes
        /\ UNCHANGED <<queue, dump, netCache, call, answer, failures>>
    BY <1>2 DEF TimePasses
  <2>2. PICK n \in Nat : n = netClock /\ n > 0 /\ Len(bytesAt) = n
    BY DEF TrafficInv
  <2>3. /\ bytesAt' \in Seq([Sockets -> Nat]) /\ Len(bytesAt') = n + 1
        /\ \A t \in 1..n : bytesAt'[t] = bytesAt[t]
        /\ bytesAt'[n + 1] = bytes
    BY <2>1, <2>2 DEF TrafficInv
  <2>4. \A t \in 1 .. n + 1 : t \in 1..n \/ t = n + 1
    OBVIOUS
  <2>5. NoMore(bytes, bytes)
    BY NoMoreRefl DEF TrafficInv
  <2>6. \A t \in 1 .. n + 1 : NoMore(bytesAt'[t], bytes')
    BY <2>1, <2>2, <2>3, <2>4, <2>5 DEF TrafficInv
  <2>7. ASSUME NEW t \in 1 .. n + 1, NEW u \in 1 .. n + 1, t <= u PROVE NoMore(bytesAt'[t], bytesAt'[u])
    <3>1. CASE u = n + 1
      BY <2>1, <2>3, <2>6, <3>1
    <3>2. CASE u # n + 1
      <4>1. u \in 1..n /\ t \in 1..n
        BY <2>7, <3>2
      <4>. QED  BY <2>2, <2>3, <2>7, <4>1 DEF TrafficInv
    <3>. QED  BY <3>1, <3>2
  <2>8. TrafficInv'
    BY <2>1, <2>2, <2>3, <2>6, <2>7 DEF TrafficInv
  <2>. QED  BY <2>1, <2>2, <2>3, <2>5, <2>8
<1>. QED  BY <1>1, <1>2

(* They leave what was gathered as good as it was. *)
LEMMA KernelKeeps ==
    ASSUME AnswersInv, Traffic \/ TimePasses
    PROVE  AnswersInv'
<1>1. /\ TrafficInv /\ TrafficInv' /\ netClock <= netClock' /\ NoMore(bytes, bytes')
      /\ \A t \in 1..netClock : bytesAt'[t] = bytesAt[t]
      /\ UNCHANGED <<queue, dump, netCache, call, answer, failures>>
  BY KernelGrows DEF AnswersInv
<1>2. \A r, S, t : Since(r, S, t) => Since(r, S, t)'
  BY <1>1, SinceGrows
<1>3. ASSUME CallsInv PROVE CallsInv'
  <2>1. CASE call = Idle
    BY <1>1, <1>3, <2>1 DEF CallsInv
  <2>2. CASE call # Idle
    <3>1. CallInv
      BY <1>3, <2>2 DEF CallsInv
    <3>2. call.step = "recv" => Pending'
      <4> SUFFICES ASSUME call.step = "recv" PROVE Pending'
        OBVIOUS
      <4>1. Pending
        BY <3>1 DEF CallInv
      <4>2. CASE /\ dump = {} /\ Since(call.results, Before(call.d + 1), call.now)
                 /\ \E type \in {"NLMSG_DONE", "NLMSG_ERROR"} : queue = <<End(type)>>
        BY <1>1, <1>2, <4>2 DEF Pending
      <4>3. CASE \E s \in Of(call.d), b \in Nat :
                   /\ dump \subseteq Of(call.d) \ {s}
                   /\ Since(call.results, Before(call.d + 1) \ (dump \cup {s}), call.now)
                   /\ Dump(s) <= 2 => b \in bytesAt[call.now][s] .. bytes[s]
                   /\ queue = << <<Socket(s, b)>> \o (IF dump = {} THEN End("NLMSG_DONE") ELSE <<>>) >>
        <5>1. PICK s \in Of(call.d), b \in Nat :
                   /\ dump \subseteq Of(call.d) \ {s}
                   /\ Since(call.results, Before(call.d + 1) \ (dump \cup {s}), call.now)
                   /\ Dump(s) <= 2 => b \in bytesAt[call.now][s] .. bytes[s]
                   /\ queue = << <<Socket(s, b)>> \o (IF dump = {} THEN End("NLMSG_DONE") ELSE <<>>) >>
          BY <4>3
        <5>2. s \in Sockets /\ call.now \in 1..netClock
          BY <5>1 DEF Of, Since
        <5>3. PICK low : low = bytesAt[call.now]
          OBVIOUS
        <5>4. low \in [Sockets -> Nat] /\ bytesAt'[call.now] = low
          BY <1>1, <5>2, <5>3 DEF TrafficInv
        <5>5. Dump(s) <= 2 => b \in low[s] .. bytes'[s]
          <6>1. low[s] \in Nat /\ bytes[s] \in Nat /\ bytes'[s] \in Nat /\ bytes[s] <= bytes'[s]
            BY <1>1, <5>2, <5>4 DEF TrafficInv, NoMore
          <6>. QED  BY <5>1, <5>3, <6>1
        <5>6. Since(call.results, Before(call.d + 1) \ (dump \cup {s}), call.now)'
          BY <1>1, <1>2, <5>1
        <5>. QED  BY <1>1, <5>1, <5>4, <5>5, <5>6 DEF Pending
      <4>. QED  BY <4>1, <4>2, <4>3 DEF Pending
    <3>3. call.step # "recv" =>
            queue = <<>> /\ dump = {} /\ Since(call.results, Before(call.d), call.now)'
      BY <1>1, <1>2, <3>1 DEF CallInv
    <3>4. CallInv'
      BY <1>1, <3>1, <3>2, <3>3 DEF CallInv
    <3>. QED  BY <1>1, <2>2, <3>4 DEF CallsInv
  <2>. QED  BY <2>1, <2>2
<1>4. ASSUME SocketCacheInv PROVE SocketCacheInv'
  BY <1>1, <1>2, <1>4 DEF SocketCacheInv, netCache
<1>5. ASSUME AnswerInv PROVE AnswerInv'
  <2>1. netClock \in Nat /\ netClock' \in Nat
    BY <1>1 DEF TrafficInv
  <2>. QED  BY <1>1, <1>2, <1>5, <2>1 DEF AnswerInv, netCache
<1>. QED  BY <1>1, <1>3, <1>4, <1>5 DEF AnswersInv

(* A message more. *)
LEMMA SinceMore ==
    ASSUME TrafficInv, NEW d \in 1..4, NEW left, NEW s \in Of(d), left \subseteq Of(d) \ {s},
           NEW r, NEW t, Since(r, Before(d + 1) \ (left \cup {s}), t),
           NEW b \in Nat, Dump(s) <= 2 => b \in bytesAt[t][s] .. bytes[s]
    PROVE  Since(r \o Taken(s, b), Before(d + 1) \ left, t)
<1>1. s \in Sockets /\ Dump(s) = d
  BY DEF Of
<1>2. CASE s = 0
  <2>1. Before(d + 1) \ (left \cup {s}) = Before(d + 1) \ left
    BY <1>2 DEF Before, Live
  <2>2. r \in Seq(Reports)
    BY DEF Since, Reported
  <2>3. r \o <<>> = r
    BY <2>2
  <2>. QED  BY <1>2, <2>1, <2>3 DEF Taken
<1>3. CASE s # 0
  <2>1. s \in Sockets \ {0}
    BY <1>1, <1>3
  <2>2. PICK S : S = Before(d + 1) \ (left \cup {s})
    OBVIOUS
  <2>3. S \cup {s} = Before(d + 1) \ left /\ s \notin S
    BY <1>1, <1>3, <2>2 DEF Before, Live
  <2>4. PICK low, high : low = bytesAt[t] /\ high = bytes
    OBVIOUS
  <2>5. Reported(r, S, low, high) /\ t \in 1..netClock
    BY <2>2, <2>4 DEF Since
  <2>6. Dump(s) <= 2 => b \in low[s] .. high[s]
    BY <2>4
  <2>7. Reported(r \o <<[inode |-> s, bytes |-> b]>>, S \cup {s}, low, high)
    BY <2>1, <2>3, <2>5, <2>6, ReportedMore
  <2>. QED  BY <1>3, <2>3, <2>4, <2>5, <2>7 DEF Since, Taken
<1>. QED  BY <1>2, <1>3

(* The next datagram of a dump. *)
LEMMA DatagramIs ==
    ASSUME TrafficInv, NEW left \in SUBSET Sockets, left # {}, NEW t \in 1..netClock
    PROVE  \E s \in left, b \in Nat :
              /\ Rest(left) = left \ {s}
              /\ Dump(s) <= 2 => b \in bytesAt[t][s] .. bytes[s]
              /\ Datagram(left) = <<Socket(s, b)>> \o (IF Rest(left) = {} THEN End("NLMSG_DONE") ELSE <<>>)
<1>1. PICK s : s = CHOOSE x \in left : TRUE
  OBVIOUS
<1>2. s \in left /\ s \in Sockets
  BY <1>1
<1>3. Rest(left) = left \ {s}
  BY <1>1 DEF Rest
<1>4. PICK b : b = IF Dump(s) <= 2 THEN bytes[s] ELSE 0
  OBVIOUS
<1>5. b \in Nat
  BY <1>2, <1>4 DEF TrafficInv
<1>6. Dump(s) <= 2 => b \in bytesAt[t][s] .. bytes[s]
  <2>1. bytesAt[t][s] \in Nat /\ bytes[s] \in Nat /\ bytesAt[t][s] <= bytes[s]
    <3>1. bytesAt[t] \in [Sockets -> Nat] /\ NoMore(bytesAt[t], bytes)
      BY DEF TrafficInv
    <3>. QED  BY <1>2, <3>1 DEF TrafficInv, NoMore
  <2>. QED  BY <1>4, <2>1
<1>7. Datagram(left) = <<Socket(s, b)>> \o (IF left = {s} THEN End("NLMSG_DONE") ELSE <<>>)
  BY <1>1, <1>4 DEF Datagram, Message, Socket, End
<1>8. Rest(left) = {} <=> left = {s}
  BY <1>2, <1>3
<1>. QED  BY <1>2, <1>3, <1>5, <1>6, <1>7, <1>8

(* A step of a call or of a client, which takes neither time nor bytes. *)
LEMMA DumpsOrdered ==
    /\ \A s \in Sockets : Dump(s) \in 1..4 /\ Dump(s) \notin Unsupported
    /\ Before(1) = {} /\ Before(5) = Live
    /\ \A d \in 1..4 : Before(d) = Before(d + 1) \ Of(d)
<1>1. \A s \in Sockets : Dump(s) \in 1..4 /\ Dump(s) \notin Unsupported
  BY NetlinkAssumption
<1>2. Before(1) = {} /\ Before(5) = Live
  BY <1>1 DEF Before, Live
<1>3. \A d \in 1..4 : Before(d) = Before(d + 1) \ Of(d)
  BY <1>1 DEF Before, Of, Live
<1>. QED  BY <1>1, <1>2, <1>3

(* A request is answered by the first datagram of its dump, or refused. *)
LEMMA RequestPends ==
    ASSUME TrafficInv, call # Idle, CallInv, call.step = "send",
           Requested(call.d), call' = [call EXCEPT !.step = "recv"], UNCHANGED netKernel
    PROVE  CallInv' /\ call' # Idle
<1>1. PICK of, d, now, r : of = call.of /\ d = call.d /\ now = call.now /\ r = call.results
  OBVIOUS
<1>2. call' = [of |-> of, step |-> "recv", d |-> d, now |-> now, results |-> r]
  BY <1>1 DEF CallInv
<1>3. d \in 1..4 /\ queue = <<>> /\ dump = {} /\ Since(r, Before(d), now)
  BY <1>1 DEF CallInv
<1>4. \A S, t : Since(r, S, t)' <=> Since(r, S, t)
  BY SinceKept
<1>5. /\ queue' = <<IF d \in Unsupported THEN End("NLMSG_ERROR") ELSE Datagram(Of(d))>>
      /\ dump' = IF d \in Unsupported THEN dump ELSE Rest(Of(d))
  <2>1. \A x : Append(<<>>, x) = <<x>>
    OBVIOUS
  <2>. QED  BY <1>1, <1>3, <2>1 DEF Requested, Of, End
<1>6. Pending'
  <2>1. CASE Of(d) = {}
    <3>1. Since(r, Before(d + 1), now)
      <4>1. Before(d) = Before(d + 1)
        BY <1>3, <2>1, DumpsOrdered
      <4>. QED  BY <1>3, <4>1
    <3>2. dump' = {}
      BY <1>3, <1>5, <2>1 DEF Rest
    <3>3. queue' = <<End("NLMSG_ERROR")>> \/ queue' = <<End("NLMSG_DONE")>>
      BY <1>5, <2>1 DEF Datagram, End
    <3>. QED  BY <1>2, <1>4, <3>1, <3>2, <3>3 DEF Pending
  <2>2. CASE Of(d) # {}
    <3>1. d \notin Unsupported
      BY <2>2, DumpsOrdered DEF Of
    <3>2. Of(d) \in SUBSET Sockets /\ now \in 1..netClock
      BY <1>3 DEF Of, Since
    <3>3. PICK s \in Of(d), b \in Nat :
              /\ Rest(Of(d)) = Of(d) \ {s}
              /\ Dump(s) <= 2 => b \in bytesAt[now][s] .. bytes[s]
              /\ Datagram(Of(d)) =
                    <<Socket(s, b)>> \o (IF Rest(Of(d)) = {} THEN End("NLMSG_DONE") ELSE <<>>)
      BY <2>2, <3>2, DatagramIs
    <3>4. dump' = Of(d) \ {s} /\ dump' \cup {s} = Of(d)
      BY <1>5, <3>1, <3>3
    <3>5. Since(r, Before(d + 1) \ (dump' \cup {s}), now)
      BY <1>3, <3>4, DumpsOrdered
    <3>6. queue' = << <<Socket(s, b)>> \o (IF dump' = {} THEN End("NLMSG_DONE") ELSE <<>>) >>
      BY <1>5, <3>1, <3>3
    <3>7. Dump(s) <= 2 => b \in bytesAt'[now][s] .. bytes'[s]
      BY <3>3 DEF netKernel
    <3>8. s \in Of(d) /\ dump' \subseteq Of(d) \ {s}
      BY <3>4
    <3>9. call'.d = d /\ call'.results = r /\ call'.now = now
      BY <1>2
    <3>10. Since(call.results, Before(call.d + 1) \ (dump \cup {s}), call.now)'
      <4>1. PICK S : S = Before(d + 1) \ (dump' \cup {s})
        OBVIOUS
      <4>2. Since(r, S, now)'
        BY <1>4, <3>5, <4>1
      <4>. QED  BY <3>9, <4>1, <4>2 DEF Since
    <3>. QED  BY <3>6, <3>7, <3>8, <3>9, <3>10 DEF Pending
  <2>. QED  BY <2>1, <2>2
<1>7. /\ of \in {"warm-up", "cached", "uncached"} /\ d <= (IF of = "warm-up" THEN 2 ELSE 4)
  BY <1>1 DEF CallInv
<1>8. call' # Idle
  <2>1. call'.of # Idle.of
    BY <1>2, <1>7 DEF Idle
  <2>. QED  BY <2>1
<1>. QED  BY <1>2, <1>3, <1>6, <1>7, <1>8 DEF CallInv

(* A dump is over. *)
LEMMA NextDumpGathers ==
    ASSUME call # Idle, CallInv, call.step = "recv", NEW r, call' = NextDump(r), UNCHANGED netKernel,
           queue' = <<>>, dump' = {}, Since(r, Before(call.d + 1), call.now)
    PROVE  CallInv' /\ call' # Idle
<1>1. PICK of, d, now : of = call.of /\ d = call.d /\ now = call.now
  OBVIOUS
<1>2. PICK step : step = IF d = (IF of = "warm-up" THEN 2 ELSE 4) THEN "return" ELSE "send"
  OBVIOUS
<1>3. call' = [of |-> of, step |-> step, d |-> d + 1, now |-> now, results |-> r]
  BY <1>1, <1>2 DEF NextDump
<1>4. of \in {"warm-up", "cached", "uncached"} /\ d \in 1..5 /\ d <= (IF of = "warm-up" THEN 2 ELSE 4)
  BY <1>1 DEF CallInv
<1>5. /\ call'.of = of /\ call'.step = step /\ call'.d = d + 1 /\ call'.now = now /\ call'.results = r
  BY <1>3
<1>6. Since(call.results, Before(call.d), call.now)'
  <2>1. Since(r, Before(d + 1), now)'
    BY <1>1, SinceKept
  <2>2. Before(d + 1)' = Before(d + 1)
    BY DEF Before, Live
  <2>. QED  BY <1>5, <2>1 DEF Since, Before, Live
<1>7. /\ step \in {"send", "return"} /\ d + 1 \in 1..5
      /\ step # "return" => d + 1 <= (IF of = "warm-up" THEN 2 ELSE 4)
      /\ step = "return" /\ of # "warm-up" => d + 1 = 5
  BY <1>2, <1>4
<1>8. call' # Idle
  <2>1. call'.of # Idle.of
    BY <1>4, <1>5 DEF Idle
  <2>. QED  BY <2>1
<1>. QED  BY <1>3, <1>4, <1>5, <1>6, <1>7, <1>8 DEF CallInv

LEMMA ReceiveKeeps ==
    ASSUME TrafficInv, CallsInv, Receive
    PROVE  CallsInv'
<1>1. call # Idle /\ CallInv /\ call.step = "recv" /\ Pending /\ UNCHANGED netKernel
  BY DEF Receive, CallsInv, CallInv
<1>2. PICK r : r = call.results \o Parsed(Head(queue)).results
  OBVIOUS
<1>3. /\ Parsed(Head(queue)).done => call' = NextDump(r)
      /\ ~Parsed(Head(queue)).done => call' = [call EXCEPT !.results = r]
  BY <1>2 DEF Receive
<1>4. call.d \in 1..4
  BY <1>1 DEF CallInv
<1>5. CASE /\ dump = {} /\ Since(call.results, Before(call.d + 1), call.now)
           /\ \E type \in {"NLMSG_DONE", "NLMSG_ERROR"} : queue = <<End(type)>>
  <2>1. PICK type \in {"NLMSG_DONE", "NLMSG_ERROR"} : queue = <<End(type)>>
    BY <1>5
  <2>2. Head(queue) = End(type) /\ Tail(queue) = <<>>
    BY <2>1
  <2>3. Parsed(Head(queue)).done /\ Parsed(Head(queue)).results = <<>>
    BY <2>2, ParsedEnd
  <2>4. r = call.results
    <3>1. call.results \in Seq(Reports)
      BY <1>5 DEF Since, Reported
    <3>2. PICK q \in Seq(Reports) : q = call.results
      BY <3>1
    <3>3. q \o <<>> = q
      OBVIOUS
    <3>. QED  BY <1>2, <2>3, <3>2, <3>3
  <2>5. queue' = <<>> /\ dump' = {}
    <3>1. <<>> \o <<>> = <<>>
      OBVIOUS
    <3>. QED  BY <1>5, <2>2, <3>1 DEF Receive, Received, Rest
  <2>6. CallInv' /\ call' # Idle
    BY <1>1, <1>3, <1>5, <2>3, <2>4, <2>5, NextDumpGathers
  <2>. QED  BY <2>6 DEF CallsInv
<1>6. CASE \E s \in Of(call.d), b \in Nat :
              /\ dump \subseteq Of(call.d) \ {s}
              /\ Since(call.results, Before(call.d + 1) \ (dump \cup {s}), call.now)
              /\ Dump(s) <= 2 => b \in bytesAt[call.now][s] .. bytes[s]
              /\ queue = << <<Socket(s, b)>> \o (IF dump = {} THEN End("NLMSG_DONE") ELSE <<>>) >>
  <2>1. PICK s \in Of(call.d), b \in Nat :
              /\ dump \subseteq Of(call.d) \ {s}
              /\ Since(call.results, Before(call.d + 1) \ (dump \cup {s}), call.now)
              /\ Dump(s) <= 2 => b \in bytesAt[call.now][s] .. bytes[s]
              /\ queue = << <<Socket(s, b)>> \o (IF dump = {} THEN End("NLMSG_DONE") ELSE <<>>) >>
    BY <1>6
  <2>2. PICK first : first = <<Socket(s, b)>> \o (IF dump = {} THEN End("NLMSG_DONE") ELSE <<>>)
    OBVIOUS
  <2>3. Head(queue) = first /\ Tail(queue) = <<>>
    BY <2>1, <2>2
  <2>4. Parsed(first).done = (dump = {}) /\ Parsed(first).results = Taken(s, b)
    BY <2>2, ParsedSocket
  <2>5. r = call.results \o Taken(s, b)
    BY <1>2, <2>3, <2>4
  <2>6. Since(r, Before(call.d + 1) \ dump, call.now)
    BY <1>1, <1>4, <2>1, <2>5, SinceMore
  <2>7. CASE dump = {}
    <3>1. queue' = <<>> /\ dump' = {}
      <4>1. <<>> \o <<>> = <<>>
        OBVIOUS
      <4>. QED  BY <2>3, <2>7, <4>1 DEF Receive, Received, Rest
    <3>2. Since(r, Before(call.d + 1), call.now)
      BY <2>6, <2>7
    <3>3. CallInv' /\ call' # Idle
      BY <1>1, <1>3, <2>3, <2>4, <2>7, <3>1, <3>2, NextDumpGathers
    <3>. QED  BY <3>3 DEF CallsInv
  <2>8. CASE dump # {}
    <3>1. call' = [call EXCEPT !.results = r]
      BY <1>3, <2>3, <2>4, <2>8
    <3>2. PICK of, d, now : of = call.of /\ d = call.d /\ now = call.now
      OBVIOUS
    <3>3. call' = [of |-> of, step |-> "recv", d |-> d, now |-> now, results |-> r]
      BY <1>1, <3>1, <3>2 DEF CallInv
    <3>4. queue' = <<Datagram(dump)>> /\ dump' = Rest(dump)
      <4>1. \A x : <<>> \o <<x>> = <<x>>
        OBVIOUS
      <4>. QED  BY <2>3, <2>8, <4>1 DEF Receive, Received
    <3>5. dump \in SUBSET Sockets /\ now \in 1..netClock
      BY <2>1, <2>6, <3>2 DEF Of, Since
    <3>6. PICK t \in dump, c \in Nat :
              /\ Rest(dump) = dump \ {t}
              /\ Dump(t) <= 2 => c \in bytesAt[now][t] .. bytes[t]
              /\ Datagram(dump) = <<Socket(t, c)>> \o (IF Rest(dump) = {} THEN End("NLMSG_DONE") ELSE <<>>)
      BY <1>1, <2>8, <3>5, DatagramIs
    <3>7. dump' = dump \ {t} /\ dump' \cup {t} = dump
      BY <3>4, <3>6
    <3>8. t \in Of(d) /\ dump' \subseteq Of(d) \ {t}
      BY <2>1, <3>2, <3>7
    <3>9. PICK S : S = Before(d + 1) \ (dump' \cup {t})
      OBVIOUS
    <3>10. call'.d = d /\ call'.results = r /\ call'.now = now
      BY <3>3
    <3>11. Since(call.results, Before(call.d + 1) \ (dump \cup {t}), call.now)'
      <4>1. S = Before(call.d + 1) \ dump
        BY <3>2, <3>7, <3>9
      <4>2. Since(r, S, now)'
        BY <1>1, <2>6, <3>2, <4>1, SinceKept
      <4>. QED  BY <3>9, <3>10, <4>2 DEF Since
    <3>12. Dump(t) <= 2 => c \in bytesAt'[now][t] .. bytes'[t]
      BY <1>1, <3>6 DEF netKernel
    <3>13. queue' = << <<Socket(t, c)>> \o (IF dump' = {} THEN End("NLMSG_DONE") ELSE <<>>) >>
      BY <3>4, <3>6
    <3>14. Pending'
      BY <3>8, <3>10, <3>11, <3>12, <3>13 DEF Pending
    <3>15. of \in {"warm-up", "cached", "uncached"} /\ d \in 1..5 /\ d <= (IF of = "warm-up" THEN 2 ELSE 4)
      BY <1>1, <3>2 DEF CallInv
    <3>16. call' # Idle
      <4>1. call'.of # Idle.of
        BY <3>3, <3>15 DEF Idle
      <4>. QED  BY <4>1
    <3>17. CallInv'
      BY <3>3, <3>14, <3>15 DEF CallInv
    <3>. QED  BY <3>16, <3>17 DEF CallsInv
  <2>. QED  BY <2>7, <2>8
<1>. QED  BY <1>1, <1>5, <1>6 DEF Pending

(* A query that begins has nothing behind it. *)
LEMMA QueryBegins ==
    ASSUME TrafficInv, NEW of \in {"warm-up", "cached", "uncached"}, queue = <<>>, dump = {}
    PROVE  \A c : c = Query(of, <<>>) =>
             /\ c # Idle /\ c.of = of /\ c.step = "send" /\ c.d = 1 /\ c.now = netClock /\ c.results = <<>>
             /\ c = [of |-> c.of, step |-> c.step, d |-> c.d, now |-> c.now, results |-> c.results]
             /\ Since(<<>>, Before(1), netClock)
<1>1. Since(<<>>, Before(1), netClock)
  <2>1. PICK low, high : low = bytesAt[netClock] /\ high = bytes
    OBVIOUS
  <2>2. Reported(<<>>, {}, low, high)
    BY NothingReported
  <2>3. netClock \in 1..netClock
    BY DEF TrafficInv
  <2>. QED  BY <2>1, <2>2, <2>3, DumpsOrdered DEF Since
<1>2. ASSUME NEW c, c = Query(of, <<>>)
      PROVE  /\ c # Idle /\ c.of = of /\ c.step = "send" /\ c.d = 1 /\ c.now = netClock /\ c.results = <<>>
             /\ c = [of |-> c.of, step |-> c.step, d |-> c.d, now |-> c.now, results |-> c.results]
  <2>1. c = [of |-> of, step |-> "send", d |-> 1, now |-> netClock, results |-> <<>>]
    BY <1>2 DEF Query
  <2>2. c.of = of /\ Idle.of = "none"
    BY <2>1 DEF Idle
  <2>. QED  BY <2>1, <2>2
<1>. QED  BY <1>1, <1>2

LEMMA QueryKeeps ==
    ASSUME TrafficInv, CallsInv, call = Idle, NEW of \in {"cached", "uncached"},
           call' = Query(of, <<>>), UNCHANGED <<netKernel, queue, dump>>
    PROVE  CallsInv'
<1>1. queue = <<>> /\ dump = {}
  BY DEF CallsInv
<1>2. /\ call' # Idle /\ call'.of = of /\ call'.step = "send" /\ call'.d = 1
      /\ call'.now = netClock /\ call'.results = <<>>
      /\ call' = [of |-> call'.of, step |-> call'.step, d |-> call'.d, now |-> call'.now, results |-> call'.results]
      /\ Since(<<>>, Before(1), netClock)
  BY <1>1, QueryBegins
<1>3. Since(call.results, Before(call.d), call.now)'
  <2>1. PICK now : now = netClock
    OBVIOUS
  <2>2. Since(<<>>, Before(1), now)'
    BY <1>2, <2>1, SinceKept
  <2>. QED  BY <1>2, <2>1, <2>2 DEF Since
<1>4. CallInv'
  BY <1>1, <1>2, <1>3 DEF CallInv
<1>. QED  BY <1>2, <1>4 DEF CallsInv

LEMMA ReturnKeeps ==
    ASSUME TrafficInv, CallsInv, SocketCacheInv, AnswerInv, QueryReturns
    PROVE  CallsInv' /\ SocketCacheInv' /\ AnswerInv'
<1>1. /\ call # Idle /\ CallInv /\ call.step = "return" /\ call' = Idle
      /\ UNCHANGED <<netKernel, queue, dump, m_Available>>
  BY DEF QueryReturns, CallsInv
<1>2. queue = <<>> /\ dump = {}
  BY <1>1 DEF CallInv
<1>3. CallsInv'
  BY <1>1, <1>2 DEF CallsInv
<1>4. CASE call.of = "warm-up"
  <2>1. m_CachedResults' = m_CachedResults /\ m_LastQueryTime' = m_LastQueryTime /\ answer' = answer
    BY <1>4 DEF QueryReturns
  <2>2. SocketCacheInv'
    BY <1>1, <2>1, SinceKept DEF SocketCacheInv
  <2>3. AnswerInv'
    BY <1>1, <2>1, SinceKept DEF AnswerInv, netKernel
  <2>. QED  BY <1>3, <2>2, <2>3
<1>5. CASE call.of # "warm-up"
  <2>1. PICK r, t : r = call.results /\ t = call.now
    OBVIOUS
  <2>2. Since(r, Live, t) /\ t \in 1..netClock
    <3>1. Since(r, Before(5), t)
      BY <1>1, <1>5, <2>1 DEF CallInv
    <3>. QED  BY <3>1, DumpsOrdered DEF Since
  <2>3. Since(r, Live, t)'
    BY <1>1, <2>2, SinceKept
  <2>4. SocketCacheInv'
    <3>1. CASE call.of = "cached"
      <4>1. m_CachedResults' = r /\ m_LastQueryTime' = IF CacheTtl > 0 THEN t ELSE m_LastQueryTime
        BY <2>1, <3>1 DEF QueryReturns, Stamp
      <4>2. CASE CacheTtl > 0
        <5>1. m_LastQueryTime' = t /\ m_CachedResults' = r
          BY <4>1, <4>2
        <5>. QED  BY <2>3, <4>2, <5>1 DEF SocketCacheInv
      <4>3. CASE ~(CacheTtl > 0)
        BY <4>1, <4>3 DEF SocketCacheInv
      <4>. QED  BY <4>2, <4>3
    <3>2. CASE call.of # "cached"
      <4>1. m_CachedResults' = m_CachedResults /\ m_LastQueryTime' = m_LastQueryTime
        BY <3>2 DEF QueryReturns
      <4>. QED  BY <1>1, <4>1, SinceKept DEF SocketCacheInv
    <3>. QED  BY <3>1, <3>2
  <2>5. answer' = [at |-> t, results |-> r]
    BY <1>5, <2>1 DEF QueryReturns
  <2>6. answer'.at = t /\ answer'.results = r
    BY <2>5
  <2>7. Since(r, Live, Earliest(t))
    <3>1. t \in Nat /\ t >= 1 /\ t <= netClock /\ netClock \in Nat /\ CacheTtl \in Nat
      BY <2>2, NetlinkAssumption DEF TrafficInv
    <3>2. Earliest(t) \in 1..netClock /\ Earliest(t) <= t
      BY <3>1 DEF Earliest
    <3>. QED  BY <2>2, <3>2, SinceEarlier
  <2>8. AnswerInv'
    <3>1. Since(r, Live, Earliest(t))'
      BY <1>1, <2>7, SinceKept
    <3>2. netClock' = netClock
      BY <1>1 DEF netKernel
    <3>. QED  BY <2>2, <2>6, <3>1, <3>2 DEF AnswerInv
  <2>. QED  BY <1>3, <2>4, <2>8
<1>. QED  BY <1>4, <1>5

LEMMA HitKeeps ==
    ASSUME TrafficInv, SocketCacheInv, CacheHit
    PROVE  AnswerInv'
<1>1. PICK r, t, n : r = m_CachedResults /\ t = m_LastQueryTime /\ n = netClock
  OBVIOUS
<1>2. /\ CacheTtl > 0 /\ Since(r, Live, t) /\ n - t < CacheTtl
      /\ answer' = [at |-> n, results |-> r] /\ UNCHANGED netKernel
  BY <1>1 DEF CacheHit, CacheValid, SocketCacheInv
<1>3. n \in Nat \ {0} /\ t \in 1..n /\ CacheTtl \in Nat
  BY <1>1, <1>2, NetlinkAssumption DEF Since, TrafficInv
<1>4. Earliest(n) \in 1..n /\ Earliest(n) <= t
  BY <1>2, <1>3 DEF Earliest
<1>5. Since(r, Live, Earliest(n))
  BY <1>1, <1>2, <1>4, SinceEarlier
<1>6. Since(r, Live, Earliest(n))' /\ netClock' = n
  BY <1>1, <1>2, <1>5, SinceKept DEF netKernel
<1>7. answer'.at = n /\ answer'.results = r
  BY <1>2
<1>. QED  BY <1>3, <1>6, <1>7 DEF AnswerInv

LEMMA AnswersInvInit == NetlinkInit => AnswersInv
<1> SUFFICES ASSUME NetlinkInit PROVE AnswersInv
  OBVIOUS
<1>1. TrafficInv
  <2>1. bytes \in [Sockets -> Nat] /\ netClock = 1 /\ bytesAt = <<bytes>>
    BY DEF NetlinkInit
  <2>2. NoMore(bytes, bytes)
    BY <2>1, NoMoreRefl
  <2>3. bytesAt \in Seq([Sockets -> Nat]) /\ Len(bytesAt) = 1 /\ bytesAt[1] = bytes
    BY <2>1
  <2>4. \A t \in 1..1 : t = 1
    OBVIOUS
  <2>. QED  BY <2>1, <2>2, <2>3, <2>4 DEF TrafficInv
<1>2. queue = <<>> /\ dump = {} /\ answer = NoAnswer /\ m_LastQueryTime = Never
  BY DEF NetlinkInit
<1>3. CallsInv
  <2>1. CASE m_Available
    <3>1. call = Query("warm-up", <<>>)
      BY <2>1 DEF NetlinkInit
    <3>2. /\ call # Idle /\ call.of = "warm-up" /\ call.step = "send" /\ call.d = 1
          /\ call.now = netClock /\ call.results = <<>>
          /\ call = [of |-> call.of, step |-> call.step, d |-> call.d, now |-> call.now, results |-> call.results]
          /\ Since(<<>>, Before(1), netClock)
      BY <1>1, <1>2, <3>1, QueryBegins
    <3>. QED  BY <1>2, <3>2 DEF CallsInv, CallInv
  <2>2. CASE ~m_Available
    BY <1>2, <2>2 DEF NetlinkInit, CallsInv
  <2>. QED  BY <2>1, <2>2
<1>. QED  BY <1>1, <1>2, <1>3 DEF AnswersInv, SocketCacheInv, AnswerInv, NetlinkInit

LEMMA FailuresGrow ==
    ASSUME [NetlinkNext]_netVars, failures \in Nat
    PROVE  failures' \in Nat /\ (failures' = 0 => failures = 0)
<1>1. failures' = failures \/ failures' = failures + 1
  <2>1. CASE UNCHANGED netVars
    BY <2>1 DEF netVars
  <2>2. CASE Traffic \/ TimePasses \/ Unavailable \/ CacheHit \/ CacheMiss
    BY <2>2 DEF Traffic, TimePasses, Unavailable, CacheHit, CacheMiss
  <2>3. CASE QueryUncached \/ InvalidateCache \/ Receive \/ QueryReturns
    BY <2>3 DEF QueryUncached, InvalidateCache, Receive, QueryReturns
  <2>4. CASE Send \/ ReceiveFails
    BY <2>4 DEF Send, ReceiveFails
  <2>. QED  BY <2>1, <2>2, <2>3, <2>4 DEF NetlinkNext
<1>. QED  BY <1>1

LEMMA AnswersInvStep == AnswersInv /\ [NetlinkNext]_netVars => AnswersInv'
<1> SUFFICES ASSUME AnswersInv, [NetlinkNext]_netVars PROVE AnswersInv'
  OBVIOUS
<1>1. CASE Traffic \/ TimePasses
  BY <1>1, KernelKeeps
<1>2. CASE ~(Traffic \/ TimePasses)
  <2>1. UNCHANGED netKernel
    BY <1>2 DEF NetlinkNext, netVars, Unavailable, CacheHit, CacheMiss, QueryUncached, InvalidateCache,
                Send, Receive, ReceiveFails, QueryReturns
  <2>2. TrafficInv /\ TrafficInv'
    BY <2>1 DEF AnswersInv, TrafficInv, netKernel, NoMore
  <2>3. failures' \in Nat /\ (failures' = 0 => failures = 0)
    BY <1>2, FailuresGrow DEF AnswersInv
  <2>4. CASE failures' # 0
    BY <2>2, <2>3, <2>4 DEF AnswersInv
  <2>5. CASE failures' = 0
    <3>1. CallsInv /\ SocketCacheInv /\ AnswerInv /\ failures = 0
      BY <2>3, <2>5 DEF AnswersInv
    <3>2. ASSUME UNCHANGED netCache PROVE SocketCacheInv'
      BY <2>1, <3>1, <3>2, SinceKept DEF SocketCacheInv, netCache
    <3>3. ASSUME UNCHANGED <<answer, m_Available>> PROVE AnswerInv'
      BY <2>1, <3>1, <3>3, SinceKept DEF AnswerInv, netKernel
    <3>4. ASSUME UNCHANGED <<call, queue, dump>> PROVE CallsInv'
      <4>1. CASE call = Idle
        BY <3>1, <3>4, <4>1 DEF CallsInv
      <4>2. CASE call # Idle
        <5>1. CallInv
          BY <3>1, <4>2 DEF CallsInv
        <5>2. CallInv'
          BY <2>1, <3>4, <5>1 DEF CallInv, Pending, Since, netKernel
        <5>. QED  BY <3>4, <4>2, <5>2 DEF CallsInv
      <4>. QED  BY <4>1, <4>2
    <3>5. CASE UNCHANGED netVars
      BY <2>2, <2>3, <3>2, <3>3, <3>4, <3>5 DEF AnswersInv, netVars, netCache
    <3>6. CASE Unavailable
      <4>1. AnswerInv'
        BY <3>6 DEF Unavailable, AnswerInv, netCache
      <4>. QED  BY <2>2, <2>3, <3>2, <3>4, <3>6, <4>1 DEF AnswersInv, Unavailable
    <3>7. CASE CacheHit
      BY <2>2, <2>3, <3>1, <3>2, <3>4, <3>7, HitKeeps DEF AnswersInv, CacheHit
    <3>8. CASE CacheMiss
      <4>1. CallsInv'
        BY <2>2, <3>1, <3>8, QueryKeeps DEF CacheMiss, ClearedResults
      <4>. QED  BY <2>2, <2>3, <3>2, <3>3, <3>8, <4>1 DEF AnswersInv, CacheMiss, netCache
    <3>9. CASE QueryUncached
      <4>1. CallsInv'
        BY <2>2, <3>1, <3>9, QueryKeeps DEF QueryUncached
      <4>. QED  BY <2>2, <2>3, <3>2, <3>3, <3>9, <4>1 DEF AnswersInv, QueryUncached, netCache
    <3>10. CASE InvalidateCache
      <4>1. SocketCacheInv'
        BY <3>10 DEF InvalidateCache, SocketCacheInv
      <4>. QED  BY <2>2, <2>3, <3>3, <3>4, <3>10, <4>1 DEF AnswersInv, InvalidateCache
    <3>11. CASE Send
      <4>1. /\ call # Idle /\ call.step = "send" /\ Requested(call.d)
            /\ call' = [call EXCEPT !.step = "recv"]
        BY <2>5, <3>1, <3>11 DEF Send
      <4>2. CallInv
        BY <3>1, <4>1 DEF CallsInv
      <4>3. CallsInv'
        BY <2>1, <2>2, <4>1, <4>2, RequestPends DEF CallsInv
      <4>. QED  BY <2>2, <2>3, <3>2, <3>3, <3>11, <4>3 DEF AnswersInv, Send, netCache
    <3>12. CASE Receive
      BY <2>2, <2>3, <3>1, <3>2, <3>3, <3>12, ReceiveKeeps DEF AnswersInv, Receive, netCache
    <3>13. CASE ReceiveFails
      BY <2>5, <3>1, <3>13 DEF ReceiveFails
    <3>14. CASE QueryReturns
      BY <2>2, <2>3, <3>1, <3>14, ReturnKeeps DEF AnswersInv
    <3>. QED  BY <1>2, <3>5, <3>6, <3>7, <3>8, <3>9, <3>10, <3>11, <3>12, <3>13, <3>14 DEF NetlinkNext
  <2>. QED  BY <2>4, <2>5
<1>. QED  BY <1>1, <1>2

(* As many reports as sockets. *)
LEMMA OnceEach ==
    ASSUME NEW r, NEW S, IsFiniteSet(S), NEW low, NEW high, Reported(r, S, low, high)
    PROVE  Len(r) = Cardinality(S)
<1>1. PICK n \in Nat : n = Len(r) /\ DOMAIN r = 1..n
  BY DEF Reported
<1>2. PICK f : f = [i \in 1..n |-> r[i].inode]
  OBVIOUS
<1>3. f \in Bijection(1..n, S)
  <2>1. \A i \in 1..n : f[i] \in S
    BY <1>1, <1>2 DEF Reported
  <2>2. \A i, j \in 1..n : f[i] = f[j] => i = j
    BY <1>1, <1>2 DEF Reported
  <2>3. \A s \in S : \E i \in 1..n : f[i] = s
    <3>1. \A s \in S : \E i \in 1..n : r[i].inode = s
      BY <1>1 DEF Reported
    <3>. QED  BY <1>2, <3>1
  <2>4. f \in [1..n -> S]
    BY <1>2, <2>1
  <2>. QED  BY <2>2, <2>3, <2>4 DEF Bijection, Injection, Surjection, IsInjective
<1>4. ExistsBijection(1..n, S)
  BY <1>3 DEF ExistsBijection
<1>. QED  BY <1>1, <1>4, FS_CountingElements

(* Until a send or a receive fails, every answer, of the cache or not, has    *)
(* every socket there is once, with its bytes at a time not longer ago than   *)
(* the cache may serve it.                                                    *)
THEOREM AnswersAlwaysRecent == NetlinkSpec => []AnswersRecent
<1>1. AnswersInv => AnswersRecent
  <2> SUFFICES ASSUME AnswersInv, failures = 0, m_Available, answer # NoAnswer
               PROVE  /\ {answer.results[i].inode : i \in DOMAIN answer.results} = Sockets \ {0}
                      /\ Len(answer.results) = Cardinality(Sockets \ {0})
                      /\ \A i \in DOMAIN answer.results :
                            Dump(answer.results[i].inode) <= 2 =>
                               answer.results[i].bytes \in bytesAt[Earliest(answer.at)][answer.results[i].inode]
                                                             .. bytes[answer.results[i].inode]
    BY DEF AnswersRecent, Earliest
  <2>1. PICK r, t : r = answer.results /\ t = Earliest(answer.at)
    OBVIOUS
  <2>2. Reported(r, Live, bytesAt[t], bytes)
    BY <2>1 DEF AnswersInv, AnswerInv, Since
  <2>3. IsFiniteSet(Live)
    BY NetlinkAssumption, FS_RemoveElement DEF Live
  <2>4. Len(r) = Cardinality(Live)
    BY <2>2, <2>3, OnceEach
  <2>. QED  BY <2>1, <2>2, <2>4 DEF Reported, Live
<1>. QED  BY <1>1, AnswersInvInit, AnswersInvStep, PTL DEF NetlinkSpec

------------------------------------------------------------------------------
(* LinuxProcessProbe.                                                      *)

(* The kernel, and what the history variables say of it.  Only processes that *)
(* have not let go of their pid are throughout: no other had it meanwhile.    *)
KernelInv ==
    /\ starts \in Nat
    /\ DOMAIN procs \subseteq Pids
    /\ \A p \in DOMAIN procs : procs[p] \in [start : Nat, cpu : Nat, readable : BOOLEAN]
    /\ holders \in [Inodes -> SUBSET Pids]
    /\ Instances(procs) \subseteq existed
    /\ throughout \subseteq Instances(procs)
    /\ \A t \in throughout : \A e \in existed : e[1] = t[1] => e = t
    /\ Holdings(holders) \subseteq held

LEMMA InstanceMember ==
    ASSUME NEW ps, NEW e
    PROVE  e \in Instances(ps) <=> \E p \in DOMAIN ps : e = <<p, ps[p].start>>
  BY DEF Instances

LEMMA HoldingMember ==
    ASSUME NEW hs, NEW i \in Inodes, NEW p \in Pids, p \in hs[i]
    PROVE  <<i, p>> \in Holdings(hs)
  BY DEF Holdings

(* What a step of the kernel, or none, leaves of what has been read before.   *)
Lasts ==
    /\ existed \subseteq existed'
    /\ held \subseteq held'
    /\ throughout' \subseteq throughout
    /\ \A p \in DOMAIN procs : \A s : <<p, s>> \in throughout' =>
          p \in DOMAIN procs' /\ procs'[p].readable = procs[p].readable

LEMMA StartStep ==
    ASSUME KernelInv, NEW p \in Pids, NEW parent \in Pids \cup {0}, NEW readable \in BOOLEAN,
           Start(p, parent, readable)
    PROVE  KernelInv' /\ Lasts
<1> DEFINE new == [start |-> starts', cpu |-> 0, readable |-> readable]
<1>1. /\ starts' \in Nat /\ p \notin DOMAIN procs
      /\ new \in [start : Nat, cpu : Nat, readable : BOOLEAN]
  BY DEF Start, KernelInv
<1>2. /\ DOMAIN procs' = DOMAIN procs \cup {p}
      /\ procs'[p] = new
      /\ \A q \in DOMAIN procs : procs'[q] = procs[q]
  BY <1>1 DEF Start
<1> HIDE DEF new
<1>3. /\ DOMAIN procs' \subseteq Pids
      /\ \A q \in DOMAIN procs' : procs'[q] \in [start : Nat, cpu : Nat, readable : BOOLEAN]
  BY <1>1, <1>2 DEF KernelInv
<1>4. holders' \in [Inodes -> SUBSET Pids]
  BY DEF Start, KernelInv
<1>5. /\ existed' = existed \cup Instances(procs') /\ throughout' = throughout
      /\ held' = held \cup Holdings(holders')
  BY DEF Start
<1>6. throughout \subseteq Instances(procs')
  <2> SUFFICES ASSUME NEW t \in throughout PROVE t \in Instances(procs')
    OBVIOUS
  <2>1. PICK q \in DOMAIN procs : t = <<q, procs[q].start>>
    BY InstanceMember DEF KernelInv
  <2>. QED  BY <1>2, <2>1, InstanceMember
<1>7. ASSUME NEW t \in throughout, NEW e \in existed', e[1] = t[1]
      PROVE  e = t
  <2>1. CASE e \in existed
    BY <1>7, <2>1 DEF KernelInv
  <2>2. CASE e \in Instances(procs')
    <3>1. PICK q \in DOMAIN procs : t = <<q, procs[q].start>>
      BY InstanceMember DEF KernelInv
    <3>2. PICK r \in DOMAIN procs' : e = <<r, procs'[r].start>>
      BY <2>2, InstanceMember
    <3>. QED  BY <1>2, <1>7, <3>1, <3>2
  <2>. QED  BY <1>5, <2>1, <2>2
<1>8. KernelInv'
  BY <1>1, <1>3, <1>4, <1>5, <1>6, <1>7 DEF KernelInv
<1>. QED  BY <1>2, <1>5, <1>8 DEF Lasts

LEMMA ExitStep ==
    ASSUME KernelInv, NEW p \in DOMAIN procs, Exit(p)
    PROVE  KernelInv' /\ Lasts
<1>1. /\ DOMAIN procs' = DOMAIN procs \ {p}
      /\ \A q \in DOMAIN procs' : procs'[q] = procs[q]
      /\ throughout' = throughout \ {<<p, procs[p].start>>}
      /\ UNCHANGED <<starts, existed, held>>
  BY DEF Exit
<1>2. /\ DOMAIN procs' \subseteq Pids
      /\ \A q \in DOMAIN procs' : procs'[q] \in [start : Nat, cpu : Nat, readable : BOOLEAN]
      /\ starts' \in Nat
  BY <1>1 DEF KernelInv
<1>3. holders' \in [Inodes -> SUBSET Pids] /\ Holdings(holders') \subseteq Holdings(holders)
  BY DEF Exit, KernelInv, Holdings
<1>4. Instances(procs') \subseteq Instances(procs)
  BY <1>1 DEF Instances
<1>5. ASSUME NEW t \in throughout'
      PROVE  \E q \in DOMAIN procs' : t = <<q, procs'[q].start>>
  <2>1. PICK q \in DOMAIN procs : t = <<q, procs[q].start>>
    BY <1>1, InstanceMember DEF KernelInv
  <2>. QED  BY <1>1, <2>1
<1>6. throughout' \subseteq Instances(procs')
  BY <1>5, InstanceMember
<1>7. KernelInv'
  BY <1>1, <1>2, <1>3, <1>4, <1>6 DEF KernelInv
<1>8. ASSUME NEW q \in DOMAIN procs, NEW s, <<q, s>> \in throughout'
      PROVE  q \in DOMAIN procs' /\ procs'[q].readable = procs[q].readable
  BY <1>1, <1>5, <1>8
<1>. QED  BY <1>1, <1>7, <1>8 DEF Lasts

LEMMA KernelStep ==
    ASSUME KernelInv, Kernel
    PROVE  KernelInv' /\ Lasts
<1>1. ASSUME NEW p \in Pids, NEW parent \in Pids \cup {0}, NEW readable \in BOOLEAN,
             Start(p, parent, readable)
      PROVE  KernelInv' /\ Lasts
  BY <1>1, StartStep
<1>2. ASSUME NEW p \in DOMAIN procs, Exit(p)
      PROVE  KernelInv' /\ Lasts
  BY <1>2, ExitStep
<1>3. ASSUME NEW i \in Inodes, NEW p \in DOMAIN procs, OpenSocket(i, p)
      PROVE  KernelInv' /\ Lasts
  BY <1>3 DEF OpenSocket, KernelInv, Lasts
<1>4. ASSUME NEW p \in DOMAIN procs \cup {0}, Run(p)
      PROVE  KernelInv' /\ Lasts
  <2>1. /\ DOMAIN procs' = DOMAIN procs
        /\ \A q \in DOMAIN procs :
              /\ procs'[q] \in [start : Nat, cpu : Nat, readable : BOOLEAN]
              /\ procs'[q].start = procs[q].start
              /\ procs'[q].readable = procs[q].readable
    <3>1. CASE procs' = procs
      BY <3>1 DEF KernelInv
    <3>2. CASE p \in DOMAIN procs /\ procs' = [procs EXCEPT ![p].cpu = @ + 1]
      <4>1. procs[p] \in [start : Nat, cpu : Nat, readable : BOOLEAN]
        BY <3>2 DEF KernelInv
      <4>2. PICK new : new = [procs[p] EXCEPT !.cpu = @ + 1]
        OBVIOUS
      <4>3. /\ new \in [start : Nat, cpu : Nat, readable : BOOLEAN]
            /\ new.start = procs[p].start /\ new.readable = procs[p].readable
        BY <4>1, <4>2
      <4>4. procs' = [procs EXCEPT ![p] = new]
        BY <3>2, <4>2
      <4>. QED  BY <4>3, <4>4 DEF KernelInv
    <3>. QED  BY <1>4, <3>1, <3>2 DEF Run
  <2>2. Instances(procs') = Instances(procs)
    BY <2>1 DEF Instances
  <2>3. UNCHANGED <<holders, starts, existed, throughout, held>>
    BY <1>4 DEF Run
  <2>. QED  BY <2>1, <2>2, <2>3 DEF KernelInv, Lasts
<1>. QED  BY <1>1, <1>2, <1>3, <1>4 DEF Kernel

-----------------------------------------------------------------------------
(* Rows.                                                                     *)

RowFields == {"pid", "start", "cpu", "rss", "user", "command", "mask", "handles", "io",
              "status", "energy", "net"}

(* A row, each field of which that is a start time is of a process that had   *)
(* its pid during the call.                                                   *)
IsRow(r) ==
    /\ r = [f \in RowFields |-> r[f]]
    /\ r.pid \in Pids
    /\ <<r.pid, r.start>> \in existed
    /\ \A f \in {"rss", "user", "command", "mask", "handles", "io", "status"} :
          r[f] = NotRead \/ <<r.pid, r[f]>> \in existed

(* The files before the nth have been read; of a process that is there        *)
(* throughout, all that may be read of them is in the row, and no more.       *)
Own(r) == IF procs[r.pid].readable THEN r.start ELSE NotRead
ReadUpTo(r, n) ==
    <<r.pid, r.start>> \in throughout =>
        /\ r.rss = r.start
        /\ n > 2 => r.user = r.start
        /\ n > 3 => r.command = r.start
        /\ n > 4 => r.mask = r.start
        /\ r.handles = IF n > 5 THEN Own(r) ELSE NotRead
        /\ r.io = IF n > 6 THEN Own(r) ELSE NotRead
        /\ n > 7 => r.status = r.start

Listed == {<<processes[n].pid, processes[n].start>> : n \in DOMAIN processes}

Entry == {"entry"}
FieldSteps == {"statm", "status", "cmdline", "affinity", "fd", "io", "freezer"}
Ahead == {"stat"} \cup FieldSteps
Done == {"energy", "sockets", "fds", "attribute", "return"}

RowsInv ==
    /\ \E S : processes \in Seq(S)
    /\ \A n \in DOMAIN processes : IsRow(processes[n]) /\ ReadUpTo(processes[n], 8)

(* The pids of the list ascend and are behind enumerate's place in /proc, and *)
(* no process that is there throughout is missing behind that place.          *)
Ascending == \A m, n \in DOMAIN processes : m < n => processes[m].pid < processes[n].pid
ListInv ==
    /\ Ascending
    /\ at.step \in Entry =>
          /\ \A n \in DOMAIN processes : processes[n].pid <= at.pid
          /\ \A t \in throughout : t[1] <= at.pid => t \in Listed
    /\ at.step \in Ahead =>
          /\ \A n \in DOMAIN processes : processes[n].pid < at.pid
          /\ \A t \in throughout : t[1] < at.pid => t \in Listed
    /\ at.step \in Done => throughout \subseteq Listed
    /\ at.step = "outside" => processes = <<>>

(* The row at hand, at the file that is about to be read. *)
RowInv ==
    \A n \in DOMAIN Files :
        at.step = Files[n] => IsRow(row) /\ ReadUpTo(row, n) /\ row.pid = at.pid /\ row.net = {}

(* A socket is charged to the process that the map has for it, which had it.  *)
NetInv ==
    /\ at.step \notin {"fds", "attribute", "return"} => DOMAIN inodeToPid = {}
    /\ \A i \in DOMAIN inodeToPid : i \in Inodes /\ <<i, inodeToPid[i]>> \in held
    /\ \A n \in DOMAIN processes : \A i \in processes[n].net :
          i \in DOMAIN inodeToPid /\ inodeToPid[i] = processes[n].pid
    /\ at.step # "return" => \A n \in DOMAIN processes : processes[n].net = {}

PlaceInv ==
    /\ at = [step |-> at.step, pid |-> at.pid]
    /\ at.step \in {"outside"} \cup Entry \cup Ahead \cup Done
    /\ at.pid \in Pids \cup {0}
    /\ at.step \in Ahead => at.pid \in Pids

EnumerationInv == KernelInv /\ PlaceInv /\ RowsInv /\ ListInv /\ RowInv /\ NetInv

LEMMA RowLasts ==
    ASSUME KernelInv, Lasts, NEW r, NEW n \in Nat, IsRow(r)
    PROVE  /\ IsRow(r)'
           /\ ReadUpTo(r, n) => ReadUpTo(r, n)'
<1>1. IsRow(r)'
  BY DEF IsRow, Lasts
<1>2. ASSUME ReadUpTo(r, n), <<r.pid, r.start>> \in throughout'
      PROVE  Own(r)' = Own(r) /\ <<r.pid, r.start>> \in throughout
  <2>1. <<r.pid, r.start>> \in throughout
    BY <1>2 DEF Lasts
  <2>2. r.pid \in DOMAIN procs
    BY <2>1, InstanceMember DEF KernelInv
  <2>3. procs'[r.pid].readable = procs[r.pid].readable
    BY <1>2, <2>2 DEF Lasts
  <2>. QED  BY <2>1, <2>3 DEF Own
<1>3. ASSUME ReadUpTo(r, n) PROVE ReadUpTo(r, n)'
  <2> SUFFICES ASSUME <<r.pid, r.start>> \in throughout'
               PROVE  /\ r.rss = r.start
                      /\ n > 2 => r.user = r.start
                      /\ n > 3 => r.command = r.start
                      /\ n > 4 => r.mask = r.start
                      /\ r.handles = IF n > 5 THEN Own(r)' ELSE NotRead
                      /\ r.io = IF n > 6 THEN Own(r)' ELSE NotRead
                      /\ n > 7 => r.status = r.start
    BY DEF ReadUpTo
  <2>. QED  BY <1>2, <1>3 DEF ReadUpTo
<1>. QED  BY <1>1, <1>3

LEMMA RowsLast ==
    ASSUME KernelInv, Lasts, RowsInv, UNCHANGED processes
    PROVE  RowsInv'
<1>1. ASSUME NEW n \in DOMAIN processes
      PROVE  IsRow(processes[n])' /\ ReadUpTo(processes[n], 8)'
  <2> PICK r : r = processes[n]
    OBVIOUS
  <2>1. IsRow(r) /\ ReadUpTo(r, 8)
    BY DEF RowsInv
  <2>2. IsRow(r)' /\ ReadUpTo(r, 8)'
    BY <2>1, RowLasts
  <2>3. processes'[n] = r
    OBVIOUS
  <2>. QED  BY <2>2, <2>3 DEF IsRow, ReadUpTo, Own
<1>. QED  BY <1>1 DEF RowsInv

(* Whatever enumerate has so far stays right while the kernel goes on.        *)
LEMMA ProbeRests ==
    ASSUME EnumerationInv, Lasts, UNCHANGED <<at, row, processes, inodeToPid>>
    PROVE  PlaceInv' /\ RowsInv' /\ ListInv' /\ RowInv' /\ NetInv'
<1> USE DEF EnumerationInv
<1>1. RowsInv'
  BY RowsLast
<1>2. Listed' = Listed /\ throughout' \subseteq throughout
  BY DEF Listed, Lasts
<1>3. ListInv'
  BY <1>2 DEF ListInv, Ascending
<1>4. RowInv'
  <2> SUFFICES ASSUME NEW n \in DOMAIN Files, at.step = Files[n]
               PROVE  (IsRow(row) /\ ReadUpTo(row, n))' /\ row.pid = at.pid /\ row.net = {}
    BY DEF RowInv, Files
  <2>1. IsRow(row) /\ ReadUpTo(row, n) /\ row.pid = at.pid /\ row.net = {} /\ n \in Nat
    BY DEF RowInv, Files
  <2> PICK r : r = row
    OBVIOUS
  <2>2. IsRow(r)' /\ ReadUpTo(r, n)'
    BY <2>1, RowLasts
  <2>. QED  BY <2>1, <2>2
<1>5. NetInv'
  BY DEF NetInv, Lasts
<1>. QED  BY <1>1, <1>3, <1>4, <1>5 DEF PlaceInv

-----------------------------------------------------------------------------
(* The steps of enumerate.                                                   *)

LEMMA MinIsLeast ==
    ASSUME NEW S, S \subseteq Nat, S # {}
    PROVE  Min(S) \in S /\ \A n \in S : Min(S) <= n
<1>1. PICK n \in S : \A m \in S : ~(<<m, n>> \in OpToRel(<, Nat))
  BY NatLessThanWellFounded, WFMin
<1>2. \A m \in S : n <= m
  <2>1. \A m \in S : ~(m < n)
    BY <1>1 DEF OpToRel
  <2>. QED  BY <2>1
<1>. QED  BY <1>2 DEF Min

(* Nothing of it depends on the kernel, when the kernel rests.                *)
LEMMA KernelRests ==
    ASSUME KernelInv, UNCHANGED kernelVars
    PROVE  KernelInv' /\ Lasts
  BY DEF KernelInv, Lasts, kernelVars

LEMMA ThroughoutPids ==
    ASSUME KernelInv, NEW t \in throughout
    PROVE  t[1] \in DOMAIN procs /\ t[1] \in Nat /\ t[1] # 0
<1>1. PICK q \in DOMAIN procs : t = <<q, procs[q].start>>
  BY InstanceMember DEF KernelInv
<1>2. t[1] = q /\ q \in Nat /\ q # 0
  BY <1>1, ProbeAssumption DEF KernelInv
<1>. QED  BY <1>2

LEMMA EnumerateStep ==
    ASSUME EnumerationInv, Enumerate
    PROVE  EnumerationInv'
<1> USE DEF EnumerationInv
<1>1. /\ at' = [step |-> "entry", pid |-> 0]
      /\ processes = <<>> /\ DOMAIN inodeToPid = {}
      /\ UNCHANGED <<procs, holders, starts, processes, inodeToPid>>
      /\ existed' = Instances(procs) /\ throughout' = Instances(procs) /\ held' = Holdings(holders)
  BY DEF Enumerate, Outside, ListInv, NetInv
<1>2. KernelInv'
  <2>1. \A t \in Instances(procs) : \A e \in Instances(procs) : e[1] = t[1] => e = t
    BY DEF Instances
  <2>. QED  BY <1>1, <2>1 DEF KernelInv
<1>3. ListInv'
  <2>1. \A t \in throughout' : ~(t[1] <= 0)
    <3>1. \A p \in DOMAIN procs : p \in Nat /\ p # 0
      BY ProbeAssumption DEF KernelInv
    <3> SUFFICES ASSUME NEW t \in Instances(procs) PROVE ~(t[1] <= 0)
      BY <1>1
    <3>2. PICK p \in DOMAIN procs : t = <<p, procs[p].start>>
      BY InstanceMember
    <3>. QED  BY <3>1, <3>2
  <2>2. processes' = <<>> /\ at'.step = "entry" /\ at'.pid = 0
    BY <1>1
  <2>. QED  BY <2>1, <2>2 DEF ListInv, Ascending, Entry, Ahead, FieldSteps, Done
<1>4. RowInv'
  BY <1>1 DEF RowInv, Files
<1>5. NetInv'
  BY <1>1 DEF NetInv
<1>6. RowsInv'
  <2>1. processes' = <<>> /\ <<>> \in Seq({})
    BY <1>1
  <2>. QED  BY <2>1 DEF RowsInv
<1>7. PlaceInv'
  BY <1>1 DEF PlaceInv, Entry, Ahead, FieldSteps
<1>. QED  BY <1>2, <1>3, <1>4, <1>5, <1>6, <1>7

LEMMA NextEntryStep ==
    ASSUME EnumerationInv, NextEntry
    PROVE  EnumerationInv'
<1> USE DEF EnumerationInv
<1>1. /\ at.step = "entry" /\ at.pid \in Pids \cup {0} /\ at.pid \in Nat
      /\ UNCHANGED <<row, processes, inodeToPid>>
      /\ UNCHANGED kernelVars
  BY ProbeAssumption DEF NextEntry, PlaceInv
<1>2. KernelInv' /\ Lasts /\ throughout' = throughout
  BY <1>1, KernelRests DEF kernelVars
<1>3. /\ \A n \in DOMAIN processes : processes[n].pid <= at.pid
      /\ \A t \in throughout : t[1] <= at.pid => t \in Listed
      /\ \A n \in DOMAIN processes : processes[n].pid \in Nat
  BY <1>1, ProbeAssumption DEF ListInv, RowsInv, Entry, IsRow
<1>4. \A t \in throughout : t[1] \in DOMAIN procs /\ t[1] \in Nat /\ t[1] # 0
  BY ThroughoutPids
<1>5. ListInv /\ NetInv /\ Listed' = Listed
  BY <1>1 DEF Listed
<1>6. RowsInv' /\ (Ascending => Ascending')
  BY <1>1, <1>2, RowsLast DEF Ascending
<1>7. CASE Later(at.pid) = {}
  <2>1. at' = [step |-> "energy", pid |-> 0]
    BY <1>7 DEF NextEntry
  <2>2. \A t \in throughout : t[1] <= at.pid
    BY <1>1, <1>4, <1>7 DEF Later
  <2>3. ListInv'
    BY <1>1, <1>2, <1>3, <1>5, <1>6, <2>1, <2>2 DEF ListInv, Entry, Ahead, FieldSteps, Done
  <2>4. RowInv' /\ NetInv' /\ PlaceInv'
    BY <1>1, <2>1 DEF RowInv, Files, NetInv, PlaceInv, Done, Ahead, FieldSteps, kernelVars
  <2>. QED  BY <1>2, <1>6, <2>3, <2>4
<1>8. CASE Later(at.pid) # {}
  <2> PICK p : p = Min(Later(at.pid))
    OBVIOUS
  <2>1. at' = [step |-> "stat", pid |-> p]
    BY <1>8 DEF NextEntry
  <2>2. Later(at.pid) \subseteq Nat /\ Later(at.pid) \subseteq Pids
    BY ProbeAssumption DEF Later, KernelInv
  <2>3. p \in Later(at.pid) /\ \A q \in Later(at.pid) : p <= q
    BY <1>8, <2>2, MinIsLeast
  <2>4. p \in Pids /\ p \in Nat /\ p > at.pid
    BY <2>2, <2>3 DEF Later
  <2>5. \A t \in throughout : t[1] < p => t[1] <= at.pid
    BY <1>1, <1>4, <2>3, <2>4 DEF Later
  <2>6. \A n \in DOMAIN processes : processes[n].pid < p
    BY <1>1, <1>3, <2>4
  <2>7. ListInv'
    BY <1>1, <1>2, <1>3, <1>5, <1>6, <2>1, <2>5, <2>6 DEF ListInv, Entry, Ahead, FieldSteps, Done
  <2>8. RowInv' /\ NetInv' /\ PlaceInv'
    BY <1>1, <2>1, <2>4 DEF RowInv, Files, NetInv, PlaceInv, Done, Ahead, FieldSteps, kernelVars
  <2>. QED  BY <1>2, <1>6, <2>7, <2>8
<1>. QED  BY <1>7, <1>8

(* A process that is there throughout has its pid all along.                  *)
LEMMA StillThere ==
    ASSUME KernelInv, NEW p, NEW s, <<p, s>> \in throughout
    PROVE  p \in DOMAIN procs /\ procs[p].start = s
<1>1. PICK q \in DOMAIN procs : <<p, s>> = <<q, procs[q].start>>
  BY InstanceMember DEF KernelInv
<1>. QED  BY <1>1

(* A field read from the process that has the pid.                            *)
LEMMA FieldRead ==
    ASSUME KernelInv, NEW p \in DOMAIN procs
    PROVE  <<p, procs[p].start>> \in existed
  BY InstanceMember DEF KernelInv

LEMMA ParseProcessStatStep ==
    ASSUME EnumerationInv, ParseProcessStat
    PROVE  EnumerationInv'
<1> USE DEF EnumerationInv
<1>1. /\ at.step = "stat" /\ at.pid \in Pids /\ at.pid \in Nat /\ at = [step |-> at.step, pid |-> at.pid]
      /\ UNCHANGED <<processes, inodeToPid>>
      /\ UNCHANGED kernelVars
  BY ProbeAssumption DEF ParseProcessStat, PlaceInv, Ahead
<1>2. KernelInv' /\ Lasts /\ throughout' = throughout /\ UNCHANGED existed
  BY <1>1, KernelRests DEF kernelVars
<1>3. /\ \A n \in DOMAIN processes : processes[n].pid < at.pid
      /\ \A t \in throughout : t[1] < at.pid => t \in Listed
      /\ \A n \in DOMAIN processes : processes[n].pid \in Nat
  BY <1>1, ProbeAssumption DEF ListInv, RowsInv, Ahead, IsRow
<1>4. RowsInv' /\ Ascending' /\ Listed' = Listed
  BY <1>1, <1>2, RowsLast DEF Ascending, ListInv, Listed
<1>5. CASE at.pid \in DOMAIN procs
  <2> PICK r : r = Fresh(row, at.pid)
    OBVIOUS
  <2>1. at' = [step |-> "statm", pid |-> at.pid] /\ row' = r
    BY <1>1, <1>5 DEF ParseProcessStat
  <2>2. /\ r.pid = at.pid /\ r.start = procs[at.pid].start /\ r.rss = r.start /\ r.net = {}
        /\ \A f \in {"user", "command", "mask", "handles", "io", "status"} : r[f] = NotRead
        /\ r = [f \in RowFields |-> r[f]]
    BY DEF Fresh, RowFields
  <2>3. <<at.pid, procs[at.pid].start>> \in existed
    BY <1>5, FieldRead
  <2>4. IsRow(r)' /\ ReadUpTo(r, 1)'
    BY <1>1, <1>2, <2>2, <2>3 DEF IsRow, ReadUpTo
  <2>5. RowInv'
    BY <2>1, <2>2, <2>4 DEF RowInv, Files, IsRow, ReadUpTo, Own
  <2>6. ListInv' /\ NetInv' /\ PlaceInv'
    BY <1>1, <1>2, <1>3, <1>4, <2>1
       DEF ListInv, NetInv, PlaceInv, Entry, Ahead, FieldSteps, Done, kernelVars
  <2>. QED  BY <1>2, <1>4, <2>5, <2>6
<1>6. CASE at.pid \notin DOMAIN procs
  <2>1. at' = [step |-> "entry", pid |-> at.pid] /\ row' = row
    BY <1>1, <1>6 DEF ParseProcessStat
  <2>2. \A t \in throughout : t[1] <= at.pid => t[1] < at.pid
    BY <1>1, <1>6, ThroughoutPids
  <2>3. \A n \in DOMAIN processes : processes[n].pid <= at.pid
    BY <1>1, <1>3
  <2>4. ListInv'
    BY <1>1, <1>2, <1>3, <1>4, <2>1, <2>2, <2>3 DEF ListInv, Entry, Ahead, FieldSteps, Done
  <2>5. RowInv' /\ NetInv' /\ PlaceInv'
    BY <1>1, <2>1 DEF RowInv, Files, NetInv, PlaceInv, Entry, Ahead, FieldSteps, Done, kernelVars
  <2>. QED  BY <1>2, <1>4, <2>4, <2>5
<1>. QED  BY <1>5, <1>6

(* A field set to what was read.                                              *)
LEMMA FieldSet ==
    ASSUME NEW old, IsRow(old),
           NEW f \in {"rss", "user", "command", "mask", "handles", "io", "status"},
           NEW v, v = NotRead \/ <<old.pid, v>> \in existed,
           NEW r, r = [old EXCEPT ![f] = v]
    PROVE  IsRow(r) /\ r[f] = v /\ \A g \in RowFields \ {f} : r[g] = old[g]
<1>1. old = [g \in RowFields |-> old[g]] /\ f \in RowFields
  BY DEF IsRow, RowFields
<1>2. r[f] = v /\ \A g \in RowFields \ {f} : r[g] = old[g]
  BY <1>1
<1>3. r = [g \in RowFields |-> r[g]]
  BY <1>1
<1>4. r.pid = old.pid /\ r.start = old.start
  BY <1>2 DEF RowFields
<1>5. \A g \in {"rss", "user", "command", "mask", "handles", "io", "status"} :
          r[g] = NotRead \/ <<r.pid, r[g]>> \in existed
  <2> SUFFICES ASSUME NEW g \in {"rss", "user", "command", "mask", "handles", "io", "status"}
               PROVE  r[g] = NotRead \/ <<r.pid, r[g]>> \in existed
    OBVIOUS
  <2>1. CASE g = f
    BY <1>2, <1>4, <2>1
  <2>2. CASE g # f
    <3>1. r[g] = old[g]
      BY <1>2, <2>2 DEF RowFields
    <3>. QED  BY <1>4, <3>1 DEF IsRow
  <2>. QED  BY <2>1, <2>2
<1>. QED  BY <1>2, <1>3, <1>4, <1>5 DEF IsRow

(* The field that the nth file goes into, and the next file after that.       *)
FieldOf == <<"rss", "user", "command", "mask", "handles", "io", "status">>

LEMMA FieldDone ==
    ASSUME NEW n \in 1 .. 7, NEW old, NEW r, NEW v, ReadUpTo(old, n),
           <<old.pid, old.start>> \in throughout =>
               v = IF n \in {5, 6} THEN Own(old) ELSE old.start,
           r[FieldOf[n]] = v, \A g \in RowFields \ {FieldOf[n]} : r[g] = old[g]
    PROVE  ReadUpTo(r, n + 1) /\ r.pid = old.pid /\ r.net = old.net
<1>0. \A g \in RowFields : g # FieldOf[n] => r[g] = old[g]
  OBVIOUS
<1>1. CASE n = 1
  <2>1. FieldOf[n] = "rss"
    BY <1>1 DEF FieldOf
  <2>2. /\ r.rss = v
        /\ r.pid = old.pid /\ r.start = old.start /\ r.net = old.net /\ r.user = old.user /\ r.command = old.command
        /\ r.mask = old.mask /\ r.handles = old.handles /\ r.io = old.io /\ r.status = old.status
    BY <1>0, <2>1 DEF RowFields
  <2>3. Own(r) = Own(old)
    BY <2>2 DEF Own
  <2>4. <<old.pid, old.start>> \in throughout => v = old.start
    BY <1>1
  <2>. QED  BY <1>1, <2>2, <2>3, <2>4 DEF ReadUpTo
<1>2. CASE n = 2
  <2>1. FieldOf[n] = "user"
    BY <1>2 DEF FieldOf
  <2>2. /\ r.user = v
        /\ r.pid = old.pid /\ r.start = old.start /\ r.net = old.net /\ r.rss = old.rss /\ r.command = old.command
        /\ r.mask = old.mask /\ r.handles = old.handles /\ r.io = old.io /\ r.status = old.status
    BY <1>0, <2>1 DEF RowFields
  <2>3. Own(r) = Own(old)
    BY <2>2 DEF Own
  <2>4. <<old.pid, old.start>> \in throughout => v = old.start
    BY <1>2
  <2>. QED  BY <1>2, <2>2, <2>3, <2>4 DEF ReadUpTo
<1>3. CASE n = 3
  <2>1. FieldOf[n] = "command"
    BY <1>3 DEF FieldOf
  <2>2. /\ r.command = v
        /\ r.pid = old.pid /\ r.start = old.start /\ r.net = old.net /\ r.rss = old.rss /\ r.user = old.user
        /\ r.mask = old.mask /\ r.handles = old.handles /\ r.io = old.io /\ r.status = old.status
    BY <1>0, <2>1 DEF RowFields
  <2>3. Own(r) = Own(old)
    BY <2>2 DEF Own
  <2>4. <<old.pid, old.start>> \in throughout => v = old.start
    BY <1>3
  <2>. QED  BY <1>3, <2>2, <2>3, <2>4 DEF ReadUpTo
<1>4. CASE n = 4
  <2>1. FieldOf[n] = "mask"
    BY <1>4 DEF FieldOf
  <2>2. /\ r.mask = v
        /\ r.pid = old.pid /\ r.start = old.start /\ r.net = old.net /\ r.rss = old.rss /\ r.user = old.user
        /\ r.command = old.command /\ r.handles = old.handles /\ r.io = old.io /\ r.status = old.status
    BY <1>0, <2>1 DEF RowFields
  <2>3. Own(r) = Own(old)
    BY <2>2 DEF Own
  <2>4. <<old.pid, old.start>> \in throughout => v = old.start
    BY <1>4
  <2>. QED  BY <1>4, <2>2, <2>3, <2>4 DEF ReadUpTo
<1>5. CASE n = 5
  <2>1. FieldOf[n] = "handles"
    BY <1>5 DEF FieldOf
  <2>2. /\ r.handles = v
        /\ r.pid = old.pid /\ r.start = old.start /\ r.net = old.net /\ r.rss = old.rss /\ r.user = old.user
        /\ r.command = old.command /\ r.mask = old.mask /\ r.io = old.io /\ r.status = old.status
    BY <1>0, <2>1 DEF RowFields
  <2>3. Own(r) = Own(old)
    BY <2>2 DEF Own
  <2>4. <<old.pid, old.start>> \in throughout => v = Own(old)
    BY <1>5
  <2>. QED  BY <1>5, <2>2, <2>3, <2>4 DEF ReadUpTo
<1>6. CASE n = 6
  <2>1. FieldOf[n] = "io"
    BY <1>6 DEF FieldOf
  <2>2. /\ r.io = v
        /\ r.pid = old.pid /\ r.start = old.start /\ r.net = old.net /\ r.rss = old.rss /\ r.user = old.user
        /\ r.command = old.command /\ r.mask = old.mask /\ r.handles = old.handles /\ r.status = old.status
    BY <1>0, <2>1 DEF RowFields
  <2>3. Own(r) = Own(old)
    BY <2>2 DEF Own
  <2>4. <<old.pid, old.start>> \in throughout => v = Own(old)
    BY <1>6
  <2>. QED  BY <1>6, <2>2, <2>3, <2>4 DEF ReadUpTo
<1>7. CASE n = 7
  <2>1. FieldOf[n] = "status"
    BY <1>7 DEF FieldOf
  <2>2. /\ r.status = v
        /\ r.pid = old.pid /\ r.start = old.start /\ r.net = old.net /\ r.rss = old.rss /\ r.user = old.user
        /\ r.command = old.command /\ r.mask = old.mask /\ r.handles = old.handles /\ r.io = old.io
    BY <1>0, <2>1 DEF RowFields
  <2>3. Own(r) = Own(old)
    BY <2>2 DEF Own
  <2>4. <<old.pid, old.start>> \in throughout => v = old.start
    BY <1>7
  <2>. QED  BY <1>7, <2>2, <2>3, <2>4 DEF ReadUpTo
<1>. QED  BY <1>1, <1>2, <1>3, <1>4, <1>5, <1>6, <1>7

(* Reading a file leaves a sound row, with what there is in the file.         *)
LEMMA ReadIntoRow ==
    ASSUME EnumerationInv, NEW n \in DOMAIN Files, at.step = Files[n],
           NEW r, r = ReadInto(Files[n])
    PROVE  IsRow(r) /\ ReadUpTo(r, n + 1) /\ r.pid = at.pid /\ r.net = {}
<1>1. /\ n \in 1 .. 7
      /\ IsRow(row) /\ ReadUpTo(row, n) /\ row.pid = at.pid /\ row.net = {}
      /\ row = [f \in RowFields |-> row[f]]
  BY DEF EnumerationInv, RowInv, Files, IsRow
<1>2. /\ at.pid \in DOMAIN procs => <<row.pid, Whose>> \in existed
      /\ <<row.pid, row.start>> \in throughout => at.pid \in DOMAIN procs /\ Whose = row.start
  BY <1>1, FieldRead, StillThere DEF EnumerationInv, Whose
<1>3. /\ There(FALSE) <=> at.pid \in DOMAIN procs
      /\ There(TRUE) => at.pid \in DOMAIN procs
      /\ <<row.pid, row.start>> \in throughout => (There(TRUE) <=> procs[row.pid].readable)
  BY <1>1, <1>2 DEF There
<1> DEFINE here == IF n \in {5, 6} THEN There(TRUE) ELSE There(FALSE)
           else == IF n \in {4, 7} THEN NotRead ELSE row[FieldOf[n]]
           v == IF here THEN Whose ELSE else
<1>4. r = [row EXCEPT ![FieldOf[n]] = v]
  <2>1. CASE n = 1
    <3>1. Files[n] = "statm" /\ FieldOf[n] = "rss"
      BY <2>1 DEF Files, FieldOf
    <3>2. r = IF There(FALSE) THEN [row EXCEPT !.rss = Whose] ELSE row
      BY <3>1 DEF ReadInto
    <3>3. v = IF There(FALSE) THEN Whose ELSE row.rss
      BY <2>1, <3>1
    <3> HIDE DEF v
    <3>. QED  BY <1>1, <3>1, <3>2, <3>3 DEF RowFields
  <2>2. CASE n = 2
    <3>1. Files[n] = "status" /\ FieldOf[n] = "user"
      BY <2>2 DEF Files, FieldOf
    <3>2. r = IF There(FALSE) THEN [row EXCEPT !.user = Whose] ELSE row
      BY <3>1 DEF ReadInto
    <3>3. v = IF There(FALSE) THEN Whose ELSE row.user
      BY <2>2, <3>1
    <3> HIDE DEF v
    <3>. QED  BY <1>1, <3>1, <3>2, <3>3 DEF RowFields
  <2>3. CASE n = 3
    <3>1. Files[n] = "cmdline" /\ FieldOf[n] = "command"
      BY <2>3 DEF Files, FieldOf
    <3>2. r = IF There(FALSE) THEN [row EXCEPT !.command = Whose] ELSE row
      BY <3>1 DEF ReadInto
    <3>3. v = IF There(FALSE) THEN Whose ELSE row.command
      BY <2>3, <3>1
    <3> HIDE DEF v
    <3>. QED  BY <1>1, <3>1, <3>2, <3>3 DEF RowFields
  <2>4. CASE n = 4
    <3>1. Files[n] = "affinity" /\ FieldOf[n] = "mask"
      BY <2>4 DEF Files, FieldOf
    <3>2. r = [row EXCEPT !.mask = IF There(FALSE) THEN Whose ELSE NotRead]
      BY <3>1 DEF ReadInto
    <3>3. v = IF There(FALSE) THEN Whose ELSE NotRead
      BY <2>4, <3>1
    <3> HIDE DEF v
    <3>. QED  BY <1>1, <3>1, <3>2, <3>3 DEF RowFields
  <2>5. CASE n = 5
    <3>1. Files[n] = "fd" /\ FieldOf[n] = "handles"
      BY <2>5 DEF Files, FieldOf
    <3>2. r = IF There(TRUE) THEN [row EXCEPT !.handles = Whose] ELSE row
      BY <3>1 DEF ReadInto
    <3>3. v = IF There(TRUE) THEN Whose ELSE row.handles
      BY <2>5, <3>1
    <3> HIDE DEF v
    <3>. QED  BY <1>1, <3>1, <3>2, <3>3 DEF RowFields
  <2>6. CASE n = 6
    <3>1. Files[n] = "io" /\ FieldOf[n] = "io"
      BY <2>6 DEF Files, FieldOf
    <3>2. r = IF There(TRUE) THEN [row EXCEPT !.io = Whose] ELSE row
      BY <3>1 DEF ReadInto
    <3>3. v = IF There(TRUE) THEN Whose ELSE row.io
      BY <2>6, <3>1
    <3> HIDE DEF v
    <3>. QED  BY <1>1, <3>1, <3>2, <3>3 DEF RowFields
  <2>7. CASE n = 7
    <3>1. Files[n] = "freezer" /\ FieldOf[n] = "status"
      BY <2>7 DEF Files, FieldOf
    <3>2. r = [row EXCEPT !.status = IF There(FALSE) THEN Whose ELSE NotRead]
      BY <3>1 DEF ReadInto
    <3>3. v = IF There(FALSE) THEN Whose ELSE NotRead
      BY <2>7, <3>1
    <3> HIDE DEF v
    <3>. QED  BY <1>1, <3>1, <3>2, <3>3 DEF RowFields
  <2> HIDE DEF v
  <2>. QED  BY <1>1, <2>1, <2>2, <2>3, <2>4, <2>5, <2>6, <2>7
<1>5. v = NotRead \/ <<row.pid, v>> \in existed
  <2>1. here => at.pid \in DOMAIN procs
    BY <1>3
  <2>2. row[FieldOf[n]] = NotRead \/ <<row.pid, row[FieldOf[n]]>> \in existed
    <3>1. FieldOf[n] \in {"rss", "user", "command", "mask", "handles", "io", "status"}
      BY <1>1 DEF FieldOf
    <3>. QED  BY <1>1, <3>1 DEF IsRow
  <2> HIDE DEF here
  <2>3. CASE here
    BY <1>2, <2>1, <2>3
  <2>4. CASE ~here
    BY <2>2, <2>4
  <2>. QED  BY <2>3, <2>4
<1>6. ASSUME <<row.pid, row.start>> \in throughout
      PROVE  v = IF n \in {5, 6} THEN Own(row) ELSE row.start
  <2>1. at.pid \in DOMAIN procs /\ Whose = row.start
    BY <1>2, <1>6
  <2>2. CASE n \notin {5, 6}
    BY <1>3, <2>1, <2>2
  <2>3. CASE n \in {5, 6}
    <3>1. row.handles = NotRead \/ n = 6
      BY <1>1, <1>6, <2>3 DEF ReadUpTo
    <3>2. row.io = NotRead
      BY <1>1, <1>6, <2>3 DEF ReadUpTo
    <3>3. row[FieldOf[n]] = NotRead
      BY <2>3, <3>1, <3>2 DEF FieldOf
    <3>4. here <=> There(TRUE)
      BY <2>3
    <3>5. CASE There(TRUE)
      BY <1>3, <1>6, <2>1, <2>3, <3>4, <3>5 DEF Own
    <3>6. CASE ~There(TRUE)
      <4>1. Own(row) = NotRead
        BY <1>3, <1>6, <3>6 DEF Own
      <4>. QED  BY <2>3, <3>3, <3>4, <3>6, <4>1
    <3>. QED  BY <3>5, <3>6
  <2>. QED  BY <2>2, <2>3
<1>7. FieldOf[n] \in {"rss", "user", "command", "mask", "handles", "io", "status"}
  BY <1>1 DEF FieldOf
<1>8. IsRow(r) /\ r[FieldOf[n]] = v /\ \A g \in RowFields \ {FieldOf[n]} : r[g] = row[g]
  <2> HIDE DEF v
  <2>. QED  BY <1>1, <1>4, <1>5, <1>7, FieldSet
<1>9. ReadUpTo(r, n + 1) /\ r.pid = row.pid /\ r.net = row.net
  <2> HIDE DEF v
  <2>. QED  BY <1>1, <1>6, <1>8, FieldDone
<1>. QED  BY <1>1, <1>8, <1>9

LEMMA AppendFacts ==
    ASSUME NEW S, NEW s \in Seq(S), NEW e
    PROVE  /\ Append(s, e) \in Seq(S \cup {e})
           /\ Len(s) \in Nat /\ DOMAIN s = 1 .. Len(s)
           /\ DOMAIN Append(s, e) = 1 .. Len(s) + 1
           /\ \A n \in 1 .. Len(s) : Append(s, e)[n] = s[n]
           /\ Append(s, e)[Len(s) + 1] = e
<1>1. s \in Seq(S \cup {e}) /\ e \in S \cup {e}
  OBVIOUS
<1>. QED  BY <1>1

LEMMA ParseFileStep ==
    ASSUME EnumerationInv, ParseFile
    PROVE  EnumerationInv'
<1> USE DEF EnumerationInv
<1> PICK n \in DOMAIN Files :
        /\ at.step = Files[n]
        /\ row' = ReadInto(Files[n])
        /\ IF n < Len(Files) THEN /\ at' = [at EXCEPT !.step = Files[n + 1]]
                                  /\ UNCHANGED processes
           ELSE /\ at' = [at EXCEPT !.step = "entry"]
                /\ processes' = Append(processes, ReadInto(Files[n]))
        /\ UNCHANGED <<kernelVars, diag, inodeToPid, returned>>
  BY DEF ParseFile
<1> PICK r : r = ReadInto(Files[n])
  OBVIOUS
<1>1. /\ n \in 1 .. 7 /\ Len(Files) = 7 /\ at.step \in FieldSteps
      /\ at.pid \in Pids /\ at.pid \in Nat /\ at = [step |-> at.step, pid |-> at.pid]
      /\ UNCHANGED kernelVars /\ UNCHANGED inodeToPid /\ row' = r
  BY ProbeAssumption DEF PlaceInv, Ahead, FieldSteps, Files
<1>2. KernelInv' /\ Lasts /\ throughout' = throughout /\ UNCHANGED existed
  BY <1>1, KernelRests DEF kernelVars
<1>3. /\ \A k \in DOMAIN processes : processes[k].pid < at.pid
      /\ \A t \in throughout : t[1] < at.pid => t \in Listed
  BY <1>1 DEF ListInv, Ahead
<1>4. IsRow(r) /\ ReadUpTo(r, n + 1) /\ r.pid = at.pid /\ r.net = {}
  BY ReadIntoRow
<1>5. IsRow(r)' /\ ReadUpTo(r, n + 1)'
  BY <1>1, <1>2, <1>4, RowLasts
<1>6. CASE n < 7
  <2>1. at' = [step |-> Files[n + 1], pid |-> at.pid] /\ UNCHANGED processes
    BY <1>1, <1>6
  <2>2. n + 1 \in 1 .. 7 /\ Files[n + 1] \in FieldSteps /\ Files[n + 1] # "statm"
    BY <1>1, <1>6 DEF Files, FieldSteps
  <2>3. RowsInv' /\ Ascending' /\ Listed' = Listed
    BY <1>2, <2>1, RowsLast DEF Ascending, ListInv, Listed
  <2>4. ListInv'
    BY <1>2, <1>3, <2>1, <2>2, <2>3 DEF ListInv, Entry, Ahead, FieldSteps, Done
  <2>5. \A k \in DOMAIN Files : Files[k] = Files[n + 1] => k = n + 1
    BY <2>2 DEF Files
  <2>6. RowInv'
    <3>1. ASSUME NEW k \in DOMAIN Files, at'.step = Files[k]
          PROVE  IsRow(row)' /\ ReadUpTo(row, k)' /\ row'.pid = at'.pid /\ row'.net = {}
      <4>1. k = n + 1 /\ at'.pid = at.pid
        BY <2>1, <2>5, <3>1
      <4>. QED  BY <1>1, <1>4, <1>5, <4>1 DEF IsRow, ReadUpTo, Own
    <3>. QED  BY <3>1 DEF RowInv
  <2>7. NetInv' /\ PlaceInv'
    BY <1>1, <2>1, <2>2 DEF NetInv, PlaceInv, Ahead, FieldSteps, kernelVars
  <2>. QED  BY <1>2, <2>3, <2>4, <2>6, <2>7
<1>7. CASE n = 7
  <2>1. at' = [step |-> "entry", pid |-> at.pid] /\ processes' = Append(processes, r)
    BY <1>1, <1>7
  <2>2. PICK S : processes \in Seq(S)
    BY DEF RowsInv
  <2>3. /\ processes' \in Seq(S \cup {r})
        /\ Len(processes) \in Nat /\ DOMAIN processes = 1 .. Len(processes)
        /\ DOMAIN processes' = 1 .. Len(processes) + 1
        /\ \A k \in 1 .. Len(processes) : processes'[k] = processes[k]
        /\ processes'[Len(processes) + 1] = r
    BY <2>1, <2>2, AppendFacts
  <2>4. RowsInv'
    <3>1. ASSUME NEW k \in DOMAIN processes'
          PROVE  IsRow(processes[k])' /\ ReadUpTo(processes[k], 8)'
      <4>1. CASE k = Len(processes) + 1
        <5>1. processes'[k] = r
          BY <2>3, <4>1
        <5>. QED  BY <1>5, <1>7, <5>1 DEF IsRow, ReadUpTo, Own
      <4>2. CASE k \in DOMAIN processes
        <5> PICK q : q = processes[k]
          OBVIOUS
        <5>1. IsRow(q) /\ ReadUpTo(q, 8)
          BY <4>2 DEF RowsInv
        <5>2. IsRow(q)' /\ ReadUpTo(q, 8)'
          BY <1>2, <5>1, RowLasts
        <5>3. processes'[k] = q
          BY <2>3, <4>2
        <5>. QED  BY <5>2, <5>3 DEF IsRow, ReadUpTo, Own
      <4>. QED  BY <2>3, <3>1, <4>1, <4>2
    <3>. QED  BY <2>3, <3>1 DEF RowsInv
  <2>5. Ascending'
    <3>1. ASSUME NEW k \in 1 .. Len(processes) + 1, NEW m \in 1 .. Len(processes) + 1, k < m
          PROVE  processes'[k].pid < processes'[m].pid
      <4>1. k \in 1 .. Len(processes) /\ processes'[k] = processes[k]
        BY <2>3, <3>1
      <4>2. CASE m = Len(processes) + 1
        BY <1>3, <1>4, <2>3, <4>1, <4>2
      <4>3. CASE m \in 1 .. Len(processes)
        BY <2>3, <3>1, <4>1, <4>3 DEF ListInv, Ascending
      <4>. QED  BY <2>3, <4>2, <4>3
    <3>. QED  BY <2>3, <3>1 DEF Ascending
  <2>6. Listed' = Listed \cup {<<r.pid, r.start>>}
    BY <2>3 DEF Listed
  <2>7. ASSUME NEW t \in throughout, t[1] <= at.pid
        PROVE  t \in Listed'
    <3>1. t[1] \in Nat
      BY ThroughoutPids
    <3>2. CASE t[1] < at.pid
      BY <1>3, <2>6, <3>2
    <3>3. CASE t[1] = at.pid
      <4>1. <<r.pid, r.start>> \in existed /\ <<r.pid, r.start>>[1] = t[1]
        BY <1>4, <3>3 DEF IsRow
      <4>2. <<r.pid, r.start>> = t
        BY <4>1 DEF KernelInv
      <4>. QED  BY <2>6, <4>2
    <3>. QED  BY <1>1, <2>7, <3>1, <3>2, <3>3
  <2>8. \A k \in DOMAIN processes' : processes'[k].pid <= at.pid
    <3>1. ASSUME NEW k \in 1 .. Len(processes) + 1 PROVE processes'[k].pid <= at.pid
      <4>1. CASE k = Len(processes) + 1
        BY <1>1, <1>4, <2>3, <4>1
      <4>2. CASE k \in 1 .. Len(processes)
        <5>1. processes'[k].pid < at.pid /\ processes'[k].pid \in Nat
          BY <1>3, <2>3, <4>2, ProbeAssumption DEF RowsInv, IsRow
        <5>. QED  BY <1>1, <5>1
      <4>. QED  BY <2>3, <4>1, <4>2
    <3>. QED  BY <2>3, <3>1
  <2>9. ListInv'
    BY <1>2, <2>1, <2>5, <2>7, <2>8 DEF ListInv, Entry, Ahead, FieldSteps, Done
  <2>10. RowInv'
    BY <2>1 DEF RowInv, Files
  <2>11. NetInv'
    <3>1. at.step \notin {"fds", "attribute", "return"} /\ at'.step \notin {"fds", "attribute", "return"}
      BY <1>1, <2>1 DEF FieldSteps
    <3>2. DOMAIN inodeToPid = {} /\ \A k \in DOMAIN processes : processes[k].net = {}
      BY <3>1 DEF NetInv
    <3>3. \A k \in DOMAIN processes' : processes'[k].net = {}
      BY <1>4, <2>3, <3>2
    <3>. QED  BY <1>1, <3>1, <3>2, <3>3 DEF NetInv
  <2>12. PlaceInv'
    BY <1>1, <2>1 DEF PlaceInv, Entry, Ahead, FieldSteps
  <2>. QED  BY <1>2, <2>4, <2>9, <2>10, <2>11, <2>12
<1>. QED  BY <1>1, <1>6, <1>7

-----------------------------------------------------------------------------
(* The steps that have all rows already.                                     *)

Charges == {"energy", "net"}
With(old, f, v) == [old EXCEPT ![f] = v]

LEMMA ChargeSet ==
    ASSUME NEW old, IsRow(old), ReadUpTo(old, 8), NEW f \in Charges, NEW v,
           NEW r, r = With(old, f, v)
    PROVE  /\ IsRow(r) /\ ReadUpTo(r, 8)
           /\ r[f] = v /\ r.pid = old.pid /\ r.start = old.start
           /\ f = "energy" => r.net = old.net
<1>1. old = [g \in RowFields |-> old[g]] /\ f \in RowFields
  BY DEF IsRow, RowFields, Charges
<1>2. r = [g \in RowFields |-> r[g]] /\ r[f] = v /\ \A g \in RowFields \ {f} : r[g] = old[g]
  BY <1>1 DEF With
<1>3. /\ r.pid = old.pid /\ r.start = old.start /\ r.rss = old.rss /\ r.user = old.user
      /\ r.command = old.command /\ r.mask = old.mask /\ r.handles = old.handles
      /\ r.io = old.io /\ r.status = old.status
  BY <1>2 DEF RowFields, Charges
<1>4. f = "energy" => r.net = old.net
  BY <1>2 DEF RowFields
<1>5. \A g \in {"rss", "user", "command", "mask", "handles", "io", "status"} : r[g] = old[g]
  BY <1>3
<1>6. IsRow(r)
  BY <1>2, <1>3, <1>5 DEF IsRow
<1>7. Own(r) = Own(old)
  BY <1>3 DEF Own
<1>8. ReadUpTo(r, 8)
  BY <1>3, <1>7 DEF ReadUpTo
<1>. QED  BY <1>2, <1>3, <1>4, <1>6, <1>8

LEMMA SeqOfRows ==
    ASSUME NEW s, NEW n \in Nat, s = [k \in 1 .. n |-> s[k]]
    PROVE  \E S : s \in Seq(S)
<1>1. s \in [1 .. n -> {s[k] : k \in 1 .. n}]
  OBVIOUS
<1>2. s \in Seq({s[k] : k \in 1 .. n})
  BY <1>1
<1>. QED  BY <1>2

LEMMA RowKept ==
    ASSUME NEW r, IsRow(r), ReadUpTo(r, 8), UNCHANGED <<procs, existed, throughout>>,
           NEW n, processes'[n] = r
    PROVE  IsRow(processes[n])' /\ ReadUpTo(processes[n], 8)'
  BY DEF IsRow, ReadUpTo, Own

(* All rows are charged, one way or the other, and nothing else happens.      *)
Charged(f, v) == processes' = [n \in DOMAIN processes |-> [processes[n] EXCEPT ![f] = v[n]]]

LEMMA RowsCharged ==
    ASSUME EnumerationInv, UNCHANGED kernelVars, NEW f \in Charges, NEW v, Charged(f, v)
    PROVE  /\ RowsInv' /\ Ascending' /\ Listed' = Listed
           /\ DOMAIN processes' = DOMAIN processes
           /\ \A n \in DOMAIN processes :
                 /\ processes'[n].pid = processes[n].pid
                 /\ processes'[n][f] = v[n]
                 /\ f = "energy" => processes'[n].net = processes[n].net
<1>1. ASSUME NEW n \in DOMAIN processes
      PROVE  /\ IsRow(processes[n])' /\ ReadUpTo(processes[n], 8)'
             /\ processes'[n].pid = processes[n].pid /\ processes'[n].start = processes[n].start
             /\ processes'[n][f] = v[n]
             /\ f = "energy" => processes'[n].net = processes[n].net
  <2>1. PICK old : old = processes[n]
    OBVIOUS
  <2>2. PICK w : w = v[n]
    OBVIOUS
  <2>3. PICK r : r = With(old, f, w)
    OBVIOUS
  <2>4. IsRow(old) /\ ReadUpTo(old, 8)
    BY <1>1, <2>1 DEF EnumerationInv, RowsInv
  <2>5. /\ IsRow(r) /\ ReadUpTo(r, 8)
        /\ r[f] = w /\ r.pid = old.pid /\ r.start = old.start
        /\ f = "energy" => r.net = old.net
    BY <1>1, <2>3, <2>4, ChargeSet
  <2>6. processes'[n] = r
    BY <1>1, <2>1, <2>2, <2>3 DEF Charged, With
  <2>7. UNCHANGED <<procs, existed, throughout>>
    BY DEF kernelVars
  <2>8. IsRow(processes[n])' /\ ReadUpTo(processes[n], 8)'
    BY <2>5, <2>6, <2>7, RowKept
  <2>. QED  BY <2>1, <2>2, <2>5, <2>6, <2>8
<1>2. DOMAIN processes' = DOMAIN processes
  BY DEF Charged
<1>3. \E S : processes' \in Seq(S)
  <2>1. PICK n \in Nat : DOMAIN processes = 1 .. n
    <3>1. PICK S : processes \in Seq(S)
      BY DEF EnumerationInv, RowsInv
    <3>. QED  BY <3>1
  <2>2. processes' = [k \in 1 .. n |-> processes'[k]]
    BY <2>1 DEF Charged
  <2>. QED  BY <2>2, SeqOfRows
<1>4. RowsInv'
  BY <1>1, <1>2, <1>3 DEF RowsInv
<1>5. Ascending'
  BY <1>1, <1>2 DEF EnumerationInv, ListInv, Ascending
<1>6. Listed' = Listed
  BY <1>1, <1>2 DEF Listed
<1>. QED  BY <1>1, <1>2, <1>4, <1>5, <1>6

LEMMA AttributeEnergyStep ==
    ASSUME EnumerationInv, AttributeEnergy
    PROVE  EnumerationInv'
<1> USE DEF EnumerationInv
<1>1. /\ at.step = "energy" /\ at' = [step |-> "sockets", pid |-> 0]
      /\ UNCHANGED kernelVars /\ UNCHANGED inodeToPid
  BY DEF AttributeEnergy
<1>2. KernelInv' /\ Lasts /\ throughout' = throughout
  BY <1>1, KernelRests DEF kernelVars
<1>3. /\ RowsInv' /\ Ascending' /\ Listed' = Listed
      /\ DOMAIN processes' = DOMAIN processes
      /\ \A n \in DOMAIN processes : processes'[n].net = processes[n].net
  <2>1. CASE processes' = processes
    BY <1>2, <2>1, RowsLast DEF ListInv, Ascending, Listed
  <2>2. CASE processes' = [n \in DOMAIN processes |->
                              [processes[n] EXCEPT !.energy = EnergyShare(processes[n])]]
    <3> PICK v : v = [n \in DOMAIN processes |-> EnergyShare(processes[n])]
      OBVIOUS
    <3>1. Charged("energy", v)
      BY <2>2 DEF Charged
    <3>. QED  BY <1>1, <3>1, RowsCharged DEF Charges
  <2>. QED  BY <2>1, <2>2 DEF AttributeEnergy
<1>4. throughout \subseteq Listed
  BY <1>1 DEF ListInv, Done
<1>5. ListInv'
  BY <1>1, <1>2, <1>3, <1>4 DEF ListInv, Entry, Ahead, FieldSteps, Done
<1>6. NetInv'
  BY <1>1, <1>3 DEF NetInv
<1>7. RowInv' /\ PlaceInv'
  BY <1>1 DEF RowInv, Files, PlaceInv, Ahead, FieldSteps, Done
<1>. QED  BY <1>2, <1>3, <1>5, <1>6, <1>7

LEMMA QueryAllSocketsStep ==
    ASSUME EnumerationInv, QueryAllSockets
    PROVE  EnumerationInv'
<1> USE DEF EnumerationInv
<1>1. /\ at.step = "sockets" /\ DOMAIN inodeToPid' = {}
      /\ at' = [step |-> at'.step, pid |-> 0] /\ at'.step \in {"return", "fds"}
      /\ UNCHANGED kernelVars /\ UNCHANGED processes
  BY DEF QueryAllSockets
<1>2. KernelInv' /\ Lasts /\ throughout' = throughout
  BY <1>1, KernelRests DEF kernelVars
<1>3. RowsInv' /\ Ascending' /\ Listed' = Listed /\ throughout \subseteq Listed
  BY <1>1, <1>2, RowsLast DEF ListInv, Ascending, Listed, Done
<1>4. ListInv'
  BY <1>1, <1>2, <1>3 DEF ListInv, Entry, Ahead, FieldSteps, Done
<1>5. NetInv'
  BY <1>1 DEF NetInv
<1>6. RowInv' /\ PlaceInv'
  BY <1>1 DEF RowInv, Files, PlaceInv, Ahead, FieldSteps, Done
<1>. QED  BY <1>2, <1>3, <1>4, <1>5, <1>6

LEMMA BuildInodeToPidMapStep ==
    ASSUME EnumerationInv, BuildInodeToPidMap
    PROVE  EnumerationInv'
<1> USE DEF EnumerationInv
<1> DEFINE later == {q \in DOMAIN procs : q > at.pid}
<1>1. /\ at.step = "fds" /\ at.pid \in Nat /\ at = [step |-> at.step, pid |-> at.pid]
      /\ UNCHANGED kernelVars /\ UNCHANGED processes
  BY ProbeAssumption DEF BuildInodeToPidMap, PlaceInv
<1>2. KernelInv' /\ Lasts /\ UNCHANGED <<throughout, held>>
  BY <1>1, KernelRests DEF kernelVars
<1>3. RowsInv' /\ Ascending' /\ Listed' = Listed /\ throughout \subseteq Listed
  BY <1>1, <1>2, RowsLast DEF ListInv, Ascending, Listed, Done
<1>4. /\ at' = [step |-> at'.step, pid |-> at'.pid] /\ at'.step \in {"attribute", "fds"}
      /\ at'.pid \in Pids \cup {0}
      /\ \A i \in DOMAIN inodeToPid' : i \in Inodes /\ <<i, inodeToPid'[i]>> \in held
  <2>1. CASE later = {}
    BY <1>1, <2>1 DEF BuildInodeToPidMap, NetInv
  <2>2. CASE later # {}
    <3> PICK p : p = Min(later)
      OBVIOUS
    <3> PICK seen : seen = IF procs[p].readable THEN {i \in Inodes : p \in holders[i]} ELSE {}
      OBVIOUS
    <3>1. /\ inodeToPid' = [i \in DOMAIN inodeToPid \cup seen |->
                               IF i \in seen THEN p ELSE inodeToPid[i]]
          /\ at' = [step |-> "fds", pid |-> p]
      BY <1>1, <2>2 DEF BuildInodeToPidMap
    <3>2. later \subseteq Pids /\ later \subseteq Nat
      BY ProbeAssumption DEF KernelInv
    <3>3. p \in Pids
      <4> HIDE DEF later
      <4>. QED  BY <2>2, <3>2, MinIsLeast
    <3>4. \A i \in seen : i \in Inodes /\ p \in holders[i]
      OBVIOUS
    <3>5. \A i \in seen : <<i, p>> \in held
      BY <3>3, <3>4, HoldingMember DEF KernelInv
    <3>. QED  BY <3>1, <3>3, <3>4, <3>5 DEF NetInv
  <2>. QED  BY <2>1, <2>2
<1>5. ListInv'
  BY <1>1, <1>2, <1>3, <1>4 DEF ListInv, Entry, Ahead, FieldSteps, Done
<1>6. NetInv'
  BY <1>1, <1>2, <1>4 DEF NetInv
<1>7. RowInv' /\ PlaceInv'
  BY <1>4 DEF RowInv, Files, PlaceInv, Ahead, FieldSteps, Done
<1>. QED  BY <1>2, <1>3, <1>5, <1>6, <1>7

LEMMA AttributeNetworkStep ==
    ASSUME EnumerationInv, AttributeNetwork
    PROVE  EnumerationInv'
<1> USE DEF EnumerationInv
<1>1. /\ at.step = "attribute" /\ at' = [step |-> "return", pid |-> 0]
      /\ UNCHANGED kernelVars /\ UNCHANGED inodeToPid
  BY DEF AttributeNetwork
<1>2. KernelInv' /\ Lasts /\ UNCHANGED <<throughout, held>>
  BY <1>1, KernelRests DEF kernelVars
<1> PICK v : v = [n \in DOMAIN processes |-> SocketsOf(processes[n].pid)]
  OBVIOUS
<1>3. Charged("net", v)
  BY DEF AttributeNetwork, Charged
<1>4. /\ RowsInv' /\ Ascending' /\ Listed' = Listed
      /\ DOMAIN processes' = DOMAIN processes
      /\ \A n \in DOMAIN processes : /\ processes'[n].pid = processes[n].pid
                                     /\ processes'[n]["net"] = v[n]
  BY <1>1, <1>3, RowsCharged DEF Charges
<1>5. \A n \in DOMAIN processes : processes'[n].net = SocketsOf(processes'[n].pid)
  BY <1>4
<1>6. NetInv'
  BY <1>1, <1>2, <1>4, <1>5 DEF NetInv, SocketsOf
<1>7. throughout \subseteq Listed
  BY <1>1 DEF ListInv, Done
<1>8. ListInv'
  BY <1>1, <1>2, <1>4, <1>7 DEF ListInv, Entry, Ahead, FieldSteps, Done
<1>9. RowInv' /\ PlaceInv'
  BY <1>1 DEF RowInv, Files, PlaceInv, Ahead, FieldSteps, Done
<1>. QED  BY <1>2, <1>4, <1>6, <1>8, <1>9

LEMMA ReturnStep ==
    ASSUME EnumerationInv, Return
    PROVE  EnumerationInv'
<1> USE DEF EnumerationInv
<1>1. /\ at' = [step |-> "outside", pid |-> 0] /\ processes' = <<>> /\ DOMAIN inodeToPid' = {}
      /\ UNCHANGED kernelVars
  BY DEF Return, Outside
<1>2. KernelInv'
  BY <1>1, KernelRests
<1>3. RowsInv'
  <2>1. <<>> \in Seq({})
    OBVIOUS
  <2>. QED  BY <1>1, <2>1 DEF RowsInv
<1>4. ListInv' /\ RowInv' /\ NetInv' /\ PlaceInv'
  BY <1>1 DEF ListInv, Ascending, RowInv, Files, NetInv, PlaceInv, Entry, Ahead, FieldSteps, Done
<1>. QED  BY <1>2, <1>3, <1>4

-----------------------------------------------------------------------------
(* All of it together, at every step of every call. *)
LEMMA EnumerationInvariant == ProbeSpec => []EnumerationInv
<1>1. ProbeInit => EnumerationInv
  <2> SUFFICES ASSUME ProbeInit PROVE EnumerationInv
    OBVIOUS
  <2>1. KernelInv
    BY DEF ProbeInit, KernelInv, Instances, Holdings
  <2>2. RowsInv
    <3>1. processes = <<>> /\ <<>> \in Seq({})
      BY DEF ProbeInit
    <3>. QED  BY <3>1 DEF RowsInv
  <2>3. ListInv /\ RowInv /\ NetInv /\ PlaceInv
    BY DEF ProbeInit, Outside, ListInv, Ascending, RowInv, Files, NetInv, PlaceInv, Entry, Ahead,
           FieldSteps, Done
  <2>. QED  BY <2>1, <2>2, <2>3 DEF EnumerationInv
<1>2. EnumerationInv /\ [ProbeNext]_probeVars => EnumerationInv'
  <2> SUFFICES ASSUME EnumerationInv, [ProbeNext]_probeVars PROVE EnumerationInv'
    OBVIOUS
  <2>1. CASE Kernel
    <3>1. KernelInv' /\ Lasts
      BY <2>1, KernelStep DEF EnumerationInv
    <3>2. UNCHANGED <<at, row, processes, inodeToPid>>
      BY <2>1 DEF Kernel
    <3>. QED  BY <3>1, <3>2, ProbeRests DEF EnumerationInv
  <2>2. CASE UNCHANGED probeVars
    <3>1. UNCHANGED kernelVars /\ UNCHANGED <<at, row, processes, inodeToPid>>
      BY <2>2 DEF probeVars
    <3>2. KernelInv' /\ Lasts
      BY <3>1, KernelRests DEF EnumerationInv
    <3>. QED  BY <3>1, <3>2, ProbeRests DEF EnumerationInv
  <2>. QED
    BY <2>1, <2>2, EnumerateStep, NextEntryStep, ParseProcessStatStep, ParseFileStep,
       AttributeEnergyStep, QueryAllSocketsStep, BuildInodeToPidMapStep, AttributeNetworkStep,
       ReturnStep DEF ProbeNext
<1>. QED  BY <1>1, <1>2, PTL DEF ProbeSpec

(* What follows from the pids of the list ascending.                          *)
LEMMA PidsOfRows ==
    ASSUME EnumerationInv
    PROVE  /\ \A m, n \in DOMAIN processes : processes[m].pid = processes[n].pid => m = n
           /\ Cardinality({r.pid : r \in RowSet}) = Len(processes)
<1>1. PICK S : processes \in Seq(S)
  BY DEF EnumerationInv, RowsInv
<1> PICK len : len = Len(processes)
  OBVIOUS
<1>2. len \in Nat /\ DOMAIN processes = 1 .. len
  BY <1>1
<1>3. \A n \in DOMAIN processes : processes[n].pid \in Nat
  BY ProbeAssumption DEF EnumerationInv, RowsInv, IsRow
<1>4. \A m, n \in DOMAIN processes : processes[m].pid = processes[n].pid => m = n
  <2> SUFFICES ASSUME NEW m \in 1 .. len, NEW n \in 1 .. len, processes[m].pid = processes[n].pid
               PROVE  m = n
    BY <1>2
  <2>1. ~(m < n) /\ ~(n < m)
    BY <1>2, <1>3 DEF EnumerationInv, ListInv, Ascending
  <2>. QED  BY <2>1
<1> DEFINE pids == {r.pid : r \in RowSet}
           f == [n \in 1 .. len |-> processes[n].pid]
<1>5. pids = {processes[n].pid : n \in 1 .. len}
  BY <1>2 DEF RowSet
<1>6. f \in Bijection(1 .. len, pids)
  BY <1>2, <1>4, <1>5 DEF Bijection, Injection, IsInjective, Surjection
<1>7. ExistsBijection(1 .. len, pids)
  BY <1>6 DEF ExistsBijection
<1> HIDE DEF pids
<1>8. IsFiniteSet(1 .. len) /\ Cardinality(1 .. len) = len
  <2>1. 1 \in Int /\ len \in Int
    BY <1>2
  <2>2. IsFiniteSet(1 .. len) /\ Cardinality(1 .. len) = IF 1 > len THEN 0 ELSE len - 1 + 1
    BY <2>1, FS_Interval
  <2>. QED  BY <1>2, <2>2
<1>9. Cardinality(pids) = len
  BY <1>7, <1>8, FS_Bijection
<1>. QED  BY <1>4, <1>9 DEF pids

(* What enumerate returns is the processes there are: while processes come    *)
(* and go between any two of the files it reads, every one that stays is in   *)
(* the list once, with all that may be read of it, and no row has something   *)
(* of another process unless the pid changed hands.                           *)
THEOREM EnumerationIsTrue == ProbeSpec => []EnumerationTrue
<1>1. EnumerationInv => EnumerationTrue
  <2> SUFFICES ASSUME EnumerationInv PROVE EnumerationTrue
    OBVIOUS
  <2>1. RowSet = {processes[n] : n \in DOMAIN processes}
    BY DEF RowSet
  <2>2. Listed = {<<r.pid, r.start>> : r \in RowSet}
    BY DEF Listed, RowSet
  <2>3. Listed \subseteq existed
    BY DEF Listed, EnumerationInv, RowsInv, IsRow
  <2>4. ListTrue
    <3>1. at.step = "return" => throughout \subseteq Listed
      BY DEF EnumerationInv, ListInv, Done
    <3>. QED  BY <2>2, <2>3, <3>1, PidsOfRows DEF ListTrue
  <2>5. RowsOfOneProcess
    <3> SUFFICES ASSUME NEW r \in RowSet
                 PROVE  LET always == {r.rss, r.user, r.command, r.mask, r.status}
                            private == {r.handles, r.io}
                        IN  /\ ~Reused(r) => always \cup private \subseteq {r.start, NotRead}
                            /\ <<r.pid, r.start>> \in throughout =>
                                  always = {r.start}
                                  /\ private = IF procs[r.pid].readable THEN {r.start} ELSE {NotRead}
      BY DEF RowsOfOneProcess
    <3>1. IsRow(r) /\ ReadUpTo(r, 8)
      BY <2>1 DEF EnumerationInv, RowsInv
    <3>2. ASSUME ~Reused(r), NEW f \in {"rss", "user", "command", "mask", "handles", "io", "status"}
          PROVE  r[f] \in {r.start, NotRead}
      <4>1. r[f] = NotRead \/ <<r.pid, r[f]>> \in existed
        BY <3>1 DEF IsRow
      <4>2. \A s : <<r.pid, s>> \in existed => s = r.start
        BY <3>2 DEF Reused
      <4>. QED  BY <4>1, <4>2
    <3>3. ASSUME ~Reused(r)
          PROVE  {r.rss, r.user, r.command, r.mask, r.status} \cup {r.handles, r.io}
                    \subseteq {r.start, NotRead}
      BY <3>2, <3>3
    <3>4. ASSUME <<r.pid, r.start>> \in throughout
          PROVE  /\ {r.rss, r.user, r.command, r.mask, r.status} = {r.start}
                 /\ {r.handles, r.io} = {Own(r)}
      BY <3>1, <3>4 DEF ReadUpTo
    <3>5. {Own(r)} = IF procs[r.pid].readable THEN {r.start} ELSE {NotRead}
      BY DEF Own
    <3>. QED  BY <3>3, <3>4, <3>5
  <2>. QED  BY <2>4, <2>5 DEF EnumerationTrue
<1>. QED  BY <1>1, EnumerationInvariant, PTL

(* The bytes of a socket are charged to one process, and to one that has had  *)
(* the socket since the call began, whoever shares it or takes it over.       *)
THEOREM SocketsAreCountedOnce == ProbeSpec => []SocketsCountedOnce
<1>1. EnumerationInv => SocketsCountedOnce
  <2> SUFFICES ASSUME EnumerationInv PROVE SocketsCountedOnce
    OBVIOUS
  <2>1. ASSUME NEW n \in DOMAIN processes, NEW i \in processes[n].net
        PROVE  inodeToPid[i] = processes[n].pid /\ <<i, processes[n].pid>> \in held
    BY DEF EnumerationInv, NetInv
  <2>2. ASSUME NEW r \in RowSet, NEW q \in RowSet, r # q
        PROVE  r.net \cap q.net = {}
    <3>1. PICK m \in DOMAIN processes : r = processes[m]
      BY DEF RowSet
    <3>2. PICK n \in DOMAIN processes : q = processes[n]
      BY DEF RowSet
    <3>3. processes[m].pid # processes[n].pid
      BY <2>2, <3>1, <3>2, PidsOfRows
    <3>. QED  BY <2>1, <3>1, <3>2, <3>3
  <2>3. ASSUME NEW r \in RowSet, NEW i \in r.net
        PROVE  <<i, r.pid>> \in held
    <3>1. PICK m \in DOMAIN processes : r = processes[m]
      BY DEF RowSet
    <3>. QED  BY <2>1, <3>1
  <2>. QED  BY <2>2, <2>3 DEF SocketsCountedOnce
<1>. QED  BY <1>1, EnumerationInvariant, PTL

------------------------------------------------------------------------------
(* LinuxSystemProbe.                                                       *)

Speeds0 == Speeds \cup {0}

(* Positions at which a reader is about an interface, has read the clock for  *)
(* it, and holds its speed.                                                   *)
About    == {"now", "check", "sysfs", "store", "got"}
Timed    == {"check", "sysfs", "store", "got"}

IfaceRecord == [up : BOOLEAN, speed : Speeds]
CacheEntry  == [linkSpeedMbps : Speeds0, wasUp : BOOLEAN, lastSpeedCheck : Nat]
ReaderState ==
    [pc : {"away", "next"} \cup About, todo : Seq(Ifaces), listed : SUBSET Ifaces,
     since : Nat, isUp : BOOLEAN, now : Nat, speed : Speeds0]

(* What sysfs had by second, the current one being the last.                  *)
LogInv ==
    /\ seconds \in Nat \ {0}
    /\ DOMAIN ifaces \subseteq Ifaces
    /\ \A n \in DOMAIN ifaces : ifaces[n] \in IfaceRecord
    /\ speedsIn \in Seq([Ifaces -> SUBSET Speeds0])
    /\ Len(speedsIn) = seconds
    /\ \A n \in Ifaces : Sysfs(ifaces, n) \in speedsIn[seconds][n]

(* An entry has a speed the interface had when it was stamped or later.       *)
CacheInv ==
    /\ DOMAIN m_InterfaceCache \subseteq Ifaces
    /\ \A n \in DOMAIN m_InterfaceCache :
          /\ m_InterfaceCache[n] \in CacheEntry
          /\ m_InterfaceCache[n].lastSpeedCheck \in 1 .. seconds
          /\ m_InterfaceCache[n].linkSpeedMbps
                \in HadBetween(n, m_InterfaceCache[n].lastSpeedCheck, seconds)

(* The first second of which a speed is not too old for a reader at now.      *)
Oldest(now) == IF now < SpeedTtl THEN 1 ELSE now - SpeedTtl + 1

(* A reader's times are in order, and its speed is one of sysfs as it is about *)
(* to store it, or one that is recent.                                        *)
ReaderInv(r) ==
    LET s == reader[r]
    IN  /\ s \in ReaderState
        /\ s.pc # "away" => r \in callers
        /\ s.pc \in About => s.todo # <<>> /\ s.since \in 1 .. seconds
        /\ s.pc \in Timed => s.now \in s.since .. seconds
        /\ s.pc = "store" => s.speed \in HadBetween(Head(s.todo), s.now, seconds)
        /\ s.pc = "got" => s.speed \in HadBetween(Head(s.todo), Oldest(s.now), seconds)

SpeedInv ==
    /\ LogInv
    /\ CacheInv
    /\ DOMAIN reader = Readers
    /\ callers \subseteq Readers
    /\ \A r \in Readers : ReaderInv(r)

-----------------------------------------------------------------------------
(* Lemmas.                                                                   *)

(* The names of a finite set in some order.                                  *)
LEMMA ListOf ==
    ASSUME NEW S, IsFiniteSet(S)
    PROVE  SetToSeq(S) \in Seq(S)
<1>1. PICK f : f \in Bijection(1..Cardinality(S), S)
  BY FS_CardinalityType DEF ExistsBijection
<1>2. f \in [1..Cardinality(S) -> S] /\ IsInjective(f)
  BY <1>1 DEF Bijection, Injection, IsInjective, Surjection
<1>3. SetToSeq(S) \in [1..Cardinality(S) -> S]
  BY <1>2 DEF SetToSeq
<1>. QED  BY <1>3, FS_CardinalityType

(* sysfs has a speed, or none, for every name.                               *)
LEMMA SysfsType ==
    ASSUME NEW now, NEW n, \A m \in DOMAIN now : now[m] \in IfaceRecord
    PROVE  Sysfs(now, n) \in Speeds0
  BY DEF Sysfs, IfaceRecord, Speeds0

(* Membership of HadBetween, without UNION.                                  *)
LEMMA HadMember ==
    ASSUME NEW n, NEW from, NEW to, NEW speed
    PROVE  speed \in HadBetween(n, from, to)
              <=> \E t \in from .. to : speed \in speedsIn[t][n]
  BY DEF HadBetween

(* A longer interval had every speed of a shorter one.                       *)
LEMMA HadWider ==
    ASSUME NEW n, NEW from \in Int, NEW to \in Int, NEW earlier \in Int,
           earlier <= from
    PROVE  HadBetween(n, from, to) \subseteq HadBetween(n, earlier, to)
<1> SUFFICES ASSUME NEW speed \in HadBetween(n, from, to)
             PROVE  speed \in HadBetween(n, earlier, to)
  OBVIOUS
<1>1. PICK t \in from .. to : speed \in speedsIn[t][n]
  BY HadMember
<1>2. t \in earlier .. to
  BY <1>1
<1>. QED  BY <1>1, <1>2, HadMember

(* What sysfs has now, it had between any second and now.                    *)
LEMMA HadNow ==
    ASSUME LogInv, NEW n \in Ifaces, NEW from \in 1 .. seconds
    PROVE  Sysfs(ifaces, n) \in HadBetween(n, from, seconds)
<1>1. seconds \in from .. seconds /\ Sysfs(ifaces, n) \in speedsIn[seconds][n]
  BY DEF LogInv
<1>. QED  BY <1>1, HadMember

-----------------------------------------------------------------------------
(* The log only grows.                                                       *)
Grows ==
    /\ seconds <= seconds'
    /\ \A n \in Ifaces : \A from \in Nat \ {0} :
          HadBetween(n, from, seconds) \subseteq HadBetween(n, from, seconds)'

LEMMA LogGrows ==
    ASSUME LogInv, seconds' \in Nat, seconds <= seconds',
           \A n \in Ifaces : \A t \in 1 .. seconds : speedsIn[t][n] \subseteq speedsIn'[t][n]
    PROVE  Grows
<1> SUFFICES ASSUME NEW n \in Ifaces, NEW from \in Nat \ {0},
                    NEW speed \in HadBetween(n, from, seconds)
             PROVE  speed \in HadBetween(n, from, seconds)'
  BY DEF Grows
<1>1. PICK t \in from .. seconds : speed \in speedsIn[t][n]
  BY HadMember
<1>2. t \in 1 .. seconds /\ t \in from .. seconds'
  BY <1>1 DEF LogInv
<1>3. speed \in speedsIn'[t][n]
  BY <1>1, <1>2
<1>. QED  BY <1>2, <1>3 DEF HadBetween

LEMMA LogStep ==
    ASSUME LogInv, [LinkNext]_linkVars
    PROVE  LogInv' /\ Grows
<1>1. CASE IfaceChange
  <2>1. /\ DOMAIN ifaces' \subseteq Ifaces
        /\ \A n \in DOMAIN ifaces' : ifaces'[n] \in IfaceRecord
    BY <1>1 DEF IfaceChange, LogInv, IfaceRecord
  <2>2. /\ seconds' = seconds
        /\ seconds \in DOMAIN speedsIn
        /\ speedsIn[seconds] \in [Ifaces -> SUBSET Speeds0]
        /\ seconds \in Nat \ {0}
    BY <1>1 DEF IfaceChange, LogInv
  <2> DEFINE last == [n \in Ifaces |-> speedsIn[seconds][n] \cup {Sysfs(ifaces', n)}]
  <2>3. speedsIn' = [speedsIn EXCEPT ![seconds] = last]
    BY <1>1 DEF IfaceChange
  <2>4. last \in [Ifaces -> SUBSET Speeds0]
    BY <2>1, <2>2, SysfsType
  <2>5. \A n \in Ifaces : /\ speedsIn[seconds][n] \subseteq last[n]
                          /\ Sysfs(ifaces', n) \in last[n]
    OBVIOUS
  <2> HIDE DEF last
  <2>6. /\ speedsIn' \in Seq([Ifaces -> SUBSET Speeds0])
        /\ Len(speedsIn') = seconds
        /\ speedsIn'[seconds] = last
        /\ \A t \in 1 .. seconds : t # seconds => speedsIn'[t] = speedsIn[t]
    BY <2>2, <2>3, <2>4 DEF LogInv
  <2>7. LogInv'
    BY <2>1, <2>2, <2>5, <2>6 DEF LogInv
  <2>8. \A n \in Ifaces : \A t \in 1 .. seconds : speedsIn[t][n] \subseteq speedsIn'[t][n]
    BY <2>5, <2>6
  <2>. QED  BY <2>2, <2>7, <2>8, LogGrows
<1>2. CASE SecondPasses
  <2>1. /\ seconds \in Nat \ {0}
        /\ seconds' = seconds + 1
        /\ ifaces' = ifaces
        /\ speedsIn' = Append(speedsIn, SpeedsNow(ifaces))
    BY <1>2 DEF SecondPasses, LogInv
  <2>2. /\ SpeedsNow(ifaces) \in [Ifaces -> SUBSET Speeds0]
        /\ \A n \in Ifaces : Sysfs(ifaces, n) \in SpeedsNow(ifaces)[n]
    BY SysfsType DEF LogInv, SpeedsNow
  <2>3. /\ speedsIn' \in Seq([Ifaces -> SUBSET Speeds0])
        /\ Len(speedsIn') = seconds'
        /\ speedsIn'[seconds'] = SpeedsNow(ifaces)
        /\ \A t \in 1 .. seconds : speedsIn'[t] = speedsIn[t]
    BY <2>1, <2>2 DEF LogInv
  <2>4. LogInv'
    BY <2>1, <2>2, <2>3 DEF LogInv
  <2>. QED  BY <2>1, <2>3, <2>4, LogGrows
<1>3. CASE UNCHANGED <<ifaces, seconds, speedsIn>>
  BY <1>3, LogGrows DEF LogInv
<1>. QED  BY <1>1, <1>2, <1>3
          DEF LinkNext, Read, OperState, ReadTime, CheckCache, ReadSysfs, StoreEntry,
              NextInterface, Cleanup, linkVars

-----------------------------------------------------------------------------
(* What is not touched stays right while the log grows.                      *)

LEMMA OldestIsFrom1 ==
    ASSUME NEW now \in Nat \ {0}
    PROVE  Oldest(now) \in 1 .. now
  BY SystemProbeAssumption DEF Oldest

LEMMA CacheKept ==
    ASSUME LogInv, LogInv', Grows, CacheInv, UNCHANGED m_InterfaceCache
    PROVE  CacheInv'
  BY DEF LogInv, Grows, CacheInv, CacheEntry

LEMMA HeadName ==
    ASSUME NEW names \in Seq(Ifaces), names # <<>>
    PROVE  Head(names) \in Ifaces /\ Tail(names) \in Seq(Ifaces)
  OBVIOUS

LEMMA ReaderKept ==
    ASSUME LogInv, LogInv', Grows, NEW r \in Readers, ReaderInv(r),
           UNCHANGED callers, reader'[r] = reader[r]
    PROVE  ReaderInv(r)'
<1> PICK s : s = reader[r]
  OBVIOUS
<1>1. /\ s \in ReaderState
      /\ s.pc # "away" => r \in callers
      /\ s.pc \in About => s.todo # <<>> /\ s.since \in 1 .. seconds
      /\ s.pc \in Timed => s.now \in s.since .. seconds
      /\ s.pc = "store" => s.speed \in HadBetween(Head(s.todo), s.now, seconds)
      /\ s.pc = "got" => s.speed \in HadBetween(Head(s.todo), Oldest(s.now), seconds)
  BY DEF ReaderInv
<1>2. seconds \in Nat /\ seconds' \in Nat /\ seconds <= seconds'
  BY DEF LogInv, Grows
<1>3. s.todo \in Seq(Ifaces) /\ s.since \in Nat /\ s.now \in Nat
  BY <1>1 DEF ReaderState
<1>4. ASSUME s.pc \in Timed
      PROVE  Head(s.todo) \in Ifaces /\ s.now \in Nat \ {0} /\ Oldest(s.now) \in Nat \ {0}
  <2>1. s.now \in Nat \ {0} /\ s.todo # <<>>
    BY <1>1, <1>2, <1>3, <1>4 DEF About, Timed
  <2>. QED  BY <1>3, <2>1, HeadName, OldestIsFrom1
<1>5. s.pc \in About => s.since \in 1 .. seconds'
  BY <1>1, <1>2
<1>6. s.pc \in Timed => s.now \in s.since .. seconds'
  BY <1>1, <1>2, <1>3
<1>7. s.pc = "store" => s.speed \in HadBetween(Head(s.todo), s.now, seconds)'
  BY <1>1, <1>4 DEF Grows, Timed
<1>8. s.pc = "got" => s.speed \in HadBetween(Head(s.todo), Oldest(s.now), seconds)'
  BY <1>1, <1>4 DEF Grows, Timed
<1>. QED  BY <1>1, <1>5, <1>6, <1>7, <1>8 DEF ReaderInv

-----------------------------------------------------------------------------
(* The steps of a reader: what they do to its state.                         *)

(* How ReaderInv reads with the state of the reader given, after a step that *)
(* leaves the log alone.                                                     *)
LEMMA ReaderNext ==
    ASSUME NEW r \in Readers, r \in callers, NEW s \in ReaderState,
           UNCHANGED <<callers, seconds, speedsIn>>, reader'[r] = s,
           s.pc \in About => s.todo # <<>> /\ s.since \in 1 .. seconds,
           s.pc \in Timed => s.now \in s.since .. seconds,
           s.pc = "store" => s.speed \in HadBetween(Head(s.todo), s.now, seconds),
           s.pc = "got" => s.speed \in HadBetween(Head(s.todo), Oldest(s.now), seconds)
    PROVE  ReaderInv(r)'
  BY DEF ReaderInv, HadBetween

LEMMA ListingStep ==
    ASSUME SpeedInv, NEW r \in Readers, Read(r) \/ NextInterface(r) \/ Cleanup(r)
    PROVE  ReaderInv(r)'
<1> USE DEF SpeedInv
<1>1. reader[r] \in ReaderState /\ (reader[r].pc # "away" => r \in callers)
  BY DEF ReaderInv
<1>2. Away \in ReaderState
  BY DEF Away, ReaderState, Speeds0
<1>3. ASSUME Read(r) PROVE ReaderInv(r)'
  <2>1. PICK names : names = SetToSeq(DOMAIN ifaces \ {"lo"})
    OBVIOUS
  <2>2. names \in Seq(Ifaces)
    <3>1. IsFiniteSet(DOMAIN ifaces \ {"lo"})
      BY SystemProbeAssumption, FS_Subset DEF LogInv
    <3>2. names \in Seq(DOMAIN ifaces \ {"lo"})
      BY <2>1, <3>1, ListOf
    <3>. QED  BY <3>2 DEF LogInv
  <2>3. PICK s : s = [Away EXCEPT !.pc = "next", !.todo = names, !.listed = ToSet(names)]
    OBVIOUS
  <2>4. s \in ReaderState /\ s.pc = "next"
    <3>1. ToSet(names) \subseteq Ifaces
      BY <2>2 DEF ToSet
    <3>. QED  BY <2>2, <2>3, <3>1 DEF Away, ReaderState, Speeds0
  <2>5. reader'[r] = s /\ r \in callers /\ UNCHANGED <<callers, seconds, speedsIn>>
    BY <1>3, <2>1, <2>3 DEF Read
  <2>. QED  BY <2>4, <2>5, ReaderNext DEF About, Timed
<1>4. ASSUME NextInterface(r) PROVE ReaderInv(r)'
  <2>1. PICK s : s = [Away EXCEPT !.pc = "next", !.todo = Tail(reader[r].todo),
                                  !.listed = reader[r].listed]
    OBVIOUS
  <2>2. reader[r].todo \in Seq(Ifaces) /\ reader[r].todo # <<>>
        /\ reader[r].listed \subseteq Ifaces
    BY <1>1, <1>4 DEF NextInterface, ReaderInv, ReaderState, About
  <2>3. s \in ReaderState /\ s.pc = "next"
    BY <2>1, <2>2, HeadName DEF Away, ReaderState, Speeds0
  <2>4. reader'[r] = s /\ r \in callers /\ UNCHANGED <<callers, seconds, speedsIn>>
    BY <1>1, <1>4, <2>1 DEF NextInterface
  <2>. QED  BY <2>3, <2>4, ReaderNext DEF About, Timed
<1>5. ASSUME Cleanup(r) PROVE ReaderInv(r)'
  <2>1. /\ reader'[r] = Away /\ Away.pc = "away" /\ r \in callers
        /\ UNCHANGED <<callers, seconds, speedsIn>>
    BY <1>1, <1>5 DEF Cleanup, Away
  <2>. QED  BY <1>2, <2>1, ReaderNext DEF About, Timed
<1>. QED  BY <1>3, <1>4, <1>5

LEMMA LookingStep ==
    ASSUME SpeedInv, NEW r \in Readers, OperState(r) \/ ReadTime(r) \/ ReadSysfs(r)
    PROVE  ReaderInv(r)'
<1> USE DEF SpeedInv
<1> PICK old : old = reader[r]
  OBVIOUS
<1>1. /\ old \in ReaderState
      /\ old.pc # "away" => r \in callers
      /\ old.pc \in About => old.todo # <<>> /\ old.since \in 1 .. seconds
      /\ old.pc \in Timed => old.now \in old.since .. seconds
  BY DEF ReaderInv
<1>2. seconds \in Nat \ {0}
  BY DEF LogInv
<1>3. ASSUME OperState(r) PROVE ReaderInv(r)'
  <2>1. PICK isUp : isUp = (Head(old.todo) \in DOMAIN ifaces /\ ifaces[Head(old.todo)].up)
    OBVIOUS
  <2>2. isUp \in BOOLEAN
    BY <2>1 DEF LogInv, IfaceRecord
  <2>3. PICK s : s = [old EXCEPT !.pc = "now", !.since = seconds, !.isUp = isUp]
    OBVIOUS
  <2>4. s \in ReaderState /\ s.pc = "now" /\ s.todo = old.todo /\ s.since = seconds
    BY <1>1, <1>2, <2>2, <2>3 DEF ReaderState, About
  <2>5. reader'[r] = s /\ r \in callers /\ old.todo # <<>>
        /\ UNCHANGED <<callers, seconds, speedsIn>>
    BY <1>1, <1>3, <2>1, <2>3 DEF OperState
  <2>. QED  BY <1>2, <2>4, <2>5, ReaderNext DEF About, Timed
<1>4. ASSUME ReadTime(r) PROVE ReaderInv(r)'
  <2>1. PICK s : s = [old EXCEPT !.pc = "check", !.now = seconds]
    OBVIOUS
  <2>2. s \in ReaderState /\ s.pc = "check" /\ s.todo = old.todo /\ s.since = old.since
        /\ s.now = seconds
    BY <1>1, <1>2, <2>1 DEF ReaderState, About
  <2>3. reader'[r] = s /\ old.pc = "now" /\ r \in callers
        /\ UNCHANGED <<callers, seconds, speedsIn>>
    BY <1>1, <1>4, <2>1 DEF ReadTime
  <2>4. old.todo # <<>> /\ old.since \in 1 .. seconds /\ seconds \in old.since .. seconds
    BY <1>1, <1>2, <2>3 DEF About
  <2>. QED  BY <2>2, <2>3, <2>4, ReaderNext DEF About, Timed
<1>5. ASSUME ReadSysfs(r) PROVE ReaderInv(r)'
  <2>1. PICK s : s = [old EXCEPT !.pc = "store", !.speed = Sysfs(ifaces, Head(old.todo))]
    OBVIOUS
  <2>2. Sysfs(ifaces, Head(old.todo)) \in Speeds0
    BY SysfsType DEF LogInv
  <2>3. s \in ReaderState /\ s.pc = "store" /\ s.todo = old.todo /\ s.since = old.since
        /\ s.now = old.now /\ s.speed = Sysfs(ifaces, Head(old.todo))
    BY <1>1, <2>1, <2>2 DEF ReaderState, About
  <2>4. reader'[r] = s /\ old.pc = "sysfs" /\ r \in callers
        /\ UNCHANGED <<callers, seconds, speedsIn>>
    BY <1>1, <1>5, <2>1 DEF ReadSysfs
  <2>5. old.todo # <<>> /\ old.since \in 1 .. seconds /\ old.now \in old.since .. seconds
    BY <1>1, <2>4 DEF About, Timed
  <2>6. Head(old.todo) \in Ifaces /\ old.now \in 1 .. seconds
    BY <1>1, <1>2, <2>5, HeadName DEF ReaderState
  <2>7. s.speed \in HadBetween(Head(s.todo), s.now, seconds)
    BY <2>3, <2>6, HadNow
  <2>. QED  BY <2>3, <2>4, <2>5, <2>7, ReaderNext DEF About, Timed
<1>. QED  BY <1>3, <1>4, <1>5

-----------------------------------------------------------------------------
(* The steps of a reader at the cache.                                       *)

(* A hit: the entry is not older than the time to live, whoever stored it.   *)
LEMMA CheckStep ==
    ASSUME SpeedInv, NEW r \in Readers, CheckCache(r)
    PROVE  CacheInv' /\ ReaderInv(r)'
<1> USE DEF SpeedInv
<1> PICK old : old = reader[r]
  OBVIOUS
<1> PICK n : n = Head(old.todo)
  OBVIOUS
<1>1. /\ old \in ReaderState
      /\ old.pc = "check"
      /\ r \in callers
      /\ old.todo # <<>> /\ old.since \in 1 .. seconds
      /\ old.now \in old.since .. seconds
  BY DEF CheckCache, ReaderInv, About, Timed
<1>2. seconds \in Nat \ {0} /\ UNCHANGED <<ifaces, callers, seconds, speedsIn>>
  BY DEF LogInv, CheckCache
<1>3. ASSUME n \in DOMAIN m_InterfaceCache,
             old.now - m_InterfaceCache[n].lastSpeedCheck < SpeedTtl,
             m_InterfaceCache' = [m_InterfaceCache EXCEPT ![n] = Hit(@, old.isUp)],
             reader' = [reader EXCEPT ![r] = Got(r, m_InterfaceCache[n].linkSpeedMbps)]
      PROVE  CacheInv' /\ ReaderInv(r)'
  <2>1. PICK entry : entry = m_InterfaceCache[n]
    OBVIOUS
  <2>2. /\ entry \in CacheEntry
        /\ entry.lastSpeedCheck \in 1 .. seconds
        /\ entry.linkSpeedMbps \in HadBetween(n, entry.lastSpeedCheck, seconds)
    BY <1>3, <2>1 DEF CacheInv
  <2>3. PICK new : new = Hit(entry, old.isUp)
    OBVIOUS
  <2>4. /\ new \in CacheEntry
        /\ new.lastSpeedCheck = entry.lastSpeedCheck
        /\ new.linkSpeedMbps = entry.linkSpeedMbps
    BY <1>1, <2>2, <2>3 DEF Hit, CacheEntry, ReaderState
  <2>5. /\ DOMAIN m_InterfaceCache' = DOMAIN m_InterfaceCache
        /\ m_InterfaceCache'[n] = new
        /\ \A m \in DOMAIN m_InterfaceCache : m # n => m_InterfaceCache'[m] = m_InterfaceCache[m]
    BY <1>3, <2>1, <2>3
  <2>6. CacheInv'
    BY <1>2, <2>2, <2>4, <2>5 DEF CacheInv, HadBetween
  <2>7. PICK s : s = [old EXCEPT !.pc = "got", !.speed = entry.linkSpeedMbps]
    OBVIOUS
  <2>8. /\ s \in ReaderState
        /\ s.pc = "got" /\ s.todo = old.todo /\ s.since = old.since
        /\ s.now = old.now /\ s.speed = entry.linkSpeedMbps
    BY <1>1, <2>2, <2>7 DEF ReaderState, CacheEntry, About
  <2>9. reader'[r] = s
    BY <1>3, <2>1, <2>7 DEF Got
  <2>10. Oldest(old.now) <= entry.lastSpeedCheck /\ Oldest(old.now) \in Int
    <3>1. old.now \in Nat /\ entry.lastSpeedCheck \in Nat /\ entry.lastSpeedCheck >= 1
      BY <1>1, <1>2, <2>2
    <3>2. old.now - entry.lastSpeedCheck < SpeedTtl /\ SpeedTtl \in Nat
      BY <1>3, <2>1, SystemProbeAssumption
    <3>. QED  BY <3>1, <3>2 DEF Oldest
  <2>11. s.speed \in HadBetween(Head(s.todo), Oldest(s.now), seconds)
    <3>1. entry.lastSpeedCheck \in Int /\ seconds \in Int
      BY <1>2, <2>2
    <3>2. HadBetween(n, entry.lastSpeedCheck, seconds)
            \subseteq HadBetween(n, Oldest(old.now), seconds)
      BY <2>10, <3>1, HadWider
    <3>. QED  BY <2>2, <2>8, <3>2
  <2>12. ReaderInv(r)'
    BY <1>1, <1>2, <2>8, <2>9, <2>11, ReaderNext DEF About, Timed
  <2>. QED  BY <2>6, <2>12
<1>4. ASSUME reader' = [reader EXCEPT ![r] = [old EXCEPT !.pc = "sysfs"]],
             UNCHANGED m_InterfaceCache
      PROVE  CacheInv' /\ ReaderInv(r)'
  <2>1. PICK s : s = [old EXCEPT !.pc = "sysfs"]
    OBVIOUS
  <2>2. /\ s \in ReaderState
        /\ s.pc = "sysfs" /\ s.todo = old.todo /\ s.since = old.since /\ s.now = old.now
    BY <1>1, <2>1 DEF ReaderState, About
  <2>3. reader'[r] = s
    BY <1>4, <2>1
  <2>4. ReaderInv(r)'
    BY <1>1, <1>2, <2>2, <2>3, ReaderNext DEF About, Timed
  <2>5. CacheInv'
    BY <1>2, <1>4 DEF CacheInv, HadBetween
  <2>. QED  BY <2>4, <2>5
<1>. QED  BY <1>3, <1>4 DEF CheckCache

LEMMA StoreStep ==
    ASSUME SpeedInv, NEW r \in Readers, StoreEntry(r)
    PROVE  CacheInv' /\ ReaderInv(r)'
<1> USE DEF SpeedInv
<1> PICK old : old = reader[r]
  OBVIOUS
<1> PICK n : n = Head(old.todo)
  OBVIOUS
<1>1. /\ old \in ReaderState
      /\ old.pc = "store"
      /\ r \in callers
      /\ old.todo # <<>> /\ old.since \in 1 .. seconds
      /\ old.now \in old.since .. seconds
      /\ old.speed \in HadBetween(n, old.now, seconds)
  BY DEF StoreEntry, ReaderInv, About, Timed
<1>2. seconds \in Nat \ {0} /\ UNCHANGED <<ifaces, callers, seconds, speedsIn>>
  BY DEF LogInv, StoreEntry
<1>3. n \in Ifaces /\ old.now \in Nat \ {0} /\ old.now \in 1 .. seconds
  BY <1>1, <1>2, HeadName DEF ReaderState
<1>4. PICK entry : entry = [linkSpeedMbps |-> old.speed, wasUp |-> old.isUp,
                            lastSpeedCheck |-> old.now]
  OBVIOUS
<1>5. /\ entry \in CacheEntry
      /\ entry.lastSpeedCheck = old.now /\ entry.linkSpeedMbps = old.speed
  BY <1>1, <1>4 DEF CacheEntry, ReaderState
<1>6. /\ DOMAIN m_InterfaceCache' = DOMAIN m_InterfaceCache \cup {n}
      /\ m_InterfaceCache'[n] = entry
      /\ \A m \in DOMAIN m_InterfaceCache : m # n => m_InterfaceCache'[m] = m_InterfaceCache[m]
  BY <1>4 DEF StoreEntry, Stamped
<1>7. CacheInv'
  BY <1>1, <1>2, <1>3, <1>5, <1>6 DEF CacheInv, HadBetween
<1>8. PICK s : s = [old EXCEPT !.pc = "got", !.speed = old.speed]
  OBVIOUS
<1>9. /\ s \in ReaderState
      /\ s.pc = "got" /\ s.todo = old.todo /\ s.since = old.since
      /\ s.now = old.now /\ s.speed = old.speed
  BY <1>1, <1>8 DEF ReaderState, About
<1>10. reader'[r] = s
  BY <1>8 DEF StoreEntry, Got
<1>11. s.speed \in HadBetween(Head(s.todo), Oldest(s.now), seconds)
  <2>1. Oldest(old.now) \in Int /\ Oldest(old.now) <= old.now
    BY <1>3, OldestIsFrom1
  <2>2. HadBetween(n, old.now, seconds) \subseteq HadBetween(n, Oldest(old.now), seconds)
    BY <1>2, <1>3, <2>1, HadWider
  <2>. QED  BY <1>1, <1>9, <2>2
<1>12. ReaderInv(r)'
  BY <1>1, <1>2, <1>9, <1>10, <1>11, ReaderNext DEF About, Timed
<1>. QED  BY <1>7, <1>12

-----------------------------------------------------------------------------

ReaderStep(r) ==
    \/ Read(r) \/ OperState(r) \/ ReadTime(r) \/ CheckCache(r) \/ ReadSysfs(r)
    \/ StoreEntry(r) \/ NextInterface(r) \/ Cleanup(r)

LEMMA OthersWait ==
    ASSUME DOMAIN reader = Readers, NEW r \in Readers, ReaderStep(r)
    PROVE  /\ \A u \in Readers \ {r} : reader'[u] = reader[u]
           /\ DOMAIN reader' = Readers
           /\ UNCHANGED <<callers, ifaces, seconds, speedsIn>>
  BY DEF ReaderStep, Read, OperState, ReadTime, CheckCache, ReadSysfs, StoreEntry,
         NextInterface, Cleanup

LEMMA SpeedStep ==
    ASSUME SpeedInv, [LinkNext]_linkVars
    PROVE  SpeedInv' /\ Grows
<1>1. LogInv' /\ Grows
  BY LogStep DEF SpeedInv
<1>2. ASSUME UNCHANGED <<callers, m_InterfaceCache, reader>> PROVE SpeedInv'
  BY <1>1, <1>2, CacheKept, ReaderKept DEF SpeedInv
<1>3. ASSUME NEW r \in Readers, ReaderStep(r) PROVE SpeedInv'
  <2>1. CacheInv'
    <3>1. CASE UNCHANGED m_InterfaceCache
      BY <1>1, <3>1, CacheKept DEF SpeedInv
    <3>2. CASE CheckCache(r) \/ StoreEntry(r)
      BY <3>2, CheckStep, StoreStep
    <3>3. CASE Cleanup(r)
      <4>1. /\ UNCHANGED <<seconds, speedsIn>>
            /\ DOMAIN m_InterfaceCache' \subseteq DOMAIN m_InterfaceCache
            /\ \A n \in DOMAIN m_InterfaceCache' : m_InterfaceCache'[n] = m_InterfaceCache[n]
        BY <3>3 DEF Cleanup
      <4>. QED  BY <4>1 DEF SpeedInv, CacheInv, HadBetween
    <3>. QED  BY <1>3, <3>1, <3>2, <3>3
              DEF ReaderStep, Read, OperState, ReadTime, ReadSysfs, NextInterface
  <2>2. ReaderInv(r)'
    BY <1>3, ListingStep, LookingStep, CheckStep, StoreStep DEF ReaderStep
  <2>3. /\ \A u \in Readers \ {r} : reader'[u] = reader[u]
        /\ DOMAIN reader' = Readers
        /\ UNCHANGED callers
    BY <1>3, OthersWait DEF SpeedInv
  <2>4. \A u \in Readers \ {r} : ReaderInv(u)'
    BY <1>1, <2>3, ReaderKept DEF SpeedInv
  <2>. QED  BY <1>1, <2>1, <2>2, <2>3, <2>4 DEF SpeedInv
<1>. QED  BY <1>1, <1>2, <1>3
          DEF LinkNext, IfaceChange, SecondPasses, ReaderStep, linkVars

LEMMA SpeedInvariant == LinkSpec => []SpeedInv
<1>1. LinkInit => SpeedInv
  <2> SUFFICES ASSUME LinkInit PROVE SpeedInv
    OBVIOUS
  <2>1. LogInv
    <3>1. /\ seconds = 1 /\ DOMAIN ifaces = Ifaces
          /\ \A n \in DOMAIN ifaces : ifaces[n] \in IfaceRecord
          /\ speedsIn = <<SpeedsNow(ifaces)>>
      BY DEF LinkInit, IfaceRecord
    <3>2. /\ SpeedsNow(ifaces) \in [Ifaces -> SUBSET Speeds0]
          /\ \A n \in Ifaces : Sysfs(ifaces, n) \in SpeedsNow(ifaces)[n]
      BY <3>1, SysfsType DEF SpeedsNow
    <3>. QED  BY <3>1, <3>2 DEF LogInv
  <2>2. CacheInv
    BY DEF LinkInit, NoEntries, CacheInv
  <2>3. Away \in ReaderState /\ Away.pc = "away"
    BY DEF Away, ReaderState, Speeds0
  <2>4. DOMAIN reader = Readers /\ \A r \in Readers : reader[r] = Away
    BY DEF LinkInit
  <2>5. \A r \in Readers : ReaderInv(r)
    BY <2>3, <2>4 DEF ReaderInv, About, Timed
  <2>6. callers \subseteq Readers
    BY DEF LinkInit
  <2>. QED  BY <2>1, <2>2, <2>4, <2>5, <2>6 DEF SpeedInv
<1>2. SpeedInv /\ [LinkNext]_linkVars => SpeedInv'
  BY SpeedStep
<1>. QED  BY <1>1, <1>2, PTL DEF LinkSpec

(* The speed a read gets is one the interface had within the time to live of  *)
(* the cache, for any number of readers: sysfs is read after the clock an     *)
(* entry is stamped with, so an entry is never older than it says.            *)
THEOREM SpeedAlwaysRecent == LinkSpec => []SpeedRecent
<1>1. SpeedInv => SpeedRecent
  BY DEF SpeedInv, ReaderInv, SpeedRecent, Oldest
<1>. QED  BY <1>1, SpeedInvariant, PTL

-----------------------------------------------------------------------------
(* One reader: interfaces that come back.                                    *)

(* An interface that was not up when last looked at has no entry to hit: only *)
(* between the store and NextInterface may the entry be ahead of lastSeen.    *)
EntriesSeen(r) ==
    \A n \in DOMAIN m_InterfaceCache \ lastSeen :
        m_InterfaceCache[n].wasUp => reader[r].pc = "got" /\ n = Head(reader[r].todo)

(* What a reader holds an answer for has an entry, of the state it saw.       *)
EntryOfAnswer(r) ==
    reader[r].pc = "got" =>
        LET n == Head(reader[r].todo)
        IN  /\ n \in DOMAIN m_InterfaceCache
            /\ m_InterfaceCache[n].wasUp = reader[r].isUp

FreshAfterReplug(r) ==
    (reader[r].pc = "got" /\ reader[r].isUp /\ Head(reader[r].todo) \notin lastSeen) =>
        reader[r].speed \in HadBetween(Head(reader[r].todo), reader[r].since, seconds)

SoleInv(r) ==
    callers = {r} => EntriesSeen(r) /\ EntryOfAnswer(r) /\ FreshAfterReplug(r)

(* Away from the cache and from answers nothing changes for it.              *)
LEMMA SoleQuiet ==
    ASSUME NEW r \in Readers, SoleInv(r), UNCHANGED <<callers, m_InterfaceCache, lastSeen>>,
           reader[r].pc # "got", reader'[r].pc # "got"
    PROVE  SoleInv(r)'
  BY DEF SoleInv, EntriesSeen, EntryOfAnswer, FreshAfterReplug

LEMMA SoleKept ==
    ASSUME SpeedInv, Grows, NEW r \in Readers, SoleInv(r),
           UNCHANGED <<callers, m_InterfaceCache, reader, lastSeen>>
    PROVE  SoleInv(r)'
<1> SUFFICES ASSUME FreshAfterReplug(r), reader[r].pc = "got"
             PROVE  FreshAfterReplug(r)'
  BY DEF SoleInv, EntriesSeen, EntryOfAnswer, FreshAfterReplug
<1>1. /\ reader[r] \in ReaderState
      /\ reader[r].todo # <<>> /\ reader[r].since \in 1 .. seconds
  BY DEF SpeedInv, ReaderInv, About
<1>2. Head(reader[r].todo) \in Ifaces /\ reader[r].since \in Nat \ {0}
  BY <1>1, HeadName DEF ReaderState
<1>. QED  BY <1>2 DEF FreshAfterReplug, Grows

LEMMA SoleCheck ==
    ASSUME SpeedInv, NEW r \in Readers, SoleInv(r), CheckCache(r)
    PROVE  SoleInv(r)'
<1> PICK old : old = reader[r]
  OBVIOUS
<1> PICK n : n = Head(old.todo)
  OBVIOUS
<1>1. /\ old \in ReaderState
      /\ old.pc = "check"
      /\ DOMAIN reader = Readers
      /\ UNCHANGED <<callers, lastSeen>>
  BY DEF CheckCache, SpeedInv, ReaderInv
<1>2. ASSUME n \in DOMAIN m_InterfaceCache,
             m_InterfaceCache[n].wasUp \/ ~old.isUp,
             m_InterfaceCache' = [m_InterfaceCache EXCEPT ![n] = Hit(@, old.isUp)],
             reader' = [reader EXCEPT ![r] = Got(r, m_InterfaceCache[n].linkSpeedMbps)]
      PROVE  SoleInv(r)'
  <2>1. PICK s : s = [old EXCEPT !.pc = "got", !.speed = m_InterfaceCache[n].linkSpeedMbps]
    OBVIOUS
  <2>2. s.pc = "got" /\ s.todo = old.todo /\ s.isUp = old.isUp
    BY <1>1, <2>1 DEF ReaderState
  <2>3. reader'[r] = s
    BY <1>1, <1>2, <2>1 DEF Got
  <2>4. m_InterfaceCache[n] \in CacheEntry
    BY <1>2 DEF SpeedInv, CacheInv
  <2>5. Hit(m_InterfaceCache[n], old.isUp).wasUp = old.isUp
    BY <2>4 DEF Hit, CacheEntry
  <2>6. /\ DOMAIN m_InterfaceCache' = DOMAIN m_InterfaceCache
        /\ m_InterfaceCache'[n].wasUp = old.isUp
        /\ \A m \in DOMAIN m_InterfaceCache : m # n => m_InterfaceCache'[m] = m_InterfaceCache[m]
    BY <1>2, <2>5
  <2>7. ASSUME callers = {r}
        PROVE  /\ \A m \in DOMAIN m_InterfaceCache \ lastSeen : ~m_InterfaceCache[m].wasUp
               /\ n \notin lastSeen => ~old.isUp
    BY <1>1, <1>2, <2>7 DEF SoleInv, EntriesSeen
  <2>. QED  BY <1>1, <1>2, <2>2, <2>3, <2>6, <2>7
            DEF SoleInv, EntriesSeen, EntryOfAnswer, FreshAfterReplug
<1>3. ASSUME reader' = [reader EXCEPT ![r] = [old EXCEPT !.pc = "sysfs"]],
             UNCHANGED m_InterfaceCache
      PROVE  SoleInv(r)'
  <2>1. PICK s : s = [old EXCEPT !.pc = "sysfs"]
    OBVIOUS
  <2>2. s.pc = "sysfs" /\ reader'[r] = s
    BY <1>1, <1>3, <2>1 DEF ReaderState
  <2>. QED  BY <1>1, <1>3, <2>2, SoleQuiet
<1>. QED  BY <1>2, <1>3 DEF CheckCache

LEMMA SoleStore ==
    ASSUME SpeedInv, NEW r \in Readers, SoleInv(r), StoreEntry(r)
    PROVE  SoleInv(r)'
<1> PICK old : old = reader[r]
  OBVIOUS
<1> PICK n : n = Head(old.todo)
  OBVIOUS
<1>1. /\ old \in ReaderState
      /\ old.pc = "store"
      /\ old.since \in 1 .. seconds
      /\ old.now \in old.since .. seconds
      /\ old.speed \in HadBetween(n, old.now, seconds)
      /\ seconds \in Nat
      /\ DOMAIN reader = Readers
      /\ UNCHANGED <<callers, lastSeen, seconds, speedsIn>>
  BY DEF StoreEntry, SpeedInv, LogInv, ReaderInv, About, Timed
<1>2. PICK s : s = [old EXCEPT !.pc = "got", !.speed = old.speed]
  OBVIOUS
<1>3. /\ s.pc = "got" /\ s.todo = old.todo /\ s.isUp = old.isUp
      /\ s.since = old.since /\ s.speed = old.speed
  BY <1>1, <1>2 DEF ReaderState
<1>4. reader'[r] = s
  BY <1>1, <1>2 DEF StoreEntry, Got
<1>5. /\ DOMAIN m_InterfaceCache' = DOMAIN m_InterfaceCache \cup {n}
      /\ m_InterfaceCache'[n].wasUp = old.isUp
      /\ \A m \in DOMAIN m_InterfaceCache : m # n => m_InterfaceCache'[m] = m_InterfaceCache[m]
  BY DEF StoreEntry
<1>6. callers = {r} =>
        \A m \in DOMAIN m_InterfaceCache \ lastSeen : ~m_InterfaceCache[m].wasUp
  BY <1>1 DEF SoleInv, EntriesSeen
<1>7. old.speed \in HadBetween(n, old.since, seconds)
  <2>1. old.since \in Int /\ old.now \in Int /\ old.since <= old.now
    BY <1>1
  <2>2. HadBetween(n, old.now, seconds) \subseteq HadBetween(n, old.since, seconds)
    BY <1>1, <2>1, HadWider
  <2>. QED  BY <1>1, <2>2
<1>8. old.speed \in HadBetween(n, old.since, seconds)'
  BY <1>1, <1>7 DEF HadBetween
<1>. QED  BY <1>1, <1>3, <1>4, <1>5, <1>6, <1>8
          DEF SoleInv, EntriesSeen, EntryOfAnswer, FreshAfterReplug

LEMMA SoleNextInterface ==
    ASSUME SpeedInv, NEW r \in Readers, SoleInv(r), NextInterface(r)
    PROVE  SoleInv(r)'
<1> PICK n : n = Head(reader[r].todo)
  OBVIOUS
<1>1. /\ reader[r].pc = "got"
      /\ lastSeen' = IF reader[r].isUp THEN lastSeen \cup {n} ELSE lastSeen \ {n}
      /\ UNCHANGED <<callers, m_InterfaceCache>>
  BY DEF NextInterface
<1>2. reader'[r].pc = "next"
  BY DEF NextInterface, SpeedInv, Away
<1>3. ASSUME callers = {r}, NEW m \in DOMAIN m_InterfaceCache \ lastSeen'
      PROVE  ~m_InterfaceCache[m].wasUp
  <2>1. CASE m = n
    BY <1>1, <1>3, <2>1 DEF SoleInv, EntryOfAnswer
  <2>2. CASE m # n
    BY <1>1, <1>3, <2>2 DEF SoleInv, EntriesSeen
  <2>. QED  BY <2>1, <2>2
<1>. QED  BY <1>1, <1>2, <1>3 DEF SoleInv, EntriesSeen, EntryOfAnswer, FreshAfterReplug

LEMMA SoleStep ==
    ASSUME SpeedInv, [LinkNext]_linkVars, NEW r \in Readers, SoleInv(r)
    PROVE  SoleInv(r)'
<1>1. DOMAIN reader = Readers
  BY DEF SpeedInv
<1>2. ASSUME UNCHANGED <<callers, m_InterfaceCache, reader, lastSeen>> PROVE SoleInv(r)'
  BY <1>2, SpeedStep, SoleKept
<1>3. ASSUME ReaderStep(r) PROVE SoleInv(r)'
  <2>1. CASE Read(r) \/ OperState(r) \/ ReadTime(r) \/ ReadSysfs(r)
    <3>1. reader[r] \in ReaderState
      BY DEF SpeedInv, ReaderInv
    <3>2. reader[r].pc # "got" /\ UNCHANGED <<callers, m_InterfaceCache, lastSeen>>
      BY <2>1 DEF Read, OperState, ReadTime, ReadSysfs, Away
    <3>3. reader'[r].pc # "got"
      BY <1>1, <2>1, <3>1 DEF Read, OperState, ReadTime, ReadSysfs, Away, ReaderState
    <3>. QED  BY <3>2, <3>3, SoleQuiet
  <2>2. CASE Cleanup(r)
    <3>1. /\ reader[r].pc = "next" /\ reader'[r].pc = "away"
          /\ m_InterfaceCache' = [n \in DOMAIN m_InterfaceCache \cap reader[r].listed |->
                                     m_InterfaceCache[n]]
          /\ lastSeen' = lastSeen \cap reader[r].listed
          /\ UNCHANGED callers
      BY <1>1, <2>2 DEF Cleanup, Away
    <3>. QED  BY <3>1 DEF SoleInv, EntriesSeen, EntryOfAnswer, FreshAfterReplug
  <2>. QED  BY <1>3, <2>1, <2>2, SoleCheck, SoleStore, SoleNextInterface DEF ReaderStep
<1>4. ASSUME NEW u \in Readers \ {r}, ReaderStep(u) PROVE SoleInv(r)'
  <2>1. u \in callers
    <3>1. CASE Read(u)
      BY <3>1 DEF Read
    <3>2. CASE reader[u].pc # "away"
      BY <3>2 DEF SpeedInv, ReaderInv
    <3>. QED  BY <1>4, <3>1, <3>2
              DEF ReaderStep, OperState, ReadTime, CheckCache, ReadSysfs, StoreEntry,
                  NextInterface, Cleanup
  <2>2. callers' = callers
    BY <1>1, <1>4, OthersWait
  <2>. QED  BY <2>1, <2>2 DEF SoleInv
<1>. QED  BY <1>2, <1>3, <1>4
          DEF LinkNext, IfaceChange, SecondPasses, ReaderStep, linkVars

(* What getInterfaceLinkSpeed returns is recent, and as long as one thread    *)
(* uses the probe it is no older than this read for an interface that comes   *)
(* up or back, for any interfaces, events, time to live and interleaving.     *)
THEOREM LinkSpeedAlwaysTrue == LinkSpec => []LinkSpeedTrue
<1> DEFINE SolesInv == \A r \in Readers : SoleInv(r)
<1>1. LinkInit => SolesInv
  BY DEF LinkInit, NoEntries, Away, SoleInv, EntriesSeen, EntryOfAnswer, FreshAfterReplug
<1>2. SpeedInv /\ SolesInv /\ [LinkNext]_linkVars => SolesInv'
  BY SoleStep
<1>3. SpeedInv /\ SolesInv => ReplugSeen
  <2> SUFFICES ASSUME SpeedInv, SolesInv, Cardinality(callers) = 1, NEW r \in callers,
                      reader[r].pc = "got", reader[r].isUp,
                      Head(reader[r].todo) \notin lastSeen
               PROVE  reader[r].speed
                         \in HadBetween(Head(reader[r].todo), reader[r].since, seconds)
    BY DEF ReplugSeen
  <2>1. IsFiniteSet(callers)
    BY SystemProbeAssumption, FS_Subset DEF SpeedInv
  <2>2. callers = {r} /\ r \in Readers
    BY <2>1, FS_Singleton DEF SpeedInv
  <2>. QED  BY <2>2 DEF SoleInv, FreshAfterReplug
<1> HIDE DEF SolesInv
<1>. QED  BY <1>1, <1>2, <1>3, SpeedInvariant, SpeedAlwaysRecent, PTL
          DEF LinkSpec, LinkSpeedTrue
==============================================================================

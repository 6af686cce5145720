-------------------------- MODULE NetlinkSocketStats --------------------------
(* Platform::NetlinkSocketStats (src/src/Platform/Linux): the bytes of every  *)
(* socket, asked of the kernel in four dumps over one netlink socket and      *)
(* cached.  A call holds m_SocketMutex throughout, so calls come one after    *)
(* another; the kernel's traffic, and time, go on between its steps.          *)
EXTENDS Integers, Sequences, FiniteSets

CONSTANTS
    Sockets,        \* sockets, by inode; 0 is one that no process has any more
    Dump(_),        \* TCP over IPv4 and IPv6 are 1 and 2, UDP 3 and 4
    Unsupported,    \* dumps the kernel has no handler for
    CacheTtl,       \* m_CacheTtl
    MaxTime,        \* bound: the clock
    MaxBytes,       \* bound: of a socket
    MaxFailures     \* bound: sends and receives that fail

ASSUME NetlinkAssumption ==
    /\ CacheTtl \in Nat /\ MaxTime \in Nat /\ MaxBytes \in Nat /\ MaxFailures \in Nat
    /\ IsFiniteSet(Sockets) /\ \A s \in Sockets : Dump(s) \in (1..4) \ Unsupported

VARIABLES
    netClock,           \* steady_clock
    bytes,              \* of each socket
    queue,              \* datagrams the kernel has sent that are not yet received
    dump,               \* sockets the dump in progress still has to report, {} if none is
    m_Available,
    m_LastQueryTime,
    m_CachedResults,    \* sequence of [inode, bytes]
    call,               \* the call in progress
    answer,             \* what the last call returned, and the time it read
    failures,           \* history variable
    bytesAt             \* history variable: bytes when each time began

netKernel == <<netClock, bytes, bytesAt>>
netCache == <<m_Available, m_LastQueryTime, m_CachedResults>>
netVars == <<netKernel, queue, dump, netCache, call, answer, failures>>

Idle == [of |-> "none"]
Never == 0              \* steady_clock::time_point{}
NoAnswer == [at |-> 0, results |-> <<>>]

(* A call sets out to query the kernel from the first dump. *)
Query(of, results) == [of |-> of, step |-> "send", d |-> 1, now |-> netClock, results |-> results]

(* The constructor has made the socket, or failed to; it begins with a query. *)
NetlinkInit ==
    /\ netClock = 1
    /\ bytes = [s \in Sockets |-> 0]
    /\ queue = <<>> /\ dump = {}
    /\ m_Available \in BOOLEAN
    /\ m_LastQueryTime = Never /\ m_CachedResults = <<>>
    /\ call = IF m_Available THEN Query("warm-up", <<>>) ELSE Idle
    /\ answer = NoAnswer
    /\ failures = 0
    /\ bytesAt = <<bytes>>
-----------------------------------------------------------------------------
(* Faulty variants of operators below.                                       *)

(* A reply that reports an error does not end the query. *)
EndedByDone(type) == type = "NLMSG_DONE"
(* m_CachedResults is not cleared. *)
KeptResults(results) == results
-----------------------------------------------------------------------------
(* The kernel.  A datagram is a sequence of messages.                        *)

Traffic ==
    /\ \E s \in Sockets \ {0} :
          /\ bytes[s] < MaxBytes
          /\ bytes' = [bytes EXCEPT ![s] = @ + 1]
    /\ UNCHANGED <<netClock, bytesAt, queue, dump, netCache, call, answer, failures>>

TimePasses ==
    /\ netClock < MaxTime
    /\ netClock' = netClock + 1
    /\ bytesAt' = Append(bytesAt, bytes)
    /\ UNCHANGED <<bytes, queue, dump, netCache, call, answer, failures>>

(* tcp_info has the bytes; a UDP socket has no such attribute. *)
Message(s) == [type |-> "SOCK_DIAG_BY_FAMILY", inode |-> s,
               bytes |-> IF Dump(s) <= 2 THEN bytes[s] ELSE 0]

(* Each datagram of a dump has a socket, the last one the end of the dump too. *)
Datagram(left) ==
    IF left = {} THEN << [type |-> "NLMSG_DONE"] >>
    ELSE LET s == CHOOSE s \in left : TRUE
         IN  <<Message(s)>> \o (IF left = {s} THEN << [type |-> "NLMSG_DONE"] >> ELSE <<>>)
Rest(left) == IF left = {} THEN {} ELSE left \ {CHOOSE s \in left : TRUE}

(* A request begins a dump, or is refused, as it is while one is in progress. *)
Requested(d) ==
    LET all == {s \in Sockets : Dump(s) = d}
        refused == dump # {} \/ d \in Unsupported
    IN  /\ queue' = Append(queue, IF refused THEN << [type |-> "NLMSG_ERROR"] >> ELSE Datagram(all))
        /\ dump' = IF refused THEN dump ELSE Rest(all)

(* recv takes a datagram, upon which the kernel prepares the next one. *)
Received ==
    /\ queue' = Tail(queue) \o (IF dump = {} THEN <<>> ELSE <<Datagram(dump)>>)
    /\ dump' = Rest(dump)
-----------------------------------------------------------------------------
(* queryAllSockets, which looks at the clock with the lock held, and the     *)
(* other calls up to their first query.                                      *)

CacheValid == CacheTtl > 0 /\ m_LastQueryTime # Never /\ netClock - m_LastQueryTime < CacheTtl

Unavailable ==
    /\ call = Idle /\ ~m_Available
    /\ answer' = [at |-> netClock, results |-> <<>>]
    /\ UNCHANGED <<netKernel, queue, dump, netCache, call, failures>>

CacheHit ==
    /\ call = Idle /\ m_Available /\ CacheValid
    /\ answer' = [at |-> netClock, results |-> m_CachedResults]
    /\ UNCHANGED <<netKernel, queue, dump, netCache, call, failures>>

ClearedResults(results) == <<>>

CacheMiss ==
    /\ call = Idle /\ m_Available /\ ~CacheValid
    /\ call' = Query("cached", ClearedResults(m_CachedResults))
    /\ UNCHANGED <<netKernel, queue, dump, netCache, answer, failures>>

QueryUncached ==
    /\ call = Idle /\ m_Available
    /\ call' = Query("uncached", <<>>)
    /\ UNCHANGED <<netKernel, queue, dump, netCache, answer, failures>>

InvalidateCache ==
    /\ call = Idle
    /\ m_CachedResults' = <<>> /\ m_LastQueryTime' = Never
    /\ UNCHANGED <<netKernel, queue, dump, m_Available, call, answer, failures>>
-----------------------------------------------------------------------------
(* querySockets and querySocketsForFamily.                                   *)

(* Whatever became of a dump, the next one is asked for. *)
NextDump(results) ==
    [of |-> call.of, now |-> call.now, results |-> results, d |-> call.d + 1,
     step |-> IF call.d = (IF call.of = "warm-up" THEN 2 ELSE 4) THEN "return" ELSE "send"]

Send ==
    /\ call # Idle /\ call.step = "send"
    /\ \/ /\ Requested(call.d)
          /\ call' = [call EXCEPT !.step = "recv"]
          /\ UNCHANGED failures
       \/ /\ failures < MaxFailures
          /\ failures' = failures + 1
          /\ call' = NextDump(call.results)
          /\ UNCHANGED <<queue, dump>>
    /\ UNCHANGED <<netKernel, netCache, answer>>

EndsQuery(type) == type \in {"NLMSG_DONE", "NLMSG_ERROR"}

(* The messages of a datagram up to one that ends the query; those of sockets *)
(* that a process still has are kept, in their order.                         *)
Parsed(datagram) ==
    LET ends == {i \in DOMAIN datagram : EndsQuery(datagram[i].type)}
        kept == {i \in DOMAIN datagram : /\ datagram[i].type = "SOCK_DIAG_BY_FAMILY" /\ datagram[i].inode # 0
                                         /\ \A j \in ends : i < j}
        Kept(n) == CHOOSE i \in kept : Cardinality({j \in kept : j <= i}) = n
    IN  [done |-> ends # {},
         results |-> [n \in 1 .. Cardinality(kept) |->
                         [inode |-> datagram[Kept(n)].inode, bytes |-> datagram[Kept(n)].bytes]]]

Receive ==
    /\ call # Idle /\ call.step = "recv" /\ queue # <<>>
    /\ LET parsed == Parsed(Head(queue))
           results == call.results \o parsed.results
       IN  call' = IF parsed.done THEN NextDump(results) ELSE [call EXCEPT !.results = results]
    /\ Received
    /\ UNCHANGED <<netKernel, netCache, answer, failures>>

(* An error other than EINTR, upon which recv is called again. *)
ReceiveFails ==
    /\ call # Idle /\ call.step = "recv"
    /\ failures < MaxFailures
    /\ failures' = failures + 1
    /\ call' = NextDump(call.results)
    /\ UNCHANGED <<netKernel, queue, dump, netCache, answer>>

Stamp(now) == now

QueryReturns ==
    /\ call # Idle /\ call.step = "return"
    /\ m_CachedResults' = IF call.of = "cached" THEN call.results ELSE m_CachedResults
    /\ m_LastQueryTime' = IF call.of = "cached" /\ CacheTtl > 0 THEN Stamp(call.now) ELSE m_LastQueryTime
    /\ answer' = IF call.of = "warm-up" THEN answer ELSE [at |-> call.now, results |-> call.results]
    /\ call' = Idle
    /\ UNCHANGED <<netKernel, queue, dump, m_Available, failures>>

NetlinkNext ==
    \/ Traffic \/ TimePasses
    \/ Unavailable \/ CacheHit \/ CacheMiss \/ QueryUncached \/ InvalidateCache
    \/ Send \/ Receive \/ ReceiveFails \/ QueryReturns

NetlinkSpec == NetlinkInit /\ [][NetlinkNext]_netVars
-----------------------------------------------------------------------------
(* A query waits for a datagram only when one is there, however many sends   *)
(* and receives have failed and whatever replies that left behind: otherwise *)
(* the sampler would wait in recv for good, with m_SocketMutex held.         *)
ReplyComes == call # Idle /\ call.step = "recv" => queue # <<>>

(* Until a send or a receive fails, an answer has every socket, once, with   *)
(* its bytes at some time within the time to live of the cache.              *)
AnswersRecent ==
    failures = 0 /\ m_Available /\ answer # NoAnswer =>
        LET earliest == IF CacheTtl = 0 THEN answer.at
                        ELSE IF answer.at < CacheTtl THEN 1 ELSE answer.at - CacheTtl + 1
        IN  /\ {answer.results[i].inode : i \in DOMAIN answer.results} = Sockets \ {0}
            /\ Len(answer.results) = Cardinality(Sockets \ {0})
            /\ \A i \in DOMAIN answer.results :
                  LET s == answer.results[i].inode
                  IN  Dump(s) <= 2 => answer.results[i].bytes \in bytesAt[earliest][s] .. bytes[s]
=============================================================================

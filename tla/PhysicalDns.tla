---------------------------- MODULE PhysicalDns ----------------------------
(***************************************************************************)
(* DNS through the physical interface.  Three kinds of client share the    *)
(* search through the resolvers of direct.rs: questions of a UDP flow,     *)
(* several at a time, and questions of a TCP flow, one at a time           *)
(* (physical_dns.rs and, where a TCP flow mixes applications,              *)
(* dns_routing.rs), all within one pool of permits; and names that the     *)
(* program resolves itself for a bypassed connection, following CNAMEs.    *)
(*                                                                         *)
(* A resolver's reply is what the search tells apart: "answer",            *)
(* "nxdomain", "refused" (any other code), "truncated" or "error" (it      *)
(* cannot be reached, is late, or its reply does not match the question).  *)
(***************************************************************************)
EXTENDS Naturals, Sequences, Functions, FiniteSets

CONSTANTS
    UdpQuestions,   \* questions of a UDP flow
    TcpQuestions,   \* questions of a TCP flow
    Names,          \* names the program resolves itself
    QuestionSets,   \* those that are asked, in each case considered
    Preferred,      \* PREFERRED_DNS_SERVERS
    OfInterface,    \* the interface's own resolvers
    ConfiguredDns,  \* the resolver of --dns-addr
    Unusable,       \* addresses is_usable_dns_server refuses
    Permits,        \* MAX_OUTSTANDING_DNS_QUERIES
    PerFlow,        \* questions of a UDP flow in progress at once (16)
    MaxCnameDepth   \* MAX_CNAME_DEPTH

Searches == UdpQuestions \cup TcpQuestions \cup Names

Candidates == Preferred \o OfInterface \o <<ConfiguredDns>>

Usable == Range(Candidates) \ Unusable

(* Of the constants of the program, PREFERRED_DNS_SERVERS are usable.      *)
ASSUME PhysicalDnsAssumption ==
    /\ Preferred \in Seq(Range(Preferred)) /\ OfInterface \in Seq(Range(OfInterface)) /\ Usable # {}
    /\ Permits \in Nat \ {0} /\ PerFlow \in Nat \ {0} /\ MaxCnameDepth \in Nat \ {0}
    /\ QuestionSets \subseteq SUBSET Searches

VARIABLES
    search,    \* each question: where its search is
    trail,     \* history: the replies of the resolvers to it, while it lasts
    client,    \* whether the UDP and the TCP flow are open
    proxied    \* the TCP flow's connection through the proxy: "none", "open"

physicalVars == <<search, trail, client, proxied>>

(* direct_dns_servers: the places of the usable candidates, each once.     *)
Servers ==
    {i \in 1 .. Len(Candidates) :
        Candidates[i] \notin Unusable /\ \A j \in 1 .. i - 1 : Candidates[j] # Candidates[i]}

FirstOf(places) == CHOOSE i \in places : \A j \in places : i <= j

Begin == [at |-> "idle", server |-> FirstOf(Servers), via |-> "udp", attempt |-> 1, depth |-> 1, code |-> "none"]

PhysicalInit ==
    /\ \E set \in QuestionSets :
          search = [q \in Searches |-> IF q \in set THEN Begin ELSE [Begin EXCEPT !.at = "absent"]]
    /\ trail = [q \in Searches |-> {}]
    /\ client = [f \in {"udp", "tcp"} |-> "open"]
    /\ proxied = "none"

FlowOf(q) == IF q \in UdpQuestions THEN "udp" ELSE "tcp"

Underway(questions) == {q \in questions : search[q].at \in {"ask", "exchange", "concluded"}}

(* Only a question of a client takes a permit, until it is answered.       *)
Holding == {q \in UdpQuestions \cup TcpQuestions : search[q].at = "ask"}

-----------------------------------------------------------------------------
(* physical_dns::answer: a search starts if there is a permit, otherwise   *)
(* the answer is SERVFAIL.                                                 *)
Accept(q) ==
    search' = [search EXCEPT ![q] =
        IF Cardinality(Holding) < Permits THEN [@ EXCEPT !.at = "ask"]
        ELSE [@ EXCEPT !.at = "concluded", !.code = "capacity"]]

Receive(q) ==
    /\ search[q].at = "idle" /\ client[FlowOf(q)] = "open"
    /\ \/ q \in UdpQuestions /\ Cardinality(Underway(UdpQuestions)) < PerFlow
       \/ q \in TcpQuestions /\ Underway(TcpQuestions) = {}
    /\ Accept(q)
    /\ UNCHANGED <<trail, client, proxied>>

(* dns_routing::tcp: a question of an application that is not bypassed     *)
(* goes through the proxy, over one connection opened when it is needed.   *)
RouteToProxy(q) ==
    /\ q \in TcpQuestions /\ search[q].at = "idle"
    /\ client["tcp"] = "open" /\ Underway(TcpQuestions) = {}
    /\ search' = [search EXCEPT ![q].at = "exchange"]
    /\ UNCHANGED <<trail, client, proxied>>

Exchange(q) ==
    /\ search[q].at = "exchange"
    /\ search' = [search EXCEPT ![q].at = "concluded", ![q].code = "proxied"]
    /\ proxied' = "open"
    /\ UNCHANGED <<trail, client>>

(* A datagram that is no question is refused; it does not end its flow.    *)
RejectDatagram(q) ==
    /\ q \in UdpQuestions /\ search[q].at = "idle" /\ client["udp"] = "open"
    /\ Cardinality(Underway(UdpQuestions)) < PerFlow
    /\ search' = [search EXCEPT ![q].at = "rejected"]
    /\ UNCHANGED <<trail, client, proxied>>

(* The client closes, a read or write fails, a TCP question is malformed,  *)
(* the proxy fails or answers something else, or the policy changes:       *)
(* whatever the flow has underway is dropped, permits included.            *)
ClientEnds(f) ==
    /\ client[f] = "open"
    /\ client' = [client EXCEPT ![f] = "ended"]
    /\ search' = [q \in Searches |->
          IF q \notin Names /\ FlowOf(q) = f /\ search[q].at \in {"idle", "ask", "exchange", "concluded"}
          THEN [Begin EXCEPT !.at = "dropped"] ELSE search[q]]
    /\ trail' = [q \in Searches |-> IF q \notin Names /\ FlowOf(q) = f THEN {} ELSE trail[q]]
    /\ proxied' = IF f = "tcp" THEN "none" ELSE proxied

-----------------------------------------------------------------------------
(* query_dns_servers: two attempts by UDP, then TCP, then the next server. *)
Tried(q, got) ==
    trail' = [trail EXCEPT ![q] = @ \cup {[server |-> Candidates[search[q].server], via |-> search[q].via,
                                           got |-> got]}]

Concludes(s, code) == [s EXCEPT !.at = "concluded", !.code = code]

NextServer(s) ==
    LET later == {i \in Servers : i > s.server}
    IN  IF later = {} THEN Concludes(s, "failed")
        ELSE [s EXCEPT !.server = FirstOf(later), !.via = "udp", !.attempt = 1]

OverTcp(s) == [s EXCEPT !.via = "tcp", !.attempt = 1]

(* Mutant: every code but NOERROR is left to the next resolver.            *)
AuthoritativeAnswer == {"answer"}

(* NXDOMAIN is as good an answer as NOERROR.                               *)
Authoritative == {"answer", "nxdomain"}

AfterUdp(s, got) ==
    CASE got = "truncated" -> OverTcp(s)
      [] got \in Authoritative -> Concludes(s, got)
      [] got \in {"nxdomain", "refused"} \ Authoritative -> NextServer(s)
      [] got = "error" -> IF s.attempt = 2 THEN OverTcp(s) ELSE [s EXCEPT !.attempt = 2]

AfterTcp(s, got) == IF got \in Authoritative THEN Concludes(s, got) ELSE NextServer(s)

QueryUdp(q, got) ==
    /\ search[q].at = "ask" /\ search[q].via = "udp"
    /\ search' = [search EXCEPT ![q] = AfterUdp(@, got)]
    /\ Tried(q, got)
    /\ UNCHANGED <<client, proxied>>

(* The truncation bit of a TCP reply is not looked at.                     *)
QueryTcp(q, got) ==
    /\ search[q].at = "ask" /\ search[q].via = "tcp" /\ got # "truncated"
    /\ search' = [search EXCEPT ![q] = AfterTcp(@, got)]
    /\ Tried(q, got)
    /\ UNCHANGED <<client, proxied>>

(* The client of a flow gets the reply, SERVFAIL if there is none.         *)
Reply(q) ==
    /\ q \notin Names /\ search[q].at = "concluded"
    /\ search' = [search EXCEPT ![q] = [Begin EXCEPT !.at = "replied", !.code =
          IF search[q].code \in {"failed", "capacity"} THEN "servfail" ELSE search[q].code]]
    /\ trail' = [trail EXCEPT ![q] = {}]
    /\ UNCHANGED <<client, proxied>>

-----------------------------------------------------------------------------
(* resolve_domain_bound: no permit, and a new round for every CNAME that   *)
(* leads out of a reply.                                                   *)
ResolveName(q) ==
    /\ q \in Names /\ search[q].at = "idle"
    /\ search' = [search EXCEPT ![q].at = "ask"]
    /\ UNCHANGED <<trail, client, proxied>>

FollowCname(q) ==
    /\ q \in Names /\ search[q].at = "concluded" /\ search[q].code = "answer"
    /\ search[q].depth < MaxCnameDepth
    /\ search' = [search EXCEPT ![q] = [Begin EXCEPT !.at = "ask", !.depth = search[q].depth + 1]]
    /\ trail' = [trail EXCEPT ![q] = {}]
    /\ UNCHANGED <<client, proxied>>

(* An address; or an error: no address in the reply, a code, no reply, or  *)
(* one CNAME too many.                                                     *)
ResolveEnds(q) ==
    /\ q \in Names /\ search[q].at = "concluded"
    /\ \E got \in {"unresolved"} \cup (IF search[q].code = "answer" THEN {"address"} ELSE {}) :
          search' = [search EXCEPT ![q] = [Begin EXCEPT !.at = got]]
    /\ trail' = [trail EXCEPT ![q] = {}]
    /\ UNCHANGED <<client, proxied>>

-----------------------------------------------------------------------------
PhysicalNext ==
    \/ \E q \in Searches :
          \/ Receive(q) \/ RouteToProxy(q) \/ Exchange(q) \/ RejectDatagram(q) \/ Reply(q)
          \/ ResolveName(q) \/ FollowCname(q) \/ ResolveEnds(q)
          \/ \E got \in {"answer", "nxdomain", "refused", "truncated", "error"} :
                QueryUdp(q, got) \/ QueryTcp(q, got)
    \/ \E f \in {"udp", "tcp"} : ClientEnds(f)

PhysicalSpec == PhysicalInit /\ [][PhysicalNext]_physicalVars

-----------------------------------------------------------------------------
(* A resolver is passed over only for a reason: it answered with another   *)
(* code, or it was asked over TCP as well and that failed.                 *)
PassedOver(q, a) ==
    \E try \in trail[q] : try.server = a /\ (try.got = "refused" \/ (try.via = "tcp" /\ try.got = "error"))

(* A search that ends in failure has asked every usable resolver to the    *)
(* end; one that ends in a reply gives the reply of the first resolver     *)
(* that had one, NXDOMAIN included, and no resolver was asked after it.    *)
Conclusive ==
    \A q \in Searches :
        LET given == {try \in trail[q] : try.got \in {"answer", "nxdomain"}}
        IN  search[q].at \in {"ask", "concluded"} =>
              /\ search[q].code = "failed" => \A a \in Usable : PassedOver(q, a)
              /\ given # {} => {search[q].code} = {try.got : try \in given}
              /\ \A try \in given, a \in Usable :
                    a = try.server \/ PassedOver(q, a) \/ {other \in trail[q] : other.server = a} = {}
=============================================================================

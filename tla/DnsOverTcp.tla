----------------------------- MODULE DnsOverTcp -----------------------------
(***************************************************************************)
(* One DNS-over-TCP session: DNS datagrams of one UDP flow are carried     *)
(* over one proxied TCP connection, or answered by the physical resolver   *)
(* for questions of bypassed processes.  The transaction table gives every *)
(* distinct request an upstream id of its own, restores the client's id in *)
(* the answer, coalesces retries and bounds what is outstanding.           *)
(***************************************************************************)
EXTENDS Naturals, FiniteSets, Sequences

CONSTANTS
    IdSpace,         \* number of DNS ids (2^16 in the code)
    Questions,       \* DNS questions
    Options,         \* what else tells two requests with one id and question apart
    MaxOutstanding,  \* MAX_OUTSTANDING_DNS_QUERIES
    Unsolicited,     \* whether the upstream may send one answer nobody asked for
    NoRequest        \* a free slot of the transaction table

ASSUME DnsOverTcpAssumption ==
    /\ IdSpace \in Nat \ {0}
    /\ MaxOutstanding \in 1 .. IdSpace
    /\ Unsolicited \in BOOLEAN

Ids == 0 .. IdSpace - 1

Request == [id : Ids, question : Questions, options : Options]

(* What travels upstream and back: an id and the question.                 *)
Message == [id : Ids, question : Questions]

ASSUME NoRequestAssumption == NoRequest \notin Request

VARIABLES
    session,    \* "open", "flush" (the upstream ended), "ended"
    outcome,    \* why the session ended
    pending,    \* the transaction table, by upstream id
    requests,   \* the channel to the upstream task
    upstream,   \* "idle", "connecting" (holds the first request), "open"
    sent,       \* questions the upstream has and did not answer yet
    responses,  \* the channel from the upstream task
    direct,     \* the tasks that ask the physical resolver
    asked,      \* history: requests of the client without an answer
    stray,      \* history: an answer was written that nothing asked for
    honest      \* history: the upstream only answered what it was asked

dnsVars == <<session, outcome, pending, requests, upstream, sent, responses,
          direct, asked, stray, honest>>

DnsInit ==
    /\ session = "open"
    /\ outcome = "none"
    /\ pending = [u \in Ids |-> NoRequest]
    /\ requests = <<>>
    /\ upstream = "idle"
    /\ sent = {}
    /\ responses = <<>>
    /\ direct = {}
    /\ asked = {}
    /\ stray = FALSE
    /\ honest = TRUE

Busy == {u \in Ids : pending[u] # NoRequest}

(* The first free id from the client's own on, wrapping at the id space.   *)
UpstreamIdUnchecked(id) == id

UpstreamId(id) ==
    LET free == {n \in 0 .. IdSpace - 1 : (id + n) % IdSpace \notin Busy}
    IN  (id + (CHOOSE n \in free : \A m \in free : n <= m)) % IdSpace

(* Returning from the session drops its channels, tasks and connection.    *)
End(reason) ==
    /\ session' = "ended"
    /\ outcome' = reason
    /\ requests' = <<>>
    /\ upstream' = "idle"
    /\ sent' = {}
    /\ responses' = <<>>
    /\ direct' = {}

-----------------------------------------------------------------------------
(* A request identical to one in flight is not sent again.                 *)
Coalesce(r) ==
    /\ session = "open"
    /\ \E u \in Ids : pending[u] = r
    /\ asked' = asked \cup {r}
    /\ UNCHANGED <<session, outcome, pending, requests, upstream, sent,
                   responses, direct, stray, honest>>

Fresh(r) == session = "open" /\ \A u \in Ids : pending[u] # r

AtLimit == Cardinality(Busy) >= MaxOutstanding

RefuseRequest(r) ==
    /\ Fresh(r) /\ AtLimit
    /\ End("limit")
    /\ asked' = asked \cup {r}
    /\ UNCHANGED <<pending, stray, honest>>

Prepared(r) == [pending EXCEPT ![UpstreamId(r.id)] = r]

Forwarded(r) == [id |-> UpstreamId(r.id), question |-> r.question]

(* A question for the physical resolver.                                   *)
AskDirect(r) ==
    /\ Fresh(r) /\ ~ AtLimit
    /\ pending' = Prepared(r)
    /\ direct' = direct \cup {Forwarded(r)}
    /\ asked' = asked \cup {r}
    /\ UNCHANGED <<session, outcome, requests, upstream, sent, responses,
                   stray, honest>>

(* try_send does not wait: a full channel ends the session.                *)
AskUpstream(r) ==
    /\ Fresh(r) /\ ~ AtLimit
    /\ pending' = Prepared(r)
    /\ asked' = asked \cup {r}
    /\ IF Len(requests) < MaxOutstanding
       THEN /\ requests' = Append(requests, Forwarded(r))
            /\ UNCHANGED <<session, outcome, upstream, sent, responses, direct>>
       ELSE End("queue_full")
    /\ UNCHANGED <<stray, honest>>

(* An invalid datagram, the end of the client's input, or a failed read,   *)
(* origin lookup or physical query.                                        *)
Abandon ==
    /\ session # "ended"
    /\ End("io")
    /\ UNCHANGED <<pending, asked, stray, honest>>

-----------------------------------------------------------------------------
CompletesAnyQuestion(m) == pending[m.id] # NoRequest

(* complete, and the write of the answer with the client's id restored.    *)
Completes(m) == pending[m.id] # NoRequest /\ pending[m.id].question = m.question

ClientId(m) == pending[m.id].id

ReleasedKeepingEntry(m) == pending

Released(m) == [pending EXCEPT ![m.id] = NoRequest]

(* The answer is written for the request of its transaction.               *)
Delivers(m) ==
    LET r == pending[m.id]
    IN  /\ stray' = (stray \/ r \notin asked \/ ClientId(m) # r.id
                           \/ m.question # r.question)
        /\ asked' = asked \ {r}
        /\ pending' = Released(m)

AnswerDirect(m) ==
    /\ session # "ended" /\ m \in direct
    /\ session = "flush" => responses = <<>>
    /\ IF Completes(m)
       THEN /\ Delivers(m)
            /\ direct' = direct \ {m}
            /\ UNCHANGED <<session, outcome, requests, upstream, sent, responses,
                           honest>>
       ELSE End("unsolicited") /\ UNCHANGED <<pending, asked, stray, honest>>

AnswerUpstream ==
    /\ session # "ended" /\ responses # <<>>
    /\ IF Completes(Head(responses))
       THEN /\ Delivers(Head(responses))
            /\ responses' = Tail(responses)
            /\ UNCHANGED <<session, outcome, requests, upstream, sent, direct,
                           honest>>
       ELSE End("unsolicited") /\ UNCHANGED <<pending, asked, stray, honest>>

(* The upstream task ended: its answers and the physical ones are written  *)
(* before the session ends.                                                *)
Finish ==
    /\ session = "flush" /\ responses = <<>> /\ direct = {}
    /\ End("upstream")
    /\ UNCHANGED <<pending, asked, stray, honest>>

-----------------------------------------------------------------------------
(* The upstream task: Upstream::forward.  The first request opens the      *)
(* proxied connection, while the session keeps taking datagrams.           *)
Connect ==
    /\ session = "open" /\ upstream = "idle" /\ requests # <<>>
    /\ upstream' = "connecting"
    /\ sent' = {Head(requests)}
    /\ requests' = Tail(requests)
    /\ UNCHANGED <<session, outcome, pending, responses, direct, asked,
                   stray, honest>>

Connected ==
    /\ session = "open" /\ upstream = "connecting"
    /\ upstream' = "open"
    /\ UNCHANGED <<session, outcome, pending, requests, sent, responses,
                   direct, asked, stray, honest>>

Forward ==
    /\ session = "open" /\ upstream = "open" /\ requests # <<>>
    /\ sent' = sent \cup {Head(requests)}
    /\ requests' = Tail(requests)
    /\ UNCHANGED <<session, outcome, pending, upstream, responses, direct,
                   asked, stray, honest>>

(* The server answers in any order, and once says something unasked.       *)
Respond(m) ==
    /\ session = "open" /\ upstream = "open"
    /\ m \in sent \/ (Unsolicited /\ honest)
    /\ Len(responses) < MaxOutstanding
    /\ responses' = Append(responses, m)
    /\ sent' = sent \ {m}
    /\ honest' = (honest /\ m \in sent)
    /\ UNCHANGED <<session, outcome, pending, requests, upstream, direct,
                   asked, stray>>

(* End of stream, a failed connection, or a failed read or write.          *)
UpstreamEnds ==
    /\ session = "open" /\ upstream \in {"connecting", "open"}
    /\ session' = "flush"
    /\ upstream' = "idle"
    /\ requests' = <<>>
    /\ sent' = {}
    /\ UNCHANGED <<outcome, pending, responses, direct, asked, stray, honest>>

-----------------------------------------------------------------------------
DnsStep ==
    \/ \E m \in direct : AnswerDirect(m)
    \/ AnswerUpstream
    \/ Finish

UpstreamStep == Connect \/ Connected \/ Forward

DnsNext ==
    \/ \E r \in Request :
          Coalesce(r) \/ RefuseRequest(r) \/ AskDirect(r) \/ AskUpstream(r)
    \/ Abandon
    \/ DnsStep
    \/ UpstreamStep
    \/ \E m \in Message : Respond(m)
    \/ UpstreamEnds

DnsSpec == DnsInit /\ [][DnsNext]_dnsVars

(* The session and its upstream task run, and the server and the physical  *)
(* resolver answer what they were asked: the reliable transport loses      *)
(* nothing and every direct query has a deadline.  The answer to one       *)
(* question is not put off for ever by a response channel that is full now *)
(* and then, hence the strong fairness.                                    *)
DnsFairness ==
    /\ WF_dnsVars(AnswerUpstream) /\ WF_dnsVars(Finish) /\ WF_dnsVars(UpstreamStep)
    /\ \A m \in Message :
          WF_dnsVars(AnswerDirect(m)) /\ SF_dnsVars(m \in sent /\ Respond(m))

DnsFairSpec == DnsSpec /\ DnsFairness

-----------------------------------------------------------------------------
Entries(seq) == {seq[i] : i \in 1 .. Len(seq)}

(* Every answer written to the client carries the id and the question of   *)
(* one of its requests that is still unanswered, however ids collide,      *)
(* whatever order the two resolvers answer in, and whatever the upstream   *)
(* sends unasked.                                                          *)
NoStrayAnswer == ~ stray

(* No more than MAX_OUTSTANDING_DNS_QUERIES requests are outstanding, and  *)
(* while the upstream keeps to what it is asked, each request outstanding  *)
(* in an open session is in exactly one place: queued, at the server,      *)
(* answered, or with the physical resolver.  So the transaction limit also *)
(* bounds the queue, as the comment at the try_send says, and the session  *)
(* ends neither on a full queue nor on an answer it does not recognise.    *)
OnePlace ==
    LET places == <<Entries(requests), sent, Entries(responses), direct>>
        all == Entries(requests) \cup sent \cup Entries(responses) \cup direct
    IN  /\ Cardinality(Busy) <= MaxOutstanding
        /\ honest => outcome \notin {"unsolicited", "queue_full"}
        /\ honest /\ session = "open" =>
              /\ all = {[id |-> u, question |-> pending[u].question] : u \in Busy}
              /\ Len(requests) + Cardinality(sent) + Len(responses) + Cardinality(direct)
                    = Cardinality(Busy)
              /\ \A i, j \in 1 .. 4 : i # j => places[i] \cap places[j] = {}

(* A request the session took is answered unless the session ends: a retry *)
(* that was coalesced does not leave the client waiting.                   *)
Answered == \A r \in Request : (r \in asked) ~> (r \notin asked \/ session = "ended")
=============================================================================

# A TLA+ development of tun2proxy

tun2proxy reads IP packets from a TUN interface, turns them into TCP, UDP and
ICMP flows, and relays each flow through a SOCKS or HTTP proxy, through a UDP
gateway, or directly over the physical network when the flow belongs to a
bypassed process.  Around the relays it answers DNS queries with fake addresses,
carries DNS over TCP, keeps pools of connections and sockets, follows a process
policy that may change at any time, and on Windows installs and restores routes,
interface settings and DNS.

This directory models the parts of it whose correctness depends on orderings: of
tasks, of messages, of crashes, of failing system calls.  Paths below are
relative to `src/src/`.

## 1. The system's parts

| Part | Code | Module | State |
|---|---|---|---|
| fake-IP allocator and journal | `virtual_dns.rs`, `virtual_dns/persistence.rs` | `VirtualDns`, `StableMap` | modelled, proved, the refinement of `StableMap` included |
| admission, accept loop, shutdown | `lib.rs` | `Sessions` | modelled, proved |
| embedding API life cycle | `general_api.rs`, `network_config.rs` | `LifeCycle` | modelled, safety proved |
| SOCKS and HTTP handshakes, negotiation loop, TCP relay | `socks.rs`, `http.rs`, `no_proxy.rs`, `proxy_handler.rs`, `lib.rs` | `Handshake` | modelled but for UDP ASSOCIATE, safety proved |
| process bypass policy | `process_bypass.rs`, `process/mod.rs` | `ProcessPolicy` | modelled, safety proved |
| UDP gateway server | `bin/udpgw_server.rs` | `UdpGwServer` | modelled, safety proved |
| UDP gateway client and its pool | `udpgw.rs`, `lib.rs` | `UdpGwClient` | modelled, one user per connection proved |
| DNS over TCP session | `dns_transactions.rs`, `dns_routing.rs`, `lib.rs` | `DnsOverTcp` | modelled, safety proved |
| ICMP echo flows | `icmp.rs` | `EchoFlows` | modelled, proved |
| physical resolvers | `direct.rs`, `physical_dns.rs`, `dns_routing.rs`, `dns.rs` | `PhysicalDns` | modelled but for interface detection and binding, proved |
| DNS query origins (Windows event trace) | `dns_routing/windows.rs` | `QueryOrigins` | modelled but for leftover traces of dead processes |
| UDP bypass sockets (Windows) | `udp_bypass.rs` | `UdpBypass` | modelled but for shutdown and the byte budget, proved |
| Windows routes, DNS, settings | `windows_network_config.rs` | `WindowsRoutes` | modelled, safety proved |
| route decision, SOCKS5 UDP association, socket transfer, traffic status, arguments, errors, entry points, OS tables | | | not modelled: see section 8 |

How they interact: a call of the embedding API (`LifeCycle`) creates the adapter,
installs the network configuration (`WindowsRoutes`), announces readiness and
runs the accept loop (`Sessions`), which spawns one task per flow.  The task asks
the policy (`ProcessPolicy`) whether its process is bypassed; the answer selects a
direct path (`UdpBypass` for UDP on Windows, `PhysicalDns` for DNS, with
`QueryOrigins` telling who asked) or a proxied one (`Handshake` for TCP,
`UdpGwClient` for UDP over a gateway, `DnsOverTcp` for port 53, `EchoFlows` for
pings).  A fake address made by `VirtualDns` is turned back into a name on the
way.  `UdpGwServer` is the other end of `UdpGwClient`.

The models are separate because the parts share little state; where one uses
another it does so through a narrow result: an identity, an address, a reply, an
end.  `LifeCycle` uses of `Sessions` that its task ends when told
(`ShutdownEnds`) with nothing left behind (`NothingSurvives`), and of
`WindowsRoutes` that its removal either restored the network or reports that it
did not (`Restored`).

Some MC modules hold several parts (`MCSessions`, `MCLifeCycle`, `MCUdpGwClient`,
`MCUdpBypass`).  They are not a composition: a behaviour exercises one part from
its own initial states while the others rest, so that the parts are checked side
by side without multiplying their states.

## 2. The modules

Every module states what each variable stands for next to its declaration.  An
operator whose comment says *Mutant of* (or which stands immediately before the
operator it varies, with a longer name) is a deliberately wrong variant of the
one that follows; no specification uses it.

**`VirtualDns`.**  `lru_cache` and `name_to_ip` are the two maps of the handle,
`file` the journal as a header and a sequence of lines, `cache` the dirty flag
and record count of `PersistentCache`, `load` the progress of a replay.  A
journal line is a mapping or garbled; `file.open` says that the last line has no
newline.  `Hit`, `Allocate` and `Recycle` are the three outcomes of
`find_or_allocate_ip` and contain everything that call does: touch, eviction,
append, repair, compaction.  `EnableMissing`, `EnableIncompatible`,
`EnableLoaded`, `RestoreMapping` and `FinishLoad` are `enable_persistence`, with
one step per replayed line.  `Restart` is a new process; `RestartInAppend` and
`RestartInReplace` are processes that die inside a write.  `faults` selects what
else the environment does: failing I/O, a deleted journal, a replacement that is
not atomic (Windows removes before it renames), a process that dies before the
newline, an embedder that goes on after a failed `enable_persistence_in`; a
behaviour has one of the sets in `FaultSets`.

**`StableMap`** is the abstract promise: a one-to-one map that gives a mapping
up only when all addresses are taken and a new name needs one.  `VirtualDns`
implements it with the mapping `StableMapping`: what is in memory, or what a
replay of the journal would bring back.

**`Sessions`.**  The accept loop is a small program counter (`loop`); a task goes
from admitted through running and releasing to finished.  `try_acquire` is one
atomic update of `total` followed later by one of the protocol's counter, and
the drop of a permit gives them back in the opposite order, each a step of its
own.  Cancellation of the token, `abort_all` and the join are steps too.

**`LifeCycle`.**  Each call has a place (`call`), a verdict, a readiness channel,
an adapter reference, a forwarding task and a capture.  Calls in `Api` come
through the C interface and share `quit`, which is `TUN_QUIT`, and the forced-exit
timer (`ForceExit`); the others are futures that an embedder may drop at any
point (`DropFuture`), after which their locals unwind one by one
(`UnwindNetwork`, `UnwindAdapter`).  `Mishaps` says which steps may fail.

**`Handshake`.**  `at` is where a session's task is, `handler` its `ProxyHandler`
with its buffer and state, `digest` the state that all HTTP handlers of a run
share.  Replies and data travel as pieces and a read takes any prefix of them.
`StateChange` is the handlers' `state_change`, `InSetup` the negotiation loop,
`SetupTimesOut` the timeout around it, `Prefetch` the hand-over of what arrived
with the last reply, `Pump` the two copying directions and their joint end.  The
proxy (`ServerAnswers`, `ServerSpeaks`, `ServerEnds`, `NoncesExpire`) is external.

**`EchoFlows`.**  `flows` is the table, `workers` every worker ever spawned with its
queue, the request it carries and its stream.  `Dispatch` contains the removal of
ended flows (`Retained`), the limit and the bounded queue.

**`PhysicalDns`.**  `search` is the progress of each question through the list of
resolvers (`Servers`: preferred, then the interface's, then the configured one,
without duplicates and unusable ones), with its transport and permit; `trail`
records as history what each resolver said.  UDP questions, TCP questions and the
program's own name resolution (`ResolveName`, `FollowCname`) share it.

**`QueryOrigins`.**  Each trace has an event stream that is delivered late and may
lose events, and a table of the last `MaxOrigins` origins.  `calls` are the callers
of `synchronize`, `jobs` the blocking checkpoints that outlive a caller who gives
up, `slot` the flush slot, `delivered` the newest checkpoint that came back.

**`ProcessPolicy`.**  `names`, `revision` and `pending` are the shared list and
its watch channel, written in two steps.  A flow subscribes, waits for the one
lookup slot, has its port looked up in a snapshot of the socket table that it
may share with others, decides, relays, and is woken by a new revision.
`cache.covers` replaces the time stamps: it is the set of flows whose request is
not younger than the snapshot.  The table belongs to the operating system and
changes at any time.

**`UdpGwServer`.**  Reader, writer and relay tasks of one client connection.
`generations` and `sessions` are the two maps, `lock` the delivery lock, `queue`
the bounded channel.  Idle timeouts are a set of expired generations that
activity empties.

**`UdpGwClient`.**  `pool`, the serial numbers modulo `SerialSpace`, the flows,
the heartbeat, and two byte streams per connection.  A frame is two pieces, so a
read can be cancelled inside a frame.  The server's side (`ServerReads`,
`ServerReplies`) is external to this module.

**`DnsOverTcp`.**  `pending` is the transaction table by upstream id, `requests`
and `responses` the two channels, `upstream` the connection's task, `direct` the
queries with the physical resolver.  The upstream server is external; it answers
in any order and may once say something nobody asked.

**`UdpBypass`.**  `endpoints` is the pool by source, `endpoint` every socket ever
opened, `permit` and `job` the serialized blocking read of the owner table,
`failing` the grace period after failed reads, `keeper` the maintenance task.

**`WindowsRoutes`.**  `os` is the system's table, `record` the `InstallRecord`,
`monitor`, `commands` and `updater` the monitor thread, its channel and the task
that changes the upstream.  Installation, refresh and teardown proceed one
system call per step; each may fail when `faults`, one of
`FaultSets`, says so.  One capture row
stands for the code's three (they are installed and removed in one place, one
after the other), one setting per interface for its forwarding and weak-host
flags.

## 3. What the runs check

| Run | Checks | Shows |
|---|---|---|
| `fakeip_restarts` | `Consistent` `Durable` `ReplayExact` `ActiveKept` `StableAcrossRestarts` | with restarts anywhere, also inside an append, and with disk errors, a non-atomic replacement and a deleted journal: the two maps are inverse, names in use keep their addresses, a clean journal is believed rightly, and the allocator implements `StableMap` |
| `fakeip_newline` | `Durable` (violated) | a process that dies before a newline costs two mappings, see section 7 |
| `sessions_run` | `CountersExact` `NothingSurvives` `ShutdownEnds`; `NoStrayAnswer` `OnePlace` `Answered` | counters equal permits in every interleaving, a shutdown ends and leaves nothing; in a DNS session rewritten ids never mix answers up, and requests are answered |
| `calls_tunnels` | `ReadyTold` `CaptureEnds` `StopEnds`; `Delivered` `NeverRefused` `SetupEnds` | calls that fail, stop or are dropped anywhere tell readiness once and restore the network; a TCP session delivers the server's data exactly, whatever the cuts, and its setup ends |
| `api_token` | `Stoppable` (violated) | a restart can lose its quit token to the call before it, see section 7 |
| `policy` | `FreshIdentity` `NoMissedUpdate` `StaleRelayEnds` `LookupEnds` | no stale identity, no missed update, and every lookup ends |
| `gateway_connection` | `NoStaleReply` `SessionsCurrent` `ReaderProgress` `RelaysEnd` | replaced sessions cannot reply; a late relay never stops its successor; no deadlock between lock and queue |
| `pool_reuse` | `OwnReplies` `OneUser`; `OwnReply` `OneWorker` | a reused connection is in frame sync and carries nothing over; a ping gets the reply to itself, and workers keep to the table and the limit |
| `bypass_pool` | `OneLiveEndpoint` `ActiveSpared` `OwnerOfNewestTable`; `Conclusive`; `Fence` | one live socket per source, judged by the newest table, active ones spared; a search of the resolvers ends for a reason; a fenced question is not attributed to an older caller |
| `bypass_retired` | `ForeignRetired` | a socket that changed hands is retired even if its table cannot be read |
| `routes_session` | `LoopBarrier` `Ownership` `Restored` `RoutesFollow` `ProvisionalEnds` | bypasses stay in place through updates and network changes and follow the network; whichever calls fail, the session owns exactly its rows, and a successful teardown restored everything |
| `routes_offline` | `OfflineKeepsBarrier` (violated) | a retried rollback deletes a row that was adopted meanwhile, see section 7 |

A semicolon separates the parts an MC module holds side by side.  `LoopBarrier`
and `RoutesFollow` are claimed for environments in which deletions succeed; where
they fail, `routes_offline` shows that the barrier can be lost.

Each property is accompanied in `PROJECT.json` by a variant of an operator, the
kind of slip the code could contain, under which TLC finds it violated.

Deadlock is checked in the runs of `VirtualDns`, `Sessions`, `ProcessPolicy` and
`UdpBypass` (a DNS session that has ended, and the resolvers and traces of
`MCUdpBypass`, may rest).  The others end by design: calls return, TCP sessions
and gateway connections and routing sessions are over at some point, and the flows
of `UdpGwClient` are used once each.

## 4. Bounds

* `VirtualDns`: four names for three addresses, so that every query after the
  third recycles; five journal lines and a compaction threshold of two, so that
  compaction happens several times; the newline run has three names for two
  addresses.
* `Sessions`: three flows for two permits, so that the limit refuses one; one
  background task, for each does the same.
* `DnsOverTcp`: three ids, two questions, two outstanding transactions, so that
  ids collide and wrap and the limit is reached; at most one unsolicited answer.
* `LifeCycle`: two calls through the C interface, or one of them and an embedded
  one; every step may fail.
* `Handshake`: one session with each kind of proxy and authentication, with
  replies of up to a body of one piece and up to three pieces of data; or two HTTP
  sessions that share the digest state, whose challenges have no body, since two
  sessions meet only in the digest state; nonces expire once.
* `ProcessPolicy`: two flows on one port with two applications, so that the
  shared snapshot and the change of ownership meet; one update of the list.  The
  inductive invariant was also checked with two updates.
* `UdpGwServer`: one connection id over two generations and a queue of one: the
  second generation replaces the first while its replies are in the queue, in
  the writer's hands, or blocked outside the queue.
* `UdpGwClient`: two flows, two connections, a pool of one, three serial
  numbers, two frames under way in each direction.
* `EchoFlows`: two keys for one flow, a queue of two and four requests that look
  the same, so that flows end, come back and refuse.
* `PhysicalDns`: two resolvers and a loopback address that is passed over, up to
  two questions for one permit, a CNAME chain of two.
* `QueryOrigins`: three questions about two names with a table of one origin; or
  fewer questions with lost, slow or failing checkpoints, or with a second trace.
* `UdpBypass`: two sources for a pool of one endpoint, two owners, two
  interfaces, one change of the world; in the liveness run one source and two
  changes.
* `WindowsRoutes`: two destinations, two physical interfaces and offline, up to
  two live updates and a network change (two in the run of the finding).

The theorems of section 6 have no bounds.  Symmetry is used only in runs whose
properties allow it (invariants and action properties), over sets whose members
no definition tells apart.

## 5. Fairness

Liveness is checked under the least fairness the argument needs, stated in each
module:

* tasks and blocking jobs that can run do run: weak fairness on each, since
  tokio polls a woken task and runs spawned blocking jobs; in `LifeCycle` while
  the process was not ended by the forced-exit timer;
* a waiter for a tokio mutex, semaphore or bounded channel, which serve in order,
  gets its turn: strong fairness on taking it (`TakeSlot`, `ReplaceGeneration`,
  `Create`, `CloseSession`, `Respond`, `LockAndCheck`, `AcquireForMaintain`,
  `AcquireForOpen`);
* `tokio::select!` chooses among its ready branches at random, so a cancelled
  token is chosen in the end: strong fairness on `SelectShutdown`;
* timers fire: weak fairness on `GraceEnds`, `DropGuard`, `RelayTimesOut` and on
  the setup timeout of `Handshake` (nothing is assumed about the proxy);
* in `DnsOverTcp` the upstream answers each question it has in the end, and in
  `WindowsRoutes` a row that is asked for again and again is not refused for
  ever.  Both are assumptions about the outside; without them the code waits, as
  it must.

Nothing is assumed about applications, about how often policies, networks or
owners change, or about a relay ending by itself.  `UdpGwClient`, `EchoFlows`,
`PhysicalDns` and `QueryOrigins` are checked for safety only.

## 6. Proofs

A theorem states what a run checks for every value of the constants, from the named
assumption of the component's module alone; the two theorems about the journal of
`VirtualDns` say what else they assume.  Each proof finds an inductive invariant,
shows that the initial states have it and that every action keeps it, and that it
contains the property; the invariant was model-checked before it was proved.  A proof
module holds one to three components; the two halves of the TCP proof are `SetupProofs`,
the invariant and one session's steps, and `HandshakeProofs`, which puts the sessions
together.

**Sessions** (`LifeCycleProofs`).  `CountersAreExact` and `NothingSurvivesTheRun` hold
for any finite set of flows and background tasks and any limit.  `CountersExact` is not inductive: that the second counter
update of an admission belongs to the flow that took `total` needs to know which
flow that is.  The strengthening `AcceptLoop` says that the only admitted and not
yet spawned flow is the one the loop is counting, that background tasks hold no
permit, and that the loop is done only with an empty join set.  The proof has one
step per action; the lemmas reduce each to what it does to the sets `Holders` and
`CountedAs`, whose cardinalities change by one or not at all
(`FiniteSetTheorems`).

**Virtual DNS** (`VirtualDnsProofs`).  `TypeCorrect` and `MapsConsistent` hold for
any pool size, any set of names, any journal and any set of faults, from the assumptions of
`VirtualDns`.  The inductive invariant `MapsInv` says that no address occurs
twice in `lru_cache`, that the reverse map is exactly its inverse, and that the
remaining variables keep their types.  The work is in lemmas about sequences
without duplicate addresses: what removing, moving to the end, appending and
taking the tail do to the set of members and to distinctness (`TakenOutElements`
to `TailDistinct`), and from them what touching, adding, dropping, recycling and
restoring do to a pair of inverse maps (`Inverse...`).  A second group
(`JournalWrites` to `OutcomeTypes`) shows that whatever a write leaves on disk is
a journal.

`ReplayIsExact` (`ReplayExact`) holds under the same assumptions.  What a whole journal
restores is not computed by an induction over it: `LiveUpTo(lines, p)` says which of the
first `p` lines no later one of them overrides, one more line changes that set as
`restore_mapping` changes the maps (`Overridden`), and `ReplayInv` is that the maps hold
`LiveUpTo(file.lines, load.pos)` at every moment of the load.  `ActiveIsKept`
(`ActiveKept`) needs only that the address used last is the last of `lru_cache`
(`LastInv`): a full pool of two or more recycles the first.

`JournalIsDurable` (`Durable`) and `JournalImplementsStableMap`
(`StableAcrossRestarts`) are about journals.  `Torn` says that a journal without a final
newline ends with an unreadable line, `Faithful` that a readable one replays to what is
in memory; every outcome of every write leaves a journal that is `Torn`, and `Faithful`
unless the handle is dirty (`Honest`).  `KeptInv` carries this through the steps, and
`CalmInv` says that without faults a handle is never dirty, so what outlives the process
is what the file holds (`StableIsJournal`) and every step is one of `StableMap` or a
stutter (`RefinesStep`).  Both theorems assume `Unrestorable = {}`, and
`JournalIsDurable` that no fault set contains `"unterminated"` or `"keep"`.  The
assumptions are needed: section 7 reports how `Durable` fails in each of the three cases.

**Life cycle** (`LifeCycleProofs`).  `ReadinessTold` and `CaptureRestored` hold for
any set of calls and any set of mishaps.  `LifeInv` adds to the types what a call's place says about
its locals: before its announcement it has told nothing and captured nothing
(`Before`), between it and the cleanup everything is installed and told (`During`),
after it nothing is installed and the message, if any, agrees with the verdict
(`After`).  A step moves one call; `StepOfOne` reduces each of the twenty kinds of
step to that call.

**TCP setup and relay** (`SetupProofs`, `HandshakeProofs`).  `DeliveredHolds`
(`Delivered`) and `NeverRefusedHolds` (`NeverRefused`) hold for any number of sessions,
any kind of proxy, replies and challenges of any length, reads of any size and nonces
that expire any number of times, from `HandshakeAssumption`.  `StreamInv` follows the
stream of one session: while the handler waits, what it holds and what is on the wire
are together the start of the one reply that is due and of what the server says after
it (`Answered`), or the rest of a challenge (`Blocked`), or nothing yet (`Unanswered`);
once it is established they are the server's data from the first on, and in the relay
given, held and unread data follow each other (`RelayOK`).  `SetupProofs` shows for one
session what a read, a complete reply, a skipped body, the switch to the raw connection
and a word of the server make of this, however the pieces are cut.  `DigestInv` is about
all sessions at once: no two answers have the same nonce and count (`AnswersOnce`), a
challenge that was not taken up has a nonce that nobody has used (`ChallengeOnce`), and a
session that was challenged answers by Digest and is challenged again only for a stale
nonce (`Persists`), which is when the handler does not give up.

**DNS over TCP** (`PhysicalProofs`).  `AnswersSolicited` and `TransactionsPlaced` hold for
any id space, limit and set of questions.  `DnsInv` says that transactions are requests
still waited for, one per request (`Transactions`), and, while the upstream is
honest, that no message is in two places, that what travels completes a
transaction, and that the number of messages under way is the number of
transactions (`Matched`); so the queue cannot be full below the limit.  The search
for a free upstream id ends at one because fewer ids are busy than there are
(`UpstreamIdFree`).

**Echo flows** (`FlowProofs`).  `RepliesOwned` and `WorkersBounded` hold for
any set of keys, any limit and any queue.  `EchoInv` says that a stream carries the current request
and nothing else (`OneAtATime`), that a request is with one worker at most and with
none once answered (`Exclusive`), and that the table has every living worker
(`Table`), whose number the limit bounds.

**Process policy** (`FlowProofs`).  `IdentitiesFresh` and `UpdatesSeen` hold
for any number of flows, ports, applications and updates, whether or not reading the table fails.
`PolicyInv` says that the present owner of a flow's port is one of the owners since
its capture, and that every snapshot covering a flow, in the cache or in the running
lookup, names nobody or one of those; and that no flow has seen a revision that was
not announced, which makes every relay out of date at the moment of an
announcement.

**Gateway client** (`GatewayProofs`).  `ConnectionsUnshared` holds for any number
of flows, connections and serial numbers and any pool limit.  `PoolInv` says that the pool and
the heartbeat's list have no repetitions and that they, the probed connection, the
unopened ones and those of the flows have nothing in common; a step moves one
connection.

**Gateway server** (`GatewayProofs`).  `RepliesCurrent` (`NoStaleReply`) and
`RelaysOwned` (`SessionsCurrent`) hold for any connection ids, addresses, queue and
number of generations.  `ServerInv` says who has the delivery lock and that a dropped
client holds nothing (`Locks`), that the generation of an id is the last one handed
out for it unless the id was closed (`Latest`), that a stamped item is for the id of
its generation and the one being written is current (`Stamps`), what is true of a
session while it is being opened (`Serving`), and that a relay at work is in the map
or was told to stop after its id was replaced or closed (`Relays`).  `NoStaleReply`
needs all of it: an item is checked under the lock and written after, and only the
lock keeps the reader from replacing its generation in between.

**Bypass sockets** (`PhysicalProofs`).  `LiveEndpointUnique`, `ActiveFlowsSpared` and
`NewestOwner` hold for any flows, sources, peers, interfaces, owners and limit.
`BypassInv` says that the permit is with the caller whose table is being read or not
yet applied, so that no table older than the newest is applied (`Serialized`), that a
live endpoint is in the pool under its source with the owner of the newest table and a
closed one has no routes (`PoolFits`), and that a relaying flow has its route unless
its endpoint was closed for another reason than idleness (`FlowsFit`).  The assumption
names what a model value could otherwise upset: the sources are finitely many and the
maintenance task is not a flow.

**Physical resolvers** (`PhysicalProofs`).  `SearchConclusive` (`Conclusive`) holds for any
list of resolvers and any questions, names and permits.  `PhysicalInv` says, stage by
stage, what a search's history shows: while it asks, every resolver before the present
one was passed over for a reason, none after it was asked (`Ordered`) and none has
replied; when it ends, it ends with the reply of the present one, or with every
resolver passed over.  The lemmas about the list say that `FirstOf` is the least place,
that every usable resolver has exactly one place, and that there is one, which is what
the assumption `Usable # {}` is for: the resolvers of `PREFERRED_DNS_SERVERS` are.

**Windows routes** (`WindowsRoutesProofs`).  `RowsOwned` (`Ownership`),
`TeardownRestores` (`Restored`) and `BarrierHolds` (`LoopBarrier`) hold for any
destinations, interfaces, physical networks and any set of faults.  `OwnInv`
says that no row of others is ever due for deletion (`Deletable`), that an interface
not recorded as changed has its setting and what is remembered of it is what it was
(`SettingsKept`), and that success is reported only when nothing is left (`Reported`).
`LoopBarrier` needs more, and only where deletions succeed: `Barrier` says that what is
wanted for a destination is in the table or still in the plan of the installation,
whose last row is the capture; that a pending update is about to want only rows that
are there and would take back none that is wanted; and that a refresh has not lost what
it read of the destinations it has not come to.  The lemmas about `Drop`, `InOrder` and
the plan say which rows a sequence of steps has left.

Only model-checked:

* `OwnReplies`: it does not hold for every value of the constants, since a late
  reply is taken for a new one once the serial numbers have gone all the way round
  while it was under way (65536 uses of the pool in the code);
* `Fence` of `QueryOrigins`: which origin a full table gives up is the order of a
  filtered sequence (`SelectSeq`), whose properties need an induction over the sequence;
* all liveness (`SetupEnds` included), which needs fairness and `ENABLED`.

## 7. What the models showed

**A lost newline (`fakeip_newline`).**  `write_cache_record`
(`virtual_dns/persistence.rs:202`) writes a record and then its newline.  A
process that dies between the two leaves a complete last line without one.
`load` accepts that line and sees nothing to repair, so the next append continues
it: the journal then holds one unreadable line in place of two mappings, while
the handle is clean.  The next restart loses both, although persistence is there
so that "application DNS caches survive a proxy process restart"
(`virtual_dns.rs:55`).

**A lost quit token (`api_token`).**  `tun2proxy_stop` takes the token out of
`TUN_QUIT`, so the next call may store its own while the stopped one is still
ending; that one empties `TUN_QUIT` when it returns (`general_api.rs:102`) without
looking whose token is there.  The second session forwards and `tun2proxy_stop`
reports that nothing runs, although a restart that "cancels the previous one and
immediately starts the next" is expected (`general_api.rs:227`).

**A row deleted after its adoption (`routes_offline`).**  An update installs a
provisional row for a destination over a second interface and is rolled back, but
the deletion fails: the row stays on the monitor's list of rollbacks
(`windows_network_config.rs:965`).  The next tick's `reconcile_bypass_routes` finds
that very row, adopts it as the desired one and deletes the old row.  The network
goes offline, the retried rollback succeeds (line 387) and, with no physical path,
nothing is created in its place: the destination has no row while the capture route
stays, although "Offline is not permission to remove the loop barrier" (line 861).
Online, the gap lasts until the next refresh.

Observations without a statement of the repository against them:

* `FaultSets = {{"io", "keep"}}` for `VirtualDns`: after a failed first rewrite the
  handle has a `PersistentCache` that is not dirty, so an embedder that ignores the
  error appends behind a torn line (`virtual_dns.rs:125`).
* `Names` with an element in `Unrestorable`: the root name, canonically empty, gets
  an address and a journal record that `restore_mapping` refuses, so `Durable` fails
  after a restart (`virtual_dns.rs:153`).
* `InitialNames = {}`: no matcher is built, and names set later have no effect on
  that run (`process/mod.rs:163`).
* A runtime that cannot be built leaves its token in `TUN_QUIT`; calls are refused
  until `tun2proxy_stop` takes it (`general_api.rs:65`).
* Nothing calls `reset_connection`: after a challenge that closes the connection the
  HTTP handler's next request goes to the closed connection and the session fails
  (`http.rs:269`).
* A caller of `synchronize` that shares another's checkpoint does not see the error
  which tells that one that events were lost, which is why `Fence` exempts a trace
  that did not get the event.
* Teardown deletes rows in reverse order of ownership, and a bypass that was added or
  refreshed after installation comes after the capture row, so it is deleted before
  it; forwarding has stopped by then, which is why `LoopBarrier` speaks of the time
  until the monitor has stopped.  A row that another program created first is
  borrowed, never owned, which `Ownership` relies on.

## 8. What is not modelled

* Encodings: DNS messages, gateway packets, SOCKS and HTTP bytes, ICMP checksums,
  event payloads, JSON.  The models use the information the code takes from them.
* The route decision per flow: a choice without state, by port, policy and
  configuration, at the place where `Sessions` spawns; the code has no second
  definition of it to check it against.
* The SOCKS5 UDP association (`handle_udp_associate_session`): one loop that owns its
  two sockets and ends with either.  It shares only the counters of `Sessions`.
* `socket_transfer.rs`: a request and a reply of file descriptors with one reader.
* The reading of operating system tables (`process/windows.rs`, `linux.rs`,
  `macos.rs`) is an input.  So are interface detection, socket binding and the
  Windows calls themselves.
* Arguments, error types, logging, `session_info.rs`: no state that changes.
* `android.rs`, `win_svc.rs`, `bin/windows_elevation`: wrappers that call the
  embedding API or start the program again.
* `traffic_status.rs`: counters behind three locks, about whose mutual order the
  code promises nothing.
* `UdpBypass`: shutdown and the shared byte budget.  `UdpGwServer`: the listener.
  `WindowsRoutes`: the variant without IPv4 capture, which starts no monitor.
  `LifeCycle`: argument handling and the variant with an Android file descriptor.
  `QueryOrigins`: the removal of traces left behind by a dead process.

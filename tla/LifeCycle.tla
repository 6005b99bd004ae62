----------------------------- MODULE LifeCycle -----------------------------
(***************************************************************************)
(* The embedding API (general_api.rs), on Windows with --setup: calls that *)
(* start a session through the C interface, with its process-wide quit     *)
(* token and its forced-exit timer, and calls that an embedder awaits, with *)
(* a readiness channel and a token of its own.  Within a call: the checks  *)
(* before any change, adapter, network configuration, readiness,           *)
(* forwarding task, cleanup and verdict.                                   *)
(*                                                                         *)
(* The forwarding task is the subject of Sessions, the network             *)
(* configuration that of WindowsRoutes.                                    *)
(***************************************************************************)
EXTENDS Naturals, FiniteSets, Sequences

CONSTANTS
    Calls,      \* calls that start a session
    Api,        \* those made through the C interface
    CallSets,   \* the calls that are made, in each case considered
    NoCall,     \* no quit token is stored
    Mishaps     \* what may fail

ASSUME LifeCycleAssumption ==
    /\ Api \subseteq Calls /\ CallSets \subseteq SUBSET Calls /\ NoCall \notin Calls
    /\ Mishaps \subseteq {"runtime", "preflight", "device", "network", "forward", "cleanup"}

VARIABLES
    quit,        \* TUN_QUIT: the call whose token it holds
    cancelled,   \* the calls whose token is cancelled
    call,        \* where each call is
    verdict,     \* what a call is going to return
    ready,       \* the messages sent through each readiness channel
    adapter,     \* the calls that hold a reference to their adapter
    forwarding,  \* each call's forwarding task
    capture,     \* each call's network configuration: "none", "installed", "stuck"
    exited       \* the forced-exit timer ended the process

lifeVars == <<quit, cancelled, call, verdict, ready, adapter, forwarding, capture, exited>>

LifeInit ==
    /\ quit = NoCall /\ cancelled = {} /\ adapter = {} /\ exited = FALSE
    /\ \E made \in CallSets : call = [c \in Calls |-> IF c \in made THEN "idle" ELSE "absent"]
    /\ verdict = [c \in Calls |-> "none"]
    /\ ready = [c \in Calls |-> <<>>]
    /\ forwarding = [c \in Calls |-> "none"]
    /\ capture = [c \in Calls |-> "none"]

Moves(c, from, to) == call[c] = from /\ call' = [call EXCEPT ![c] = to]

Returns(c, r) == verdict' = [verdict EXCEPT ![c] = r]

(* The C interface has no readiness channel.                               *)
Tell(c, m) == ready' = IF c \in Api THEN ready ELSE [ready EXCEPT ![c] = Append(@, m)]

(* The adapters the system shows: held by a call or by a forwarding task.  *)
Visible == adapter \cup {c \in Calls : forwarding[c] = "running"}

-----------------------------------------------------------------------------
(* The C interface stores the token of the call, unless there is one.      *)
StartApi(c) ==
    /\ c \in Api
    /\ \/ /\ quit = NoCall
          /\ Moves(c, "idle", "runtime")
          /\ quit' = c /\ UNCHANGED verdict
       \/ /\ quit # NoCall
          /\ Moves(c, "idle", "returned")
          /\ Returns(c, "error") /\ UNCHANGED quit
    /\ UNCHANGED <<cancelled, ready, adapter, forwarding, capture>>

(* A runtime that cannot be created ends the call at once.                 *)
BuildRuntime(c) ==
    /\ \/ Moves(c, "runtime", "preflight") /\ UNCHANGED verdict
       \/ "runtime" \in Mishaps /\ Moves(c, "runtime", "returned") /\ Returns(c, "error")
    /\ UNCHANGED <<quit, cancelled, ready, adapter, forwarding, capture>>

StartEmbedded(c) ==
    /\ c \notin Api
    /\ Moves(c, "idle", "preflight")
    /\ UNCHANGED <<quit, cancelled, verdict, ready, adapter, forwarding, capture>>

(* Options, proxy address, tunnels that are already there and the physical *)
(* egress, before anything is changed.                                     *)
Preflight(c) ==
    /\ \/ Visible = {} /\ Moves(c, "preflight", "device") /\ UNCHANGED verdict
       \/ /\ Visible # {} \/ "preflight" \in Mishaps
          /\ Moves(c, "preflight", "report") /\ Returns(c, "error")
    /\ UNCHANGED <<quit, cancelled, ready, adapter, forwarding, capture>>

CreateDevice(c) ==
    /\ \/ /\ Moves(c, "device", "network")
          /\ adapter' = adapter \cup {c} /\ UNCHANGED verdict
       \/ /\ "device" \in Mishaps
          /\ Moves(c, "device", "report") /\ Returns(c, "error") /\ UNCHANGED adapter
    /\ UNCHANGED <<quit, cancelled, ready, forwarding, capture>>

(* The transaction installs everything, or nothing unless its rollback     *)
(* fails as well; the adapter goes with the error.                         *)
SetupNetwork(c) ==
    /\ \/ /\ Moves(c, "network", "announce")
          /\ capture' = [capture EXCEPT ![c] = "installed"] /\ UNCHANGED verdict
       \/ /\ "network" \in Mishaps
          /\ Moves(c, "network", "release") /\ Returns(c, "error")
          /\ \E left \in {"none"} \cup (IF "cleanup" \in Mishaps THEN {"stuck"} ELSE {}) :
                capture' = [capture EXCEPT ![c] = left]
    /\ UNCHANGED <<quit, cancelled, ready, adapter, forwarding>>

(* Readiness is told, then the forwarding task is spawned and awaited.     *)
Announce(c) ==
    /\ Moves(c, "announce", "spawn")
    /\ Tell(c, "ok")
    /\ UNCHANGED <<quit, cancelled, verdict, adapter, forwarding, capture>>

SpawnForwarding(c) ==
    /\ Moves(c, "spawn", "forwarding")
    /\ forwarding' = [forwarding EXCEPT ![c] = "running"]
    /\ UNCHANGED <<quit, cancelled, verdict, ready, adapter, capture>>

(* Mutant: an error of the task returns at once.                           *)
JoinForwardingReturning(c) ==
    /\ forwarding[c] \in {"ended", "failed"}
    /\ Moves(c, "forwarding", IF forwarding[c] = "failed" THEN "release" ELSE "cleanup")
    /\ Returns(c, IF forwarding[c] = "failed" THEN "error" ELSE "ok")
    /\ UNCHANGED <<quit, cancelled, ready, adapter, forwarding, capture>>

(* However the task ended (a run that reached its session limit counts as  *)
(* failed), routes and DNS are restored next.                              *)
JoinForwarding(c) ==
    /\ forwarding[c] \in {"ended", "failed"}
    /\ Moves(c, "forwarding", "cleanup")
    /\ Returns(c, IF forwarding[c] = "failed" THEN "error" ELSE "ok")
    /\ UNCHANGED <<quit, cancelled, ready, adapter, forwarding, capture>>

(* A cleanup that fails is retried when the guard is dropped, and reported *)
(* also when the retry succeeds.                                           *)
RemoveNetwork(c) ==
    /\ Moves(c, "cleanup", "release")
    /\ \/ capture' = [capture EXCEPT ![c] = "none"] /\ UNCHANGED verdict
       \/ /\ "cleanup" \in Mishaps
          /\ \E left \in {"none", "stuck"} : capture' = [capture EXCEPT ![c] = left]
          /\ Returns(c, "error")
    /\ UNCHANGED <<quit, cancelled, ready, adapter, forwarding>>

(* The last local to go is the reference that keeps the adapter.           *)
ReleaseAdapter(c) ==
    /\ Moves(c, "release", "report")
    /\ adapter' = adapter \ {c}
    /\ UNCHANGED <<quit, cancelled, verdict, ready, forwarding, capture>>

(* Mutant: every error is sent, also after readiness was told.             *)
ReportAlways(c) ==
    /\ Moves(c, "report", IF c \in Api THEN "shutdown" ELSE "returned")
    /\ IF verdict[c] = "error" THEN Tell(c, "error") ELSE UNCHANGED ready
    /\ UNCHANGED <<quit, cancelled, verdict, adapter, forwarding, capture>>

(* An error is sent if readiness was not told.                             *)
Report(c) ==
    /\ Moves(c, "report", IF c \in Api THEN "shutdown" ELSE "returned")
    /\ IF verdict[c] = "error" /\ ready[c] = <<>> THEN Tell(c, "error") ELSE UNCHANGED ready
    /\ UNCHANGED <<quit, cancelled, verdict, adapter, forwarding, capture>>

-----------------------------------------------------------------------------
(* The C interface then drops its runtime, which waits for its blocking    *)
(* jobs, while a timer is armed that would end the process; it cancels the *)
(* timer, waits for it, and empties TUN_QUIT.                              *)
DropRuntime(c) ==
    /\ Moves(c, "shutdown", "forget")
    /\ UNCHANGED <<quit, cancelled, verdict, ready, adapter, forwarding, capture>>

ForceExit(c) ==
    /\ call[c] = "shutdown"
    /\ exited' = TRUE
    /\ UNCHANGED <<quit, cancelled, call, verdict, ready, adapter, forwarding, capture>>

TakeToken(c) ==
    /\ Moves(c, "forget", "returned")
    /\ quit' = NoCall
    /\ UNCHANGED <<cancelled, verdict, ready, adapter, forwarding, capture>>

(* An embedder drops the future where it is pending.  Its locals go in     *)
(* reverse order: the task is aborted, the network guard cleans up, then   *)
(* the adapter is released.  The readiness channel closes with them.       *)
DropFuture(c) ==
    /\ c \notin Api
    /\ Moves(c, "preflight", "dropped") \/ Moves(c, "forwarding", "unwinding")
    /\ UNCHANGED <<quit, cancelled, verdict, ready, adapter, forwarding, capture>>

UnwindNetwork(c) ==
    /\ Moves(c, "unwinding", "unwound")
    /\ \E left \in {"none"} \cup (IF "cleanup" \in Mishaps THEN {"stuck"} ELSE {}) :
          capture' = [capture EXCEPT ![c] = left]
    /\ UNCHANGED <<quit, cancelled, verdict, ready, adapter, forwarding>>

UnwindAdapter(c) ==
    /\ Moves(c, "unwound", "dropped")
    /\ adapter' = adapter \ {c}
    /\ UNCHANGED <<quit, cancelled, verdict, ready, forwarding, capture>>

CallStep(c) ==
    \/ BuildRuntime(c) \/ Preflight(c) \/ CreateDevice(c) \/ SetupNetwork(c)
    \/ Announce(c) \/ SpawnForwarding(c) \/ JoinForwarding(c) \/ RemoveNetwork(c)
    \/ ReleaseAdapter(c) \/ Report(c) \/ DropRuntime(c) \/ TakeToken(c)
    \/ UnwindNetwork(c) \/ UnwindAdapter(c)

-----------------------------------------------------------------------------
(* tun2proxy_stop takes the token, whichever call's it is, and cancels it. *)
Stop ==
    /\ quit # NoCall
    /\ cancelled' = cancelled \cup {quit} /\ quit' = NoCall
    /\ UNCHANGED <<call, verdict, ready, adapter, forwarding, capture>>

CancelOwnToken(c) ==
    /\ c \notin Api /\ call[c] \notin {"idle", "absent"} /\ c \notin cancelled
    /\ cancelled' = cancelled \cup {c}
    /\ UNCHANGED <<quit, call, verdict, ready, adapter, forwarding, capture>>

(* Mutant: the forwarding loop does not look at its token.                 *)
ForwardingStopsOnAbort(c) ==
    /\ forwarding[c] = "running" /\ call[c] \in {"unwinding", "unwound", "dropped"}
    /\ forwarding' = [forwarding EXCEPT ![c] = "ended"]
    /\ UNCHANGED <<quit, cancelled, call, verdict, ready, adapter, capture>>

(* The forwarding task ends when its token is cancelled, also before it    *)
(* started, or when it is aborted (see Sessions).                          *)
ForwardingStops(c) ==
    /\ forwarding[c] = "running"
    /\ c \in cancelled \/ call[c] \in {"unwinding", "unwound", "dropped"}
    /\ forwarding' = [forwarding EXCEPT ![c] = "ended"]
    /\ UNCHANGED <<quit, cancelled, call, verdict, ready, adapter, capture>>

(* It fails, panics or reaches its session limit.                          *)
ForwardingFails(c) ==
    /\ forwarding[c] = "running" /\ "forward" \in Mishaps
    /\ forwarding' = [forwarding EXCEPT ![c] = "failed"]
    /\ UNCHANGED <<quit, cancelled, call, verdict, ready, adapter, capture>>

Alive == ~ exited /\ UNCHANGED exited

LifeNext ==
    \/ \E c \in Calls :
          /\ \/ StartApi(c) \/ StartEmbedded(c) \/ CallStep(c) \/ DropFuture(c)
             \/ CancelOwnToken(c) \/ ForwardingStops(c) \/ ForwardingFails(c)
          /\ Alive
    \/ Stop /\ Alive
    \/ ~ exited /\ \E c \in Calls : ForceExit(c)

(* The threads of a call run, and its forwarding task, once cancelled,     *)
(* ends (see Sessions).                                                    *)
LifeFairness ==
    \A c \in Calls : /\ WF_lifeVars(CallStep(c) /\ Alive)
                     /\ WF_lifeVars(ForwardingStops(c) /\ Alive)

LifeSpec == LifeInit /\ [][LifeNext]_lifeVars /\ LifeFairness

-----------------------------------------------------------------------------
(* "The readiness channel resolves only after device creation and route    *)
(* setup have both succeeded.  Setup failures are returned through the     *)
(* channel as well as from the task": one message, "ok" exactly when the   *)
(* session went on to forward, "error" only with an error returned.        *)
ReadyTold ==
    \A c \in Calls \ Api :
        /\ Len(ready[c]) <= 1
        /\ call[c] \in {"spawn", "forwarding"} =>
              ready[c] = <<"ok">> /\ capture[c] = "installed" /\ c \in adapter
        /\ ready[c] = <<"error">> => verdict[c] = "error" /\ forwarding[c] = "none"
        /\ call[c] = "returned" => ready[c] # <<>>

(* Capture never outlives its call: routes and DNS are restored before the *)
(* last adapter reference is released, however the call ends, and a call   *)
(* that returns success has restored them and has no forwarding task left. *)
CaptureEnds ==
    \A c \in Calls :
        /\ capture[c] = "installed" => c \in adapter
        /\ call[c] \in {"report", "shutdown", "forget", "returned"} =>
              capture[c] # "installed" /\ forwarding[c] # "running"
        /\ verdict[c] = "ok" /\ call[c] = "returned" => capture[c] = "none"

(* A session told to stop ends, also when it was told before it forwarded. *)
StopEnds ==
    \A c \in Calls : c \in cancelled ~> call[c] \in {"returned", "dropped"} \/ exited

(* "Shutdown the tun2proxy component": TUN_QUIT holds the token of every   *)
(* session that forwards and was not stopped, so that tun2proxy_stop       *)
(* reaches it, also after a restart that "cancels the previous one and     *)
(* immediately starts the next".                                           *)
Stoppable == \A c \in Api : call[c] = "forwarding" /\ c \notin cancelled => quit = c
=============================================================================

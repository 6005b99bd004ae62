--------------------------- MODULE LifeCycleProofs ---------------------------
(***************************************************************************)
(* For any number of calls of the embedding API and whatever fails: a call *)
(* tells readiness once and truly, and never leaves the network captured.  *)
(* Then the session counters of src/lib.rs: they are exact for any number  *)
(* of flows and any limit, and nothing survives the end of a run.          *)
(***************************************************************************)
EXTENDS LifeCycle, Sessions, FiniteSetTheorems, TLAPS

Places ==
    {"absent", "idle", "runtime", "preflight", "device", "network", "announce", "spawn",
     "forwarding", "cleanup", "release", "report", "shutdown", "forget", "returned",
     "unwinding", "unwound", "dropped"}

LifeTypes ==
    /\ adapter \subseteq Calls
    /\ call \in [Calls -> Places]
    /\ verdict \in [Calls -> {"none", "ok", "error"}]
    /\ ready \in [Calls -> {<<>>, <<"ok">>, <<"error">>}]
    /\ forwarding \in [Calls -> {"none", "running", "ended", "failed"}]
    /\ capture \in [Calls -> {"none", "installed", "stuck"}]

(* What a readiness channel holds once the session was announced.          *)
Told(c) == IF c \in Api THEN <<>> ELSE <<"ok">>

(* What the progress of a call says about what it has told and holds: the  *)
(* strengthening.  A call before its announcement has no forwarding task;  *)
(* between it and the cleanup everything is installed; after it nothing is.*)
Before(c) ==
    call[c] \in {"absent", "idle", "runtime", "preflight", "device", "network"} =>
        /\ ready[c] = <<>> /\ forwarding[c] = "none" /\ capture[c] = "none"
        /\ c \in adapter <=> call[c] = "network"
        /\ call[c] = "runtime" => c \in Api

During(c) ==
    call[c] \in {"announce", "spawn", "forwarding", "cleanup", "unwinding"} =>
        /\ capture[c] = "installed" /\ c \in adapter
        /\ ready[c] = IF call[c] = "announce" THEN <<>> ELSE Told(c)
        /\ call[c] \in {"announce", "spawn"} <=> forwarding[c] = "none"
        /\ call[c] = "cleanup" => forwarding[c] # "running" /\ verdict[c] # "none"
        /\ call[c] = "unwinding" => c \notin Api

After(c) ==
    call[c] \in {"release", "report", "shutdown", "forget", "returned", "unwound", "dropped"} =>
        /\ capture[c] # "installed"
        /\ call[c] \in {"unwound", "dropped"} => c \notin Api
        /\ call[c] \in {"shutdown", "forget"} => c \in Api
        /\ call[c] \notin {"unwound", "dropped"} =>
              /\ forwarding[c] # "running"
              /\ verdict[c] # "none"
              /\ verdict[c] = "ok" => capture[c] = "none"
        /\ ready[c] = Told(c) \/ (verdict[c] = "error" /\ forwarding[c] = "none" /\ ready[c] = <<>>)
              \/ (ready[c] = <<"error">> /\ verdict[c] = "error" /\ forwarding[c] = "none")
              \/ (call[c] = "dropped" /\ ready[c] = <<>>)
        /\ call[c] = "returned" => c \in Api \/ ready[c] # <<>>
        /\ ready[c] = <<"error">> => call[c] \in {"shutdown", "forget", "returned"}

LifeInv == LifeTypes /\ \A c \in Calls : Before(c) /\ During(c) /\ After(c)

-----------------------------------------------------------------------------
\* What a call's locals were, when a step leaves them alone.
LEMMA OtherCalls ==
    ASSUME NEW c \in Calls, Before(c), During(c), After(c),
           call'[c] = call[c], verdict'[c] = verdict[c], ready'[c] = ready[c],
           forwarding'[c] = forwarding[c], capture'[c] = capture[c],
           c \in adapter' <=> c \in adapter
    PROVE  Before(c)' /\ During(c)' /\ After(c)'
BY ZenonT(30) DEF Before, During, After, Told

\* One message in an empty channel.
LEMMA OneMessage == \A m : Append(<<>>, m) = <<m>> /\ <<m>> # <<>>
OBVIOUS

\* The message of Tell, when the channel was empty.
LEMMA TellOnce ==
    ASSUME LifeInv, NEW c \in Calls, NEW m \in {"ok", "error"}, ready[c] = <<>>, Tell(c, m)
    PROVE  /\ ready' \in [Calls -> {<<>>, <<"ok">>, <<"error">>}]
           /\ ready'[c] = IF c \in Api THEN <<>> ELSE <<m>>
           /\ \A d \in Calls \ {c} : ready'[d] = ready[d]
<1>1. Append(ready[c], m) = <<m>>
  BY OneMessage, ZenonT(30)
<1>2. QED
  BY <1>1, ZenonT(30) DEF LifeInv, LifeTypes, Tell

(* The other calls of a step of call c.                                    *)
Alone(c) ==
    \A d \in Calls \ {c} :
        /\ call'[d] = call[d] /\ verdict'[d] = verdict[d] /\ ready'[d] = ready[d]
        /\ forwarding'[d] = forwarding[d] /\ capture'[d] = capture[d]
        /\ d \in adapter' <=> d \in adapter

Own(c) == Before(c) /\ During(c) /\ After(c)

\* A step of one call preserves the invariant when it does so for that call.
LEMMA StepOfOne ==
    ASSUME LifeInv, NEW c \in Calls, LifeTypes', Own(c)', Alone(c)
    PROVE  LifeInv'
<1>1. ASSUME NEW d \in Calls PROVE Own(d)'
  <2>1. CASE d = c
    BY <2>1, ZenonT(30)
  <2>2. CASE d # c
    BY <2>2, OtherCalls, ZenonT(30) DEF LifeInv, Alone, Own
  <2>3. QED
    BY <2>1, <2>2, ZenonT(30)
<1>2. QED
  BY <1>1, ZenonT(30) DEF LifeInv, Own

-----------------------------------------------------------------------------
\* Every step of a call, and of its forwarding task, preserves the invariant.
LEMMA CallPreserves ==
    ASSUME LifeInv, NEW c \in Calls,
           \/ StartApi(c) \/ StartEmbedded(c) \/ CallStep(c) \/ DropFuture(c)
           \/ CancelOwnToken(c) \/ ForwardingStops(c) \/ ForwardingFails(c)
    PROVE  LifeInv'
<1> USE DEF LifeInv
<1>1. CASE StartApi(c)
  <2>2. LifeTypes'
    BY <1>1, ZenonT(30) DEF LifeTypes, Places, StartApi, Moves, Returns
  <2>3. Own(c)'
    BY <1>1, OneMessage DEF Own, Before, During, After, Told, LifeTypes, StartApi, Moves, Returns
  <2>4. Alone(c)
    BY <1>1, ZenonT(30) DEF Alone, LifeTypes, StartApi, Moves, Returns
  <2>5. QED
    BY <2>2, <2>3, <2>4, StepOfOne, ZenonT(30)
<1>2. CASE BuildRuntime(c)
  <2>2. LifeTypes'
    BY <1>2, ZenonT(30) DEF LifeTypes, Places, BuildRuntime, Moves, Returns
  <2>3. Own(c)'
    BY <1>2, OneMessage DEF Own, Before, During, After, Told, LifeTypes, BuildRuntime, Moves, Returns
  <2>4. Alone(c)
    BY <1>2, ZenonT(30) DEF Alone, LifeTypes, BuildRuntime, Moves, Returns
  <2>5. QED
    BY <2>2, <2>3, <2>4, StepOfOne, ZenonT(30)
<1>3. CASE StartEmbedded(c)
  <2>2. LifeTypes'
    BY <1>3, ZenonT(30) DEF LifeTypes, Places, StartEmbedded, Moves
  <2>3. Own(c)'
    BY <1>3, OneMessage, ZenonT(30) DEF Own, Before, During, After, Told, LifeTypes, StartEmbedded, Moves
  <2>4. Alone(c)
    BY <1>3, ZenonT(30) DEF Alone, LifeTypes, StartEmbedded, Moves
  <2>5. QED
    BY <2>2, <2>3, <2>4, StepOfOne, ZenonT(30)
<1>4. CASE Preflight(c)
  <2>2. LifeTypes'
    BY <1>4, ZenonT(30) DEF LifeTypes, Places, Preflight, Moves, Returns
  <2>3. Own(c)'
    BY <1>4, OneMessage DEF Own, Before, During, After, Told, LifeTypes, Preflight, Moves, Returns
  <2>4. Alone(c)
    BY <1>4, ZenonT(30) DEF Alone, LifeTypes, Preflight, Moves, Returns
  <2>5. QED
    BY <2>2, <2>3, <2>4, StepOfOne, ZenonT(30)
<1>5. CASE CreateDevice(c)
  <2>2. LifeTypes'
    BY <1>5, ZenonT(30) DEF LifeTypes, Places, CreateDevice, Moves, Returns
  <2>3. Own(c)'
    BY <1>5, OneMessage DEF Own, Before, During, After, Told, LifeTypes, CreateDevice, Moves, Returns
  <2>4. Alone(c)
    BY <1>5, ZenonT(30) DEF Alone, LifeTypes, CreateDevice, Moves, Returns
  <2>5. QED
    BY <2>2, <2>3, <2>4, StepOfOne, ZenonT(30)
<1>6. CASE SetupNetwork(c)
  <2>2. LifeTypes'
    BY <1>6 DEF LifeTypes, Places, SetupNetwork, Moves, Returns
  <2>3. Own(c)'
    BY <1>6, OneMessage DEF Own, Before, During, After, Told, LifeTypes, SetupNetwork, Moves, Returns
  <2>4. Alone(c)
    BY <1>6 DEF Alone, LifeTypes, SetupNetwork, Moves, Returns
  <2>5. QED
    BY <2>2, <2>3, <2>4, StepOfOne, ZenonT(30)
<1>7. CASE Announce(c)
  <2>1. ready[c] = <<>> /\ Tell(c, "ok")
    BY <1>7, ZenonT(30) DEF Announce, Moves, During
  <2>2. LifeTypes'
    BY <2>1, TellOnce, <1>7, ZenonT(30) DEF LifeTypes, Places, Announce, Moves
  <2>3. Own(c)'
    BY <2>1, TellOnce, <1>7, OneMessage, ZenonT(30) DEF Own, Before, During, After, Told, LifeTypes, Announce, Moves
  <2>4. Alone(c)
    BY <2>1, TellOnce, <1>7, ZenonT(30) DEF Alone, LifeTypes, Announce, Moves
  <2>5. QED
    BY <2>2, <2>3, <2>4, StepOfOne, ZenonT(30)
<1>8. CASE SpawnForwarding(c)
  <2>2. LifeTypes'
    BY <1>8, ZenonT(30) DEF LifeTypes, Places, SpawnForwarding, Moves
  <2>3. Own(c)'
    BY <1>8, OneMessage, ZenonT(30) DEF Own, Before, During, After, Told, LifeTypes, SpawnForwarding, Moves
  <2>4. Alone(c)
    BY <1>8, ZenonT(30) DEF Alone, LifeTypes, SpawnForwarding, Moves
  <2>5. QED
    BY <2>2, <2>3, <2>4, StepOfOne, ZenonT(30)
<1>9. CASE JoinForwarding(c)
  <2>2. LifeTypes'
    BY <1>9, ZenonT(30) DEF LifeTypes, Places, JoinForwarding, Moves, Returns
  <2>3. Own(c)'
    BY <1>9, OneMessage, ZenonT(30) DEF Own, Before, During, After, Told, LifeTypes, JoinForwarding, Moves, Returns
  <2>4. Alone(c)
    BY <1>9, ZenonT(30) DEF Alone, LifeTypes, JoinForwarding, Moves, Returns
  <2>5. QED
    BY <2>2, <2>3, <2>4, StepOfOne, ZenonT(30)
<1>10. CASE RemoveNetwork(c)
  <2>1. /\ capture' \in [Calls -> {"none", "installed", "stuck"}]
        /\ verdict' \in [Calls -> {"none", "ok", "error"}]
    BY <1>10 DEF LifeTypes, RemoveNetwork, Returns
  <2>2. LifeTypes'
    BY <1>10, <2>1, ZenonT(30) DEF LifeTypes, Places, RemoveNetwork, Moves
  <2>3. Own(c)'
    BY <1>10, OneMessage DEF Own, Before, During, After, Told, LifeTypes, RemoveNetwork, Moves, Returns
  <2>4. Alone(c)
    BY <1>10, ZenonT(30) DEF Alone, LifeTypes, RemoveNetwork, Moves, Returns
  <2>5. QED
    BY <2>2, <2>3, <2>4, StepOfOne, ZenonT(30)
<1>11. CASE ReleaseAdapter(c)
  <2>2. LifeTypes'
    BY <1>11, ZenonT(30) DEF LifeTypes, Places, ReleaseAdapter, Moves
  <2>3. Own(c)'
    BY <1>11, OneMessage, ZenonT(30) DEF Own, Before, During, After, Told, LifeTypes, ReleaseAdapter, Moves
  <2>4. Alone(c)
    BY <1>11, ZenonT(30) DEF Alone, LifeTypes, ReleaseAdapter, Moves
  <2>5. QED
    BY <2>2, <2>3, <2>4, StepOfOne, ZenonT(30)
<1>12. CASE Report(c)
  <2>1. /\ ready' \in [Calls -> {<<>>, <<"ok">>, <<"error">>}]
        /\ verdict[c] = "error" /\ ready[c] = <<>> =>
              ready'[c] = IF c \in Api THEN <<>> ELSE <<"error">>
        /\ ~ (verdict[c] = "error" /\ ready[c] = <<>>) => ready'[c] = ready[c]
        /\ \A d \in Calls \ {c} : ready'[d] = ready[d]
    BY <1>12, TellOnce, ZenonT(30) DEF Report, LifeTypes
  <2>2. LifeTypes'
    BY <2>1, <1>12, ZenonT(30) DEF LifeTypes, Places, Report, Moves
  <2>3. Own(c)'
    <3>1. <<"ok">> # <<>> /\ <<"error">> # <<>> /\ <<"ok">> # <<"error">>
      BY ZenonT(30)
    <3>2. /\ call[c] = "report" /\ After(c)
          /\ call'[c] = IF c \in Api THEN "shutdown" ELSE "returned"
          /\ UNCHANGED <<verdict, forwarding, capture, adapter>>
      BY <1>12, ZenonT(30) DEF Report, Moves, LifeTypes
    <3>3. Before(c)' /\ During(c)'
      BY <3>2, ZenonT(30) DEF Before, During
    <3>4. CASE verdict[c] = "error" /\ ready[c] = <<>>
      <4>1. forwarding[c] = "none" \/ c \in Api
        BY <3>1, <3>2, <3>4, ZenonT(30) DEF After, Told
      <4>2. QED
        BY <2>1, <3>1, <3>2, <3>3, <3>4, <4>1, ZenonT(30) DEF Own, After, Told
    <3>5. CASE ~ (verdict[c] = "error" /\ ready[c] = <<>>)
      <4>1. ready'[c] = ready[c] /\ ready[c] = Told(c)
        BY <2>1, <3>1, <3>2, <3>5, ZenonT(30) DEF After
      <4>2. QED
        BY <3>1, <3>2, <3>3, <4>1, ZenonT(30) DEF Own, After, Told
    <3>6. QED
      BY <3>4, <3>5, ZenonT(30)
  <2>4. Alone(c)
    BY <2>1, <1>12, ZenonT(30) DEF Alone, LifeTypes, Report, Moves
  <2>5. QED
    BY <2>2, <2>3, <2>4, StepOfOne, ZenonT(30)
<1>13. CASE DropRuntime(c)
  <2>2. LifeTypes'
    BY <1>13, ZenonT(30) DEF LifeTypes, Places, DropRuntime, Moves
  <2>3. Own(c)'
    BY <1>13, OneMessage, ZenonT(30) DEF Own, Before, During, After, Told, LifeTypes, DropRuntime, Moves
  <2>4. Alone(c)
    BY <1>13, ZenonT(30) DEF Alone, LifeTypes, DropRuntime, Moves
  <2>5. QED
    BY <2>2, <2>3, <2>4, StepOfOne, ZenonT(30)
<1>14. CASE TakeToken(c)
  <2>2. LifeTypes'
    BY <1>14, ZenonT(30) DEF LifeTypes, Places, TakeToken, Moves
  <2>3. Own(c)'
    BY <1>14, OneMessage, ZenonT(30) DEF Own, Before, During, After, Told, LifeTypes, TakeToken, Moves
  <2>4. Alone(c)
    BY <1>14, ZenonT(30) DEF Alone, LifeTypes, TakeToken, Moves
  <2>5. QED
    BY <2>2, <2>3, <2>4, StepOfOne, ZenonT(30)
<1>15. CASE DropFuture(c)
  <2>2. LifeTypes'
    BY <1>15, ZenonT(30) DEF LifeTypes, Places, DropFuture, Moves
  <2>3. Own(c)'
    <3>1. CASE Moves(c, "preflight", "dropped")
      BY <1>15, <3>1 DEF Own, Before, During, After, LifeTypes, DropFuture, Moves
    <3>2. CASE Moves(c, "forwarding", "unwinding")
      BY <1>15, <3>2, ZenonT(30) DEF Own, Before, During, After, Told, LifeTypes, DropFuture, Moves
    <3>3. QED
      BY <1>15, <3>1, <3>2, ZenonT(30) DEF DropFuture
  <2>4. Alone(c)
    BY <1>15, ZenonT(30) DEF Alone, LifeTypes, DropFuture, Moves
  <2>5. QED
    BY <2>2, <2>3, <2>4, StepOfOne, ZenonT(30)
<1>16. CASE UnwindNetwork(c)
  <2>2. LifeTypes'
    BY <1>16 DEF LifeTypes, Places, UnwindNetwork, Moves
  <2>3. Own(c)'
    BY <1>16, OneMessage DEF Own, Before, During, After, Told, LifeTypes, UnwindNetwork, Moves
  <2>4. Alone(c)
    BY <1>16, ZenonT(30) DEF Alone, LifeTypes, UnwindNetwork, Moves
  <2>5. QED
    BY <2>2, <2>3, <2>4, StepOfOne, ZenonT(30)
<1>17. CASE UnwindAdapter(c)
  <2>2. LifeTypes'
    BY <1>17, ZenonT(30) DEF LifeTypes, Places, UnwindAdapter, Moves
  <2>3. Own(c)'
    BY <1>17, OneMessage, ZenonT(30) DEF Own, Before, During, After, Told, LifeTypes, UnwindAdapter, Moves
  <2>4. Alone(c)
    BY <1>17, ZenonT(30) DEF Alone, LifeTypes, UnwindAdapter, Moves
  <2>5. QED
    BY <2>2, <2>3, <2>4, StepOfOne, ZenonT(30)
<1>18. CASE CancelOwnToken(c)
  <2>2. LifeTypes'
    BY <1>18, ZenonT(30) DEF LifeTypes, Places, CancelOwnToken
  <2>3. Own(c)'
    BY <1>18, OneMessage, ZenonT(30) DEF Own, Before, During, After, Told, LifeTypes, CancelOwnToken
  <2>4. Alone(c)
    BY <1>18, ZenonT(30) DEF Alone, LifeTypes, CancelOwnToken
  <2>5. QED
    BY <2>2, <2>3, <2>4, StepOfOne, ZenonT(30)
<1>19. CASE ForwardingStops(c)
  <2>2. LifeTypes'
    BY <1>19, ZenonT(30) DEF LifeTypes, Places, ForwardingStops
  <2>3. Own(c)'
    BY <1>19, OneMessage, ZenonT(30) DEF Own, Before, During, After, Told, LifeTypes, ForwardingStops
  <2>4. Alone(c)
    BY <1>19, ZenonT(30) DEF Alone, LifeTypes, ForwardingStops
  <2>5. QED
    BY <2>2, <2>3, <2>4, StepOfOne, ZenonT(30)
<1>20. CASE ForwardingFails(c)
  <2>2. LifeTypes'
    BY <1>20, ZenonT(30) DEF LifeTypes, Places, ForwardingFails
  <2>3. Own(c)'
    BY <1>20, OneMessage, ZenonT(30) DEF Own, Before, During, After, Told, LifeTypes, ForwardingFails
  <2>4. Alone(c)
    BY <1>20, ZenonT(30) DEF Alone, LifeTypes, ForwardingFails
  <2>5. QED
    BY <2>2, <2>3, <2>4, StepOfOne, ZenonT(30)
<1>21. QED
  BY <1>1, <1>2, <1>3, <1>4, <1>5, <1>6, <1>7, <1>8, <1>9, <1>10, <1>11, <1>12, <1>13, <1>14, <1>15, <1>16, <1>17, <1>18, <1>19, <1>20, ZenonT(30) DEF CallStep

\* LifeInv is inductive: the remaining steps leave the calls alone.
LEMMA LifePreserves == LifeInv /\ [LifeNext]_lifeVars => LifeInv'
<1> SUFFICES ASSUME LifeInv, [LifeNext]_lifeVars PROVE LifeInv'
  BY ZenonT(30)
<1>1. CASE UNCHANGED <<call, verdict, ready, adapter, forwarding, capture>>
  BY <1>1 DEF LifeInv, LifeTypes, Before, During, After, Told
<1>2. ASSUME NEW c \in Calls,
             \/ StartApi(c) \/ StartEmbedded(c) \/ CallStep(c) \/ DropFuture(c)
             \/ CancelOwnToken(c) \/ ForwardingStops(c) \/ ForwardingFails(c)
      PROVE  LifeInv'
  BY <1>2, CallPreserves, ZenonT(30)
<1>3. CASE Stop
  BY <1>3, <1>1, ZenonT(30) DEF Stop
<1>4. ASSUME NEW c \in Calls, ForceExit(c) PROVE LifeInv'
  BY <1>4, <1>1, ZenonT(30) DEF ForceExit
<1>5. CASE UNCHANGED lifeVars
  BY <1>5, <1>1, ZenonT(30) DEF lifeVars
<1>6. QED
  BY <1>2, <1>3, <1>4, <1>5, ZenonT(30) DEF LifeNext

\* The first state of a process in which no call has run.
LEMMA LifeStarts == LifeInit => LifeInv
BY OneMessage DEF LifeInit, LifeInv, LifeTypes, Places, Before, During, After, Told

\* The invariant holds throughout, whatever fails.
THEOREM LifeInvariant == LifeSpec => []LifeInv
BY LifeStarts, LifePreserves, PTL DEF LifeSpec

\* The readiness channel of tun2proxy's embedders says one thing, and the truth.
THEOREM ReadinessTold == LifeSpec => []ReadyTold
<1>1. LifeInv => ReadyTold
  <2> SUFFICES ASSUME LifeInv, NEW c \in Calls \ Api
               PROVE /\ Len(ready[c]) <= 1
                     /\ call[c] \in {"spawn", "forwarding"} =>
                           ready[c] = <<"ok">> /\ capture[c] = "installed" /\ c \in adapter
                     /\ ready[c] = <<"error">> => verdict[c] = "error" /\ forwarding[c] = "none"
                     /\ call[c] = "returned" => ready[c] # <<>>
    BY ZenonT(30) DEF ReadyTold
  <2>1. Len(ready[c]) <= 1
    <3>1. ready[c] \in {<<>>, <<"ok">>, <<"error">>}
      BY ZenonT(30) DEF LifeInv, LifeTypes
    <3>2. Len(<<>>) <= 1 /\ Len(<<"ok">>) <= 1 /\ Len(<<"error">>) <= 1
      OBVIOUS
    <3>3. QED
      BY <3>1, <3>2, ZenonT(30)
  <2>2. call[c] \in {"spawn", "forwarding"} =>
           ready[c] = <<"ok">> /\ capture[c] = "installed" /\ c \in adapter
    BY ZenonT(30) DEF LifeInv, During, Told
  <2>3. ready[c] = <<"error">> => verdict[c] = "error" /\ forwarding[c] = "none"
    <3> SUFFICES ASSUME ready[c] = <<"error">> PROVE verdict[c] = "error" /\ forwarding[c] = "none"
      BY ZenonT(30)
    <3>1. <<"error">> # <<"ok">> /\ <<"error">> # <<>>
      BY ZenonT(30)
    <3>2. QED
      BY <3>1, ZenonT(30) DEF LifeInv, LifeTypes, Places, Before, During, After, Told
  <2>4. call[c] = "returned" => ready[c] # <<>>
    BY ZenonT(30) DEF LifeInv, After
  <2>5. QED
    BY <2>1, <2>2, <2>3, <2>4, ZenonT(30)
<1>2. QED
  BY <1>1, LifeInvariant, PTL

\* No way a call ends leaves its capture behind its adapter.
THEOREM CaptureRestored == LifeSpec => []CaptureEnds
<1>1. LifeInv => CaptureEnds
  BY ZenonT(30) DEF LifeInv, LifeTypes, Places, Before, During, After, CaptureEnds
<1>2. QED
  BY <1>1, LifeInvariant, PTL

-----------------------------------------------------------------------------
(***************************************************************************)
(* The strengthening: only the flow the accept loop works on is admitted   *)
(* and not spawned, a background task has no permit, and the loop leaves   *)
(* the join only when the JoinSet is empty.                                *)
(***************************************************************************)
AcceptLoop ==
    /\ \A s \in Sessions : task[s] = "admitted" <=> loop = "count" /\ s = accepted
    /\ loop = "admit" => accepted \in Sessions /\ task[accepted] = "idle"
    /\ loop = "count" => accepted \in Sessions
    /\ \A b \in Background : task[b] \in {"idle", "running", "finished"}
    /\ loop = "done" => Managed = {}

AdmissionInv == TypeOK /\ AcceptLoop /\ CountersExact

-----------------------------------------------------------------------------
\* The permit holders form finite sets.
LEMMA HoldersFinite ==
    /\ IsFiniteSet(Holders)
    /\ \A p \in Protocols : IsFiniteSet(CountedAs(p))
    /\ Cardinality(Holders) \in Nat
    /\ \A p \in Protocols : Cardinality(CountedAs(p)) \in Nat
<1>1. IsFiniteSet(Sessions)
  BY SessionsAssumption, ZenonT(30)
<1>2. Holders \subseteq Sessions /\ \A p \in Protocols : CountedAs(p) \subseteq Sessions
  BY ZenonT(30) DEF Holders, CountedAs
<1>3. IsFiniteSet(Holders) /\ \A p \in Protocols : IsFiniteSet(CountedAs(p))
  BY <1>1, <1>2, FS_Subset, ZenonT(30)
<1>4. QED
  BY <1>3, FS_CardinalityType, ZenonT(30)

\* Counters that are exact stay so when neither they nor the holders change.
LEMMA SameHolders ==
    ASSUME CountersExact, UNCHANGED counters, Holders' = Holders,
           \A p \in Protocols : CountedAs(p)' = CountedAs(p)
    PROVE  CountersExact'
BY ZenonT(30) DEF CountersExact, counters

\* A step that neither touches the counters nor moves a session into, out of or
\* within the states that hold a permit.
LEMMA OtherTask ==
    ASSUME AdmissionInv, NEW t \in Tasks, NEW from, NEW to, task[t] = from,
           task' = [task EXCEPT ![t] = to],
           from \in {"idle", "finished"} \/ t \in Background,
           to \in {"idle", "finished"},
           UNCHANGED <<counters, protocol>>
    PROVE  CountersExact'
<1>1. t \in Sessions => task[t] \in {"idle", "finished"}
  BY SessionsAssumption, ZenonT(30)
<1>2. Holders' = Holders
  BY <1>1, SessionsAssumption, ZenonT(30) DEF AdmissionInv, TypeOK, Holders, Tasks
<1>3. \A p \in Protocols : CountedAs(p)' = CountedAs(p)
  BY <1>1, SessionsAssumption, ZenonT(30) DEF AdmissionInv, TypeOK, CountedAs, Tasks
<1>4. QED
  BY <1>2, <1>3, SameHolders, ZenonT(30) DEF AdmissionInv

\* try_update counts a permit.
LEMMA TryAcquireStep ==
    ASSUME AdmissionInv, TryAcquire
    PROVE  CountersExact'
<1>1. accepted \in Sessions /\ task[accepted] = "idle"
  BY ZenonT(30) DEF AdmissionInv, AcceptLoop, TryAcquire
<1>2. Holders' = Holders \cup {accepted} /\ accepted \notin Holders
  BY <1>1, ZenonT(30) DEF AdmissionInv, TypeOK, TryAcquire, Holders, Tasks
<1>3. \A p \in Protocols : CountedAs(p)' = CountedAs(p)
  BY <1>1, ZenonT(30) DEF AdmissionInv, TypeOK, TryAcquire, CountedAs, Tasks
<1>4. Cardinality(Holders') = Cardinality(Holders) + 1
  BY <1>2, HoldersFinite, FS_AddElement, ZenonT(30)
<1>5. total' = total + 1 /\ count' = count /\ total' <= MaxSessions
  <2>1. total < MaxSessions /\ total \in Nat /\ MaxSessions \in Nat
    BY SessionsAssumption, ZenonT(30) DEF TryAcquire, AdmissionInv, TypeOK
  <2>2. QED
    BY <2>1 DEF TryAcquire
<1>6. QED
  BY <1>3, <1>4, <1>5, ZenonT(30) DEF AdmissionInv, CountersExact

\* fetch_add counts the permit under its protocol.
LEMMA SpawnStep ==
    ASSUME AdmissionInv, Spawn
    PROVE  CountersExact'
<1>0. PICK q \in Protocols : q = protocol[accepted]
  BY ZenonT(30) DEF AdmissionInv, AcceptLoop, TypeOK, Spawn
<1>1. accepted \in Sessions /\ task[accepted] = "admitted"
  BY ZenonT(30) DEF AdmissionInv, AcceptLoop, TypeOK, Spawn
<1>2. Holders' = Holders
  BY <1>1, ZenonT(30) DEF AdmissionInv, TypeOK, Spawn, Holders, Tasks
<1>3. /\ CountedAs(q)' = CountedAs(q) \cup {accepted}
      /\ accepted \notin CountedAs(q)
      /\ \A p \in Protocols \ {q} : CountedAs(p)' = CountedAs(p)
  BY <1>0, <1>1, ZenonT(30) DEF AdmissionInv, TypeOK, Spawn, CountedAs, Tasks
<1>4. Cardinality(CountedAs(q) \cup {accepted}) = Cardinality(CountedAs(q)) + 1
  BY <1>1, <1>3, HoldersFinite, FS_AddElement, ZenonT(30)
<1>5. /\ count'[q] = count[q] + 1
      /\ \A p \in Protocols \ {q} : count'[p] = count[p]
      /\ total' = total
  BY <1>0, <1>1, ZenonT(30) DEF AdmissionInv, TypeOK, Spawn
<1>6. \A p \in Protocols : count'[p] = Cardinality(CountedAs(p)')
  <2> SUFFICES ASSUME NEW p \in Protocols PROVE count'[p] = Cardinality(CountedAs(p)')
    BY ZenonT(30)
  <2>1. count[p] = Cardinality(CountedAs(p))
    BY ZenonT(30) DEF AdmissionInv, CountersExact
  <2>2. CASE p = q
    BY <2>1, <2>2, <1>3, <1>4, <1>5, ZenonT(30)
  <2>3. CASE p # q
    BY <2>1, <2>3, <1>3, <1>5, ZenonT(30)
  <2>4. QED
    BY <2>2, <2>3, ZenonT(30)
<1>7. QED
  BY <1>2, <1>5, <1>6, ZenonT(30) DEF AdmissionInv, CountersExact

\* The first half of a drop takes the permit out of its protocol's count.
LEMMA DropPermitStep ==
    ASSUME AdmissionInv, NEW s \in Sessions, DropPermit(s)
    PROVE  CountersExact' /\ count' \in [Protocols -> Nat]
<1>0. PICK q \in Protocols : q = protocol[s]
  BY ZenonT(30) DEF AdmissionInv, TypeOK
<1>1. task[s] = "running"
  BY ZenonT(30) DEF DropPermit
<1>2. Holders' = Holders
  BY <1>1, ZenonT(30) DEF AdmissionInv, TypeOK, DropPermit, Holders, Tasks
<1>3. /\ CountedAs(q)' = CountedAs(q) \ {s}
      /\ s \in CountedAs(q)
      /\ \A p \in Protocols \ {q} : CountedAs(p)' = CountedAs(p)
  BY <1>0, <1>1, ZenonT(30) DEF AdmissionInv, TypeOK, DropPermit, CountedAs, Tasks
<1>4. /\ Cardinality(CountedAs(q) \ {s}) = Cardinality(CountedAs(q)) - 1
      /\ Cardinality(CountedAs(q) \ {s}) \in Nat
  BY <1>1, <1>3, HoldersFinite, FS_RemoveElement, FS_CardinalityType, ZenonT(30)
<1>5. /\ count' = [count EXCEPT ![q] = count[q] - 1]
      /\ total' = total
      /\ count \in [Protocols -> Nat]
  BY <1>0, <1>1, ZenonT(30) DEF AdmissionInv, TypeOK, DropPermit
<1>6. \A p \in Protocols : count'[p] = Cardinality(CountedAs(p)')
  <2> SUFFICES ASSUME NEW p \in Protocols PROVE count'[p] = Cardinality(CountedAs(p)')
    BY ZenonT(30)
  <2>1. count[p] = Cardinality(CountedAs(p))
    BY ZenonT(30) DEF AdmissionInv, CountersExact
  <2>2. CASE p = q
    BY <2>1, <2>2, <1>1, <1>3, <1>4, <1>5, ZenonT(30)
  <2>3. CASE p # q
    BY <2>1, <2>3, <1>1, <1>3, <1>5, ZenonT(30)
  <2>4. QED
    BY <2>2, <2>3, ZenonT(30)
<1>7. count' \in [Protocols -> Nat]
  <2>1. count[q] - 1 \in Nat
    BY <1>1, <1>4, ZenonT(30) DEF AdmissionInv, CountersExact
  <2>2. QED
    BY <2>1, <1>1, <1>5, ZenonT(30)
<1>8. QED
  BY <1>2, <1>5, <1>6, <1>7, ZenonT(30) DEF AdmissionInv, CountersExact

\* The second half of a drop gives the permit back.
LEMMA SessionReleasedStep ==
    ASSUME AdmissionInv, NEW s \in Sessions, SessionReleased(s)
    PROVE  CountersExact' /\ total' \in Nat
<1>1. Holders' = Holders \ {s} /\ s \in Holders
  BY ZenonT(30) DEF AdmissionInv, TypeOK, SessionReleased, Holders, Tasks
<1>2. \A p \in Protocols : CountedAs(p)' = CountedAs(p)
  BY ZenonT(30) DEF AdmissionInv, TypeOK, SessionReleased, CountedAs, Tasks
<1>3. /\ Cardinality(Holders') = Cardinality(Holders) - 1
      /\ Cardinality(Holders') \in Nat
  BY <1>1, HoldersFinite, FS_RemoveElement, FS_CardinalityType, ZenonT(30)
<1>4. total' = total - 1 /\ count' = count /\ total \in Nat /\ MaxSessions \in Nat
  BY SessionsAssumption, ZenonT(30) DEF SessionReleased, AdmissionInv, TypeOK
<1>5. QED
  BY <1>2, <1>3, <1>4 DEF AdmissionInv, CountersExact

-----------------------------------------------------------------------------
\* A step that leaves the tasks and the counters alone keeps the counters exact.
LEMMA SameTasks ==
    ASSUME AdmissionInv, UNCHANGED <<task, counters>>,
           \A s \in Sessions : task[s] # "idle" => protocol'[s] = protocol[s]
    PROVE  CountersExact'
<1>1. Holders' = Holders /\ \A p \in Protocols : CountedAs(p)' = CountedAs(p)
  BY ZenonT(30) DEF Holders, CountedAs
<1>2. QED
  BY <1>1, SameHolders, ZenonT(30) DEF AdmissionInv

\* Every step keeps the strengthened invariant.
LEMMA AdmissionStep == AdmissionInv /\ [Next]_vars => AdmissionInv'
<1> SUFFICES ASSUME AdmissionInv, [Next]_vars PROVE AdmissionInv'
  BY ZenonT(30)
<1> USE SessionsAssumption DEF AdmissionInv
<1>1. ASSUME NEW t \in Tasks, ReapOne(t) \/ JoinOne(t) PROVE AdmissionInv'
  <2>1. CountersExact'
    BY <1>1, OtherTask, ZenonT(30) DEF ReapOne, JoinOne
  <2>2. TypeOK'
    BY <1>1, ZenonT(30) DEF ReapOne, JoinOne, TypeOK, counters, TaskStates
  <2>3. AcceptLoop'
    BY <1>1, ZenonT(30) DEF ReapOne, JoinOne, TypeOK, AcceptLoop, Managed, Tasks
  <2>4. QED
    BY <2>1, <2>2, <2>3, ZenonT(30)
<1>2. CASE ReapDone \/ SelectShutdown \/ SelectError \/ SelectOther \/ Cancel \/ Refuse
  <2>1. UNCHANGED <<task, counters, protocol, aborted, active>>
    BY <1>2, ZenonT(30) DEF ReapDone, SelectShutdown, SelectError, SelectOther, Cancel, Refuse, Break
  <2>2. CountersExact'
    BY <2>1, SameTasks, ZenonT(30)
  <2>3. TypeOK'
    BY <1>2, <2>1, ZenonT(30) DEF ReapDone, SelectShutdown, SelectError, SelectOther, Cancel, Refuse,
                      Break, TypeOK, counters
  <2>4. AcceptLoop'
    BY <1>2, <2>1, ZenonT(30) DEF ReapDone, SelectShutdown, SelectError, SelectOther, Cancel, Refuse,
                      Break, AcceptLoop, Managed
  <2>5. QED
    BY <2>2, <2>3, <2>4, ZenonT(30)
<1>3. ASSUME NEW s \in Sessions, NEW p \in Protocols, SelectStream(s, p) PROVE AdmissionInv'
  <2>1. CountersExact'
    BY <1>3, SameTasks, ZenonT(30) DEF SelectStream, TypeOK
  <2>2. TypeOK'
    BY <1>3, ZenonT(30) DEF SelectStream, TypeOK, counters
  <2>3. AcceptLoop'
    BY <1>3, ZenonT(30) DEF SelectStream, AcceptLoop, Managed
  <2>4. QED
    BY <2>1, <2>2, <2>3, ZenonT(30)
<1>4. CASE TryAcquire
  <2>1. accepted \in Sessions
    BY <1>4, ZenonT(30) DEF TryAcquire, AcceptLoop
  <2>2. TypeOK'
    BY <1>4, <2>1 DEF TryAcquire, TypeOK, TaskStates, Tasks
  <2>3. AcceptLoop'
    BY <1>4, <2>1, ZenonT(30) DEF TryAcquire, TypeOK, AcceptLoop, Managed, Tasks
  <2>4. QED
    BY <1>4, <2>2, <2>3, TryAcquireStep, ZenonT(30)
<1>5. CASE Spawn
  <2>1. accepted \in Sessions /\ protocol[accepted] \in Protocols
    BY <1>5, ZenonT(30) DEF Spawn, AcceptLoop, TypeOK
  <2>2. TypeOK'
    BY <1>5, <2>1 DEF Spawn, TypeOK, TaskStates, Tasks
  <2>3. AcceptLoop'
    BY <1>5, <2>1, ZenonT(30) DEF Spawn, TypeOK, AcceptLoop, Managed, Tasks
  <2>4. QED
    BY <1>5, <2>2, <2>3, SpawnStep, ZenonT(30)
<1>6. CASE AbortAll
  <2>1. CountersExact'
    BY <1>6, SameTasks, ZenonT(30) DEF AbortAll
  <2>2. TypeOK'
    BY <1>6, ZenonT(30) DEF AbortAll, TypeOK, counters
  <2>3. AcceptLoop'
    BY <1>6, ZenonT(30) DEF AbortAll, AcceptLoop, Managed
  <2>4. QED
    BY <2>1, <2>2, <2>3, ZenonT(30)
<1>7. CASE JoinDone
  <2>1. CountersExact'
    BY <1>7, SameTasks, ZenonT(30) DEF JoinDone
  <2>2. TypeOK'
    BY <1>7, ZenonT(30) DEF JoinDone, TypeOK, counters
  <2>3. AcceptLoop'
    BY <1>7, ZenonT(30) DEF JoinDone, AcceptLoop, Managed
  <2>4. QED
    BY <2>1, <2>2, <2>3, ZenonT(30)
<1>8. ASSUME NEW s \in Sessions, DropPermit(s) PROVE AdmissionInv'
  <2>1. CountersExact' /\ count' \in [Protocols -> Nat]
    BY <1>8, DropPermitStep, ZenonT(30)
  <2>2. TypeOK'
    BY <1>8, <2>1, ZenonT(30) DEF DropPermit, TypeOK, TaskStates, Tasks
  <2>3. AcceptLoop'
    BY <1>8, ZenonT(30) DEF DropPermit, TypeOK, AcceptLoop, Managed, Tasks
  <2>4. QED
    BY <2>1, <2>2, <2>3, ZenonT(30)
<1>9. ASSUME NEW s \in Sessions, SessionReleased(s) PROVE AdmissionInv'
  <2>1. CountersExact' /\ total' \in Nat
    BY <1>9, SessionReleasedStep, ZenonT(30)
  <2>2. TypeOK'
    BY <1>9, <2>1, ZenonT(30) DEF SessionReleased, TypeOK, TaskStates, Tasks
  <2>3. AcceptLoop'
    BY <1>9, ZenonT(30) DEF SessionReleased, TypeOK, AcceptLoop, Managed, Tasks
  <2>4. QED
    BY <2>1, <2>2, <2>3, ZenonT(30)
<1>10. ASSUME NEW b \in Background, BackgroundEnds(b) PROVE AdmissionInv'
  <2>1. b \in Tasks
    BY ZenonT(30) DEF Tasks
  <2>2. CountersExact'
    BY <1>10, <2>1, OtherTask, ZenonT(30) DEF BackgroundEnds
  <2>3. TypeOK'
    BY <1>10, <2>1, ZenonT(30) DEF BackgroundEnds, TypeOK, TaskStates, counters
  <2>4. AcceptLoop'
    BY <1>10, <2>1, ZenonT(30) DEF BackgroundEnds, TypeOK, AcceptLoop, Managed, Tasks
  <2>5. QED
    BY <2>2, <2>3, <2>4, ZenonT(30)
<1>11. CASE UNCHANGED vars
  <2>1. CountersExact'
    BY <1>11, SameTasks, ZenonT(30) DEF vars, counters
  <2>2. TypeOK' /\ AcceptLoop'
    BY <1>11, ZenonT(30) DEF vars, TypeOK, AcceptLoop, Managed
  <2>3. QED
    BY <2>1, <2>2, ZenonT(30)
<1>12. QED
  BY <1>1, <1>2, <1>3, <1>4, <1>5, <1>6, <1>7, <1>8, <1>9, <1>10, <1>11, ZenonT(30)
     DEF Next, LoopStep, SessionEnds, SessionStep, SessionCancelled, Done

\* The strengthened invariant holds in every reachable state.
LEMMA AdmissionAlways == Spec => []AdmissionInv
<1>1. Init => AdmissionInv
  <2> SUFFICES ASSUME Init PROVE AdmissionInv
    BY ZenonT(30)
  <2>1. TypeOK
    BY SessionsAssumption, ZenonT(30) DEF Init, TypeOK, TaskStates, Tasks, Protocols
  <2>2. AcceptLoop
    BY SessionsAssumption, ZenonT(30) DEF Init, AcceptLoop, Tasks
  <2>3. Holders = {} /\ \A p \in Protocols : CountedAs(p) = {}
    BY SessionsAssumption, ZenonT(30) DEF Init, Holders, CountedAs, Tasks
  <2>4. CountersExact
    BY <2>3, FS_EmptySet, SessionsAssumption DEF Init, CountersExact
  <2>5. QED
    BY <2>1, <2>2, <2>4, ZenonT(30) DEF AdmissionInv
<1>2. QED
  BY <1>1, AdmissionStep, PTL DEF Spec

\* The session counters are exact in every reachable state, for any set of
\* flows and any limit: max_sessions is never exceeded and no counter wraps.
THEOREM CountersAreExact == Spec => []CountersExact
<1>1. AdmissionInv => CountersExact
  BY ZenonT(30) DEF AdmissionInv
<1>2. QED
  BY <1>1, AdmissionAlways, PTL

\* When the run has returned, no task is left and every permit was given back.
THEOREM NothingSurvivesTheRun == Spec => []NothingSurvives
<1>1. AdmissionInv => NothingSurvives
  <2> SUFFICES ASSUME AdmissionInv, loop = "done"
               PROVE  Managed = {} /\ total = 0 /\ \A p \in Protocols : count[p] = 0
    BY ZenonT(30) DEF NothingSurvives
  <2>1. Managed = {}
    BY ZenonT(30) DEF AdmissionInv, AcceptLoop
  <2>2. Holders = {} /\ \A p \in Protocols : CountedAs(p) = {}
    BY <2>1, ZenonT(30) DEF AdmissionInv, AcceptLoop, TypeOK, Managed, Holders, CountedAs, Tasks
  <2>3. total = 0 /\ \A p \in Protocols : count[p] = 0
    BY <2>2, FS_EmptySet, ZenonT(30) DEF AdmissionInv, CountersExact
  <2>4. QED
    BY <2>1, <2>3, ZenonT(30)
<1>2. QED
  BY <1>1, AdmissionAlways, PTL
=============================================================================

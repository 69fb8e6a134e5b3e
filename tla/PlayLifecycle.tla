----------------------------- MODULE PlayLifecycle -----------------------------
(***************************************************************************)
(* One Studio's Play lifecycle end to end: the broker's transition record  *)
(* (PlayBridge) behind the registry's Studio credentials, the Edit plugin  *)
(* that starts the runner and proves its return (studio_plugin_template    *)
(* and render_studio_plugin), the bridge that runs inside the Play server  *)
(* (play_server_bridge.luau), and Studio itself, which runs the test.      *)
(*                                                                         *)
(* Plugin and Play server reach the broker by HTTP and retry a bounded     *)
(* number of times.  A call is one step at the broker; its reply may be    *)
(* lost, and then the caller either repeats the call, which the broker     *)
(* answers alike, or gives up.  Between two calls of the plugin anything   *)
(* may happen at the broker, at the Play server or in Studio.              *)
(*                                                                         *)
(* A call that the registry or the manager refuses changes nothing but the *)
(* watchdog (Observe).  The plugin's monitor only reads, and is left out.  *)
(* Faults names what may go wrong in a run.                                *)
(***************************************************************************)
EXTENDS PlayBridge

CONSTANT Faults

FaultKinds ==
  {"loss",      \* replies get lost, callers give up
   "delay",     \* a repeated prepare reaches the broker late
   "ttl",       \* a phase outlives its lifetime at the broker
   "watchdog",  \* the Play server's hard watchdog fires
   "lease",     \* the controller's lease goes stale
   "broker",    \* the broker restarts, or retires the session
   "user",      \* the test ends, or fails to start, without the bridge
   "script",    \* the temporary Script cannot be created
   "crash"}     \* the plugin is unloaded

ASSUME FaultAssumption == Faults \subseteq FaultKinds

StartFailures == {"attach_failed", "watchdog_ack_failed", "hard_watchdog_start_failed"}
StopReasons == {"server_stop", "hard_watchdog_stop"}
Reasons == StartFailures \cup StopReasons \cup
           {"hard_watchdog_natural", "hard_watchdog_attached_unready", "none"}

(* peer.active_play, for the controller.                                   *)
NoPlay == [nonce |-> 0, started |-> FALSE, abort |-> FALSE, stopId |-> FALSE,
           stopAsked |-> FALSE, outcome |-> None]
Plays == [nonce : Nonce \cup {0}, started : BOOLEAN, abort : BOOLEAN, stopId : BOOLEAN,
          stopAsked : BOOLEAN, outcome : Outcomes \cup {None}]

(* The test: ExecutePlayModeAsync, and what it returns.                    *)
NoRun == [nonce |-> 0, status |-> "none", reason |-> "none", correlation |-> "none"]
Runs == [nonce : Nonce \cup {0}, status : {"none", "running", "returned"},
         reason : Reasons, correlation : Correlations \cup {"none"}]

VARIABLES
  generation,  \* the session's connection generation
  link,        \* the session at the broker: "up", "down" (disconnected) or "gone"
  fence,       \* session.play_bridge_uncertain: the nonce, or None
  pending,     \* the start request that the session still waits for, or None
  peer,        \* what the plugin's main coroutine is doing
  attempt,     \* why it is settling: from the loop, a recovery or its last try
  granted,     \* the nonce in a prepare reply on its way to the plugin, or 0
  play,        \* peer.active_play
  run,         \* the test in Studio
  server,      \* the Play server's bridge: the call it is making, or "off"
  ready,       \* it has acknowledged its watchdog
  heard        \* it has seen the stop command

sessionVars == <<generation, link, fence, pending>>
peerVars == <<peer, attempt, granted, play>>
serverVars == <<server, ready, heard>>
vars == <<bridgeVars, sessionVars, peerVars, run, serverVars>>

Running == run.status = "running"
Returned == play.nonce # 0 /\ play.started /\ run.nonce = play.nonce /\ run.status = "returned"

(* _authenticate_play_controller: a live session of this generation.  The  *)
(* plugin always holds the generation of the last connection it made.      *)
Controller == link = "up"

-----------------------------------------------------------------------------
(* startPlay asks for a transition.  The operation stays pending at the    *)
(* session until the plugin answers or its caller gives up.                *)
StartPlay(r) ==
  /\ peer = "loop" /\ play = NoPlay /\ ~Running
  /\ Controller /\ pending = None
  /\ PrepareNew(r, generation)
  /\ pending' = r
  /\ fence' = issued'
  /\ peer' = "preparing" /\ granted' = issued'
  /\ UNCHANGED <<generation, link, attempt, play, run, serverVars>>

(* A copy of the same prepare call that the broker executes late.          *)
LatePrepare(r) ==
  /\ "delay" \in Faults
  /\ Controller /\ pending = r
  /\ PrepareRetried(r, generation) \/ PrepareNew(r, generation)
  /\ fence' = bridge'.nonce
  /\ UNCHANGED <<generation, link, pending, peerVars, run, serverVars>>

(* The caller of the start operation has its answer, or stopped waiting.   *)
Forget ==
  /\ pending # None
  /\ pending' = None
  /\ UNCHANGED <<bridgeVars, generation, link, fence, peerVars, run, serverVars>>

(* The reply arrives: the plugin creates its Script and, without yielding, *)
(* spawns the runner.  A Play server comes up with the test.               *)
Launch ==
  /\ peer = "preparing"
  /\ play' = [NoPlay EXCEPT !.nonce = granted, !.started = TRUE]
  /\ run' = [nonce |-> granted, status |-> "running", reason |-> "none",
             correlation |-> "none"]
  /\ server' = "attaching" /\ ready' = FALSE /\ heard' = FALSE
  /\ peer' = "loop" /\ granted' = 0
  /\ UNCHANGED <<bridgeVars, sessionVars, attempt>>

ScriptFails ==
  /\ peer = "preparing" /\ "script" \in Faults
  /\ play' = [NoPlay EXCEPT !.nonce = granted, !.abort = TRUE]
  /\ peer' = "aborting" /\ granted' = 0
  /\ UNCHANGED <<bridgeVars, sessionVars, attempt, run, serverVars>>

(* Every reply to prepare was lost: the plugin never learns the nonce.     *)
PrepareLost ==
  /\ peer = "preparing" /\ "loss" \in Faults
  /\ peer' = "loop" /\ granted' = 0
  /\ UNCHANGED <<bridgeVars, sessionVars, attempt, play, run, serverVars>>

(* A call that ends the transition clears the fence that names it.         *)
UnfencedToZero(n) == IF fence = n THEN 0 ELSE fence

Unfenced(n) == IF fence = n THEN None ELSE fence

(* abortPreparedTransition, at once and then before every poll.            *)
AbortLeavesFence ==
  /\ peer \in {"aborting", "loop"} /\ play.abort
  /\ Controller
  /\ AbortPreAttach(play.nonce)
  /\ UNCHANGED fence
  /\ \/ play' = NoPlay
     \/ "loss" \in Faults /\ UNCHANGED play
  /\ peer' = "loop"
  /\ UNCHANGED <<generation, link, pending, attempt, granted, run, serverVars>>

Abort ==
  /\ peer \in {"aborting", "loop"} /\ play.abort
  /\ Controller
  /\ AbortPreAttach(play.nonce)
  /\ fence' = Unfenced(play.nonce)
  /\ \/ play' = NoPlay
     \/ "loss" \in Faults /\ UNCHANGED play
  /\ peer' = "loop"
  /\ UNCHANGED <<generation, link, pending, attempt, granted, run, serverVars>>

AbortFails ==
  /\ peer = "aborting"
  /\ \/ Controller /\ ~(Current(play.nonce) /\ Untouched(Advanced(bridge))) /\ Observe
     \/ /\ ~Controller \/ "loss" \in Faults
        /\ UNCHANGED bridgeVars
  /\ peer' = "loop"
  /\ UNCHANGED <<sessionVars, attempt, granted, play, run, serverVars>>

(* stopPlay on a test that still runs.                                     *)
StopPlay(s) ==
  /\ peer = "loop" /\ play # NoPlay /\ ~Returned
  /\ Controller
  /\ RequestStop(play.nonce, s)
  /\ \/ play' = [play EXCEPT !.stopAsked = TRUE, !.stopId = TRUE]
     \/ "loss" \in Faults /\ play' = [play EXCEPT !.stopAsked = TRUE]
  /\ UNCHANGED <<sessionVars, peer, attempt, granted, run, serverVars>>

-----------------------------------------------------------------------------
(* finishReturnedTransition reads the host's state and decides what it may *)
(* claim; None is a fatal error.                                           *)
Proved(b) ==
  CASE run.correlation = "play_request_id" ->
         IF run.reason \in StartFailures /\ b.state = "prepared" /\ b.attach = None /\ ~b.stop
           THEN "start_failed_edit_confirmed" ELSE None
    [] run.correlation = "transition_nonce" ->
         IF run.reason # "hard_watchdog_natural" THEN None
         ELSE IF b.state = "attached" /\ b.armed /\ ~b.stop THEN "natural_stop_edit_confirmed"
         ELSE IF /\ b.state = "stop_requested" /\ b.recovery /\ b.armed /\ b.stop
                 /\ ~b.acked /\ b.source \in RecoverySources
           THEN "recovery_natural_stop_edit_confirmed" ELSE None
    [] run.correlation = "stop_command_id" ->
         IF /\ play.stopId /\ run.reason \in StopReasons
            /\ b.state = "stop_acked" /\ b.armed /\ b.acked
           THEN "stopped_edit_confirmed" ELSE None
    [] OTHER -> None

Claim(b) ==
  IF b.nonce # play.nonce THEN None
  ELSE IF b.state # "completed" THEN Proved(b)
  ELSE IF b.outcome = play.outcome THEN play.outcome ELSE None

(* completeTransition binds the first claim it makes.                      *)
Bindable(outcome) == outcome # None /\ play.outcome \in {None, outcome}

ClassifyInLoop ==
  /\ peer = "loop" /\ Returned
  /\ IF Controller THEN Observe ELSE UNCHANGED bridgeVars
  /\ LET bound == Controller /\ Bindable(Claim(bridge'))
     IN  \/ /\ bound
            /\ peer' = "completing" /\ play' = [play EXCEPT !.outcome = Claim(bridge')]
         \/ /\ ~bound \/ "loss" \in Faults
            /\ peer' = "dead" /\ UNCHANGED play
  /\ UNCHANGED <<sessionVars, attempt, granted, run, serverVars>>

Classify ==
  /\ peer \in {"loop", "settling"} /\ Returned
  /\ IF Controller THEN Observe ELSE UNCHANGED bridgeVars
  /\ LET bound == Controller /\ Bindable(Claim(bridge'))
     IN  \/ /\ bound
            /\ peer' = "completing" /\ play' = [play EXCEPT !.outcome = Claim(bridge')]
         \/ /\ ~bound \/ "loss" \in Faults
            /\ peer' = "dead" /\ UNCHANGED play
  /\ UNCHANGED <<sessionVars, attempt, granted, run, serverVars>>

(* The Script is gone and Edit was observed repeatedly: the plugin         *)
(* presents its proof.                                                     *)
BackToWork == /\ peer' = IF attempt = "final" THEN "dead" ELSE "loop"
              /\ attempt' = "loop"

(* A completion that failed is tried again: from the loop, or once more in *)
(* bestEffortFinalize when it was part of a recovery.                      *)
TryAgain == /\ peer' = CASE attempt = "loop" -> "loop"
                         [] attempt = "recovery" -> "settling"
                         [] OTHER -> "dead"
            /\ attempt' = IF attempt = "recovery" THEN "final" ELSE "loop"

ProofCorrelation == run.correlation

CompletePlay ==
  /\ peer = "completing"
  /\ Controller
  /\ Complete(play.nonce, play.outcome, ProofCorrelation)
  /\ fence' = Unfenced(play.nonce)
  /\ play' = NoPlay
  /\ BackToWork
  /\ UNCHANGED <<generation, link, pending, granted, run, serverVars>>

CompleteLost ==
  /\ peer = "completing" /\ "loss" \in Faults
  /\ Controller
  /\ Complete(play.nonce, play.outcome, ProofCorrelation)
  /\ fence' = Unfenced(play.nonce)
  /\ TryAgain
  /\ UNCHANGED <<generation, link, pending, granted, play, run, serverVars>>

CompleteFails ==
  /\ peer = "completing"
  /\ \/ /\ Controller
        /\ ~(/\ Current(play.nonce)
             /\ Completable(Advanced(bridge), play.outcome, ProofCorrelation))
        /\ Observe
     \/ /\ ~Controller \/ "loss" \in Faults
        /\ UNCHANGED bridgeVars
  /\ TryAgain
  /\ UNCHANGED <<sessionVars, granted, play, run, serverVars>>

-----------------------------------------------------------------------------
(* The lease of the plugin's connection runs out at the broker: the        *)
(* session drops its requests and an open transition is to be stopped.     *)
(* MaxGeneration bounds the leases that end.                               *)
LeaseExpires ==
  /\ "lease" \in Faults /\ link = "up" /\ generation < MaxGeneration
  /\ link' = "down"
  /\ pending' = None
  /\ EnterRecovery(generation, "controller_disconnect")
  /\ UNCHANGED <<generation, fence, peerVars, run, serverVars>>

(* A poll is refused: the broker has closed the session, or forgot it.     *)
(* The plugin waits for its own lease to pass and turns to                 *)
(* restoreConnection, which it leaves only with a connection.              *)
PollRefused ==
  /\ peer = "loop" /\ ~Controller
  /\ peer' = "restoring"
  /\ UNCHANGED <<bridgeVars, sessionVars, attempt, granted, play, run, serverVars>>

(* A poll does not come through.                                           *)
PollUnheard ==
  /\ "lease" \in Faults
  /\ peer = "loop" /\ Controller /\ generation < MaxGeneration
  /\ peer' = "restoring"
  /\ UNCHANGED <<bridgeVars, sessionVars, attempt, granted, play, run, serverVars>>

(* The registry replaces the connection.                                   *)
Replaces ==
  /\ peer = "restoring" /\ link \in {"up", "down"} /\ generation < MaxGeneration
  /\ generation' = generation + 1
  /\ link' = "up"
  /\ pending' = None
  /\ EnterRecovery(generation, "generation_replaced")
  /\ UNCHANGED <<fence, attempt, granted, play, run, serverVars>>

(* connect(true) is repeated for ever; a broker that does not know the     *)
(* Studio refuses it every time, and nothing changes.                      *)
Reconnect == Replaces /\ peer' = IF play = NoPlay THEN "loop" ELSE "reconnected"

(* Every reply to it is lost: the next connect(true) is a new attempt with *)
(* a token that the registry has rotated away, and is refused for ever.    *)
ReconnectUnheard == "loss" \in Faults /\ Replaces /\ peer' = "outside"

(* connect(false), which follows a connect(true) that failed: a broker     *)
(* that does not know the Studio registers it, one that made a connection  *)
(* which the plugin has not polled yet hands it over.  It is never sent    *)
(* while a transition is open or uncertain.                                *)
Unpolled == peer = "outside" /\ link = "up"

RegisterDuringPlay ==
  /\ peer \in {"restoring", "outside"} /\ (link = "gone" \/ Unpolled)
  /\ link' = "up" /\ generation' = IF Unpolled THEN generation ELSE 1
  /\ peer' = "loop"
  /\ UNCHANGED <<bridgeVars, fence, pending, attempt, granted, play, run, serverVars>>

Register ==
  /\ peer \in {"restoring", "outside"} /\ (link = "gone" \/ Unpolled)
  /\ play = NoPlay
  /\ link' = "up" /\ generation' = IF Unpolled THEN generation ELSE 1
  /\ peer' = "loop"
  /\ UNCHANGED <<bridgeVars, fence, pending, attempt, granted, play, run, serverVars>>

(* reconcileRecoveryAfterReconnect: the plugin takes over the stop that    *)
(* the reconnect has begun, or dies.                                       *)
TakesOver(b) ==
  b.recovery /\ b.stop /\ (b.source = "controller" => play.stopId \/ play.stopAsked)

Reconcile ==
  /\ peer = "reconnected"
  /\ IF Controller /\ Current(play.nonce) THEN Observe ELSE UNCHANGED bridgeVars
  /\ LET b == bridge'
         known == Controller /\ b.nonce = play.nonce
     IN  \/ /\ known /\ play.abort /\ ~play.started /\ b.outcome = "pre_attach_aborted"
            /\ peer' = "loop" /\ play' = NoPlay /\ UNCHANGED attempt
         \/ /\ known /\ play.started /\ b.state = "completed"
            /\ Returned /\ play.outcome = b.outcome
            /\ peer' = "completing" /\ attempt' = "recovery" /\ UNCHANGED play
         \/ /\ known /\ play.started /\ b.state # "completed" /\ TakesOver(b)
            /\ play' = [play EXCEPT !.stopId = TRUE]
            /\ IF Returned THEN peer' = "settling" /\ attempt' = "recovery"
                           ELSE peer' = "loop" /\ UNCHANGED attempt
         \/ /\ \/ ~known \/ "loss" \in Faults
               \/ ~play.started /\ b.outcome # "pre_attach_aborted"
               \/ play.started /\ b.state = "completed"
                                /\ ~(Returned /\ play.outcome = b.outcome)
               \/ play.started /\ b.state # "completed" /\ ~TakesOver(b)
            /\ peer' = "dead" /\ UNCHANGED <<play, attempt>>
  /\ UNCHANGED <<sessionVars, granted, run, serverVars>>

(* The plugin is unloaded, or an error it did not expect ends its loop.    *)
Crash ==
  /\ "crash" \in Faults /\ peer # "dead"
  /\ peer' = "dead" /\ granted' = 0
  /\ UNCHANGED <<bridgeVars, sessionVars, attempt, play, run, serverVars>>

-----------------------------------------------------------------------------
(* The Play server.  A test that has ended takes its server with it, but a *)
(* call already made may still reach the broker.                           *)
Goes(call) == IF Running THEN call ELSE "off"

EndTest(reason, correlation) ==
  run' = IF Running THEN [run EXCEPT !.status = "returned", !.reason = reason,
                                     !.correlation = correlation]
                    ELSE run

ServerAttaches ==
  /\ server = "attaching"
  /\ Attach(run.nonce, run.nonce)
  /\ \/ server' = Goes("arming")
     \/ "loss" \in Faults /\ server' = Goes("attaching")
  /\ UNCHANGED <<sessionVars, peerVars, run, ready, heard>>

AttachFails ==
  /\ server = "attaching" /\ Running
  /\ "loss" \in Faults \/ ~Current(run.nonce)
  /\ EndTest("attach_failed", "play_request_id")
  /\ server' = "off"
  /\ UNCHANGED <<bridgeVars, sessionVars, peerVars, ready, heard>>

(* The first acknowledgement after attach: the watchdog is armed.          *)
ServerArms ==
  /\ server = "arming"
  /\ ArmWatchdog(run.nonce, run.nonce)
  /\ \/ server' = Goes("polling") /\ ready' = Running
     \/ "loss" \in Faults /\ server' = Goes("arming") /\ UNCHANGED ready
  /\ UNCHANGED <<sessionVars, peerVars, run, heard>>

ArmFails ==
  /\ server = "arming" /\ Running
  /\ "loss" \in Faults \/ ~Authenticated(run.nonce, run.nonce)
  /\ EndTest("watchdog_ack_failed", "play_request_id")
  /\ server' = "off"
  /\ UNCHANGED <<bridgeVars, sessionVars, peerVars, ready, heard>>

(* A failed poll is repeated for as long as the test runs.                 *)
ServerPolls ==
  /\ server = "polling"
  /\ ServerPoll(run.nonce, run.nonce)
  /\ \/ /\ bridge'.state = "stop_requested"
        /\ server' = Goes("acking") /\ heard' = (heard \/ Running)
     \/ /\ bridge'.state # "stop_requested" \/ "loss" \in Faults
        /\ server' = Goes("polling") /\ UNCHANGED heard
  /\ UNCHANGED <<sessionVars, peerVars, run, ready>>

ServerEndsUnacknowledged ==
  /\ server = "acking"
  /\ bridge' = Advanced(bridge)
  /\ EndTest("server_stop", "stop_command_id") /\ server' = "off"
  /\ UNCHANGED <<overdue, issued, sessionVars, peerVars, ready, heard>>

ServerAcks ==
  /\ server = "acking"
  /\ ReceiveStop(run.nonce, run.nonce)
  /\ \/ /\ bridge'.acked
        /\ EndTest("server_stop", "stop_command_id") /\ server' = "off"
     \/ /\ ~bridge'.acked \/ "loss" \in Faults
        /\ server' = Goes("polling") /\ UNCHANGED run
  /\ UNCHANGED <<sessionVars, peerVars, ready, heard>>

AckFails ==
  /\ server = "acking" /\ Running
  /\ "loss" \in Faults \/ ~Authenticated(run.nonce, run.nonce)
  /\ server' = "polling"
  /\ UNCHANGED <<bridgeVars, sessionVars, peerVars, run, ready, heard>>

(* The hard watchdog ends the test, with what the server knows by then; a  *)
(* call that is under way is not taken back.                               *)
WatchdogIgnoresStop ==
  /\ "watchdog" \in Faults /\ Running
  /\ IF ready THEN EndTest("hard_watchdog_natural", "transition_nonce")
              ELSE EndTest("hard_watchdog_start_failed", "play_request_id")
  /\ UNCHANGED <<bridgeVars, sessionVars, peerVars, serverVars>>

HardWatchdog ==
  /\ "watchdog" \in Faults /\ Running
  /\ IF heard THEN EndTest("hard_watchdog_stop", "stop_command_id")
     ELSE IF ready THEN EndTest("hard_watchdog_natural", "transition_nonce")
     ELSE IF server = "arming"
       THEN EndTest("hard_watchdog_attached_unready", "transition_nonce")
     ELSE EndTest("hard_watchdog_start_failed", "play_request_id")
  /\ UNCHANGED <<bridgeVars, sessionVars, peerVars, serverVars>>

(* The user stops the test, or ExecutePlayModeAsync fails.                 *)
EndsWithoutBridge ==
  /\ "user" \in Faults /\ Running
  /\ EndTest("none", "none")
  /\ UNCHANGED <<bridgeVars, sessionVars, peerVars, serverVars>>

-----------------------------------------------------------------------------
(* The broker by itself: its clock, its sweep, and its end.                *)
BridgeExpires == "ttl" \in Faults /\ Expire
                 /\ UNCHANGED <<sessionVars, peerVars, run, serverVars>>

Sweep == Observe /\ UNCHANGED <<sessionVars, peerVars, run, serverVars>>

BrokerRestarts ==
  /\ "broker" \in Faults /\ link # "gone"
  /\ bridge' = NoTransition /\ overdue' = FALSE
  /\ link' = "gone" /\ fence' = None /\ pending' = None
  /\ UNCHANGED <<issued, generation, peerVars, run, serverVars>>

(* _retire_terminal_disconnected_sessions.                                 *)
Retire ==
  /\ "broker" \in Faults
  /\ link = "down" /\ fence = None /\ pending = None
  /\ \/ bridge.state = "absent" /\ UNCHANGED bridgeVars
     \/ RetireCompleted
  /\ link' = "gone"
  /\ UNCHANGED <<generation, fence, pending, peerVars, run, serverVars>>

-----------------------------------------------------------------------------
LifecycleInit ==
  /\ Init
  /\ generation = 1 /\ link = "up" /\ fence = None /\ pending = None
  /\ peer = "loop" /\ attempt = "loop" /\ granted = 0 /\ play = NoPlay
  /\ run = NoRun
  /\ server = "off" /\ ready = FALSE /\ heard = FALSE

PluginSteps == \/ Launch \/ ScriptFails \/ PrepareLost \/ Abort \/ AbortFails \/ Classify
               \/ CompletePlay \/ CompleteLost \/ CompleteFails \/ Reconcile
               \/ PollRefused \/ Reconnect \/ Register

ServerSteps == \/ ServerAttaches \/ AttachFails \/ ServerArms \/ ArmFails
               \/ ServerPolls \/ ServerAcks \/ AckFails

LifecycleNext ==
  \/ \E r \in PlayRequest : StartPlay(r) \/ LatePrepare(r)
  \/ \E s \in StopRequest : StopPlay(s)
  \/ PluginSteps \/ ServerSteps
  \/ Forget \/ LeaseExpires \/ PollUnheard \/ ReconnectUnheard \/ Crash
  \/ HardWatchdog \/ EndsWithoutBridge
  \/ BridgeExpires \/ Sweep \/ BrokerRestarts \/ Retire

LifecycleSpec == LifecycleInit /\ [][LifecycleNext]_vars

(* The plugin's coroutine and the server's loop run while they can, and    *)
(* the hard watchdog was armed before the server's first request.          *)
LifecycleFairness == WF_vars(PluginSteps) /\ WF_vars(ServerSteps) /\ WF_vars(HardWatchdog)

FairLifecycleSpec == LifecycleSpec /\ LifecycleFairness

-----------------------------------------------------------------------------
LifecycleTypeOK ==
  /\ TypeOK
  /\ generation \in 1..MaxGeneration
  /\ link \in {"up", "down", "gone"}
  /\ fence \in Nonce \cup {None}
  /\ pending \in PlayRequest \cup {None}
  /\ peer \in {"loop", "preparing", "aborting", "restoring", "outside", "reconnected",
              "settling", "completing", "dead"}
  /\ attempt \in {"loop", "recovery", "final"}
  /\ granted \in Nonce \cup {0}
  /\ play \in Plays
  /\ run \in Runs
  /\ server \in {"off", "attaching", "arming", "polling", "acking"}
  /\ ready \in BOOLEAN /\ heard \in BOOLEAN

(* What the broker says of the Studio refines what a client may rely on:   *)
(* it never says Edit over a Studio that is playing (broker_state_snapshot *)
(* and lifecycle_summary take a transition that is absent or complete for  *)
(* Edit), and no test is launched while it says so.                        *)
ClaimedMode == CASE link = "gone" -> "none"
                 [] link # "gone" /\ Active(bridge) -> "unsettled"
                 [] OTHER -> "edit"
StudioMode == IF Running THEN "play" ELSE "edit"

Promise == INSTANCE PlayPromise WITH claim <- ClaimedMode, studio <- StudioMode
PromiseSpec == Promise!Spec

(* Other work for the Studio stays fenced for exactly as long as its       *)
(* transition is open, whatever calls get lost, repeated or delayed.       *)
FencedWhileActive ==
  /\ Active(bridge) => fence = bridge.nonce
  /\ fence # None => Active(bridge) /\ fence = bridge.nonce

(* While the session lives, no call abandons, rebinds or reopens its       *)
(* transition (StepKeepsTransition); only a broker that ends forgets it.   *)
TransitionKeptWhileLive == [][link' = "gone" \/ StepKeepsTransition]_vars

(* The outcome that the broker recorded is how the test really ended: a    *)
(* stop outcome only when the server had the stop and ended the test for   *)
(* it, a natural one only when its watchdog did, a failed start only when  *)
(* no server ever attached.                                                *)
OutcomeIsHowItEnded ==
  /\ bridge.outcome = "stopped_edit_confirmed" =>
       run.nonce = bridge.nonce /\ run.reason \in StopReasons /\ heard
  /\ bridge.outcome \in {"natural_stop_edit_confirmed",
                         "recovery_natural_stop_edit_confirmed"} =>
       run.nonce = bridge.nonce /\ run.reason = "hard_watchdog_natural" /\ ~heard
  /\ bridge.outcome = "start_failed_edit_confirmed" =>
       run.nonce = bridge.nonce /\ run.reason \in StartFailures /\ ~ready
  /\ bridge.outcome = "pre_attach_aborted" => run.nonce # bridge.nonce

(* A stop that the plugin knows of ends the test, and the transition.      *)
StopCompletes ==
  play.started /\ play.stopId ~> (play = NoPlay /\ bridge.outcome = "stopped_edit_confirmed")

(* A plugin that asks a broker which forgot its transition to take it back *)
(* keeps asking: it neither completes the transition nor gives it up.      *)
Stranded == peer = "restoring" /\ play # NoPlay /\ link = "gone"

(* A test that was launched does not stay in between: a stop or the hard   *)
(* watchdog ends it, and the plugin completes its transition, gives up, or *)
(* is stranded over a Studio that has stopped.                             *)
TestIsSettled ==
  play.started ~> (~Running /\ (play = NoPlay \/ peer = "dead" \/ Stranded))

(* What docs/PROTOCOL.md says of a lifetime that ends: it moves the        *)
(* transition toward Stop and marks it recovery-only.                      *)
ExpiryIsRecoveryOnly == bridge.source \in ExpirySources /\ Active(bridge) => bridge.recovery

(* What docs/PROTOCOL.md says of a stop: the server acknowledges it before *)
(* it invokes EndTest with it.                                             *)
EndTestAfterReceipt == run.correlation = "stop_command_id" => bridge.acked
=============================================================================

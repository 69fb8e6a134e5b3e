------------------------------ MODULE PlayBridge ------------------------------
(***************************************************************************)
(* PlayBridgeManager (studio_mcp_v2/play_bridge.py) for one Studio: the    *)
(* broker's record of a Play transition, from the token handed to the      *)
(* controller to the proof that Studio is back in Edit.  The manager locks *)
(* per Studio, so each call is one step; records of two Studios share      *)
(* nothing.                                                                *)
(*                                                                         *)
(* This module says nothing of who calls or in which order: Spec lets any  *)
(* caller that holds the credentials make any call.  PlayLifecycle puts    *)
(* the plugin and the Play server on the other side.                       *)
(*                                                                         *)
(* A transition is known by its nonce; the rest of its context never       *)
(* differs when the nonce agrees.  Acknowledgement and completion ids are  *)
(* generated once by their sender, so that "is it the same id" is always   *)
(* "was it done before".  The stop command id is generated once for a      *)
(* transition, so it is the flag stop.  Time is the flag overdue: the      *)
(* lifetime of the current phase (expires_at) is over.                     *)
(***************************************************************************)
EXTENDS Naturals

CONSTANTS
  PlayRequest,     \* ids of the start operations
  StopRequest,     \* ids of the stop operations
  None,            \* no request, server or outcome
  MaxTransitions,  \* bound on the transitions ever prepared
  MaxGeneration    \* bound on the controller's connections

Nonce == 1..MaxTransitions

(* A Play server is named after the nonce of the test that it runs.        *)
Server == Nonce

ExpirySources == {"attach_ttl_watchdog", "play_ttl_watchdog"}
RecoverySources == {"controller_disconnect", "generation_replaced"}
Outcomes == {"stopped_edit_confirmed", "natural_stop_edit_confirmed",
             "recovery_natural_stop_edit_confirmed", "start_failed_edit_confirmed",
             "pre_attach_aborted"}

ASSUME PlayAssumption ==
  /\ None \notin PlayRequest /\ None \notin StopRequest
  /\ None \notin Nonce /\ None \notin Outcomes
  /\ MaxTransitions \in Nat \ {0}
  /\ MaxGeneration \in Nat \ {0}

(* What EndTest's correlation can be equal to.                             *)
Correlations == {"stop_command_id", "transition_nonce", "play_request_id"}

NoTransition ==
  [nonce |-> 0, request |-> None, generation |-> 0, state |-> "absent", attach |-> None,
   burned |-> FALSE, armed |-> FALSE, stop |-> FALSE, source |-> "none", owner |-> None,
   acked |-> FALSE, recovery |-> FALSE, outcome |-> None]

Transitions ==
  [nonce : Nonce \cup {0}, request : PlayRequest \cup {None}, generation : 0..MaxGeneration,
   state : {"absent", "prepared", "attached", "stop_requested", "stop_acked", "completed"},
   attach : Server \cup {None}, burned : BOOLEAN, armed : BOOLEAN, stop : BOOLEAN,
   source : {"none", "controller"} \cup ExpirySources \cup RecoverySources,
   owner : StopRequest \cup {None}, acked : BOOLEAN, recovery : BOOLEAN,
   outcome : Outcomes \cup {None}]

VARIABLES
  bridge,    \* the Studio's transition record
  overdue,   \* its expires_at has passed
  issued     \* nonces generated so far

bridgeVars == <<bridge, overdue, issued>>

Active(b) == b.state \notin {"absent", "completed"}

-----------------------------------------------------------------------------
(* _set_stop_requested: the first source of a stop stays its source.       *)
StopMovesBack(b, source, owner) ==
  [b EXCEPT !.stop = TRUE,
            !.source = IF b.stop THEN @ ELSE source,
            !.owner = IF owner # None THEN owner ELSE @,
            !.state = IF b.state = "completed" THEN @ ELSE "stop_requested"]

SetStopRequested(b, source, owner) ==
  [b EXCEPT !.stop = TRUE,
            !.source = IF b.stop THEN @ ELSE source,
            !.owner = IF owner # None THEN owner ELSE @,
            !.state = IF b.state \in {"completed", "stop_acked"} THEN @ ELSE "stop_requested"]

(* _advance_watchdog, which every call on a current context runs first.    *)
Advanced(b) ==
  IF overdue /\ b.state \in {"prepared", "attached"}
    THEN SetStopRequested(b, IF b.state = "prepared" THEN "attach_ttl_watchdog"
                                                     ELSE "play_ttl_watchdog", None)
    ELSE b

Current(n) == bridge.nonce = n /\ n # 0

(* status, a poll of the record, the sweep, and every refused call: the    *)
(* watchdog moves and nothing else.                                        *)
Observe ==
  /\ bridge' = Advanced(bridge)
  /\ UNCHANGED <<overdue, issued>>

(* The phase's lifetime ends; only these two phases look at it.            *)
Expire ==
  /\ bridge.state \in {"prepared", "attached"}
  /\ ~overdue
  /\ overdue' = TRUE
  /\ UNCHANGED <<bridge, issued>>

(* prepare: a retry of the request that is still prepared gets the same    *)
(* transition; otherwise the previous one must be complete.                *)
PrepareRetried(r, g) ==
  LET b == Advanced(bridge)
  IN  /\ b.request = r /\ b.generation = g /\ b.state = "prepared" /\ ~b.burned
      /\ bridge' = b
      /\ UNCHANGED <<overdue, issued>>

PrepareOverActive(r, g) ==
  /\ issued < MaxTransitions
  /\ issued' = issued + 1
  /\ bridge' = [NoTransition EXCEPT !.nonce = issued', !.request = r, !.generation = g,
                                    !.state = "prepared"]
  /\ overdue' = FALSE

PrepareNew(r, g) ==
  /\ ~Active(bridge)
  /\ issued < MaxTransitions
  /\ issued' = issued + 1
  /\ bridge' = [NoTransition EXCEPT !.nonce = issued', !.request = r, !.generation = g,
                                    !.state = "prepared"]
  /\ overdue' = FALSE

(* attach: the token works once, for one server, until that server first   *)
(* uses the credential it got in exchange.                                 *)
Attach(n, s) ==
  LET b == Advanced(bridge)
  IN  /\ Current(n)
      /\ ~b.burned /\ b.state # "completed"
      /\ \/ /\ b.attach = s
            /\ bridge' = b
         \/ /\ b.attach = None
            /\ b.state \in {"prepared", "stop_requested"}
            /\ bridge' = [b EXCEPT !.attach = s,
                                   !.state = IF @ = "prepared" THEN "attached" ELSE @]
      /\ UNCHANGED <<overdue, issued>>

(* _authenticate_server: the attached server, until completion; its first  *)
(* use burns the bootstrap token.                                          *)
Authenticated(n, s) == Current(n) /\ bridge.attach = s /\ bridge.state # "completed"
Burned(b) == [b EXCEPT !.burned = TRUE]

ServerPoll(n, s) ==
  /\ Authenticated(n, s)
  /\ bridge' = Burned(Advanced(bridge))
  /\ UNCHANGED <<overdue, issued>>

(* server_ack: watchdog_armed starts a fresh lifetime, stop_received       *)
(* acknowledges the pending stop.  A refused acknowledgement has burned    *)
(* the token all the same.                                                 *)
ArmWatchdog(n, s) ==
  LET b == Burned(Advanced(bridge))
      accepted == ~b.armed /\ b.state \in {"attached", "stop_requested"}
  IN  /\ Authenticated(n, s)
      /\ bridge' = IF accepted THEN [b EXCEPT !.armed = TRUE] ELSE b
      /\ overdue' = IF accepted THEN FALSE ELSE overdue
      /\ UNCHANGED issued

ReceiveStop(n, s) ==
  LET b == Burned(Advanced(bridge))
  IN  /\ Authenticated(n, s)
      /\ bridge' = IF b.stop /\ ~b.acked /\ b.state = "stop_requested"
                     THEN [b EXCEPT !.acked = TRUE, !.state = "stop_acked"]
                     ELSE b
      /\ UNCHANGED <<overdue, issued>>

(* request_stop: the controller's stop, or its claim on a stop that a      *)
(* watchdog or a lost connection began.                                    *)
RequestStop(n, r) ==
  LET b == Advanced(bridge)
  IN  /\ Current(n)
      /\ b.state # "completed"
      /\ \/ /\ b.stop /\ b.owner = r
            /\ bridge' = b
         \/ /\ b.stop /\ b.owner = None /\ b.source # "controller"
            /\ bridge' = [b EXCEPT !.owner = r]
         \/ /\ ~b.stop
            /\ bridge' = SetStopRequested(b, "controller", r)
      /\ UNCHANGED <<overdue, issued>>

Untouched(b) == b.state = "prepared" /\ b.attach = None /\ ~b.burned /\ ~b.stop

(* abort_pre_attach, and its exact repetition.                             *)
AbortPreAttach(n) ==
  LET b == Advanced(bridge)
  IN  /\ Current(n)
      /\ \/ b.outcome = "pre_attach_aborted" /\ bridge' = b
         \/ /\ Untouched(b)
            /\ bridge' = [b EXCEPT !.state = "completed", !.outcome = "pre_attach_aborted"]
      /\ UNCHANGED <<overdue, issued>>

(* complete: what each outcome asks of the record and of the correlation.  *)
Accepts(b, outcome, correlation) ==
  CASE outcome = "stopped_edit_confirmed" ->
         b.armed /\ b.stop /\ correlation = "stop_command_id" /\ b.state = "stop_acked" /\ b.acked
    [] outcome = "natural_stop_edit_confirmed" ->
         b.state = "attached" /\ b.armed /\ ~b.stop /\ correlation = "transition_nonce"
    [] outcome = "recovery_natural_stop_edit_confirmed" ->
         /\ b.state = "stop_requested" /\ b.recovery /\ b.armed /\ b.stop
         /\ b.source \in RecoverySources /\ ~b.acked /\ correlation = "transition_nonce"
    [] OTHER ->
         b.state = "prepared" /\ b.attach = None /\ ~b.stop /\ correlation = "play_request_id"

Completable(b, outcome, correlation) ==
  /\ outcome # "pre_attach_aborted"
  /\ IF b.state = "completed" THEN b.outcome = outcome ELSE Accepts(b, outcome, correlation)

Complete(n, outcome, correlation) ==
  LET b == Advanced(bridge)
  IN  /\ Current(n)
      /\ Completable(b, outcome, correlation)
      /\ bridge' = IF b.state = "completed" THEN b
                   ELSE [b EXCEPT !.state = "completed", !.outcome = outcome,
                                  !.recovery = FALSE]
      /\ UNCHANGED <<overdue, issued>>

(* enter_recovery, for the connection generation that prepared it.         *)
Recovered(g, source) ==
  IF Active(bridge) /\ bridge.generation = g
    THEN SetStopRequested([bridge EXCEPT !.recovery = TRUE], source, None)
    ELSE bridge

EnterRecovery(g, source) ==
  /\ bridge' = Recovered(g, source)
  /\ UNCHANGED <<overdue, issued>>

(* retire_completed, when the registry retires the session.                *)
RetireCompleted ==
  /\ bridge.state = "completed"
  /\ bridge' = NoTransition
  /\ UNCHANGED <<overdue, issued>>

-----------------------------------------------------------------------------
Init == bridge = NoTransition /\ overdue = FALSE /\ issued = 0

Next ==
  \/ Observe \/ Expire \/ RetireCompleted
  \/ \E r \in PlayRequest : \E g \in 1..MaxGeneration :
       PrepareRetried(r, g) \/ PrepareNew(r, g)
  \/ \E n \in Nonce :
       \/ \E s \in Server : \/ Attach(n, s) \/ ServerPoll(n, s)
                            \/ ArmWatchdog(n, s) \/ ReceiveStop(n, s)
       \/ \E r \in StopRequest : RequestStop(n, r)
       \/ AbortPreAttach(n)
       \/ \E o \in Outcomes : \E c \in Correlations : Complete(n, o, c)
  \/ \E g \in 1..MaxGeneration : \E source \in RecoverySources : EnterRecovery(g, source)

Spec == Init /\ [][Next]_bridgeVars

-----------------------------------------------------------------------------
(* Every variable keeps its type.                                          *)
TypeOK ==
  /\ bridge \in Transitions
  /\ overdue \in BOOLEAN
  /\ issued \in 0..MaxTransitions

(* A server that acknowledged its watchdog or a stop is the one bound to   *)
(* the transition and its bootstrap token is spent.                        *)
ServerIsBound(b) ==
  /\ b.burned => b.attach # None
  /\ b.armed \/ b.acked => b.burned

(* An acknowledged stop is never moved back, so that the transition can    *)
(* still be completed with it (the comment in _set_stop_requested).        *)
AckedKeepsCompletionPath(b) ==
  /\ b.acked => b.stop /\ b.state \in {"stop_acked", "completed"}
  /\ b.state = "stop_acked" => b.acked

(* The acknowledgements on which a completed transition rests: a stop was  *)
(* received by an armed server, a natural end had no stop pending, a       *)
(* recovery end had one that no server received, and a failed start or an  *)
(* abort never had a server.                                               *)
CompletionHasItsProof(b) ==
  CASE b.outcome = "stopped_edit_confirmed" -> b.armed /\ b.acked
    [] b.outcome = "natural_stop_edit_confirmed" -> b.armed /\ ~b.stop
    [] b.outcome = "recovery_natural_stop_edit_confirmed" ->
         b.armed /\ b.stop /\ ~b.acked
    [] b.outcome = None -> TRUE
    [] OTHER -> b.attach = None /\ ~b.stop

Sound(b) ==
  /\ ServerIsBound(b)
  /\ AckedKeepsCompletionPath(b)
  /\ CompletionHasItsProof(b)
  /\ b.outcome # None <=> b.state = "completed"
  /\ b.stop <=> b.source # "none"
  /\ b.state = "prepared" => ~b.stop /\ b.attach = None
  /\ b.state = "attached" => ~b.stop

(* What the broker may rest a completion on: the record is sound.          *)
RecordSound == Sound(bridge)

(* What no call does to a transition: abandon it before it is complete,    *)
(* give it to another server, change the source or the owner of its stop,  *)
(* or touch it once it is complete.                                        *)
StepKeepsTransition ==
  IF bridge'.nonce = bridge.nonce
    THEN /\ bridge.attach # None => bridge'.attach = bridge.attach
         /\ bridge.owner # None => bridge'.owner = bridge.owner
         /\ bridge.stop => bridge'.stop /\ bridge'.source = bridge.source
         /\ bridge.state = "completed" => bridge' = bridge
    ELSE ~Active(bridge)

TransitionKept == [][StepKeepsTransition]_bridgeVars
=============================================================================

------------------------------ MODULE PlayProofs ------------------------------
(***************************************************************************)
(* Proofs about the Play transition: of the broker's record for any caller *)
(* (PlayBridge), and of the composition with the plugin and the Play       *)
(* server (PlayLifecycle), for any number of transitions, connections and  *)
(* requests, and with every fault.                                         *)
(***************************************************************************)
EXTENDS PlayLifecycle, TLAPS

(* RecordSound is inductive once it says that a record is absent exactly   *)
(* when it has no nonce.                                                   *)
Known(b) ==
  /\ b \in Transitions
  /\ Sound(b)
  /\ b.state = "absent" <=> b.nonce = 0
  /\ b.state = "absent" => b = NoTransition

BridgeInv ==
  /\ Known(bridge)
  /\ overdue \in BOOLEAN
  /\ issued \in 0..MaxTransitions
  /\ bridge.nonce <= issued

-----------------------------------------------------------------------------
LEMMA NoTransitionKnown == Known(NoTransition)
BY PlayAssumption
   DEF Known, Sound, ServerIsBound, AckedKeepsCompletionPath,
       CompletionHasItsProof, Transitions, Server, Nonce, Outcomes, NoTransition

LEMMA BridgeInit == Init => BridgeInv
<1> SUFFICES ASSUME Init PROVE BridgeInv
  OBVIOUS
<1>1. Known(bridge)
  BY NoTransitionKnown DEF Init
<1>2. overdue \in BOOLEAN
  BY DEF Init
<1>3. issued \in 0..MaxTransitions /\ bridge.nonce <= issued
  BY PlayAssumption DEF Init, NoTransition
<1>4. QED
  BY <1>1, <1>2, <1>3 DEF BridgeInv

Sources == {"none", "controller"} \cup ExpirySources \cup RecoverySources
States == {"absent", "prepared", "attached", "stop_requested", "stop_acked", "completed"}

(* A record stays typed when one of its fields is given a value of its     *)
(* type; several fields are several such updates.                          *)
LEMMA TypedUpdate ==
  ASSUME NEW b \in Transitions
  PROVE  /\ [b EXCEPT !.burned = TRUE] \in Transitions
         /\ [b EXCEPT !.armed = TRUE] \in Transitions
         /\ [b EXCEPT !.stop = TRUE] \in Transitions
         /\ [b EXCEPT !.acked = TRUE] \in Transitions
         /\ [b EXCEPT !.recovery = TRUE] \in Transitions
         /\ [b EXCEPT !.recovery = FALSE] \in Transitions
         /\ \A t \in States : [b EXCEPT !.state = t] \in Transitions
         /\ \A s \in Sources : [b EXCEPT !.source = s] \in Transitions
         /\ \A o \in StopRequest \cup {None} : [b EXCEPT !.owner = o] \in Transitions
         /\ \A o \in Outcomes : [b EXCEPT !.outcome = o] \in Transitions
         /\ \A s \in Server : [b EXCEPT !.attach = s] \in Transitions
         /\ \A n \in Nonce : [b EXCEPT !.nonce = n] \in Transitions
         /\ \A r \in PlayRequest : [b EXCEPT !.request = r] \in Transitions
         /\ \A g \in 0..MaxGeneration : [b EXCEPT !.generation = g] \in Transitions
<1>1. [b EXCEPT !.burned = TRUE] \in Transitions
  BY DEF Transitions
<1>14. [b EXCEPT !.armed = TRUE] \in Transitions
  BY DEF Transitions
<1>15. [b EXCEPT !.stop = TRUE] \in Transitions
  BY DEF Transitions
<1>2. [b EXCEPT !.acked = TRUE] \in Transitions
  BY DEF Transitions
<1>12. [b EXCEPT !.recovery = TRUE] \in Transitions
  BY DEF Transitions
<1>13. [b EXCEPT !.recovery = FALSE] \in Transitions
  BY DEF Transitions
<1>3. \A t \in States : [b EXCEPT !.state = t] \in Transitions
  BY DEF Transitions, States
<1>4. \A s \in Sources : [b EXCEPT !.source = s] \in Transitions
  BY DEF Transitions, Sources
<1>5. \A o \in StopRequest \cup {None} : [b EXCEPT !.owner = o] \in Transitions
  BY DEF Transitions
<1>6. \A o \in Outcomes : [b EXCEPT !.outcome = o] \in Transitions
  BY DEF Transitions
<1>7. \A s \in Server : [b EXCEPT !.attach = s] \in Transitions
  BY DEF Transitions
<1>8. \A n \in Nonce : [b EXCEPT !.nonce = n] \in Transitions
  BY DEF Transitions
<1>9. \A r \in PlayRequest : [b EXCEPT !.request = r] \in Transitions
  BY DEF Transitions
<1>10. \A g \in 0..MaxGeneration : [b EXCEPT !.generation = g] \in Transitions
  BY DEF Transitions
<1>11. QED
  BY <1>1, <1>2, <1>3, <1>4, <1>5, <1>6, <1>7, <1>8, <1>9, <1>10, <1>12, <1>13,
     <1>14, <1>15

(* A stop that is bound to a record that may have one.                     *)
LEMMA StopTyped ==
  ASSUME NEW b \in Transitions, NEW source \in Sources, NEW owner \in StopRequest \cup {None}
  PROVE  SetStopRequested(b, source, owner) \in Transitions
<1> DEFINE s == IF b.stop THEN b.source ELSE source
           o == IF owner # None THEN owner ELSE b.owner
           t == IF b.state \in {"completed", "stop_acked"} THEN b.state ELSE "stop_requested"
           b1 == [b EXCEPT !.stop = TRUE]
           b2 == [b1 EXCEPT !.source = s]
           b3 == [b2 EXCEPT !.owner = o]
<1>1. s \in Sources
  BY DEF Transitions, Sources
<1>2. o \in StopRequest \cup {None}
  BY DEF Transitions
<1>3. t \in States
  BY DEF Transitions, States
<1>4. SetStopRequested(b, source, owner) = [b3 EXCEPT !.state = t]
  BY DEF SetStopRequested
<1> HIDE DEF s, o, t
<1>5. b1 \in Transitions
  BY TypedUpdate
<1> HIDE DEF b1
<1>6. b2 \in Transitions
  BY <1>1, <1>5, TypedUpdate
<1> HIDE DEF b2
<1>7. b3 \in Transitions
  BY <1>2, <1>6, TypedUpdate
<1> HIDE DEF b3
<1>8. QED
  BY <1>3, <1>4, <1>7, TypedUpdate

LEMMA StopKnown ==
  ASSUME NEW b, Known(b), Active(b),
         NEW source \in Sources, source # "none", NEW owner \in StopRequest \cup {None}
  PROVE  /\ Known(SetStopRequested(b, source, owner))
         /\ Active(SetStopRequested(b, source, owner))
         /\ SetStopRequested(b, source, owner).nonce = b.nonce
         /\ SetStopRequested(b, source, owner).outcome = b.outcome
<1> DEFINE c == SetStopRequested(b, source, owner)
<1>1. b \in Transitions /\ c \in Transitions
  BY StopTyped DEF Known
<1>2. /\ c.stop = TRUE /\ c.source = (IF b.stop THEN b.source ELSE source)
      /\ c.state = (IF b.state \in {"completed", "stop_acked"} THEN b.state ELSE "stop_requested")
      /\ c.nonce = b.nonce /\ c.outcome = b.outcome /\ c.attach = b.attach
      /\ c.burned = b.burned /\ c.armed = b.armed /\ c.acked = b.acked
  BY <1>1 DEF SetStopRequested, Transitions
<1> HIDE DEF c
<1>3. Active(c)
  BY <1>2 DEF Active
<1>4. Sound(c)
  BY <1>1, <1>2, PlayAssumption
     DEF Known, Sound, ServerIsBound, AckedKeepsCompletionPath, CompletionHasItsProof,
         Transitions, Active, Outcomes
<1>5. c.state # "absent" /\ c.nonce # 0
  BY <1>2 DEF Active, Known
<1>6. QED
  BY <1>1, <1>2, <1>3, <1>4, <1>5 DEF Known, c

(* The watchdog keeps the record known, and its identity.                  *)
LEMMA AdvancedKnown ==
  ASSUME NEW b, Known(b)
  PROVE  /\ Known(Advanced(b))
         /\ Advanced(b).nonce = b.nonce
         /\ Active(b) <=> Active(Advanced(b))
         /\ Advanced(b).outcome = b.outcome
<1>1. CASE overdue /\ b.state \in {"prepared", "attached"}
  <2>1. Active(b)
    BY <1>1 DEF Active
  <2>2. CASE b.state = "prepared"
    BY <1>1, <2>1, <2>2, StopKnown DEF Advanced, Sources, ExpirySources
  <2>3. CASE b.state = "attached"
    BY <1>1, <2>1, <2>3, StopKnown DEF Advanced, Sources, ExpirySources
  <2>4. QED
    BY <1>1, <2>2, <2>3
<1>2. CASE ~(overdue /\ b.state \in {"prepared", "attached"})
  BY <1>2 DEF Advanced
<1>3. QED
  BY <1>1, <1>2

(* What the server's calls make of a record.                               *)
LEMMA BurnedKnown ==
  ASSUME NEW b, Known(b), b.attach # None
  PROVE  /\ Known(Burned(b)) /\ Burned(b).burned
         /\ \A f \in {"nonce", "state", "attach", "outcome"} : Burned(b)[f] = b[f]
         /\ Burned(b).armed = b.armed /\ Burned(b).acked = b.acked /\ Burned(b).stop = b.stop
<1> DEFINE c == Burned(b)
<1>1. b \in Transitions /\ c \in Transitions
  BY TypedUpdate DEF Known, Burned
<1>2. /\ c.burned = TRUE /\ c.armed = b.armed /\ c.acked = b.acked /\ c.stop = b.stop
      /\ c.nonce = b.nonce /\ c.state = b.state /\ c.attach = b.attach
      /\ c.outcome = b.outcome /\ c.source = b.source
  BY <1>1 DEF Burned, Transitions
<1>3. b.state # "absent"
  BY DEF Known, NoTransition
<1> HIDE DEF c
<1>4. Sound(c)
  BY <1>1, <1>2
     DEF Known, Sound, ServerIsBound, AckedKeepsCompletionPath, CompletionHasItsProof,
         Transitions, Outcomes
<1>5. QED
  BY <1>1, <1>2, <1>3, <1>4 DEF Known, c

LEMMA ArmedKnown ==
  ASSUME NEW b, Known(b), b.burned
  PROVE  /\ Known([b EXCEPT !.armed = TRUE])
         /\ \A f \in {"nonce", "state", "outcome"} : [b EXCEPT !.armed = TRUE][f] = b[f]
<1> DEFINE c == [b EXCEPT !.armed = TRUE]
<1>1. b \in Transitions /\ c \in Transitions
  BY TypedUpdate DEF Known
<1>2. /\ c.burned = b.burned /\ c.armed = TRUE /\ c.acked = b.acked /\ c.stop = b.stop
      /\ c.nonce = b.nonce /\ c.state = b.state /\ c.attach = b.attach
      /\ c.outcome = b.outcome /\ c.source = b.source
  BY <1>1 DEF Transitions
<1>3. b.state # "absent"
  BY DEF Known, NoTransition
<1> HIDE DEF c
<1>4. Sound(c)
  BY <1>1, <1>2
     DEF Known, Sound, ServerIsBound, AckedKeepsCompletionPath, CompletionHasItsProof,
         Transitions, Outcomes
<1>5. QED
  BY <1>1, <1>2, <1>3, <1>4 DEF Known, c

Acked(b) == [b EXCEPT !.acked = TRUE, !.state = "stop_acked"]

LEMMA AckedKnown ==
  ASSUME NEW b, Known(b), b.burned, b.stop, b.state = "stop_requested"
  PROVE  /\ Known(Acked(b)) /\ Acked(b).nonce = b.nonce
         /\ Acked(b).outcome = b.outcome /\ Active(Acked(b))
<1> DEFINE c == [b EXCEPT !.acked = TRUE, !.state = "stop_acked"]
<1>1. b \in Transitions /\ c \in Transitions
  <2>1. c = [[b EXCEPT !.acked = TRUE] EXCEPT !.state = "stop_acked"]
    OBVIOUS
  <2>2. QED
    BY <2>1, TypedUpdate DEF Known, States
<1>2. /\ c.burned = b.burned /\ c.armed = b.armed /\ c.acked = TRUE /\ c.stop = b.stop
      /\ c.nonce = b.nonce /\ c.state = "stop_acked" /\ c.attach = b.attach
      /\ c.outcome = b.outcome /\ c.source = b.source
  BY <1>1 DEF Transitions
<1> HIDE DEF c
<1>3. Sound(c)
  BY <1>1, <1>2, PlayAssumption
     DEF Known, Sound, ServerIsBound, AckedKeepsCompletionPath, CompletionHasItsProof,
         Transitions, Outcomes
<1>4. Known(c) /\ c.nonce = b.nonce /\ c.outcome = b.outcome /\ Active(c)
  BY <1>1, <1>2, <1>3 DEF Known, Active
<1>5. QED
  BY <1>4 DEF c, Acked

(* A server that attaches.                                                 *)
Attached(b, s) ==
  [b EXCEPT !.attach = s, !.state = IF @ = "prepared" THEN "attached" ELSE @]

LEMMA AttachedKnown ==
  ASSUME NEW b, Known(b), b.attach = None, b.state \in {"prepared", "stop_requested"},
         NEW s \in Server
  PROVE  /\ Known(Attached(b, s)) /\ Attached(b, s).nonce = b.nonce
         /\ Attached(b, s).outcome = b.outcome /\ Active(Attached(b, s))
<1> DEFINE t == IF b.state = "prepared" THEN "attached" ELSE b.state
           c == Attached(b, s)
<1>0. c = [b EXCEPT !.attach = s, !.state = t]
  BY DEF Attached
<1> HIDE DEF c
<1>1. b \in Transitions /\ t \in States
  BY DEF Known, States
<1> HIDE DEF t
<1>2. c \in Transitions
  <2> DEFINE a == [b EXCEPT !.attach = s]
  <2>1. c = [a EXCEPT !.state = t]
    BY <1>0
  <2>2. a \in Transitions
    BY <1>1, TypedUpdate
  <2> HIDE DEF a
  <2>3. \A u \in States : [a EXCEPT !.state = u] \in Transitions
    BY <2>2, TypedUpdate
  <2>4. QED
    BY <1>1, <2>1, <2>3
<1>3. /\ c.burned = b.burned /\ c.armed = b.armed /\ c.acked = b.acked /\ c.stop = b.stop
      /\ c.nonce = b.nonce /\ c.state = t /\ c.attach = s
      /\ c.outcome = b.outcome /\ c.source = b.source
  BY <1>0, <1>1, <1>2 DEF Transitions
<1>4. Sound(c)
  BY <1>1, <1>2, <1>3, PlayAssumption
     DEF t, Known, Server, Sound, ServerIsBound, AckedKeepsCompletionPath,
         CompletionHasItsProof,
         Transitions, Outcomes
<1>5. QED
  BY <1>1, <1>2, <1>3, <1>4 DEF t, c, Known, Active

(* A transition that completes, on what the record must hold for it.       *)
Closed(b, o) == [b EXCEPT !.state = "completed", !.outcome = o]
Settled(b, o) == [Closed(b, o) EXCEPT !.recovery = FALSE]

LEMMA CompletedKnown ==
  ASSUME NEW b, Known(b), Active(b), NEW o \in Outcomes,
         \/ o = "pre_attach_aborted" /\ Untouched(b)
         \/ o # "pre_attach_aborted" /\ \E c \in Correlations \cup {"none"} : Accepts(b, o, c)
  PROVE  /\ Known(Closed(b, o)) /\ Closed(b, o).nonce = b.nonce
         /\ Closed(b, o).outcome = o /\ ~Active(Closed(b, o))
         /\ Known(Settled(b, o)) /\ Settled(b, o).nonce = b.nonce
         /\ Settled(b, o).outcome = o /\ ~Active(Settled(b, o))
<1> DEFINE d == [b EXCEPT !.state = "completed", !.outcome = o]
           c == [d EXCEPT !.recovery = FALSE]
<1>1. d \in Transitions /\ c \in Transitions /\ b \in Transitions
  <2>1. d = [[b EXCEPT !.state = "completed"] EXCEPT !.outcome = o]
    OBVIOUS
  <2>2. d \in Transitions
    BY <2>1, TypedUpdate DEF Known, States
  <2>3. QED
    BY <2>2, TypedUpdate DEF Known
<1>2. /\ d.burned = b.burned /\ d.armed = b.armed /\ d.acked = b.acked /\ d.stop = b.stop
      /\ d.nonce = b.nonce /\ d.state = "completed" /\ d.attach = b.attach
      /\ d.outcome = o /\ d.source = b.source
  BY <1>1 DEF Transitions
<1> HIDE DEF d
<1>3. /\ c.burned = d.burned /\ c.armed = d.armed /\ c.acked = d.acked /\ c.stop = d.stop
      /\ c.nonce = d.nonce /\ c.state = d.state /\ c.attach = d.attach
      /\ c.outcome = d.outcome /\ c.source = d.source
  BY <1>1 DEF Transitions
<1> HIDE DEF c
<1>4. Sound(d)
  BY <1>1, <1>2, PlayAssumption
     DEF Known, Untouched, Accepts, Correlations, Sound, ServerIsBound,
         AckedKeepsCompletionPath, CompletionHasItsProof,
         Transitions, Outcomes
<1>5. Sound(c)
  BY <1>3, <1>4
     DEF Sound, ServerIsBound, AckedKeepsCompletionPath, CompletionHasItsProof
<1>6. b.nonce # 0
  BY DEF Known, Active
<1>7. /\ Known(d) /\ d.nonce = b.nonce /\ d.outcome = o /\ ~Active(d)
      /\ Known(c) /\ c.nonce = b.nonce /\ c.outcome = o /\ ~Active(c)
  BY <1>1, <1>2, <1>3, <1>4, <1>5, <1>6 DEF Known, Active
<1>8. QED
  BY <1>7 DEF c, d, Closed, Settled

-----------------------------------------------------------------------------
(* Most calls leave the identity of the transition, its outcome and        *)
(* whether it is open as they are.                                         *)
Quiet == /\ Active(bridge') <=> Active(bridge)
         /\ bridge'.nonce = bridge.nonce
         /\ bridge'.outcome = bridge.outcome
         /\ UNCHANGED issued

(* What remains to be shown of a call on the record, once the new record   *)
(* is known.                                                               *)
LEMMA QuietSuffices ==
  ASSUME BridgeInv, Known(bridge'), bridge'.nonce = bridge.nonce,
         bridge'.outcome = bridge.outcome, Active(bridge') <=> Active(bridge),
         UNCHANGED issued, UNCHANGED overdue \/ overdue' = TRUE \/ overdue' = FALSE
  PROVE  BridgeInv' /\ Quiet
<1>1. overdue' \in BOOLEAN
  BY DEF BridgeInv
<1>2. QED
  BY <1>1 DEF BridgeInv, Quiet

LEMMA ObserveQuiet == BridgeInv /\ Observe => BridgeInv' /\ Quiet
<1> SUFFICES ASSUME BridgeInv, Observe PROVE BridgeInv' /\ Quiet
  OBVIOUS
<1>1. /\ Known(bridge') /\ bridge'.nonce = bridge.nonce /\ bridge'.outcome = bridge.outcome
      /\ Active(bridge') <=> Active(bridge)
      /\ UNCHANGED <<overdue, issued>>
  BY AdvancedKnown DEF Observe, BridgeInv
<1>2. QED
  BY <1>1, QuietSuffices

LEMMA ExpireQuiet == BridgeInv /\ Expire => BridgeInv' /\ Quiet
<1> SUFFICES ASSUME BridgeInv, Expire PROVE BridgeInv' /\ Quiet
  OBVIOUS
<1>1. bridge' = bridge /\ overdue' = TRUE /\ UNCHANGED issued
  BY DEF Expire
<1>2. QED
  BY <1>1, QuietSuffices DEF BridgeInv

LEMMA PrepareRetriedQuiet ==
  ASSUME NEW r, NEW g, BridgeInv, PrepareRetried(r, g)
  PROVE  BridgeInv' /\ Quiet /\ Active(bridge)
<1>1. Observe
  BY DEF PrepareRetried, Observe
<1>2. Active(bridge')
  BY DEF PrepareRetried, Active
<1>3. QED
  BY <1>1, <1>2, ObserveQuiet DEF Quiet

LEMMA AttachQuiet ==
  ASSUME NEW n \in Nonce, NEW s \in Server, BridgeInv, Attach(n, s)
  PROVE  BridgeInv' /\ Quiet
<1> DEFINE b == Advanced(bridge)
<1>1. /\ Known(b) /\ b.nonce = bridge.nonce /\ b.outcome = bridge.outcome
      /\ Active(b) <=> Active(bridge)
  BY AdvancedKnown DEF BridgeInv
<1>2. \/ bridge' = b
      \/ /\ b.attach = None /\ b.state \in {"prepared", "stop_requested"}
         /\ bridge' = [b EXCEPT !.attach = s,
                                !.state = IF @ = "prepared" THEN "attached" ELSE @]
  BY DEF Attach
<1>3. UNCHANGED <<overdue, issued>>
  BY DEF Attach
<1> HIDE DEF b
<1>4. CASE bridge' = b
  BY <1>1, <1>3, <1>4, QuietSuffices
<1>5. CASE bridge' # b
  <2>1. Active(b)
    BY <1>2, <1>5 DEF Active
  <2>2. /\ Known(bridge') /\ bridge'.nonce = b.nonce /\ bridge'.outcome = b.outcome
        /\ Active(bridge')
    <3>1. bridge' = Attached(b, s)
      BY <1>2, <1>5 DEF Attached
    <3>2. QED
      BY <1>1, <1>2, <1>5, <3>1, AttachedKnown
  <2>3. QED
    BY <1>1, <1>3, <2>1, <2>2, QuietSuffices
<1>6. QED
  BY <1>4, <1>5

(* The record of an authenticated server, its token spent.                 *)
LEMMA ServerRecord ==
  ASSUME NEW n \in Nonce, NEW s \in Server, BridgeInv, Authenticated(n, s)
  PROVE  LET b == Burned(Advanced(bridge))
         IN  /\ Known(b) /\ b.burned /\ b.nonce = bridge.nonce /\ b.outcome = bridge.outcome
             /\ Active(b) /\ Active(bridge)
<1> DEFINE a == Advanced(bridge)
<1>1. /\ Known(a) /\ a.nonce = bridge.nonce /\ a.outcome = bridge.outcome
      /\ Active(a) <=> Active(bridge)
  BY AdvancedKnown DEF BridgeInv
<1>2. a.attach = bridge.attach
  BY DEF Advanced, SetStopRequested, BridgeInv, Known, Transitions
<1>3. a.attach # None
  BY <1>2, PlayAssumption DEF Authenticated, Server
<1>4. Active(bridge)
  BY DEF Authenticated, Current, Active, BridgeInv, Known
<1> HIDE DEF a
<1>5. /\ Known(Burned(a)) /\ Burned(a).burned /\ Burned(a).nonce = a.nonce
      /\ Burned(a).state = a.state /\ Burned(a).outcome = a.outcome
  BY <1>1, <1>3, BurnedKnown
<1>6. QED
  BY <1>1, <1>4, <1>5 DEF a, Active

LEMMA ServerPollQuiet ==
  ASSUME NEW n \in Nonce, NEW s \in Server, BridgeInv, ServerPoll(n, s)
  PROVE  BridgeInv' /\ Quiet
<1>1. Authenticated(n, s) /\ bridge' = Burned(Advanced(bridge)) /\ UNCHANGED <<overdue, issued>>
  BY DEF ServerPoll
<1>2. QED
  BY <1>1, ServerRecord, QuietSuffices

LEMMA ArmQuiet ==
  ASSUME NEW n \in Nonce, NEW s \in Server, BridgeInv, ArmWatchdog(n, s)
  PROVE  BridgeInv' /\ Quiet
<1> DEFINE b == Burned(Advanced(bridge))
<1>1. /\ Authenticated(n, s)
      /\ bridge' = b \/ bridge' = [b EXCEPT !.armed = TRUE]
      /\ UNCHANGED overdue \/ overdue' = FALSE
      /\ UNCHANGED issued
  BY DEF ArmWatchdog
<1>2. /\ Known(b) /\ b.burned /\ b.nonce = bridge.nonce /\ b.outcome = bridge.outcome
      /\ Active(b) /\ Active(bridge)
  BY <1>1, ServerRecord
<1> HIDE DEF b
<1>3. /\ Known(bridge') /\ bridge'.nonce = b.nonce /\ bridge'.outcome = b.outcome
      /\ bridge'.state = b.state
  BY <1>1, <1>2, ArmedKnown
<1>4. QED
  BY <1>1, <1>2, <1>3, QuietSuffices DEF Active

LEMMA ReceiveStopQuiet ==
  ASSUME NEW n \in Nonce, NEW s \in Server, BridgeInv, ReceiveStop(n, s)
  PROVE  BridgeInv' /\ Quiet
<1> DEFINE b == Burned(Advanced(bridge))
<1>1. /\ Authenticated(n, s)
      /\ \/ bridge' = b
         \/ /\ b.stop /\ b.state = "stop_requested"
            /\ bridge' = [b EXCEPT !.acked = TRUE, !.state = "stop_acked"]
      /\ UNCHANGED <<overdue, issued>>
  BY DEF ReceiveStop
<1>2. /\ Known(b) /\ b.burned /\ b.nonce = bridge.nonce /\ b.outcome = bridge.outcome
      /\ Active(b) /\ Active(bridge)
  BY <1>1, ServerRecord
<1> HIDE DEF b
<1>3. CASE bridge' = b
  BY <1>1, <1>2, <1>3, QuietSuffices
<1>4. CASE /\ b.stop /\ b.state = "stop_requested"
           /\ bridge' = [b EXCEPT !.acked = TRUE, !.state = "stop_acked"]
  <2>1. /\ Known(bridge') /\ bridge'.nonce = b.nonce /\ bridge'.outcome = b.outcome
        /\ Active(bridge')
    <3>1. bridge' = Acked(b)
      BY <1>4 DEF Acked
    <3>2. QED
      BY <1>2, <1>4, <3>1, AckedKnown
  <2>2. QED
    BY <1>1, <1>2, <2>1, QuietSuffices
<1>5. QED
  BY <1>1, <1>3, <1>4

LEMMA RequestStopQuiet ==
  ASSUME NEW n \in Nonce, NEW r \in StopRequest, BridgeInv, RequestStop(n, r)
  PROVE  BridgeInv' /\ Quiet
<1> DEFINE b == Advanced(bridge)
<1>1. /\ Known(b) /\ b.nonce = bridge.nonce /\ b.outcome = bridge.outcome
      /\ Active(b) <=> Active(bridge)
  BY AdvancedKnown DEF BridgeInv
<1>2. /\ bridge.nonce = n /\ n # 0 /\ b.state # "completed"
      /\ \/ bridge' = b
         \/ b.stop /\ bridge' = [b EXCEPT !.owner = r]
         \/ bridge' = SetStopRequested(b, "controller", r)
      /\ UNCHANGED <<overdue, issued>>
  BY DEF RequestStop, Current
<1> HIDE DEF b
<1>3. Active(b)
  BY <1>1, <1>2 DEF Active, Known
<1>4. CASE bridge' = b
  BY <1>1, <1>2, <1>4, QuietSuffices
<1>5. CASE bridge' = [b EXCEPT !.owner = r]
  <2> DEFINE c == [b EXCEPT !.owner = r]
  <2>1. c \in Transitions /\ b \in Transitions
    BY <1>1, TypedUpdate DEF Known
  <2>2. /\ c.burned = b.burned /\ c.armed = b.armed /\ c.acked = b.acked /\ c.stop = b.stop
        /\ c.nonce = b.nonce /\ c.state = b.state /\ c.attach = b.attach
        /\ c.outcome = b.outcome /\ c.source = b.source
    BY <2>1 DEF Transitions
  <2> HIDE DEF c
  <2>3. Sound(c)
    BY <1>1, <2>1, <2>2
       DEF Known, Sound, ServerIsBound, AckedKeepsCompletionPath, CompletionHasItsProof
  <2>4. Known(c) /\ Active(c)
    BY <1>1, <1>3, <2>1, <2>2, <2>3 DEF Known, Active
  <2>5. bridge' = c
    BY <1>5 DEF c
  <2>6. QED
    BY <1>1, <1>2, <1>3, <2>2, <2>4, <2>5, QuietSuffices
<1>6. CASE bridge' = SetStopRequested(b, "controller", r)
  <2>1. "controller" \in Sources /\ r \in StopRequest \cup {None}
    BY DEF Sources
  <2>2. QED
    BY <1>1, <1>2, <1>3, <1>6, <2>1, StopKnown, QuietSuffices
<1>7. QED
  BY <1>2, <1>4, <1>5, <1>6

LEMMA EnterRecoveryQuiet ==
  ASSUME NEW g, NEW source \in RecoverySources, BridgeInv, EnterRecovery(g, source)
  PROVE  BridgeInv' /\ Quiet
<1>1. bridge' = Recovered(g, source) /\ UNCHANGED <<overdue, issued>> /\ Known(bridge)
  BY DEF EnterRecovery, BridgeInv
<1>2. CASE Active(bridge) /\ bridge.generation = g
  <2> DEFINE c == [bridge EXCEPT !.recovery = TRUE]
  <2>1. c \in Transitions /\ bridge \in Transitions
    BY <1>1, TypedUpdate DEF Known
  <2>2. /\ c.burned = bridge.burned /\ c.armed = bridge.armed /\ c.acked = bridge.acked
        /\ c.stop = bridge.stop /\ c.nonce = bridge.nonce /\ c.state = bridge.state
        /\ c.attach = bridge.attach /\ c.outcome = bridge.outcome /\ c.source = bridge.source
    BY <2>1 DEF Transitions
  <2>3. bridge' = SetStopRequested(c, source, None)
    BY <1>1, <1>2 DEF Recovered
  <2> HIDE DEF c
  <2>4. Sound(c)
    BY <1>1, <2>1, <2>2
       DEF Known, Sound, ServerIsBound, AckedKeepsCompletionPath, CompletionHasItsProof
  <2>5. Known(c) /\ Active(c)
    BY <1>1, <1>2, <2>1, <2>2, <2>4 DEF Known, Active
  <2>6. source \in Sources /\ source # "none"
    BY DEF Sources, RecoverySources
  <2>7. QED
    BY <1>1, <1>2, <2>2, <2>3, <2>5, <2>6, StopKnown, QuietSuffices
<1>3. CASE ~(Active(bridge) /\ bridge.generation = g)
  BY <1>1, <1>3, QuietSuffices DEF Recovered
<1>4. QED
  BY <1>2, <1>3

-----------------------------------------------------------------------------
(* The calls that open and end a transition.                               *)
LEMMA PreparedOpens ==
  ASSUME NEW r \in PlayRequest, NEW g \in 0..MaxGeneration, BridgeInv, PrepareNew(r, g)
  PROVE  /\ BridgeInv'
         /\ ~Active(bridge) /\ Active(bridge')
         /\ issued' = issued + 1 /\ bridge'.nonce = issued' /\ bridge'.outcome = None
<1> DEFINE n == issued + 1
           b1 == [NoTransition EXCEPT !.nonce = n]
           b2 == [b1 EXCEPT !.request = r]
           b3 == [b2 EXCEPT !.generation = g]
<1>1. /\ issued' = n /\ n \in Nonce /\ issued \in 0..MaxTransitions
      /\ overdue' = FALSE /\ ~Active(bridge)
      /\ bridge' = [b3 EXCEPT !.state = "prepared"]
  BY PlayAssumption DEF PrepareNew, BridgeInv, Nonce
<1>2. NoTransition \in Transitions
  BY NoTransitionKnown DEF Known
<1> HIDE DEF n
<1>3. b1 \in Transitions
  BY <1>1, <1>2, TypedUpdate
<1>4. b1.state = "absent" /\ b1.nonce = n /\ b1.outcome = None /\ b1.attach = None
      /\ b1.burned = FALSE /\ b1.armed = FALSE /\ b1.stop = FALSE /\ b1.acked = FALSE
      /\ b1.source = "none"
  BY DEF NoTransition
<1> HIDE DEF b1
<1>5. b2 \in Transitions
  BY <1>3, TypedUpdate
<1> HIDE DEF b2
<1>6. b3 \in Transitions
  BY <1>5, TypedUpdate
<1>7. /\ b3.nonce = n /\ b3.outcome = None /\ b3.attach = None
      /\ b3.burned = FALSE /\ b3.armed = FALSE /\ b3.stop = FALSE /\ b3.acked = FALSE
      /\ b3.source = "none"
  BY <1>3, <1>4, <1>5 DEF Transitions, b2
<1> HIDE DEF b3
<1>8. bridge' \in Transitions
  BY <1>1, <1>6, TypedUpdate DEF States
<1>9. /\ bridge'.nonce = n /\ bridge'.outcome = None /\ bridge'.attach = None
      /\ bridge'.burned = FALSE /\ bridge'.armed = FALSE /\ bridge'.stop = FALSE
      /\ bridge'.acked = FALSE /\ bridge'.source = "none" /\ bridge'.state = "prepared"
  BY <1>1, <1>6, <1>7 DEF Transitions
<1>10. Sound(bridge')
  BY <1>8, <1>9, PlayAssumption
     DEF Sound, ServerIsBound, AckedKeepsCompletionPath, CompletionHasItsProof, Outcomes
<1>11. n # 0 /\ n \in 0..MaxTransitions /\ n <= issued'
  BY <1>1, PlayAssumption DEF Nonce
<1>12. Known(bridge') /\ Active(bridge')
  BY <1>8, <1>9, <1>10, <1>11 DEF Known, Active
<1>13. overdue' \in BOOLEAN
  BY <1>1
<1>14. QED
  BY <1>1, <1>9, <1>11, <1>12, <1>13 DEF BridgeInv, n

(* Abort and complete end a transition, or repeat what ended it.           *)
LEMMA AbortEnds ==
  ASSUME NEW n, BridgeInv, AbortPreAttach(n)
  PROVE  /\ BridgeInv' /\ ~Active(bridge') /\ bridge.nonce = n /\ bridge'.nonce = n
         /\ bridge'.outcome = "pre_attach_aborted" /\ UNCHANGED issued
         /\ Active(bridge) \/ bridge' = bridge
<1> DEFINE b == Advanced(bridge)
<1>1. /\ Known(b) /\ b.nonce = bridge.nonce /\ b.outcome = bridge.outcome
      /\ Active(b) <=> Active(bridge)
  BY AdvancedKnown DEF BridgeInv
<1>2. /\ bridge.nonce = n /\ n # 0 /\ UNCHANGED <<overdue, issued>>
      /\ \/ b.outcome = "pre_attach_aborted" /\ bridge' = b
         \/ /\ Untouched(b)
            /\ bridge' = [b EXCEPT !.state = "completed", !.outcome = "pre_attach_aborted"]
  BY DEF AbortPreAttach, Current
<1>3. ~Active(bridge) => b = bridge
  BY DEF Advanced, Active
<1> HIDE DEF b
<1>4. "pre_attach_aborted" \in Outcomes /\ "pre_attach_aborted" # None
  BY PlayAssumption DEF Outcomes
<1>5. CASE b.outcome = "pre_attach_aborted" /\ bridge' = b
  <2>1. ~Active(b)
    BY <1>1, <1>4, <1>5 DEF Known, Sound, Active
  <2>2. QED
    BY <1>1, <1>2, <1>3, <1>5, <2>1 DEF BridgeInv
<1>6. CASE /\ Untouched(b)
           /\ bridge' = [b EXCEPT !.state = "completed", !.outcome = "pre_attach_aborted"]
  <2>1. Active(b)
    BY <1>6 DEF Untouched, Active
  <2>2. /\ Known(bridge') /\ bridge'.nonce = b.nonce /\ ~Active(bridge')
        /\ bridge'.outcome = "pre_attach_aborted"
    <3>1. bridge' = Closed(b, "pre_attach_aborted")
      BY <1>6 DEF Closed
    <3>2. QED
      BY <1>1, <1>4, <1>6, <2>1, <3>1, CompletedKnown
  <2>3. QED
    BY <1>1, <1>2, <2>1, <2>2 DEF BridgeInv
<1>7. QED
  BY <1>2, <1>5, <1>6

LEMMA CompleteEnds ==
  ASSUME NEW n, NEW o \in Outcomes, NEW c \in Correlations \cup {"none"},
         BridgeInv, Complete(n, o, c)
  PROVE  /\ BridgeInv' /\ ~Active(bridge') /\ bridge.nonce = n /\ bridge'.nonce = n
         /\ bridge'.outcome = o /\ UNCHANGED issued /\ o # "pre_attach_aborted"
         /\ bridge' = bridge \/ (Active(bridge) /\ Accepts(Advanced(bridge), o, c))
<1> DEFINE b == Advanced(bridge)
<1>1. /\ Known(b) /\ b.nonce = bridge.nonce /\ b.outcome = bridge.outcome
      /\ Active(b) <=> Active(bridge)
  BY AdvancedKnown DEF BridgeInv
<1>0. /\ bridge.nonce = n /\ n # 0 /\ overdue' = overdue /\ issued' = issued
      /\ o # "pre_attach_aborted"
  BY DEF Complete, Completable, Current
<1>2. /\ IF b.state = "completed" THEN b.outcome = o ELSE Accepts(b, o, c)
      /\ bridge' = IF b.state = "completed" THEN b
                   ELSE [[b EXCEPT !.state = "completed", !.outcome = o]
                           EXCEPT !.recovery = FALSE]
  BY DEF Complete, Completable, Current
<1>3. ~Active(bridge) => b = bridge
  BY DEF Advanced, Active
<1> HIDE DEF b
<1>4. CASE b.state = "completed"
  <2>1. ~Active(b)
    BY <1>4 DEF Active
  <2>2. bridge' = bridge /\ b = bridge
    BY <1>0, <1>1, <1>2, <1>3, <1>4, <2>1
  <2>3. BridgeInv'
    BY <1>0, <2>2 DEF BridgeInv
  <2>4. ~Active(bridge') /\ bridge'.nonce = n /\ bridge'.outcome = o
    BY <1>0, <1>1, <1>2, <1>4, <2>1, <2>2
  <2>5. QED
    BY <1>0, <2>2, <2>3, <2>4
<1>5. CASE b.state # "completed"
  <2>1. Active(b)
    BY <1>0, <1>1, <1>2, <1>5 DEF Known, Active
  <2>2. Accepts(b, o, c)
    BY <1>2, <1>5
  <2>3. /\ Known(bridge') /\ bridge'.nonce = b.nonce /\ ~Active(bridge') /\ bridge'.outcome = o
    <3>1. bridge' = Settled(b, o)
      BY <1>2, <1>5 DEF Settled, Closed
    <3>2. QED
      BY <1>0, <1>1, <2>1, <2>2, <3>1, CompletedKnown
  <2>4. QED
    BY <1>0, <1>1, <1>2, <2>1, <2>2, <2>3 DEF BridgeInv, b
<1>6. QED
  BY <1>4, <1>5

LEMMA RetireForgets ==
  ASSUME BridgeInv, RetireCompleted
  PROVE  BridgeInv' /\ ~Active(bridge) /\ bridge' = NoTransition /\ UNCHANGED issued
<1>1. bridge' = NoTransition /\ UNCHANGED <<overdue, issued>> /\ ~Active(bridge)
  BY DEF RetireCompleted, Active
<1>2. NoTransition.nonce = 0
  BY DEF NoTransition
<1>3. QED
  BY <1>1, <1>2, NoTransitionKnown DEF BridgeInv

-----------------------------------------------------------------------------
(* Every call keeps the record sound, whoever makes it.                    *)
LEMMA BridgeStep == BridgeInv /\ [Next]_bridgeVars => BridgeInv'
<1> SUFFICES ASSUME BridgeInv, [Next]_bridgeVars PROVE BridgeInv'
  OBVIOUS
<1>1. CASE Observe
  BY <1>1, ObserveQuiet
<1>2. CASE Expire
  BY <1>2, ExpireQuiet
<1>3. CASE RetireCompleted
  BY <1>3, RetireForgets
<1>4. ASSUME NEW r \in PlayRequest, NEW g \in 1..MaxGeneration,
             PrepareRetried(r, g) \/ PrepareNew(r, g)
      PROVE  BridgeInv'
  BY <1>4, PrepareRetriedQuiet, PreparedOpens
<1>5. ASSUME NEW n \in Nonce, NEW s \in Server,
             \/ Attach(n, s) \/ ServerPoll(n, s) \/ ArmWatchdog(n, s) \/ ReceiveStop(n, s)
      PROVE  BridgeInv'
  BY <1>5, AttachQuiet, ServerPollQuiet, ArmQuiet, ReceiveStopQuiet
<1>6. ASSUME NEW n \in Nonce, NEW r \in StopRequest, RequestStop(n, r)
      PROVE  BridgeInv'
  BY <1>6, RequestStopQuiet
<1>7. ASSUME NEW n \in Nonce, AbortPreAttach(n)
      PROVE  BridgeInv'
  BY <1>7, AbortEnds
<1>8. ASSUME NEW n \in Nonce, NEW o \in Outcomes, NEW c \in Correlations, Complete(n, o, c)
      PROVE  BridgeInv'
  BY <1>8, CompleteEnds
<1>9. ASSUME NEW g \in 1..MaxGeneration, NEW source \in RecoverySources,
             EnterRecovery(g, source)
      PROVE  BridgeInv'
  BY <1>9, EnterRecoveryQuiet
<1>10. CASE UNCHANGED bridgeVars
  BY <1>10 DEF bridgeVars, BridgeInv
<1>11. QED
  BY <1>1, <1>2, <1>3, <1>4, <1>5, <1>6, <1>7, <1>8, <1>9, <1>10 DEF Next

(* Whoever calls the manager, and in whatever order, its record stays one  *)
(* on which a completion can rest.                                         *)
THEOREM BridgeRecordSound == Spec => []RecordSound
<1>1. BridgeInv => RecordSound
  BY DEF BridgeInv, Known, RecordSound
<1>2. QED
  BY <1>1, BridgeInit, BridgeStep, PTL DEF Spec

-----------------------------------------------------------------------------
(* The composition.  The variables outside the record keep their types.    *)
PeerTypes ==
  /\ generation \in 1..MaxGeneration
  /\ link \in {"up", "down", "gone"}
  /\ fence \in Nonce \cup {None}
  /\ pending \in PlayRequest \cup {None}
  /\ peer \in {"loop", "preparing", "aborting", "restoring", "outside", "reconnected",
              "settling", "completing", "dead"}
  /\ attempt \in {"loop", "recovery", "final"}
  /\ granted \in Nonce \cup {0}
  /\ play \in Plays

TestTypes ==
  /\ run \in Runs
  /\ server \in {"off", "attaching", "arming", "polling", "acking"}
  /\ ready \in BOOLEAN /\ heard \in BOOLEAN

(* A broker that has lost the session has lost its transition too.         *)
GoneForgets == link = "gone" => bridge = NoTransition

(* The plugin knows the test that runs, and that one alone; it starts one  *)
(* only under the transition it was just granted, and completes only what  *)
(* has returned.                                                           *)
PluginKnows ==
  /\ Running => play.started /\ play.nonce = run.nonce
  /\ play.abort => ~play.started /\ run.nonce # play.nonce
  /\ peer = "preparing" =>
       /\ play = NoPlay /\ granted # 0 /\ granted # run.nonce
       /\ link # "gone" => Active(bridge) /\ bridge.nonce = granted
  /\ peer = "completing" => play.outcome # None
  /\ play.outcome # None => Returned
  /\ run.nonce <= issued /\ granted <= issued

(* What the reason that EndTest was given says of the Play server, and the *)
(* outcome that the plugin has bound of the reason.                        *)
ReasonIsTrue ==
  /\ Running => run.reason = "none" /\ run.correlation = "none"
  /\ server \in {"attaching", "arming"} => ~ready
  /\ server = "acking" => heard
  /\ run.correlation = "stop_command_id" => run.reason \in StopReasons /\ heard
  /\ run.reason = "hard_watchdog_natural" => ~heard
  /\ run.reason \in StartFailures => ~ready

ClaimIsTrue ==
  /\ play.outcome # "pre_attach_aborted"
  /\ play.outcome = "stopped_edit_confirmed" => run.correlation = "stop_command_id"
  /\ play.outcome \in {"natural_stop_edit_confirmed", "recovery_natural_stop_edit_confirmed"}
       => run.reason = "hard_watchdog_natural"
  /\ play.outcome = "start_failed_edit_confirmed" => run.reason \in StartFailures

PlayInv ==
  /\ BridgeInv
  /\ PeerTypes
  /\ TestTypes
  /\ GoneForgets
  /\ FencedWhileActive
  /\ PluginKnows
  /\ ReasonIsTrue
  /\ ClaimIsTrue
  /\ OutcomeIsHowItEnded

(* How a step looks to a client.                                           *)
PromiseStep == [Promise!Next]_<<ClaimedMode, StudioMode>>

(* A record with an outcome is complete.                                   *)
LEMMA OpenHasNoOutcome == BridgeInv => (bridge.outcome # None => ~Active(bridge))
BY DEF BridgeInv, Known, Sound, Active

LEMMA GoneStays ==
  ASSUME BridgeInv, BridgeInv', Quiet, GoneForgets, link' = "gone" => link = "gone"
  PROVE  GoneForgets'
<1>1. NoTransition.nonce = 0
  BY DEF NoTransition
<1>2. QED
  BY <1>1 DEF GoneForgets, Quiet, BridgeInv, Known

(* A quiet call of the broker alone keeps everything.                      *)
LEMMA QuietKeeps ==
  ASSUME PlayInv, BridgeInv', Quiet, UNCHANGED <<sessionVars, peerVars, run, serverVars>>
  PROVE  PlayInv' /\ PromiseStep
<1> USE DEF sessionVars, peerVars, serverVars
<1>1. GoneForgets'
  BY GoneStays DEF PlayInv, sessionVars
<1>2. FencedWhileActive'
  BY DEF PlayInv, FencedWhileActive, Quiet
<1>3. PluginKnows'
  BY DEF PlayInv, PluginKnows, Quiet, Running, Returned
<1>4. OutcomeIsHowItEnded'
  BY DEF PlayInv, OutcomeIsHowItEnded, Quiet
<1>5. PeerTypes' /\ TestTypes' /\ ReasonIsTrue' /\ ClaimIsTrue'
  BY DEF PlayInv, PeerTypes, TestTypes, ReasonIsTrue, ClaimIsTrue, Running
<1>6. PromiseStep
  BY DEF Quiet, PromiseStep, ClaimedMode, StudioMode, Running
<1>7. QED
  BY <1>1, <1>2, <1>3, <1>4, <1>5 , <1>6 DEF PlayInv

LEMMA LifecycleStart == LifecycleInit => PlayInv
<1> SUFFICES ASSUME LifecycleInit PROVE PlayInv
  OBVIOUS
<1> USE DEF LifecycleInit
<1>1. BridgeInv /\ bridge = NoTransition /\ issued = 0
  BY BridgeInit DEF Init
<1>2. NoPlay \in Plays /\ NoRun \in Runs
  BY DEF NoPlay, Plays, NoRun, Runs, Reasons
<1>3. PeerTypes
  BY <1>2, PlayAssumption DEF PeerTypes
<1>4. TestTypes
  <2>1. ready \in BOOLEAN /\ heard \in BOOLEAN
    OBVIOUS
  <2>2. QED
    BY <1>2, <2>1 DEF TestTypes
<1>5. ~Active(bridge) /\ bridge.outcome = None
  BY <1>1 DEF NoTransition, Active
<1>6. GoneForgets /\ FencedWhileActive
  BY <1>1, <1>5 DEF GoneForgets, FencedWhileActive
<1>7. PluginKnows
  BY <1>1 DEF PluginKnows, Running, NoRun, NoPlay
<1>8. ReasonIsTrue /\ ClaimIsTrue
  <2>1. None \notin Outcomes
    BY PlayAssumption
  <2>2. ClaimIsTrue
    BY <2>1 DEF ClaimIsTrue, NoPlay, Outcomes
  <2>3. ReasonIsTrue
    BY DEF ReasonIsTrue, NoRun, Running, StartFailures
  <2>4. QED
    BY <2>2, <2>3
<1>9. OutcomeIsHowItEnded
  BY <1>5, PlayAssumption DEF OutcomeIsHowItEnded, Outcomes
<1>10. QED
  BY <1>1, <1>3, <1>4, <1>6, <1>7, <1>8, <1>9 DEF PlayInv

-----------------------------------------------------------------------------
(* The plugin's steps.                                                     *)
LEMMA NoPlayTyped == NoPlay \in Plays
BY DEF NoPlay, Plays

LEMMA ObservedOrSame ==
  ASSUME PlayInv, Observe \/ UNCHANGED bridgeVars
  PROVE  BridgeInv' /\ Quiet
<1>1. CASE Observe
  BY <1>1, ObserveQuiet DEF PlayInv
<1>2. CASE UNCHANGED bridgeVars
  BY <1>2 DEF PlayInv, BridgeInv, Quiet, bridgeVars
<1>3. QED
  BY <1>1, <1>2

LEMMA StartPlayStep ==
  ASSUME NEW r \in PlayRequest, PlayInv, StartPlay(r)
  PROVE  PlayInv' /\ PromiseStep
<1> USE DEF StartPlay, Controller, sessionVars, peerVars, serverVars, bridgeVars
<1>a. generation \in 0..MaxGeneration /\ BridgeInv /\ PrepareNew(r, generation)
  BY PlayAssumption DEF PlayInv, PeerTypes
<1>b. issued \in 0..MaxTransitions /\ issued < MaxTransitions /\ issued + 1 \in Nonce
  BY <1>a, PlayAssumption DEF PrepareNew, BridgeInv, Nonce
<1>0. /\ BridgeInv' /\ ~Active(bridge) /\ Active(bridge')
      /\ issued' = issued + 1 /\ bridge'.nonce = issued' /\ bridge'.outcome = None
      /\ issued \in 0..MaxTransitions /\ issued' \in Nonce
  BY <1>a, <1>b, PreparedOpens
<1>1. PeerTypes'
  BY <1>0 DEF PlayInv, PeerTypes
<1>2. TestTypes'
  BY <1>0 DEF PlayInv, TestTypes
<1>3. GoneForgets'
  BY <1>0 DEF PlayInv, GoneForgets
<1>4. FencedWhileActive'
  BY <1>0 DEF PlayInv, FencedWhileActive
<1>5. PluginKnows'
  BY <1>0, PlayAssumption
     DEF PlayInv, PluginKnows, Running, Returned, NoPlay, TestTypes, Runs, Nonce
<1>6. ReasonIsTrue'
  BY <1>0 DEF PlayInv, ReasonIsTrue, Running
<1>7. ClaimIsTrue'
  BY <1>0 DEF PlayInv, ClaimIsTrue
<1>8. OutcomeIsHowItEnded'
  BY <1>0, PlayAssumption DEF OutcomeIsHowItEnded, Outcomes
<1>9. PromiseStep
  BY <1>0
     DEF PlayInv, Quiet, PromiseStep, ClaimedMode, StudioMode, Running, Promise!Next,
         Promise!Open, Promise!Launch, Promise!Return, Promise!Settle, Promise!Lose,
         PluginKnows
<1>10. QED
  BY <1>0, <1>1, <1>2, <1>3, <1>4, <1>5, <1>6, <1>7, <1>8, <1>9 DEF PlayInv

LEMMA LaunchStep ==
  ASSUME PlayInv, Launch
  PROVE  PlayInv' /\ PromiseStep
<1> USE DEF Launch, sessionVars, peerVars, serverVars, bridgeVars
<1>0. BridgeInv' /\ Quiet /\ UNCHANGED bridgeVars
  BY DEF PlayInv, BridgeInv, Quiet
<1>1. PeerTypes'
  BY <1>0 DEF PlayInv, PeerTypes, Plays, NoPlay
<1>2. TestTypes'
  BY <1>0 DEF PlayInv, TestTypes, PeerTypes, Runs, Reasons, PluginKnows
<1>3. GoneForgets'
  BY <1>0, GoneStays DEF PlayInv
<1>4. FencedWhileActive'
  BY <1>0 DEF PlayInv, FencedWhileActive, Quiet
<1>5. PluginKnows'
  BY <1>0 DEF PlayInv, PluginKnows, Running, Returned, NoPlay, BridgeInv
<1>6. ReasonIsTrue'
  BY <1>0 DEF ReasonIsTrue, Running, StartFailures
<1>7. ClaimIsTrue'
  BY <1>0, PlayAssumption DEF ClaimIsTrue, NoPlay, Outcomes
<1>8. OutcomeIsHowItEnded'
  BY <1>0, OpenHasNoOutcome, PlayAssumption
     DEF PlayInv, PluginKnows, GoneForgets, OutcomeIsHowItEnded, NoTransition, Outcomes
<1>9. PromiseStep
  BY <1>0
     DEF PlayInv, Quiet, PromiseStep, ClaimedMode, StudioMode, Running, Promise!Next,
         Promise!Open, Promise!Launch, Promise!Return, Promise!Settle, Promise!Lose,
         PluginKnows
<1>10. QED
  BY <1>0, <1>1, <1>2, <1>3, <1>4, <1>5, <1>6, <1>7, <1>8, <1>9 DEF PlayInv

LEMMA LateOpens ==
  ASSUME NEW r \in PlayRequest, NEW g \in 0..MaxGeneration, BridgeInv,
         PrepareRetried(r, g) \/ PrepareNew(r, g), PrepareNew(r, g) => issued + 1 \in Nonce
  PROVE  /\ BridgeInv' /\ Active(bridge') /\ bridge'.nonce \in Nonce
         /\ \/ Quiet
            \/ /\ ~Active(bridge) /\ issued' = issued + 1 /\ bridge'.outcome = None
               /\ issued \in Nat
<1>1. CASE PrepareRetried(r, g)
  <2>1. BridgeInv' /\ Quiet /\ Active(bridge)
    BY <1>1, PrepareRetriedQuiet
  <2>2. Active(bridge') /\ bridge'.nonce \in Nonce
    BY <2>1 DEF Quiet, BridgeInv, Known, Active, Transitions
  <2>3. QED
    BY <2>1, <2>2
<1>2. CASE PrepareNew(r, g)
  BY <1>2, PreparedOpens, PlayAssumption DEF BridgeInv
<1>3. QED
  BY <1>1, <1>2

LEMMA LatePrepareStep ==
  ASSUME NEW r \in PlayRequest, PlayInv, LatePrepare(r)
  PROVE  PlayInv' /\ PromiseStep
<1> USE DEF LatePrepare, Controller, sessionVars, peerVars, serverVars, bridgeVars
<1>a. generation \in 0..MaxGeneration /\ BridgeInv
  BY PlayAssumption DEF PlayInv, PeerTypes
<1>b. PrepareNew(r, generation) => issued + 1 \in Nonce
  BY <1>a, PlayAssumption DEF PrepareNew, BridgeInv, Nonce
<1>0. /\ BridgeInv' /\ Active(bridge') /\ bridge'.nonce \in Nonce
      /\ \/ Quiet
         \/ /\ ~Active(bridge) /\ issued' = issued + 1 /\ bridge'.outcome = None
            /\ issued \in Nat
  BY <1>a, <1>b, LateOpens
<1>1. PeerTypes'
  BY <1>0 DEF PlayInv, PeerTypes
<1>2. TestTypes'
  BY <1>0 DEF PlayInv, TestTypes
<1>3. GoneForgets'
  BY <1>0 DEF PlayInv, GoneForgets
<1>4. FencedWhileActive'
  BY <1>0 DEF PlayInv, FencedWhileActive
<1>5. PluginKnows'
  BY <1>0
     DEF PlayInv, PluginKnows, Quiet, Running, Returned, TestTypes, PeerTypes, Runs,
         Nonce
<1>6. ReasonIsTrue'
  BY <1>0 DEF PlayInv, ReasonIsTrue, Running
<1>7. ClaimIsTrue'
  BY <1>0 DEF PlayInv, ClaimIsTrue
<1>8. OutcomeIsHowItEnded'
  BY <1>0, PlayAssumption DEF PlayInv, OutcomeIsHowItEnded, Quiet, Outcomes
<1>9. PromiseStep
  BY <1>0
     DEF PlayInv, Quiet, PromiseStep, ClaimedMode, StudioMode, Running, Promise!Next,
         Promise!Open, Promise!Launch, Promise!Return, Promise!Settle, Promise!Lose,
         PluginKnows
<1>10. QED
  BY <1>0, <1>1, <1>2, <1>3, <1>4, <1>5, <1>6, <1>7, <1>8, <1>9 DEF PlayInv

LEMMA ForgetStep ==
  ASSUME PlayInv, Forget
  PROVE  PlayInv' /\ PromiseStep
<1> USE DEF Forget, sessionVars, peerVars, serverVars, bridgeVars
<1>0. BridgeInv' /\ Quiet /\ UNCHANGED bridgeVars
  BY DEF PlayInv, BridgeInv, Quiet
<1>1. PeerTypes'
  BY <1>0 DEF PlayInv, PeerTypes
<1>2. TestTypes'
  BY <1>0 DEF PlayInv, TestTypes
<1>3. GoneForgets'
  BY <1>0, GoneStays DEF PlayInv
<1>4. FencedWhileActive'
  BY <1>0 DEF PlayInv, FencedWhileActive, Quiet
<1>5. PluginKnows'
  BY <1>0 DEF PlayInv, PluginKnows, Quiet, Running, Returned
<1>6. ReasonIsTrue'
  BY <1>0 DEF PlayInv, ReasonIsTrue, Running
<1>7. ClaimIsTrue'
  BY <1>0 DEF PlayInv, ClaimIsTrue
<1>8. OutcomeIsHowItEnded'
  BY <1>0 DEF PlayInv, OutcomeIsHowItEnded, Quiet
<1>9. PromiseStep
  BY <1>0 DEF Quiet, PromiseStep, ClaimedMode, StudioMode, Running
<1>10. QED
  BY <1>0, <1>1, <1>2, <1>3, <1>4, <1>5, <1>6, <1>7, <1>8, <1>9 DEF PlayInv

LEMMA ScriptFailsStep ==
  ASSUME PlayInv, ScriptFails
  PROVE  PlayInv' /\ PromiseStep
<1> USE DEF ScriptFails, sessionVars, peerVars, serverVars, bridgeVars
<1>0. BridgeInv' /\ Quiet /\ UNCHANGED bridgeVars
  BY DEF PlayInv, BridgeInv, Quiet
<1>1. PeerTypes'
  BY <1>0 DEF PlayInv, PeerTypes, Plays, NoPlay
<1>2. TestTypes'
  BY <1>0 DEF PlayInv, TestTypes
<1>3. GoneForgets'
  BY <1>0, GoneStays DEF PlayInv
<1>4. FencedWhileActive'
  BY <1>0 DEF PlayInv, FencedWhileActive, Quiet
<1>5. PluginKnows'
  BY <1>0 DEF PlayInv, PluginKnows, Running, Returned, NoPlay, BridgeInv
<1>6. ReasonIsTrue'
  BY <1>0 DEF PlayInv, ReasonIsTrue, Running
<1>7. ClaimIsTrue'
  BY <1>0, PlayAssumption DEF ClaimIsTrue, NoPlay, Outcomes
<1>8. OutcomeIsHowItEnded'
  BY <1>0 DEF PlayInv, OutcomeIsHowItEnded, Quiet
<1>9. PromiseStep
  BY <1>0 DEF Quiet, PromiseStep, ClaimedMode, StudioMode, Running
<1>10. QED
  BY <1>0, <1>1, <1>2, <1>3, <1>4, <1>5, <1>6, <1>7, <1>8, <1>9 DEF PlayInv

LEMMA PrepareLostStep ==
  ASSUME PlayInv, PrepareLost
  PROVE  PlayInv' /\ PromiseStep
<1> USE DEF PrepareLost, sessionVars, peerVars, serverVars, bridgeVars
<1>0. BridgeInv' /\ Quiet /\ UNCHANGED bridgeVars
  BY DEF PlayInv, BridgeInv, Quiet
<1>1. PeerTypes'
  BY <1>0 DEF PlayInv, PeerTypes
<1>2. TestTypes'
  BY <1>0 DEF PlayInv, TestTypes
<1>3. GoneForgets'
  BY <1>0, GoneStays DEF PlayInv
<1>4. FencedWhileActive'
  BY <1>0 DEF PlayInv, FencedWhileActive, Quiet
<1>5. PluginKnows'
  BY <1>0
     DEF PlayInv, PluginKnows, Quiet, Running, Returned, BridgeInv, Known, Transitions,
         Nonce
<1>6. ReasonIsTrue'
  BY <1>0 DEF PlayInv, ReasonIsTrue, Running
<1>7. ClaimIsTrue'
  BY <1>0 DEF PlayInv, ClaimIsTrue
<1>8. OutcomeIsHowItEnded'
  BY <1>0 DEF PlayInv, OutcomeIsHowItEnded, Quiet
<1>9. PromiseStep
  BY <1>0 DEF Quiet, PromiseStep, ClaimedMode, StudioMode, Running
<1>10. QED
  BY <1>0, <1>1, <1>2, <1>3, <1>4, <1>5, <1>6, <1>7, <1>8, <1>9 DEF PlayInv

LEMMA AbortStep ==
  ASSUME PlayInv, Abort
  PROVE  PlayInv' /\ PromiseStep
<1> USE DEF Abort, Controller, Unfenced, sessionVars, peerVars, serverVars, bridgeVars
<1>0. /\ BridgeInv' /\ ~Active(bridge') /\ bridge.nonce = play.nonce
      /\ bridge'.nonce = play.nonce /\ bridge'.outcome = "pre_attach_aborted"
      /\ UNCHANGED issued
  BY AbortEnds DEF PlayInv
<1>1. PeerTypes'
  BY <1>0, NoPlayTyped DEF PlayInv, PeerTypes
<1>2. TestTypes'
  BY <1>0 DEF PlayInv, TestTypes
<1>3. GoneForgets'
  BY <1>0 DEF PlayInv, GoneForgets
<1>4. FencedWhileActive'
  BY <1>0, PlayAssumption DEF PlayInv, FencedWhileActive
<1>5. PluginKnows'
  BY <1>0 DEF PlayInv, PluginKnows, Running, Returned, NoPlay
<1>6. ReasonIsTrue'
  BY <1>0 DEF PlayInv, ReasonIsTrue, Running
<1>7. ClaimIsTrue'
  BY <1>0, PlayAssumption DEF PlayInv, ClaimIsTrue, NoPlay, Outcomes
<1>8. OutcomeIsHowItEnded'
  BY <1>0 DEF PlayInv, PluginKnows, OutcomeIsHowItEnded
<1>9. PromiseStep
  BY <1>0
     DEF PlayInv, Quiet, PromiseStep, ClaimedMode, StudioMode, Running, Promise!Next,
         Promise!Open, Promise!Launch, Promise!Return, Promise!Settle, Promise!Lose,
         PluginKnows
<1>10. QED
  BY <1>0, <1>1, <1>2, <1>3, <1>4, <1>5, <1>6, <1>7, <1>8, <1>9 DEF PlayInv

LEMMA AbortFailsStep ==
  ASSUME PlayInv, AbortFails
  PROVE  PlayInv' /\ PromiseStep
<1> USE DEF AbortFails, sessionVars, peerVars, serverVars, bridgeVars
<1>0. BridgeInv' /\ Quiet
  BY ObservedOrSame
<1>1. PeerTypes'
  BY <1>0 DEF PlayInv, PeerTypes
<1>2. TestTypes'
  BY <1>0 DEF PlayInv, TestTypes
<1>3. GoneForgets'
  BY <1>0, GoneStays DEF PlayInv
<1>4. FencedWhileActive'
  BY <1>0 DEF PlayInv, FencedWhileActive, Quiet
<1>5. PluginKnows'
  BY <1>0 DEF PlayInv, PluginKnows, Quiet, Running, Returned
<1>6. ReasonIsTrue'
  BY <1>0 DEF PlayInv, ReasonIsTrue, Running
<1>7. ClaimIsTrue'
  BY <1>0 DEF PlayInv, ClaimIsTrue
<1>8. OutcomeIsHowItEnded'
  BY <1>0 DEF PlayInv, OutcomeIsHowItEnded, Quiet
<1>9. PromiseStep
  BY <1>0 DEF Quiet, PromiseStep, ClaimedMode, StudioMode, Running
<1>10. QED
  BY <1>0, <1>1, <1>2, <1>3, <1>4, <1>5, <1>6, <1>7, <1>8, <1>9 DEF PlayInv

LEMMA StopPlayStep ==
  ASSUME NEW s \in StopRequest, PlayInv, StopPlay(s)
  PROVE  PlayInv' /\ PromiseStep
<1> USE DEF StopPlay, sessionVars, peerVars, serverVars, bridgeVars
<1>a. BridgeInv /\ play.nonce \in Nonce
  BY DEF PlayInv, PeerTypes, Plays, RequestStop, Current
<1>0. BridgeInv' /\ Quiet
  BY <1>a, RequestStopQuiet
<1>1. PeerTypes'
  BY <1>0 DEF PlayInv, PeerTypes, Plays
<1>2. TestTypes'
  BY <1>0 DEF PlayInv, TestTypes
<1>3. GoneForgets'
  BY <1>0, GoneStays DEF PlayInv
<1>4. FencedWhileActive'
  BY <1>0 DEF PlayInv, FencedWhileActive, Quiet
<1>5. PluginKnows'
  BY <1>0 DEF PlayInv, PluginKnows, Quiet, Running, Returned, PeerTypes, Plays
<1>6. ReasonIsTrue'
  BY <1>0 DEF PlayInv, ReasonIsTrue, Running
<1>7. ClaimIsTrue'
  BY <1>0 DEF PlayInv, ClaimIsTrue, PeerTypes, Plays
<1>8. OutcomeIsHowItEnded'
  BY <1>0 DEF PlayInv, OutcomeIsHowItEnded, Quiet
<1>9. PromiseStep
  BY <1>0 DEF Quiet, PromiseStep, ClaimedMode, StudioMode, Running
<1>10. QED
  BY <1>0, <1>1, <1>2, <1>3, <1>4, <1>5, <1>6, <1>7, <1>8, <1>9 DEF PlayInv

(* The plugin claims only what the reason of the return allows.            *)
ClaimFits(o) ==
  /\ o # "pre_attach_aborted"
  /\ o = "stopped_edit_confirmed" => run.correlation = "stop_command_id"
  /\ o \in {"natural_stop_edit_confirmed", "recovery_natural_stop_edit_confirmed"}
       => run.reason = "hard_watchdog_natural"
  /\ o = "start_failed_edit_confirmed" => run.reason \in StartFailures

LEMMA ClaimFitsReason ==
  ASSUME PlayInv, NEW b, Claim(b) # None
  PROVE  Claim(b) \in Outcomes /\ ClaimFits(Claim(b))
<1>1. CASE b.nonce = play.nonce /\ b.state = "completed"
  <2>1. Claim(b) = play.outcome
    BY <1>1 DEF Claim
  <2>2. QED
    BY <2>1 DEF PlayInv, PeerTypes, Plays, ClaimIsTrue, ClaimFits
<1>2. CASE ~(b.nonce = play.nonce /\ b.state = "completed")
  <2>1. Claim(b) = Proved(b)
    BY <1>2 DEF Claim
  <2>2. CASE run.correlation = "play_request_id"
    BY <2>1, <2>2 DEF Proved, Outcomes, ClaimFits
  <2>3. CASE run.correlation = "transition_nonce"
    BY <2>1, <2>3 DEF Proved, Outcomes, ClaimFits
  <2>4. CASE run.correlation = "stop_command_id"
    BY <2>1, <2>4 DEF Proved, Outcomes, ClaimFits
  <2>5. CASE run.correlation \notin Correlations
    BY <2>1, <2>5 DEF Proved, Correlations
  <2>6. QED
    BY <2>2, <2>3, <2>4, <2>5 DEF Correlations
<1>3. QED
  BY <1>1, <1>2

LEMMA ClassifyStep ==
  ASSUME PlayInv, Classify
  PROVE  PlayInv' /\ PromiseStep
<1> USE DEF Classify, sessionVars, peerVars, serverVars, bridgeVars
<1>a. Observe \/ UNCHANGED bridgeVars
  BY DEF Observe
<1>b. peer' = "completing" \/ play' = play
  OBVIOUS
<1>c. /\ Returned
      /\ \/ peer' = "dead" /\ play' = play
         \/ /\ peer' = "completing" /\ Claim(bridge') # None
            /\ play' = [play EXCEPT !.outcome = Claim(bridge')]
  BY DEF Bindable
<1>d. Claim(bridge') # None => /\ Claim(bridge') \in Outcomes
                              /\ ClaimFits(Claim(bridge'))
  BY <1>c, ClaimFitsReason DEF PlayInv
<1>0. BridgeInv' /\ Quiet
  BY ObservedOrSame DEF Observe
<1>1. PeerTypes'
  BY <1>0, <1>c, <1>d DEF PlayInv, PeerTypes, Plays
<1>2. TestTypes'
  BY <1>0 DEF PlayInv, TestTypes
<1>3. GoneForgets'
  BY <1>0, GoneStays DEF PlayInv
<1>4. FencedWhileActive'
  BY <1>0 DEF PlayInv, FencedWhileActive, Quiet
<1>5. PluginKnows'
  BY <1>0, <1>c, <1>d
     DEF PlayInv, PluginKnows, Quiet, Running, Returned, PeerTypes, Plays
<1>6. ReasonIsTrue'
  BY <1>0 DEF PlayInv, ReasonIsTrue, Running
<1>7. ClaimIsTrue'
  BY <1>0, <1>c, <1>d DEF PlayInv, ClaimIsTrue, ClaimFits, PeerTypes, Plays
<1>8. OutcomeIsHowItEnded'
  BY <1>0 DEF PlayInv, OutcomeIsHowItEnded, Quiet
<1>9. PromiseStep
  BY <1>0 DEF Quiet, PromiseStep, ClaimedMode, StudioMode, Running
<1>10. QED
  BY <1>0, <1>1, <1>2, <1>3, <1>4, <1>5, <1>6, <1>7, <1>8, <1>9 DEF PlayInv

LEMMA CompletePlayStep ==
  ASSUME PlayInv, CompletePlay
  PROVE  PlayInv' /\ PromiseStep
<1> USE DEF CompletePlay, Controller, Unfenced, BackToWork,
            sessionVars, peerVars, serverVars, bridgeVars
<1>a. /\ BridgeInv /\ Returned /\ play.outcome \in Outcomes
      /\ run.correlation \in Correlations \cup {"none"}
      /\ Complete(play.nonce, play.outcome, run.correlation)
  BY DEF PlayInv, PluginKnows, PeerTypes, Plays, TestTypes, Runs, ProofCorrelation
<1>0. /\ BridgeInv' /\ ~Active(bridge') /\ bridge.nonce = play.nonce
      /\ bridge'.nonce = play.nonce /\ UNCHANGED issued
      /\ bridge'.outcome = play.outcome /\ play.outcome \in Outcomes
      /\ Returned /\ ~Running
      /\ (bridge' = bridge \/ Accepts(Advanced(bridge), play.outcome, run.correlation))
  BY <1>a, CompleteEnds DEF ProofCorrelation, Running, Returned
<1>1. PeerTypes'
  BY <1>0, NoPlayTyped DEF PlayInv, PeerTypes
<1>2. TestTypes'
  BY <1>0 DEF PlayInv, TestTypes
<1>3. GoneForgets'
  BY <1>0 DEF PlayInv, GoneForgets
<1>4. FencedWhileActive'
  BY <1>0, PlayAssumption DEF PlayInv, FencedWhileActive
<1>5. PluginKnows'
  BY <1>0 DEF PlayInv, PluginKnows, Running, Returned, NoPlay
<1>6. ReasonIsTrue'
  BY <1>0 DEF PlayInv, ReasonIsTrue, Running
<1>7. ClaimIsTrue'
  BY <1>0, PlayAssumption DEF PlayInv, ClaimIsTrue, NoPlay, Outcomes
<1>8. OutcomeIsHowItEnded'
  BY <1>0, PlayAssumption
     DEF PlayInv, PluginKnows, OutcomeIsHowItEnded, ClaimIsTrue, ReasonIsTrue, Returned,
         Accepts, Outcomes
<1>9. PromiseStep
  BY <1>0
     DEF PlayInv, Quiet, PromiseStep, ClaimedMode, StudioMode, Running, Promise!Next,
         Promise!Open, Promise!Launch, Promise!Return, Promise!Settle, Promise!Lose,
         PluginKnows
<1>10. QED
  BY <1>0, <1>1, <1>2, <1>3, <1>4, <1>5, <1>6, <1>7, <1>8, <1>9 DEF PlayInv

LEMMA CompleteLostStep ==
  ASSUME PlayInv, CompleteLost
  PROVE  PlayInv' /\ PromiseStep
<1> USE DEF CompleteLost, Controller, Unfenced, TryAgain,
            sessionVars, peerVars, serverVars, bridgeVars
<1>a. /\ BridgeInv /\ Returned /\ play.outcome \in Outcomes
      /\ run.correlation \in Correlations \cup {"none"}
      /\ Complete(play.nonce, play.outcome, run.correlation)
  BY DEF PlayInv, PluginKnows, PeerTypes, Plays, TestTypes, Runs, ProofCorrelation
<1>0. /\ BridgeInv' /\ ~Active(bridge') /\ bridge.nonce = play.nonce
      /\ bridge'.nonce = play.nonce /\ UNCHANGED issued
      /\ bridge'.outcome = play.outcome /\ play.outcome \in Outcomes
      /\ Returned /\ ~Running
      /\ (bridge' = bridge \/ Accepts(Advanced(bridge), play.outcome, run.correlation))
  BY <1>a, CompleteEnds DEF ProofCorrelation, Running, Returned
<1>1. PeerTypes'
  BY <1>0 DEF PlayInv, PeerTypes
<1>2. TestTypes'
  BY <1>0 DEF PlayInv, TestTypes
<1>3. GoneForgets'
  BY <1>0 DEF PlayInv, GoneForgets
<1>4. FencedWhileActive'
  BY <1>0, PlayAssumption DEF PlayInv, FencedWhileActive
<1>5. PluginKnows'
  BY <1>0 DEF PlayInv, PluginKnows, Running, Returned
<1>6. ReasonIsTrue'
  BY <1>0 DEF PlayInv, ReasonIsTrue, Running
<1>7. ClaimIsTrue'
  BY <1>0, PlayAssumption DEF PlayInv, ClaimIsTrue, NoPlay, Outcomes
<1>8. OutcomeIsHowItEnded'
  BY <1>0, PlayAssumption
     DEF PlayInv, PluginKnows, OutcomeIsHowItEnded, ClaimIsTrue, ReasonIsTrue, Returned,
         Accepts, Outcomes
<1>9. PromiseStep
  BY <1>0
     DEF PlayInv, Quiet, PromiseStep, ClaimedMode, StudioMode, Running, Promise!Next,
         Promise!Open, Promise!Launch, Promise!Return, Promise!Settle, Promise!Lose,
         PluginKnows
<1>10. QED
  BY <1>0, <1>1, <1>2, <1>3, <1>4, <1>5, <1>6, <1>7, <1>8, <1>9 DEF PlayInv

LEMMA CompleteFailsStep ==
  ASSUME PlayInv, CompleteFails
  PROVE  PlayInv' /\ PromiseStep
<1> USE DEF CompleteFails, TryAgain, sessionVars, peerVars, serverVars, bridgeVars
<1>0. BridgeInv' /\ Quiet
  BY ObservedOrSame
<1>1. PeerTypes'
  BY <1>0 DEF PlayInv, PeerTypes
<1>2. TestTypes'
  BY <1>0 DEF PlayInv, TestTypes
<1>3. GoneForgets'
  BY <1>0, GoneStays DEF PlayInv
<1>4. FencedWhileActive'
  BY <1>0 DEF PlayInv, FencedWhileActive, Quiet
<1>5. PluginKnows'
  BY <1>0 DEF PlayInv, PluginKnows, Quiet, Running, Returned
<1>6. ReasonIsTrue'
  BY <1>0 DEF PlayInv, ReasonIsTrue, Running
<1>7. ClaimIsTrue'
  BY <1>0 DEF PlayInv, ClaimIsTrue
<1>8. OutcomeIsHowItEnded'
  BY <1>0 DEF PlayInv, OutcomeIsHowItEnded, Quiet
<1>9. PromiseStep
  BY <1>0 DEF Quiet, PromiseStep, ClaimedMode, StudioMode, Running
<1>10. QED
  BY <1>0, <1>1, <1>2, <1>3, <1>4, <1>5, <1>6, <1>7, <1>8, <1>9 DEF PlayInv

-----------------------------------------------------------------------------
(* The connection.                                                         *)
LEMMA LeaseExpiresStep ==
  ASSUME PlayInv, LeaseExpires
  PROVE  PlayInv' /\ PromiseStep
<1> USE DEF LeaseExpires, sessionVars, peerVars, serverVars, bridgeVars
<1>a. BridgeInv /\ "controller_disconnect" \in RecoverySources
  BY DEF PlayInv, RecoverySources
<1>0. BridgeInv' /\ Quiet
  BY <1>a, EnterRecoveryQuiet
<1>1. PeerTypes'
  BY <1>0 DEF PlayInv, PeerTypes
<1>2. TestTypes'
  BY <1>0 DEF PlayInv, TestTypes
<1>3. GoneForgets'
  BY <1>0, GoneStays DEF PlayInv
<1>4. FencedWhileActive'
  BY <1>0 DEF PlayInv, FencedWhileActive, Quiet
<1>5. PluginKnows'
  BY <1>0 DEF PlayInv, PluginKnows, Quiet, Running, Returned
<1>6. ReasonIsTrue'
  BY <1>0 DEF PlayInv, ReasonIsTrue, Running
<1>7. ClaimIsTrue'
  BY <1>0 DEF PlayInv, ClaimIsTrue
<1>8. OutcomeIsHowItEnded'
  BY <1>0 DEF PlayInv, OutcomeIsHowItEnded, Quiet
<1>9. PromiseStep
  BY <1>0 DEF Quiet, PromiseStep, ClaimedMode, StudioMode, Running
<1>10. QED
  BY <1>0, <1>1, <1>2, <1>3, <1>4, <1>5, <1>6, <1>7, <1>8, <1>9 DEF PlayInv

LEMMA PollFailsStep ==
  ASSUME PlayInv, PollRefused \/ PollUnheard
  PROVE  PlayInv' /\ PromiseStep
<1> USE DEF PollRefused, PollUnheard, sessionVars, peerVars, serverVars, bridgeVars
<1>0. BridgeInv' /\ Quiet /\ UNCHANGED bridgeVars
  BY DEF PlayInv, BridgeInv, Quiet
<1>1. PeerTypes'
  BY <1>0, PlayAssumption DEF PlayInv, PeerTypes
<1>2. TestTypes'
  BY <1>0 DEF PlayInv, TestTypes
<1>3. GoneForgets'
  BY <1>0, GoneStays DEF PlayInv
<1>4. FencedWhileActive'
  BY <1>0 DEF PlayInv, FencedWhileActive, Quiet
<1>5. PluginKnows'
  BY <1>0 DEF PlayInv, PluginKnows, Quiet, Running, Returned
<1>6. ReasonIsTrue'
  BY <1>0 DEF PlayInv, ReasonIsTrue, Running
<1>7. ClaimIsTrue'
  BY <1>0 DEF PlayInv, ClaimIsTrue
<1>8. OutcomeIsHowItEnded'
  BY <1>0 DEF PlayInv, OutcomeIsHowItEnded, Quiet
<1>9. PromiseStep
  BY <1>0 DEF Quiet, PromiseStep, ClaimedMode, StudioMode, Running
<1>10. QED
  BY <1>0, <1>1, <1>2, <1>3, <1>4, <1>5, <1>6, <1>7, <1>8, <1>9 DEF PlayInv

LEMMA ReplacesStep ==
  ASSUME PlayInv, Reconnect \/ ReconnectUnheard
  PROVE  PlayInv' /\ PromiseStep
<1> USE DEF Reconnect, ReconnectUnheard, Replaces, sessionVars, peerVars, serverVars, bridgeVars
<1>a. BridgeInv /\ "generation_replaced" \in RecoverySources
  BY DEF PlayInv, RecoverySources
<1>0. BridgeInv' /\ Quiet
  BY <1>a, EnterRecoveryQuiet
<1>1. PeerTypes'
  BY <1>0, PlayAssumption DEF PlayInv, PeerTypes
<1>2. TestTypes'
  BY <1>0 DEF PlayInv, TestTypes
<1>3. GoneForgets'
  BY <1>0, GoneStays DEF PlayInv
<1>4. FencedWhileActive'
  BY <1>0 DEF PlayInv, FencedWhileActive, Quiet
<1>5. PluginKnows'
  BY <1>0 DEF PlayInv, PluginKnows, Quiet, Running, Returned
<1>6. ReasonIsTrue'
  BY <1>0 DEF PlayInv, ReasonIsTrue, Running
<1>7. ClaimIsTrue'
  BY <1>0 DEF PlayInv, ClaimIsTrue
<1>8. OutcomeIsHowItEnded'
  BY <1>0 DEF PlayInv, OutcomeIsHowItEnded, Quiet
<1>9. PromiseStep
  BY <1>0 DEF Quiet, PromiseStep, ClaimedMode, StudioMode, Running
<1>10. QED
  BY <1>0, <1>1, <1>2, <1>3, <1>4, <1>5, <1>6, <1>7, <1>8, <1>9 DEF PlayInv

LEMMA RegisterStep ==
  ASSUME PlayInv, Register
  PROVE  PlayInv' /\ PromiseStep
<1> USE DEF Register, Unpolled, sessionVars, peerVars, serverVars, bridgeVars
<1>0. BridgeInv' /\ Quiet /\ UNCHANGED bridgeVars
  BY DEF PlayInv, BridgeInv, Quiet
<1>c. ~Running /\ (link = "gone" => ~Active(bridge))
  BY DEF PlayInv, GoneForgets, NoTransition, Active, PluginKnows, NoPlay
<1>1. PeerTypes'
  BY <1>0, PlayAssumption DEF PlayInv, PeerTypes
<1>2. TestTypes'
  BY <1>0 DEF PlayInv, TestTypes
<1>3. GoneForgets'
  BY <1>0, GoneStays DEF PlayInv
<1>4. FencedWhileActive'
  BY <1>0 DEF PlayInv, FencedWhileActive, Quiet
<1>5. PluginKnows'
  BY <1>0 DEF PlayInv, PluginKnows, Quiet, Running, Returned
<1>6. ReasonIsTrue'
  BY <1>0 DEF PlayInv, ReasonIsTrue, Running
<1>7. ClaimIsTrue'
  BY <1>0 DEF PlayInv, ClaimIsTrue
<1>8. OutcomeIsHowItEnded'
  BY <1>0 DEF PlayInv, OutcomeIsHowItEnded, Quiet
<1>9. PromiseStep
  BY <1>0, <1>c
     DEF PromiseStep, ClaimedMode, StudioMode, Running, Active, Promise!Next,
         Promise!Settle
<1>10. QED
  BY <1>0, <1>1, <1>2, <1>3, <1>4, <1>5, <1>6, <1>7, <1>8, <1>9 DEF PlayInv

LEMMA ReconcileStep ==
  ASSUME PlayInv, Reconcile
  PROVE  PlayInv' /\ PromiseStep
<1> USE DEF Reconcile, sessionVars, peerVars, serverVars, bridgeVars
<1>a. Observe \/ UNCHANGED bridgeVars
  BY DEF Observe
<1>b. \/ peer' = "loop" /\ play' = NoPlay /\ ~play.started /\ attempt' = attempt
      \/ peer' = "completing" /\ play' = play /\ play.outcome # None /\ attempt' = "recovery"
      \/ /\ play' = [play EXCEPT !.stopId = TRUE]
         /\ \/ peer' = "settling" /\ attempt' = "recovery"
            \/ peer' = "loop" /\ attempt' = attempt
      \/ peer' = "dead" /\ play' = play /\ attempt' = attempt
  <2>1. CASE Returned /\ play.outcome = bridge'.outcome /\ bridge'.state = "completed"
    <3>1. BridgeInv'
      BY <1>a, ObservedOrSame
    <3>2. bridge'.outcome # None
      BY <2>1, <3>1 DEF BridgeInv, Known, Sound
    <3>3. QED
      BY <2>1, <3>2
  <2>2. CASE ~(Returned /\ play.outcome = bridge'.outcome /\ bridge'.state = "completed")
    BY <2>2
  <2>3. QED
    BY <2>1, <2>2
<1>0. BridgeInv' /\ Quiet
  BY <1>a, ObservedOrSame
<1>1. PeerTypes'
  BY <1>0, <1>b, NoPlayTyped DEF PlayInv, PeerTypes, Plays
<1>2. TestTypes'
  BY <1>0 DEF PlayInv, TestTypes
<1>3. GoneForgets'
  BY <1>0, GoneStays DEF PlayInv
<1>4. FencedWhileActive'
  BY <1>0 DEF PlayInv, FencedWhileActive, Quiet
<1>5. PluginKnows'
  BY <1>0, <1>b
     DEF PlayInv, PluginKnows, Quiet, Running, Returned, PeerTypes, Plays, NoPlay
<1>6. ReasonIsTrue'
  BY <1>0 DEF PlayInv, ReasonIsTrue, Running
<1>7. ClaimIsTrue'
  BY <1>0, <1>b, PlayAssumption
     DEF PlayInv, ClaimIsTrue, PeerTypes, Plays, NoPlay, Outcomes
<1>8. OutcomeIsHowItEnded'
  BY <1>0 DEF PlayInv, OutcomeIsHowItEnded, Quiet
<1>9. PromiseStep
  BY <1>0 DEF Quiet, PromiseStep, ClaimedMode, StudioMode, Running
<1>10. QED
  BY <1>0, <1>1, <1>2, <1>3, <1>4, <1>5, <1>6, <1>7, <1>8, <1>9 DEF PlayInv

LEMMA CrashStep ==
  ASSUME PlayInv, Crash
  PROVE  PlayInv' /\ PromiseStep
<1> USE DEF Crash, sessionVars, peerVars, serverVars, bridgeVars
<1>0. BridgeInv' /\ Quiet /\ UNCHANGED bridgeVars
  BY DEF PlayInv, BridgeInv, Quiet
<1>1. PeerTypes'
  BY <1>0 DEF PlayInv, PeerTypes
<1>2. TestTypes'
  BY <1>0 DEF PlayInv, TestTypes
<1>3. GoneForgets'
  BY <1>0, GoneStays DEF PlayInv
<1>4. FencedWhileActive'
  BY <1>0 DEF PlayInv, FencedWhileActive, Quiet
<1>5. PluginKnows'
  BY <1>0 DEF PlayInv, PluginKnows, Quiet, Running, Returned, BridgeInv
<1>6. ReasonIsTrue'
  BY <1>0 DEF PlayInv, ReasonIsTrue, Running
<1>7. ClaimIsTrue'
  BY <1>0 DEF PlayInv, ClaimIsTrue
<1>8. OutcomeIsHowItEnded'
  BY <1>0 DEF PlayInv, OutcomeIsHowItEnded, Quiet
<1>9. PromiseStep
  BY <1>0 DEF Quiet, PromiseStep, ClaimedMode, StudioMode, Running
<1>10. QED
  BY <1>0, <1>1, <1>2, <1>3, <1>4, <1>5, <1>6, <1>7, <1>8, <1>9 DEF PlayInv

-----------------------------------------------------------------------------
(* The Play server.                                                        *)
LEMMA ServerAttachesStep ==
  ASSUME PlayInv, ServerAttaches
  PROVE  PlayInv' /\ PromiseStep
<1> USE DEF ServerAttaches, EndTest, Goes, sessionVars, peerVars, serverVars, bridgeVars
<1>a. run.nonce \in Nonce /\ run.nonce \in Server
  BY DEF Attach, Authenticated, Current, ServerPoll, ArmWatchdog, ReceiveStop, PlayInv,
         TestTypes, Runs, Server
<1>b. BridgeInv
  BY DEF PlayInv
<1>0. BridgeInv' /\ Quiet
  BY <1>a, <1>b, AttachQuiet
<1>1. PeerTypes'
  BY <1>0 DEF PlayInv, PeerTypes
<1>2. TestTypes'
  BY <1>0
     DEF PlayInv, TestTypes, Runs, Reasons, StartFailures, StopReasons, Correlations,
         Running
<1>3. GoneForgets'
  BY <1>0, GoneStays DEF PlayInv
<1>4. FencedWhileActive'
  BY <1>0 DEF PlayInv, FencedWhileActive, Quiet
<1>5. PluginKnows'
  BY <1>0 DEF PlayInv, PluginKnows, Quiet, Running, Returned, TestTypes, Runs
<1>6. ReasonIsTrue'
  BY <1>0
     DEF PlayInv, ReasonIsTrue, Running, TestTypes, Runs, StartFailures, StopReasons
<1>7. ClaimIsTrue'
  BY <1>0, PlayAssumption
     DEF PlayInv, ClaimIsTrue, PluginKnows, Running, Returned, TestTypes, Runs,
         PeerTypes, Plays, Outcomes
<1>8. OutcomeIsHowItEnded'
  BY <1>0
     DEF PlayInv, OutcomeIsHowItEnded, Quiet, ReasonIsTrue, TestTypes, Runs,
         StartFailures, StopReasons, Running
<1>9. PromiseStep
  BY <1>0
     DEF PlayInv, Quiet, PromiseStep, ClaimedMode, StudioMode, Running, Promise!Next,
         Promise!Open, Promise!Launch, Promise!Return, Promise!Settle, Promise!Lose,
         PluginKnows
<1>10. QED
  BY <1>0, <1>1, <1>2, <1>3, <1>4, <1>5, <1>6, <1>7, <1>8, <1>9 DEF PlayInv

LEMMA ServerArmsStep ==
  ASSUME PlayInv, ServerArms
  PROVE  PlayInv' /\ PromiseStep
<1> USE DEF ServerArms, EndTest, Goes, sessionVars, peerVars, serverVars, bridgeVars
<1>a. run.nonce \in Nonce /\ run.nonce \in Server
  BY DEF Attach, Authenticated, Current, ServerPoll, ArmWatchdog, ReceiveStop, PlayInv,
         TestTypes, Runs, Server
<1>b. BridgeInv
  BY DEF PlayInv
<1>0. BridgeInv' /\ Quiet
  BY <1>a, <1>b, ArmQuiet
<1>1. PeerTypes'
  BY <1>0 DEF PlayInv, PeerTypes
<1>2. TestTypes'
  BY <1>0
     DEF PlayInv, TestTypes, Runs, Reasons, StartFailures, StopReasons, Correlations,
         Running
<1>3. GoneForgets'
  BY <1>0, GoneStays DEF PlayInv
<1>4. FencedWhileActive'
  BY <1>0 DEF PlayInv, FencedWhileActive, Quiet
<1>5. PluginKnows'
  BY <1>0 DEF PlayInv, PluginKnows, Quiet, Running, Returned, TestTypes, Runs
<1>6. ReasonIsTrue'
  BY <1>0
     DEF PlayInv, ReasonIsTrue, Running, TestTypes, Runs, StartFailures, StopReasons
<1>7. ClaimIsTrue'
  BY <1>0, PlayAssumption
     DEF PlayInv, ClaimIsTrue, PluginKnows, Running, Returned, TestTypes, Runs,
         PeerTypes, Plays, Outcomes
<1>8. OutcomeIsHowItEnded'
  BY <1>0
     DEF PlayInv, OutcomeIsHowItEnded, Quiet, ReasonIsTrue, TestTypes, Runs,
         StartFailures, StopReasons, Running
<1>9. PromiseStep
  BY <1>0
     DEF PlayInv, Quiet, PromiseStep, ClaimedMode, StudioMode, Running, Promise!Next,
         Promise!Open, Promise!Launch, Promise!Return, Promise!Settle, Promise!Lose,
         PluginKnows
<1>10. QED
  BY <1>0, <1>1, <1>2, <1>3, <1>4, <1>5, <1>6, <1>7, <1>8, <1>9 DEF PlayInv

LEMMA ServerPollsStep ==
  ASSUME PlayInv, ServerPolls
  PROVE  PlayInv' /\ PromiseStep
<1> USE DEF ServerPolls, EndTest, Goes, sessionVars, peerVars, serverVars, bridgeVars
<1>a. run.nonce \in Nonce /\ run.nonce \in Server
  BY DEF Attach, Authenticated, Current, ServerPoll, ArmWatchdog, ReceiveStop, PlayInv,
         TestTypes, Runs, Server
<1>b. BridgeInv
  BY DEF PlayInv
<1>0. BridgeInv' /\ Quiet
  BY <1>a, <1>b, ServerPollQuiet
<1>c. ReasonIsTrue'
  <2>1. /\ (server' = "acking") => heard'
        /\ server' \notin {"attaching", "arming"}
    BY DEF Running
  <2>2. CASE Running
    BY <2>1, <2>2 DEF PlayInv, ReasonIsTrue, Running, StartFailures, StopReasons
  <2>3. CASE ~Running
    BY <2>1, <2>3 DEF PlayInv, ReasonIsTrue, Running, TestTypes
  <2>4. QED
    BY <2>2, <2>3
<1>1. PeerTypes'
  BY <1>0 DEF PlayInv, PeerTypes
<1>2. TestTypes'
  BY <1>0
     DEF PlayInv, TestTypes, Runs, Reasons, StartFailures, StopReasons, Correlations,
         Running
<1>3. GoneForgets'
  BY <1>0, GoneStays DEF PlayInv
<1>4. FencedWhileActive'
  BY <1>0 DEF PlayInv, FencedWhileActive, Quiet
<1>5. PluginKnows'
  BY <1>0 DEF PlayInv, PluginKnows, Quiet, Running, Returned, TestTypes, Runs
<1>6. ReasonIsTrue'
  BY <1>0, <1>c
<1>7. ClaimIsTrue'
  BY <1>0, PlayAssumption
     DEF PlayInv, ClaimIsTrue, PluginKnows, Running, Returned, TestTypes, Runs,
         PeerTypes, Plays, Outcomes
<1>8. OutcomeIsHowItEnded'
  BY <1>0
     DEF PlayInv, OutcomeIsHowItEnded, Quiet, ReasonIsTrue, TestTypes, Runs,
         StartFailures, StopReasons, Running
<1>9. PromiseStep
  BY <1>0
     DEF PlayInv, Quiet, PromiseStep, ClaimedMode, StudioMode, Running, Promise!Next,
         Promise!Open, Promise!Launch, Promise!Return, Promise!Settle, Promise!Lose,
         PluginKnows
<1>10. QED
  BY <1>0, <1>1, <1>2, <1>3, <1>4, <1>5, <1>6, <1>7, <1>8, <1>9 DEF PlayInv

LEMMA ServerAcksStep ==
  ASSUME PlayInv, ServerAcks
  PROVE  PlayInv' /\ PromiseStep
<1> USE DEF ServerAcks, EndTest, Goes, sessionVars, peerVars, serverVars, bridgeVars
<1>a. run.nonce \in Nonce /\ run.nonce \in Server
  BY DEF Attach, Authenticated, Current, ServerPoll, ArmWatchdog, ReceiveStop, PlayInv,
         TestTypes, Runs, Server
<1>b. BridgeInv
  BY DEF PlayInv
<1>0. BridgeInv' /\ Quiet
  BY <1>a, <1>b, ReceiveStopQuiet
<1>1. PeerTypes'
  BY <1>0 DEF PlayInv, PeerTypes
<1>2. TestTypes'
  BY <1>0
     DEF PlayInv, TestTypes, Runs, Reasons, StartFailures, StopReasons, Correlations,
         Running
<1>3. GoneForgets'
  BY <1>0, GoneStays DEF PlayInv
<1>4. FencedWhileActive'
  BY <1>0 DEF PlayInv, FencedWhileActive, Quiet
<1>5. PluginKnows'
  BY <1>0 DEF PlayInv, PluginKnows, Quiet, Running, Returned, TestTypes, Runs
<1>6. ReasonIsTrue'
  BY <1>0
     DEF PlayInv, ReasonIsTrue, Running, TestTypes, Runs, StartFailures, StopReasons
<1>7. ClaimIsTrue'
  BY <1>0, PlayAssumption
     DEF PlayInv, ClaimIsTrue, PluginKnows, Running, Returned, TestTypes, Runs,
         PeerTypes, Plays, Outcomes
<1>8. OutcomeIsHowItEnded'
  BY <1>0
     DEF PlayInv, OutcomeIsHowItEnded, Quiet, ReasonIsTrue, TestTypes, Runs,
         StartFailures, StopReasons, Running
<1>9. PromiseStep
  BY <1>0
     DEF PlayInv, Quiet, PromiseStep, ClaimedMode, StudioMode, Running, Promise!Next,
         Promise!Open, Promise!Launch, Promise!Return, Promise!Settle, Promise!Lose,
         PluginKnows
<1>10. QED
  BY <1>0, <1>1, <1>2, <1>3, <1>4, <1>5, <1>6, <1>7, <1>8, <1>9 DEF PlayInv

LEMMA AttachFailsStep ==
  ASSUME PlayInv, AttachFails
  PROVE  PlayInv' /\ PromiseStep
<1> USE DEF AttachFails, EndTest, sessionVars, peerVars, serverVars, bridgeVars
<1>0. BridgeInv' /\ Quiet /\ UNCHANGED bridgeVars
  BY DEF PlayInv, BridgeInv, Quiet
<1>1. PeerTypes'
  BY <1>0 DEF PlayInv, PeerTypes
<1>2. TestTypes'
  BY <1>0
     DEF PlayInv, TestTypes, Runs, Reasons, StartFailures, StopReasons, Correlations,
         Running
<1>3. GoneForgets'
  BY <1>0, GoneStays DEF PlayInv
<1>4. FencedWhileActive'
  BY <1>0 DEF PlayInv, FencedWhileActive, Quiet
<1>5. PluginKnows'
  BY <1>0 DEF PlayInv, PluginKnows, Quiet, Running, Returned, TestTypes, Runs
<1>6. ReasonIsTrue'
  BY <1>0
     DEF PlayInv, ReasonIsTrue, Running, TestTypes, Runs, StartFailures, StopReasons
<1>7. ClaimIsTrue'
  BY <1>0, PlayAssumption
     DEF PlayInv, ClaimIsTrue, PluginKnows, Running, Returned, TestTypes, Runs,
         PeerTypes, Plays, Outcomes
<1>8. OutcomeIsHowItEnded'
  BY <1>0
     DEF PlayInv, OutcomeIsHowItEnded, Quiet, ReasonIsTrue, TestTypes, Runs,
         StartFailures, StopReasons, Running
<1>9. PromiseStep
  BY <1>0
     DEF PlayInv, Quiet, PromiseStep, ClaimedMode, StudioMode, Running, Promise!Next,
         Promise!Open, Promise!Launch, Promise!Return, Promise!Settle, Promise!Lose,
         PluginKnows
<1>10. QED
  BY <1>0, <1>1, <1>2, <1>3, <1>4, <1>5, <1>6, <1>7, <1>8, <1>9 DEF PlayInv

LEMMA ArmFailsStep ==
  ASSUME PlayInv, ArmFails
  PROVE  PlayInv' /\ PromiseStep
<1> USE DEF ArmFails, EndTest, sessionVars, peerVars, serverVars, bridgeVars
<1>0. BridgeInv' /\ Quiet /\ UNCHANGED bridgeVars
  BY DEF PlayInv, BridgeInv, Quiet
<1>1. PeerTypes'
  BY <1>0 DEF PlayInv, PeerTypes
<1>2. TestTypes'
  BY <1>0
     DEF PlayInv, TestTypes, Runs, Reasons, StartFailures, StopReasons, Correlations,
         Running
<1>3. GoneForgets'
  BY <1>0, GoneStays DEF PlayInv
<1>4. FencedWhileActive'
  BY <1>0 DEF PlayInv, FencedWhileActive, Quiet
<1>5. PluginKnows'
  BY <1>0 DEF PlayInv, PluginKnows, Quiet, Running, Returned, TestTypes, Runs
<1>6. ReasonIsTrue'
  BY <1>0
     DEF PlayInv, ReasonIsTrue, Running, TestTypes, Runs, StartFailures, StopReasons
<1>7. ClaimIsTrue'
  BY <1>0, PlayAssumption
     DEF PlayInv, ClaimIsTrue, PluginKnows, Running, Returned, TestTypes, Runs,
         PeerTypes, Plays, Outcomes
<1>8. OutcomeIsHowItEnded'
  BY <1>0
     DEF PlayInv, OutcomeIsHowItEnded, Quiet, ReasonIsTrue, TestTypes, Runs,
         StartFailures, StopReasons, Running
<1>9. PromiseStep
  BY <1>0
     DEF PlayInv, Quiet, PromiseStep, ClaimedMode, StudioMode, Running, Promise!Next,
         Promise!Open, Promise!Launch, Promise!Return, Promise!Settle, Promise!Lose,
         PluginKnows
<1>10. QED
  BY <1>0, <1>1, <1>2, <1>3, <1>4, <1>5, <1>6, <1>7, <1>8, <1>9 DEF PlayInv

LEMMA AckFailsStep ==
  ASSUME PlayInv, AckFails
  PROVE  PlayInv' /\ PromiseStep
<1> USE DEF AckFails, EndTest, sessionVars, peerVars, serverVars, bridgeVars
<1>0. BridgeInv' /\ Quiet /\ UNCHANGED bridgeVars
  BY DEF PlayInv, BridgeInv, Quiet
<1>1. PeerTypes'
  BY <1>0 DEF PlayInv, PeerTypes
<1>2. TestTypes'
  BY <1>0
     DEF PlayInv, TestTypes, Runs, Reasons, StartFailures, StopReasons, Correlations,
         Running
<1>3. GoneForgets'
  BY <1>0, GoneStays DEF PlayInv
<1>4. FencedWhileActive'
  BY <1>0 DEF PlayInv, FencedWhileActive, Quiet
<1>5. PluginKnows'
  BY <1>0 DEF PlayInv, PluginKnows, Quiet, Running, Returned, TestTypes, Runs
<1>6. ReasonIsTrue'
  BY <1>0
     DEF PlayInv, ReasonIsTrue, Running, TestTypes, Runs, StartFailures, StopReasons
<1>7. ClaimIsTrue'
  BY <1>0, PlayAssumption
     DEF PlayInv, ClaimIsTrue, PluginKnows, Running, Returned, TestTypes, Runs,
         PeerTypes, Plays, Outcomes
<1>8. OutcomeIsHowItEnded'
  BY <1>0
     DEF PlayInv, OutcomeIsHowItEnded, Quiet, ReasonIsTrue, TestTypes, Runs,
         StartFailures, StopReasons, Running
<1>9. PromiseStep
  BY <1>0
     DEF PlayInv, Quiet, PromiseStep, ClaimedMode, StudioMode, Running, Promise!Next,
         Promise!Open, Promise!Launch, Promise!Return, Promise!Settle, Promise!Lose,
         PluginKnows
<1>10. QED
  BY <1>0, <1>1, <1>2, <1>3, <1>4, <1>5, <1>6, <1>7, <1>8, <1>9 DEF PlayInv

LEMMA HardWatchdogStep ==
  ASSUME PlayInv, HardWatchdog
  PROVE  PlayInv' /\ PromiseStep
<1> USE DEF HardWatchdog, EndTest, sessionVars, peerVars, serverVars, bridgeVars
<1>0. BridgeInv' /\ Quiet /\ UNCHANGED bridgeVars
  BY DEF PlayInv, BridgeInv, Quiet
<1>1. PeerTypes'
  BY <1>0 DEF PlayInv, PeerTypes
<1>2. TestTypes'
  BY <1>0
     DEF PlayInv, TestTypes, Runs, Reasons, StartFailures, StopReasons, Correlations,
         Running
<1>3. GoneForgets'
  BY <1>0, GoneStays DEF PlayInv
<1>4. FencedWhileActive'
  BY <1>0 DEF PlayInv, FencedWhileActive, Quiet
<1>5. PluginKnows'
  BY <1>0 DEF PlayInv, PluginKnows, Quiet, Running, Returned, TestTypes, Runs
<1>6. ReasonIsTrue'
  BY <1>0
     DEF PlayInv, ReasonIsTrue, Running, TestTypes, Runs, StartFailures, StopReasons
<1>7. ClaimIsTrue'
  BY <1>0, PlayAssumption
     DEF PlayInv, ClaimIsTrue, PluginKnows, Running, Returned, TestTypes, Runs,
         PeerTypes, Plays, Outcomes
<1>8. OutcomeIsHowItEnded'
  BY <1>0
     DEF PlayInv, OutcomeIsHowItEnded, Quiet, ReasonIsTrue, TestTypes, Runs,
         StartFailures, StopReasons, Running
<1>9. PromiseStep
  BY <1>0
     DEF PlayInv, Quiet, PromiseStep, ClaimedMode, StudioMode, Running, Promise!Next,
         Promise!Open, Promise!Launch, Promise!Return, Promise!Settle, Promise!Lose,
         PluginKnows
<1>10. QED
  BY <1>0, <1>1, <1>2, <1>3, <1>4, <1>5, <1>6, <1>7, <1>8, <1>9 DEF PlayInv

LEMMA EndsWithoutBridgeStep ==
  ASSUME PlayInv, EndsWithoutBridge
  PROVE  PlayInv' /\ PromiseStep
<1> USE DEF EndsWithoutBridge, EndTest, sessionVars, peerVars, serverVars, bridgeVars
<1>0. BridgeInv' /\ Quiet /\ UNCHANGED bridgeVars
  BY DEF PlayInv, BridgeInv, Quiet
<1>1. PeerTypes'
  BY <1>0 DEF PlayInv, PeerTypes
<1>2. TestTypes'
  BY <1>0
     DEF PlayInv, TestTypes, Runs, Reasons, StartFailures, StopReasons, Correlations,
         Running
<1>3. GoneForgets'
  BY <1>0, GoneStays DEF PlayInv
<1>4. FencedWhileActive'
  BY <1>0 DEF PlayInv, FencedWhileActive, Quiet
<1>5. PluginKnows'
  BY <1>0 DEF PlayInv, PluginKnows, Quiet, Running, Returned, TestTypes, Runs
<1>6. ReasonIsTrue'
  BY <1>0
     DEF PlayInv, ReasonIsTrue, Running, TestTypes, Runs, StartFailures, StopReasons
<1>7. ClaimIsTrue'
  BY <1>0, PlayAssumption
     DEF PlayInv, ClaimIsTrue, PluginKnows, Running, Returned, TestTypes, Runs,
         PeerTypes, Plays, Outcomes
<1>8. OutcomeIsHowItEnded'
  BY <1>0
     DEF PlayInv, OutcomeIsHowItEnded, Quiet, ReasonIsTrue, TestTypes, Runs,
         StartFailures, StopReasons, Running
<1>9. PromiseStep
  BY <1>0
     DEF PlayInv, Quiet, PromiseStep, ClaimedMode, StudioMode, Running, Promise!Next,
         Promise!Open, Promise!Launch, Promise!Return, Promise!Settle, Promise!Lose,
         PluginKnows
<1>10. QED
  BY <1>0, <1>1, <1>2, <1>3, <1>4, <1>5, <1>6, <1>7, <1>8, <1>9 DEF PlayInv

-----------------------------------------------------------------------------
(* The broker by itself.                                                   *)
LEMMA BrokerRestartsStep ==
  ASSUME PlayInv, BrokerRestarts
  PROVE  PlayInv' /\ PromiseStep
<1> USE DEF BrokerRestarts, sessionVars, peerVars, serverVars, bridgeVars
<1>a. overdue' \in BOOLEAN
  OBVIOUS
<1>0. BridgeInv' /\ bridge' = NoTransition /\ ~Active(bridge') /\ bridge'.outcome = None
  BY <1>a, NoTransitionKnown DEF NoTransition, Active, PlayInv, BridgeInv
<1>1. PeerTypes'
  BY <1>0 DEF PlayInv, PeerTypes
<1>2. TestTypes'
  BY <1>0 DEF PlayInv, TestTypes
<1>3. GoneForgets'
  BY <1>0 DEF PlayInv, GoneForgets
<1>4. FencedWhileActive'
  BY <1>0 DEF FencedWhileActive
<1>5. PluginKnows'
  BY <1>0 DEF PlayInv, PluginKnows, Running, Returned
<1>6. ReasonIsTrue'
  BY <1>0 DEF PlayInv, ReasonIsTrue, Running
<1>7. ClaimIsTrue'
  BY <1>0 DEF PlayInv, ClaimIsTrue
<1>8. OutcomeIsHowItEnded'
  BY <1>0, PlayAssumption DEF OutcomeIsHowItEnded, Outcomes
<1>9. PromiseStep
  BY <1>0
     DEF PlayInv, Quiet, PromiseStep, ClaimedMode, StudioMode, Running, Promise!Next,
         Promise!Open, Promise!Launch, Promise!Return, Promise!Settle, Promise!Lose,
         PluginKnows
<1>10. QED
  BY <1>0, <1>1, <1>2, <1>3, <1>4, <1>5, <1>6, <1>7, <1>8, <1>9 DEF PlayInv

LEMMA RetireStep ==
  ASSUME PlayInv, Retire
  PROVE  PlayInv' /\ PromiseStep
<1> USE DEF Retire, sessionVars, peerVars, serverVars, bridgeVars
<1>a. BridgeInv' /\ bridge' = NoTransition /\ ~Active(bridge) /\ UNCHANGED issued
  <2>1. CASE bridge.state = "absent" /\ UNCHANGED bridgeVars
    BY <2>1 DEF PlayInv, BridgeInv, Known, Active
  <2>2. CASE RetireCompleted
    BY <2>2, RetireForgets DEF PlayInv
  <2>3. QED
    BY <2>1, <2>2
<1>0. /\ BridgeInv' /\ bridge' = NoTransition /\ ~Active(bridge) /\ ~Active(bridge')
      /\ bridge'.outcome = None /\ UNCHANGED issued
  BY <1>a DEF NoTransition, Active
<1>1. PeerTypes'
  BY <1>0 DEF PlayInv, PeerTypes
<1>2. TestTypes'
  BY <1>0 DEF PlayInv, TestTypes
<1>3. GoneForgets'
  BY <1>0 DEF PlayInv, GoneForgets
<1>4. FencedWhileActive'
  BY <1>0 DEF PlayInv, FencedWhileActive
<1>5. PluginKnows'
  BY <1>0 DEF PlayInv, PluginKnows, Running, Returned
<1>6. ReasonIsTrue'
  BY <1>0 DEF PlayInv, ReasonIsTrue, Running
<1>7. ClaimIsTrue'
  BY <1>0 DEF PlayInv, ClaimIsTrue
<1>8. OutcomeIsHowItEnded'
  BY <1>0, PlayAssumption DEF OutcomeIsHowItEnded, Outcomes
<1>9. PromiseStep
  BY <1>0
     DEF PlayInv, Quiet, PromiseStep, ClaimedMode, StudioMode, Running, Promise!Next,
         Promise!Open, Promise!Launch, Promise!Return, Promise!Settle, Promise!Lose,
         PluginKnows
<1>10. QED
  BY <1>0, <1>1, <1>2, <1>3, <1>4, <1>5, <1>6, <1>7, <1>8, <1>9 DEF PlayInv

-----------------------------------------------------------------------------
LEMMA BridgeAloneStep ==
  ASSUME PlayInv, BridgeExpires \/ Sweep
  PROVE  PlayInv' /\ PromiseStep
<1>1. BridgeInv' /\ Quiet
  BY ExpireQuiet, ObserveQuiet DEF PlayInv, BridgeExpires, Sweep
<1>2. UNCHANGED <<sessionVars, peerVars, run, serverVars>>
  BY DEF BridgeExpires, Sweep
<1>3. QED
  BY <1>1, <1>2, QuietKeeps

LEMMA StutterStep ==
  ASSUME PlayInv, UNCHANGED vars
  PROVE  PlayInv' /\ PromiseStep
<1>1. /\ UNCHANGED <<bridgeVars, sessionVars, peerVars, run, serverVars>>
      /\ Observe \/ UNCHANGED bridgeVars
  BY DEF vars
<1>2. BridgeInv' /\ Quiet
  BY <1>1, ObservedOrSame
<1>3. QED
  BY <1>1, <1>2, QuietKeeps

LEMMA LifecycleStep ==
  ASSUME PlayInv, [LifecycleNext]_vars
  PROVE  PlayInv' /\ PromiseStep
<1>1. ASSUME NEW r \in PlayRequest, StartPlay(r) \/ LatePrepare(r)
      PROVE  PlayInv' /\ PromiseStep
  BY <1>1, StartPlayStep, LatePrepareStep
<1>2. ASSUME NEW s \in StopRequest, StopPlay(s)
      PROVE  PlayInv' /\ PromiseStep
  BY <1>2, StopPlayStep
<1>3. CASE PluginSteps
  BY <1>3, LaunchStep, ScriptFailsStep, PrepareLostStep, AbortStep, AbortFailsStep,
     ClassifyStep, CompletePlayStep, CompleteLostStep, CompleteFailsStep, ReconcileStep,
     PollFailsStep, ReplacesStep, RegisterStep
     DEF PluginSteps
<1>4. CASE ServerSteps
  BY <1>4, ServerAttachesStep, AttachFailsStep, ServerArmsStep, ArmFailsStep,
     ServerPollsStep, ServerAcksStep, AckFailsStep
     DEF ServerSteps
<1>5. CASE Forget \/ LeaseExpires \/ PollUnheard \/ ReconnectUnheard \/ Crash
  BY <1>5, ForgetStep, LeaseExpiresStep, PollFailsStep, ReplacesStep, CrashStep
<1>6. CASE HardWatchdog \/ EndsWithoutBridge
  BY <1>6, HardWatchdogStep, EndsWithoutBridgeStep
<1>7. CASE BrokerRestarts \/ Retire
  BY <1>7, BrokerRestartsStep, RetireStep
<1>8. CASE BridgeExpires \/ Sweep
  BY <1>8, BridgeAloneStep
<1>9. CASE UNCHANGED vars
  BY <1>9, StutterStep
<1>10. QED
  BY <1>1, <1>2, <1>3, <1>4, <1>5, <1>6, <1>7, <1>8, <1>9 DEF LifecycleNext

(* The inductive invariant of the composition: plugin, Play server, Studio *)
(* and broker together.                                                    *)
THEOREM PlayInvariant == LifecycleSpec => []PlayInv
<1>1. PlayInv /\ [LifecycleNext]_vars => PlayInv'
  BY LifecycleStep
<1>2. QED
  BY <1>1, LifecycleStart, PTL DEF LifecycleSpec

(* Every variable of the composition keeps its type.                       *)
THEOREM LifecycleTypes == LifecycleSpec => []LifecycleTypeOK
<1>1. PlayInv => LifecycleTypeOK
  BY DEF PlayInv, BridgeInv, Known, PeerTypes, TestTypes, LifecycleTypeOK, TypeOK
<1>2. QED
  BY <1>1, PlayInvariant, PTL

(* Whatever gets lost, delayed or repeated, the acknowledgements on which  *)
(* the broker completed a transition are there.                            *)
THEOREM PlayRecordSound == LifecycleSpec => []RecordSound
<1>1. PlayInv => RecordSound
  BY DEF PlayInv, BridgeInv, Known, RecordSound
<1>2. QED
  BY <1>1, PlayInvariant, PTL

(* The session fences other work for exactly as long as its transition is  *)
(* open: no call of any actor leaves one without the other.                *)
THEOREM PlayFenced == LifecycleSpec => []FencedWhileActive
<1>1. PlayInv => FencedWhileActive
  BY DEF PlayInv
<1>2. QED
  BY <1>1, PlayInvariant, PTL

(* The outcome that the broker recorded is how the test in Studio ended.   *)
THEOREM PlayOutcomeTrue == LifecycleSpec => []OutcomeIsHowItEnded
<1>1. PlayInv => OutcomeIsHowItEnded
  BY DEF PlayInv
<1>2. QED
  BY <1>1, PlayInvariant, PTL

(* The composition implements the promise made to a client: the broker     *)
(* says Edit again only over a Studio that has stopped, and no test starts *)
(* while it says so.                                                       *)
THEOREM PromiseKept == LifecycleSpec => PromiseSpec
<1>1. LifecycleInit => Promise!Init
  BY DEF LifecycleInit, Init, Promise!Init, ClaimedMode, StudioMode, NoTransition,
         Active,
         Running, NoRun
<1>2. PlayInv /\ [LifecycleNext]_vars => [Promise!Next]_<<ClaimedMode, StudioMode>>
  BY LifecycleStep DEF PromiseStep
<1>3. Promise!vars = <<ClaimedMode, StudioMode>>
  BY DEF Promise!vars
<1>4. QED
  BY <1>1, <1>2, <1>3, PlayInvariant, PTL
     DEF LifecycleSpec, PromiseSpec, Promise!Spec, Promise!vars

-----------------------------------------------------------------------------
(* What no call does to a transition.  A stop with an owner is a stop: the *)
(* record has none whose owner a later stop could replace.                 *)
OwnedStop(b) == b.owner # None => b.stop

(* Record c is record b, or what a call may make of it.                    *)
Follows(b, c) ==
  /\ c.nonce = b.nonce
  /\ b.attach # None => c.attach = b.attach
  /\ b.owner # None => c.owner = b.owner
  /\ b.stop => c.stop /\ c.source = b.source
  /\ b.state = "completed" => c = b
  /\ OwnedStop(c)

Opens == /\ ~Active(bridge) /\ bridge'.nonce # bridge.nonce
         /\ bridge'.owner = None

BridgeMove == Follows(bridge, bridge') \/ Opens

LEMMA MoveKeeps ==
  ASSUME BridgeMove
  PROVE  StepKeepsTransition /\ OwnedStop(bridge')
BY DEF BridgeMove, Follows, Opens, StepKeepsTransition, OwnedStop

LEMMA SameFollows ==
  ASSUME NEW b, OwnedStop(b)
  PROVE  Follows(b, b)
BY DEF Follows

LEMMA FollowsOn ==
  ASSUME NEW a, NEW b, NEW c, Follows(a, b), Follows(b, c)
  PROVE  Follows(a, c)
BY DEF Follows

(* A stop keeps what the record had, unless it takes it from its owner.    *)
LEMMA StopFollows ==
  ASSUME NEW b \in Transitions, NEW source \in Sources, NEW owner \in StopRequest \cup {None},
         b.state # "completed", b.owner = None \/ owner = None
  PROVE  Follows(b, SetStopRequested(b, source, owner))
<1> DEFINE c == SetStopRequested(b, source, owner)
<1>1. c \in Transitions
  BY StopTyped
<1>2. /\ c.stop = TRUE /\ c.source = (IF b.stop THEN b.source ELSE source)
      /\ c.owner = (IF owner # None THEN owner ELSE b.owner)
      /\ c.nonce = b.nonce /\ c.attach = b.attach
  BY <1>1 DEF SetStopRequested, Transitions
<1> HIDE DEF c
<1>3. Follows(b, c)
  BY <1>2 DEF Follows, OwnedStop
<1>4. QED
  BY <1>3 DEF c

LEMMA AdvancedFollows ==
  ASSUME NEW b, Known(b), OwnedStop(b)
  PROVE  /\ Follows(b, Advanced(b)) /\ Known(Advanced(b)) /\ OwnedStop(Advanced(b))
         /\ Advanced(b).nonce = b.nonce
<1>1. Follows(b, Advanced(b))
  <2>1. CASE overdue /\ b.state \in {"prepared", "attached"}
    <3>1. /\ b \in Transitions /\ b.state # "completed" /\ None \in StopRequest \cup {None}
          /\ "attach_ttl_watchdog" \in Sources /\ "play_ttl_watchdog" \in Sources
      BY <2>1 DEF Known, Sources, ExpirySources
    <3>2. \/ Advanced(b) = SetStopRequested(b, "attach_ttl_watchdog", None)
          \/ Advanced(b) = SetStopRequested(b, "play_ttl_watchdog", None)
      BY <2>1 DEF Advanced
    <3>3. QED
      BY <3>1, <3>2, StopFollows
  <2>2. CASE ~(overdue /\ b.state \in {"prepared", "attached"})
    BY <2>2, SameFollows DEF Advanced
  <2>3. QED
    BY <2>1, <2>2
<1>2. QED
  BY <1>1, AdvancedKnown DEF Follows

(* Fields that the promise does not speak of.                              *)
LEMMA FieldFollows ==
  ASSUME NEW b \in Transitions, OwnedStop(b), b.state # "completed"
  PROVE  /\ Follows(b, Burned(b))
         /\ Follows(b, [b EXCEPT !.armed = TRUE])
         /\ Follows(b, [b EXCEPT !.acked = TRUE, !.state = "stop_acked"])
         /\ Follows(b, [b EXCEPT !.recovery = TRUE])
         /\ \A o : Follows(b, Closed(b, o)) /\ Follows(b, Settled(b, o))
<1>1. Follows(b, Burned(b))
  BY DEF Follows, OwnedStop, Burned, Transitions
<1>2. Follows(b, [b EXCEPT !.armed = TRUE])
  BY DEF Follows, OwnedStop, Transitions
<1>3. Follows(b, [b EXCEPT !.acked = TRUE, !.state = "stop_acked"])
  BY DEF Follows, OwnedStop, Transitions
<1>4. Follows(b, [b EXCEPT !.recovery = TRUE])
  BY DEF Follows, OwnedStop, Transitions
<1>5. ASSUME NEW o PROVE Follows(b, Closed(b, o)) /\ Follows(b, Settled(b, o))
  BY DEF Follows, OwnedStop, Closed, Settled, Transitions
<1>6. QED
  BY <1>1, <1>2, <1>3, <1>4, <1>5

(* The calls, one by one, on a record that they find.                      *)
Found == BridgeInv /\ OwnedStop(bridge)

LEMMA ObserveFollows ==
  ASSUME Found, Observe \/ Expire \/ UNCHANGED bridge
  PROVE  Follows(bridge, bridge')
<1>1. CASE Observe
  BY <1>1, AdvancedFollows DEF Found, BridgeInv, Observe
<1>2. CASE Expire \/ UNCHANGED bridge
  <2>1. bridge' = bridge
    BY <1>2 DEF Expire
  <2>2. QED
    BY <2>1, SameFollows DEF Found
<1>3. QED
  BY <1>1, <1>2

LEMMA AttachFollows ==
  ASSUME NEW n, NEW s, Found, Attach(n, s)
  PROVE  Follows(bridge, bridge')
<1> DEFINE b == Advanced(bridge)
<1>1. Follows(bridge, b) /\ Known(b) /\ OwnedStop(b)
  BY AdvancedFollows DEF Found, BridgeInv
<1>2. \/ bridge' = b
      \/ /\ b.attach = None /\ b.state # "completed"
         /\ bridge' = [b EXCEPT !.attach = s,
                                !.state = IF b.state = "prepared" THEN "attached" ELSE b.state]
  BY DEF Attach
<1> HIDE DEF b
<1>3. CASE bridge' = b
  BY <1>1, <1>3
<1>4. CASE bridge' # b
  <2>1. Follows(b, bridge')
    BY <1>1, <1>2, <1>4 DEF Follows, OwnedStop, Known, Transitions
  <2>2. QED
    BY <1>1, <2>1, FollowsOn
<1>5. QED
  BY <1>3, <1>4

(* What an authenticated call of the server starts from.                   *)
LEMMA ServerFollows ==
  ASSUME NEW n, NEW s, Found, Authenticated(n, s), s # None
  PROVE  LET b == Burned(Advanced(bridge))
         IN  /\ Follows(bridge, b) /\ b \in Transitions /\ OwnedStop(b)
             /\ b.state # "completed"
<1> DEFINE a == Advanced(bridge)
<1>1. Follows(bridge, a) /\ Known(a) /\ OwnedStop(a)
  BY AdvancedFollows DEF Found, BridgeInv
<1>2. bridge.state # "completed" /\ bridge.attach = s
  BY DEF Authenticated
<1>3. a.state # "completed"
  BY <1>2 DEF Advanced, SetStopRequested, Found, BridgeInv, Known, Transitions
<1>4. a.attach # None
  BY <1>1, <1>2 DEF Follows
<1> HIDE DEF a
<1>5. Follows(a, Burned(a)) /\ Known(Burned(a)) /\ Burned(a).state # "completed"
  BY <1>1, <1>3, <1>4, FieldFollows, BurnedKnown DEF Known
<1>6. QED
  BY <1>1, <1>5, FollowsOn DEF Follows, Known, a

LEMMA ServerPollFollows ==
  ASSUME NEW n, NEW s, Found, ServerPoll(n, s), s # None
  PROVE  Follows(bridge, bridge')
BY ServerFollows DEF ServerPoll

LEMMA ArmFollows ==
  ASSUME NEW n, NEW s, Found, ArmWatchdog(n, s), s # None
  PROVE  Follows(bridge, bridge')
<1> DEFINE b == Burned(Advanced(bridge))
<1>1. Authenticated(n, s) /\ (bridge' = b \/ bridge' = [b EXCEPT !.armed = TRUE])
  BY DEF ArmWatchdog
<1>2. Follows(bridge, b) /\ b \in Transitions /\ OwnedStop(b) /\ b.state # "completed"
  BY <1>1, ServerFollows
<1> HIDE DEF b
<1> DEFINE c == [b EXCEPT !.armed = TRUE]
<1>3. Follows(b, c)
  BY <1>2, FieldFollows
<1>4. bridge' = b \/ bridge' = c
  BY <1>1
<1> HIDE DEF c
<1>5. QED
  BY <1>2, <1>3, <1>4, FollowsOn

LEMMA ReceiveStopFollows ==
  ASSUME NEW n, NEW s, Found, ReceiveStop(n, s), s # None
  PROVE  Follows(bridge, bridge')
<1> DEFINE b == Burned(Advanced(bridge))
<1>1. /\ Authenticated(n, s)
      /\ bridge' = b \/ bridge' = [b EXCEPT !.acked = TRUE, !.state = "stop_acked"]
  BY DEF ReceiveStop
<1>2. Follows(bridge, b) /\ b \in Transitions /\ OwnedStop(b) /\ b.state # "completed"
  BY <1>1, ServerFollows
<1> HIDE DEF b
<1>3. Follows(b, [b EXCEPT !.acked = TRUE, !.state = "stop_acked"])
  BY <1>2, FieldFollows
<1>4. QED
  BY <1>1, <1>2, <1>3, FollowsOn

LEMMA RequestStopFollows ==
  ASSUME NEW n, NEW r \in StopRequest, Found, RequestStop(n, r)
  PROVE  Follows(bridge, bridge')
<1> DEFINE b == Advanced(bridge)
<1>1. Follows(bridge, b) /\ Known(b) /\ OwnedStop(b)
  BY AdvancedFollows DEF Found, BridgeInv
<1>2. /\ b.state # "completed"
      /\ \/ bridge' = b
         \/ b.stop /\ b.owner = None /\ bridge' = [b EXCEPT !.owner = r]
         \/ ~b.stop /\ bridge' = SetStopRequested(b, "controller", r)
  BY DEF RequestStop
<1> HIDE DEF b
<1>3. CASE bridge' = b
  BY <1>1, <1>3
<1>4. CASE b.stop /\ b.owner = None /\ bridge' = [b EXCEPT !.owner = r]
  <2>1. Follows(b, bridge')
    BY <1>1, <1>2, <1>4 DEF Follows, OwnedStop, Known, Transitions
  <2>2. QED
    BY <1>1, <2>1, FollowsOn
<1>5. CASE ~b.stop /\ bridge' = SetStopRequested(b, "controller", r)
  <2>1. b.owner = None /\ "controller" \in Sources /\ b \in Transitions
    BY <1>1, <1>5 DEF OwnedStop, Sources, Known
  <2>2. Follows(b, bridge')
    BY <1>2, <1>5, <2>1, StopFollows
  <2>3. QED
    BY <1>1, <2>2, FollowsOn
<1>6. QED
  BY <1>2, <1>3, <1>4, <1>5

LEMMA AbortFollows ==
  ASSUME NEW n, Found, AbortPreAttach(n)
  PROVE  Follows(bridge, bridge')
<1> DEFINE b == Advanced(bridge)
<1>1. Follows(bridge, b) /\ Known(b) /\ OwnedStop(b)
  BY AdvancedFollows DEF Found, BridgeInv
<1>2. \/ bridge' = b
      \/ b.state # "completed" /\ bridge' = Closed(b, "pre_attach_aborted")
  BY DEF AbortPreAttach, Untouched, Closed
<1> HIDE DEF b
<1>3. b.state # "completed" => Follows(b, Closed(b, "pre_attach_aborted"))
  BY <1>1, FieldFollows DEF Known
<1>4. QED
  BY <1>1, <1>2, <1>3, FollowsOn

LEMMA CompleteFollows ==
  ASSUME NEW n, NEW o, NEW c, Found, Complete(n, o, c)
  PROVE  Follows(bridge, bridge')
<1> DEFINE b == Advanced(bridge)
<1>1. Follows(bridge, b) /\ Known(b) /\ OwnedStop(b)
  BY AdvancedFollows DEF Found, BridgeInv
<1>2. bridge' = IF b.state = "completed" THEN b
                ELSE [[b EXCEPT !.state = "completed", !.outcome = o] EXCEPT !.recovery = FALSE]
  BY DEF Complete
<1> HIDE DEF b
<1>3. \/ bridge' = b
      \/ b.state # "completed" /\ bridge' = Settled(b, o)
  BY <1>2 DEF Settled, Closed
<1>4. b.state # "completed" => Follows(b, Settled(b, o))
  BY <1>1, FieldFollows DEF Known
<1>5. QED
  BY <1>1, <1>3, <1>4, FollowsOn

LEMMA EnterRecoveryFollows ==
  ASSUME NEW g, NEW source \in RecoverySources, Found, EnterRecovery(g, source)
  PROVE  Follows(bridge, bridge')
<1>1. bridge' = Recovered(g, source) /\ Known(bridge) /\ OwnedStop(bridge)
  BY DEF EnterRecovery, Found, BridgeInv
<1>2. CASE Active(bridge) /\ bridge.generation = g
  <2> DEFINE c == [bridge EXCEPT !.recovery = TRUE]
  <2>1. c \in Transitions
    BY <1>1, TypedUpdate DEF Known
  <2>2. c.state = bridge.state
    BY <1>1 DEF Known, Transitions
  <2>3. bridge' = SetStopRequested(c, source, None)
    BY <1>1, <1>2 DEF Recovered
  <2>4. Follows(bridge, c)
    BY <1>1, <1>2, FieldFollows DEF Known, Active
  <2> HIDE DEF c
  <2>5. Follows(c, bridge')
    BY <1>2, <2>1, <2>2, <2>3, StopFollows DEF Active, Sources
  <2>6. QED
    BY <2>4, <2>5, FollowsOn
<1>3. CASE ~(Active(bridge) /\ bridge.generation = g)
  BY <1>1, <1>3, SameFollows DEF Recovered
<1>4. QED
  BY <1>2, <1>3

LEMMA PrepareMoves ==
  ASSUME NEW r, NEW g, Found, PrepareRetried(r, g) \/ PrepareNew(r, g)
  PROVE  BridgeMove
<1>1. CASE PrepareRetried(r, g)
  <2>1. Observe
    BY <1>1 DEF PrepareRetried, Observe
  <2>2. QED
    BY <2>1, ObserveFollows DEF BridgeMove
<1>2. CASE PrepareNew(r, g)
  <2>1. /\ ~Active(bridge) /\ issued' = issued + 1 /\ issued \in 0..MaxTransitions
        /\ bridge.nonce <= issued /\ bridge \in Transitions
    BY <1>2 DEF PrepareNew, Found, BridgeInv, Known
  <2>2. bridge'.nonce = issued' /\ bridge'.owner = None
    BY <1>2 DEF PrepareNew, NoTransition
  <2>3. bridge.nonce # issued'
    BY <2>1, PlayAssumption DEF Transitions, Nonce
  <2>4. QED
    BY <2>1, <2>2, <2>3 DEF BridgeMove, Opens
<1>3. QED
  BY <1>1, <1>2

LEMMA RetireMoves ==
  ASSUME Found, RetireCompleted
  PROVE  BridgeMove
<1>1. ~Active(bridge) /\ bridge' = NoTransition /\ bridge.nonce # 0
  BY DEF RetireCompleted, Active, Found, BridgeInv, Known
<1>2. QED
  BY <1>1 DEF BridgeMove, Opens, NoTransition

LEMMA BridgeMoves ==
  ASSUME Found, [Next]_bridgeVars
  PROVE  BridgeMove
<1>1. CASE Observe \/ Expire
  BY <1>1, ObserveFollows DEF BridgeMove
<1>2. CASE RetireCompleted
  BY <1>2, RetireMoves
<1>3. ASSUME NEW r \in PlayRequest, NEW g \in 1..MaxGeneration,
             PrepareRetried(r, g) \/ PrepareNew(r, g)
      PROVE  BridgeMove
  BY <1>3, PrepareMoves
<1>4. ASSUME NEW n \in Nonce, NEW s \in Server,
             \/ Attach(n, s) \/ ServerPoll(n, s) \/ ArmWatchdog(n, s) \/ ReceiveStop(n, s)
      PROVE  BridgeMove
  <2>1. s # None
    BY PlayAssumption DEF Server
  <2>2. QED
    BY <1>4, <2>1, AttachFollows, ServerPollFollows, ArmFollows, ReceiveStopFollows DEF BridgeMove
<1>5. ASSUME NEW n \in Nonce, NEW r \in StopRequest, RequestStop(n, r)
      PROVE  BridgeMove
  BY <1>5, RequestStopFollows DEF BridgeMove
<1>6. ASSUME NEW n \in Nonce, AbortPreAttach(n)
      PROVE  BridgeMove
  BY <1>6, AbortFollows DEF BridgeMove
<1>7. ASSUME NEW n \in Nonce, NEW o \in Outcomes, NEW c \in Correlations, Complete(n, o, c)
      PROVE  BridgeMove
  BY <1>7, CompleteFollows DEF BridgeMove
<1>8. ASSUME NEW g \in 1..MaxGeneration, NEW source \in RecoverySources,
             EnterRecovery(g, source)
      PROVE  BridgeMove
  BY <1>8, EnterRecoveryFollows DEF BridgeMove
<1>9. CASE UNCHANGED bridgeVars
  BY <1>9, ObserveFollows DEF bridgeVars, BridgeMove
<1>10. QED
  BY <1>1, <1>2, <1>3, <1>4, <1>5, <1>6, <1>7, <1>8, <1>9 DEF Next

LEMMA NothingOwned == OwnedStop(NoTransition)
BY DEF OwnedStop, NoTransition

(* Whoever calls the manager: a transition keeps its server, the source    *)
(* and the owner of its stop, and its completion, and no other takes its   *)
(* place before it is complete.                                            *)
THEOREM BridgeTransitionKept == Spec => TransitionKept
<1>1. Init => Found
  BY BridgeInit, NothingOwned DEF Init, Found
<1>2. ASSUME Found, [Next]_bridgeVars PROVE Found' /\ StepKeepsTransition
  <2>1. BridgeMove /\ BridgeInv'
    BY <1>2, BridgeMoves, BridgeStep DEF Found
  <2>2. QED
    BY <2>1, MoveKeeps DEF Found
<1>3. Found /\ [Next]_bridgeVars => Found'
  BY <1>2
<1>4. Found /\ [Next]_bridgeVars => [StepKeepsTransition]_bridgeVars
  BY <1>2
<1>5. QED
  BY <1>1, <1>3, <1>4, PTL DEF Spec, TransitionKept

-----------------------------------------------------------------------------
(* The same of the composition: its steps make these calls, or none.       *)
LifecycleFound == PlayInv /\ OwnedStop(bridge)

LEMMA PluginMoves ==
  ASSUME LifecycleFound, PluginSteps
  PROVE  BridgeMove
<1>1. Found
  BY DEF LifecycleFound, PlayInv, Found
<1>2. CASE Launch \/ ScriptFails \/ PrepareLost \/ PollRefused \/ Register
  <2>1. UNCHANGED bridge
    BY <1>2 DEF Launch, ScriptFails, PrepareLost, PollRefused, Register, bridgeVars
  <2>2. QED
    BY <1>1, <2>1, ObserveFollows DEF BridgeMove
<1>3. CASE Abort
  BY <1>1, <1>3, AbortFollows DEF Abort, BridgeMove
<1>4. CASE AbortFails
  BY <1>1, <1>4, ObserveFollows DEF AbortFails, bridgeVars, BridgeMove
<1>5. CASE Classify
  BY <1>1, <1>5, ObserveFollows DEF Classify, bridgeVars, BridgeMove
<1>6. CASE CompletePlay \/ CompleteLost
  BY <1>1, <1>6, CompleteFollows DEF CompletePlay, CompleteLost, BridgeMove
<1>7. CASE CompleteFails
  BY <1>1, <1>7, ObserveFollows DEF CompleteFails, bridgeVars, BridgeMove
<1>8. CASE Reconcile
  BY <1>1, <1>8, ObserveFollows DEF Reconcile, bridgeVars, BridgeMove
<1>9. CASE Reconnect
  BY <1>1, <1>9, EnterRecoveryFollows DEF Reconnect, Replaces, BridgeMove, RecoverySources
<1>10. QED
  BY <1>2, <1>3, <1>4, <1>5, <1>6, <1>7, <1>8, <1>9 DEF PluginSteps

LEMMA ServerMoves ==
  ASSUME LifecycleFound, ServerSteps
  PROVE  BridgeMove
<1>1. Found
  BY DEF LifecycleFound, PlayInv, Found
<1>2. CASE AttachFails \/ ArmFails \/ AckFails
  <2>1. UNCHANGED bridge
    BY <1>2 DEF AttachFails, ArmFails, AckFails, bridgeVars
  <2>2. QED
    BY <1>1, <2>1, ObserveFollows DEF BridgeMove
<1>3. CASE ServerAttaches
  BY <1>1, <1>3, AttachFollows DEF ServerAttaches, BridgeMove
<1>4. CASE ServerArms \/ ServerPolls \/ ServerAcks
  <2>1. Authenticated(run.nonce, run.nonce)
    BY <1>4 DEF ServerArms, ServerPolls, ServerAcks, ArmWatchdog, ServerPoll, ReceiveStop
  <2>2. run.nonce # None
    BY <2>1, PlayAssumption
       DEF Authenticated, Current, LifecycleFound, PlayInv, TestTypes, Runs
  <2>3. CASE ServerArms
    BY <1>1, <2>2, <2>3, ArmFollows DEF ServerArms, BridgeMove
  <2>4. CASE ServerPolls
    BY <1>1, <2>2, <2>4, ServerPollFollows DEF ServerPolls, BridgeMove
  <2>5. CASE ServerAcks
    BY <1>1, <2>2, <2>5, ReceiveStopFollows DEF ServerAcks, BridgeMove
  <2>6. QED
    BY <1>4, <2>3, <2>4, <2>5
<1>5. QED
  BY <1>2, <1>3, <1>4 DEF ServerSteps

(* A step that ends the broker, or that retires the session, leaves no     *)
(* session; every other one moves the record as a call may.                *)
LEMMA LifecycleMoves ==
  ASSUME LifecycleFound, [LifecycleNext]_vars
  PROVE  (link' = "gone" \/ BridgeMove) /\ OwnedStop(bridge')
<1> SUFFICES BridgeMove \/ (link' = "gone" /\ OwnedStop(bridge'))
  BY MoveKeeps
<1>1. Found
  BY DEF LifecycleFound, PlayInv, Found
<1>2. ASSUME NEW r \in PlayRequest, StartPlay(r) \/ LatePrepare(r)
      PROVE  BridgeMove
  BY <1>1, <1>2, PrepareMoves DEF StartPlay, LatePrepare
<1>3. ASSUME NEW s \in StopRequest, StopPlay(s)
      PROVE  BridgeMove
  BY <1>1, <1>3, RequestStopFollows DEF StopPlay, BridgeMove
<1>4. CASE LeaseExpires \/ ReconnectUnheard
  BY <1>1, <1>4, EnterRecoveryFollows
     DEF LeaseExpires, ReconnectUnheard, Replaces, BridgeMove, RecoverySources
<1>5. CASE Forget \/ PollUnheard \/ Crash \/ HardWatchdog \/ EndsWithoutBridge \/ UNCHANGED vars
  <2>1. UNCHANGED bridge
    BY <1>5 DEF Forget, PollUnheard, Crash, HardWatchdog, EndsWithoutBridge, vars, bridgeVars
  <2>2. QED
    BY <1>1, <2>1, ObserveFollows DEF BridgeMove
<1>6. CASE BridgeExpires \/ Sweep
  BY <1>1, <1>6, ObserveFollows DEF BridgeExpires, Sweep, BridgeMove
<1>7. CASE BrokerRestarts \/ Retire
  <2>1. link' = "gone"
    BY <1>7 DEF BrokerRestarts, Retire
  <2>2. OwnedStop(bridge')
    BY <1>1, <1>7, NothingOwned
       DEF BrokerRestarts, Retire, RetireCompleted, bridgeVars, Found, OwnedStop
  <2>3. QED
    BY <2>1, <2>2
<1>8. CASE PluginSteps \/ ServerSteps
  BY <1>8, PluginMoves, ServerMoves
<1>9. QED
  BY <1>2, <1>3, <1>4, <1>5, <1>6, <1>7, <1>8 DEF LifecycleNext

(* The composition keeps a transition for as long as the session lives,    *)
(* through every loss, repetition, expiry, reconnect and crash; only a     *)
(* broker that ends, or that retires the session, forgets it.              *)
THEOREM PlayTransitionKept == LifecycleSpec => TransitionKeptWhileLive
<1>1. LifecycleInit => LifecycleFound
  BY LifecycleStart, NothingOwned DEF LifecycleInit, Init, LifecycleFound
<1>2. ASSUME LifecycleFound, [LifecycleNext]_vars
      PROVE  LifecycleFound' /\ (link' = "gone" \/ StepKeepsTransition)
  BY <1>2, LifecycleMoves, LifecycleStep, MoveKeeps DEF LifecycleFound
<1>3. LifecycleFound /\ [LifecycleNext]_vars => LifecycleFound'
  BY <1>2
<1>4. LifecycleFound /\ [LifecycleNext]_vars => [link' = "gone" \/ StepKeepsTransition]_vars
  BY <1>2
<1>5. QED
  BY <1>1, <1>3, <1>4, PTL DEF LifecycleSpec, TransitionKeptWhileLive
=============================================================================

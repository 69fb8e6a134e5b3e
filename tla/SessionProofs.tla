---------------------------- MODULE SessionProofs ----------------------------
(***************************************************************************)
(* Proofs about the session core, for every set of operations, every       *)
(* number of connections and every order of responses.                     *)
(***************************************************************************)
EXTENDS Session, TLAPS

(***************************************************************************)
(* What the operators of Session return.                                   *)
(***************************************************************************)

LEMMA RequestType ==
  ASSUME NEW o \in Op, NEW p \in Phases
  PROVE  /\ Req(o, p) \in Request
         /\ Req(o, p).op = o /\ Req(o, p).phase = p
BY DEF Req, Request

(* A request of an operation is not the absent request.                    *)
LEMMA RealRequest ==
  /\ NoRequest \notin Request
  /\ \A r \in Request : r # NoRequest /\ r.op \in Op /\ r.phase \in Phases
  /\ NoRequest.op = None /\ NoRequest.phase = "none"
BY SessionAssumption DEF Request, NoRequest, Phases

(* The first request of an operation is never an apply.                    *)
LEMMA FirstPhaseType ==
  ASSUME NEW o \in Op
  PROVE  /\ FirstPhase(o) \in Phases /\ FirstPhase(o) # "apply"
         /\ FirstPhase(o) = "prepare" => Kind[o] = "multi"
<1>1. CASE Kind[o] = "multi"
  BY <1>1 DEF FirstPhase, Phases
<1>2. CASE Kind[o] = "recover"
  BY <1>2 DEF FirstPhase, Phases
<1>3. CASE Kind[o] = "cleanup"
  BY <1>3 DEF FirstPhase, Phases
<1>4. CASE Kind[o] \notin {"multi", "recover", "cleanup"}
  BY <1>4 DEF FirstPhase, Phases
<1> QED
  BY <1>1, <1>2, <1>3, <1>4

LEMMA NoFences == NoRecovery \in Recoveries /\ NoCleanup \in Cleanups
BY SessionAssumption DEF NoRecovery, NoCleanup, Recoveries, Cleanups, Generations

(* Expiry keeps a grant a grant.                                           *)
LEMMA ExpiredType ==
  ASSUME NEW c \in Cleanups
  PROVE  Expired(c) \in Cleanups
BY NoFences DEF Expired, Cleanups, CleanupStates

LEMMA RecoveryForType ==
  ASSUME TypeOK, NEW t \in Txn, NEW g \in Generations
  PROVE  RecoveryFor(t, g) \in Recoveries
BY DEF RecoveryFor, Recoveries, TypeOK

LEMMA CleanupRequiredType ==
  ASSUME NEW c \in Cleanups, NEW r \in Request
  PROVE  CleanupRequired(c, r) \in Cleanups
<1>1. Expired(c) \in Cleanups
  BY ExpiredType
<1>2. [Expired(c) EXCEPT !.dispatched = r,
          !.state = IF @ = "cleanup_expired_settlement" THEN @ ELSE "cleanup_required"]
        \in Cleanups
  BY <1>1 DEF Cleanups, CleanupStates
<1> QED
  BY <1>1, <1>2, NoFences DEF CleanupRequired

LEMMA RefreshedType ==
  ASSUME NEW u, NEW rec, NEW cl, NEW f \in Reasons
  PROVE  Refreshed(u, rec, cl, f) \in Reasons
<1>1. CASE u # {}
  BY <1>1 DEF Refreshed, Reasons
<1>2. CASE u = {} /\ rec # NoRecovery
  BY <1>2 DEF Refreshed, Reasons
<1>3. CASE u = {} /\ rec = NoRecovery /\ cl.state \notin {"none", "available"}
  BY <1>3 DEF Refreshed, Reasons
<1>4. CASE u = {} /\ rec = NoRecovery /\ cl.state \in {"none", "available"}
  BY <1>4 DEF Refreshed, Reasons
<1> QED
  BY <1>1, <1>2, <1>3, <1>4

LEMMA ShownAfterExpiryType == TypeOK => ShownAfterExpiry \in Reasons
BY DEF ShownAfterExpiry, TypeOK, Reasons

LEMMA JobAfterErrorType ==
  ASSUME TypeOK, NEW o \in Op, NEW offline, NEW unc
  PROVE  JobAfterError(o, offline, unc) \in JobStates
BY DEF JobAfterError, TypeOK, JobStates, TerminalJobStates

LEMMA JobAfterDisconnectType ==
  ASSUME TypeOK, NEW o \in Op
  PROVE  JobAfterDisconnect(o) \in JobStates
<1>1. CASE job[o] \in TerminalJobStates
  BY <1>1 DEF JobAfterDisconnect, TerminalJobStates, JobStates
<1>2. CASE job[o] \notin TerminalJobStates
  BY <1>2 DEF JobAfterDisconnect, JobStates
<1> QED
  BY <1>1, <1>2

(***************************************************************************)
(* Type correctness                                                        *)
(***************************************************************************)

LEMMA AdvanceType ==
  ASSUME TypeOK, NEW gone, Advance(gone)
  PROVE  ahead' \in [Op -> SUBSET Op]
BY DEF Advance, TypeOK

LEMMA DispatchType ==
  ASSUME TypeOK, NEW r \in Request, NEW prep \in Txn \cup {None},
         Dispatch(r, prep), ahead' \in [Op -> SUBSET Op]
  PROVE  TypeOK'
<1> DEFINE c == Expired(multiEditCleanup)
<1>0. c \in Cleanups
  BY ExpiredType DEF TypeOK
<1>1. multiEditRecovery' \in Recoveries
  BY DEF Dispatch, TypeOK, Recoveries
<1>2. multiEditCleanup' \in Cleanups
  <2>1. [c EXCEPT !.dispatched = r, !.state = "cleanup_dispatched"] \in Cleanups
    BY <1>0 DEF Cleanups, CleanupStates
  <2> QED
    BY <1>0, <2>1 DEF Dispatch
<1>3. uncertaintyState' \in Reasons
  BY ShownAfterExpiryType DEF Dispatch, Reasons
<1>4. /\ stage' \in [Op -> {"idle", "queued", "waiting", "done"}]
      /\ job' \in [Op -> JobStates]
  BY RealRequest DEF Dispatch, TypeOK, JobStates
<1>5. /\ pending' \in SUBSET Request
      /\ outbox' \in Seq(Request)
  BY DEF Dispatch, TypeOK
<1> QED
  BY <1>1, <1>2, <1>3, <1>4, <1>5 DEF Dispatch, TypeOK, Futures, conn, unproven, env

LEMMA RecomputeType ==
  ASSUME TypeOK, NEW locked, NEW s \in Reasons, Recompute(locked, s)
  PROVE  uncertaintyState' \in Reasons /\ terminalCandidate' \in BOOLEAN
<1>1. CASE connected'
  BY <1>1 DEF Recompute, TypeOK
<1>2. CASE ~connected'
  <2> DEFINE f == IF LooksTerminal(locked) THEN "clear" ELSE "offline"
  <2>1. f \in Reasons
    BY DEF Reasons
  <2>2. uncertaintyState' = Refreshed(uncertainRequests', multiEditRecovery', multiEditCleanup', f)
    BY <1>2 DEF Recompute
  <2>3. Refreshed(uncertainRequests', multiEditRecovery', multiEditCleanup', f) \in Reasons
    BY <2>1, RefreshedType
  <2>4. terminalCandidate' \in BOOLEAN
    BY <1>2 DEF Recompute, LooksTerminal
  <2> QED
    BY <2>2, <2>3, <2>4
<1> QED
  BY <1>1, <1>2

(***************************************************************************)
(* The effect of a reply                                                   *)
(***************************************************************************)

(* The five things a reply can do to the unproven requests and the fences: *)
(* nothing, keep a cleanup uncertain, fence a transaction, settle a        *)
(* cleanup, or settle a transaction.                                       *)
Ignores(e, r, y) ==
  /\ e.unc = uncertainRequests /\ e.rec = multiEditRecovery
  /\ e.prep = preparedReceipt /\ e.cl = multiEditCleanup
  /\ e.shown = uncertaintyState /\ e.proves = {}
  /\ \/ r.phase \notin {"apply", "recover"}
     \/ y \in {"invalid", "error"}
     \/ RecoveryControls(r)

KeepsCleanup(e, r) ==
  /\ r.phase = "cleanup"
  /\ e.unc = uncertainRequests \cup {r} /\ e.rec = multiEditRecovery
  /\ e.prep = preparedReceipt /\ e.cl = CleanupRequired(multiEditCleanup, r)
  /\ e.shown \in {uncertaintyState, "multi_edit_cleanup"} /\ e.proves = {}

Fences(e, r) ==
  /\ EditRequest(r)
  /\ e.unc = uncertainRequests \cup {r}
  /\ e.rec = RecoveryFor(TxnOf(r), admitted[r.op])
  /\ e.prep = preparedReceipt /\ e.cl = multiEditCleanup
  /\ e.shown = "multi_edit" /\ e.proves = {}

SettlesCleanup(e, r) ==
  /\ r.phase = "cleanup"
  /\ e.unc = uncertainRequests \ SettledWith(r) /\ e.rec = multiEditRecovery
  /\ e.prep = preparedReceipt /\ e.cl = NoCleanup
  /\ e.shown \in Reasons /\ e.proves = {}

SettlesEdit(e, r) ==
  /\ EditRequest(r)
  /\ e.unc = uncertainRequests \ SettledWith(r)
  /\ e.rec = (IF multiEditRecovery.txn = TxnOf(r) THEN NoRecovery ELSE multiEditRecovery)
  /\ e.prep \in {preparedReceipt, None}
  /\ e.cl = multiEditCleanup \/ (r.op \in Creates /\ e.cl = GrantFor(r))
  /\ e.shown \in Reasons /\ e.proves = {TxnOf(r)}

LEMMA RepliesType ==
  ASSUME NEW r \in Request, NEW y \in Replies(r)
  PROVE  y \in AllReplies /\ (y = "applied" => r.phase = "apply")
<1>1. CASE r.phase \in {"direct", "prepare", "apply", "recover"}
  BY <1>1 DEF Replies, SafeReplies, AllReplies
<1>2. CASE r.phase = "cleanup"
  BY <1>2 DEF Replies, SafeReplies, AllReplies
<1> QED
  BY <1>1, <1>2, RealRequest DEF Phases

LEMMA EffectCases ==
  ASSUME NEW r \in Request, NEW y \in Replies(r), NEW late \in BOOLEAN
  PROVE  LET e == Effect(r, y, late)
         IN  \/ Ignores(e, r, y) \/ KeepsCleanup(e, r) \/ Fences(e, r)
             \/ SettlesCleanup(e, r) \/ SettlesEdit(e, r)
<1> DEFINE e == Effect(r, y, late)
           unsafe == y \in {"invalid", "error", "recovery_required"}
           grants == y = "applied" /\ r.op \in Creates
           skip == \/ r.phase \notin MutationPhases
                   \/ y \in {"invalid", "error"} /\ late
                   \/ /\ y \notin {"invalid", "error"}
                      /\ RecoveryControls(r) \/ CleanupControls(r)
<1>0. "clear" \in Reasons
  BY DEF Reasons
<1>1. CASE skip
  <2>1. r.phase \notin {"apply", "recover"} \/ y \in {"invalid", "error"} \/ RecoveryControls(r)
    BY <1>1 DEF MutationPhases, CleanupControls
  <2> QED
    BY <1>1, <2>1 DEF Effect, Ignores
<1>2. CASE ~skip /\ unsafe /\ r.phase = "cleanup"
  BY <1>2 DEF Effect, KeepsCleanup
<1>3. CASE ~skip /\ ~(unsafe /\ r.phase = "cleanup") /\ (unsafe \/ (grants /\ ~GrantPossible))
  <2>1. EditRequest(r)
    BY <1>3, RepliesType DEF MutationPhases, EditRequest
  <2> QED
    BY <1>3, <2>1 DEF Effect, Fences
<1>4. CASE ~skip /\ ~unsafe /\ ~(grants /\ ~GrantPossible) /\ r.phase = "cleanup"
  BY <1>0, <1>4, RefreshedType DEF Effect, SettlesCleanup
<1>5. CASE ~skip /\ ~unsafe /\ ~(grants /\ ~GrantPossible) /\ r.phase # "cleanup"
  <2>1. EditRequest(r)
    BY <1>5 DEF MutationPhases, EditRequest
  <2> QED
    BY <1>0, <1>5, <2>1, RefreshedType DEF Effect, SettlesEdit
<1> QED
  BY <1>1, <1>2, <1>3, <1>4, <1>5

LEMMA DispatchedRequests ==
  ASSUME FenceInv
  PROVE  /\ dispatched \subseteq Request
         /\ \A r \in dispatched : EditRequest(r) => TxnOf(r) \in Txn
         /\ \A r \in dispatched : r.phase = "apply" => TxnOf(r) = r.op /\ r = Apply(r.op)
<1>1. dispatched \subseteq Request
  BY DEF FenceInv, TypeOK, dispatched, ToSet
<1>2. ASSUME NEW r \in dispatched, r.phase = "apply"
      PROVE  TxnOf(r) = r.op /\ r = Apply(r.op) /\ TxnOf(r) \in Txn
  BY <1>1, <1>2 DEF FenceInv, RequestsHaveOwners, TxnOf, Txn, Apply, Req, Request
<1>3. ASSUME NEW r \in dispatched, r.phase = "recover"
      PROVE  TxnOf(r) \in Txn
  BY <1>3 DEF FenceInv, RequestsHaveOwners
<1> QED
  BY <1>1, <1>2, <1>3 DEF EditRequest

LEMMA EffectType ==
  ASSUME FenceInv, NEW r \in dispatched, NEW y \in Replies(r), NEW late \in BOOLEAN
  PROVE  LET e == Effect(r, y, late)
         IN  /\ e.unc \in SUBSET Request /\ e.rec \in Recoveries
             /\ e.prep \in Txn \cup {None} /\ e.cl \in Cleanups
             /\ e.shown \in Reasons /\ e.proves \in SUBSET Txn
<1> DEFINE e == Effect(r, y, late)
<1>0. TypeOK /\ r \in Request /\ (EditRequest(r) => TxnOf(r) \in Txn)
  BY DispatchedRequests DEF FenceInv
<1>1. CASE Ignores(e, r, y)
  BY <1>0, <1>1 DEF Ignores, TypeOK
<1>2. CASE KeepsCleanup(e, r)
  BY <1>0, <1>2, CleanupRequiredType DEF KeepsCleanup, TypeOK, Reasons
<1>3. CASE Fences(e, r)
  BY <1>0, <1>3, RecoveryForType, RealRequest DEF Fences, TypeOK, Reasons
<1>4. CASE SettlesCleanup(e, r)
  BY <1>0, <1>4, NoFences DEF SettlesCleanup, TypeOK
<1>5. CASE SettlesEdit(e, r)
  <2>1. r.op \in Creates => GrantFor(r) \in Cleanups
    BY <1>0, SessionAssumption, RealRequest DEF GrantFor, Cleanups, CleanupStates, TypeOK
  <2> QED
    BY <1>0, <1>5, <2>1, NoFences DEF SettlesEdit, TypeOK
<1> HIDE DEF e
<1> QED
  BY <1>0, <1>1, <1>2, <1>3, <1>4, <1>5, EffectCases DEF e

LEMMA LeaveType ==
  ASSUME TypeOK, NEW o \in Op, Leave(o)
  PROVE  /\ stage' \in [Op -> {"idle", "queued", "waiting", "done"}]
         /\ inflight' \in Request \cup {NoRequest}
         /\ future' \in Futures /\ pending' \in SUBSET Request
BY DEF TypeOK, Leave, Futures

LEMMA RaiseType ==
  ASSUME FenceInv, NEW o \in Op, inflight.op = o, NEW offline,
         NEW unc \in SUBSET Request, NEW cl \in Cleanups, NEW s \in Reasons,
         Raise(o, offline, unc, cl, s)
  PROVE  TypeOK'
<1> USE DEF FenceInv
<1>1. inflight.phase = "apply" => o \in Txn
  BY RealRequest, DispatchedRequests DEF RecordsWereDispatched, EditRequest
<1>2. multiEditRecovery' \in Recoveries
  BY <1>1, RecoveryForType DEF Raise, TypeOK
<1>3. uncertaintyState' \in Reasons /\ terminalCandidate' \in BOOLEAN
  BY RecomputeType DEF Raise, Reasons
<1>4. job' \in [Op -> JobStates]
  BY JobAfterErrorType DEF Raise, TypeOK
<1>5. Leave(o)
  BY DEF Raise
<1> QED
  BY <1>2, <1>3, <1>4, <1>5, LeaveType DEF Raise, TypeOK, conn, env, history, studio

LEMMA CloseConnectionType ==
  ASSUME TypeOK, CloseConnection
  PROVE  /\ multiEditCleanup' \in Cleanups /\ pending' \in SUBSET Request
         /\ future' \in Futures /\ ahead' \in [Op -> SUBSET Op]
         /\ stage' \in [Op -> {"idle", "queued", "waiting", "done"}]
<1>1. multiEditCleanup' \in Cleanups
  BY ExpiredType, NoFences DEF CloseConnection, TypeOK
<1> QED
  BY <1>1, AdvanceType DEF CloseConnection, TypeOK, Futures

LEMMA ApplyEffectType ==
  ASSUME FenceInv, NEW r \in dispatched, NEW y \in Replies(r), NEW late \in BOOLEAN,
         NEW gone, ApplyEffect(Effect(r, y, late), gone)
  PROVE  /\ uncertainRequests' \in SUBSET Request /\ uncertainPending' \in SUBSET Request
         /\ multiEditRecovery' \in Recoveries /\ preparedReceipt' \in Txn \cup {None}
         /\ multiEditCleanup' \in Cleanups /\ proven' \in SUBSET Txn
<1> DEFINE e == Effect(r, y, late)
<1>1. /\ e.unc \in SUBSET Request /\ e.rec \in Recoveries
      /\ e.prep \in Txn \cup {None} /\ e.cl \in Cleanups /\ e.proves \in SUBSET Txn
  BY EffectType
<1>2. ApplyEffect(e, gone)
  OBVIOUS
<1> HIDE DEF e
<1> QED
  BY <1>1, <1>2 DEF ApplyEffect, FenceInv, TypeOK

LEMMA JobsAfterReplyType ==
  ASSUME TypeOK, NEW r \in Request, NEW y
  PROVE  JobsAfterReply(r, y) \in [Op -> JobStates]
<1>1. ASSUME NEW o \in Op
      PROVE  OwnJob(r, y) \in JobStates
  <2>1. job[r.op] \in JobStates
    BY RealRequest DEF TypeOK
  <2>2. CASE y = "recovery_required"
    BY <2>1, <2>2 DEF OwnJob, JobStates
  <2>3. CASE y = "prepared"
    BY <2>1, <2>3 DEF OwnJob, JobStates
  <2>4. CASE y \notin {"recovery_required", "prepared"}
    BY <2>1, <2>4 DEF OwnJob, JobStates
  <2> QED
    BY <2>2, <2>3, <2>4
<1>2. ASSUME NEW o \in Op
      PROVE  JobsAfterReply(r, y)[o] \in JobStates
  <2>0. job[o] \in JobStates
    BY DEF TypeOK
  <2>1. CASE o = r.op
    BY <1>1, <2>1 DEF JobsAfterReply
  <2>2. CASE o # r.op /\ ResolvedBy(r, y, o)
    BY <2>2 DEF JobsAfterReply, JobStates
  <2>3. CASE o # r.op /\ ~ResolvedBy(r, y, o)
    BY <2>0, <2>3 DEF JobsAfterReply
  <2> QED
    BY <2>1, <2>2, <2>3
<1> QED
  BY <1>2 DEF JobsAfterReply

LEMMA ServesType ==
  ASSUME TypeOK, NEW r, NEW y \in AllReplies, Serves(r, y)
  PROVE  outbox' \in Seq(Request) /\ served' \in Nat /\ reply' \in AllReplies \cup {"none"}
BY DEF Serves, TypeOK

LEMMA TypeStep == FenceInv /\ [Next]_vars => TypeOK'
<1> SUFFICES ASSUME FenceInv, [Next]_vars
             PROVE  TypeOK'
  OBVIOUS
<1>0. TypeOK
  BY DEF FenceInv
<1> USE <1>0
<1>1. ASSUME NEW o \in Op, NEW t \in Txn \cup {None}, Submit(o, t)
      PROVE  TypeOK'
  <2>1. generation \in Generations
    BY SessionAssumption DEF TypeOK, Generations
  <2>2. (IF o \in JobOps THEN "queued" ELSE "none") \in JobStates
    BY DEF JobStates
  <2> QED
    BY <1>1, <2>1, <2>2 DEF Submit, TypeOK, Queued, conn, waiter, unproven, fences, env,
                            shown, history, studio
<1>2. ASSUME NEW o \in Op, Begin(o)
      PROVE  TypeOK'
  <2>1. FirstPhase(o) \in Phases
    BY FirstPhaseType
  <2>2. ahead' \in [Op -> SUBSET Op]
    BY <1>2, AdvanceType DEF Begin
  <2> QED
    BY <1>2, <2>1, <2>2, DispatchType, RequestType DEF Begin, TypeOK
<1>3. ASSUME NEW o \in Op, Refuse(o)
      PROVE  TypeOK'
  <2>1. multiEditCleanup' \in Cleanups
    BY <1>3, ExpiredType DEF Refuse, TypeOK
  <2>2. uncertaintyState' \in Reasons /\ terminalCandidate' \in BOOLEAN
    <3> DEFINE s == IF Kind[o] = "recover" /\ multiEditRecovery.txn # target[o]
                    THEN uncertaintyState ELSE ShownAfterExpiry
    <3>1. s \in Reasons
      BY ShownAfterExpiryType DEF TypeOK
    <3> QED
      BY <1>3, <3>1, RecomputeType DEF Refuse
  <2>3. ahead' \in [Op -> SUBSET Op]
    BY <1>3, AdvanceType DEF Refuse
  <2>4. job' \in [Op -> JobStates]
    BY <1>3 DEF Refuse, TypeOK, JobStates
  <2> QED
    BY <1>3, <2>1, <2>2, <2>3, <2>4 DEF Refuse, TypeOK, conn, waiter, unproven, env,
                                        history, studio
<1>4. ASSUME NEW o \in Op, ContinueToApply(o)
      PROVE  TypeOK'
  <2>1. o \in Txn
    BY <1>4, RealRequest
       DEF ContinueToApply, FenceInv, RecordsWereDispatched, RequestsHaveOwners, Req,
           NoRequest, Txn
  <2>2. ahead' \in [Op -> SUBSET Op]
    BY <1>4 DEF ContinueToApply, TypeOK
  <2> QED
    BY <1>4, <2>1, <2>2, DispatchType, RequestType DEF ContinueToApply, Phases
<1>5. ASSUME NEW o \in Op, ApplyNotDispatched(o)
      PROVE  TypeOK'
  <2>1. multiEditCleanup' \in Cleanups /\ uncertaintyState' \in Reasons
    BY <1>5, ExpiredType, ShownAfterExpiryType DEF ApplyNotDispatched, TypeOK
  <2>2. job' \in [Op -> JobStates]
    BY <1>5, JobAfterErrorType DEF ApplyNotDispatched, TypeOK
  <2>3. Leave(o)
    BY <1>5 DEF ApplyNotDispatched
  <2> QED
    BY <1>5, <2>1, <2>2, <2>3, LeaveType
       DEF ApplyNotDispatched, TypeOK, conn, unproven, env, history, studio
<1>6. ASSUME NEW o \in Op, Return(o)
      PROVE  TypeOK'
  <2>1. inflight.phase = "apply" => o \in Txn
    BY <1>6, RealRequest, DispatchedRequests
       DEF Return, FenceInv, RecordsWereDispatched, EditRequest
  <2>2. multiEditRecovery' \in Recoveries
    BY <1>6, <2>1, RecoveryForType DEF Return, TypeOK
  <2>3. uncertaintyState' \in Reasons
    BY <1>6 DEF Return, TypeOK, Reasons
  <2>4. job' \in [Op -> JobStates]
    BY <1>6 DEF Return, TypeOK, JobStates
  <2>5. Leave(o)
    BY <1>6 DEF Return
  <2> QED
    BY <1>6, <2>2, <2>3, <2>4, <2>5, LeaveType
       DEF Return, TypeOK, conn, unproven, env, history, studio
<1>7. ASSUME NEW o \in Op, RaiseRemoteError(o)
      PROVE  TypeOK'
  BY <1>7, RaiseType DEF RaiseRemoteError, TypeOK
<1>8. ASSUME NEW o \in Op, RaiseOffline(o)
      PROVE  TypeOK'
  BY <1>8, RaiseType DEF RaiseOffline, TypeOK
<1>9. ASSUME NEW o \in Op, inflight.op = o
      PROVE  inflight \in Request /\ CleanupRequired(multiEditCleanup, inflight) \in Cleanups
  BY <1>9, RealRequest, CleanupRequiredType, SessionAssumption DEF TypeOK
<1>10. ASSUME NEW o \in Op, Timeout(o)
       PROVE  TypeOK'
  BY <1>9, <1>10, RaiseType DEF Timeout, TypeOK, Reasons
<1>11. ASSUME NEW o \in Op, CancelWait(o)
       PROVE  TypeOK'
  <2> DEFINE unc == IF future = "pending" THEN {inflight} ELSE {}
             cl == IF unc # {} /\ inflight.phase = "cleanup"
                   THEN CleanupRequired(multiEditCleanup, inflight) ELSE multiEditCleanup
             s == IF unc # {} THEN "outcome_unknown" ELSE uncertaintyState
  <2>1. inflight.op = o /\ unc \in SUBSET Request /\ cl \in Cleanups /\ s \in Reasons
    BY <1>9, <1>11 DEF CancelWait, TypeOK, Reasons
  <2>2. Raise(o, FALSE, unc, cl, s)
    BY <1>11 DEF CancelWait
  <2> QED
    BY <2>1, <2>2, RaiseType
<1>12. ASSUME NEW o \in Op, CancelQueued(o)
       PROVE  TypeOK'
  <2>1. uncertaintyState' \in Reasons /\ terminalCandidate' \in BOOLEAN
    BY <1>12, RecomputeType DEF CancelQueued, TypeOK
  <2>2. ahead' \in [Op -> SUBSET Op] /\ job' \in [Op -> JobStates]
    BY <1>12, AdvanceType DEF CancelQueued, TypeOK, JobStates
  <2> QED
    BY <1>12, <2>1, <2>2 DEF CancelQueued, TypeOK, conn, waiter, unproven, fences, env,
                             history, studio
<1>13. ASSUME NEW r \in dispatched, NEW y, ReceiveResponse(r, y)
       PROVE  TypeOK'
  <2>1. r \in Request /\ y \in Replies(r) /\ y \in AllReplies
    BY <1>13, DispatchedRequests, RepliesType DEF ReceiveResponse
  <2>2. uncertaintyState' \in Reasons
    BY <1>13, <2>1, EffectType DEF ReceiveResponse, Reasons
  <2>3. job' \in [Op -> JobStates]
    BY <1>13, <2>1, JobsAfterReplyType DEF ReceiveResponse
  <2>4. outbox' \in Seq(Request) /\ served' \in Nat /\ reply' \in AllReplies \cup {"none"}
    BY <1>13, <2>1, ServesType DEF ReceiveResponse
  <2>5. future' \in Futures /\ pending' \in SUBSET Request /\ mode' \in Modes
    <3>1. CASE y \in {"invalid", "error"}
      BY <1>13, <3>1 DEF ReceiveResponse, TypeOK, Futures
    <3>2. CASE y = "recovery_required"
      BY <1>13, <3>2 DEF ReceiveResponse, TypeOK, Futures
    <3>3. CASE y \notin {"invalid", "error", "recovery_required"}
      BY <1>13, <3>3 DEF ReceiveResponse, TypeOK, Futures
    <3> QED
      BY <3>1, <3>2, <3>3
  <2>6. ApplyEffect(Effect(r, y, FALSE), {})
    BY <1>13 DEF ReceiveResponse
  <2>7. /\ uncertainRequests' \in SUBSET Request /\ uncertainPending' \in SUBSET Request
        /\ multiEditRecovery' \in Recoveries /\ preparedReceipt' \in Txn \cup {None}
        /\ multiEditCleanup' \in Cleanups /\ proven' \in SUBSET Txn
    BY <2>1, <2>6, ApplyEffectType
  <2> QED
    BY <1>13, <2>2, <2>3, <2>4, <2>5, <2>7 DEF ReceiveResponse, TypeOK, ops, env
<1>14. ASSUME NEW r \in dispatched, NEW y, ReceiveLate(r, y)
       PROVE  TypeOK'
  <2> DEFINE kept == y = "recovery_required" \/ (y = "error" /\ r.phase \in MutationPhases)
             e == Effect(r, y, TRUE)
             gone == IF kept THEN {} ELSE {r}
  <2>1. r \in Request /\ y \in Replies(r) /\ y \in AllReplies
    BY <1>14, DispatchedRequests, RepliesType DEF ReceiveLate
  <2>2. uncertaintyState' \in Reasons
    <3>1. e.shown \in Reasons
      BY <2>1, EffectType
    <3>2. Refreshed(uncertainRequests', multiEditRecovery', multiEditCleanup', "clear") \in Reasons
      BY RefreshedType DEF Reasons
    <3> HIDE DEF kept, e
    <3> QED
      BY <1>14, <3>1, <3>2 DEF ReceiveLate, kept, e
  <2>3. job' \in [Op -> JobStates]
    BY <1>14, <2>1, JobsAfterReplyType DEF ReceiveLate
  <2>4. outbox' \in Seq(Request) /\ served' \in Nat /\ reply' \in AllReplies \cup {"none"}
    BY <1>14, <2>1, ServesType DEF ReceiveLate
  <2>6. ApplyEffect(e, gone)
    BY <1>14 DEF ReceiveLate
  <2>7. /\ uncertainRequests' \in SUBSET Request /\ uncertainPending' \in SUBSET Request
        /\ multiEditRecovery' \in Recoveries /\ preparedReceipt' \in Txn \cup {None}
        /\ multiEditCleanup' \in Cleanups /\ proven' \in SUBSET Txn
    BY <2>1, <2>6, ApplyEffectType
  <2> QED
    BY <1>14, <2>2, <2>3, <2>4, <2>7 DEF ReceiveLate, TypeOK, conn, ops, waiter, env
<1>15. CASE Disconnect
  <2>1. job' \in [Op -> JobStates]
    BY <1>15, JobAfterDisconnectType DEF Disconnect
  <2>2. uncertaintyState' \in Reasons /\ terminalCandidate' \in BOOLEAN
    BY <1>15, RecomputeType DEF Disconnect, Reasons
  <2>3. CloseConnection
    BY <1>15 DEF Disconnect
  <2> QED
    BY <1>15, <2>1, <2>2, <2>3, CloseConnectionType
       DEF Disconnect, CloseConnection, TypeOK, env, history, studio
<1>16. ASSUME NEW settled, Reconnect(settled)
       PROVE  TypeOK'
  <2>1. job' \in [Op -> JobStates]
    BY <1>16, JobAfterDisconnectType DEF Reconnect, JobStates
  <2>2. uncertaintyState' \in Reasons /\ terminalCandidate' \in BOOLEAN
    BY <1>16, RefreshedType DEF Reconnect, Reasons
  <2>3. CloseConnection
    BY <1>16 DEF Reconnect
  <2>4. generation' \in 1..MaxGeneration
    BY <1>16, SessionAssumption DEF Reconnect, TypeOK
  <2> QED
    BY <1>16, <2>1, <2>2, <2>3, <2>4, CloseConnectionType
       DEF Reconnect, CloseConnection, TypeOK, env, history, studio
<1>17. ASSUME NEW t \in Txn, DeadlinePasses(t)
       PROVE  TypeOK'
  BY <1>17 DEF DeadlinePasses, TypeOK, conn, ops, waiter, unproven, fences, shown,
               history, studio
<1>18. ASSUME NEW m \in Modes, ModeEvent(m)
       PROVE  TypeOK'
  <2>1. uncertaintyState' \in Reasons
    BY <1>18, RefreshedType DEF ModeEvent, Reasons
  <2> QED
    BY <1>18, <2>1 DEF ModeEvent, TypeOK, ops, waiter, unproven, fences, env, history, studio
<1>19. CASE Snapshot
  <2>1. multiEditCleanup' \in Cleanups /\ uncertaintyState' \in Reasons
    BY <1>19, ExpiredType, ShownAfterExpiryType DEF Snapshot, TypeOK
  <2> QED
    BY <1>19, <2>1 DEF Snapshot, TypeOK, conn, ops, waiter, unproven, env, history, studio
<1>20. CASE PlayBridge
  BY <1>20 DEF PlayBridge, TypeOK, conn, ops, waiter, unproven, fences, shown, history, studio
<1>21. CASE UNCHANGED vars
  BY <1>21 DEF vars, TypeOK, conn, ops, waiter, unproven, fences, env, shown, history, studio
<1> QED
  BY <1>1, <1>2, <1>3, <1>4, <1>5, <1>6, <1>7, <1>8, <1>10, <1>11, <1>12, <1>13, <1>14,
     <1>15, <1>16, <1>17, <1>18, <1>19, <1>20, <1>21 DEF Next, Resume, Respond

(***************************************************************************)
(* The fences: each step preserves the inductive invariant                 *)
(***************************************************************************)

(* FenceInv but for the types.                                             *)
FenceParts ==
  /\ RequestsHaveOwners /\ RecordsWereDispatched /\ OneSubject
  /\ AnsweredApplyIsSettled /\ UnprovenIsFenced

(* A step that concerns no request keeps the invariant.                    *)
LEMMA QuietStep ==
  ASSUME FenceInv, TypeOK',
         UNCHANGED <<inflight, future, pending, uncertainRequests, uncertainPending,
                     multiEditRecovery, outbox, proven>>,
         \A o \in Op : stage'[o] # "idle" => target'[o] \in Targets(o),
         \A o \in Op : stage[o] \in {"waiting", "done"} =>
            stage'[o] = stage[o] /\ target'[o] = target[o]
  PROVE  FenceInv'
<1> USE DEF FenceInv
<1>1. dispatched' = dispatched
  BY DEF dispatched
<1>2. \A r \in dispatched : /\ r.op \in Op /\ TxnOf(r)' = TxnOf(r)
                            /\ stage'[r.op] = stage[r.op]
  BY DispatchedRequests, RealRequest DEF RequestsHaveOwners, TxnOf
<1>3. RequestsHaveOwners'
  BY <1>1, <1>2 DEF RequestsHaveOwners, TxnOf, Apply, Req
<1>4. RecordsWereDispatched'
  BY <1>1, <1>2 DEF RecordsWereDispatched, Apply, Req
<1>5. OneSubject'
  <2>1. Owed' = Owed /\ Owed \subseteq dispatched
    BY DEF Owed, RecordsWereDispatched
  <2> QED
    BY <1>2, <2>1 DEF OneSubject, EditRequest
<1>6. AnsweredApplyIsSettled'
  BY DEF AnsweredApplyIsSettled
<1>7. UnprovenIsFenced'
  BY <1>1 DEF UnprovenIsFenced, Unproven, Apply, Req
<1> QED
  BY <1>3, <1>4, <1>5, <1>6, <1>7

LEMMA QuietActions ==
  ASSUME FenceInv, TypeOK',
         \/ \E o \in Op : \/ \E t \in Txn \cup {None} : Submit(o, t)
                         \/ Refuse(o) \/ CancelQueued(o)
         \/ \E t \in Txn : DeadlinePasses(t)
         \/ \E m \in Modes : ModeEvent(m)
         \/ Snapshot \/ PlayBridge \/ UNCHANGED vars
  PROVE  FenceInv'
<1> DEFINE Kept == UNCHANGED <<inflight, future, pending, uncertainRequests, uncertainPending,
                               multiEditRecovery, outbox, proven>>
           Known == \A o \in Op : stage'[o] # "idle" => target'[o] \in Targets(o)
           Same == \A o \in Op : stage[o] \in {"waiting", "done"} =>
                     stage'[o] = stage[o] /\ target'[o] = target[o]
<1>0. TypeOK /\ \A o \in Op : stage[o] # "idle" => target[o] \in Targets(o)
  BY DEF FenceInv, RequestsHaveOwners
<1>1. ASSUME NEW o \in Op, NEW t \in Txn \cup {None}, Submit(o, t)
      PROVE  Kept /\ Known /\ Same
  BY <1>0, <1>1 DEF Submit, TypeOK, waiter, unproven, fences, history, studio
<1>2. ASSUME NEW o \in Op, Refuse(o)
      PROVE  Kept /\ Known /\ Same
  BY <1>0, <1>2 DEF Refuse, TypeOK, waiter, unproven, history, studio
<1>3. ASSUME NEW o \in Op, CancelQueued(o)
      PROVE  Kept /\ Known /\ Same
  BY <1>0, <1>3 DEF CancelQueued, TypeOK, waiter, unproven, fences, history, studio
<1>4. ASSUME NEW t \in Txn, DeadlinePasses(t)
      PROVE  Kept /\ Known /\ Same
  BY <1>0, <1>4 DEF DeadlinePasses, ops, waiter, unproven, fences, history, studio
<1>5. ASSUME NEW m \in Modes, ModeEvent(m)
      PROVE  Kept /\ Known /\ Same
  BY <1>0, <1>5 DEF ModeEvent, ops, waiter, unproven, fences, history, studio
<1>6. ASSUME Snapshot \/ PlayBridge \/ UNCHANGED vars
      PROVE  Kept /\ Known /\ Same
  BY <1>0, <1>6 DEF Snapshot, PlayBridge, vars, ops, waiter, unproven, fences, history, studio
<1> QED
  BY <1>1, <1>2, <1>3, <1>4, <1>5, <1>6, QuietStep

(* The set of requests sent grows by the one appended to the outbox.       *)
LEMMA OutboxGrows ==
  ASSUME NEW box \in Seq(Request), NEW r \in Request
  PROVE  ToSet(Append(box, r)) = ToSet(box) \cup {r}
<1> DEFINE more == Append(box, r)
<1>1. /\ DOMAIN more = DOMAIN box \cup {Len(box) + 1}
      /\ \A i \in DOMAIN box : more[i] = box[i]
      /\ more[Len(box) + 1] = r
  OBVIOUS
<1> HIDE DEF more
<1>2. \A x : x \in {more[i] : i \in DOMAIN more} <=> x \in {box[i] : i \in DOMAIN box} \/ x = r
  BY <1>1
<1> QED
  BY <1>2 DEF ToSet, more

(* A request leaves: it is the only thing owed, or it joins what the fence *)
(* it was admitted through names.                                          *)
LEMMA DispatchStep ==
  ASSUME FenceInv, TypeOK', NEW r \in Request, NEW prep,
         Admissible(r, prep), Dispatch(r, prep), r \notin dispatched,
         stage[r.op] # "idle",
         r.phase \in {"prepare", "apply"} => Kind[r.op] = "multi" /\ target[r.op] = r.op,
         r.phase = "prepare" => Apply(r.op) \notin dispatched,
         \/ inflight = NoRequest /\ stage[r.op] = "queued"
         \/ inflight.phase = "prepare" /\ r.phase = "apply"
  PROVE  FenceInv'
<1> USE DEF FenceInv
<1>0. /\ r \in Request /\ r # NoRequest /\ r.op \in Op /\ dispatched \subseteq Request
      /\ \A u \in dispatched : u.op \in Op
  BY RealRequest, DispatchedRequests
<1>1. dispatched' = dispatched \cup {r}
  BY OutboxGrows DEF Dispatch, TypeOK, dispatched
<1>2. /\ inflight' = r /\ future' = "pending" /\ pending' = {r}
      /\ target' = target /\ proven' = proven
      /\ uncertainRequests' = uncertainRequests /\ uncertainPending' = uncertainPending
      /\ stage' = [stage EXCEPT ![r.op] = "waiting"]
  BY DEF Dispatch, unproven, RecordsWereDispatched
<1>3. /\ multiEditRecovery'.txn = multiEditRecovery.txn
      /\ multiEditRecovery' = NoRecovery <=> multiEditRecovery = NoRecovery
      /\ r.phase = "recover" => multiEditRecovery # NoRecovery
  <2>1. CASE r.phase = "recover"
    <3>1. multiEditRecovery # NoRecovery
      BY <2>1 DEF Admissible, RecoveryAllowed
    <3>2. multiEditRecovery.txn \in Txn /\ None \notin Txn
      BY <3>1, SessionAssumption DEF RecordsWereDispatched, Txn
    <3>3. multiEditRecovery'.txn = multiEditRecovery.txn
      BY <2>1 DEF Dispatch, TypeOK, Recoveries
    <3> QED
      BY <3>1, <3>2, <3>3 DEF NoRecovery
  <2>2. CASE r.phase # "recover"
    BY <2>2 DEF Dispatch
  <2> QED
    BY <2>1, <2>2
<1>4. RequestsHaveOwners'
  <2>1. \A o \in Op : stage'[o] # "idle" => target'[o] \in Targets(o)
    BY <1>0, <1>2 DEF RequestsHaveOwners, TypeOK
  <2>2. ASSUME NEW u \in dispatched'
        PROVE  /\ stage'[u.op] \in {"waiting", "done"}
               /\ u.phase \in {"prepare", "apply"} => Kind[u.op] = "multi" /\ target'[u.op] = u.op
               /\ u.phase = "recover" => TxnOf(u)' \in Txn /\ Apply(TxnOf(u)') \in dispatched'
    <3>1. CASE u \in dispatched
      BY <1>0, <1>1, <1>2, <3>1 DEF RequestsHaveOwners, TypeOK, TxnOf
    <3>2. CASE u = r
      <4>1. r.phase = "recover" => TxnOf(r) = multiEditRecovery.txn
        BY DEF Admissible, RecoveryAllowed
      <4> QED
        BY <1>0, <1>1, <1>2, <1>3, <3>2, <4>1 DEF RecordsWereDispatched, TypeOK, TxnOf
    <3> QED
      BY <1>1, <3>1, <3>2
  <2> QED
    BY <2>1, <2>2 DEF RequestsHaveOwners, TxnOf, Apply, Req
<1>5. RecordsWereDispatched'
  <2>1. inflight'.phase = "prepare" => Apply(inflight'.op) \notin dispatched'
    BY <1>0, <1>1, <1>2 DEF Apply, Req
  <2>2. uncertainRequests' \subseteq dispatched' \ pending'
    BY <1>1, <1>2 DEF RecordsWereDispatched
  <2> QED
    BY <1>0, <1>1, <1>2, <1>3, <2>1, <2>2 DEF RecordsWereDispatched, TypeOK, Apply, Req
<1>6. OneSubject'
  <2>1. Owed' = uncertainRequests \cup {r}
    BY <1>0, <1>2 DEF Owed
  <2>2. uncertainRequests = {} \/ RecoveryAllowed(r) \/ CleanupAllowed(r, Expired(multiEditCleanup))
    BY DEF Admissible
  <2>3. multiEditRecovery = NoRecovery \/ RecoveryAllowed(r)
    BY DEF Admissible
  <2>4. uncertainRequests = uncertainPending /\ uncertainRequests \subseteq Owed
    BY DEF RecordsWereDispatched, Owed
  <2>5. CASE RecoveryAllowed(r)
    <3>1. \A u \in Owed' : EditRequest(u) /\ TxnOf(u) = multiEditRecovery.txn
      BY <2>1, <2>4, <2>5 DEF RecoveryAllowed, EditRequest
    <3> QED
      BY <1>2, <1>3, <3>1 DEF OneSubject, EditRequest, TxnOf
  <2>6. CASE ~RecoveryAllowed(r)
    <3>1. multiEditRecovery' = NoRecovery
      BY <1>3, <2>3, <2>6
    <3>2. uncertainRequests = {} \/ (r.phase = "cleanup" /\ \A u \in uncertainRequests : u.phase = "cleanup")
      BY <2>2, <2>4, <2>6 DEF CleanupAllowed
    <3>3. \A u, v \in Owed' : u = v \/ (u.phase = "cleanup" /\ v.phase = "cleanup")
      BY <2>1, <3>2
    <3> QED
      BY <3>1, <3>3 DEF OneSubject
  <2> QED
    BY <2>5, <2>6
<1>7. AnsweredApplyIsSettled'
  BY <1>2 DEF AnsweredApplyIsSettled
<1>8. UnprovenIsFenced'
  <2> SUFFICES ASSUME NEW t \in Unproven'
               PROVE  \/ inflight' = Apply(t) \/ Apply(t) \in uncertainRequests'
                      \/ multiEditRecovery'.txn = t
    BY DEF UnprovenIsFenced, Apply, Req
  <2>1. t \in Txn /\ t \notin proven /\ Apply(t) \in dispatched \cup {r}
    BY <1>1, <1>2 DEF Unproven, Apply, Req
  <2>2. inflight # Apply(t)
    BY DEF Apply, Req, NoRequest
  <2> QED
    BY <1>2, <1>3, <2>1, <2>2 DEF UnprovenIsFenced, Unproven
<1> QED
  BY <1>4, <1>5, <1>6, <1>7, <1>8

LEMMA BeginStep ==
  ASSUME FenceInv, TypeOK', NEW o \in Op, Begin(o)
  PROVE  FenceInv'
<1> DEFINE r == Req(o, FirstPhase(o))
<1>2. r \in Request /\ r.op = o /\ r.phase = FirstPhase(o)
  BY FirstPhaseType, RequestType
<1>3. stage[o] = "queued" /\ inflight = NoRequest /\ Admissible(r, preparedReceipt)
      /\ Dispatch(r, preparedReceipt)
  BY <1>2 DEF Begin
<1>4. \A p : Req(o, p) \notin dispatched
  BY <1>3 DEF FenceInv, RequestsHaveOwners, Req
<1>5. Kind[o] = "multi" => target[o] = o
  BY <1>3 DEF FenceInv, RequestsHaveOwners, Targets
<1> HIDE DEF r
<1>6. r \notin dispatched /\ Apply(o) \notin dispatched
  BY <1>4 DEF r, Apply
<1> QED
  BY <1>2, <1>3, <1>5, <1>6, FirstPhaseType, DispatchStep

LEMMA ContinueStep ==
  ASSUME FenceInv, TypeOK', NEW o \in Op, ContinueToApply(o)
  PROVE  FenceInv'
<1> DEFINE r == Req(o, "apply")
<1>1. r \in Request /\ r.op = o /\ r.phase = "apply"
  BY RequestType DEF Phases
<1>2. inflight.phase = "prepare" /\ inflight.op = o /\ inflight # NoRequest
  BY DEF ContinueToApply, Req, NoRequest
<1>3. inflight \in dispatched /\ r \notin dispatched
  BY <1>2 DEF FenceInv, RecordsWereDispatched, Apply
<1>4. Kind[o] = "multi" /\ target[o] = o /\ stage[o] # "idle"
  BY <1>2, <1>3 DEF FenceInv, RequestsHaveOwners
<1>5. Admissible(r, o) /\ Dispatch(r, o)
  BY DEF ContinueToApply
<1> HIDE DEF r
<1> QED
  BY <1>1, <1>2, <1>3, <1>4, <1>5, DispatchStep

(* The holder of the lock leaves: what it may owe is recorded.             *)
LEMMA LeaveStep ==
  ASSUME FenceInv, TypeOK', NEW o \in Op, inflight.op = o, Leave(o),
         NEW unc \in SUBSET {inflight},
         uncertainRequests' = uncertainRequests \cup unc,
         uncertainPending' = uncertainPending \cup unc,
         UNCHANGED <<target, proven, outbox>>,
         \/ /\ multiEditRecovery' = multiEditRecovery
            /\ inflight.phase = "apply" => future = "result"
         \/ /\ inflight.phase = "apply"
            /\ \E g \in Generations : multiEditRecovery' = RecoveryFor(o, g)
  PROVE  FenceInv'
<1> USE DEF FenceInv
<1>0. /\ inflight # NoRequest /\ inflight \in dispatched
      /\ dispatched' = dispatched
      /\ \A u \in dispatched : u.op \in Op /\ u \in Request
  BY RealRequest, DispatchedRequests, SessionAssumption DEF RecordsWereDispatched, dispatched
<1>1. inflight.phase = "apply" => inflight = Apply(o) /\ TxnOf(inflight) = o /\ o \in Txn
  BY <1>0, DispatchedRequests DEF EditRequest
<1>2. /\ stage' = [stage EXCEPT ![o] = "done"]
      /\ inflight' = NoRequest /\ future' = "none" /\ pending' = pending \ {inflight}
  BY DEF Leave
<1>3. uncertainRequests' \subseteq Owed /\ Owed \subseteq dispatched /\ inflight \in Owed
  BY <1>0 DEF Owed, RecordsWereDispatched
<1>4. \/ multiEditRecovery' = multiEditRecovery
      \/ multiEditRecovery'.txn = o /\ inflight.phase = "apply" /\ multiEditRecovery' # NoRecovery
  BY <1>1, SessionAssumption DEF RecoveryFor, NoRecovery
<1>5. RequestsHaveOwners'
  BY <1>0, <1>2 DEF RequestsHaveOwners, TypeOK, TxnOf, Apply, Req
<1>6. RecordsWereDispatched'
  <2>1. multiEditRecovery' # NoRecovery =>
          multiEditRecovery'.txn \in Txn /\ Apply(multiEditRecovery'.txn) \in dispatched
    BY <1>0, <1>1, <1>4 DEF RecordsWereDispatched
  <2>2. pending' = {}
    BY <1>2 DEF RecordsWereDispatched
  <2> QED
    BY <1>0, <1>2, <1>3, <2>1, <2>2 DEF RecordsWereDispatched, Apply, Req, NoRequest
<1>7. OneSubject'
  <2>1. Owed' = uncertainRequests'
    BY <1>2 DEF Owed
  <2>2. multiEditRecovery' # NoRecovery =>
          \A u \in uncertainRequests' : EditRequest(u) /\ TxnOf(u) = multiEditRecovery'.txn
    <3>1. CASE multiEditRecovery' = multiEditRecovery
      BY <1>3, <3>1 DEF OneSubject
    <3>2. CASE multiEditRecovery'.txn = o /\ inflight.phase = "apply"
      <4>1. \A u \in Owed : EditRequest(u) /\ TxnOf(u) = o
        BY <1>1, <1>3, <3>2 DEF OneSubject, EditRequest
      <4> QED
        BY <1>3, <3>2, <4>1
    <3> QED
      BY <1>4, <3>1, <3>2
  <2> QED
    BY <1>3, <2>1, <2>2 DEF OneSubject, EditRequest, TxnOf
<1>8. AnsweredApplyIsSettled'
  BY <1>2 DEF AnsweredApplyIsSettled
<1>9. UnprovenIsFenced'
  <2> SUFFICES ASSUME NEW t \in Unproven
               PROVE  Apply(t) \in uncertainRequests' \/ multiEditRecovery'.txn = t
    BY <1>0 DEF UnprovenIsFenced, Unproven, Apply, Req
  <2>1. CASE Apply(t) \in uncertainRequests
    BY <2>1
  <2>2. CASE inflight = Apply(t)
    <3>1. inflight.phase = "apply" /\ t = o
      BY <2>2 DEF Apply, Req
    <3>2. t \notin proven
      BY DEF Unproven
    <3> QED
      BY <1>4, <3>1, <3>2 DEF AnsweredApplyIsSettled, RecoveryFor
  <2>3. CASE multiEditRecovery.txn = t
    <3>1. multiEditRecovery # NoRecovery
      BY <2>3, SessionAssumption DEF NoRecovery, Unproven, Txn
    <3>2. inflight.phase = "apply" => o = t
      BY <1>1, <1>3, <2>3, <3>1 DEF OneSubject
    <3> QED
      BY <1>4, <2>3, <3>2
  <2> QED
    BY <2>1, <2>2, <2>3 DEF UnprovenIsFenced
<1> QED
  BY <1>5, <1>6, <1>7, <1>8, <1>9

LEMMA RaiseStep ==
  ASSUME FenceInv, TypeOK', NEW o \in Op, inflight.op = o, NEW offline,
         NEW unc \in SUBSET {inflight}, NEW cl, NEW s, Raise(o, offline, unc, cl, s)
  PROVE  FenceInv'
<1>1. admitted[o] \in Generations
  BY DEF FenceInv, TypeOK
<1>2. /\ Leave(o)
      /\ uncertainRequests' = uncertainRequests \cup unc
      /\ uncertainPending' = uncertainPending \cup unc
      /\ UNCHANGED <<target, proven, outbox>>
  BY DEF Raise, history, studio
<1>3. \/ multiEditRecovery' = multiEditRecovery /\ inflight.phase # "apply"
      \/ inflight.phase = "apply" /\ multiEditRecovery' = RecoveryFor(o, admitted[o])
  BY DEF Raise
<1> QED
  BY <1>1, <1>2, <1>3, LeaveStep

LEMMA WaiterActions ==
  ASSUME FenceInv, TypeOK', NEW o \in Op,
         \/ ApplyNotDispatched(o) \/ Return(o) \/ RaiseRemoteError(o) \/ RaiseOffline(o)
         \/ Timeout(o) \/ CancelWait(o)
  PROVE  FenceInv'
<1>1. CASE ApplyNotDispatched(o)
  <2>1. inflight.op = o /\ inflight.phase # "apply"
    BY <1>1 DEF ApplyNotDispatched, Req
  <2>2. Leave(o) /\ UNCHANGED <<target, proven, outbox, uncertainRequests, uncertainPending,
                                multiEditRecovery>>
    BY <1>1 DEF ApplyNotDispatched, unproven, history, studio
  <2>3. /\ uncertainRequests' = uncertainRequests \cup {}
        /\ uncertainPending' = uncertainPending \cup {} /\ {} \in SUBSET {inflight}
    BY <2>2
  <2> QED
    BY <2>1, <2>2, <2>3, LeaveStep
<1>2. CASE Return(o)
  <2>1. /\ inflight.op = o /\ Leave(o)
        /\ UNCHANGED <<target, proven, outbox, uncertainRequests, uncertainPending>>
    BY <1>2 DEF Return, unproven, history, studio
  <2>2. admitted[o] \in Generations
    BY DEF FenceInv, TypeOK
  <2>3. \/ multiEditRecovery' = multiEditRecovery /\ (inflight.phase = "apply" => future = "result")
        \/ inflight.phase = "apply" /\ multiEditRecovery' = RecoveryFor(o, admitted[o])
    BY <1>2 DEF Return
  <2>4. /\ uncertainRequests' = uncertainRequests \cup {}
        /\ uncertainPending' = uncertainPending \cup {} /\ {} \in SUBSET {inflight}
    BY <2>1
  <2> QED
    BY <2>1, <2>2, <2>3, <2>4, LeaveStep
<1>3. CASE RaiseRemoteError(o)
  BY <1>3, RaiseStep DEF RaiseRemoteError
<1>4. CASE RaiseOffline(o)
  BY <1>4, RaiseStep DEF RaiseOffline
<1>5. CASE Timeout(o)
  BY <1>5, RaiseStep DEF Timeout
<1>6. CASE CancelWait(o)
  <2> DEFINE unc == IF future = "pending" THEN {inflight} ELSE {}
             cl == IF unc # {} /\ inflight.phase = "cleanup"
                   THEN CleanupRequired(multiEditCleanup, inflight) ELSE multiEditCleanup
             s == IF unc # {} THEN "outcome_unknown" ELSE uncertaintyState
  <2>1. inflight.op = o /\ Raise(o, FALSE, unc, cl, s)
    BY <1>6 DEF CancelWait
  <2>2. unc \in SUBSET {inflight}
    OBVIOUS
  <2> QED
    BY <2>1, <2>2, RaiseStep
<1> QED
  BY <1>1, <1>2, <1>3, <1>4, <1>5, <1>6

LEMMA ConnectionStep ==
  ASSUME FenceInv, TypeOK', CloseConnection, NEW settled,
         \A u \in settled : u.phase \notin MutationPhases,
         uncertainRequests' = (uncertainRequests \cup pending) \ settled,
         uncertainPending' = (uncertainPending \cup pending) \ settled
  PROVE  FenceInv'
<1> USE DEF FenceInv
<1>1. /\ dispatched' = dispatched /\ target' = target /\ proven' = proven
      /\ inflight' = inflight /\ multiEditRecovery' = multiEditRecovery
      /\ pending' = {} /\ future' = IF future = "pending" THEN "lost" ELSE future
      /\ stage' = [o \in Op |-> IF o \in DroppedJobs THEN "done" ELSE stage[o]]
  BY DEF CloseConnection, history, studio, dispatched
<1>2. \A u \in dispatched : u.op \in Op /\ stage'[u.op] = stage[u.op]
  BY <1>1, DispatchedRequests, RealRequest DEF RequestsHaveOwners, DroppedJobs, Queued
<1>3. /\ uncertainRequests' \subseteq Owed /\ Owed' \subseteq Owed
      /\ Owed \subseteq dispatched
  BY <1>1 DEF Owed, RecordsWereDispatched
<1>4. RequestsHaveOwners'
  <2>1. \A o \in Op : stage'[o] # "idle" => target'[o] \in Targets(o)
    BY <1>1 DEF RequestsHaveOwners, DroppedJobs, Queued
  <2> QED
    BY <1>1, <1>2, <2>1 DEF RequestsHaveOwners, TxnOf, Apply, Req
<1>5. RecordsWereDispatched'
  BY <1>1, <1>2, <1>3 DEF RecordsWereDispatched, Apply, Req
<1>6. OneSubject'
  BY <1>1, <1>3 DEF OneSubject, EditRequest, TxnOf
<1>7. AnsweredApplyIsSettled'
  BY <1>1 DEF AnsweredApplyIsSettled
<1>8. UnprovenIsFenced'
  BY <1>1 DEF UnprovenIsFenced, Unproven, Apply, Req, MutationPhases
<1> QED
  BY <1>4, <1>5, <1>6, <1>7, <1>8

LEMMA ConnectionActions ==
  ASSUME FenceInv, TypeOK', Disconnect \/ \E settled \in SUBSET dispatched : Reconnect(settled)
  PROVE  FenceInv'
<1>1. CASE Disconnect
  <2> DEFINE none == {}
  <2>1. /\ CloseConnection
        /\ uncertainRequests' = (uncertainRequests \cup pending) \ none
        /\ uncertainPending' = (uncertainPending \cup pending) \ none
        /\ \A u \in none : u.phase \notin MutationPhases
    BY <1>1 DEF Disconnect
  <2> HIDE DEF none
  <2> QED
    BY <2>1, ConnectionStep
<1>2. ASSUME NEW settled \in SUBSET dispatched, Reconnect(settled)
      PROVE  FenceInv'
  BY <1>2, ConnectionStep DEF Reconnect, Settleable
<1> QED
  BY <1>1, <1>2

(* A reply to a request that is owed.  gone is the request itself when a   *)
(* late reply lifts it from the uncertain ones.                            *)
LEMMA ReplyStep ==
  ASSUME FenceInv, TypeOK', NEW r \in dispatched, r \in Owed, NEW y \in Replies(r),
         NEW late \in BOOLEAN, NEW gone \in SUBSET {r},
         ApplyEffect(Effect(r, y, late), gone),
         gone # {} => /\ y \notin {"invalid", "recovery_required"}
                      /\ y = "error" => ~EditRequest(r),
         pending' = pending \ {r},
         \/ future' = future
         \/ r = inflight /\ (future' = "result" =>
                               y \notin {"invalid", "error", "recovery_required"}),
         UNCHANGED <<inflight, stage, target, outbox>>
  PROVE  FenceInv'
<1> USE DEF FenceInv
<1> DEFINE e == Effect(r, y, late)
<1>0. /\ r \in Request /\ dispatched \subseteq Request /\ dispatched' = dispatched
      /\ Owed \subseteq dispatched /\ uncertainRequests \subseteq Owed
      /\ inflight # NoRequest => inflight \in Owed
  BY DispatchedRequests DEF dispatched, Owed, RecordsWereDispatched
<1>1. EditRequest(r) => TxnOf(r) \in Txn /\ Apply(TxnOf(r)) \in dispatched
  BY DispatchedRequests DEF EditRequest, RequestsHaveOwners
<1>2. \A u \in dispatched : u.phase = "apply" => TxnOf(u) = u.op /\ u = Apply(u.op)
  BY DispatchedRequests
<1>3. /\ uncertainRequests' = e.unc \ gone /\ uncertainPending' = e.unc \ gone
      /\ multiEditRecovery' = e.rec /\ proven' = proven \cup e.proves
  BY DEF ApplyEffect
<1>4. \/ Ignores(e, r, y) \/ KeepsCleanup(e, r) \/ Fences(e, r)
      \/ SettlesCleanup(e, r) \/ SettlesEdit(e, r)
  BY <1>0, EffectCases
<1> HIDE DEF e
<1>5. /\ uncertainRequests' \subseteq uncertainRequests \cup {r}
      /\ proven \subseteq proven' /\ Owed' \subseteq Owed
  BY <1>3, <1>4 DEF Ignores, KeepsCleanup, Fences, SettlesCleanup, SettlesEdit, Owed
(* How the fence and the proven transactions change together.              *)
<1>6. \/ multiEditRecovery' = multiEditRecovery
      \/ /\ EditRequest(r) /\ multiEditRecovery' # NoRecovery
         /\ multiEditRecovery'.txn = TxnOf(r)
      \/ /\ EditRequest(r) /\ multiEditRecovery.txn = TxnOf(r)
         /\ multiEditRecovery' = NoRecovery /\ TxnOf(r) \in proven'
  <2>1. Fences(e, r) => e.rec.txn = TxnOf(r) /\ e.rec # NoRecovery /\ EditRequest(r)
    BY <1>1, SessionAssumption DEF Fences, RecoveryFor, NoRecovery, Txn
  <2> QED
    BY <1>3, <1>4, <2>1 DEF Ignores, KeepsCleanup, SettlesCleanup, SettlesEdit
<1>7. EditRequest(r) => \A u \in Owed : EditRequest(u) /\ TxnOf(u) = TxnOf(r)
  BY DEF OneSubject, EditRequest
<1>8. RequestsHaveOwners'
  BY <1>0 DEF RequestsHaveOwners, TxnOf, Apply, Req
<1>9. RecordsWereDispatched'
  <2>1. uncertainRequests' = uncertainPending' /\ uncertainRequests' \subseteq dispatched \ pending'
    BY <1>3, <1>5 DEF RecordsWereDispatched
  <2>2. \A t \in proven' : Apply(t) \in dispatched
    BY <1>1, <1>3, <1>4 DEF RecordsWereDispatched, Ignores, KeepsCleanup, Fences,
                            SettlesCleanup, SettlesEdit
  <2>3. multiEditRecovery' # NoRecovery =>
          multiEditRecovery'.txn \in Txn /\ Apply(multiEditRecovery'.txn) \in dispatched
    BY <1>1, <1>6 DEF RecordsWereDispatched
  <2> QED
    BY <1>0, <2>1, <2>2, <2>3 DEF RecordsWereDispatched, Apply, Req
<1>10. OneSubject'
  <2>1. multiEditRecovery' # NoRecovery =>
          \A u \in Owed : EditRequest(u) /\ TxnOf(u) = multiEditRecovery'.txn
    BY <1>6, <1>7 DEF OneSubject
  <2> QED
    BY <1>5, <2>1 DEF OneSubject, EditRequest, TxnOf
<1>11. AnsweredApplyIsSettled'
  <2> SUFFICES ASSUME inflight.phase = "apply", future' = "result"
               PROVE  inflight.op \in proven' \/ multiEditRecovery'.txn = inflight.op
    BY DEF AnsweredApplyIsSettled
  <2>1. inflight \in Owed /\ inflight \in dispatched /\ TxnOf(inflight) = inflight.op
    BY <1>0, <1>2 DEF NoRequest
  <2>2. EditRequest(r) => TxnOf(r) = inflight.op
    BY <1>7, <2>1
  <2>3. CASE future' = future
    <3>1. inflight.op \in proven \/ multiEditRecovery.txn = inflight.op
      BY <2>3 DEF AnsweredApplyIsSettled
    <3> QED
      BY <1>5, <1>6, <2>2, <3>1
  <2>4. CASE r = inflight /\ y \notin {"invalid", "error", "recovery_required"}
    BY <1>3, <1>4, <2>1, <2>4
       DEF Ignores, KeepsCleanup, Fences, SettlesCleanup, SettlesEdit, RecoveryControls,
           RecoveryFor, EditRequest
  <2> QED
    BY <2>3, <2>4
<1>12. UnprovenIsFenced'
  <2> SUFFICES ASSUME NEW t \in Txn, Apply(t) \in dispatched, t \notin proven'
               PROVE  \/ inflight = Apply(t) \/ Apply(t) \in uncertainRequests'
                      \/ multiEditRecovery'.txn = t
    BY <1>0 DEF UnprovenIsFenced, Unproven, Apply, Req
  <2>0. /\ t \in Unproven /\ TxnOf(Apply(t)) = t /\ EditRequest(Apply(t))
        /\ Apply(t).phase = "apply"
    BY <1>2, <1>5 DEF Unproven, EditRequest, Apply, Req
  <2>1. CASE multiEditRecovery.txn = t
    <3>1. multiEditRecovery # NoRecovery
      BY <2>1, SessionAssumption DEF NoRecovery, Txn
    <3>2. EditRequest(r) => TxnOf(r) = t
      BY <2>1, <3>1 DEF OneSubject
    <3> QED
      BY <1>6, <2>1, <3>2
  <2>2. CASE Apply(t) \in uncertainRequests /\ r # Apply(t)
    <3>1. SettlesEdit(e, r) => TxnOf(r) # t
      BY <1>3 DEF SettlesEdit
    <3>2. SettlesEdit(e, r) => TxnOf(r) = t
      BY <1>0, <1>7, <2>0, <2>2 DEF SettlesEdit
    <3> QED
      BY <1>3, <1>4, <2>0, <2>2, <3>1, <3>2
         DEF Ignores, KeepsCleanup, Fences, SettlesCleanup, SettledWith
  <2>3. CASE Apply(t) \in uncertainRequests /\ r = Apply(t)
    <3>1. ~SettlesEdit(e, r)
      BY <1>3, <2>0, <2>3 DEF SettlesEdit
    <3>2. Ignores(e, r, y) \/ Fences(e, r)
      BY <1>4, <2>0, <2>3, <3>1 DEF KeepsCleanup, SettlesCleanup
    <3>3. CASE Fences(e, r)
      BY <1>3, <2>0, <2>3, <3>3 DEF Fences, RecoveryFor
    <3>4. CASE Ignores(e, r, y) /\ gone = {}
      BY <1>3, <2>3, <3>4 DEF Ignores
    <3>5. CASE Ignores(e, r, y) /\ gone # {}
      <4>1. RecoveryControls(r)
        BY <2>0, <2>3, <3>5 DEF Ignores
      <4> QED
        BY <1>3, <2>0, <2>3, <3>5, <4>1 DEF Ignores, RecoveryControls
    <3> QED
      BY <3>2, <3>3, <3>4, <3>5
  <2> QED
    BY <2>0, <2>1, <2>2, <2>3 DEF UnprovenIsFenced
<1> QED
  BY <1>8, <1>9, <1>10, <1>11, <1>12

LEMMA ReplyActions ==
  ASSUME FenceInv, TypeOK', NEW r \in dispatched, NEW y,
         ReceiveResponse(r, y) \/ ReceiveLate(r, y)
  PROVE  FenceInv'
<1>0. r \in Request /\ y \in Replies(r)
  BY DispatchedRequests DEF ReceiveResponse, ReceiveLate
<1>1. CASE ReceiveResponse(r, y)
  <2>1. r = inflight /\ r \in Owed
    BY <1>1 DEF ReceiveResponse, FenceInv, RecordsWereDispatched, Owed
  <2>2. future' = "result" => y \notin {"invalid", "error", "recovery_required"}
    <3>1. CASE y \in {"invalid", "error"}
      BY <1>1, <3>1 DEF ReceiveResponse
    <3>2. CASE y = "recovery_required"
      BY <1>1, <3>2 DEF ReceiveResponse
    <3> QED
      BY <3>1, <3>2
  <2> DEFINE none == {}
  <2>3. /\ ApplyEffect(Effect(r, y, FALSE), none) /\ none \in SUBSET {r}
        /\ none # {} => /\ y \notin {"invalid", "recovery_required"}
                        /\ y = "error" => ~EditRequest(r)
        /\ pending' = pending \ {r}
        /\ UNCHANGED <<inflight, stage, target, outbox>>
    BY <1>1 DEF ReceiveResponse, ops, Serves
  <2> HIDE DEF none
  <2>4. \/ future' = future
        \/ r = inflight /\ (future' = "result" =>
                              y \notin {"invalid", "error", "recovery_required"})
    BY <2>1, <2>2
  <2> QED
    BY <1>0, <2>1, <2>3, <2>4, ReplyStep
<1>2. CASE ReceiveLate(r, y)
  <2> DEFINE kept == y = "recovery_required" \/ (y = "error" /\ r.phase \in MutationPhases)
             gone == IF kept THEN {} ELSE {r}
  <2>1. r \in Owed /\ y # "invalid"
    BY <1>2 DEF ReceiveLate, Owed
  <2>2. gone # {} => y \notin {"invalid", "recovery_required"} /\ (y = "error" => ~EditRequest(r))
    BY <2>1 DEF EditRequest, MutationPhases
  <2>3. /\ ApplyEffect(Effect(r, y, TRUE), gone) /\ gone \in SUBSET {r}
        /\ pending' = pending \ {r} /\ future' = future
        /\ UNCHANGED <<inflight, stage, target, outbox>>
    BY <1>2 DEF ReceiveLate, ops, waiter, Serves
  <2> HIDE DEF gone
  <2> QED
    BY <1>0, <2>1, <2>2, <2>3, ReplyStep
<1> QED
  BY <1>1, <1>2

LEMMA FenceInit == Init => FenceInv
<1> SUFFICES ASSUME Init
             PROVE  FenceInv
  OBVIOUS
<1>1. dispatched = {}
  BY DEF Init, dispatched, ToSet
<1>2. TypeOK
  <2>1. 1 \in 1..MaxGeneration /\ 0 \in Generations
    BY SessionAssumption DEF Generations
  <2>2. outbox \in Seq(Request) /\ served \in Nat /\ reply \in AllReplies \cup {"none"}
    BY DEF Init
  <2>3. "none" \in Futures /\ "none" \in JobStates /\ "clear" \in Reasons
    BY DEF Futures, JobStates, Reasons
  <2> QED
    BY <2>1, <2>2, <2>3, NoFences DEF Init, TypeOK
<1>3. RequestsHaveOwners
  BY <1>1 DEF Init, RequestsHaveOwners
<1>4. RecordsWereDispatched
  BY <1>1 DEF Init, RecordsWereDispatched, NoRequest
<1>5. OneSubject
  BY DEF Init, OneSubject, Owed
<1>6. AnsweredApplyIsSettled
  BY DEF Init, AnsweredApplyIsSettled
<1>7. UnprovenIsFenced
  BY <1>1 DEF UnprovenIsFenced, Unproven
<1> QED
  BY <1>2, <1>3, <1>4, <1>5, <1>6, <1>7 DEF FenceInv

LEMMA FenceStep == FenceInv /\ [Next]_vars => FenceInv'
<1> SUFFICES ASSUME FenceInv, [Next]_vars
             PROVE  FenceInv'
  OBVIOUS
<1>0. TypeOK'
  BY TypeStep
<1> QED
  BY <1>0, QuietActions, BeginStep, ContinueStep, WaiterActions, ReplyActions, ConnectionActions
     DEF Next, Resume, Respond

(* Everything below the fences holds for ever: the inductive invariant.    *)
THEOREM SessionInvariant == Spec => []FenceInv
<1>1. Init => FenceInv
  BY FenceInit
<1>2. FenceInv /\ [Next]_vars => FenceInv'
  BY FenceStep
<1> QED
  BY <1>1, <1>2, PTL DEF Spec

(* The variables of the session keep their types.                          *)
THEOREM SessionTypes == Spec => []TypeOK
<1>1. FenceInv => TypeOK
  BY DEF FenceInv
<1> QED
  BY <1>1, SessionInvariant, PTL

(* A dispatched apply is forgotten by no timeout, cancellation, disconnect,*)
(* reconnect or late receipt, whatever operations compete for the session. *)
THEOREM SessionFences == Spec => []UnprovenIsFenced
<1>1. FenceInv => UnprovenIsFenced
  BY DEF FenceInv
<1> QED
  BY <1>1, SessionInvariant, PTL

(* The exact recovery is never shut out by a stray uncertain request.      *)
THEOREM SessionRecoverable == Spec => []RecoveryOwnsUncertainty
<1>1. FenceInv => RecoveryOwnsUncertainty
  BY DEF FenceInv, RecordsWereDispatched, OneSubject, Owed, EditRequest, RecoveryOwnsUncertainty
<1> QED
  BY <1>1, SessionInvariant, PTL

(***************************************************************************)
(* The session implements the ledger                                       *)
(***************************************************************************)

LEMMA LedgerInit == Init => Ledger!Init
BY DEF Init, Ledger!Init, Unproven, dispatched, ToSet

(* A request leaves: an apply opens its transaction, and leaves only when  *)
(* no other is open.                                                       *)
LEMMA LedgerDispatch ==
  ASSUME FenceInv, NEW o \in Op, Begin(o) \/ ContinueToApply(o)
  PROVE  [Ledger!Next]_Ledger!ledger
<1> USE DEF FenceInv
<1>1. CASE Begin(o)
  <2>1. FirstPhase(o) # "apply"
    BY FirstPhaseType
  <2>2. Req(o, FirstPhase(o)) \in Request
    BY FirstPhaseType, RequestType
  <2>3. dispatched' = dispatched \cup {Req(o, FirstPhase(o))} /\ proven' = proven
    BY <1>1, <2>2, OutboxGrows DEF Begin, Dispatch, TypeOK, dispatched
  <2>4. Unproven' = Unproven
    BY <2>1, <2>3 DEF Unproven, Apply, Req
  <2> QED
    BY <2>3, <2>4 DEF Ledger!ledger
<1>2. CASE ContinueToApply(o)
  <2>1. inflight.phase = "prepare" /\ inflight.op = o /\ inflight # NoRequest
    BY <1>2 DEF ContinueToApply, Req, NoRequest
  <2>2. inflight \in dispatched /\ Apply(o) \notin dispatched
    BY <2>1 DEF RecordsWereDispatched
  <2>3. o \in Txn
    BY <2>1, <2>2 DEF RequestsHaveOwners, Txn
  <2>4. uncertainRequests = {} /\ multiEditRecovery = NoRecovery
    BY <1>2 DEF ContinueToApply, Admissible, RecoveryAllowed, CleanupAllowed, Req
  <2>5. Unproven = {}
    BY <2>1, <2>4, SessionAssumption
       DEF UnprovenIsFenced, Unproven, NoRecovery, Apply, Req, Txn
  <2>6. Apply(o) \in Request
    BY RequestType DEF Apply, Phases
  <2>7. dispatched' = dispatched \cup {Apply(o)} /\ proven' = proven
    BY <1>2, <2>6, OutboxGrows DEF ContinueToApply, Dispatch, Apply, TypeOK, dispatched
  <2>8. o \notin proven
    BY <2>2 DEF RecordsWereDispatched
  <2>9. Unproven' = {o}
    <3>1. \A t \in Txn : Apply(t) \in dispatched' /\ t \notin proven' <=> t = o
      BY <2>3, <2>5, <2>7, <2>8 DEF Unproven, Apply, Req
    <3> QED
      BY <2>3, <3>1 DEF Unproven, Apply, Req
  <2>10. Ledger!Open(o)
    BY <2>5, <2>7, <2>8, <2>9 DEF Ledger!Open
  <2> QED
    BY <2>3, <2>10 DEF Ledger!Next
<1> QED
  BY <1>1, <1>2

LEMMA LedgerReply ==
  ASSUME FenceInv, NEW r \in dispatched, NEW y, ReceiveResponse(r, y) \/ ReceiveLate(r, y)
  PROVE  [Ledger!Next]_Ledger!ledger
<1> USE DEF FenceInv
<1>1. PICK l \in BOOLEAN : proven' = proven \cup Effect(r, y, l).proves
  BY DEF ReceiveResponse, ReceiveLate, ApplyEffect
<1>2. dispatched' = dispatched
  BY DEF ReceiveResponse, ReceiveLate, Serves, dispatched
<1>3. r \in Request /\ y \in Replies(r)
  BY DispatchedRequests DEF ReceiveResponse, ReceiveLate
<1>4. \/ Effect(r, y, l).proves = {}
      \/ EditRequest(r) /\ Effect(r, y, l).proves = {TxnOf(r)}
  BY <1>3, EffectCases DEF Ignores, KeepsCleanup, Fences, SettlesCleanup, SettlesEdit
<1>5. EditRequest(r) => TxnOf(r) \in Txn /\ Apply(TxnOf(r)) \in dispatched
  BY DispatchedRequests DEF EditRequest, RequestsHaveOwners
<1>6. CASE proven' = proven
  BY <1>2, <1>6 DEF Ledger!ledger, Unproven, Apply, Req
<1>7. CASE proven' # proven
  <2>1. /\ TxnOf(r) \in Txn /\ Apply(TxnOf(r)) \in dispatched /\ TxnOf(r) \notin proven
        /\ proven' = proven \cup {TxnOf(r)}
    BY <1>1, <1>4, <1>5, <1>7
  <2>2. TxnOf(r) \in Unproven /\ Unproven' = Unproven \ {TxnOf(r)}
    BY <1>2, <2>1 DEF Unproven, Apply, Req
  <2> QED
    BY <2>1, <2>2 DEF Ledger!Settle, Ledger!Next
<1> QED
  BY <1>6, <1>7

LEMMA LedgerStutter ==
  ASSUME UNCHANGED <<outbox, proven>>
  PROVE  [Ledger!Next]_Ledger!ledger
BY DEF Ledger!ledger, Unproven, dispatched, Apply, Req

LEMMA LedgerStep == FenceInv /\ [Next]_vars => [Ledger!Next]_Ledger!ledger
<1> SUFFICES ASSUME FenceInv, [Next]_vars
             PROVE  [Ledger!Next]_Ledger!ledger
  OBVIOUS
<1>1. CASE \E o \in Op : Begin(o) \/ ContinueToApply(o)
  BY <1>1, LedgerDispatch
<1>2. CASE Respond
  BY <1>2, LedgerReply DEF Respond
<1>3. ASSUME NEW o \in Op,
             \/ \E t \in Txn \cup {None} : Submit(o, t)
             \/ Refuse(o) \/ ApplyNotDispatched(o) \/ Return(o) \/ CancelQueued(o)
      PROVE  UNCHANGED <<outbox, proven>>
  BY <1>3 DEF Submit, Refuse, ApplyNotDispatched, Return, CancelQueued, history, studio
<1>4. ASSUME NEW o \in Op, \/ RaiseRemoteError(o) \/ RaiseOffline(o)
                          \/ Timeout(o) \/ CancelWait(o)
      PROVE  UNCHANGED <<outbox, proven>>
  BY <1>4 DEF RaiseRemoteError, RaiseOffline, Timeout, CancelWait, Raise, history, studio
<1>5. ASSUME \/ Disconnect \/ \E settled \in SUBSET dispatched : Reconnect(settled)
             \/ \E t \in Txn : DeadlinePasses(t)
             \/ \E m \in Modes : ModeEvent(m)
             \/ Snapshot \/ PlayBridge \/ UNCHANGED vars
      PROVE  UNCHANGED <<outbox, proven>>
  BY <1>5 DEF Disconnect, Reconnect, CloseConnection, DeadlinePasses, ModeEvent, Snapshot,
              PlayBridge, vars, history, studio
<1> QED
  BY <1>1, <1>2, <1>3, <1>4, <1>5, LedgerStutter DEF Next, Resume

(* At most one transaction is ever open: the session, with its queue, its  *)
(* timeouts and its reconnects, implements the ledger.                     *)
THEOREM SessionRefinesLedger == Spec => LedgerSpec
<1>1. Init => Ledger!Init
  BY LedgerInit
<1>2. FenceInv /\ [Next]_vars => [Ledger!Next]_Ledger!ledger
  BY LedgerStep
<1> QED
  BY <1>1, <1>2, SessionInvariant, PTL DEF Spec, LedgerSpec, Ledger!Spec
=============================================================================

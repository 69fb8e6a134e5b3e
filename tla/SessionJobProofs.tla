--------------------------- MODULE SessionJobProofs ---------------------------
(***************************************************************************)
(* Proofs about the verdicts of background jobs: a job reported as failed  *)
(* changed nothing, one reported as completed has a proven outcome, and    *)
(* one of unknown outcome can still be settled.                            *)
(***************************************************************************)
EXTENDS SessionGrantProofs

(***************************************************************************)
(* Order: what is awaited, and what Studio has answered                    *)
(***************************************************************************)

Answered == {"result", "result_requires_recovery", "remote_error"}

(* The awaited request is the last one sent, no request is sent twice, and *)
(* once it is answered Studio's last answer is the answer to it.           *)
OrderInv ==
  /\ pending = IF future = "pending" THEN {inflight} ELSE {}
  /\ (future = "none") <=> (inflight = NoRequest)
  /\ inflight # NoRequest => outbox # <<>> /\ outbox[Len(outbox)] = inflight
  /\ \A i, j \in DOMAIN outbox : outbox[i] = outbox[j] => i = j
  /\ served <= Len(outbox)
  /\ future \in Answered => served = Len(outbox)
  /\ future = "result" => reply \in SafeReplies(inflight.phase)
  /\ future = "result_requires_recovery" =>
       reply = "recovery_required" /\ inflight.phase \in MutationPhases
  /\ future = "remote_error" => reply \in {"error", "invalid"}

(* A request leaves that never left before.                                *)
Sends(r, prep) ==
  /\ Admissible(r, prep) /\ Dispatch(r, prep)
  /\ r \notin dispatched
  /\ r.phase = FirstPhase(r.op) \/ (r.phase = "apply" /\ Kind[r.op] = "multi")
  /\ r.phase = "apply" => r.op \in Txn /\ prep = r.op /\ inflight = Req(r.op, "prepare")
  /\ r.phase # "apply" => stage[r.op] = "queued" /\ prep = preparedReceipt /\ inflight = NoRequest
  /\ UNCHANGED <<conn, target, admitted>>

(* The holder of operation_lock leaves.                                    *)
Leaves(o) ==
  /\ inflight.op = o /\ Leave(o)
  /\ \/ ApplyNotDispatched(o) \/ Return(o) \/ RaiseRemoteError(o) \/ RaiseOffline(o)
     \/ Timeout(o) \/ CancelWait(o)

Closes == Disconnect \/ \E settled \in SUBSET dispatched : Reconnect(settled)

(* Steps that concern neither requests nor the connection.                 *)
Rests ==
  /\ UNCHANGED <<inflight, future, pending, uncertainRequests, multiEditRecovery,
                 preparedReceipt, outbox, served, reply, proven, generation, connected>>
  /\ multiEditCleanup' \in {multiEditCleanup, Expired(multiEditCleanup)}
  /\ \/ \E o \in Op, t \in Txn \cup {None} : Submit(o, t)
     \/ \E o \in Op : /\ stage[o] = "queued" /\ stage' = [stage EXCEPT ![o] = "done"]
                      /\ \E s \in {"failed", "cancelled"} :
                           job' = [job EXCEPT ![o] = IF o \in JobOps THEN s ELSE @]
                      /\ UNCHANGED <<target, admitted>>
     \/ UNCHANGED <<stage, job, target, admitted>>

LEMMA StepKinds ==
  ASSUME FenceInv, [Next]_vars
  PROVE  \/ \E r \in Request, prep \in Txn \cup {None} : Sends(r, prep)
         \/ \E o \in Op : Leaves(o)
         \/ \E r \in dispatched, y \in AllReplies : ReceiveResponse(r, y) \/ ReceiveLate(r, y)
         \/ Closes
         \/ Rests
<1> USE DEF FenceInv
<1>1. ASSUME NEW o \in Op, Begin(o)
      PROVE  \E r \in Request, prep \in Txn \cup {None} : Sends(r, prep)
  <2> DEFINE r == Req(o, FirstPhase(o))
  <2>1. r \in Request /\ r.op = o /\ r.phase = FirstPhase(o) /\ r.phase # "apply"
    BY FirstPhaseType, RequestType
  <2>2. stage[o] = "queued" /\ inflight = NoRequest /\ Admissible(r, preparedReceipt)
        /\ Dispatch(r, preparedReceipt)
    BY <1>1 DEF Begin
  <2>3. r \notin dispatched
    BY <2>1, <2>2 DEF RequestsHaveOwners
  <2>4. UNCHANGED <<conn, target, admitted>>
    BY <2>2 DEF Dispatch
  <2> HIDE DEF r
  <2>5. Sends(r, preparedReceipt)
    BY <2>1, <2>2, <2>3, <2>4 DEF Sends
  <2> QED
    BY <2>1, <2>5 DEF TypeOK
<1>2. ASSUME NEW o \in Op, ContinueToApply(o)
      PROVE  \E r \in Request, prep \in Txn \cup {None} : Sends(r, prep)
  <2> DEFINE r == Req(o, "apply")
  <2>1. r \in Request /\ r.op = o /\ r.phase = "apply"
    BY RequestType DEF Phases
  <2>2. inflight = Req(o, "prepare") /\ Admissible(r, o) /\ Dispatch(r, o)
    BY <1>2 DEF ContinueToApply
  <2>3. inflight.phase = "prepare" /\ inflight.op = o /\ inflight # NoRequest
    BY <2>2 DEF Req, NoRequest
  <2>4. r \notin dispatched
    BY <2>3 DEF RecordsWereDispatched, Apply
  <2>5. o \in Txn /\ Kind[o] = "multi"
    BY <2>3 DEF RecordsWereDispatched, RequestsHaveOwners, Txn
  <2>6. UNCHANGED <<conn, target, admitted>>
    BY <2>2 DEF Dispatch
  <2> HIDE DEF r
  <2>7. Sends(r, o)
    BY <2>1, <2>2, <2>4, <2>5, <2>6 DEF Sends
  <2> QED
    BY <2>1, <2>5, <2>7
<1>3. ASSUME NEW o \in Op, \/ ApplyNotDispatched(o) \/ Return(o) \/ RaiseRemoteError(o)
                           \/ RaiseOffline(o) \/ Timeout(o) \/ CancelWait(o)
      PROVE  Leaves(o)
  <2>1. CASE ApplyNotDispatched(o)
    BY <2>1 DEF ApplyNotDispatched, Leaves, Req
  <2>2. CASE Return(o)
    BY <2>2 DEF Return, Leaves
  <2>3. CASE RaiseRemoteError(o) \/ RaiseOffline(o)
    BY <2>3 DEF RaiseRemoteError, RaiseOffline, Raise, Leaves
  <2>4. CASE Timeout(o) \/ CancelWait(o)
    BY <2>4 DEF Timeout, CancelWait, Raise, Leaves
  <2> QED
    BY <1>3, <2>1, <2>2, <2>3, <2>4
<1>4. ASSUME NEW o \in Op, NEW t \in Txn \cup {None}, Submit(o, t)
      PROVE  Rests
  BY <1>4 DEF Submit, Rests, conn, waiter, unproven, fences, history, studio
<1>5. ASSUME NEW o \in Op, Refuse(o)
      PROVE  Rests
  <2>1. /\ UNCHANGED <<inflight, future, pending, uncertainRequests, multiEditRecovery,
                       preparedReceipt, outbox, served, reply, proven, generation, connected>>
        /\ multiEditCleanup' \in {multiEditCleanup, Expired(multiEditCleanup)}
        /\ stage[o] = "queued" /\ stage' = [stage EXCEPT ![o] = "done"]
        /\ job' = [job EXCEPT ![o] = IF o \in JobOps THEN "failed" ELSE @]
        /\ UNCHANGED <<target, admitted>>
    BY <1>5 DEF Refuse, conn, waiter, unproven, history, studio
  <2> QED
    BY <2>1 DEF Rests
<1>6. ASSUME NEW o \in Op, CancelQueued(o)
      PROVE  Rests
  <2>1. /\ UNCHANGED <<inflight, future, pending, uncertainRequests, multiEditRecovery,
                       preparedReceipt, outbox, served, reply, proven, generation, connected>>
        /\ multiEditCleanup' = multiEditCleanup
        /\ stage[o] = "queued" /\ stage' = [stage EXCEPT ![o] = "done"]
        /\ job' = [job EXCEPT ![o] = IF o \in JobOps THEN "cancelled" ELSE @]
        /\ UNCHANGED <<target, admitted>>
    BY <1>6 DEF CancelQueued, conn, waiter, unproven, fences, history, studio
  <2> QED
    BY <2>1 DEF Rests
<1>7. ASSUME \/ \E t \in Txn : DeadlinePasses(t)
             \/ \E m \in Modes : ModeEvent(m)
             \/ Snapshot \/ PlayBridge \/ UNCHANGED vars
      PROVE  Rests
  <2>1. /\ UNCHANGED <<inflight, future, pending, uncertainRequests, multiEditRecovery,
                       preparedReceipt, outbox, served, reply, proven, generation, connected>>
        /\ multiEditCleanup' \in {multiEditCleanup, Expired(multiEditCleanup)}
        /\ UNCHANGED <<stage, job, target, admitted>>
    BY <1>7 DEF DeadlinePasses, ModeEvent, Snapshot, PlayBridge, vars, conn, ops, waiter,
                unproven, fences, history, studio
  <2> QED
    BY <2>1 DEF Rests
<1> QED
  BY <1>1, <1>2, <1>3, <1>4, <1>5, <1>6, <1>7 DEF Next, Resume, Respond, Closes

LEMMA AppendLast ==
  ASSUME NEW box \in Seq(Request), NEW r \in Request
  PROVE  /\ Append(box, r) # <<>> /\ Len(Append(box, r)) = Len(box) + 1
         /\ Append(box, r)[Len(Append(box, r))] = r
         /\ DOMAIN Append(box, r) = DOMAIN box \cup {Len(box) + 1}
         /\ \A i \in DOMAIN box : Append(box, r)[i] = box[i]
OBVIOUS

LEMMA OrderSends ==
  ASSUME FenceInv, OrderInv, NEW r \in Request, NEW prep, Sends(r, prep)
  PROVE  OrderInv'
<1>1. /\ inflight' = r /\ future' = "pending" /\ pending' = {r} /\ r # NoRequest
      /\ outbox' = Append(outbox, r) /\ served' = served /\ outbox \in Seq(Request)
  BY RealRequest DEF Sends, Dispatch, FenceInv, RecordsWereDispatched, TypeOK
<1>2. \A i \in DOMAIN outbox : outbox[i] # r
  BY DEF Sends, dispatched, ToSet
<1>3. \A i, j \in DOMAIN outbox' : outbox'[i] = outbox'[j] => i = j
  BY <1>1, <1>2, AppendLast DEF OrderInv
<1>4. served' <= Len(outbox')
  <2>1. served \in Nat /\ Len(outbox) \in Nat /\ served <= Len(outbox)
    BY <1>1 DEF FenceInv, TypeOK, OrderInv
  <2>2. Len(outbox') = Len(outbox) + 1
    BY <1>1, AppendLast
  <2> QED
    BY <1>1, <2>1, <2>2
<1>5. outbox' # <<>> /\ outbox'[Len(outbox')] = inflight'
  BY <1>1, AppendLast
<1> QED
  BY <1>1, <1>3, <1>4, <1>5 DEF OrderInv, Answered

(* Once the awaited request is answered, a late answer is a repetition.    *)
LEMMA LateRepeats ==
  ASSUME FenceInv, OrderInv, NEW r, NEW y, Serves(r, y), future \in Answered
  PROVE  r = inflight /\ y = reply /\ served' = served /\ reply' = reply
<1>1. PICK i \in DOMAIN outbox : /\ outbox[i] = r
                                 /\ i > served \/ (i = served /\ y = reply)
                                 /\ served' = i /\ reply' = y
  BY DEF Serves
<1>2. inflight # NoRequest /\ served = Len(outbox)
  BY DEF OrderInv, Answered
<1>3. i \in 1..Len(outbox)
  BY <1>1 DEF FenceInv, TypeOK
<1>4. i = served /\ y = reply
  BY <1>1, <1>2, <1>3
<1> QED
  BY <1>1, <1>2, <1>4 DEF OrderInv

LEMMA OrderReply ==
  ASSUME FenceInv, OrderInv, NEW r \in dispatched, NEW y \in AllReplies,
         ReceiveResponse(r, y) \/ ReceiveLate(r, y)
  PROVE  OrderInv'
<1>1. outbox' = outbox /\ inflight' = inflight
  BY DEF ReceiveResponse, ReceiveLate, Serves, waiter
<1>2. PICK i \in DOMAIN outbox : outbox[i] = r /\ served' = i /\ reply' = y
  BY DEF ReceiveResponse, ReceiveLate, Serves
<1>3. served' <= Len(outbox')
  <2>1. i \in 1..Len(outbox)
    BY <1>2 DEF FenceInv, TypeOK
  <2> QED
    BY <1>1, <1>2, <2>1
<1>4. CASE ReceiveResponse(r, y)
  <2>1. r = inflight /\ inflight # NoRequest /\ pending' = {}
    BY <1>4 DEF ReceiveResponse, FenceInv, RecordsWereDispatched
  <2>2. served' = Len(outbox)
    <3>1. Len(outbox) \in DOMAIN outbox
      BY <2>1 DEF OrderInv, FenceInv, TypeOK
    <3> QED
      BY <1>2, <2>1, <3>1 DEF OrderInv
  <2>3. y \in Replies(r)
    BY <1>4 DEF ReceiveResponse
  <2>4. CASE y \in {"invalid", "error"}
    BY <1>1, <1>2, <1>3, <1>4, <2>1, <2>2, <2>4 DEF ReceiveResponse, OrderInv, Answered
  <2>5. CASE y = "recovery_required"
    <3>1. r.phase \in MutationPhases
      <4>1. y \notin SafeReplies(r.phase)
        BY <2>5 DEF SafeReplies
      <4> QED
        BY <2>3, <2>5, <4>1 DEF Replies
    <3> QED
      BY <1>1, <1>2, <1>3, <1>4, <2>1, <2>2, <2>5, <3>1 DEF ReceiveResponse, OrderInv, Answered
  <2>6. CASE y \notin {"invalid", "error", "recovery_required"}
    <3>1. y \in SafeReplies(r.phase)
      BY <2>3, <2>6 DEF Replies
    <3> QED
      BY <1>1, <1>2, <1>3, <1>4, <2>1, <2>2, <2>6, <3>1 DEF ReceiveResponse, OrderInv, Answered
  <2> QED
    BY <2>4, <2>5, <2>6
<1>5. CASE ReceiveLate(r, y)
  <2>1. pending' = pending /\ future' = future /\ Serves(r, y)
    BY <1>5 DEF ReceiveLate, waiter
  <2>2. CASE future \in Answered
    BY <1>1, <1>3, <2>1, <2>2, LateRepeats DEF OrderInv
  <2>3. CASE future \notin Answered
    BY <1>1, <1>3, <2>1, <2>3 DEF OrderInv, Answered
  <2> QED
    BY <2>2, <2>3
<1> QED
  BY <1>4, <1>5

LEMMA OrderStep == FenceInv /\ OrderInv /\ [Next]_vars => OrderInv'
<1> SUFFICES ASSUME FenceInv, OrderInv, [Next]_vars
             PROVE  OrderInv'
  OBVIOUS
<1>1. ASSUME NEW o \in Op, Leaves(o)
      PROVE  OrderInv'
  <2>1. UNCHANGED <<outbox, served, reply>>
    BY <1>1 DEF Leaves, ApplyNotDispatched, Return, RaiseRemoteError, RaiseOffline, Timeout,
                CancelWait, Raise, history, studio
  <2>2. inflight' = NoRequest /\ future' = "none" /\ pending' = {}
    BY <1>1 DEF Leaves, Leave, FenceInv, RecordsWereDispatched
  <2> QED
    BY <2>1, <2>2 DEF OrderInv, Answered
<1>2. CASE Closes
  <2>1. /\ UNCHANGED <<outbox, served, reply, inflight>> /\ pending' = {}
        /\ future' = IF future = "pending" THEN "lost" ELSE future
    BY <1>2 DEF Closes, Disconnect, Reconnect, CloseConnection, history, studio
  <2> QED
    BY <2>1 DEF OrderInv, Answered
<1>3. CASE Rests
  BY <1>3 DEF Rests, OrderInv
<1> QED
  BY <1>1, <1>2, <1>3, StepKinds, OrderSends, OrderReply

LEMMA OrderInit == Init => OrderInv
BY DEF Init, OrderInv, Answered

(* What the session waits for is the last request it sent, and once that   *)
(* is answered Studio only repeats the answer.                             *)
THEOREM SessionOrder == Spec => []OrderInv
<1>1. FenceInv /\ OrderInv /\ [Next]_vars => OrderInv'
  BY OrderStep
<1> QED
  BY <1>1, OrderInit, SessionInvariant, PTL DEF Spec

(***************************************************************************)
(* Answers: what each outcome of a wait leaves recorded                    *)
(***************************************************************************)

(* All that is owed was admitted under one connection.                     *)
SameAdmission ==
  /\ \A o \in Op : admitted[o] <= generation
  /\ \A u, v \in Owed : admitted[u.op] = admitted[v.op]

(* A wait that lost its connection cannot be answered any more, and its    *)
(* mutation is recorded as uncertain.                                      *)
LostIsRecorded ==
  future = "lost" =>
    /\ ~Online(inflight.op)
    /\ inflight.phase \in MutationPhases => inflight \in uncertainRequests

(* While a prepare is owed its apply has not been sent.                    *)
PrepareIsUnapplied ==
  \A u \in Owed : u.phase = "prepare" => Apply(u.op) \notin dispatched

(* An apply is awaited alone; one that creates scripts holds the prepare   *)
(* receipt and no grant stands, so its own grant will be possible.         *)
ApplyIsAlone ==
  \A u \in pending :
    u.phase = "apply" =>
      /\ uncertainRequests = {} /\ multiEditRecovery = NoRecovery
      /\ u.op \in Creates => preparedReceipt = u.op /\ multiEditCleanup = NoCleanup

AnsweredApplyIsProven ==
  inflight.phase = "apply" /\ future = "result" => inflight.op \in proven

(* An uncertain apply that creates scripts can still be granted.           *)
UncertainApplyIsGrantable ==
  \A o \in Creates :
    Apply(o) \in uncertainRequests =>
      o \in proven \/ (preparedReceipt = o /\ multiEditCleanup = NoCleanup)

(* A mutation answered without proof is recorded as uncertain.             *)
FailedAnswerIsRecorded ==
  future \in {"remote_error", "result_requires_recovery"} /\ inflight.phase \in MutationPhases
    => inflight \in uncertainRequests

(* Once a recovery was sent, it controls the outcome of the apply it is    *)
(* for as long as that apply is uncertain.                                 *)
RecoveryTakesOver ==
  \A q \in dispatched :
    q.phase = "recover" =>
      /\ inflight # Apply(TxnOf(q))
      /\ Apply(TxnOf(q)) \in uncertainRequests =>
           /\ multiEditRecovery.txn = TxnOf(q)
           /\ multiEditRecovery.generation = admitted[TxnOf(q)]
           /\ multiEditRecovery.dispatched \in Request
           /\ multiEditRecovery.dispatched.phase = "recover"

AnswerInv ==
  /\ SameAdmission
  /\ LostIsRecorded
  /\ PrepareIsUnapplied
  /\ ApplyIsAlone
  /\ AnsweredApplyIsProven
  /\ UncertainApplyIsGrantable
  /\ FailedAnswerIsRecorded
  /\ RecoveryTakesOver

(* The reasons for what a response does.                                   *)
LEMMA EffectReasons ==
  ASSUME NEW r \in Request, NEW y \in Replies(r), NEW late \in BOOLEAN
  PROVE  LET e == Effect(r, y, late)
             unsafe == y \in {"invalid", "error", "recovery_required"}
         IN  \/ /\ Ignores(e, r, y)
                /\ \/ r.phase \notin MutationPhases
                   \/ y \in {"invalid", "error"} /\ late
                   \/ /\ y \notin {"invalid", "error"}
                      /\ RecoveryControls(r) \/ CleanupControls(r)
             \/ KeepsCleanup(e, r) /\ unsafe
             \/ Fences(e, r) /\ (unsafe \/ (y = "applied" /\ r.op \in Creates /\ ~GrantPossible))
             \/ SettlesCleanup(e, r) /\ y \in {"cleaned", "refused"} /\ ~CleanupControls(r)
             \/ /\ SettlesEdit(e, r) /\ y \in {"applied", "restored", "recovered"}
                /\ ~RecoveryControls(r)
                /\ y = "recovered" <=> r.phase = "recover"
                /\ e.prep = (IF preparedReceipt = TxnOf(r) THEN None ELSE preparedReceipt)
                /\ e.cl = multiEditCleanup \/ (y = "applied" /\ GrantPossible)
<1> DEFINE e == Effect(r, y, late)
           unsafe == y \in {"invalid", "error", "recovery_required"}
           grants == y = "applied" /\ r.op \in Creates
           skip == \/ r.phase \notin MutationPhases
                   \/ y \in {"invalid", "error"} /\ late
                   \/ /\ y \notin {"invalid", "error"}
                      /\ RecoveryControls(r) \/ CleanupControls(r)
<1>0. "clear" \in Reasons
  BY DEF Reasons
<1>1. CASE skip
  <2>1. r.phase \notin {"apply", "recover"} \/ y \in {"invalid", "error"} \/ RecoveryControls(r)
    BY <1>1 DEF MutationPhases, CleanupControls
  <2>2. Ignores(e, r, y)
    BY <1>1, <2>1 DEF Effect, Ignores
  <2> HIDE DEF e
  <2> QED
    BY <1>1, <2>2 DEF e
<1>2. CASE ~skip /\ unsafe /\ r.phase = "cleanup"
  <2>1. KeepsCleanup(e, r)
    BY <1>2 DEF Effect, KeepsCleanup
  <2> HIDE DEF e
  <2> QED
    BY <1>2, <2>1 DEF e
<1>3. CASE ~skip /\ ~(unsafe /\ r.phase = "cleanup") /\ (unsafe \/ (grants /\ ~GrantPossible))
  <2>1. EditRequest(r)
    BY <1>3, RepliesType DEF MutationPhases, EditRequest
  <2>2. Fences(e, r)
    BY <1>3, <2>1 DEF Effect, Fences
  <2> HIDE DEF e
  <2> QED
    BY <1>3, <2>2 DEF e
<1>4. CASE ~skip /\ ~unsafe /\ ~(grants /\ ~GrantPossible) /\ r.phase = "cleanup"
  <2>1. SettlesCleanup(e, r)
    BY <1>0, <1>4, RefreshedType DEF Effect, SettlesCleanup
  <2>2. y \in {"cleaned", "refused"}
    BY <1>4 DEF Replies, SafeReplies
  <2> HIDE DEF e
  <2> QED
    BY <1>4, <2>1, <2>2 DEF e
<1>5. CASE ~skip /\ ~unsafe /\ ~(grants /\ ~GrantPossible) /\ r.phase # "cleanup"
  <2>1. EditRequest(r)
    BY <1>5 DEF MutationPhases, EditRequest
  <2>2. SettlesEdit(e, r)
    BY <1>0, <1>5, <2>1, RefreshedType DEF Effect, SettlesEdit
  <2>3. /\ e.prep = (IF preparedReceipt = TxnOf(r) THEN None ELSE preparedReceipt)
        /\ e.cl = multiEditCleanup \/ (y = "applied" /\ GrantPossible)
    BY <1>5 DEF Effect
  <2>4. y \in {"applied", "restored", "recovered"} /\ (y = "recovered" <=> r.phase = "recover")
    BY <1>5, <2>1 DEF Replies, SafeReplies, EditRequest
  <2> HIDE DEF e
  <2> QED
    BY <1>5, <2>2, <2>3, <2>4 DEF e
<1> QED
  BY <1>1, <1>2, <1>3, <1>4, <1>5

LEMMA AnswerSends ==
  ASSUME FenceInv, OrderInv, AnswerInv, NEW r \in Request, NEW prep, Sends(r, prep)
  PROVE  AnswerInv'
<1> USE DEF AnswerInv
<1>1. /\ inflight' = r /\ future' = "pending" /\ pending' = {r} /\ r # NoRequest /\ r.op \in Op
      /\ uncertainRequests' = uncertainRequests /\ proven' = proven /\ preparedReceipt' = prep
      /\ UNCHANGED <<generation, connected, target, admitted>>
  BY RealRequest DEF Sends, Dispatch, FenceInv, RecordsWereDispatched, conn, unproven
<1>2. dispatched' = dispatched \cup {r} /\ Owed' = uncertainRequests \cup {r}
  BY <1>1, OutboxGrows DEF Sends, Dispatch, FenceInv, TypeOK, dispatched, Owed
<1>3. /\ uncertainRequests \subseteq Owed /\ uncertainRequests = uncertainPending
      /\ uncertainRequests \subseteq dispatched /\ dispatched \subseteq Request
  BY OwedRequests DEF FenceInv, RecordsWereDispatched
<1>4. /\ uncertainRequests = {} \/ RecoveryAllowed(r) \/ CleanupAllowed(r, Expired(multiEditCleanup))
      /\ multiEditRecovery = NoRecovery \/ RecoveryAllowed(r)
      /\ r.phase = "recover" => RecoveryAllowed(r)
  BY DEF Sends, Admissible
<1>5. r.phase = "apply" => uncertainRequests = {} /\ multiEditRecovery = NoRecovery
  BY <1>4 DEF RecoveryAllowed, CleanupAllowed
<1>6. SameAdmission'
  <2>1. ASSUME NEW u \in uncertainRequests
        PROVE  admitted[u.op] = admitted[r.op]
    BY <1>3, <1>4 DEF RecoveryAllowed, CleanupAllowed
  <2>2. ASSUME NEW u \in Owed', NEW v \in Owed'
        PROVE  admitted'[u.op] = admitted'[v.op]
    BY <1>1, <1>2, <2>1
  <2> QED
    BY <1>1, <2>2 DEF SameAdmission
<1>7. LostIsRecorded' /\ AnsweredApplyIsProven' /\ FailedAnswerIsRecorded'
  BY <1>1 DEF LostIsRecorded, AnsweredApplyIsProven, FailedAnswerIsRecorded
<1>8. PrepareIsUnapplied'
  <2> SUFFICES ASSUME NEW u \in Owed', u.phase = "prepare"
               PROVE  Apply(u.op) \notin dispatched'
    BY DEF PrepareIsUnapplied, Apply, Req
  <2>1. CASE u = r
    <3>1. stage[r.op] = "queued"
      BY <2>1 DEF Sends
    <3>2. Apply(r.op) \notin dispatched
      BY <3>1 DEF FenceInv, RequestsHaveOwners, Apply, Req
    <3> QED
      BY <1>2, <2>1, <3>2 DEF Apply, Req
  <2>2. CASE u \in uncertainRequests
    <3>1. Apply(u.op) \notin dispatched
      BY <1>3, <2>2 DEF PrepareIsUnapplied
    <3>2. Apply(u.op) # r
      BY <1>5, <2>2 DEF Apply, Req
    <3> QED
      BY <1>2, <3>1, <3>2
  <2> QED
    BY <1>2, <2>1, <2>2
<1>9. ApplyIsAlone'
  <2> SUFFICES ASSUME r.phase = "apply"
               PROVE  /\ uncertainRequests' = {} /\ multiEditRecovery' = NoRecovery
                      /\ r.op \in Creates => preparedReceipt' = r.op /\ multiEditCleanup' = NoCleanup
    BY <1>1 DEF ApplyIsAlone
  <2>1. multiEditRecovery' = multiEditRecovery /\ multiEditCleanup' = Expired(multiEditCleanup)
    BY DEF Sends, Dispatch
  <2>2. r.op \in Txn /\ prep = r.op /\ Kind[r.op] = "multi"
    BY DEF Sends, Txn
  <2>3. r.op \in Creates => Expired(multiEditCleanup) = NoCleanup
    BY <2>2 DEF Sends, Admissible, CleanupAllowed, CompatibleWithCleanup, RecoveryAllowed,
                EditOnlyPrepared
  <2> QED
    BY <1>1, <1>5, <2>1, <2>2, <2>3
<1>10. UncertainApplyIsGrantable'
  <2> SUFFICES ASSUME NEW o \in Creates, Apply(o) \in uncertainRequests, o \notin proven
               PROVE  prep = o /\ multiEditCleanup' = NoCleanup
    BY <1>1 DEF UncertainApplyIsGrantable, Apply, Req
  <2>1. preparedReceipt = o /\ multiEditCleanup = NoCleanup
    BY DEF UncertainApplyIsGrantable
  <2>2. r.phase # "apply"
    BY <1>5
  <2>3. Expired(multiEditCleanup) = NoCleanup
    BY <2>1, NoCleanupFields DEF FenceInv
  <2>4. r.phase # "cleanup"
    BY <2>3 DEF Sends, Admissible, CleanupAllowed
  <2> QED
    BY <2>1, <2>2, <2>3, <2>4 DEF Sends, Dispatch
<1>11. RecoveryTakesOver'
  <2> SUFFICES ASSUME NEW q \in dispatched', q.phase = "recover"
               PROVE  /\ r # Apply(TxnOf(q))
                      /\ Apply(TxnOf(q)) \in uncertainRequests =>
                           /\ multiEditRecovery'.txn = TxnOf(q)
                           /\ multiEditRecovery'.generation = admitted[TxnOf(q)]
                           /\ multiEditRecovery'.dispatched \in Request
                           /\ multiEditRecovery'.dispatched.phase = "recover"
    BY <1>1 DEF RecoveryTakesOver, TxnOf, Apply, Req
  <2>1. CASE q = r
    <3>1. r # Apply(TxnOf(q))
      BY <2>1 DEF Apply, Req
    <3>2. RecoveryAllowed(r) /\ multiEditRecovery' = [multiEditRecovery EXCEPT !.dispatched = r]
      BY <1>4, <2>1 DEF Sends, Dispatch
    <3>3. /\ multiEditRecovery'.txn = multiEditRecovery.txn
          /\ multiEditRecovery'.generation = multiEditRecovery.generation
          /\ multiEditRecovery'.dispatched = r
      BY <3>2 DEF FenceInv, TypeOK, Recoveries
    <3>4. Apply(TxnOf(q)) \in uncertainRequests => admitted[TxnOf(q)] = multiEditRecovery.generation
      BY <1>3, <3>2 DEF RecoveryAllowed, Apply, Req
    <3> QED
      BY <2>1, <3>1, <3>2, <3>3, <3>4 DEF RecoveryAllowed
  <2>2. CASE q \in dispatched
    <3>1. Apply(TxnOf(q)) \in dispatched
      BY <2>2 DEF FenceInv, RequestsHaveOwners
    <3>2. r # Apply(TxnOf(q))
      BY <3>1 DEF Sends
    <3>3. ASSUME Apply(TxnOf(q)) \in uncertainRequests
          PROVE  /\ multiEditRecovery'.txn = TxnOf(q)
                 /\ multiEditRecovery'.generation = admitted[TxnOf(q)]
                 /\ multiEditRecovery'.dispatched \in Request
                 /\ multiEditRecovery'.dispatched.phase = "recover"
      <4>1. /\ multiEditRecovery.txn = TxnOf(q)
            /\ multiEditRecovery.generation = admitted[TxnOf(q)]
            /\ multiEditRecovery.dispatched \in Request
            /\ multiEditRecovery.dispatched.phase = "recover"
        BY <2>2, <3>3 DEF RecoveryTakesOver
      <4>2. CASE r.phase = "recover"
        <5>1. multiEditRecovery' = [multiEditRecovery EXCEPT !.dispatched = r]
          BY <4>2 DEF Sends, Dispatch
        <5> QED
          BY <4>1, <4>2, <5>1 DEF FenceInv, TypeOK, Recoveries
      <4>3. CASE r.phase # "recover"
        BY <4>1, <4>3 DEF Sends, Dispatch
      <4> QED
        BY <4>2, <4>3
    <3> QED
      BY <3>2, <3>3
  <2> QED
    BY <1>2, <2>1, <2>2
<1> QED
  BY <1>6, <1>7, <1>8, <1>9, <1>10, <1>11

(* No step but a dispatch adds to what is owed.                            *)
LEMMA OthersSubside ==
  ASSUME FenceInv, GrantInv, [Next]_vars,
         \/ \E o \in Op : Leaves(o)
         \/ \E r \in dispatched, y \in AllReplies : ReceiveResponse(r, y) \/ ReceiveLate(r, y)
         \/ Closes \/ Rests
  PROVE  Subsides /\ dispatched' = dispatched
<1>1. ASSUME NEW o \in Op, Leaves(o)
      PROVE  Subsides /\ outbox' = outbox
  BY <1>1, WaiterSubsides
     DEF Leaves, ApplyNotDispatched, Return, RaiseRemoteError, RaiseOffline, Timeout,
         CancelWait, Raise, history, studio
<1>2. ASSUME NEW r \in dispatched, NEW y \in AllReplies, ReceiveResponse(r, y) \/ ReceiveLate(r, y)
      PROVE  Subsides /\ outbox' = outbox
  BY <1>2, ReplySubsides DEF ReceiveResponse, ReceiveLate, Serves
<1>3. CASE Closes
  <2>1. Subsides
    BY <1>3, ConnectionSubsides DEF Closes
  <2>2. outbox' = outbox
    BY <1>3 DEF Closes, Disconnect, Reconnect, CloseConnection, history, studio
  <2> QED
    BY <2>1, <2>2 DEF dispatched
<1>4. CASE Rests
  <2>1. UNCHANGED <<inflight, pending, uncertainRequests, outbox>>
    BY <1>4 DEF Rests
  <2> QED
    BY <2>1 DEF Subsides, Owed, dispatched
<1> QED
  BY <1>1, <1>2, <1>3, <1>4 DEF dispatched

LEMMA PrepareStays ==
  ASSUME PrepareIsUnapplied, Subsides, dispatched' = dispatched
  PROVE  PrepareIsUnapplied'
BY DEF PrepareIsUnapplied, Subsides, Apply, Req

LEMMA AnswerRests ==
  ASSUME FenceInv, GrantInv, OrderInv, AnswerInv, [Next]_vars, Rests
  PROVE  AnswerInv'
<1> USE DEF AnswerInv
<1>1. /\ UNCHANGED <<inflight, future, pending, uncertainRequests, multiEditRecovery,
                     preparedReceipt, proven, generation, connected>>
      /\ multiEditCleanup = NoCleanup => multiEditCleanup' = NoCleanup
  BY NoCleanupFields DEF Rests, FenceInv
<1>2. Subsides /\ dispatched' = dispatched /\ Owed \subseteq dispatched
  BY OthersSubside, OwedRequests
<1>3. \A u \in dispatched : /\ TxnOf(u)' = TxnOf(u) /\ admitted'[u.op] = admitted[u.op]
                            /\ target'[u.op] = target[u.op]
  BY OwnersKept DEF TxnOf
<1>4. SameAdmission'
  <2>1. generation \in Nat /\ generation <= generation
    BY DEF FenceInv, TypeOK
  <2>2. \A o \in Op : admitted'[o] = admitted[o] \/ admitted'[o] = generation
    BY DEF Rests, Submit, FenceInv, TypeOK
  <2>3. \A o \in Op : admitted'[o] <= generation
    BY <2>1, <2>2 DEF SameAdmission
  <2> QED
    BY <1>1, <1>2, <1>3, <2>3 DEF SameAdmission, Subsides
<1>5. LostIsRecorded'
  <2>1. inflight # NoRequest => Online(inflight.op)' = Online(inflight.op)
    BY <1>1, <1>2, <1>3, OwedRequests DEF Online
  <2> QED
    BY <1>1, <2>1 DEF LostIsRecorded, OrderInv, Online
<1>6. PrepareIsUnapplied'
  BY <1>2, PrepareStays
<1>7. ApplyIsAlone' /\ AnsweredApplyIsProven' /\ FailedAnswerIsRecorded'
  BY <1>1 DEF ApplyIsAlone, AnsweredApplyIsProven, FailedAnswerIsRecorded
<1>8. UncertainApplyIsGrantable'
  BY <1>1 DEF UncertainApplyIsGrantable, Apply, Req
<1>9. RecoveryTakesOver'
  <2> SUFFICES ASSUME NEW q \in dispatched, q.phase = "recover"
               PROVE  /\ inflight # Apply(TxnOf(q))
                      /\ Apply(TxnOf(q)) \in uncertainRequests =>
                           /\ multiEditRecovery.txn = TxnOf(q)
                           /\ multiEditRecovery.generation = admitted'[TxnOf(q)]
                           /\ multiEditRecovery.dispatched \in Request
                           /\ multiEditRecovery.dispatched.phase = "recover"
    BY <1>1, <1>2, <1>3 DEF RecoveryTakesOver, TxnOf, Apply, Req
  <2>1. Apply(TxnOf(q)) \in uncertainRequests => admitted'[TxnOf(q)] = admitted[TxnOf(q)]
    BY <1>2, <1>3, OwedRequests DEF Apply, Req
  <2> QED
    BY <2>1 DEF RecoveryTakesOver
<1> QED
  BY <1>4, <1>5, <1>6, <1>7, <1>8, <1>9

(* What a waiter that leaves does to the records.                          *)
LEMMA LeavesFacts ==
  ASSUME FenceInv, NEW o \in Op, Leaves(o)
  PROVE  /\ inflight # NoRequest /\ inflight \in Owed /\ inflight.op = o
         /\ inflight' = NoRequest /\ future' = "none" /\ pending' = {}
         /\ uncertainRequests \subseteq uncertainRequests'
         /\ uncertainRequests' \subseteq uncertainRequests \cup {inflight}
         /\ UNCHANGED <<proven, outbox, generation, connected, target, admitted>>
         /\ \/ multiEditCleanup' \in {multiEditCleanup, Expired(multiEditCleanup)}
            \/ /\ inflight.phase = "cleanup"
               /\ multiEditCleanup' = CleanupRequired(multiEditCleanup, inflight)
         /\ preparedReceipt' = preparedReceipt \/ inflight.phase = "prepare"
         /\ \/ multiEditRecovery' = multiEditRecovery
            \/ inflight.phase = "apply" /\ multiEditRecovery' = RecoveryFor(o, admitted[o])
<1>1. inflight # NoRequest /\ inflight \in Owed /\ inflight.op = o
  BY RealRequest, SessionAssumption DEF Leaves, Owed
<1>2. inflight' = NoRequest /\ future' = "none" /\ pending' = {}
  BY DEF Leaves, Leave, FenceInv, RecordsWereDispatched
<1>3. CASE ApplyNotDispatched(o)
  BY <1>1, <1>2, <1>3 DEF ApplyNotDispatched, conn, unproven, history, studio, Req
<1>4. CASE Return(o)
  BY <1>1, <1>2, <1>4 DEF Return, conn, unproven, history, studio
<1>5. CASE RaiseRemoteError(o) \/ RaiseOffline(o)
  BY <1>1, <1>2, <1>5 DEF RaiseRemoteError, RaiseOffline, Raise, conn, history, studio
<1>6. CASE Timeout(o)
  BY <1>1, <1>2, <1>6 DEF Timeout, Raise, conn, history, studio
<1>7. CASE CancelWait(o)
  BY <1>1, <1>2, <1>7 DEF CancelWait, Raise, conn, history, studio
<1> QED
  BY <1>3, <1>4, <1>5, <1>6, <1>7 DEF Leaves

(* An awaited apply that creates scripts is proven or still grantable.     *)
LEMMA AwaitedApply ==
  ASSUME FenceInv, OrderInv, AnswerInv, NEW o \in Creates, inflight = Apply(o)
  PROVE  o \in proven \/ (preparedReceipt = o /\ multiEditCleanup = NoCleanup)
<1>1. inflight.phase = "apply" /\ inflight.op = o /\ inflight # NoRequest
  BY DEF Apply, Req, NoRequest
<1>2. future \in Futures /\ future # "none"
  BY <1>1 DEF FenceInv, TypeOK, OrderInv
<1>3. CASE future = "pending"
  BY <1>1, <1>3 DEF OrderInv, AnswerInv, ApplyIsAlone
<1>4. CASE future = "result"
  BY <1>1, <1>4 DEF AnswerInv, AnsweredApplyIsProven
<1>5. CASE future \in {"remote_error", "result_requires_recovery", "lost"}
  <2>1. inflight \in uncertainRequests
    BY <1>1, <1>5 DEF AnswerInv, FailedAnswerIsRecorded, LostIsRecorded, MutationPhases
  <2> QED
    BY <2>1 DEF AnswerInv, UncertainApplyIsGrantable
<1> QED
  BY <1>2, <1>3, <1>4, <1>5 DEF Futures

LEMMA AnswerLeaves ==
  ASSUME FenceInv, GrantInv, OrderInv, AnswerInv, [Next]_vars, NEW w \in Op, Leaves(w)
  PROVE  AnswerInv'
<1> USE DEF AnswerInv
<1>1. /\ inflight # NoRequest /\ inflight \in Owed /\ inflight.op = w
      /\ inflight' = NoRequest /\ future' = "none" /\ pending' = {}
      /\ uncertainRequests' \subseteq uncertainRequests \cup {inflight}
      /\ UNCHANGED <<proven, outbox, generation, connected, target, admitted>>
  BY LeavesFacts
<1>2. Subsides /\ dispatched' = dispatched
  BY OthersSubside
<1>3. SameAdmission'
  BY <1>1, <1>2 DEF SameAdmission, Subsides
<1>4. LostIsRecorded' /\ AnsweredApplyIsProven' /\ FailedAnswerIsRecorded' /\ ApplyIsAlone'
  BY <1>1 DEF LostIsRecorded, AnsweredApplyIsProven, FailedAnswerIsRecorded, ApplyIsAlone
<1>5. PrepareIsUnapplied'
  BY <1>2, PrepareStays
<1>6. UncertainApplyIsGrantable'
  <2> SUFFICES ASSUME NEW o \in Creates, Apply(o) \in uncertainRequests', o \notin proven
               PROVE  preparedReceipt' = o /\ multiEditCleanup' = NoCleanup
    BY <1>1 DEF UncertainApplyIsGrantable, Apply, Req
  <2>1. preparedReceipt = o /\ multiEditCleanup = NoCleanup
    BY <1>1, AwaitedApply DEF UncertainApplyIsGrantable
  <2>2. Apply(o) \in Owed /\ Apply(o).phase = "apply"
    BY <1>1, OwedRequests DEF Apply, Req
  <2>3. inflight.phase # "prepare"
    BY <1>1, <2>2 DEF FenceInv, OneSubject, EditRequest
  <2>4. inflight \in Request /\ TypeOK
    BY <1>1, OwedRequests DEF FenceInv
  <2>5. CleanupRequired(multiEditCleanup, inflight) = NoCleanup
    BY <2>1 DEF CleanupRequired
  <2> QED
    BY <2>1, <2>3, <2>4, <2>5, LeavesFacts, NoCleanupFields
<1>7. RecoveryTakesOver'
  <2> SUFFICES ASSUME NEW q \in dispatched, q.phase = "recover"
               PROVE  /\ inflight' # Apply(TxnOf(q))
                      /\ Apply(TxnOf(q)) \in uncertainRequests' =>
                           /\ multiEditRecovery'.txn = TxnOf(q)
                           /\ multiEditRecovery'.generation = admitted[TxnOf(q)]
                           /\ multiEditRecovery'.dispatched \in Request
                           /\ multiEditRecovery'.dispatched.phase = "recover"
    BY <1>1, <1>2 DEF RecoveryTakesOver, TxnOf, Apply, Req
  <2> DEFINE a == Apply(TxnOf(q))
  <2>1. inflight' # a
    BY <1>1 DEF Apply, Req, NoRequest
  <2>2. ASSUME a \in uncertainRequests'
        PROVE  a \in uncertainRequests /\ multiEditRecovery' = multiEditRecovery
    <3>1. a \in uncertainRequests /\ inflight # a /\ a.phase = "apply"
      BY <1>1, <2>2 DEF RecoveryTakesOver, Apply, Req
    <3>2. inflight.phase # "apply"
      <4> SUFFICES ASSUME inflight.phase = "apply"
                   PROVE  FALSE
        OBVIOUS
      <4>1. a \in Owed /\ a \in dispatched /\ inflight \in dispatched
        BY <1>1, <3>1, OwedRequests
      <4>2. TxnOf(a) = TxnOf(inflight)
        BY <1>1, <3>1, <4>1 DEF FenceInv, OneSubject, EditRequest
      <4>3. /\ TxnOf(a) = a.op /\ a = Apply(a.op)
            /\ TxnOf(inflight) = inflight.op /\ inflight = Apply(inflight.op)
        BY <3>1, <4>1, DispatchedRequests
      <4> QED
        BY <3>1, <4>2, <4>3
    <3> QED
      BY <3>1, <3>2, LeavesFacts
  <2> QED
    BY <2>1, <2>2 DEF RecoveryTakesOver
<1> QED
  BY <1>3, <1>4, <1>5, <1>6, <1>7

(* What the end of a connection does to the records: only requests that    *)
(* are no mutations can be settled by naming them.                         *)
LEMMA ClosesFacts ==
  ASSUME FenceInv, Closes
  PROVE  /\ inflight' = inflight /\ pending' = {}
         /\ future' = IF future = "pending" THEN "lost" ELSE future
         /\ UNCHANGED <<target, admitted, multiEditRecovery, preparedReceipt, proven, outbox>>
         /\ \/ connected' = FALSE /\ generation' = generation
            \/ generation' = generation + 1
         /\ uncertainRequests' \subseteq uncertainRequests \cup pending
         /\ \A u \in uncertainRequests \cup pending :
              u.phase \in MutationPhases => u \in uncertainRequests'
<1>1. CASE Disconnect
  BY <1>1 DEF Disconnect, CloseConnection, history, studio
<1>2. CASE \E settled \in SUBSET dispatched : Reconnect(settled)
  BY <1>2 DEF Reconnect, CloseConnection, Settleable, history, studio
<1> QED
  BY <1>1, <1>2 DEF Closes

LEMMA AnswerCloses ==
  ASSUME FenceInv, GrantInv, OrderInv, AnswerInv, [Next]_vars, Closes
  PROVE  AnswerInv'
<1> USE DEF AnswerInv
<1>1. /\ inflight' = inflight /\ pending' = {}
      /\ future' = IF future = "pending" THEN "lost" ELSE future
      /\ UNCHANGED <<target, admitted, multiEditRecovery, preparedReceipt, proven, outbox>>
      /\ \/ connected' = FALSE /\ generation' = generation
         \/ generation' = generation + 1
      /\ uncertainRequests' \subseteq uncertainRequests \cup pending
      /\ \A u \in uncertainRequests \cup pending :
           u.phase \in MutationPhases => u \in uncertainRequests'
  BY ClosesFacts
<1>2. Subsides /\ dispatched' = dispatched
  BY OthersSubside
<1>3. multiEditCleanup = NoCleanup => multiEditCleanup' = NoCleanup
  BY ConnectionSubsides, NoCleanupFields DEF Closes, GrantStays
<1>4. generation \in Nat /\ \A o \in Op : admitted[o] \in Nat
  BY DEF FenceInv, TypeOK, Generations
<1>5. SameAdmission'
  <2>1. \A o \in Op : admitted[o] <= generation'
    BY <1>1, <1>4 DEF SameAdmission
  <2> QED
    BY <1>1, <1>2, <2>1 DEF SameAdmission, Subsides
<1>6. LostIsRecorded'
  <2> SUFFICES ASSUME future' = "lost"
               PROVE  /\ ~Online(inflight.op)'
                      /\ inflight.phase \in MutationPhases => inflight \in uncertainRequests'
    BY <1>1 DEF LostIsRecorded, Online
  <2>1. inflight # NoRequest
    BY <1>1 DEF OrderInv
  <2>2. inflight.op \in Op
    BY <2>1, OwedRequests, RealRequest
  <2>3. ~Online(inflight.op)'
    BY <1>1, <1>4, <2>2 DEF Online, SameAdmission
  <2>4. inflight.phase \in MutationPhases => inflight \in uncertainRequests \cup pending
    BY <1>1 DEF OrderInv, LostIsRecorded
  <2> QED
    BY <1>1, <2>3, <2>4
<1>7. PrepareIsUnapplied'
  BY <1>2, PrepareStays
<1>8. ApplyIsAlone'
  BY <1>1 DEF ApplyIsAlone
<1>9. AnsweredApplyIsProven'
  BY <1>1 DEF AnsweredApplyIsProven
<1>10. FailedAnswerIsRecorded'
  BY <1>1 DEF FailedAnswerIsRecorded
<1>11. UncertainApplyIsGrantable'
  <2> SUFFICES ASSUME NEW o \in Creates, Apply(o) \in uncertainRequests', o \notin proven
               PROVE  preparedReceipt = o /\ multiEditCleanup = NoCleanup
    BY <1>1, <1>3 DEF UncertainApplyIsGrantable, Apply, Req
  <2>1. CASE Apply(o) \in uncertainRequests
    BY <2>1 DEF UncertainApplyIsGrantable
  <2>2. CASE Apply(o) \in pending
    BY <2>2 DEF ApplyIsAlone, Apply, Req
  <2> QED
    BY <1>1, <2>1, <2>2
<1>12. RecoveryTakesOver'
  <2> SUFFICES ASSUME NEW q \in dispatched, q.phase = "recover"
               PROVE  /\ inflight # Apply(TxnOf(q))
                      /\ Apply(TxnOf(q)) \in uncertainRequests' => Apply(TxnOf(q)) \in uncertainRequests
    BY <1>1, <1>2 DEF RecoveryTakesOver, TxnOf, Apply, Req
  <2> QED
    BY <1>1 DEF RecoveryTakesOver, OrderInv
<1> QED
  BY <1>5, <1>6, <1>7, <1>8, <1>9, <1>10, <1>11, <1>12

(* An awaited request is controlled by no later one.                       *)
LEMMA AwaitedUncontrolled ==
  ASSUME GrantInv, AnswerInv, NEW r \in pending
  PROVE  ~RecoveryControls(r) /\ ~CleanupControls(r)
BY DEF GrantInv, CleanupHasGrant, AnswerInv, ApplyIsAlone, RecoveryControls, CleanupControls,
       NoRecovery

(* A response was received: late says that its request was no longer       *)
(* pending, and gone holds that request when it is forgotten.              *)
Received(r, y, late, gone) ==
  /\ ~late => /\ ReceiveResponse(r, y) /\ r \in pending /\ r = inflight
              /\ r \notin uncertainRequests /\ gone = {}
  /\ late => /\ ReceiveLate(r, y) /\ r \in uncertainRequests /\ r \notin pending
             /\ future' = future /\ pending' = pending /\ y # "invalid"
             /\ Serves(r, y)
             /\ y = "recovery_required" \/ (y = "error" /\ r.phase \in MutationPhases)
                <=> gone = {}
  /\ uncertainRequests' = Effect(r, y, late).unc \ gone
  /\ multiEditRecovery' = Effect(r, y, late).rec
  /\ preparedReceipt' = Effect(r, y, late).prep
  /\ multiEditCleanup' = Effect(r, y, late).cl
  /\ proven' = proven \cup Effect(r, y, late).proves
  /\ job' = JobsAfterReply(r, y)
  /\ UNCHANGED <<inflight, generation, connected, stage, target, admitted>>

LEMMA ReplyFacts ==
  ASSUME FenceInv, NEW r \in dispatched, NEW y, ReceiveResponse(r, y) \/ ReceiveLate(r, y)
  PROVE  \E late \in BOOLEAN, gone \in SUBSET {r} : Received(r, y, late, gone)
<1>1. CASE ReceiveResponse(r, y)
  <2>1. r = inflight /\ r \notin uncertainRequests
    BY <1>1 DEF ReceiveResponse, FenceInv, RecordsWereDispatched
  <2>2. uncertainRequests' = Effect(r, y, FALSE).unc \ {}
    BY <1>1 DEF ReceiveResponse, ApplyEffect
  <2> WITNESS FALSE \in BOOLEAN, {} \in SUBSET {r}
  <2> QED
    BY <1>1, <2>1, <2>2 DEF ReceiveResponse, ApplyEffect, ops, Received
<1>2. CASE ReceiveLate(r, y)
  <2> DEFINE kept == y = "recovery_required" \/ (y = "error" /\ r.phase \in MutationPhases)
  <2> WITNESS TRUE \in BOOLEAN, (IF kept THEN {} ELSE {r}) \in SUBSET {r}
  <2> QED
    BY <1>2 DEF ReceiveLate, ApplyEffect, conn, ops, waiter, Received
<1> QED
  BY <1>1, <1>2

LEMMA AnswerReply ==
  ASSUME FenceInv, GrantInv, OrderInv, AnswerInv, [Next]_vars,
         NEW r \in dispatched, NEW y \in AllReplies, ReceiveResponse(r, y) \/ ReceiveLate(r, y)
  PROVE  AnswerInv'
<1> USE DEF AnswerInv
<1>1. PICK late \in BOOLEAN, gone \in SUBSET {r} :
           /\ ~late => /\ ReceiveResponse(r, y) /\ r \in pending /\ r = inflight
                       /\ r \notin uncertainRequests /\ gone = {}
           /\ late => /\ ReceiveLate(r, y) /\ r \in uncertainRequests /\ r \notin pending
                      /\ future' = future /\ pending' = pending /\ y # "invalid"
                      /\ Serves(r, y)
                      /\ y = "recovery_required" \/ (y = "error" /\ r.phase \in MutationPhases)
                         <=> gone = {}
           /\ uncertainRequests' = Effect(r, y, late).unc \ gone
           /\ multiEditRecovery' = Effect(r, y, late).rec
           /\ preparedReceipt' = Effect(r, y, late).prep
           /\ multiEditCleanup' = Effect(r, y, late).cl
           /\ proven' = proven \cup Effect(r, y, late).proves
           /\ UNCHANGED <<inflight, generation, connected, target, admitted>>
  BY ReplyFacts DEF Received
<1> DEFINE e == Effect(r, y, late)
<1>2. /\ r \in Owed /\ r \in Request /\ y \in Replies(r) /\ Accepts(r)
      /\ Subsides /\ dispatched' = dispatched
      /\ ReceiveResponse(r, y) => pending' = {}
  BY ReplySubsides, OthersSubside
<1>3. /\ uncertainRequests' = e.unc \ gone /\ multiEditRecovery' = e.rec
      /\ preparedReceipt' = e.prep /\ multiEditCleanup' = e.cl
      /\ proven' = proven \cup e.proves
  BY <1>1
<1>4. \/ /\ Ignores(e, r, y)
         /\ \/ r.phase \notin MutationPhases
            \/ y \in {"invalid", "error"} /\ late
            \/ /\ y \notin {"invalid", "error"}
               /\ RecoveryControls(r) \/ CleanupControls(r)
      \/ KeepsCleanup(e, r) /\ y \in {"invalid", "error", "recovery_required"}
      \/ /\ Fences(e, r)
         /\ \/ y \in {"invalid", "error", "recovery_required"}
            \/ y = "applied" /\ r.op \in Creates /\ ~GrantPossible
      \/ SettlesCleanup(e, r) /\ y \in {"cleaned", "refused"}
      \/ SettlesEdit(e, r) /\ y \in {"applied", "restored", "recovered"}
  BY <1>2, EffectReasons
<1> HIDE DEF e
<1>5. e.unc \subseteq uncertainRequests \cup {r}
  BY <1>4 DEF Ignores, KeepsCleanup, Fences, SettlesCleanup, SettlesEdit
<1>6. SameAdmission'
  BY <1>1, <1>2 DEF SameAdmission, Subsides
<1>7. LostIsRecorded'
  <2> SUFFICES ASSUME future' = "lost"
               PROVE  FALSE
    BY DEF LostIsRecorded
  <2>1. late
    BY <1>1 DEF ReceiveResponse
  <2>2. future = "lost" /\ inflight # NoRequest
    BY <1>1, <2>1 DEF OrderInv
  <2>3. inflight \in Owed
    BY <2>2, OwedRequests
  <2>4. Online(inflight.op)
    BY <1>2, <2>3 DEF Accepts, Online, SameAdmission
  <2> QED
    BY <2>2, <2>4 DEF LostIsRecorded
<1>8. PrepareIsUnapplied'
  BY <1>2, PrepareStays
<1>9. ApplyIsAlone'
  BY <1>1, <1>2 DEF ApplyIsAlone
<1>10. AnsweredApplyIsProven'
  <2> SUFFICES ASSUME inflight.phase = "apply", future' = "result"
               PROVE  inflight.op \in proven'
    BY <1>1 DEF AnsweredApplyIsProven
  <2>1. CASE late
    BY <1>1, <2>1 DEF AnsweredApplyIsProven
  <2>2. CASE ~late
    <3>1. r = inflight /\ r \in pending /\ y \notin {"invalid", "error", "recovery_required"}
      BY <1>1, <2>2 DEF ReceiveResponse
    <3>2. TxnOf(r) = r.op /\ r.op # None
      BY <1>2, <3>1, DispatchedRequests, RealRequest, SessionAssumption
    <3>3. r.op \in Creates => GrantPossible
      BY <3>1, <3>2, NoCleanupFields DEF ApplyIsAlone, GrantPossible, FenceInv
    <3>4. SettlesEdit(e, r)
      BY <1>4, <3>1, <3>3, AwaitedUncontrolled
         DEF KeepsCleanup, SettlesCleanup, MutationPhases
    <3> QED
      BY <1>3, <3>1, <3>2, <3>4 DEF SettlesEdit
  <2> QED
    BY <2>1, <2>2
<1>11. UncertainApplyIsGrantable'
  <2> SUFFICES ASSUME NEW o \in Creates, Apply(o) \in uncertainRequests', o \notin proven'
               PROVE  preparedReceipt' = o /\ multiEditCleanup' = NoCleanup
    BY DEF UncertainApplyIsGrantable, Apply, Req
  <2> DEFINE a == Apply(o)
  <2>1. /\ a \in uncertainRequests \cup {r} /\ a.phase = "apply" /\ a.op = o
        /\ o \notin proven
    BY <1>3, <1>5 DEF Apply, Req
  <2>2. preparedReceipt = o /\ multiEditCleanup = NoCleanup
    BY <1>1, <2>1, AwaitedApply DEF UncertainApplyIsGrantable
  <2>3. a \in Owed /\ a \in dispatched
    BY <1>2, <2>1, OwedRequests
  <2>4. TxnOf(a) = o
    BY <2>1, <2>3, DispatchedRequests
  <2>5. EditRequest(r) /\ TxnOf(r) = o
    BY <1>2, <2>1, <2>3, <2>4 DEF FenceInv, OneSubject, EditRequest
  <2>6. ~SettlesEdit(e, r)
    BY <1>3, <2>5 DEF SettlesEdit
  <2> QED
    BY <1>3, <1>4, <2>2, <2>5, <2>6
       DEF Ignores, KeepsCleanup, Fences, SettlesCleanup, EditRequest
<1>12. FailedAnswerIsRecorded'
  <2> SUFFICES ASSUME future' \in {"remote_error", "result_requires_recovery"},
                      inflight.phase \in MutationPhases
               PROVE  inflight \in uncertainRequests'
    BY <1>1 DEF FailedAnswerIsRecorded
  <2>1. CASE late
    <3>1. r = inflight /\ y = reply
      BY <1>1, <2>1, LateRepeats DEF Answered
    <3>2. y \in {"error", "recovery_required"}
      BY <1>1, <2>1, <3>1 DEF OrderInv
    <3>3. gone = {}
      BY <1>1, <2>1, <3>1, <3>2
    <3>4. r \in e.unc
      BY <1>1, <1>4, <2>1, <3>2 DEF Ignores, KeepsCleanup, Fences
    <3> QED
      BY <1>3, <3>1, <3>3, <3>4
  <2>2. CASE ~late
    <3>1. r = inflight /\ r \in pending /\ gone = {}
      BY <1>1, <2>2
    <3>2. y \in {"invalid", "error", "recovery_required"}
      BY <1>1, <2>2 DEF ReceiveResponse
    <3>3. r \in e.unc
      BY <1>4, <2>2, <3>1, <3>2, AwaitedUncontrolled DEF KeepsCleanup, Fences
    <3> QED
      BY <1>3, <3>1, <3>3
  <2> QED
    BY <2>1, <2>2
<1>13. RecoveryTakesOver'
  <2> SUFFICES ASSUME NEW q \in dispatched, q.phase = "recover"
               PROVE  /\ inflight # Apply(TxnOf(q))
                      /\ Apply(TxnOf(q)) \in uncertainRequests' =>
                           /\ multiEditRecovery'.txn = TxnOf(q)
                           /\ multiEditRecovery'.generation = admitted[TxnOf(q)]
                           /\ multiEditRecovery'.dispatched \in Request
                           /\ multiEditRecovery'.dispatched.phase = "recover"
    BY <1>1, <1>2 DEF RecoveryTakesOver, TxnOf, Apply, Req
  <2> DEFINE t == TxnOf(q)
             a == Apply(t)
  <2>1. inflight # a
    BY DEF RecoveryTakesOver
  <2>2. ASSUME a \in uncertainRequests'
        PROVE  /\ multiEditRecovery'.txn = t
               /\ multiEditRecovery'.generation = admitted[t]
               /\ multiEditRecovery'.dispatched \in Request
               /\ multiEditRecovery'.dispatched.phase = "recover"
    <3>1. a \in uncertainRequests
      BY <1>1, <1>3, <1>5, <2>1, <2>2
    <3>2. /\ multiEditRecovery.txn = t
          /\ multiEditRecovery.generation = admitted[t]
          /\ multiEditRecovery.dispatched \in Request
          /\ multiEditRecovery.dispatched.phase = "recover"
      BY <3>1 DEF RecoveryTakesOver
    <3>3. a \in Owed /\ a \in dispatched /\ a.phase = "apply" /\ a.op = t
      BY <3>1, OwedRequests DEF Apply, Req
    <3>4. EditRequest(r) /\ TxnOf(r) = t
      <4>1. TxnOf(a) = t
        BY <3>3, DispatchedRequests
      <4> QED
        BY <1>2, <3>3, <4>1 DEF FenceInv, OneSubject, EditRequest
    <3>5. admitted[r.op] = admitted[t]
      BY <1>2, <3>3 DEF SameAdmission
    <3>6. ~SettlesEdit(e, r)
      <4>1. a \in SettledWith(r)
        <5>1. TxnOf(a) = TxnOf(r)
          BY <3>3, <3>4, DispatchedRequests
        <5> QED
          BY <3>1, <3>3, <3>4, <5>1 DEF SettledWith, EditRequest, FenceInv, RecordsWereDispatched
      <4> QED
        BY <1>3, <2>2, <4>1 DEF SettlesEdit
    <3>7. e.rec = multiEditRecovery \/ e.rec = RecoveryFor(t, admitted[t])
      BY <1>4, <3>4, <3>5, <3>6 DEF Ignores, KeepsCleanup, Fences, SettlesCleanup
    <3> QED
      BY <1>3, <3>2, <3>7 DEF RecoveryFor
  <2> QED
    BY <2>1, <2>2
<1> QED
  BY <1>6, <1>7, <1>8, <1>9, <1>10, <1>11, <1>12, <1>13

LEMMA AnswerStep == FenceInv /\ GrantInv /\ OrderInv /\ AnswerInv /\ [Next]_vars => AnswerInv'
BY StepKinds, AnswerSends, AnswerLeaves, AnswerReply, AnswerCloses, AnswerRests

LEMMA AnswerInit == Init => AnswerInv
<1> SUFFICES ASSUME Init
             PROVE  AnswerInv
  OBVIOUS
<1>1. dispatched = {} /\ Owed = {} /\ uncertainRequests = {} /\ pending = {}
      /\ future = "none"
  BY DEF Init, dispatched, ToSet, Owed
<1>2. SameAdmission
  BY <1>1 DEF Init, SameAdmission
<1> QED
  BY <1>1, <1>2
     DEF AnswerInv, LostIsRecorded, PrepareIsUnapplied, ApplyIsAlone,
         AnsweredApplyIsProven, UncertainApplyIsGrantable, FailedAnswerIsRecorded,
         RecoveryTakesOver

(* Whatever ends a wait, the records say what it leaves unproven, and a    *)
(* recovery that was sent keeps control of the apply it is for.            *)
THEOREM SessionAnswers == Spec => [](OrderInv /\ AnswerInv)
<1>1. FenceInv /\ GrantInv /\ OrderInv /\ AnswerInv /\ [Next]_vars => AnswerInv'
  BY AnswerStep
<1> QED
  BY <1>1, AnswerInit, SessionInvariant, GrantInvariant, SessionOrder, PTL DEF Spec

(***************************************************************************)
(* Jobs                                                                    *)
(***************************************************************************)

(* An operation sends its first request, and a multi-edit then its apply.  *)
PhasesFit ==
  \A r \in dispatched :
    r.phase = FirstPhase(r.op) \/ (r.phase = "apply" /\ Kind[r.op] = "multi")

(* A job is queued or running only while its operation is, and its outcome *)
(* is unknown only if it sent something.                                   *)
JobsFit ==
  \A o \in Op :
    /\ o \notin JobOps => job[o] = "none"
    /\ job[o] = "outcome_unknown" => WasDispatched(o)
    /\ job[o] \in {"queued", "running"} => stage[o] # "done"

(* A result that the waiter has yet to see has already settled the job,    *)
(* except the receipt of a prepare that can go on to its apply.            *)
AnsweredJobIsSettled ==
  future = "result" /\ inflight.op \in JobOps =>
    \/ job[inflight.op] \in TerminalJobStates
    \/ inflight.phase = "prepare" /\ Online(inflight.op)

(* A job that lost its connection is settled or its request is recorded.   *)
LostJobIsRecorded ==
  future = "lost" /\ inflight.op \in JobOps =>
    job[inflight.op] \in TerminalJobStates \/ inflight \in uncertainRequests

(* What can still settle a job of unknown outcome: a request of its own, or*)
(* the fence or the used grant of its transaction.                         *)
Settler(o) ==
  \/ \E u \in uncertainRequests : u.op = o
  \/ Kind[o] \in {"multi", "recover"} /\ multiEditRecovery.txn = target[o]
  \/ Kind[o] = "cleanup" /\ multiEditCleanup.txn = target[o] /\ Used(multiEditCleanup)

UnknownJobHasSettler ==
  \A o \in JobOps : job[o] = "outcome_unknown" /\ stage[o] = "done" => Settler(o)

JobInv ==
  /\ PhasesFit
  /\ JobsFit
  /\ AnsweredJobIsSettled
  /\ LostJobIsRecorded
  /\ JobVerdictSound
  /\ UnknownJobHasSettler

(* The records that the jobs rest on.                                      *)
RecordInv == FenceInv /\ GrantInv /\ OrderInv /\ AnswerInv

LEMMA SettlerKept ==
  ASSUME NEW o, Settler(o), target'[o] = target[o], GrantStays,
         \A u \in uncertainRequests : u.op = o => u \in uncertainRequests',
         multiEditRecovery.txn = target[o] => multiEditRecovery'.txn = multiEditRecovery.txn
  PROVE  Settler(o)'
<1>1. CASE \E u \in uncertainRequests : u.op = o
  BY <1>1 DEF Settler
<1>2. CASE Kind[o] \in {"multi", "recover"} /\ multiEditRecovery.txn = target[o]
  BY <1>2 DEF Settler
<1>3. CASE Kind[o] = "cleanup" /\ multiEditCleanup.txn = target[o] /\ Used(multiEditCleanup)
  BY <1>3 DEF Settler, GrantStays
<1> QED
  BY <1>1, <1>2, <1>3 DEF Settler

(* Facts about one multi-edit.                                             *)
LEMMA EditPhases ==
  ASSUME FenceInv, PhasesFit, NEW o \in Txn, NEW r \in dispatched, r.op = o
  PROVE  r.phase \in {"prepare", "apply"}
BY DEF PhasesFit, FirstPhase, Txn

LEMMA KnownTargets ==
  ASSUME FenceInv, NEW o \in Op, stage[o] # "idle"
  PROVE  /\ Kind[o] = "multi" => target[o] = o
         /\ Kind[o] \in {"multi", "recover", "cleanup"} => target[o] \in Txn /\ target[o] # None
<1>1. target[o] \in Targets(o)
  BY DEF FenceInv, RequestsHaveOwners
<1>2. None \notin Txn
  BY SessionAssumption DEF Txn
<1> QED
  BY <1>1, <1>2 DEF Targets, Txn

LEMMA JobRests ==
  ASSUME RecordInv, JobInv, [Next]_vars, Rests
  PROVE  JobInv'
<1> USE DEF RecordInv, JobInv
<1>1. /\ UNCHANGED <<inflight, future, uncertainRequests, multiEditRecovery, proven,
                     generation, connected>>
      /\ dispatched' = dispatched
  BY DEF Rests, dispatched
<1>2. /\ job \in [Op -> JobStates] /\ stage \in [Op -> {"idle", "queued", "waiting", "done"}]
      /\ admitted \in [Op -> Generations] /\ target \in [Op -> Txn \cup {None}]
  BY DEF FenceInv, TypeOK
<1>3. \A r \in dispatched : r.op \in Op /\ stage[r.op] \in {"waiting", "done"}
  BY DispatchedRequests, RealRequest DEF FenceInv, RequestsHaveOwners
<1>4. ASSUME NEW o \in Op
      PROVE  \/ job'[o] = job[o] /\ stage'[o] = stage[o] /\ target'[o] = target[o]
                /\ admitted'[o] = admitted[o]
             \/ /\ stage[o] \in {"idle", "queued"}
                /\ \/ stage'[o] = "queued" /\ job'[o] \in {"queued", "none"}
                   \/ stage'[o] = "done" /\ job'[o] \in {"failed", "cancelled", job[o]}
                /\ o \in JobOps /\ stage'[o] = "done" => job'[o] \in {"failed", "cancelled"}
                /\ o \notin JobOps => job'[o] = "none"
  <2>1. CASE \E p \in Op, t \in Txn \cup {None} : Submit(p, t)
    BY <1>2, <2>1 DEF Submit, JobsFit
  <2>2. CASE \E p \in Op : /\ stage[p] = "queued" /\ stage' = [stage EXCEPT ![p] = "done"]
                           /\ \E s \in {"failed", "cancelled"} :
                                job' = [job EXCEPT ![p] = IF p \in JobOps THEN s ELSE @]
                           /\ UNCHANGED <<target, admitted>>
    BY <1>2, <2>2 DEF JobsFit
  <2>3. CASE UNCHANGED <<stage, job, target, admitted>>
    BY <2>3
  <2> QED
    BY <2>1, <2>2, <2>3 DEF Rests
<1>5. PhasesFit'
  BY <1>1 DEF PhasesFit
<1>6. JobsFit'
  <2> SUFFICES ASSUME NEW o \in Op
               PROVE  /\ o \notin JobOps => job'[o] = "none"
                      /\ job'[o] = "outcome_unknown" => WasDispatched(o)
                      /\ job'[o] \in {"queued", "running"} => stage'[o] # "done"
    BY <1>1 DEF JobsFit, WasDispatched
  <2>1. CASE o \in JobOps
    BY <1>4, <2>1 DEF JobsFit
  <2>2. CASE o \notin JobOps
    BY <1>4, <2>2 DEF JobsFit
  <2> QED
    BY <2>1, <2>2
<1>7. inflight # NoRequest =>
        /\ job'[inflight.op] = job[inflight.op]
        /\ admitted'[inflight.op] = admitted[inflight.op]
  BY <1>3, <1>4 DEF FenceInv, RecordsWereDispatched
<1>8. AnsweredJobIsSettled' /\ LostJobIsRecorded'
  BY <1>1, <1>7 DEF AnsweredJobIsSettled, LostJobIsRecorded, OrderInv, Online
<1>9. JobVerdictSound'
  <2> SUFFICES ASSUME NEW o \in JobOps \cap Txn
               PROVE  /\ job'[o] \in {"failed", "cancelled"} => Apply(o) \notin dispatched
                      /\ job'[o] = "completed" => o \in proven
    BY <1>1 DEF JobVerdictSound, Apply, Req
  <2>1. stage[o] \in {"idle", "queued"} => Apply(o) \notin dispatched
    BY <1>3 DEF Apply, Req
  <2> QED
    BY <1>4, <2>1 DEF JobVerdictSound, Txn
<1>10. UnknownJobHasSettler'
  <2> SUFFICES ASSUME NEW o \in JobOps, job'[o] = "outcome_unknown", stage'[o] = "done"
               PROVE  Settler(o)'
    BY DEF UnknownJobHasSettler
  <2>1. o \in Op
    BY SessionAssumption
  <2>2. job[o] = "outcome_unknown" /\ stage[o] = "done" /\ target'[o] = target[o]
    BY <1>4, <2>1
  <2>3. Settler(o)
    BY <2>2 DEF UnknownJobHasSettler
  <2>4. GrantStays
    BY <1>1, ExpiryStays DEF Rests, FenceInv
  <2> QED
    BY <1>1, <2>2, <2>3, <2>4, SettlerKept
<1> QED
  BY <1>5, <1>6, <1>8, <1>9, <1>10

LEMMA JobSends ==
  ASSUME RecordInv, JobInv, [Next]_vars, NEW r \in Request, NEW prep, Sends(r, prep)
  PROVE  JobInv'
<1> USE DEF RecordInv, JobInv
<1>1. /\ inflight' = r /\ future' = "pending" /\ r.op \in Op
      /\ uncertainRequests' = uncertainRequests /\ proven' = proven
      /\ target' = target
      /\ multiEditRecovery'.txn = multiEditRecovery.txn
  BY RealRequest DEF Sends, Dispatch, unproven, FenceInv, TypeOK, Recoveries
<1>2. dispatched' = dispatched \cup {r}
  BY OutboxGrows DEF Sends, Dispatch, FenceInv, TypeOK, dispatched
<1>3. \A o \in Op : /\ o # r.op => job'[o] = job[o] /\ stage'[o] = stage[o]
                    /\ o = r.op => /\ job'[o] = (IF o \in JobOps THEN "running" ELSE job[o])
                                   /\ stage'[o] = "waiting"
  BY DEF Sends, Dispatch, FenceInv, TypeOK
<1>4. PhasesFit'
  BY <1>2 DEF PhasesFit, Sends
<1>5. JobsFit'
  BY <1>2, <1>3 DEF JobsFit, WasDispatched
<1>6. AnsweredJobIsSettled' /\ LostJobIsRecorded'
  BY <1>1 DEF AnsweredJobIsSettled, LostJobIsRecorded
<1>7. JobVerdictSound'
  <2> SUFFICES ASSUME NEW o \in JobOps \cap Txn
               PROVE  /\ job'[o] \in {"failed", "cancelled"} => Apply(o) \notin dispatched \cup {r}
                      /\ job'[o] = "completed" => o \in proven
    BY <1>1, <1>2 DEF JobVerdictSound, Apply, Req
  <2>1. CASE o = r.op
    BY <1>3, <2>1 DEF Txn
  <2>2. CASE o # r.op
    <3>1. Apply(o) # r
      BY <2>2 DEF Apply, Req
    <3> QED
      BY <1>3, <2>2, <3>1 DEF JobVerdictSound, Txn
  <2> QED
    BY <2>1, <2>2
<1>8. UnknownJobHasSettler'
  <2> SUFFICES ASSUME NEW o \in JobOps, job'[o] = "outcome_unknown", stage'[o] = "done"
               PROVE  Settler(o)'
    BY DEF UnknownJobHasSettler
  <2>1. o \in Op
    BY SessionAssumption
  <2>2. Settler(o)
    BY <1>3, <2>1 DEF UnknownJobHasSettler
  <2>3. Used(multiEditCleanup) => multiEditCleanup'.txn = multiEditCleanup.txn /\ Used(multiEditCleanup')
    <3> SUFFICES ASSUME Used(multiEditCleanup)
                 PROVE  multiEditCleanup'.txn = multiEditCleanup.txn /\ Used(multiEditCleanup')
      OBVIOUS
    <3>1. /\ Expired(multiEditCleanup) \in Cleanups /\ Used(Expired(multiEditCleanup))
          /\ Expired(multiEditCleanup).txn = multiEditCleanup.txn
      BY ExpiredType, ExpiredGrant DEF FenceInv, TypeOK, GrantInv, CleanupHasGrant
    <3> QED
      BY <3>1 DEF Sends, Dispatch, Cleanups, Used
  <2> QED
    BY <1>1, <2>2, <2>3 DEF Settler
<1> QED
  BY <1>4, <1>5, <1>6, <1>7, <1>8

LEMMA AfterError ==
  ASSUME NEW o, NEW offline \in BOOLEAN, NEW unc
  PROVE  LET v == JobAfterError(o, offline, unc)
         IN  /\ job[o] \in TerminalJobStates => v = job[o]
             /\ job[o] \notin TerminalJobStates =>
                  /\ v \in {"outcome_unknown", "failed"}
                  /\ v = "failed" => \A r \in dispatched : r.op = o => ~offline /\ r \notin unc
                  /\ v = "outcome_unknown" /\ ~offline => \E r \in unc : r.op = o
BY DEF JobAfterError

(* The verdict a waiter leaves behind.                                     *)
LEMMA LeavesJob ==
  ASSUME RecordInv, JobInv, NEW o \in Op, Leaves(o)
  PROVE  /\ stage' = [stage EXCEPT ![o] = "done"]
         /\ \E v \in JobStates :
              /\ job' = [job EXCEPT ![o] = v]
              /\ o \notin JobOps => v = "none"
              /\ v \notin {"queued", "running"}
              /\ v = "outcome_unknown" => \E u \in uncertainRequests' : u.op = o
              /\ v = "failed" => job[o] = "failed" \/ inflight.phase # "apply"
              /\ v = "cancelled" => job[o] = "cancelled"
              /\ v = "completed" => \/ job[o] = "completed"
                                    \/ future = "result" /\ inflight.phase # "prepare"
<1> USE DEF RecordInv, JobInv
<1>1. /\ inflight # NoRequest /\ inflight \in dispatched /\ inflight.op = o
      /\ uncertainRequests \subseteq uncertainRequests'
      /\ job \in [Op -> JobStates]
  BY LeavesFacts, OwedRequests DEF FenceInv, TypeOK
<1>2. stage' = [stage EXCEPT ![o] = "done"]
  BY DEF Leaves, Leave
<1>3. o \notin JobOps => job[o] = "none"
  BY DEF JobsFit
<1>4. ASSUME NEW offline \in BOOLEAN, job' = [job EXCEPT ![o] = JobAfterError(o, offline, uncertainRequests')],
             inflight.phase = "apply" => offline \/ inflight \in uncertainRequests',
             offline => job[o] \in TerminalJobStates \/ inflight \in uncertainRequests'
      PROVE  \E v \in JobStates :
               /\ job' = [job EXCEPT ![o] = v]
               /\ o \notin JobOps => v = "none"
               /\ v \notin {"queued", "running"}
               /\ v = "outcome_unknown" => \E u \in uncertainRequests' : u.op = o
               /\ v = "failed" => job[o] = "failed" \/ inflight.phase # "apply"
               /\ v = "cancelled" => job[o] = "cancelled"
               /\ v = "completed" => \/ job[o] = "completed"
                                     \/ future = "result" /\ inflight.phase # "prepare"
  <2> DEFINE v == JobAfterError(o, offline, uncertainRequests')
  <2>1. /\ job[o] \in TerminalJobStates => v = job[o]
        /\ job[o] \notin TerminalJobStates =>
             /\ v \in {"outcome_unknown", "failed"}
             /\ v = "failed" => \A r \in dispatched : r.op = o => ~offline /\ r \notin uncertainRequests'
             /\ v = "outcome_unknown" /\ ~offline => \E r \in uncertainRequests' : r.op = o
    BY AfterError
  <2>2. job' = [job EXCEPT ![o] = v]
    BY <1>4
  <2> HIDE DEF v
  <2>3. v \in JobStates
    BY <1>1, <2>1 DEF JobStates
  <2>4. CASE job[o] \in TerminalJobStates
    BY <1>1, <1>3, <2>1, <2>2, <2>3, <2>4 DEF TerminalJobStates
  <2>5. CASE job[o] \notin TerminalJobStates
    <3>1. o \in JobOps
      BY <1>3, <2>5 DEF TerminalJobStates
    <3>2. v = "outcome_unknown" => \E u \in uncertainRequests' : u.op = o
      BY <1>1, <1>4, <2>1, <2>5
    <3>3. v = "failed" => inflight.phase # "apply"
      BY <1>1, <1>4, <2>1, <2>5
    <3> QED
      BY <2>1, <2>2, <2>3, <2>5, <3>1, <3>2, <3>3
  <2> QED
    BY <2>4, <2>5
<1>5. CASE ApplyNotDispatched(o)
  <2>1. /\ job' = [job EXCEPT ![o] = JobAfterError(o, FALSE, uncertainRequests')]
        /\ inflight.phase = "prepare"
    BY <1>5 DEF ApplyNotDispatched, unproven, Req
  <2> QED
    BY <1>2, <1>4, <2>1
<1>6. CASE Return(o)
  <2> DEFINE unknown == future = "result_requires_recovery"
             v == IF o \notin JobOps THEN job[o]
                  ELSE IF unknown THEN "outcome_unknown" ELSE "completed"
  <2>1. /\ job' = [job EXCEPT ![o] = v] /\ inflight.phase # "prepare"
        /\ future \in {"result", "result_requires_recovery"}
        /\ uncertainRequests' = uncertainRequests
    BY <1>6 DEF Return, unproven
  <2>2. unknown => inflight \in uncertainRequests
    BY DEF AnswerInv, FailedAnswerIsRecorded, OrderInv
  <2>3. v \in JobStates
    BY <1>1 DEF JobStates
  <2> QED
    BY <1>1, <1>2, <1>3, <2>1, <2>2, <2>3
<1>7. CASE RaiseRemoteError(o)
  <2>1. /\ job' = [job EXCEPT ![o] = JobAfterError(o, FALSE, uncertainRequests')]
        /\ future = "remote_error"
    BY <1>7 DEF RaiseRemoteError, Raise
  <2>2. inflight.phase = "apply" => inflight \in uncertainRequests
    BY <2>1 DEF AnswerInv, FailedAnswerIsRecorded, MutationPhases
  <2> QED
    BY <1>1, <1>2, <1>4, <2>1, <2>2
<1>8. CASE RaiseOffline(o)
  <2>1. /\ job' = [job EXCEPT ![o] = JobAfterError(o, TRUE, uncertainRequests')]
        /\ \/ future = "lost"
           \/ future \in {"result", "result_requires_recovery"} /\ ~Online(o)
    BY <1>8 DEF RaiseOffline, Raise
  <2>2. CASE o \notin JobOps
    BY <1>2, <1>3, <1>4, <2>1, <2>2 DEF TerminalJobStates
  <2>3. CASE o \in JobOps /\ future = "lost"
    <3>1. job[o] \in TerminalJobStates \/ inflight \in uncertainRequests
      BY <1>1, <2>3 DEF LostJobIsRecorded
    <3> QED
      BY <1>1, <1>2, <1>4, <2>1, <3>1
  <2>4. CASE o \in JobOps /\ future = "result" /\ ~Online(o)
    <3>1. job[o] \in TerminalJobStates
      BY <1>1, <2>4 DEF AnsweredJobIsSettled
    <3> QED
      BY <1>2, <1>4, <2>1, <3>1
  <2>5. CASE future = "result_requires_recovery"
    <3>1. inflight \in uncertainRequests
      BY <2>5 DEF AnswerInv, FailedAnswerIsRecorded, OrderInv
    <3> QED
      BY <1>1, <1>2, <1>4, <2>1, <3>1
  <2> QED
    BY <2>1, <2>2, <2>3, <2>4, <2>5
<1>9. CASE Timeout(o)
  <2>1. /\ job' = [job EXCEPT ![o] = JobAfterError(o, FALSE, uncertainRequests')]
        /\ inflight \in uncertainRequests'
    BY <1>9 DEF Timeout, Raise
  <2> QED
    BY <1>2, <1>4, <2>1
<1>10. CASE CancelWait(o)
  <2>1. /\ job' = [job EXCEPT ![o] = JobAfterError(o, FALSE, uncertainRequests')]
        /\ o \notin JobOps
    BY <1>10 DEF CancelWait, Raise
  <2>2. JobAfterError(o, FALSE, uncertainRequests') = "none"
    BY <1>3, <2>1, AfterError DEF TerminalJobStates
  <2> QED
    BY <1>2, <2>1, <2>2 DEF JobStates
<1> QED
  BY <1>5, <1>6, <1>7, <1>8, <1>9, <1>10 DEF Leaves

LEMMA JobLeaves ==
  ASSUME RecordInv, JobInv, [Next]_vars, NEW w \in Op, Leaves(w)
  PROVE  JobInv'
<1> USE DEF RecordInv, JobInv
<1>1. /\ inflight # NoRequest /\ inflight \in Owed /\ inflight.op = w /\ inflight \in dispatched
      /\ inflight' = NoRequest /\ future' = "none"
      /\ uncertainRequests \subseteq uncertainRequests'
      /\ UNCHANGED <<proven, outbox, generation, connected, target, admitted>>
      /\ \/ multiEditRecovery' = multiEditRecovery
         \/ inflight.phase = "apply" /\ multiEditRecovery' = RecoveryFor(w, admitted[w])
  BY LeavesFacts, OwedRequests
<1>2. dispatched' = dispatched
  BY <1>1 DEF dispatched
<1>3. stage' = [stage EXCEPT ![w] = "done"]
  BY LeavesJob
<1>4. PICK v \in JobStates :
        /\ job' = [job EXCEPT ![w] = v]
        /\ w \notin JobOps => v = "none"
        /\ v \notin {"queued", "running"}
        /\ v = "outcome_unknown" => \E u \in uncertainRequests' : u.op = w
        /\ v = "failed" => job[w] = "failed" \/ inflight.phase # "apply"
        /\ v = "cancelled" => job[w] = "cancelled"
        /\ v = "completed" => \/ job[w] = "completed"
                              \/ future = "result" /\ inflight.phase # "prepare"
  BY LeavesJob
<1>5. \A o \in Op : /\ o # w => job'[o] = job[o] /\ stage'[o] = stage[o]
                    /\ o = w => job'[o] = v /\ stage'[o] = "done"
  BY <1>3, <1>4 DEF FenceInv, TypeOK
<1>6. PhasesFit'
  BY <1>2 DEF PhasesFit
<1>7. JobsFit'
  <2> SUFFICES ASSUME NEW o \in Op
               PROVE  /\ o \notin JobOps => job'[o] = "none"
                      /\ job'[o] = "outcome_unknown" => WasDispatched(o)
                      /\ job'[o] \in {"queued", "running"} => stage'[o] # "done"
    BY <1>2 DEF JobsFit, WasDispatched
  <2>1. WasDispatched(w)
    BY <1>1 DEF WasDispatched
  <2> QED
    BY <1>4, <1>5, <2>1 DEF JobsFit
<1>8. AnsweredJobIsSettled' /\ LostJobIsRecorded'
  BY <1>1 DEF AnsweredJobIsSettled, LostJobIsRecorded
<1>9. JobVerdictSound'
  <2> SUFFICES ASSUME NEW o \in JobOps \cap Txn
               PROVE  /\ job'[o] \in {"failed", "cancelled"} => Apply(o) \notin dispatched
                      /\ job'[o] = "completed" => o \in proven
    BY <1>1, <1>2 DEF JobVerdictSound, Apply, Req
  <2>1. CASE o # w
    BY <1>5, <2>1 DEF JobVerdictSound, Txn
  <2>2. CASE o = w
    <3>1. inflight.phase \in {"prepare", "apply"}
      BY <1>1, <2>2, EditPhases
    <3>2. inflight.phase = "prepare" => Apply(o) \notin dispatched
      BY <1>1, <2>2 DEF FenceInv, RecordsWereDispatched
    <3>3. future = "result" /\ inflight.phase = "apply" => o \in proven
      BY <1>1, <2>2 DEF AnswerInv, AnsweredApplyIsProven
    <3> QED
      BY <1>4, <1>5, <2>2, <3>1, <3>2, <3>3 DEF JobVerdictSound, Txn
  <2> QED
    BY <2>1, <2>2
<1>10. UnknownJobHasSettler'
  <2> SUFFICES ASSUME NEW o \in JobOps, job'[o] = "outcome_unknown", stage'[o] = "done"
               PROVE  Settler(o)'
    BY DEF UnknownJobHasSettler
  <2>0. o \in Op
    BY SessionAssumption
  <2>1. CASE o = w
    BY <1>4, <1>5, <2>0, <2>1 DEF Settler
  <2>2. CASE o # w
    <3>1. Settler(o) /\ stage[o] = "done"
      BY <1>5, <2>0, <2>2 DEF UnknownJobHasSettler
    <3>2. GrantStays
      BY WaiterSubsides DEF Leaves
    <3>3. ASSUME Kind[o] \in {"multi", "recover"}, multiEditRecovery.txn = target[o]
          PROVE  multiEditRecovery'.txn = multiEditRecovery.txn
      <4>1. target[o] # None
        BY <2>0, <3>1, <3>3, KnownTargets
      <4>2. multiEditRecovery # NoRecovery
        BY <3>3, <4>1 DEF NoRecovery
      <4>3. inflight.phase = "apply" => multiEditRecovery.txn = w
        BY <1>1, <4>2, DispatchedRequests DEF FenceInv, OneSubject
      <4> QED
        BY <1>1, <4>3 DEF RecoveryFor
    <3> QED
      BY <1>1, <3>1, <3>2, <3>3 DEF Settler, GrantStays
  <2> QED
    BY <2>1, <2>2
<1> QED
  BY <1>6, <1>7, <1>8, <1>9, <1>10

LEMMA OwnJobCases ==
  ASSUME NEW r \in Request, NEW y \in Replies(r)
  PROVE  LET o == r.op
             v == OwnJob(r, y)
         IN  \/ v = job[o] /\ (\/ o \notin JobOps \/ y = "invalid"
                               \/ RecoveryControls(r) \/ CleanupControls(r)
                               \/ y = "prepared" /\ r.phase = "prepare"
                                  /\ ~(r \in uncertainRequests /\ job[o] = "outcome_unknown"))
             \/ /\ o \in JobOps
                /\ \/ v = "outcome_unknown" /\ y = "error" /\ r.phase \in MutationPhases
                   \/ /\ v = "outcome_unknown" /\ y = "recovery_required"
                      /\ r.phase \in MutationPhases
                      /\ ~RecoveryControls(r) /\ ~CleanupControls(r)
                   \/ v = "failed" /\ y \in {"error", "prepared"} /\ r.phase \notin MutationPhases
                   \/ /\ v = "completed" /\ y \in SafeReplies(r.phase) /\ r.phase # "prepare"
                      /\ ~RecoveryControls(r) /\ ~CleanupControls(r)
<1>1. y = "prepared" => r.phase = "prepare"
  BY RealRequest DEF Replies, SafeReplies, Phases
<1>2. y = "recovery_required" => r.phase \in MutationPhases
  BY RealRequest DEF Replies, SafeReplies, Phases
<1>3. y \notin {"invalid", "error", "recovery_required"} => y \in SafeReplies(r.phase)
  BY DEF Replies
<1>4. y \in SafeReplies(r.phase) /\ y # "prepared" => r.phase # "prepare"
  BY DEF SafeReplies
<1>5. CASE r.op \notin JobOps \/ y = "invalid"
  BY <1>5 DEF OwnJob
<1>6. CASE r.op \in JobOps /\ y = "error"
  BY <1>6 DEF OwnJob
<1>7. CASE r.op \in JobOps /\ y \notin {"invalid", "error"} /\ (RecoveryControls(r) \/ CleanupControls(r))
  BY <1>7 DEF OwnJob
<1>8. CASE r.op \in JobOps /\ y \notin {"invalid", "error"} /\ ~RecoveryControls(r) /\ ~CleanupControls(r)
  <2>1. CASE y = "recovery_required"
    BY <1>2, <1>8, <2>1 DEF OwnJob
  <2>2. CASE y = "prepared"
    BY <1>1, <1>8, <2>2 DEF OwnJob, MutationPhases
  <2>3. CASE y \notin {"recovery_required", "prepared"}
    BY <1>3, <1>4, <1>8, <2>3 DEF OwnJob
  <2> QED
    BY <2>1, <2>2, <2>3
<1> QED
  BY <1>5, <1>6, <1>7, <1>8

(* The job of the request answered, and the jobs of other operations.      *)
LEMMA ReplyJobs ==
  ASSUME FenceInv, NEW r \in dispatched, NEW y, NEW late, NEW gone, Received(r, y, late, gone)
  PROVE  /\ job'[r.op] = OwnJob(r, y)
         /\ \A o \in Op : o # r.op => job'[o] = IF ResolvedBy(r, y, o) THEN "completed" ELSE job[o]
<1>1. r.op \in Op
  BY DispatchedRequests, RealRequest
<1> QED
  BY <1>1 DEF Received, JobsAfterReply

(* A recovery that was sent controls the apply it is for, once that apply  *)
(* is answered late.                                                       *)
LEMMA RecoveryWins ==
  ASSUME RecordInv, NEW r \in Owed, Accepts(r), r.phase = "apply", NEW q \in dispatched,
         q.phase = "recover", TxnOf(q) = r.op
  PROVE  RecoveryControls(r)
<1> USE DEF RecordInv
<1>1. r \in dispatched /\ r = Apply(r.op) /\ TxnOf(r) = r.op
  BY OwedRequests, DispatchedRequests
<1>2. r \in uncertainRequests
  BY <1>1 DEF AnswerInv, RecoveryTakesOver, Owed
<1>3. /\ multiEditRecovery.txn = r.op
      /\ multiEditRecovery.generation = admitted[r.op]
      /\ multiEditRecovery.dispatched \in Request
      /\ multiEditRecovery.dispatched.phase = "recover"
  BY <1>1, <1>2 DEF AnswerInv, RecoveryTakesOver
<1> QED
  BY <1>1, <1>3, RealRequest DEF RecoveryControls, Accepts

(* A response takes the evidence for another job of unknown outcome only   *)
(* if it resolves that job.                                                *)
LEMMA ReplyOtherSettler ==
  ASSUME RecordInv, JobInv, NEW r \in dispatched, NEW y, NEW late \in BOOLEAN,
         NEW gone \in SUBSET {r}, Received(r, y, late, gone), r \in Owed, y \in Replies(r),
         Accepts(r),
         NEW o \in JobOps, o # r.op, job[o] = "outcome_unknown", ~ResolvedBy(r, y, o),
         Settler(o)
  PROVE  Settler(o)'
<1> USE DEF RecordInv, JobInv
<1> DEFINE e == Effect(r, y, late)
           c == multiEditCleanup
<1>1. /\ r \in Request /\ o \in Op /\ WasDispatched(o) /\ stage[o] # "idle"
      /\ c \in Cleanups /\ (c.state = "none" => c = NoCleanup) /\ TypeOK
      /\ target' = target
  <2>1. o \in Op /\ r \in Request
    BY DispatchedRequests, SessionAssumption
  <2>2. WasDispatched(o)
    BY <2>1 DEF JobsFit
  <2>3. stage[o] # "idle"
    BY <2>2 DEF WasDispatched, FenceInv, RequestsHaveOwners
  <2> QED
    BY <2>1, <2>2, <2>3 DEF FenceInv, TypeOK, GrantInv, CleanupHasGrant, Received
<1>2. /\ uncertainRequests' = e.unc \ gone /\ multiEditRecovery' = e.rec
      /\ multiEditCleanup' = e.cl
  BY DEF Received
<1>3. \/ Ignores(e, r, y)
      \/ KeepsCleanup(e, r)
      \/ Fences(e, r)
      \/ SettlesCleanup(e, r) /\ y \in {"cleaned", "refused"} /\ ~CleanupControls(r)
      \/ /\ SettlesEdit(e, r) /\ y \in {"applied", "restored", "recovered"}
         /\ ~RecoveryControls(r)
         /\ y = "recovered" <=> r.phase = "recover"
         /\ e.cl = multiEditCleanup \/ (y = "applied" /\ GrantPossible)
  BY <1>1, EffectReasons
<1> HIDE DEF e
<1>4. Kind[o] \in {"multi", "recover"} /\ multiEditRecovery.txn = target[o]
        => multiEditRecovery # NoRecovery
  <2>1. Kind[o] \in {"multi", "recover"} => target[o] # None
    BY <1>1, KnownTargets
  <2> QED
    BY <2>1 DEF NoRecovery
<1>5. Used(c) /\ r.phase = "cleanup" => c.txn = TxnOf(r) /\ c.generation = admitted[r.op]
  BY NoCleanupFields DEF GrantInv, CleanupHasGrant
<1>6. CASE Ignores(e, r, y)
  BY <1>1, <1>2, <1>6 DEF Ignores, Settler
<1>7. CASE KeepsCleanup(e, r)
  <2>1. r.phase = "cleanup" /\ e.unc = uncertainRequests \cup {r} /\ e.rec = multiEditRecovery
        /\ e.cl = CleanupRequired(c, r)
    BY <1>7 DEF KeepsCleanup
  <2>2. Used(c) => Used(e.cl) /\ e.cl.txn = c.txn
    BY <1>1, <1>5, <2>1, RequiredGrant
  <2> QED
    BY <1>1, <1>2, <2>1, <2>2 DEF Settler
<1>8. CASE Fences(e, r)
  <2>1. e.unc = uncertainRequests \cup {r} /\ e.cl = c /\ e.rec.txn = TxnOf(r)
    BY <1>8 DEF Fences, RecoveryFor
  <2>2. multiEditRecovery # NoRecovery => multiEditRecovery.txn = TxnOf(r)
    BY DEF FenceInv, OneSubject
  <2> QED
    BY <1>1, <1>2, <1>4, <2>1, <2>2 DEF Settler
<1>9. CASE SettlesCleanup(e, r) /\ y \in {"cleaned", "refused"} /\ ~CleanupControls(r)
  <2>1. ~(Kind[o] = "cleanup" /\ target[o] = TxnOf(r))
    BY <1>9 DEF ResolvedBy
  <2>2. r.phase = "cleanup" /\ e.unc = uncertainRequests \ SettledWith(r) /\ e.rec = multiEditRecovery
    BY <1>9 DEF SettlesCleanup
  <2>3. ASSUME NEW u \in uncertainRequests, u.op = o
        PROVE  u \in uncertainRequests'
    <3>1. u \in dispatched
      BY <2>3, OwedRequests
    <3>2. u.phase = "cleanup" => Kind[o] = "cleanup"
      BY <1>1, <2>3, <3>1 DEF PhasesFit, FirstPhase
    <3>3. u \notin SettledWith(r)
      BY <2>1, <2>2, <2>3, <3>2 DEF SettledWith, TxnOf
    <3> QED
      BY <1>2, <2>2, <2>3, <3>3
  <2>4. ~(Kind[o] = "cleanup" /\ c.txn = target[o] /\ Used(c))
    BY <1>5, <2>1, <2>2
  <2> QED
    BY <1>1, <1>2, <2>2, <2>3, <2>4 DEF Settler
<1>10. CASE /\ SettlesEdit(e, r) /\ y \in {"applied", "restored", "recovered"}
            /\ ~RecoveryControls(r)
            /\ y = "recovered" <=> r.phase = "recover"
            /\ e.cl = multiEditCleanup \/ (y = "applied" /\ GrantPossible)
  <2>1. /\ EditRequest(r) /\ e.unc = uncertainRequests \ SettledWith(r)
        /\ e.rec = (IF multiEditRecovery.txn = TxnOf(r) THEN NoRecovery ELSE multiEditRecovery)
    BY <1>10 DEF SettlesEdit
  <2>2. Used(c) => e.cl = c
    BY <1>1, <1>10, ExpiredGrant DEF GrantPossible
  <2>3. /\ \A u \in uncertainRequests : u.op = o /\ u.phase \in {"prepare", "apply", "recover"}
             => target[o] # TxnOf(r)
        /\ Kind[o] \in {"multi", "recover"} => target[o] # TxnOf(r)
    <3>1. CASE y = "recovered"
      BY <3>1 DEF ResolvedBy
    <3>2. CASE r.phase = "apply"
      <4>1. TxnOf(r) = r.op
        BY <3>2, DispatchedRequests
      <4>2. ASSUME NEW q \in dispatched, q.op = o, q.phase = "recover"
            PROVE  target[o] # TxnOf(r)
        BY <1>10, <3>2, <4>1, <4>2, RecoveryWins DEF TxnOf
      <4>3. ASSUME NEW u \in uncertainRequests, u.op = o, u.phase \in {"prepare", "apply", "recover"}
            PROVE  target[o] # TxnOf(r)
        <5>1. u \in dispatched
          BY OwedRequests
        <5>2. CASE u.phase = "recover"
          BY <4>2, <4>3, <5>1, <5>2
        <5>3. CASE u.phase \in {"prepare", "apply"}
          BY <4>1, <4>3, <5>1, <5>3 DEF FenceInv, RequestsHaveOwners
        <5> QED
          BY <4>3, <5>2, <5>3
      <4>4. CASE Kind[o] = "multi"
        <5>1. target[o] = o
          BY <1>1, <4>4, KnownTargets
        <5> QED
          BY <4>1, <4>3, <5>1
      <4>5. CASE Kind[o] = "recover"
        <5>1. PICK q \in dispatched : q.op = o
          BY <1>1 DEF WasDispatched
        <5>2. q.phase = "recover"
          BY <4>5, <5>1 DEF PhasesFit, FirstPhase
        <5> QED
          BY <4>2, <4>3, <5>1, <5>2
      <4> QED
        BY <4>3, <4>4, <4>5
    <3> QED
      BY <1>10, <2>1, <3>1, <3>2 DEF EditRequest
  <2>4. ASSUME NEW u \in uncertainRequests, u.op = o
        PROVE  u \in uncertainRequests'
    <3>1. u \notin SettledWith(r)
      BY <2>1, <2>3, <2>4 DEF SettledWith, TxnOf, EditRequest
    <3> QED
      BY <1>2, <2>1, <2>4, <3>1
  <2> QED
    BY <1>1, <1>2, <2>1, <2>2, <2>3, <2>4 DEF Settler
<1> QED
  BY <1>3, <1>6, <1>7, <1>8, <1>9, <1>10

(* A job that its own response leaves unknown can still be settled.        *)
LEMMA ReplyOwnSettler ==
  ASSUME RecordInv, JobInv, NEW r \in dispatched, NEW y, NEW late \in BOOLEAN,
         NEW gone \in SUBSET {r}, Received(r, y, late, gone), r \in Owed, y \in Replies(r),
         Accepts(r), r.op \in JobOps,
         OwnJob(r, y) = "outcome_unknown", stage[r.op] = "done"
  PROVE  Settler(r.op)'
<1> USE DEF RecordInv, JobInv
<1> DEFINE e == Effect(r, y, late)
           c == multiEditCleanup
           o == r.op
<1>1. /\ r \in Request /\ o \in Op /\ stage[o] # "idle"
      /\ c \in Cleanups /\ (c.state = "none" => c = NoCleanup) /\ TypeOK
      /\ target' = target
  <2>1. o \in Op /\ r \in Request
    BY DispatchedRequests, RealRequest
  <2> QED
    BY <2>1 DEF FenceInv, TypeOK, GrantInv, CleanupHasGrant, Received
<1>2. /\ uncertainRequests' = e.unc \ gone /\ multiEditRecovery' = e.rec
      /\ multiEditCleanup' = e.cl
  BY DEF Received
<1>3. late /\ r \in uncertainRequests
  <2>1. late
    BY <1>1, RealRequest DEF Received, FenceInv, RecordsWereDispatched
  <2> QED
    BY <2>1 DEF Received
<1>4. \/ /\ Ignores(e, r, y)
         /\ \/ r.phase \notin MutationPhases
            \/ y \in {"invalid", "error"} /\ late
            \/ /\ y \notin {"invalid", "error"}
               /\ RecoveryControls(r) \/ CleanupControls(r)
      \/ KeepsCleanup(e, r)
      \/ Fences(e, r)
      \/ SettlesCleanup(e, r) /\ y \in {"cleaned", "refused"} /\ ~CleanupControls(r)
      \/ SettlesEdit(e, r) /\ y \in {"applied", "restored", "recovered"} /\ ~RecoveryControls(r)
  BY <1>1, EffectReasons
<1> HIDE DEF e
<1>5. y = "recovery_required" \/ (y = "error" /\ r.phase \in MutationPhases) => gone = {}
  BY <1>3 DEF Received
<1>6. CASE y = "error" /\ r.phase \in MutationPhases
  <2>1. r \in e.unc
    BY <1>3, <1>4, <1>6 DEF Ignores, KeepsCleanup, Fences
  <2> QED
    BY <1>2, <1>5, <1>6, <2>1 DEF Settler
<1>7. CASE /\ y = "recovery_required" /\ r.phase \in MutationPhases
           /\ ~RecoveryControls(r) /\ ~CleanupControls(r)
  <2>1. r \in e.unc
    BY <1>3, <1>4, <1>7 DEF Ignores, KeepsCleanup, Fences
  <2> QED
    BY <1>2, <1>5, <1>7, <2>1 DEF Settler
<1>8. CASE job[o] = "outcome_unknown" /\ RecoveryControls(r)
  <2>1. r.phase = "apply" /\ multiEditRecovery.txn = TxnOf(r)
    BY <1>8 DEF RecoveryControls
  <2>2. Kind[o] = "multi" /\ TxnOf(r) = target[o]
    BY <2>1 DEF FenceInv, RequestsHaveOwners, TxnOf
  <2>3. e.rec.txn = TxnOf(r)
    BY <1>4, <1>8, <2>1 DEF Ignores, KeepsCleanup, Fences, SettlesCleanup, RecoveryFor
  <2> QED
    BY <1>1, <1>2, <2>2, <2>3 DEF Settler
<1>9. CASE job[o] = "outcome_unknown" /\ CleanupControls(r)
  <2>1. r.phase = "cleanup" /\ c.txn = TxnOf(r) /\ TxnOf(r) = target[o]
    BY <1>9 DEF CleanupControls, TxnOf
  <2>2. Kind[o] = "cleanup"
    BY <1>1, <2>1 DEF PhasesFit, FirstPhase
  <2>3. c # NoCleanup
    BY <1>1, <2>1, <2>2, KnownTargets, NoCleanupFields
  <2>4. Used(c) /\ c.generation = admitted[o]
    BY <2>1, <2>3 DEF GrantInv, CleanupHasGrant
  <2>5. Used(CleanupRequired(c, r)) /\ CleanupRequired(c, r).txn = c.txn
    BY <1>1, <2>4, RequiredGrant
  <2>6. e.cl.txn = c.txn /\ Used(e.cl)
    BY <1>4, <1>9, <2>1, <2>4, <2>5 DEF Ignores, KeepsCleanup, Fences, SettlesEdit, EditRequest
  <2> QED
    BY <1>1, <1>2, <2>1, <2>2, <2>6 DEF Settler
<1>10. y # "invalid"
  BY <1>3 DEF Received
<1> QED
  BY <1>1, <1>3, <1>6, <1>7, <1>8, <1>9, <1>10, OwnJobCases

(* A response makes a multi-edit's job failed only before its apply, and   *)
(* completed only with a proven outcome.                                   *)
LEMMA ReplyVerdict ==
  ASSUME RecordInv, JobInv, NEW r \in dispatched, NEW y, NEW late \in BOOLEAN,
         NEW gone \in SUBSET {r}, Received(r, y, late, gone), r \in Owed, y \in Replies(r),
         Accepts(r), NEW o \in JobOps \cap Txn
  PROVE  /\ job'[o] \in {"failed", "cancelled"} => Apply(o) \notin dispatched
         /\ job'[o] = "completed" => o \in proven'
<1> USE DEF RecordInv, JobInv
<1> DEFINE e == Effect(r, y, late)
<1>1. /\ r \in Request /\ o \in Op /\ proven' = proven \cup e.proves
      /\ r.op \in Op
      /\ job[o] \in {"failed", "cancelled"} => Apply(o) \notin dispatched
      /\ job[o] = "completed" => o \in proven
  BY DispatchedRequests, RealRequest DEF Received, JobVerdictSound, Txn
<1>2. \/ /\ Ignores(e, r, y)
         /\ \/ r.phase \notin MutationPhases
            \/ y \in {"invalid", "error"} /\ late
            \/ /\ y \notin {"invalid", "error"}
               /\ RecoveryControls(r) \/ CleanupControls(r)
      \/ KeepsCleanup(e, r) /\ y \in {"invalid", "error", "recovery_required"}
      \/ /\ Fences(e, r)
         /\ \/ y \in {"invalid", "error", "recovery_required"}
            \/ y = "applied" /\ r.op \in Creates /\ ~GrantPossible
      \/ SettlesCleanup(e, r) /\ y \in {"cleaned", "refused"}
      \/ SettlesEdit(e, r)
  BY <1>1, EffectReasons
<1> HIDE DEF e
<1>3. CASE o # r.op
  <2>1. job'[o] = IF ResolvedBy(r, y, o) THEN "completed" ELSE job[o]
    BY <1>1, <1>3, ReplyJobs
  <2>2. ASSUME ResolvedBy(r, y, o)
        PROVE  o \in proven'
    <3>1. y = "recovered" /\ target[o] = TxnOf(r) /\ WasDispatched(o)
      BY <1>1, <2>2 DEF ResolvedBy, Txn, JobsFit
    <3>2. TxnOf(r) = o
      <4>1. stage[o] # "idle"
        BY <3>1 DEF WasDispatched, FenceInv, RequestsHaveOwners
      <4> QED
        BY <1>1, <3>1, <4>1, KnownTargets DEF Txn
    <3>3. r.phase = "recover"
      BY <1>1, <3>1, RealRequest DEF Replies, SafeReplies, Phases
    <3>4. SettlesEdit(e, r)
      BY <1>2, <3>1, <3>3 DEF MutationPhases, RecoveryControls, CleanupControls
    <3> QED
      BY <1>1, <3>2, <3>4 DEF SettlesEdit
  <2> QED
    BY <1>1, <2>1, <2>2
<1>4. CASE o = r.op
  <2>1. r.phase \in {"prepare", "apply"}
    BY <1>4, EditPhases
  <2>2. job'[o] = OwnJob(r, y)
    BY <1>4, ReplyJobs
  <2>3. r.phase \notin MutationPhases => Apply(o) \notin dispatched
    BY <1>4, <2>1 DEF MutationPhases, AnswerInv, PrepareIsUnapplied
  <2>4. ASSUME y \in SafeReplies(r.phase), r.phase # "prepare",
               ~RecoveryControls(r), ~CleanupControls(r)
        PROVE  o \in proven'
    <3>1. r.phase = "apply" /\ y \in {"applied", "restored"}
      BY <2>1, <2>4 DEF SafeReplies
    <3>2. TxnOf(r) = o /\ r = Apply(o)
      BY <1>4, <3>1, DispatchedRequests
    <3>3. CASE SettlesEdit(e, r)
      BY <1>1, <3>2, <3>3 DEF SettlesEdit
    <3>4. CASE o \in Creates /\ ~GrantPossible
      <4>1. o \in proven \/ (preparedReceipt = o /\ multiEditCleanup = NoCleanup)
        BY <3>2, <3>4, AwaitedApply DEF Owed, AnswerInv, UncertainApplyIsGrantable
      <4>2. ~(preparedReceipt = o /\ multiEditCleanup = NoCleanup)
        BY <1>1, <3>4, NoCleanupFields, SessionAssumption DEF GrantPossible, FenceInv
      <4> QED
        BY <1>1, <4>1, <4>2
    <3> QED
      BY <1>2, <1>4, <2>4, <3>1, <3>3, <3>4 DEF KeepsCleanup, SettlesCleanup, MutationPhases
  <2> QED
    BY <1>1, <1>4, <2>2, <2>3, <2>4, OwnJobCases
<1> QED
  BY <1>3, <1>4

LEMMA JobReply ==
  ASSUME RecordInv, JobInv, [Next]_vars, NEW r \in dispatched, NEW y \in AllReplies,
         ReceiveResponse(r, y) \/ ReceiveLate(r, y)
  PROVE  JobInv'
<1> USE DEF RecordInv, JobInv
<1>1. PICK late \in BOOLEAN, gone \in SUBSET {r} : Received(r, y, late, gone)
  BY ReplyFacts
<1>2. /\ r \in Owed /\ r \in Request /\ r.op \in Op /\ y \in Replies(r) /\ Accepts(r)
      /\ dispatched' = dispatched
  BY ReplySubsides, OthersSubside, RealRequest
<1>3. /\ UNCHANGED <<inflight, generation, connected, stage, target, admitted>>
      /\ job'[r.op] = OwnJob(r, y)
      /\ \A o \in Op : o # r.op => job'[o] = IF ResolvedBy(r, y, o) THEN "completed" ELSE job[o]
      /\ \A o \in Op : ResolvedBy(r, y, o) => job[o] = "outcome_unknown"
  BY <1>1, ReplyJobs DEF Received, ResolvedBy
<1>4. /\ r.op \notin JobOps => OwnJob(r, y) = job[r.op]
      /\ OwnJob(r, y) \in {job[r.op], "outcome_unknown", "failed", "completed"}
  BY <1>2, OwnJobCases
<1>5. PhasesFit'
  BY <1>2 DEF PhasesFit
<1>6. JobsFit'
  <2> SUFFICES ASSUME NEW o \in Op
               PROVE  /\ o \notin JobOps => job'[o] = "none"
                      /\ job'[o] = "outcome_unknown" => WasDispatched(o)
                      /\ job'[o] \in {"queued", "running"} => stage[o] # "done"
    BY <1>2, <1>3 DEF JobsFit, WasDispatched
  <2>1. CASE o = r.op
    <3>1. WasDispatched(o)
      BY <2>1 DEF WasDispatched
    <3> QED
      BY <1>3, <1>4, <2>1, <3>1 DEF JobsFit
  <2>2. CASE o # r.op
    BY <1>3, <2>2 DEF JobsFit
  <2> QED
    BY <2>1, <2>2
<1>7. AnsweredJobIsSettled'
  <2> SUFFICES ASSUME future' = "result", inflight.op \in JobOps
               PROVE  \/ job'[inflight.op] \in TerminalJobStates
                      \/ inflight.phase = "prepare" /\ Online(inflight.op)
    BY <1>3 DEF AnsweredJobIsSettled, Online
  <2>1. /\ r = inflight /\ y \notin {"invalid", "error", "recovery_required"}
        /\ ~late => future = "pending" /\ r \in pending
        /\ late => future = "result"
    <3>1. CASE late
      <4>1. r = inflight /\ y = reply /\ future = "result"
        BY <1>1, <3>1, LateRepeats DEF Received, Answered
      <4>2. reply \in SafeReplies(inflight.phase)
        BY <4>1 DEF OrderInv
      <4> QED
        BY <3>1, <4>1, <4>2 DEF SafeReplies
    <3>2. CASE ~late
      BY <1>1, <3>2 DEF Received, ReceiveResponse
    <3> QED
      BY <3>1, <3>2
  <2>2. Online(inflight.op)
    BY <1>2, <2>1 DEF Accepts, Online
  <2>3. CASE OwnJob(r, y) \in {"failed", "completed"}
    BY <1>3, <2>1, <2>3 DEF TerminalJobStates
  <2>4. CASE OwnJob(r, y) \notin {"failed", "completed"} /\ ~late
    <3>1. ~RecoveryControls(r) /\ ~CleanupControls(r)
      BY <2>1, <2>4, AwaitedUncontrolled
    <3> QED
      BY <1>2, <2>1, <2>2, <2>4, <3>1, OwnJobCases
  <2>5. CASE OwnJob(r, y) \notin {"failed", "completed"} /\ late
    <3>1. OwnJob(r, y) = job[r.op]
      BY <1>2, <2>1, <2>5, OwnJobCases
    <3> QED
      BY <1>3, <2>1, <2>2, <2>5, <3>1 DEF AnsweredJobIsSettled
  <2> QED
    BY <2>3, <2>4, <2>5
<1>8. LostJobIsRecorded'
  <2> SUFFICES ASSUME future' = "lost"
               PROVE  FALSE
    BY DEF LostJobIsRecorded
  <2>1. future = "lost"
    BY <1>1 DEF Received, ReceiveResponse
  <2>2. inflight \in Owed
    BY <2>1, OwedRequests DEF OrderInv
  <2>3. Online(inflight.op)
    BY <1>2, <2>2 DEF Accepts, Online, AnswerInv, SameAdmission
  <2> QED
    BY <2>1, <2>3 DEF AnswerInv, LostIsRecorded
<1>9. JobVerdictSound'
  <2>1. ASSUME NEW o \in JobOps \cap Txn
        PROVE  /\ job'[o] \in {"failed", "cancelled"} => Apply(o) \notin dispatched
               /\ job'[o] = "completed" => o \in proven'
    BY <1>1, <1>2, ReplyVerdict
  <2> QED
    BY <1>2, <2>1 DEF JobVerdictSound, Apply, Req
<1>10. UnknownJobHasSettler'
  <2> SUFFICES ASSUME NEW o \in JobOps, job'[o] = "outcome_unknown", stage[o] = "done"
               PROVE  Settler(o)'
    BY <1>3 DEF UnknownJobHasSettler
  <2>1. CASE o = r.op
    BY <1>1, <1>2, <1>3, <2>1, ReplyOwnSettler
  <2>2. CASE o # r.op
    <3>1. job[o] = "outcome_unknown" /\ ~ResolvedBy(r, y, o)
      BY <1>3, <2>2, SessionAssumption
    <3>2. Settler(o)
      BY <3>1 DEF UnknownJobHasSettler
    <3> QED
      BY <1>1, <1>2, <2>2, <3>1, <3>2, ReplyOtherSettler
  <2> QED
    BY <2>1, <2>2
<1> QED
  BY <1>5, <1>6, <1>7, <1>8, <1>9, <1>10

(* What the end of a connection makes of one job.                          *)
LEMMA CloseJob ==
  ASSUME RecordInv, JobInv, Closes, NEW o \in Op
  PROVE  /\ stage'[o] = IF o \in DroppedJobs THEN "done" ELSE stage[o]
         /\ job[o] \in TerminalJobStates => job'[o] = job[o]
         /\ job[o] \notin TerminalJobStates =>
              /\ job'[o] \in {"failed", "outcome_unknown"}
              /\ job'[o] = "outcome_unknown" =>
                   /\ WasDispatched(o)
                   /\ ~(Kind[o] = "multi" /\ Apply(o) \notin dispatched)
                   /\ \A u \in uncertainRequests \cup pending : u.op = o => u \in uncertainRequests'
              /\ job'[o] = "failed" /\ o \in Txn => Apply(o) \notin dispatched
<1> USE DEF RecordInv, JobInv
<1>1. /\ job[o] \in TerminalJobStates => JobAfterDisconnect(o) = job[o]
      /\ job[o] \notin TerminalJobStates =>
           \/ /\ JobAfterDisconnect(o) = "outcome_unknown"
              /\ WasDispatched(o) /\ ~(Kind[o] = "multi" /\ Apply(o) \notin dispatched)
           \/ /\ JobAfterDisconnect(o) = "failed"
              /\ ~WasDispatched(o) \/ (Kind[o] = "multi" /\ Apply(o) \notin dispatched)
  BY DEF JobAfterDisconnect, Apply
<1>2. ~WasDispatched(o) => Apply(o) \notin dispatched
  BY DEF WasDispatched, Apply, Req
<1>3. "outcome_unknown" \notin TerminalJobStates
  BY DEF TerminalJobStates
<1>4. CASE Disconnect
  <2>1. /\ job'[o] = JobAfterDisconnect(o)
        /\ uncertainRequests' = uncertainRequests \cup pending
        /\ stage'[o] = IF o \in DroppedJobs THEN "done" ELSE stage[o]
    BY <1>4 DEF Disconnect, CloseConnection
  <2> QED
    BY <1>1, <1>2, <1>3, <2>1
<1>5. ASSUME NEW settled \in SUBSET dispatched, Reconnect(settled)
      PROVE  /\ stage'[o] = IF o \in DroppedJobs THEN "done" ELSE stage[o]
             /\ job[o] \in TerminalJobStates => job'[o] = job[o]
             /\ job[o] \notin TerminalJobStates =>
                  /\ job'[o] \in {"failed", "outcome_unknown"}
                  /\ job'[o] = "outcome_unknown" =>
                       /\ WasDispatched(o)
                       /\ ~(Kind[o] = "multi" /\ Apply(o) \notin dispatched)
                       /\ \A u \in uncertainRequests \cup pending : u.op = o => u \in uncertainRequests'
                  /\ job'[o] = "failed" /\ o \in Txn => Apply(o) \notin dispatched
  <2> DEFINE named == \E r \in Settleable(settled) : r.op = o
  <2>1. /\ job'[o] = IF JobAfterDisconnect(o) = "outcome_unknown" /\ named
                     THEN "failed" ELSE JobAfterDisconnect(o)
        /\ uncertainRequests' = (uncertainRequests \cup pending) \ Settleable(settled)
        /\ stage'[o] = IF o \in DroppedJobs THEN "done" ELSE stage[o]
        /\ settled \subseteq uncertainRequests \cup pending
    BY <1>5 DEF Reconnect, CloseConnection
  <2>2. ASSUME named, o \in Txn
        PROVE  Apply(o) \notin dispatched
    <3>1. PICK r \in Settleable(settled) : r.op = o
      BY <2>2
    <3>2. r \in Owed /\ r \in dispatched /\ r.phase \notin MutationPhases
      BY <2>1, <3>1, OwedRequests DEF Settleable
    <3>3. r.phase = "prepare"
      BY <2>2, <3>1, <3>2, EditPhases DEF MutationPhases
    <3> QED
      BY <3>1, <3>2, <3>3 DEF AnswerInv, PrepareIsUnapplied
  <2>3. ~named => \A u \in uncertainRequests \cup pending : u.op = o => u \in uncertainRequests'
    BY <2>1
  <2> HIDE DEF named
  <2> QED
    BY <1>1, <1>2, <1>3, <2>1, <2>2, <2>3
<1> QED
  BY <1>4, <1>5 DEF Closes

LEMMA JobCloses ==
  ASSUME RecordInv, JobInv, [Next]_vars, Closes
  PROVE  JobInv'
<1> USE DEF RecordInv, JobInv
<1>1. /\ inflight' = inflight
      /\ future' = IF future = "pending" THEN "lost" ELSE future
      /\ UNCHANGED <<target, admitted, multiEditRecovery, proven>>
      /\ dispatched' = dispatched
  BY ClosesFacts DEF dispatched
<1>2. \A o \in Op :
         /\ stage'[o] = IF o \in DroppedJobs THEN "done" ELSE stage[o]
         /\ job[o] \in TerminalJobStates => job'[o] = job[o]
         /\ job[o] \notin TerminalJobStates =>
              /\ job'[o] \in {"failed", "outcome_unknown"}
              /\ job'[o] = "outcome_unknown" =>
                   /\ WasDispatched(o)
                   /\ ~(Kind[o] = "multi" /\ Apply(o) \notin dispatched)
                   /\ \A u \in uncertainRequests \cup pending : u.op = o => u \in uncertainRequests'
              /\ job'[o] = "failed" /\ o \in Txn => Apply(o) \notin dispatched
  BY CloseJob
<1>3. PhasesFit'
  BY <1>1 DEF PhasesFit
<1>4. JobsFit'
  <2> SUFFICES ASSUME NEW o \in Op
               PROVE  /\ o \notin JobOps => job'[o] = "none"
                      /\ job'[o] = "outcome_unknown" => WasDispatched(o)
                      /\ job'[o] \notin {"queued", "running"}
    BY <1>1 DEF JobsFit, WasDispatched
  <2> QED
    BY <1>2 DEF JobsFit, TerminalJobStates
<1>5. AnsweredJobIsSettled'
  <2> SUFFICES ASSUME future = "result", inflight.op \in JobOps
               PROVE  job'[inflight.op] \in TerminalJobStates
    BY <1>1 DEF AnsweredJobIsSettled
  <2>1. inflight.op \in Op
    BY SessionAssumption
  <2>2. CASE job[inflight.op] \in TerminalJobStates
    BY <1>2, <2>1, <2>2
  <2>3. CASE job[inflight.op] \notin TerminalJobStates
    <3>1. inflight.phase = "prepare"
      BY <2>3 DEF AnsweredJobIsSettled
    <3>2. inflight \in dispatched /\ Apply(inflight.op) \notin dispatched
      BY <3>1, RealRequest DEF FenceInv, RecordsWereDispatched
    <3>3. Kind[inflight.op] = "multi"
      BY <3>1, <3>2 DEF FenceInv, RequestsHaveOwners
    <3> QED
      BY <1>2, <2>1, <2>3, <3>2, <3>3 DEF TerminalJobStates
  <2> QED
    BY <2>2, <2>3
<1>6. LostJobIsRecorded'
  <2> SUFFICES ASSUME future \in {"pending", "lost"}, inflight.op \in JobOps
               PROVE  job'[inflight.op] \in TerminalJobStates \/ inflight \in uncertainRequests'
    BY <1>1 DEF LostJobIsRecorded
  <2>1. inflight.op \in Op
    BY SessionAssumption
  <2>2. CASE job[inflight.op] \in TerminalJobStates
    BY <1>2, <2>1, <2>2
  <2>3. CASE job[inflight.op] \notin TerminalJobStates
    <3>1. inflight \in uncertainRequests \cup pending
      BY <2>3 DEF LostJobIsRecorded, OrderInv
    <3> QED
      BY <1>2, <2>1, <2>3, <3>1 DEF TerminalJobStates
  <2> QED
    BY <2>2, <2>3
<1>7. JobVerdictSound'
  <2> SUFFICES ASSUME NEW o \in JobOps \cap Txn
               PROVE  /\ job'[o] \in {"failed", "cancelled"} => Apply(o) \notin dispatched
                      /\ job'[o] = "completed" => o \in proven
    BY <1>1 DEF JobVerdictSound, Apply, Req
  <2> QED
    BY <1>2 DEF JobVerdictSound, Txn
<1>8. UnknownJobHasSettler'
  <2> SUFFICES ASSUME NEW o \in JobOps, job'[o] = "outcome_unknown", stage'[o] = "done"
               PROVE  Settler(o)'
    BY DEF UnknownJobHasSettler
  <2>1. o \in Op /\ job[o] \in JobStates
    BY SessionAssumption DEF FenceInv, TypeOK
  <2>2. /\ job[o] \notin TerminalJobStates /\ WasDispatched(o)
        /\ \A u \in uncertainRequests \cup pending : u.op = o => u \in uncertainRequests'
    BY <1>2, <2>1 DEF TerminalJobStates
  <2>3. stage[o] \in {"waiting", "done"}
    BY <2>2 DEF WasDispatched, FenceInv, RequestsHaveOwners
  <2>4. stage[o] = "done"
    BY <1>2, <2>1, <2>3 DEF DroppedJobs, Queued
  <2>5. job[o] = "outcome_unknown"
    BY <2>1, <2>2, <2>4 DEF JobsFit, JobStates, TerminalJobStates
  <2>6. Settler(o)
    BY <2>4, <2>5 DEF UnknownJobHasSettler
  <2>7. GrantStays
    BY ConnectionSubsides DEF Closes
  <2> QED
    BY <1>1, <2>2, <2>6, <2>7, SettlerKept
<1> QED
  BY <1>3, <1>4, <1>5, <1>6, <1>7, <1>8

LEMMA JobStep == RecordInv /\ JobInv /\ [Next]_vars => JobInv'
<1> SUFFICES ASSUME RecordInv, JobInv, [Next]_vars
             PROVE  JobInv'
  OBVIOUS
<1>1. \/ \E r \in Request, prep \in Txn \cup {None} : Sends(r, prep)
      \/ \E o \in Op : Leaves(o)
      \/ \E r \in dispatched, y \in AllReplies : ReceiveResponse(r, y) \/ ReceiveLate(r, y)
      \/ Closes
      \/ Rests
  BY StepKinds DEF RecordInv
<1> QED
  BY <1>1, JobSends, JobLeaves, JobReply, JobCloses, JobRests

LEMMA JobInit == Init => JobInv
<1> SUFFICES ASSUME Init
             PROVE  JobInv
  OBVIOUS
<1>1. dispatched = {} /\ future = "none" /\ \A o \in Op : job[o] = "none"
  BY DEF Init, dispatched, ToSet
<1> QED
  BY <1>1, SessionAssumption
     DEF JobInv, PhasesFit, JobsFit, AnsweredJobIsSettled, LostJobIsRecorded,
         JobVerdictSound, UnknownJobHasSettler

(* The inductive invariant behind the verdicts of jobs.                    *)
THEOREM SessionJobInvariant == Spec => []JobInv
<1>1. RecordInv /\ JobInv /\ [Next]_vars => JobInv'
  BY JobStep
<1> QED
  BY <1>1, JobInit, SessionInvariant, GrantInvariant, SessionAnswers, PTL DEF Spec, RecordInv

(* A multi-edit's job that is reported failed or cancelled never had its   *)
(* apply dispatched, and one reported completed has a proven outcome,      *)
(* whatever the timeouts, disconnects, reconnects and late responses.      *)
THEOREM SessionVerdicts == Spec => []JobVerdictSound
<1>1. JobInv => JobVerdictSound
  BY DEF JobInv
<1> QED
  BY <1>1, SessionJobInvariant, PTL

(* A finished job of unknown outcome still has something that can settle   *)
(* it: a request that may be answered late, or a fence or a used grant on  *)
(* its transaction.                                                        *)
THEOREM SessionEvidence == Spec => []UnknownJobHasEvidence
<1>1. RecordInv /\ JobInv => UnknownJobHasEvidence
  <2> SUFFICES ASSUME RecordInv, JobInv, NEW o \in JobOps, job[o] = "outcome_unknown",
                      stage[o] = "done"
               PROVE  \/ \E u \in uncertainRequests \cup pending :
                           u.op = o \/ (TxnOf(u) = target[o] /\ target[o] # None)
                      \/ target[o] \in {multiEditRecovery.txn, multiEditCleanup.txn} \ {None}
    BY DEF UnknownJobHasEvidence
  <2>1. Settler(o)
    BY DEF JobInv, UnknownJobHasSettler
  <2>2. Kind[o] \in {"multi", "recover", "cleanup"} => target[o] # None
    BY KnownTargets, SessionAssumption DEF RecordInv
  <2> QED
    BY <2>1, <2>2 DEF Settler
<1> QED
  BY <1>1, SessionJobInvariant, SessionInvariant, GrantInvariant, SessionAnswers, PTL DEF RecordInv
=============================================================================

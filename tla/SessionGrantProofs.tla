-------------------------- MODULE SessionGrantProofs --------------------------
(***************************************************************************)
(* Proofs about the grant to delete created scripts and about what the     *)
(* session shows of its obligations: the reason clients read and the       *)
(* verdict the retirement sweep reads.                                     *)
(***************************************************************************)
EXTENDS SessionProofs

(***************************************************************************)
(* The inductive invariant behind CleanupKept, ShownCoversObligations and  *)
(* TerminalVerdictExact.                                                   *)
(***************************************************************************)

(* A cleanup was dispatched under the grant.                               *)
Used(c) == c.state \notin {"none", "available"}

(* A cleanup that is owed still has the grant it was dispatched under, or  *)
(* there is no grant left; while it is awaited the grant names it.         *)
CleanupHasGrant ==
  /\ multiEditCleanup.state = "none" => multiEditCleanup = NoCleanup
  /\ \A u \in Owed :
       u.phase = "cleanup" =>
         \/ multiEditCleanup = NoCleanup
         \/ /\ Used(multiEditCleanup)
            /\ multiEditCleanup.txn = TxnOf(u)
            /\ multiEditCleanup.generation = admitted[u.op]
  /\ \A u \in pending :
       u.phase = "cleanup" =>
         multiEditCleanup # NoCleanup /\ multiEditCleanup.dispatched = u

(* Nothing else is awaited while a used grant stands, and an unused grant  *)
(* does not outlive the connection.                                        *)
GrantStandsAlone ==
  /\ inflight.phase \notin {"none", "cleanup"} => ~Used(multiEditCleanup)
  /\ ~connected => multiEditCleanup.state # "available"

GrantInv ==
  /\ CleanupHasGrant
  /\ GrantStandsAlone

(***************************************************************************)
(* Lemmas about the operators on grants                                    *)
(***************************************************************************)

LEMMA NoCleanupFields ==
  /\ NoCleanup.state = "none" /\ NoCleanup.txn = None /\ ~Used(NoCleanup)
  /\ TypeOK => Expired(NoCleanup) = NoCleanup
BY SessionAssumption DEF NoCleanup, Used, Expired, TypeOK, Txn

(* Expiry drops a grant only if no cleanup was dispatched under it.        *)
LEMMA ExpiredGrant ==
  ASSUME TypeOK, NEW c \in Cleanups, c.state = "none" => c = NoCleanup
  PROVE  /\ ~Used(c) => Expired(c) \in {c, NoCleanup}
         /\ Used(c) => /\ Used(Expired(c)) /\ Expired(c) # NoCleanup
                       /\ Expired(c).txn = c.txn
                       /\ Expired(c).generation = c.generation
                       /\ Expired(c).dispatched = c.dispatched
<1>1. CASE c.txn \notin due
  BY <1>1 DEF Expired, Used, NoCleanup
<1>2. CASE c.txn \in due /\ c.state = "available"
  BY <1>2 DEF Expired, Used
<1>3. CASE c.txn \in due /\ c.state # "available"
  <2> DEFINE x == [c EXCEPT !.state = "cleanup_expired_settlement"]
  <2>1. Expired(c) = x
    BY <1>3 DEF Expired
  <2>2. /\ x.state = "cleanup_expired_settlement" /\ x.txn = c.txn
        /\ x.generation = c.generation /\ x.dispatched = c.dispatched
    BY DEF Cleanups
  <2> HIDE DEF x
  <2>4. CASE Used(c)
    BY <2>1, <2>2, <2>4 DEF Used, NoCleanup
  <2>5. CASE ~Used(c)
    BY <1>3, <2>5, NoCleanupFields DEF Used
  <2> QED
    BY <2>4, <2>5
<1> QED
  BY <1>1, <1>2, <1>3

(* A cleanup whose receipt proves nothing keeps its grant, and is named.   *)
LEMMA RequiredGrant ==
  ASSUME TypeOK, NEW c \in Cleanups, c.state = "none" => c = NoCleanup, NEW r \in Request,
         Used(c) => c.generation = admitted[r.op]
  PROVE  /\ c = NoCleanup => CleanupRequired(c, r) = NoCleanup
         /\ Used(c) => /\ Used(CleanupRequired(c, r)) /\ CleanupRequired(c, r) # NoCleanup
                       /\ CleanupRequired(c, r).txn = c.txn
                       /\ CleanupRequired(c, r).generation = c.generation
                       /\ CleanupRequired(c, r).dispatched = r
<1>1. CASE c = NoCleanup
  BY <1>1, NoCleanupFields DEF CleanupRequired
<1>2. CASE Used(c)
  <2> DEFINE x == Expired(c)
             z == [x EXCEPT !.dispatched = r,
                     !.state = IF @ = "cleanup_expired_settlement" THEN @ ELSE "cleanup_required"]
  <2>1. x \in Cleanups /\ x # NoCleanup /\ x.txn = c.txn /\ x.generation = c.generation
    BY <1>2, ExpiredGrant, ExpiredType
  <2>2. CleanupRequired(c, r) = z
    BY <1>2, <2>1, NoCleanupFields DEF CleanupRequired
  <2> HIDE DEF x
  <2>3. /\ z.state \in {"cleanup_expired_settlement", "cleanup_required"}
        /\ z.txn = x.txn /\ z.generation = x.generation /\ z.dispatched = r
    BY <2>1 DEF Cleanups
  <2> HIDE DEF z
  <2> QED
    BY <1>2, <2>1, <2>2, <2>3, NoCleanupFields DEF Used
<1> QED
  BY <1>1, <1>2, NoCleanupFields

(***************************************************************************)
(* Steps that leave the grant to its owner                                 *)
(***************************************************************************)

(* Whoever an operation concerns, and the connection it was admitted       *)
(* under, are fixed once it has sent a request.                            *)
LEMMA OwnersKept ==
  ASSUME FenceInv, [Next]_vars
  PROVE  \A u \in dispatched : target'[u.op] = target[u.op] /\ admitted'[u.op] = admitted[u.op]
<1>1. \A u \in dispatched : u.op \in Op /\ stage[u.op] # "idle"
  BY DispatchedRequests, RealRequest DEF FenceInv, RequestsHaveOwners
<1>2. ASSUME NEW o \in Op, NEW t \in Txn \cup {None}, Submit(o, t)
      PROVE  \A u \in dispatched : target'[u.op] = target[u.op] /\ admitted'[u.op] = admitted[u.op]
  BY <1>1, <1>2 DEF Submit, FenceInv, TypeOK
<1>3. ASSUME \E o \in Op : \/ Begin(o) \/ Refuse(o) \/ Resume(o)
                           \/ Timeout(o) \/ CancelWait(o) \/ CancelQueued(o)
      PROVE  UNCHANGED <<target, admitted>>
  BY <1>3 DEF Begin, Dispatch, Refuse, Resume, ContinueToApply, ApplyNotDispatched, Return,
              RaiseRemoteError, RaiseOffline, Timeout, CancelWait, Raise, CancelQueued
<1>4. ASSUME Respond
      PROVE  UNCHANGED <<target, admitted>>
  BY <1>4 DEF Respond, ReceiveResponse, ReceiveLate, ops
<1>5. ASSUME \/ Disconnect \/ \E settled \in SUBSET dispatched : Reconnect(settled)
             \/ \E t \in Txn : DeadlinePasses(t)
             \/ \E m \in Modes : ModeEvent(m)
             \/ Snapshot \/ PlayBridge \/ UNCHANGED vars
      PROVE  UNCHANGED <<target, admitted>>
  BY <1>5 DEF Disconnect, Reconnect, CloseConnection, DeadlinePasses, ModeEvent, Snapshot,
              PlayBridge, vars, ops
<1> QED
  BY <1>2, <1>3, <1>4, <1>5 DEF Next

(* What is owed: requests that were dispatched, the awaited one among them.*)
LEMMA OwedRequests ==
  ASSUME FenceInv
  PROVE  /\ Owed \subseteq dispatched /\ dispatched \subseteq Request
         /\ pending \subseteq Owed /\ uncertainRequests \subseteq Owed
         /\ inflight # NoRequest => inflight \in Owed
BY DispatchedRequests DEF Owed, FenceInv, RecordsWereDispatched

(* The grant is the same or has expired, or a cleanup that stays owed      *)
(* marks it; if it lapses, no cleanup was dispatched under it.             *)
GrantStays ==
  /\ ~Used(multiEditCleanup) => multiEditCleanup' \in {multiEditCleanup, NoCleanup}
  /\ Used(multiEditCleanup) =>
       /\ Used(multiEditCleanup') /\ multiEditCleanup' # NoCleanup
       /\ multiEditCleanup'.txn = multiEditCleanup.txn
       /\ multiEditCleanup'.generation = multiEditCleanup.generation
       /\ multiEditCleanup'.dispatched = multiEditCleanup.dispatched \/ pending' = {}
  /\ ~connected' => multiEditCleanup'.state # "available"

(* No request joins what is owed.                                          *)
Subsides ==
  /\ Owed' \subseteq Owed
  /\ pending' \subseteq pending
  /\ inflight' \in {inflight, NoRequest}

LEMMA GrantPreserved ==
  ASSUME FenceInv, GrantInv, [Next]_vars, GrantStays, Subsides
  PROVE  GrantInv'
<1>1. \A u \in Owed' : u \in Owed /\ TxnOf(u)' = TxnOf(u) /\ admitted'[u.op] = admitted[u.op]
  BY OwnersKept, OwedRequests DEF Subsides, TxnOf
<1>2. CASE Used(multiEditCleanup)
  <2>1. CleanupHasGrant'
    <3>1. \A u \in Owed' :
            u.phase = "cleanup" => /\ Used(multiEditCleanup')
                                   /\ multiEditCleanup'.txn = TxnOf(u)'
                                   /\ multiEditCleanup'.generation = admitted'[u.op]
      BY <1>1, <1>2, NoCleanupFields DEF GrantInv, CleanupHasGrant, GrantStays
    <3>2. \A u \in pending' :
            u.phase = "cleanup" => multiEditCleanup' # NoCleanup /\ multiEditCleanup'.dispatched = u
      BY <1>2 DEF GrantInv, CleanupHasGrant, GrantStays, Subsides
    <3>3. multiEditCleanup'.state # "none"
      BY <1>2 DEF GrantStays, Used
    <3> QED
      BY <3>1, <3>2, <3>3 DEF CleanupHasGrant, TxnOf, Used
  <2>2. GrantStandsAlone'
    BY <1>2 DEF GrantInv, GrantStandsAlone, GrantStays, Subsides, NoRequest, Used
  <2> QED
    BY <2>1, <2>2 DEF GrantInv
<1>3. CASE ~Used(multiEditCleanup)
  <2>1. multiEditCleanup' \in {multiEditCleanup, NoCleanup} /\ ~Used(multiEditCleanup')
    BY <1>3, NoCleanupFields DEF GrantStays
  <2>2. \A u \in Owed : u.phase = "cleanup" => multiEditCleanup' = NoCleanup
    BY <1>3, <2>1 DEF GrantInv, CleanupHasGrant
  <2>3. \A u \in pending : u.phase # "cleanup"
    BY <1>3, OwedRequests DEF GrantInv, CleanupHasGrant
  <2>4. CleanupHasGrant'
    BY <1>1, <2>1, <2>2, <2>3, NoCleanupFields DEF GrantInv, CleanupHasGrant, Subsides
  <2>5. GrantStandsAlone'
    BY <2>1 DEF GrantStandsAlone, GrantStays, Used
  <2> QED
    BY <2>4, <2>5 DEF GrantInv
<1> QED
  BY <1>2, <1>3

LEMMA ExpiryStays ==
  ASSUME TypeOK, GrantInv, multiEditCleanup' \in {multiEditCleanup, Expired(multiEditCleanup)},
         connected' = connected
  PROVE  GrantStays
BY ExpiredGrant, NoCleanupFields
   DEF GrantStays, GrantInv, CleanupHasGrant, GrantStandsAlone, TypeOK, Used, NoCleanup

LEMMA LapseStays ==
  ASSUME TypeOK, GrantInv, CloseConnection
  PROVE  GrantStays
<1>1. multiEditCleanup' = IF Expired(multiEditCleanup).state = "available" THEN NoCleanup
                          ELSE Expired(multiEditCleanup)
  BY DEF CloseConnection
<1>2. multiEditCleanup \in Cleanups /\ (multiEditCleanup.state = "none" => multiEditCleanup = NoCleanup)
  BY DEF TypeOK, GrantInv, CleanupHasGrant
<1>3. multiEditCleanup'.state # "available"
  BY <1>1, NoCleanupFields
<1>4. CASE Used(multiEditCleanup)
  BY <1>1, <1>2, <1>3, <1>4, ExpiredGrant DEF GrantStays, Used
<1>5. CASE ~Used(multiEditCleanup)
  BY <1>1, <1>2, <1>3, <1>5, ExpiredGrant DEF GrantStays, Used
<1> QED
  BY <1>4, <1>5

LEMMA RequiredStays ==
  ASSUME FenceInv, GrantInv, NEW r \in Owed, r.phase = "cleanup",
         multiEditCleanup' = CleanupRequired(multiEditCleanup, r),
         pending' = {}, connected' = connected
  PROVE  GrantStays
<1>1. r \in Request /\ multiEditCleanup \in Cleanups /\ TypeOK
  BY OwedRequests DEF FenceInv, TypeOK
<1>2. /\ multiEditCleanup.state = "none" => multiEditCleanup = NoCleanup
      /\ multiEditCleanup = NoCleanup
         \/ (Used(multiEditCleanup) /\ multiEditCleanup.generation = admitted[r.op])
  BY DEF GrantInv, CleanupHasGrant
<1> QED
  BY <1>1, <1>2, RequiredGrant, NoCleanupFields DEF GrantStays, Used, NoCleanup

(***************************************************************************)
(* The actions that send no request and receive no response                *)
(***************************************************************************)

LEMMA QuietSubsides ==
  ASSUME FenceInv, GrantInv,
         \/ \E o \in Op : \/ \E t \in Txn \cup {None} : Submit(o, t)
                         \/ Refuse(o) \/ CancelQueued(o)
         \/ \E t \in Txn : DeadlinePasses(t)
         \/ \E m \in Modes : ModeEvent(m)
         \/ Snapshot \/ PlayBridge \/ UNCHANGED vars
  PROVE  GrantStays /\ Subsides
<1>1. /\ UNCHANGED <<inflight, pending, uncertainRequests, connected>>
      /\ multiEditCleanup' \in {multiEditCleanup, Expired(multiEditCleanup)}
  BY DEF Submit, Refuse, CancelQueued, DeadlinePasses, ModeEvent, Snapshot, PlayBridge,
         vars, conn, waiter, unproven, fences
<1>2. GrantStays
  BY <1>1, ExpiryStays DEF FenceInv
<1> QED
  BY <1>1, <1>2 DEF Subsides, Owed

(* The holder of the lock leaves.                                          *)
LEMMA LeaveSubsides ==
  ASSUME FenceInv, NEW o \in Op, inflight.op = o, Leave(o),
         uncertainRequests' \subseteq uncertainRequests \cup {inflight}
  PROVE  Subsides /\ pending' = {} /\ inflight \in Owed
<1>1. inflight # NoRequest
  BY RealRequest, SessionAssumption
<1> QED
  BY <1>1 DEF Subsides, Leave, Owed, FenceInv, RecordsWereDispatched

LEMMA RaiseSubsides ==
  ASSUME FenceInv, GrantInv, NEW o \in Op, inflight.op = o, NEW offline,
         NEW unc \in SUBSET {inflight}, NEW cl, NEW s, Raise(o, offline, unc, cl, s),
         \/ cl = multiEditCleanup
         \/ inflight.phase = "cleanup" /\ cl = CleanupRequired(multiEditCleanup, inflight)
  PROVE  GrantStays /\ Subsides
<1>1. Subsides /\ pending' = {} /\ inflight \in Owed
  BY LeaveSubsides DEF Raise
<1>2. connected' = connected /\ multiEditCleanup' = cl
  BY DEF Raise, conn
<1> QED
  BY <1>1, <1>2, ExpiryStays, RequiredStays DEF FenceInv

LEMMA WaiterSubsides ==
  ASSUME FenceInv, GrantInv, NEW o \in Op,
         \/ ApplyNotDispatched(o) \/ Return(o) \/ RaiseRemoteError(o) \/ RaiseOffline(o)
         \/ Timeout(o) \/ CancelWait(o)
  PROVE  GrantStays /\ Subsides
<1>1. CASE ApplyNotDispatched(o) \/ Return(o)
  <2>1. /\ inflight.op = o /\ Leave(o) /\ connected' = connected
        /\ uncertainRequests' = uncertainRequests
        /\ multiEditCleanup' \in {multiEditCleanup, Expired(multiEditCleanup)}
    <3>1. CASE ApplyNotDispatched(o)
      BY <3>1 DEF ApplyNotDispatched, conn, unproven, Req
    <3>2. CASE Return(o)
      BY <3>2 DEF Return, conn, unproven
    <3> QED
      BY <1>1, <3>1, <3>2
  <2> QED
    BY <2>1, LeaveSubsides, ExpiryStays DEF FenceInv
<1>2. CASE RaiseRemoteError(o) \/ RaiseOffline(o)
  BY <1>2, RaiseSubsides DEF RaiseRemoteError, RaiseOffline
<1>3. CASE Timeout(o)
  BY <1>3, RaiseSubsides DEF Timeout
<1>4. CASE CancelWait(o)
  <2> DEFINE unc == IF future = "pending" THEN {inflight} ELSE {}
             cl == IF unc # {} /\ inflight.phase = "cleanup"
                   THEN CleanupRequired(multiEditCleanup, inflight) ELSE multiEditCleanup
             s == IF unc # {} THEN "outcome_unknown" ELSE uncertaintyState
  <2>1. inflight.op = o /\ unc \in SUBSET {inflight} /\ Raise(o, FALSE, unc, cl, s)
    BY <1>4 DEF CancelWait
  <2>2. \/ cl = multiEditCleanup
        \/ inflight.phase = "cleanup" /\ cl = CleanupRequired(multiEditCleanup, inflight)
    OBVIOUS
  <2> HIDE DEF unc, cl, s
  <2> QED
    BY <2>1, <2>2, RaiseSubsides
<1> QED
  BY <1>1, <1>2, <1>3, <1>4

LEMMA ConnectionSubsides ==
  ASSUME FenceInv, GrantInv, Disconnect \/ \E settled \in SUBSET dispatched : Reconnect(settled)
  PROVE  GrantStays /\ Subsides
<1>1. CloseConnection
  BY DEF Disconnect, Reconnect
<1>2. uncertainRequests' \subseteq uncertainRequests \cup pending
  BY DEF Disconnect, Reconnect
<1>3. Subsides
  BY <1>1, <1>2, OwedRequests DEF CloseConnection, Subsides, Owed
<1> QED
  BY <1>1, <1>3, LapseStays DEF FenceInv

(***************************************************************************)
(* A request leaves                                                        *)
(***************************************************************************)

LEMMA GrantDispatch ==
  ASSUME FenceInv, GrantInv, [Next]_vars, NEW r \in Request, NEW prep,
         Admissible(r, prep), Dispatch(r, prep),
         target'[r.op] = target[r.op], admitted'[r.op] = admitted[r.op]
  PROVE  GrantInv'
<1> DEFINE c == Expired(multiEditCleanup)
<1>1. c \in Cleanups /\ (c.state = "none" => c = NoCleanup)
  BY ExpiredType, ExpiredGrant DEF FenceInv, TypeOK, GrantInv, CleanupHasGrant, Used
<1>2. /\ inflight' = r /\ pending' \subseteq {r} /\ uncertainRequests' = uncertainRequests
      /\ connected' /\ r # NoRequest /\ r.phase # "none"
  BY RealRequest DEF Dispatch, Admissible, Online, conn, unproven, FenceInv,
                     RecordsWereDispatched, Phases
<1>3. Owed' = uncertainRequests \cup {r}
  BY <1>2 DEF Owed
<1>4. \A u \in uncertainRequests : TxnOf(u)' = TxnOf(u) /\ admitted'[u.op] = admitted[u.op]
  BY OwnersKept, OwedRequests DEF TxnOf
<1>5. CASE r.phase = "cleanup"
  <2>1. CleanupAllowed(r, c)
    BY <1>5 DEF Admissible
  <2> DEFINE x == [c EXCEPT !.dispatched = r, !.state = "cleanup_dispatched"]
  <2>2. multiEditCleanup' = x
    BY <1>5 DEF Dispatch
  <2>3. /\ x.state = "cleanup_dispatched" /\ x.dispatched = r
        /\ x.txn = c.txn /\ x.generation = c.generation
    BY <1>1 DEF Cleanups
  <2> HIDE DEF x
  <2>4. Used(multiEditCleanup') /\ multiEditCleanup' # NoCleanup
    BY <2>2, <2>3, NoCleanupFields DEF Used
  <2>5. \A u \in Owed' : TxnOf(u) = c.txn /\ admitted[u.op] = c.generation
    BY <1>3, <2>1 DEF CleanupAllowed, FenceInv, RecordsWereDispatched
  <2>6. \A u \in Owed' : TxnOf(u)' = c.txn /\ admitted'[u.op] = c.generation
    BY <1>3, <1>4, <2>5 DEF TxnOf
  <2>7. CleanupHasGrant'
    BY <1>2, <2>2, <2>3, <2>4, <2>6 DEF CleanupHasGrant
  <2>8. GrantStandsAlone'
    BY <1>2, <1>5 DEF GrantStandsAlone
  <2> QED
    BY <2>7, <2>8 DEF GrantInv
<1>6. CASE r.phase # "cleanup"
  <2>1. multiEditCleanup' = c
    BY <1>6 DEF Dispatch
  <2>2. ~Used(c)
    BY <1>6, NoCleanupFields DEF Admissible, CleanupAllowed, CompatibleWithCleanup, Used
  <2>3. \A u \in uncertainRequests : u.phase # "cleanup"
    BY <1>6 DEF Admissible, CleanupAllowed, RecoveryAllowed
  <2>4. CleanupHasGrant'
    BY <1>1, <1>2, <1>3, <1>6, <2>1, <2>3 DEF CleanupHasGrant
  <2>5. GrantStandsAlone'
    BY <1>2, <2>1, <2>2 DEF GrantStandsAlone
  <2> QED
    BY <2>4, <2>5 DEF GrantInv
<1> QED
  BY <1>5, <1>6

(***************************************************************************)
(* A response                                                              *)
(***************************************************************************)

(* A late receipt for a cleanup that a later request controls is evidence  *)
(* only.                                                                   *)
LEMMA ControlledCleanup ==
  ASSUME NEW r, NEW y, CleanupControls(r)
  PROVE  LET e == Effect(r, y, TRUE)
         IN  /\ e.unc = uncertainRequests /\ e.rec = multiEditRecovery
             /\ e.prep = preparedReceipt /\ e.cl = multiEditCleanup
             /\ e.shown = uncertaintyState /\ e.proves = {}
BY DEF Effect

(* While a cleanup is awaited it controls its grant.                       *)
LEMMA AwaitedControls ==
  ASSUME FenceInv, GrantInv, NEW r \in Owed, r.phase = "cleanup", r \notin pending, Accepts(r)
  PROVE  pending = {} \/ CleanupControls(r)
<1> SUFFICES ASSUME NEW p \in pending
             PROVE  CleanupControls(r)
  OBVIOUS
<1>1. p \in Owed /\ p # r /\ p # NoRequest /\ r # NoRequest
  BY OwedRequests, RealRequest
<1>2. p.phase = "cleanup"
  BY <1>1 DEF FenceInv, OneSubject, EditRequest
<1>3. multiEditCleanup # NoCleanup /\ multiEditCleanup.dispatched = p
  BY <1>2 DEF GrantInv, CleanupHasGrant
<1>4. multiEditCleanup.txn = TxnOf(r) /\ multiEditCleanup.generation = admitted[r.op]
  BY <1>3 DEF GrantInv, CleanupHasGrant
<1> QED
  BY <1>1, <1>3, <1>4 DEF CleanupControls, Accepts

(* A grant is made only where no grant stands.                             *)
LEMMA EffectGrants ==
  ASSUME NEW r, NEW y, NEW late
  PROVE  LET e == Effect(r, y, late)
         IN  \/ e.cl = multiEditCleanup
             \/ r.phase = "cleanup"
             \/ EditRequest(r) /\ GrantPossible /\ e.cl = GrantFor(r)
BY DEF Effect, EditRequest, MutationPhases

(* What a response changes of what is owed, either way it is received.     *)
LEMMA ReplySubsides ==
  ASSUME FenceInv, NEW r \in dispatched, NEW y, ReceiveResponse(r, y) \/ ReceiveLate(r, y)
  PROVE  /\ r \in Owed /\ r \in Request /\ y \in Replies(r) /\ Accepts(r) /\ connected'
         /\ Subsides
         /\ ReceiveResponse(r, y) => r \in pending /\ pending' = {} /\ r \notin uncertainRequests
         /\ ReceiveLate(r, y) => r \in uncertainRequests /\ r \notin pending /\ pending' = pending
         /\ \E late \in BOOLEAN :
              /\ late <=> ReceiveLate(r, y)
              /\ multiEditCleanup' = Effect(r, y, late).cl
              /\ multiEditRecovery' = Effect(r, y, late).rec
              /\ uncertainRequests' \subseteq Effect(r, y, late).unc
<1>1. r \in Request /\ y \in Replies(r) /\ Accepts(r) /\ connected' /\ inflight' = inflight
  <2>1. r \in Request
    BY DispatchedRequests
  <2>2. CASE ReceiveResponse(r, y)
    BY <2>1, <2>2 DEF ReceiveResponse, Accepts
  <2>3. CASE ReceiveLate(r, y)
    BY <2>1, <2>3 DEF ReceiveLate, Accepts, conn, waiter
  <2> QED
    BY <2>2, <2>3
<1>2. ASSUME NEW late \in BOOLEAN
      PROVE  Effect(r, y, late).unc \subseteq uncertainRequests \cup {r}
  BY <1>1, EffectCases DEF Ignores, KeepsCleanup, Fences, SettlesCleanup, SettlesEdit
<1>3. CASE ReceiveResponse(r, y)
  <2>1. /\ r \in pending /\ pending' = {} /\ r \notin uncertainRequests /\ ~ReceiveLate(r, y)
        /\ multiEditCleanup' = Effect(r, y, FALSE).cl
        /\ multiEditRecovery' = Effect(r, y, FALSE).rec
        /\ uncertainRequests' = Effect(r, y, FALSE).unc
    BY <1>3 DEF ReceiveResponse, ReceiveLate, ApplyEffect, FenceInv, RecordsWereDispatched
  <2>2. r \in Owed
    BY <2>1, OwedRequests
  <2>3. Subsides
    BY <1>1, <1>2, <2>1, <2>2 DEF Subsides, Owed
  <2> QED
    BY <1>1, <2>1, <2>2, <2>3
<1>4. CASE ReceiveLate(r, y)
  <2>1. /\ r \in uncertainRequests /\ r \notin pending /\ pending' = pending
        /\ multiEditCleanup' = Effect(r, y, TRUE).cl
        /\ multiEditRecovery' = Effect(r, y, TRUE).rec
        /\ uncertainRequests' \subseteq Effect(r, y, TRUE).unc
    BY <1>4 DEF ReceiveLate, ApplyEffect, waiter
  <2>2. r \in Owed /\ ~ReceiveResponse(r, y)
    BY <2>1, OwedRequests DEF ReceiveResponse
  <2>3. Subsides
    BY <1>1, <1>2, <2>1, <2>2 DEF Subsides, Owed
  <2> QED
    BY <1>1, <1>4, <2>1, <2>2, <2>3
<1> QED
  BY <1>3, <1>4

LEMMA GrantReply ==
  ASSUME FenceInv, GrantInv, [Next]_vars, NEW r \in dispatched, NEW y,
         ReceiveResponse(r, y) \/ ReceiveLate(r, y)
  PROVE  \/ GrantStays /\ Subsides
         \/ GrantInv'
<1>1. /\ r \in Owed /\ r \in Request /\ y \in Replies(r) /\ Accepts(r) /\ connected'
      /\ Subsides
      /\ ReceiveResponse(r, y) => r \in pending /\ pending' = {} /\ r \notin uncertainRequests
      /\ ReceiveLate(r, y) => r \in uncertainRequests /\ r \notin pending /\ pending' = pending
  BY ReplySubsides
<1>2. PICK late \in BOOLEAN : /\ late <=> ReceiveLate(r, y)
                              /\ multiEditCleanup' = Effect(r, y, late).cl
  BY ReplySubsides
<1> DEFINE e == Effect(r, y, late)
<1>3. multiEditCleanup' = e.cl /\ connected' = connected /\ TypeOK
  BY <1>1, <1>2 DEF Accepts, FenceInv, TypeOK
<1>4. CASE e.cl = multiEditCleanup
  BY <1>1, <1>3, <1>4, ExpiryStays
<1>5. CASE e.cl # multiEditCleanup /\ r.phase = "cleanup"
  <2>1. pending' = {}
    <3>1. CASE late
      BY <1>1, <1>2, <1>5, <3>1, ControlledCleanup, AwaitedControls
    <3>2. CASE ~late
      BY <1>1, <1>2, <3>2
    <3> QED
      BY <3>1, <3>2
  <2>2. e.cl \in {NoCleanup, CleanupRequired(multiEditCleanup, r)}
    BY <1>1, <1>2, <1>5, EffectCases
       DEF Ignores, KeepsCleanup, Fences, SettlesCleanup, SettlesEdit, EditRequest
  <2>3. CASE e.cl = CleanupRequired(multiEditCleanup, r)
    BY <1>1, <1>3, <1>5, <2>1, <2>3, RequiredStays
  <2>4. CASE e.cl = NoCleanup
    BY <1>1, <1>3, <2>1, <2>4, NoCleanupFields DEF GrantInv, CleanupHasGrant, GrantStandsAlone
  <2> QED
    BY <2>2, <2>3, <2>4
<1>6. CASE EditRequest(r) /\ GrantPossible /\ e.cl = GrantFor(r)
  <2>1. \A u \in Owed' : u.phase # "cleanup"
    BY <1>1, <1>6 DEF Subsides, FenceInv, OneSubject, EditRequest
  <2>2. \A u \in pending' : u.phase # "cleanup"
    BY <1>1, <1>6, OwedRequests DEF Subsides, FenceInv, OneSubject, EditRequest
  <2>3. multiEditCleanup'.state = "available"
    BY <1>3, <1>6 DEF GrantFor
  <2> QED
    BY <1>1, <2>1, <2>2, <2>3 DEF GrantInv, CleanupHasGrant, GrantStandsAlone, Used
<1> QED
  BY <1>4, <1>5, <1>6, EffectGrants

(* The only response that takes a used grant away settles its cleanup.     *)
LEMMA GrantSettled ==
  ASSUME FenceInv, GrantInv, Used(multiEditCleanup), ~GrantStays, NEW r \in dispatched, NEW y,
         ReceiveResponse(r, y) \/ ReceiveLate(r, y)
  PROVE  /\ r.phase = "cleanup" /\ TxnOf(r) = multiEditCleanup.txn
         /\ r \in pending \cup uncertainRequests
         /\ r \notin pending' \cup uncertainRequests'
<1>1. /\ r \in Owed /\ r \in Request /\ y \in Replies(r) /\ Accepts(r) /\ connected'
      /\ ReceiveResponse(r, y) => r \in pending /\ pending' = {} /\ r \notin uncertainRequests
      /\ ReceiveLate(r, y) => r \in uncertainRequests /\ r \notin pending /\ pending' = pending
  BY ReplySubsides
<1>2. PICK late \in BOOLEAN : /\ late <=> ReceiveLate(r, y)
                              /\ multiEditCleanup' = Effect(r, y, late).cl
                              /\ uncertainRequests' \subseteq Effect(r, y, late).unc
  BY ReplySubsides
<1> DEFINE e == Effect(r, y, late)
<1>3. /\ multiEditCleanup' = e.cl /\ connected' = connected /\ TypeOK
      /\ uncertainRequests' \subseteq e.unc
  BY <1>1, <1>2 DEF Accepts, FenceInv, TypeOK
<1>4. Ignores(e, r, y) \/ KeepsCleanup(e, r) \/ Fences(e, r) \/ SettlesCleanup(e, r) \/ SettlesEdit(e, r)
  BY <1>1, EffectCases
<1>5. e.cl # multiEditCleanup
  BY <1>3, ExpiryStays
<1>6. Expired(multiEditCleanup) # NoCleanup
  BY ExpiredGrant DEF FenceInv, TypeOK, GrantInv, CleanupHasGrant
<1>7. r.phase = "cleanup"
  BY <1>5, <1>6, EffectGrants DEF GrantPossible
<1>8. pending' = {}
  <2>1. CASE late
    BY <1>1, <1>2, <1>5, <1>7, <2>1, ControlledCleanup, AwaitedControls
  <2>2. CASE ~late
    BY <1>1, <1>2, <2>2
  <2> QED
    BY <2>1, <2>2
<1>9. e.cl # CleanupRequired(multiEditCleanup, r)
  BY <1>1, <1>3, <1>7, <1>8, RequiredStays
<1> HIDE DEF e
<1>10. e.unc = uncertainRequests \ SettledWith(r)
  BY <1>4, <1>5, <1>7, <1>9
     DEF Ignores, KeepsCleanup, Fences, SettlesCleanup, SettlesEdit, EditRequest
<1>11. r \notin uncertainRequests'
  BY <1>3, <1>7, <1>10 DEF SettledWith, FenceInv, RecordsWereDispatched
<1>12. TxnOf(r) = multiEditCleanup.txn
  BY <1>1, <1>7, NoCleanupFields DEF GrantInv, CleanupHasGrant
<1> QED
  BY <1>1, <1>7, <1>8, <1>11, <1>12

LEMMA GrantInit == Init => GrantInv
BY NoCleanupFields DEF Init, GrantInv, CleanupHasGrant, GrantStandsAlone, Owed, NoRequest

LEMMA GrantStep == FenceInv /\ GrantInv /\ [Next]_vars => GrantInv'
<1> SUFFICES ASSUME FenceInv, GrantInv, [Next]_vars
             PROVE  GrantInv'
  OBVIOUS
<1>1. ASSUME NEW o \in Op, Begin(o) \/ ContinueToApply(o)
      PROVE  GrantInv'
  <2>1. CASE Begin(o)
    <3>1. Req(o, FirstPhase(o)) \in Request /\ UNCHANGED <<target, admitted>>
      BY <2>1, FirstPhaseType, RequestType DEF Begin, Dispatch
    <3> QED
      BY <2>1, <3>1, GrantDispatch DEF Begin
  <2>2. CASE ContinueToApply(o)
    <3>1. Req(o, "apply") \in Request /\ UNCHANGED <<target, admitted>>
      BY <2>2, RequestType DEF ContinueToApply, Dispatch, Phases
    <3> QED
      BY <2>2, <3>1, GrantDispatch DEF ContinueToApply
  <2> QED
    BY <1>1, <2>1, <2>2
<1>2. CASE Respond
  BY <1>2, GrantReply, GrantPreserved DEF Respond
<1>3. CASE ~(\E o \in Op : Begin(o) \/ ContinueToApply(o)) /\ ~Respond
  BY <1>3, QuietSubsides, WaiterSubsides, ConnectionSubsides, GrantPreserved DEF Next, Resume
<1> QED
  BY <1>1, <1>2, <1>3

(***************************************************************************)
(* Theorems about the grant                                                *)
(***************************************************************************)

(* A cleanup that is owed keeps the grant it was dispatched under.         *)
THEOREM GrantInvariant == Spec => []GrantInv
<1>1. FenceInv /\ GrantInv /\ [Next]_vars => GrantInv'
  BY GrantStep
<1> QED
  BY <1>1, GrantInit, SessionInvariant, PTL DEF Spec

(* Neither the deadline, nor a disconnect, nor a new connection, nor the   *)
(* edit of another transaction drops the grant of a dispatched cleanup:    *)
(* only a terminal receipt of that cleanup does, and it is then settled.   *)
THEOREM SessionCleanupKept == Spec => CleanupKept
<1> DEFINE Kept ==
      /\ multiEditCleanup.state \in CleanupStates \ {"available"}
      /\ multiEditCleanup'.txn # multiEditCleanup.txn
      => \E r \in dispatched :
           /\ r.phase = "cleanup" /\ TxnOf(r) = multiEditCleanup.txn
           /\ r \in pending \cup uncertainRequests
           /\ r \notin pending' \cup uncertainRequests'
<1>1. ASSUME FenceInv, GrantInv, [Next]_vars
      PROVE  [Kept]_vars
  <2> SUFFICES ASSUME multiEditCleanup.state \in CleanupStates \ {"available"},
                      multiEditCleanup'.txn # multiEditCleanup.txn
               PROVE  \E r \in dispatched :
                        /\ r.phase = "cleanup" /\ TxnOf(r) = multiEditCleanup.txn
                        /\ r \in pending \cup uncertainRequests
                        /\ r \notin pending' \cup uncertainRequests'
    OBVIOUS
  <2>1. Used(multiEditCleanup) /\ ~GrantStays
    BY <1>1 DEF Used, CleanupStates, GrantStays
  <2>2. ~\E o \in Op : Begin(o) \/ ContinueToApply(o)
    <3>1. ASSUME NEW r, NEW prep, Dispatch(r, prep)
          PROVE  multiEditCleanup'.txn = multiEditCleanup.txn
      <4>1. Expired(multiEditCleanup) \in Cleanups /\ Expired(multiEditCleanup).txn = multiEditCleanup.txn
        BY <1>1, <2>1, ExpiredType, ExpiredGrant DEF FenceInv, TypeOK, GrantInv, CleanupHasGrant
      <4> QED
        BY <3>1, <4>1 DEF Dispatch, Cleanups
    <3> QED
      BY <3>1 DEF Begin, ContinueToApply
  <2>3. PICK r \in dispatched, y \in AllReplies : ReceiveResponse(r, y) \/ ReceiveLate(r, y)
    BY <1>1, <2>1, <2>2, QuietSubsides, WaiterSubsides, ConnectionSubsides
       DEF Next, Resume, Respond
  <2>4. /\ r.phase = "cleanup" /\ TxnOf(r) = multiEditCleanup.txn
        /\ r \in pending \cup uncertainRequests /\ r \notin pending' \cup uncertainRequests'
    BY <1>1, <2>1, <2>3, GrantSettled
  <2> QED
    BY <2>4
<1> QED
  BY <1>1, GrantInvariant, SessionInvariant, PTL DEF Spec, CleanupKept

(***************************************************************************)
(* What clients and the retirement sweep read                              *)
(***************************************************************************)

LEMMA RefreshedClear ==
  ASSUME NEW u, NEW rec, NEW cl, NEW f, Refreshed(u, rec, cl, f) = "clear"
  PROVE  u = {} /\ rec = NoRecovery /\ ~Used(cl)
BY DEF Refreshed, Used

LEMMA ShownAfterExpiryClear ==
  ASSUME ShownAfterExpiry = "clear"
  PROVE  /\ uncertaintyState = "clear"
         /\ Expired(multiEditCleanup) \in {multiEditCleanup, NoCleanup}
BY DEF ShownAfterExpiry

(* A response that lets the session look clear either leaves everything as *)
(* it is or leaves nothing owed.                                           *)
LEMMA EffectShown ==
  ASSUME NEW r, NEW y, NEW late, Effect(r, y, late).shown = "clear"
  PROVE  LET e == Effect(r, y, late)
         IN  \/ /\ uncertaintyState = "clear" /\ e.unc = uncertainRequests
                /\ e.rec = multiEditRecovery /\ e.cl = multiEditCleanup
             \/ uncertaintyState = "clear" /\ r.phase = "cleanup" /\ multiEditCleanup = NoCleanup
             \/ e.unc = {} /\ e.rec = NoRecovery /\ ~Used(e.cl)
<1> DEFINE e == Effect(r, y, late)
           unsafe == y \in {"invalid", "error", "recovery_required"}
           grants == y = "applied" /\ r.op \in Creates
           skip == \/ r.phase \notin MutationPhases
                   \/ y \in {"invalid", "error"} /\ late
                   \/ /\ y \notin {"invalid", "error"}
                      /\ RecoveryControls(r) \/ CleanupControls(r)
<1>1. CASE skip
  BY <1>1 DEF Effect
<1>2. CASE ~skip /\ unsafe /\ r.phase = "cleanup"
  BY <1>2 DEF Effect
<1>3. CASE ~skip /\ ~(unsafe /\ r.phase = "cleanup") /\ (unsafe \/ (grants /\ ~GrantPossible))
  BY <1>3 DEF Effect
<1>4. CASE ~skip /\ ~unsafe /\ ~(grants /\ ~GrantPossible) /\ r.phase = "cleanup"
  BY <1>4, RefreshedClear DEF Effect
<1>5. CASE ~skip /\ ~unsafe /\ ~(grants /\ ~GrantPossible) /\ r.phase # "cleanup"
  BY <1>5, RefreshedClear DEF Effect
<1> QED
  BY <1>1, <1>2, <1>3, <1>4, <1>5

(* An obligation is shown: what an action leaves owed when it shows clear. *)
LEMMA ShownReply ==
  ASSUME FenceInv, GrantInv, ShownCoversObligations, NEW r \in dispatched, NEW y,
         ReceiveResponse(r, y) \/ ReceiveLate(r, y)
  PROVE  ShownCoversObligations'
<1> SUFFICES ASSUME uncertaintyState' = "clear"
             PROVE  /\ uncertainRequests' = {} /\ multiEditRecovery' = NoRecovery
                    /\ multiEditCleanup'.state \notin {"cleanup_required", "cleanup_expired_settlement"}
  BY DEF ShownCoversObligations
<1>1. r \in Owed /\ r \in Request /\ y \in Replies(r)
  BY ReplySubsides
<1>2. CASE ReceiveResponse(r, y)
  <2>1. /\ uncertainRequests' = Effect(r, y, FALSE).unc
        /\ multiEditRecovery' = Effect(r, y, FALSE).rec
        /\ multiEditCleanup' = Effect(r, y, FALSE).cl
        /\ r \in pending
    BY <1>2 DEF ReceiveResponse, ApplyEffect
  <2>2. inflight = r /\ r \notin uncertainRequests
    BY <2>1 DEF FenceInv, RecordsWereDispatched
  <2>3. CASE ObservesMode(r, y)
    <3>1. r.phase = "direct"
      <4>1. y = "ok" /\ y \in Replies(r) /\ r.phase \in Phases
        BY <1>1, <2>3, RealRequest DEF ObservesMode
      <4> QED
        BY <4>1 DEF Replies, SafeReplies, Phases
    <3>2. /\ Effect(r, y, FALSE).unc = uncertainRequests
          /\ Effect(r, y, FALSE).rec = multiEditRecovery
          /\ Effect(r, y, FALSE).cl = multiEditCleanup
      BY <3>1 DEF Effect, MutationPhases
    <3>3. uncertainRequests = {}
      BY <1>1, <2>2, <3>1, OwedRequests DEF FenceInv, OneSubject, EditRequest
    <3>4. multiEditRecovery = NoRecovery
      BY <1>1, <3>1 DEF FenceInv, OneSubject, EditRequest
    <3>5. ~Used(multiEditCleanup)
      BY <2>2, <3>1 DEF GrantInv, GrantStandsAlone
    <3> QED
      BY <2>1, <3>2, <3>3, <3>4, <3>5 DEF Used
  <2>4. CASE ~ObservesMode(r, y)
    <3>1. Effect(r, y, FALSE).shown = "clear"
      BY <1>2, <2>4 DEF ReceiveResponse
    <3>2. r.phase = "cleanup" => multiEditCleanup # NoCleanup
      BY <2>1 DEF GrantInv, CleanupHasGrant
    <3> QED
      BY <2>1, <3>1, <3>2, EffectShown DEF ShownCoversObligations, Used
  <2> QED
    BY <2>3, <2>4
<1>3. CASE ReceiveLate(r, y)
  <2> DEFINE kept == y = "recovery_required" \/ (y = "error" /\ r.phase \in MutationPhases)
  <2>1. uncertainRequests # {}
    BY <1>3 DEF ReceiveLate
  <2>2. CASE kept
    <3>1. /\ uncertainRequests' = Effect(r, y, TRUE).unc
          /\ multiEditRecovery' = Effect(r, y, TRUE).rec
          /\ multiEditCleanup' = Effect(r, y, TRUE).cl
          /\ Effect(r, y, TRUE).shown = "clear"
      BY <1>3, <2>2 DEF ReceiveLate, ApplyEffect
    <3>2. uncertaintyState # "clear"
      BY <2>1 DEF ShownCoversObligations
    <3> QED
      BY <3>1, <3>2, EffectShown DEF Used
  <2>3. CASE ~kept
    <3>1. Refreshed(uncertainRequests', multiEditRecovery', multiEditCleanup', "clear") = "clear"
      BY <1>3, <2>3 DEF ReceiveLate
    <3> QED
      BY <3>1, RefreshedClear DEF Used
  <2> QED
    BY <2>2, <2>3
<1> QED
  BY <1>2, <1>3

LEMMA ShownRecompute ==
  ASSUME NEW locked, NEW s, Recompute(locked, s), uncertaintyState' = "clear", ~(connected' /\ s = "clear")
  PROVE  uncertainRequests' = {} /\ multiEditRecovery' = NoRecovery /\ ~Used(multiEditCleanup')
<1>1. ~connected'
  BY DEF Recompute
<1>2. Refreshed(uncertainRequests', multiEditRecovery', multiEditCleanup',
                IF LooksTerminal(locked) THEN "clear" ELSE "offline") = "clear"
  BY <1>1 DEF Recompute
<1> QED
  BY <1>2, RefreshedClear DEF Used

LEMMA ShownKept ==
  ASSUME ShownCoversObligations, uncertaintyState = "clear",
         uncertainRequests' = uncertainRequests, multiEditRecovery' = multiEditRecovery,
         multiEditCleanup' \in {multiEditCleanup, NoCleanup}
  PROVE  ShownCoversObligations'
BY NoCleanupFields DEF ShownCoversObligations

LEMMA ShownDispatch ==
  ASSUME FenceInv, ShownCoversObligations, NEW r \in Request, NEW prep, Dispatch(r, prep)
  PROVE  ShownCoversObligations'
<1> SUFFICES ASSUME uncertaintyState' = "clear"
             PROVE  ShownCoversObligations'
  BY DEF ShownCoversObligations
<1>1. r.phase # "recover" /\ ShownAfterExpiry = "clear"
  BY DEF Dispatch
<1>2. /\ uncertainRequests' = uncertainRequests /\ multiEditRecovery' = multiEditRecovery
      /\ uncertaintyState = "clear"
      /\ Expired(multiEditCleanup) \in {multiEditCleanup, NoCleanup}
  BY <1>1, ShownAfterExpiryClear DEF Dispatch, unproven
<1>3. CASE r.phase = "cleanup"
  <2>1. Expired(multiEditCleanup) \in Cleanups
    BY ExpiredType DEF FenceInv, TypeOK
  <2>2. multiEditCleanup'.state = "cleanup_dispatched"
    BY <1>3, <2>1 DEF Dispatch, Cleanups
  <2> QED
    BY <1>2, <2>2 DEF ShownCoversObligations
<1>4. CASE r.phase # "cleanup"
  BY <1>2, <1>4, ShownKept DEF Dispatch
<1> QED
  BY <1>3, <1>4

LEMMA ShownRaise ==
  ASSUME ShownCoversObligations, NEW o, NEW offline, NEW unc, NEW cl, NEW s,
         Raise(o, offline, unc, cl, s),
         s = "clear" => s = uncertaintyState /\ unc = {} /\ cl = multiEditCleanup
  PROVE  ShownCoversObligations'
<1> SUFFICES ASSUME uncertaintyState' = "clear"
             PROVE  ShownCoversObligations'
  BY DEF ShownCoversObligations
<1> DEFINE f == IF inflight.phase = "apply" THEN "multi_edit" ELSE s
<1>1. Recompute(FALSE, f)
  BY DEF Raise
<1>2. CASE connected' /\ f = "clear"
  BY <1>2, ShownKept DEF Raise
<1>3. CASE ~(connected' /\ f = "clear")
  BY <1>1, <1>3, ShownRecompute DEF ShownCoversObligations, Used
<1> QED
  BY <1>2, <1>3

LEMMA ShownStep == FenceInv /\ GrantInv /\ ShownCoversObligations /\ [Next]_vars
                   => ShownCoversObligations'
<1> SUFFICES ASSUME FenceInv, GrantInv, ShownCoversObligations, [Next]_vars
             PROVE  ShownCoversObligations'
  OBVIOUS
<1>1. ASSUME NEW o \in Op, NEW t \in Txn \cup {None}, Submit(o, t)
      PROVE  ShownCoversObligations'
  BY <1>1 DEF Submit, ShownCoversObligations, unproven, fences, shown
<1>2. ASSUME NEW o \in Op, Begin(o) \/ ContinueToApply(o)
      PROVE  ShownCoversObligations'
  BY <1>2, FirstPhaseType, RequestType, ShownDispatch DEF Begin, ContinueToApply, Phases
<1>3. ASSUME NEW o \in Op, Refuse(o)
      PROVE  ShownCoversObligations'
  <2> SUFFICES ASSUME uncertaintyState' = "clear"
               PROVE  ShownCoversObligations'
    BY DEF ShownCoversObligations
  <2> DEFINE early == Kind[o] = "recover" /\ multiEditRecovery.txn # target[o]
             s == IF early THEN uncertaintyState ELSE ShownAfterExpiry
  <2>1. /\ Recompute(FALSE, s) /\ uncertainRequests' = uncertainRequests
        /\ multiEditRecovery' = multiEditRecovery
        /\ multiEditCleanup' = IF early THEN multiEditCleanup ELSE Expired(multiEditCleanup)
    BY <1>3 DEF Refuse, unproven
  <2>2. CASE connected' /\ s = "clear"
    BY <2>1, <2>2, ShownAfterExpiryClear, ShownKept
  <2>3. CASE ~(connected' /\ s = "clear")
    BY <2>1, <2>3, ShownRecompute DEF ShownCoversObligations, Used
  <2> QED
    BY <2>2, <2>3
<1>4. ASSUME NEW o \in Op, CancelQueued(o)
      PROVE  ShownCoversObligations'
  <2> SUFFICES ASSUME uncertaintyState' = "clear"
               PROVE  ShownCoversObligations'
    BY DEF ShownCoversObligations
  <2>1. /\ Recompute(inflight # NoRequest, uncertaintyState)
        /\ UNCHANGED <<uncertainRequests, multiEditRecovery, multiEditCleanup>>
    BY <1>4 DEF CancelQueued, unproven, fences
  <2>2. CASE connected' /\ uncertaintyState = "clear"
    BY <2>1, <2>2, ShownKept
  <2>3. CASE ~(connected' /\ uncertaintyState = "clear")
    BY <2>1, <2>3, ShownRecompute DEF ShownCoversObligations, Used
  <2> QED
    BY <2>2, <2>3
<1>5. ASSUME NEW o \in Op, ApplyNotDispatched(o)
      PROVE  ShownCoversObligations'
  <2>1. /\ uncertainRequests' = uncertainRequests /\ multiEditRecovery' = multiEditRecovery
        /\ \/ UNCHANGED <<multiEditCleanup, uncertaintyState>>
           \/ /\ multiEditCleanup' = Expired(multiEditCleanup)
              /\ uncertaintyState' = ShownAfterExpiry
    BY <1>5 DEF ApplyNotDispatched, unproven
  <2> QED
    BY <2>1, ShownAfterExpiryClear, ShownKept DEF ShownCoversObligations
<1>6. ASSUME NEW o \in Op, Return(o)
      PROVE  ShownCoversObligations'
  <2>1. /\ uncertainRequests' = uncertainRequests /\ multiEditCleanup' = multiEditCleanup
        /\ \/ uncertaintyState' = "multi_edit"
           \/ uncertaintyState' = uncertaintyState /\ multiEditRecovery' = multiEditRecovery
    BY <1>6 DEF Return, unproven
  <2> QED
    BY <2>1 DEF ShownCoversObligations
<1>7. ASSUME NEW o \in Op, RaiseRemoteError(o) \/ RaiseOffline(o) \/ Timeout(o) \/ CancelWait(o)
      PROVE  ShownCoversObligations'
  <2>1. CASE RaiseRemoteError(o) \/ RaiseOffline(o)
    BY <2>1, ShownRaise DEF RaiseRemoteError, RaiseOffline
  <2>2. CASE Timeout(o)
    BY <2>2, ShownRaise DEF Timeout
  <2>3. CASE CancelWait(o)
    BY <2>3, ShownRaise DEF CancelWait
  <2> QED
    BY <1>7, <2>1, <2>2, <2>3
<1>8. CASE Respond
  BY <1>8, ShownReply DEF Respond
<1>9. CASE Disconnect
  BY <1>9, ShownRecompute DEF Disconnect, ShownCoversObligations, Used
<1>10. ASSUME NEW settled, Reconnect(settled)
       PROVE  ShownCoversObligations'
  <2>1. /\ multiEditRecovery' = multiEditRecovery
        /\ uncertaintyState' = Refreshed(uncertainRequests', multiEditRecovery, multiEditCleanup', "clear")
    BY <1>10 DEF Reconnect, CloseConnection
  <2> QED
    BY <2>1, RefreshedClear DEF ShownCoversObligations, Used
<1>11. ASSUME NEW m, ModeEvent(m)
       PROVE  ShownCoversObligations'
  <2>1. /\ UNCHANGED <<uncertainRequests, multiEditRecovery, multiEditCleanup>>
        /\ uncertaintyState' = Refreshed(uncertainRequests, multiEditRecovery, multiEditCleanup, "clear")
    BY <1>11 DEF ModeEvent, unproven, fences
  <2> QED
    BY <2>1, RefreshedClear DEF ShownCoversObligations, Used
<1>12. CASE Snapshot
  <2>1. /\ UNCHANGED <<uncertainRequests, multiEditRecovery>>
        /\ multiEditCleanup' = Expired(multiEditCleanup) /\ uncertaintyState' = ShownAfterExpiry
    BY <1>12 DEF Snapshot, unproven
  <2> QED
    BY <2>1, ShownAfterExpiryClear, ShownKept DEF ShownCoversObligations
<1>13. CASE (\E t \in Txn : DeadlinePasses(t)) \/ PlayBridge \/ UNCHANGED vars
  BY <1>13 DEF DeadlinePasses, PlayBridge, vars, unproven, fences, shown, ShownCoversObligations
<1> QED
  BY <1>1, <1>2, <1>3, <1>4, <1>5, <1>6, <1>7, <1>8, <1>9, <1>10, <1>11, <1>12, <1>13
     DEF Next, Resume

(* A session whose state reads clear owes nothing: no uncertain request,   *)
(* no recovery fence, no cleanup that came back unsettled.                 *)
THEOREM SessionShown == Spec => []ShownCoversObligations
<1>1. Init => ShownCoversObligations
  BY NoCleanupFields DEF Init, ShownCoversObligations
<1>2. FenceInv /\ GrantInv /\ ShownCoversObligations /\ [Next]_vars => ShownCoversObligations'
  BY ShownStep
<1> QED
  BY <1>1, <1>2, SessionInvariant, GrantInvariant, PTL DEF Spec

(***************************************************************************)
(* The verdict that lets a disconnected session be retired                 *)
(***************************************************************************)

LEMMA TerminalRecompute ==
  ASSUME NEW locked, NEW s, Recompute(locked, s), locked <=> inflight' # NoRequest,
         mode' = mode, playBridgeUncertain' = playBridgeUncertain
  PROVE  TerminalVerdictExact'
BY DEF Recompute, LooksTerminal, TerminalVerdictExact

(* Nothing that a disconnected session's verdict depends on changes except *)
(* in the steps that recompute it.                                         *)
LEMMA TerminalStep == FenceInv /\ GrantInv /\ TerminalVerdictExact /\ [Next]_vars
                      => TerminalVerdictExact'
<1> SUFFICES ASSUME FenceInv, GrantInv, TerminalVerdictExact, [Next]_vars
             PROVE  TerminalVerdictExact'
  OBVIOUS
<1>1. ASSUME connected'
      PROVE  TerminalVerdictExact'
  BY <1>1 DEF TerminalVerdictExact
<1>2. ASSUME NEW o \in Op, NEW t \in Txn \cup {None}, Submit(o, t)
      PROVE  connected'
  BY <1>2 DEF Submit, conn
<1>3. ASSUME NEW o \in Op, Begin(o) \/ ContinueToApply(o)
      PROVE  connected'
  BY <1>3 DEF Begin, ContinueToApply, Dispatch, Admissible, Online, conn
<1>4. ASSUME NEW o \in Op, ApplyNotDispatched(o) \/ Return(o)
      PROVE  connected'
  <2>1. CASE ApplyNotDispatched(o)
    BY <2>1 DEF ApplyNotDispatched, Online, conn
  <2>2. CASE Return(o)
    BY <2>2 DEF Return, Online, conn
  <2> QED
    BY <1>4, <2>1, <2>2
<1>5. CASE Respond
  BY <1>1, <1>5, ReplySubsides DEF Respond
<1>6. ASSUME NEW o \in Op, Refuse(o)
      PROVE  TerminalVerdictExact'
  BY <1>6, TerminalRecompute DEF Refuse, conn, waiter, env
<1>7. ASSUME NEW o \in Op, CancelQueued(o)
      PROVE  TerminalVerdictExact'
  BY <1>7, TerminalRecompute DEF CancelQueued, conn, waiter, env
<1>8. ASSUME NEW o \in Op, RaiseRemoteError(o) \/ RaiseOffline(o) \/ Timeout(o) \/ CancelWait(o)
      PROVE  TerminalVerdictExact'
  <2>1. ASSUME NEW offline, NEW unc, NEW cl, NEW s, Raise(o, offline, unc, cl, s)
        PROVE  TerminalVerdictExact'
    BY <2>1, TerminalRecompute DEF Raise, Leave, conn, env
  <2> QED
    BY <1>8, <2>1 DEF RaiseRemoteError, RaiseOffline, Timeout, CancelWait
<1>9. CASE Disconnect
  BY <1>9, TerminalRecompute DEF Disconnect, CloseConnection, env
<1>10. ASSUME \/ \E settled \in SUBSET dispatched : Reconnect(settled)
              \/ \E m \in Modes : ModeEvent(m)
              \/ PlayBridge
       PROVE  connected'
  BY <1>10 DEF Reconnect, ModeEvent, PlayBridge, conn
<1>11. CASE Snapshot
  <2> SUFFICES ASSUME ~connected
               PROVE  TerminalVerdictExact'
    BY <1>11 DEF Snapshot, conn, TerminalVerdictExact
  <2>1. /\ multiEditCleanup # NoCleanup => Used(multiEditCleanup)
        /\ multiEditCleanup' = Expired(multiEditCleanup)
    BY <1>11 DEF Snapshot, GrantInv, GrantStandsAlone, CleanupHasGrant, Used
  <2>2. multiEditCleanup' = NoCleanup <=> multiEditCleanup = NoCleanup
    BY <2>1, ExpiredGrant, NoCleanupFields DEF FenceInv, TypeOK, GrantInv, CleanupHasGrant
  <2> QED
    BY <1>11, <2>2
       DEF Snapshot, TerminalVerdictExact, conn, ops, waiter, unproven, env
<1>12. CASE (\E t \in Txn : DeadlinePasses(t)) \/ UNCHANGED vars
  BY <1>12 DEF DeadlinePasses, vars, TerminalVerdictExact, conn, ops, waiter, unproven, fences,
               env, shown
<1> QED
  BY <1>1, <1>2, <1>3, <1>4, <1>5, <1>6, <1>7, <1>8, <1>9, <1>10, <1>11, <1>12
     DEF Next, Resume

(* The cached verdict that retires a disconnected session is never stale:  *)
(* it is set exactly while the session owes nothing and nothing runs.      *)
THEOREM SessionTerminalVerdict == Spec => []TerminalVerdictExact
<1>1. Init => TerminalVerdictExact
  BY DEF Init, TerminalVerdictExact
<1>2. FenceInv /\ GrantInv /\ TerminalVerdictExact /\ [Next]_vars => TerminalVerdictExact'
  BY TerminalStep
<1> QED
  BY <1>1, <1>2, SessionInvariant, GrantInvariant, PTL DEF Spec
=============================================================================

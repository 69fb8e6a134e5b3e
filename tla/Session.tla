------------------------------- MODULE Session -------------------------------
(***************************************************************************)
(* The broker's StudioSession (studio_mcp_v2/session.py): the only path    *)
(* from a client to one connected Studio.  Operations are admitted in      *)
(* order and dispatched one at a time; a multi-edit is dispatched twice,   *)
(* as prepare and as apply.  The session remembers every dispatch whose    *)
(* outcome is unproven, and refuses work that could act on top of it.      *)
(*                                                                         *)
(* Each handler runs on one asyncio loop, so each action is one handler or *)
(* the part of a coroutine between two awaits.  A response and the         *)
(* resumption of the coroutine that waits for it are separate steps, and   *)
(* a timeout, a cancellation, a disconnect or a reconnect may come between.*)
(* Studio is here an environment that serves requests one after another,   *)
(* in the order they were sent; it may answer at any time, or never, and   *)
(* repeats a response but never changes it.                                *)
(***************************************************************************)
EXTENDS Naturals, Sequences, SequencesExt, FiniteSets

CONSTANTS
  Op,             \* client operations; a multi-edit names its transaction
  Kind,           \* the tool each operation calls, see Kinds
  JobOps,         \* operations submitted as background jobs
  Creates,        \* multi-edits that create scripts
  None,           \* no transaction
  Modes,          \* DataModel modes Studio can report, "edit" among them
  MaxGeneration   \* bound on the number of connections

Kinds == {"state", "read", "write", "play", "multi", "recover", "cleanup"}

Txn == {o \in Op : Kind[o] = "multi"}

(* Jobs carry only tools whose results the broker validates.               *)
ASSUME SessionAssumption ==
  /\ Kind \in [Op -> Kinds]
  /\ Creates \subseteq Txn
  /\ JobOps \subseteq {o \in Op : Kind[o] \notin {"write", "play"}}
  /\ None \notin Op
  /\ "edit" \in Modes
  /\ MaxGeneration \in Nat \ {0}

Phases == {"direct", "prepare", "apply", "recover", "cleanup"}
MutationPhases == {"apply", "recover", "cleanup"}

(* A request identity: the operation that sent it and the phase.           *)
Request == [op : Op, phase : Phases]
Req(o, p) == [op |-> o, phase |-> p]
NoRequest == [op |-> None, phase |-> "none"]

(* What a response can amount to once the broker has validated it.         *)
SafeReplies(p) ==
  CASE p = "direct"  -> {"ok"}
    [] p = "prepare" -> {"prepared"}
    [] p = "apply"   -> {"applied", "restored"}
    [] p = "recover" -> {"recovered"}
    [] OTHER         -> {"cleaned", "refused"}

AllReplies == {"ok", "prepared", "applied", "restored", "recovered", "cleaned", "refused",
               "recovery_required", "invalid", "error"}

NoRecovery == [txn |-> None, generation |-> 0, dispatched |-> NoRequest]
NoCleanup  == [txn |-> None, generation |-> 0, state |-> "none",
               dispatched |-> NoRequest]
CleanupStates == {"available", "cleanup_dispatched", "cleanup_required",
                  "cleanup_expired_settlement"}
JobStates == {"none", "queued", "running", "completed", "failed",
              "cancelled", "outcome_unknown"}
TerminalJobStates == {"none", "completed", "failed", "cancelled"}
Futures == {"none", "pending", "result", "result_requires_recovery", "remote_error", "lost"}
Reasons == {"clear", "outcome_unknown", "multi_edit", "multi_edit_cleanup", "offline"}

Generations == 0..MaxGeneration
Recoveries == [txn : Txn \cup {None}, generation : Generations,
               dispatched : Request \cup {NoRequest}]
Cleanups == [txn : Txn \cup {None}, generation : Generations,
             state : CleanupStates \cup {"none"}, dispatched : Request \cup {NoRequest}]

VARIABLES
  generation,         \* number of the current or last connection
  connected,          \* a live transport exists
  mode,               \* last confirmed mode of the document
  stage,              \* per operation: idle, queued, waiting or done
  target,             \* per operation: the transaction it concerns, or None
  admitted,           \* per operation: the generation it was admitted under
  job,                \* per operation: the status of its job record
  ahead,              \* per queued operation: those admitted before it, still queued
  inflight,           \* the request the holder of operation_lock waits for
  future,             \* state of that request's future
  pending,            \* requests correlated with a waiter
  uncertainRequests,  \* dispatched requests whose outcome is unproven
  uncertainPending,   \* the contexts kept for those requests
  multiEditRecovery,  \* the exact recovery fence
  preparedReceipt,    \* the transaction of the last prepare receipt
  multiEditCleanup,   \* the grant to delete created scripts
  due,                \* transactions whose cleanup deadline has passed
  playBridgeUncertain,\* a Play transition needs recovery (set by the registry)
  uncertaintyState,   \* the reason shown to clients and used for retirement
  terminalCandidate,  \* the disconnected session looks safe to retire
  outbox,             \* history: requests handed to the transport, in order
  served,             \* index in outbox of the request Studio answered last
  reply,              \* its response
  proven              \* history: transactions with a settled outcome

conn     == <<generation, connected, mode>>
ops      == <<stage, target, admitted, ahead>>
waiter   == <<inflight, future, pending>>
unproven == <<uncertainRequests, uncertainPending>>
fences   == <<multiEditRecovery, preparedReceipt, multiEditCleanup>>
env      == <<due, playBridgeUncertain>>
shown    == <<uncertaintyState, terminalCandidate>>
studio   == <<outbox, served, reply>>
history  == <<studio, proven>>
vars == <<conn, ops, job, waiter, unproven, fences, env, shown, history>>

dispatched == ToSet(outbox)

TxnOf(r) == target[r.op]

Queued == {o \in Op : stage[o] = "queued"}

(***************************************************************************)
(* Fences                                                                  *)
(***************************************************************************)

(* Mutant: a used grant lapses like an unused one.                         *)
ExpiredForgets(c) == IF c.txn \notin due THEN c ELSE NoCleanup

(* The grant after its lazy expiry: unused it lapses, used it stays for    *)
(* settlement only.                                                        *)
Expired(c) ==
  IF c.txn \notin due THEN c
  ELSE IF c.state = "available" THEN NoCleanup
  ELSE [c EXCEPT !.state = "cleanup_expired_settlement"]

(* Mutant: the fences are not shown.                                       *)
RefreshedFromRequests(unc, rec, cl, fallback) ==
  IF unc # {} THEN "outcome_unknown" ELSE fallback

(* uncertainty_state as _refresh_uncertainty computes it.                  *)
Refreshed(unc, rec, cl, fallback) ==
  CASE unc # {} -> "outcome_unknown"
    [] unc = {} /\ rec # NoRecovery -> "multi_edit"
    [] /\ unc = {} /\ rec = NoRecovery
       /\ cl.state \notin {"none", "available"} -> "multi_edit_cleanup"
    [] OTHER -> fallback

(* What expiry alone does to uncertainty_state.                            *)
ShownAfterExpiry ==
  IF Expired(multiEditCleanup) # multiEditCleanup /\ Expired(multiEditCleanup) # NoCleanup
  THEN "multi_edit_cleanup" ELSE uncertaintyState

RecoveryFor(t, g) ==
  [txn |-> t, generation |-> g,
   dispatched |-> IF multiEditRecovery.txn = t /\ multiEditRecovery.generation = g
                  THEN multiEditRecovery.dispatched ELSE NoRequest]

(* _set_multi_edit_cleanup_required, on the grant c.                       *)
CleanupRequired(c, r) ==
  IF c = NoCleanup \/ c.generation # admitted[r.op] THEN c
  ELSE IF Expired(c) = NoCleanup THEN NoCleanup
  ELSE [Expired(c) EXCEPT !.dispatched = r,
          !.state = IF @ = "cleanup_expired_settlement" THEN @ ELSE "cleanup_required"]

(* An exact recovery (cleanup) dispatched by a later request owns the      *)
(* outcome of transaction t: earlier receipts are evidence only.           *)
RecoveryControls(r) ==
  /\ r.phase = "apply"
  /\ multiEditRecovery.txn = TxnOf(r)
  /\ multiEditRecovery.generation = generation
  /\ multiEditRecovery.dispatched \notin {NoRequest, r}

CleanupControls(r) ==
  /\ r.phase = "cleanup"
  /\ multiEditCleanup.txn = TxnOf(r)
  /\ multiEditCleanup.generation = generation
  /\ multiEditCleanup.dispatched \notin {NoRequest, r}

(* Mutant: a recovery is admitted for any transaction.                     *)
RecoveryAllowedForAny(r) == r.phase = "recover" /\ multiEditRecovery # NoRecovery

RecoveryAllowed(r) ==
  /\ r.phase = "recover"
  /\ multiEditRecovery # NoRecovery
  /\ TxnOf(r) = multiEditRecovery.txn
  /\ multiEditRecovery.generation = admitted[r.op]
  /\ uncertainRequests = uncertainPending
  /\ \A u \in uncertainPending :
       /\ admitted[u.op] = multiEditRecovery.generation
       /\ TxnOf(u) = multiEditRecovery.txn
       /\ u.phase \in {"apply", "recover"}

CleanupAllowed(r, c) ==
  /\ r.phase = "cleanup"
  /\ c # NoCleanup
  /\ TxnOf(r) = c.txn
  /\ c.generation = admitted[r.op]
  /\ \/ c.state = "available" /\ uncertainRequests = {}
     \/ /\ c.state \in {"cleanup_dispatched", "cleanup_required"}
        /\ uncertainRequests = uncertainPending
        /\ \A u \in uncertainPending :
             /\ admitted[u.op] = admitted[r.op]
             /\ u.phase = "cleanup"
             /\ TxnOf(u) = c.txn

EditOnlyPrepared(prep) == prep # None /\ prep \notin Creates

(* Work that may proceed beside an unused cleanup grant; prep is the       *)
(* prepared receipt at that moment.                                        *)
CompatibleWithCleanup(r, c, prep) ==
  /\ c.state = "available"
  /\ \/ Kind[r.op] \in {"state", "read"}
     \/ r.phase = "prepare" /\ r.op \notin Creates
     \/ r.phase = "apply" /\ EditOnlyPrepared(prep)
     \/ RecoveryAllowed(r) /\ EditOnlyPrepared(prep)

Online(o) == admitted[o] = generation /\ connected

(* Mutant: the recovery fence is not looked at.                            *)
AdmissibleDespiteRecovery(r, prep) ==
  LET c == Expired(multiEditCleanup) IN
  /\ Online(r.op)
  /\ uncertainRequests = {} \/ RecoveryAllowed(r) \/ CleanupAllowed(r, c)
  /\ c = NoCleanup \/ CleanupAllowed(r, c) \/ CompatibleWithCleanup(r, c, prep)
  /\ r.phase = "recover" => RecoveryAllowed(r)
  /\ r.phase = "cleanup" => CleanupAllowed(r, c)

(* _invoke_locked up to the transport: the exact-match prechecks,          *)
(* assert_operation_admissible and the final fence on a cleanup.           *)
Admissible(r, prep) ==
  LET c == Expired(multiEditCleanup) IN
  /\ Online(r.op)
  /\ uncertainRequests = {} \/ RecoveryAllowed(r) \/ CleanupAllowed(r, c)
  /\ multiEditRecovery = NoRecovery \/ RecoveryAllowed(r)
  /\ c = NoCleanup \/ CleanupAllowed(r, c) \/ CompatibleWithCleanup(r, c, prep)
  /\ playBridgeUncertain => Kind[r.op] \in {"state", "play"}
  /\ r.phase = "recover" => RecoveryAllowed(r)
  /\ r.phase = "cleanup" => /\ CleanupAllowed(r, c)
                            /\ c.state \in {"available", "cleanup_required"}

FirstPhase(o) ==
  CASE Kind[o] = "multi"   -> "prepare"
    [] Kind[o] = "recover" -> "recover"
    [] Kind[o] = "cleanup" -> "cleanup"
    [] OTHER               -> "direct"

(***************************************************************************)
(* End of an operation: invoke's finally, and the job's run().             *)
(***************************************************************************)

(* Mutant: an answered call that has not resumed is not looked at.         *)
LooksTerminalWhileLocked(locked) ==
  /\ ~connected' /\ mode = "edit" /\ ~playBridgeUncertain
  /\ multiEditRecovery' = NoRecovery /\ multiEditCleanup' = NoCleanup
  /\ pending' = {} /\ uncertainRequests' = {}
  /\ \A o \in Op : job'[o] \in TerminalJobStates

(* The condition of _recompute_terminal_disconnect_candidate, in the new   *)
(* state of a step that leaves operation_lock locked or free.              *)
LooksTerminal(locked) ==
  /\ ~connected'
  /\ mode = "edit"
  /\ ~playBridgeUncertain
  /\ multiEditRecovery' = NoRecovery
  /\ multiEditCleanup' = NoCleanup
  /\ ~locked
  /\ pending' = {}
  /\ uncertainRequests' = {}
  /\ \A o \in Op : job'[o] \in TerminalJobStates

(* When connected the recomputation does nothing and the step shows s.     *)
Recompute(locked, s) ==
  IF connected'
  THEN /\ uncertaintyState' = s
       /\ UNCHANGED terminalCandidate
  ELSE /\ terminalCandidate' = LooksTerminal(locked)
       /\ uncertaintyState' =
            Refreshed(uncertainRequests', multiEditRecovery', multiEditCleanup',
                      IF LooksTerminal(locked) THEN "clear" ELSE "offline")

(* Mutant: a connection error after the dispatch counts as a failure.      *)
JobAfterErrorTrusted(o, offline, unc) ==
  IF job[o] \in TerminalJobStates THEN job[o]
  ELSE IF ~offline /\ \E r \in dispatched : r.op = o /\ r \in unc
       THEN "outcome_unknown" ELSE "failed"

(* The status run() gives a job whose coroutine raised: a connection error *)
(* proves nothing about a dispatched request, any other error is trusted   *)
(* unless one of the job's requests is uncertain.                          *)
JobAfterError(o, offline, unc) ==
  IF job[o] \in TerminalJobStates THEN job[o]
  ELSE IF \/ offline /\ \E r \in dispatched : r.op = o
          \/ ~offline /\ \E r \in dispatched : r.op = o /\ r \in unc
       THEN "outcome_unknown" ELSE "failed"

(* The holder of the lock leaves: the lock is free, the chain moves on.    *)
Leave(o) ==
  /\ stage' = [stage EXCEPT ![o] = "done"]
  /\ inflight' = NoRequest
  /\ future' = "none"
  /\ pending' = pending \ {inflight}

(***************************************************************************)
(* Admission and dispatch                                                  *)
(***************************************************************************)

(* The transactions operation o may name; a multi-edit is its own.         *)
Targets(o) ==
  CASE Kind[o] = "multi" -> {o}
    [] Kind[o] \in {"recover", "cleanup"} -> Txn
    [] OTHER -> {None}

(* ProxyService.call_tool / start_job: the session must be connected; the  *)
(* generation is captured and a place in the chain reserved at once.       *)
Submit(o, t) ==
  /\ stage[o] = "idle"
  /\ connected
  /\ t \in Targets(o)
  /\ stage' = [stage EXCEPT ![o] = "queued"]
  /\ target' = [target EXCEPT ![o] = t]
  /\ admitted' = [admitted EXCEPT ![o] = generation]
  /\ job' = [job EXCEPT ![o] = IF o \in JobOps THEN "queued" ELSE "none"]
  /\ ahead' = [ahead EXCEPT ![o] = Queued]
  /\ UNCHANGED <<conn, waiter, unproven, fences, env, shown, history>>

(* Mutant: those that leave keep their places.                             *)
AdvanceNobody(gone) == UNCHANGED ahead

(* Those in gone leave the chain.                                          *)
Advance(gone) == ahead' = [o \in Op |-> IF o \in gone THEN {} ELSE ahead[o] \ gone]

(* The request r leaves for Studio; prep is the prepared receipt held.     *)
Dispatch(r, prep) ==
  LET c == Expired(multiEditCleanup) IN
  /\ inflight' = r
  /\ future' = "pending"
  /\ pending' = (pending \ {inflight}) \cup {r}
  /\ outbox' = Append(outbox, r)
  /\ stage' = [stage EXCEPT ![r.op] = "waiting"]
  /\ job' = [job EXCEPT ![r.op] = IF r.op \in JobOps THEN "running" ELSE @]
  /\ preparedReceipt' = prep
  /\ multiEditRecovery' = IF r.phase = "recover"
                          THEN [multiEditRecovery EXCEPT !.dispatched = r]
                          ELSE multiEditRecovery
  /\ multiEditCleanup' = IF r.phase = "cleanup"
                         THEN [c EXCEPT !.dispatched = r, !.state = "cleanup_dispatched"]
                         ELSE c
  /\ uncertaintyState' = IF r.phase = "recover" THEN "multi_edit" ELSE ShownAfterExpiry
  /\ UNCHANGED <<conn, target, admitted, unproven, env, terminalCandidate,
                 served, reply, proven>>

(* The head of the chain reaches the lock and passes every fence.          *)
Begin(o) ==
  /\ inflight = NoRequest
  /\ stage[o] = "queued" /\ ahead[o] = {}
  /\ Admissible(Req(o, FirstPhase(o)), preparedReceipt)
  /\ Dispatch(Req(o, FirstPhase(o)), preparedReceipt)
  /\ Advance({o})

(* It is refused: offline, stale or fenced.  The check expires the cleanup *)
(* grant, except a recovery that matches no fence, refused earlier.        *)
Refuse(o) ==
  LET early == Kind[o] = "recover" /\ multiEditRecovery.txn # target[o] IN
  /\ inflight = NoRequest
  /\ stage[o] = "queued" /\ ahead[o] = {}
  /\ ~Admissible(Req(o, FirstPhase(o)), preparedReceipt)
  /\ Advance({o})
  /\ stage' = [stage EXCEPT ![o] = "done"]
  /\ job' = [job EXCEPT ![o] = IF o \in JobOps THEN "failed" ELSE @]
  /\ multiEditCleanup' = IF early THEN multiEditCleanup ELSE Expired(multiEditCleanup)
  /\ UNCHANGED <<conn, target, admitted, waiter, unproven, multiEditRecovery,
                 preparedReceipt, env, history>>
  /\ Recompute(FALSE, IF early THEN uncertaintyState ELSE ShownAfterExpiry)

(***************************************************************************)
(* Resumption of the waiting coroutine                                     *)
(***************************************************************************)

(* _invoke_multi_edit_locked: the prepare receipt is stored and, with no   *)
(* await in between, the apply phase is dispatched ...                     *)
ContinueToApply(o) ==
  /\ inflight = Req(o, "prepare")
  /\ future = "result"
  /\ Online(o)
  /\ Admissible(Req(o, "apply"), o)
  /\ Dispatch(Req(o, "apply"), o)
  /\ UNCHANGED ahead

(* ... or it is not dispatched, because a fence refuses it or the total    *)
(* deadline is exhausted: the edit was not applied and nothing is owed.    *)
ApplyNotDispatched(o) ==
  /\ inflight = Req(o, "prepare")
  /\ future = "result"
  /\ Online(o)
  /\ Leave(o)
  /\ preparedReceipt' = None
  /\ \/ UNCHANGED <<multiEditCleanup, uncertaintyState>>
     \/ /\ ~Admissible(Req(o, "apply"), o)
        /\ multiEditCleanup' = Expired(multiEditCleanup)
        /\ uncertaintyState' = ShownAfterExpiry
  /\ job' = [job EXCEPT ![o] = JobAfterError(o, FALSE, uncertainRequests)]
  /\ UNCHANGED <<conn, target, admitted, ahead, unproven, multiEditRecovery, env,
                 terminalCandidate, history>>

(* The waiter resumes with a result and the connection it was admitted     *)
(* under: the operation returns to its caller.                             *)
Return(o) ==
  /\ inflight.op = o /\ inflight.phase # "prepare"
  /\ future \in {"result", "result_requires_recovery"}
  /\ Online(o)
  /\ Leave(o)
  /\ LET unknown == future = "result_requires_recovery"
     IN  /\ job' = [job EXCEPT ![o] = IF o \notin JobOps THEN @
                                      ELSE IF unknown THEN "outcome_unknown" ELSE "completed"]
         /\ multiEditRecovery' = IF unknown /\ inflight.phase = "apply"
                                 THEN RecoveryFor(o, admitted[o]) ELSE multiEditRecovery
         /\ uncertaintyState' = IF unknown /\ inflight.phase = "apply"
                                THEN "multi_edit" ELSE uncertaintyState
  /\ UNCHANGED <<conn, target, admitted, ahead, unproven, preparedReceipt,
                 multiEditCleanup, env, terminalCandidate, history>>

(* Common end of a wait that raised.  unc is added to the uncertain        *)
(* requests; whatever the reason, an apply that was dispatched leaves an   *)
(* exact recovery fence behind.                                            *)
Raise(o, offline, unc, cl, s) ==
  LET r == inflight IN
  /\ Leave(o)
  /\ uncertainRequests' = uncertainRequests \cup unc
  /\ uncertainPending' = uncertainPending \cup unc
  /\ multiEditCleanup' = cl
  /\ multiEditRecovery' = IF r.phase = "apply" THEN RecoveryFor(o, admitted[o])
                          ELSE multiEditRecovery
  /\ job' = [job EXCEPT ![o] = JobAfterError(o, offline, uncertainRequests')]
  /\ UNCHANGED <<conn, target, admitted, ahead, preparedReceipt, env, history>>
  /\ Recompute(FALSE, IF r.phase = "apply" THEN "multi_edit" ELSE s)

(* The future holds an exception set by receive_response.                  *)
RaiseRemoteError(o) ==
  /\ inflight.op = o
  /\ future = "remote_error"
  /\ Raise(o, FALSE, {}, multiEditCleanup, uncertaintyState)

(* The connection was lost: the future holds the disconnect error, or it   *)
(* holds a result but the connection is gone by the time the waiter runs.  *)
RaiseOffline(o) ==
  /\ inflight.op = o
  /\ \/ future = "lost"
     \/ future \in {"result", "result_requires_recovery"} /\ ~Online(o)
  /\ Raise(o, TRUE, {}, multiEditCleanup, uncertaintyState)

(* wait_for times out.  The timer may fire in the loop iteration that      *)
(* settles the future, before the waiter has resumed.                      *)
Timeout(o) ==
  /\ inflight.op = o
  /\ LET r == inflight
         cl == IF r.phase = "cleanup" THEN CleanupRequired(multiEditCleanup, r)
               ELSE multiEditCleanup
     IN  Raise(o, FALSE, {r}, cl, "outcome_unknown")

(* The HTTP worker gives up on a direct call and cancels its coroutine.    *)
CancelWait(o) ==
  /\ inflight.op = o
  /\ o \notin JobOps
  /\ LET r == inflight
         unc == IF future = "pending" THEN {r} ELSE {}
         cl == IF unc # {} /\ r.phase = "cleanup"
               THEN CleanupRequired(multiEditCleanup, r) ELSE multiEditCleanup
     IN  Raise(o, FALSE, unc, cl, IF unc # {} THEN "outcome_unknown" ELSE uncertaintyState)

(* A queued direct call, or a queued job that is cancelled by its client,  *)
(* leaves the chain without having been dispatched.                        *)
CancelQueued(o) ==
  /\ stage[o] = "queued"
  /\ Advance({o})
  /\ stage' = [stage EXCEPT ![o] = "done"]
  /\ job' = [job EXCEPT ![o] = IF o \in JobOps THEN "cancelled" ELSE @]
  /\ UNCHANGED <<conn, target, admitted, waiter, unproven, fences, env, history>>
  /\ Recompute(inflight # NoRequest, uncertaintyState)

(***************************************************************************)
(* receive_response                                                        *)
(***************************************************************************)

(* The job statuses after reply y to r: r's own job, and the jobs that an  *)
(* exact recovery or cleanup resolves with it.                             *)
OwnJob(r, y) ==
  LET o == r.op IN
  IF o \notin JobOps \/ y = "invalid" THEN job[o]
  ELSE IF y = "error"
  THEN IF r.phase \in MutationPhases THEN "outcome_unknown" ELSE "failed"
  ELSE IF RecoveryControls(r) \/ CleanupControls(r) THEN job[o]
  ELSE CASE y = "recovery_required" -> "outcome_unknown"
         [] y = "prepared" -> IF r \in uncertainRequests /\ job[o] = "outcome_unknown"
                              THEN "failed" ELSE job[o]
         [] OTHER -> "completed"

(* Mutant: a recovery or cleanup resolves its own job only.                *)
ResolvedByNone(r, y, o) == FALSE

ResolvedBy(r, y, o) ==
  /\ o # r.op /\ job[o] = "outcome_unknown" /\ target[o] = TxnOf(r)
  /\ \/ y = "recovered"
     \/ y \in {"cleaned", "refused"} /\ Kind[o] = "cleanup" /\ ~CleanupControls(r)

JobsAfterReply(r, y) ==
  [o \in Op |-> CASE o = r.op -> OwnJob(r, y)
                  [] o # r.op /\ ResolvedBy(r, y, o) -> "completed"
                  [] OTHER -> job[o]]

(* The uncertain requests that a safe receipt r settles.                   *)
SettledWith(r) ==
  {u \in uncertainPending : /\ TxnOf(u) = TxnOf(r)
                            /\ IF r.phase = "cleanup" THEN u.phase = "cleanup"
                               ELSE u.phase \in {"prepare", "apply", "recover"}}

(* _grant_multi_edit_cleanup succeeds.                                     *)
GrantPossible == preparedReceipt # None /\ Expired(multiEditCleanup) = NoCleanup

(* Mutant: the grant is made for no connection that ever existed.          *)
GrantForNoGeneration(r) == [txn |-> r.op, generation |-> MaxGeneration + 1,
                            state |-> "available", dispatched |-> NoRequest]

GrantFor(r) == [txn |-> r.op, generation |-> admitted[r.op],
                state |-> "available", dispatched |-> NoRequest]

(* The effect of a reply on the unproven requests and the fences, before   *)
(* a late reply removes its own request: _observe_multi_edit_receipt and   *)
(* _observe_multi_edit_cleanup_receipt, and the branches of                *)
(* receive_response for invalid receipts and generic errors.  late says    *)
(* that r is no longer pending.                                            *)
Effect(r, y, late) ==
  LET unsafe == y \in {"invalid", "error", "recovery_required"}
      grants == y = "applied" /\ r.op \in Creates
      keep == [unc |-> uncertainRequests, rec |-> multiEditRecovery,
               prep |-> preparedReceipt, cl |-> multiEditCleanup,
               shown |-> uncertaintyState, proves |-> {}]
      fenced == [keep EXCEPT !.unc = @ \cup {r},
                             !.rec = RecoveryFor(TxnOf(r), admitted[r.op]),
                             !.shown = "multi_edit"]
  IN
  IF \/ r.phase \notin MutationPhases
     \/ y \in {"invalid", "error"} /\ late
     \/ y \notin {"invalid", "error"} /\ (RecoveryControls(r) \/ CleanupControls(r))
  THEN keep
  ELSE IF unsafe /\ r.phase = "cleanup"
  THEN [keep EXCEPT !.unc = @ \cup {r}, !.cl = CleanupRequired(multiEditCleanup, r),
                    !.shown = IF multiEditCleanup = NoCleanup THEN @ ELSE "multi_edit_cleanup"]
  ELSE IF unsafe \/ (grants /\ ~GrantPossible)
  THEN fenced
  ELSE IF r.phase = "cleanup"
  THEN [keep EXCEPT !.unc = @ \ SettledWith(r), !.cl = NoCleanup,
                    !.shown = Refreshed(uncertainRequests \ SettledWith(r),
                                        multiEditRecovery, NoCleanup, "clear")]
  ELSE LET unc == uncertainRequests \ SettledWith(r)
           rec == IF multiEditRecovery.txn = TxnOf(r) THEN NoRecovery ELSE multiEditRecovery
           cl == IF grants THEN GrantFor(r) ELSE multiEditCleanup
       IN [unc |-> unc, rec |-> rec, cl |-> cl,
           prep |-> IF preparedReceipt = TxnOf(r) THEN None ELSE preparedReceipt,
           shown |-> Refreshed(unc, rec, cl, "clear"), proves |-> {TxnOf(r)}]

ApplyEffect(e, gone) ==
  /\ uncertainRequests' = e.unc \ gone
  /\ uncertainPending' = e.unc \ gone
  /\ multiEditRecovery' = e.rec
  /\ preparedReceipt' = e.prep
  /\ multiEditCleanup' = e.cl
  /\ proven' = proven \cup e.proves

Accepts(r) == connected /\ admitted[r.op] = generation

(* The results the broker validates at all.                                *)
MayBeInvalid(r) == r.phase # "direct" \/ Kind[r.op] \in {"state", "read"}

Replies(r) ==
  SafeReplies(r.phase) \cup {"error"}
  \cup (IF MayBeInvalid(r) THEN {"invalid"} ELSE {})
  \cup (IF r.phase \in MutationPhases THEN {"recovery_required"} ELSE {})

(* The plugin handles one request at a time and delivers its cached        *)
(* response, with retries, before it polls for the next.                   *)
Serves(r, y) ==
  \E i \in DOMAIN outbox :
    /\ outbox[i] = r
    /\ i > served \/ (i = served /\ y = reply)
    /\ served' = i
    /\ reply' = y
    /\ UNCHANGED outbox

(* _observe_result: a state or Play result carries the mode.               *)
ObservesMode(r, y) == y = "ok" /\ Kind[r.op] \in {"state", "play"}

(* A response to the request a waiter is correlated with: the correlation  *)
(* is removed at once, the waiter resumes later.                           *)
ReceiveResponse(r, y) ==
  /\ Accepts(r)
  /\ r \in pending /\ future = "pending"
  /\ y \in Replies(r)
  /\ Serves(r, y)
  /\ pending' = pending \ {r}
  /\ future' = CASE y \in {"invalid", "error"} -> "remote_error"
                 [] y = "recovery_required" -> "result_requires_recovery"
                 [] OTHER -> "result"
  /\ ApplyEffect(Effect(r, y, FALSE), {})
  /\ job' = JobsAfterReply(r, y)
  /\ uncertaintyState' = IF ObservesMode(r, y) THEN "clear" ELSE Effect(r, y, FALSE).shown
  /\ IF ObservesMode(r, y) THEN mode' \in Modes ELSE mode' = mode
  /\ UNCHANGED <<generation, connected, ops, inflight, env, terminalCandidate>>

(* A response to a request that is no longer pending but still uncertain   *)
(* in this generation.                                                     *)
ReceiveLate(r, y) ==
  /\ Accepts(r)
  /\ r \notin pending
  /\ r \in uncertainRequests /\ r \in uncertainPending
  /\ y \in Replies(r) \ {"invalid"}
  /\ Serves(r, y)
  /\ LET kept == y = "recovery_required" \/ (y = "error" /\ r.phase \in MutationPhases)
         e == Effect(r, y, TRUE)
     IN  /\ ApplyEffect(e, IF kept THEN {} ELSE {r})
         /\ uncertaintyState' =
              IF kept THEN e.shown
              ELSE Refreshed(uncertainRequests', multiEditRecovery', multiEditCleanup', "clear")
  /\ job' = JobsAfterReply(r, y)
  /\ UNCHANGED <<conn, ops, waiter, env, terminalCandidate>>

(***************************************************************************)
(* Connection                                                              *)
(***************************************************************************)

(* _disconnect_current: what it makes of the jobs and of the chain.        *)
WasDispatched(o) == \E r \in dispatched : r.op = o

JobAfterDisconnect(o) ==
  CASE job[o] \in TerminalJobStates -> job[o]
    [] /\ job[o] \notin TerminalJobStates
       /\ WasDispatched(o) /\ ~(Kind[o] = "multi" /\ Req(o, "apply") \notin dispatched)
         -> "outcome_unknown"
    [] OTHER -> "failed"

DroppedJobs == Queued \cap JobOps

CloseConnection ==
  /\ multiEditCleanup' = IF Expired(multiEditCleanup).state = "available"
                         THEN NoCleanup ELSE Expired(multiEditCleanup)
  /\ pending' = {}
  /\ future' = IF future = "pending" THEN "lost" ELSE future
  /\ Advance(DroppedJobs)
  /\ stage' = [o \in Op |-> IF o \in DroppedJobs THEN "done" ELSE stage[o]]
  /\ UNCHANGED <<target, admitted, inflight, multiEditRecovery, preparedReceipt, env, history>>

(* The client disconnects, or its lease expires.                           *)
Disconnect ==
  /\ connected
  /\ connected' = FALSE
  /\ CloseConnection
  /\ uncertainRequests' = uncertainRequests \cup pending
  /\ uncertainPending' = uncertainPending \cup pending
  /\ job' = [o \in Op |-> JobAfterDisconnect(o)]
  /\ UNCHANGED <<generation, mode>>
  /\ Recompute(inflight # NoRequest, "clear")

(* The requests a reconnecting plugin may settle by naming them: a bare    *)
(* request id proves no outcome of a dispatched mutation.                  *)
Settleable(ids) == {r \in ids : r.phase \notin MutationPhases}

(* replace_connection: the old generation is fenced, then the named        *)
(* requests are settled.  settled is what the plugin claims.               *)
Reconnect(settled) ==
  /\ generation < MaxGeneration
  /\ settled \subseteq uncertainRequests \cup pending
  /\ generation' = generation + 1
  /\ connected' = TRUE
  /\ mode' \in Modes
  /\ CloseConnection
  /\ uncertainRequests' = (uncertainRequests \cup pending) \ Settleable(settled)
  /\ uncertainPending' = (uncertainPending \cup pending) \ Settleable(settled)
  /\ job' = [o \in Op |-> IF /\ JobAfterDisconnect(o) = "outcome_unknown"
                             /\ \E r \in Settleable(settled) : r.op = o
                          THEN "failed" ELSE JobAfterDisconnect(o)]
  /\ terminalCandidate' = FALSE
  /\ uncertaintyState' = Refreshed(uncertainRequests', multiEditRecovery, multiEditCleanup', "clear")

(***************************************************************************)
(* Environment                                                             *)
(***************************************************************************)

(* The cleanup deadline of a transaction, anchored at its apply, passes:   *)
(* ten minutes, longer than any wait for a response.                       *)
DeadlinePasses(t) ==
  /\ Req(t, "apply") \in dispatched
  /\ inflight # Req(t, "apply")
  /\ t \notin due
  /\ due' = due \cup {t}
  /\ UNCHANGED <<conn, ops, job, waiter, unproven, fences, playBridgeUncertain, shown, history>>

(* snapshot() expires the grant on the way.                                *)
Snapshot ==
  /\ Expired(multiEditCleanup) # multiEditCleanup
  /\ multiEditCleanup' = Expired(multiEditCleanup)
  /\ uncertaintyState' = ShownAfterExpiry
  /\ UNCHANGED <<conn, ops, job, waiter, unproven, multiEditRecovery, preparedReceipt,
                 env, terminalCandidate, history>>

(* receive_event: Studio reports its mode.                                 *)
ModeEvent(m) ==
  /\ connected
  /\ m # mode
  /\ mode' = m
  /\ uncertaintyState' = Refreshed(uncertainRequests, multiEditRecovery, multiEditCleanup, "clear")
  /\ UNCHANGED <<generation, connected, ops, job, waiter, unproven, fences, env,
                 terminalCandidate, history>>

(* The registry opens or closes a Play transition on this session.         *)
PlayBridge ==
  /\ connected
  /\ playBridgeUncertain' = ~playBridgeUncertain
  /\ UNCHANGED <<conn, ops, job, waiter, unproven, fences, due, shown, history>>

Init ==
  /\ generation = 1 /\ connected = TRUE /\ mode \in Modes
  /\ stage = [o \in Op |-> "idle"]
  /\ target = [o \in Op |-> None]
  /\ admitted = [o \in Op |-> 0]
  /\ job = [o \in Op |-> "none"]
  /\ ahead = [o \in Op |-> {}]
  /\ inflight = NoRequest /\ future = "none" /\ pending = {}
  /\ uncertainRequests = {} /\ uncertainPending = {}
  /\ multiEditRecovery = NoRecovery /\ preparedReceipt = None
  /\ multiEditCleanup = NoCleanup
  /\ due = {} /\ playBridgeUncertain = FALSE
  /\ uncertaintyState = "clear" /\ terminalCandidate = FALSE
  /\ outbox = <<>> /\ served = 0 /\ reply = "none" /\ proven = {}

Resume(o) ==
  \/ ContinueToApply(o) \/ ApplyNotDispatched(o) \/ Return(o)
  \/ RaiseRemoteError(o) \/ RaiseOffline(o)

Respond == \E r \in dispatched : \E y \in AllReplies :
             ReceiveResponse(r, y) \/ ReceiveLate(r, y)

Next ==
  \/ \E o \in Op :
       \/ \E t \in Txn \cup {None} : Submit(o, t)
       \/ Begin(o) \/ Refuse(o) \/ Resume(o)
       \/ Timeout(o) \/ CancelWait(o) \/ CancelQueued(o)
  \/ Respond
  \/ Disconnect
  \/ \E settled \in SUBSET dispatched : Reconnect(settled)
  \/ \E t \in Txn : DeadlinePasses(t)
  \/ \E m \in Modes : ModeEvent(m)
  \/ Snapshot \/ PlayBridge

Spec == Init /\ [][Next]_vars

(* asyncio runs every ready coroutine, and every wait carries a timer.     *)
Fairness == \A o \in Op : /\ WF_vars(Begin(o) \/ Refuse(o))
                          /\ WF_vars(Resume(o) \/ Timeout(o))

FairSpec == Spec /\ Fairness

-----------------------------------------------------------------------------
(***************************************************************************)
(* Properties                                                              *)
(***************************************************************************)

(* Every variable keeps its type: the session's maps hold only requests    *)
(* that operations of this session can have sent.                          *)
TypeOK ==
  /\ generation \in 1..MaxGeneration /\ connected \in BOOLEAN /\ mode \in Modes
  /\ stage \in [Op -> {"idle", "queued", "waiting", "done"}]
  /\ target \in [Op -> Txn \cup {None}]
  /\ admitted \in [Op -> Generations]
  /\ job \in [Op -> JobStates]
  /\ ahead \in [Op -> SUBSET Op]
  /\ inflight \in Request \cup {NoRequest}
  /\ future \in Futures
  /\ pending \in SUBSET Request
  /\ uncertainRequests \in SUBSET Request /\ uncertainPending \in SUBSET Request
  /\ multiEditRecovery \in Recoveries
  /\ preparedReceipt \in Txn \cup {None}
  /\ multiEditCleanup \in Cleanups
  /\ due \in SUBSET Txn /\ playBridgeUncertain \in BOOLEAN
  /\ uncertaintyState \in Reasons /\ terminalCandidate \in BOOLEAN
  /\ outbox \in Seq(Request) /\ served \in Nat /\ reply \in AllReplies \cup {"none"}
  /\ proven \in SUBSET Txn

Apply(t) == Req(t, "apply")

(* Transactions that may have changed the document and whose outcome the   *)
(* broker cannot prove.                                                    *)
Unproven == {t \in Txn : Apply(t) \in dispatched /\ t \notin proven}

(* No dispatched apply is ever forgotten: until its outcome is proven, its *)
(* transaction is what the lock holder waits for, or it is recorded as     *)
(* uncertain, or the exact recovery fence names it.  A timeout, a          *)
(* cancellation, a disconnect, a reconnect that claims it settled, and a   *)
(* late receipt that is evidence only must each leave one of the three.    *)
UnprovenIsFenced ==
  \A t \in Unproven :
    \/ inflight = Apply(t)
    \/ Apply(t) \in uncertainRequests
    \/ multiEditRecovery.txn = t

(* All that is unproven belongs to one transaction: when a recovery fence  *)
(* stands, every uncertain request is an apply or a recovery of its        *)
(* transaction.  The exact recovery is admitted only if this holds, so a   *)
(* stray uncertain request would close the session for good.               *)
RecoveryOwnsUncertainty ==
  /\ uncertainRequests = uncertainPending
  /\ uncertainRequests \cap pending = {}
  /\ multiEditRecovery # NoRecovery =>
       \A u \in uncertainRequests : /\ u.phase \in {"apply", "recover"}
                                    /\ TxnOf(u) = multiEditRecovery.txn

(* A cleanup that was dispatched keeps its grant, with its identity, until *)
(* a terminal receipt settles it: neither the deadline, nor a disconnect,  *)
(* nor a new connection may drop it, and no other grant replaces it.       *)
CleanupKept ==
  [][/\ multiEditCleanup.state \in CleanupStates \ {"available"}
     /\ multiEditCleanup'.txn # multiEditCleanup.txn
     => \E r \in dispatched :
          /\ r.phase = "cleanup" /\ TxnOf(r) = multiEditCleanup.txn
          /\ r \in pending \cup uncertainRequests
          /\ r \notin pending' \cup uncertainRequests']_vars

(* The verdict a job gives its client is sound: a multi-edit reported as   *)
(* failed or cancelled never had its apply dispatched, and one reported    *)
(* completed has a proven outcome.                                         *)
JobVerdictSound ==
  \A o \in JobOps \cap Txn :
    /\ job[o] \in {"failed", "cancelled"} => Apply(o) \notin dispatched
    /\ job[o] = "completed" => o \in proven

(* A finished job of unknown outcome still has something that can settle   *)
(* it, so it cannot hold a place among the active jobs for ever: an        *)
(* uncertain or pending request of its own or of its transaction, or a     *)
(* fence on its transaction.                                               *)
UnknownJobHasEvidence ==
  \A o \in JobOps :
    job[o] = "outcome_unknown" /\ stage[o] = "done" =>
      \/ \E u \in uncertainRequests \cup pending :
           u.op = o \/ (TxnOf(u) = target[o] /\ target[o] # None)
      \/ target[o] \in {multiEditRecovery.txn, multiEditCleanup.txn} \ {None}

(* What clients and the retirement sweep read agrees with what is owed: a  *)
(* clear uncertainty_state means no uncertain request, no recovery fence   *)
(* and no cleanup that was dispatched and came back unsettled.             *)
ShownCoversObligations ==
  uncertaintyState = "clear" =>
    /\ uncertainRequests = {}
    /\ multiEditRecovery = NoRecovery
    /\ multiEditCleanup.state \notin {"cleanup_required", "cleanup_expired_settlement"}

(* The cached verdict used to retire a disconnected session is never       *)
(* stale: it is set only while nothing is owed or running, and it is set   *)
(* as soon as an idle, disconnected session in Edit owes nothing.          *)
TerminalVerdictExact ==
  ~connected =>
    (terminalCandidate <=>
       /\ mode = "edit" /\ ~playBridgeUncertain
       /\ inflight = NoRequest /\ pending = {} /\ uncertainRequests = {}
       /\ multiEditRecovery = NoRecovery /\ multiEditCleanup = NoCleanup
       /\ \A o \in Op : job[o] \in TerminalJobStates)

(* The session implements the ledger: at most one transaction is open, and *)
(* none opens while the outcome of another is unproven.                    *)
Ledger == INSTANCE MutationLedger WITH open <- Unproven, settled <- proven
LedgerSpec == Ledger!Spec

(* Every admitted operation comes to an end, whatever the connection and   *)
(* the operations before it do: no waiter and no place in the admission    *)
(* chain is lost.                                                          *)
EveryOperationEnds == \A o \in Op : stage[o] = "queued" ~> stage[o] = "done"

(***************************************************************************)
(* The inductive invariant behind UnprovenIsFenced, RecoveryOwnsUncertainty*)
(* and LedgerSpec.                                                         *)
(***************************************************************************)

(* Every request that left belongs to an operation past the queue and to a *)
(* transaction that was applied, if it recovers one.                       *)
RequestsHaveOwners ==
  /\ \A o \in Op : stage[o] # "idle" => target[o] \in Targets(o)
  /\ \A r \in dispatched :
       /\ stage[r.op] \in {"waiting", "done"}
       /\ r.phase \in {"prepare", "apply"} => Kind[r.op] = "multi" /\ target[r.op] = r.op
       /\ r.phase = "recover" => TxnOf(r) \in Txn /\ Apply(TxnOf(r)) \in dispatched

(* What the broker keeps about requests and transactions was dispatched.   *)
RecordsWereDispatched ==
  /\ inflight # NoRequest => inflight \in dispatched /\ stage[inflight.op] = "waiting"
  /\ inflight.phase = "prepare" => Apply(inflight.op) \notin dispatched
  /\ pending \subseteq {inflight} \ {NoRequest}
  /\ uncertainRequests = uncertainPending
  /\ uncertainRequests \subseteq dispatched \ pending
  /\ \A t \in proven : Apply(t) \in dispatched
  /\ multiEditRecovery # NoRecovery =>
       /\ multiEditRecovery.txn \in Txn
       /\ Apply(multiEditRecovery.txn) \in dispatched

EditRequest(r) == r.phase \in {"apply", "recover"}

(* The request awaited and the requests never answered.                    *)
Owed == uncertainRequests \cup ({inflight} \ {NoRequest})

(* All that is owed concerns one transaction, the one the fence names.     *)
OneSubject ==
  /\ \A u, v \in Owed : \/ u = v
                        \/ EditRequest(u) /\ EditRequest(v) /\ TxnOf(u) = TxnOf(v)
                        \/ u.phase = "cleanup" /\ v.phase = "cleanup"
  /\ multiEditRecovery # NoRecovery =>
       \A u \in Owed : EditRequest(u) /\ TxnOf(u) = multiEditRecovery.txn

(* An apply whose waiter has yet to see a success is proven, or fenced.    *)
AnsweredApplyIsSettled ==
  inflight.phase = "apply" /\ future = "result" =>
    inflight.op \in proven \/ multiEditRecovery.txn = inflight.op

FenceInv ==
  /\ TypeOK
  /\ RequestsHaveOwners
  /\ RecordsWereDispatched
  /\ OneSubject
  /\ AnsweredApplyIsSettled
  /\ UnprovenIsFenced

(***************************************************************************)
(* Statements of the documentation and of comments that the code does not  *)
(* meet, each the property of a run that shows a counterexample.           *)
(***************************************************************************)

(* "Receipt itself proves the remote operation reached a terminal state.   *)
(* Remove correlation immediately so a reconnect before the waiter resumes *)
(* cannot misclassify it as outcome-unknown": once a safe receipt has      *)
(* settled a transaction, no recovery fence claims it is unproven.         *)
ReceiptIsNotMisclassified ==
  multiEditRecovery # NoRecovery => multiEditRecovery.txn \notin proven

(* uncertain_requests holds "dispatched calls whose terminal outcome has   *)
(* not been proven": a request whose future was settled by an accepted     *)
(* answer is not added to it by the wait that ends.                        *)
UncertainMeansUnproven ==
  [][\A r \in uncertainRequests' \ uncertainRequests :
       inflight = r /\ inflight' = NoRequest => future \notin {"result"}]_vars

(* PROTOCOL.md: the quarantine holds "until either a same-generation late  *)
(* response arrives or an authenticated reconnect includes that request in *)
(* settled_request_ids".                                                   *)
SettledReconnectLiftsQuarantine ==
  [][\A settled \in SUBSET dispatched :
       Reconnect(settled) => settled \cap uncertainRequests' = {}]_vars

(* PROTOCOL.md: when the session is quarantined for recovery "the caller   *)
(* may invoke studio_recover_multi_edit_v2": an idle connected session     *)
(* with a recovery fence of its own generation admits that recovery.       *)
RecoveryIsAdmitted ==
  /\ connected /\ inflight = NoRequest /\ ~playBridgeUncertain
  /\ multiEditRecovery # NoRecovery /\ multiEditRecovery.generation = generation
  => \A o \in Op :
       Kind[o] = "recover" /\ stage[o] = "queued" /\ admitted[o] = generation
       /\ target[o] = multiEditRecovery.txn
       => Admissible(Req(o, "recover"), preparedReceipt)
=============================================================================

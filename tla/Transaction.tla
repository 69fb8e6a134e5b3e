------------------------------ MODULE Transaction ------------------------------
(***************************************************************************)
(* A multi-edit as the Edit plugin carries it out in a Studio whose user   *)
(* goes on working (durable_operation_handlers.luau), and its receipts as  *)
(* the session reads them (session.py).                                    *)
(*                                                                         *)
(* A transaction edits existing scripts and then creates new ones.  Apply  *)
(* checks every target, changes them in order, and when one fails undoes   *)
(* in reverse order what it did; recover undoes a transaction whose        *)
(* outcome is unknown, and cleanup deletes what an applied one created.    *)
(* The plugin runs one request at a time.  It gives way to the user only   *)
(* in UpdateSourceAsync: before the editor calls it back, and before it    *)
(* reads the result.  A script's text is named by who wrote it.            *)
(***************************************************************************)
EXTENDS Naturals, Sequences, FiniteSets, SequencesExt

CONSTANTS
  Tx,        \* transactions, each also the text that it plans to write
  Script,    \* scripts that exist
  Slot,      \* parent and name of scripts to be created
  Targets,   \* the targets of each transaction, edits before creations
  Faults,    \* "late", "editor", "lost", "old"
  MaxUser,   \* bound on the user's steps
  MaxFaults, \* bound on faults
  MaxAsked   \* bound on requests

ASSUME TransactionAssumption ==
  /\ Script \cap Slot = {}
  /\ Tx \cap {"none", "orig", "user", ""} = {}
  /\ \A tx \in Tx : Targets[tx] \in Seq(Script \cup Slot) /\ IsInjective(Targets[tx])
  /\ \A tx, ty \in Tx : tx # ty =>
       ToSet(Targets[tx]) \cap ToSet(Targets[ty]) \cap Slot = {}
  /\ {MaxUser, MaxFaults, MaxAsked} \subseteq Nat

VARIABLES
  src,      \* the scripts: text, and whether the path still leads to the same object
  slot,     \* the creations: the transaction's own object, a foreign one, the parent
  mode,     \* "edit" or "play"
  plan,     \* peer.multi_edit_plan
  grant,    \* peer.multi_edit_cleanup_grant
  work,     \* the request that the plugin is working on
  receipt,  \* the latest answer
  hub,      \* what the session knows: what it may apply, must recover, may clean up
  cause,    \* what happened to a transaction: targets that the user touched, faults
  spent     \* steps so far of the user, of faults, requests, and transactions

vars == <<src, slot, mode, plan, grant, work, receipt, hub, cause, spent>>
studio == <<src, slot, mode>>

Index(tx) == 1..Len(Targets[tx])
At(tx, i) == Targets[tx][i]
IsEdit(tx, i) == At(tx, i) \in Script
Edits(tx) == ToSet(Targets[tx]) \cap Script
Creates(tx) == ToSet(Targets[tx]) \cap Slot
CreateIndex(tx) == {i \in Index(tx) : ~IsEdit(tx, i)}

(* A text that could not be read is "", as is a hash in a receipt.         *)
Text == {"orig", "user", ""} \cup Tx
NoEvidence == [outcome |-> "none", outs |-> <<>>]
NoPlan == [tx |-> "none", status |-> "none", read |-> <<>>, evidence |-> NoEvidence]
NoGrant == [tx |-> "none", status |-> "none", only |-> FALSE, old |-> FALSE, evidence |-> NoEvidence]
Idle == [op |-> "idle", step |-> "next", todo |-> <<>>, done |-> <<>>, outs |-> <<>>,
         late |-> FALSE, clash |-> FALSE, fenced |-> FALSE, failed |-> FALSE]
NoReceipt == [n |-> 0, op |-> "none", tx |-> "none", outcome |-> "none", outs |-> <<>>, prior |-> ""]

-----------------------------------------------------------------------------
(* What the plugin sees                                                    *)

(* observeMultiEditCreate                                                  *)
Observe(x) ==
  LET c == slot[x] IN
  CASE ~c.home -> "unavailable"
    [] c.home /\ c.ours \notin {"exact", "dirty"} /\ ~c.foreign ->
         IF c.ours = "moved" THEN "present_unproven" ELSE "absent"
    [] OTHER -> IF c.ours = "exact" /\ c.tracked /\ ~c.foreign THEN "created_exact"
                ELSE "present_unproven"

(* The hash of a script's text, or the state of a creation.                *)
Seen(tx, i) ==
  IF ~IsEdit(tx, i) THEN Observe(At(tx, i))
  ELSE IF src[At(tx, i)].at THEN src[At(tx, i)].text ELSE ""
Unread(tx, i) == IF IsEdit(tx, i) THEN "" ELSE "unavailable"

(* newMultiEditTargetOutcome and its fields                                *)
Outcome(before, after, status) == [before |-> before, after |-> after, status |-> status]
NotDone(tx, i) == IF IsEdit(tx, i) THEN "not_applied" ELSE "not_created"
Prepared(tx, i) == IF IsEdit(tx, i) THEN plan.read[At(tx, i)] ELSE "absent"
Required(o) == [o EXCEPT !.status = "recovery_required"]

Untracked(s, tx) == [x \in Slot |-> IF x \in Creates(tx) THEN [s[x] EXCEPT !.tracked = FALSE] ELSE s[x]]

-----------------------------------------------------------------------------
(* What the session accepts: _valid_multi_edit_mutation_result,            *)
(* _valid_multi_edit_create_outcome, _valid_multi_edit_cleanup_result      *)

ValidEdit(r, i) ==
  LET o == r.outs[i]
      prepared == Prepared(r.tx, i)
      untouched == o.before = prepared /\ o.after = prepared
      undone == o.before \in {prepared, r.tx} /\ o.after = prepared
  IN CASE r.outcome = "applied" -> o = Outcome(prepared, r.tx, "applied")
       [] r.outcome = "aborted_preflight" -> o.status = "not_applied" /\ o.before = o.after
       [] r.outcome = "rolled_back" -> o.status \in {"rolled_back", "not_applied"} /\ untouched
       [] r.outcome = "recovered" ->
            \/ o.status = "rolled_back" /\ undone
            \/ r.prior # "" /\ o.status = "not_applied" /\ o.before = o.after
       [] OTHER -> \/ o.status = "recovery_required"
                   \/ r.op = "apply" /\ o.status \in {"rolled_back", "not_applied"} /\ untouched
                   \/ r.op = "recover" /\ o.status = "rolled_back" /\ undone

ValidCreate(r, i) ==
  LET o == r.outs[i]
      undone == /\ o.after = "absent"
                /\ \/ o.status = "rolled_back" /\ o.before \in {"absent", "created_exact"}
                   \/ o.status = "not_created" /\ o.before = "absent"
      kept == o.status = "not_created" /\ o.before = o.after /\ o.after # "created_exact"
  IN CASE r.outcome = "applied" -> o = Outcome("absent", "created_exact", "created")
       [] r.outcome = "aborted_preflight" -> kept
       [] r.outcome = "rolled_back" -> undone
       [] r.outcome = "recovered" -> undone \/ (r.prior # "" /\ kept)
       [] OTHER -> undone \/ (o.status = "recovery_required" /\ o.after # "absent")

ValidMutation(r) ==
  /\ r.outcome \in IF r.op = "apply"
                   THEN {"applied", "aborted_preflight", "rolled_back", "recovery_required"}
                   ELSE {"recovered", "recovery_required"}
  /\ r.prior # "" => /\ r.op = "recover" /\ r.outcome = "recovered"
                     /\ r.prior \in {"aborted_preflight", "rolled_back", "recovered"}
  /\ r.outcome = "applied" /\ Creates(r.tx) # {} => hub.cleanup = "none"
  /\ DOMAIN r.outs = Index(r.tx)
  /\ \A i \in Index(r.tx) : IF IsEdit(r.tx, i) THEN ValidEdit(r, i) ELSE ValidCreate(r, i)
  /\ r.outcome = "aborted_preflight" =>
       \E i \in Index(r.tx) : r.outs[i].before # Prepared(r.tx, i)
  /\ (r.outcome = "recovery_required")
       = (\E i \in Index(r.tx) : r.outs[i].status = "recovery_required")

ValidCleanup(r) ==
  LET are(statuses) == \A i \in DOMAIN r.outs : r.outs[i].status \in statuses
      some(status) == \E i \in DOMAIN r.outs : r.outs[i].status = status
  IN /\ r.tx = hub.cleanup /\ DOMAIN r.outs = CreateIndex(r.tx)
     /\ r.prior \in {"", r.outcome} /\ (r.prior # "" => r.outcome # "cleanup_required")
     /\ \A i \in DOMAIN r.outs :
          CASE r.outs[i].status = "deleted" -> r.outs[i] = Outcome("created_exact", "absent", "deleted")
            [] r.outs[i].status = "already_absent" ->
                 r.outs[i] = Outcome("absent", "absent", "already_absent")
            [] r.outs[i].status = "not_deleted" ->
                 r.outs[i] = Outcome("created_exact", "created_exact", "not_deleted")
            [] r.outs[i].status = "preserved_conflict" -> r.outs[i].after # "absent"
            [] OTHER -> r.outs[i].status = "cleanup_required"
     /\ r.outcome = "cleaned" => are({"deleted", "already_absent"})
     /\ r.outcome = "refused" => /\ are({"already_absent", "not_deleted", "preserved_conflict"})
                                 /\ some("preserved_conflict")
     /\ (r.outcome = "cleanup_required") = some("cleanup_required")

Valid(r) == IF r.op = "cleanup" THEN ValidCleanup(r) ELSE ValidMutation(r)

-----------------------------------------------------------------------------
(* The session                                                             *)

(* No answer, an error, or a receipt that proves nothing                   *)
Unproven(op, tx) ==
  IF op = "cleanup" THEN [hub EXCEPT !.owing = TRUE] ELSE [hub EXCEPT !.fence = tx, !.ready = "none"]

(* receive_response, _observe_multi_edit_receipt                           *)
Heard(r) ==
  CASE ~Valid(r) \/ r.outcome \in {"recovery_required", "cleanup_required"} -> Unproven(r.op, r.tx)
    [] Valid(r) /\ r.outcome \in {"cleaned", "refused"} ->
         [hub EXCEPT !.cleanup = "none", !.owing = FALSE, !.over = FALSE]
    [] OTHER -> [hub EXCEPT !.fence = "none", !.ready = "none",
                            !.cleanup = IF r.outcome = "applied" /\ Creates(r.tx) # {} THEN r.tx ELSE @]

(* Faults that strike in this step, and what a request may blame           *)
Suffer(fs, asked) ==
  /\ fs \subseteq Faults /\ spent.faults + Cardinality(fs) <= MaxFaults
  /\ spent' = [spent EXCEPT !.faults = @ + Cardinality(fs), !.asked = @ + asked]

MayAsk == work.op = "idle" /\ spent.asked < MaxAsked
Ask(fs) == /\ MayAsk /\ Suffer(fs, 1)
           /\ cause' = (cause \cap (Script \cup Slot)) \cup fs

(* The plugin answers; the answer arrives, or is lost.                     *)
Say(op, tx, outcome, outs, prior) ==
  /\ receipt' = [n |-> spent'.asked, op |-> op, tx |-> tx, outcome |-> outcome, outs |-> outs,
                 prior |-> prior]
  /\ work' = [Idle EXCEPT !.op = op, !.step = "reply"]

Answer ==
  /\ work.step = "reply" /\ work' = Idle
  /\ \/ Suffer({}, 0) /\ hub' = Heard(receipt)
     \/ Suffer({"lost"}, 0) /\ hub' = Unproven(receipt.op, receipt.tx)
  /\ UNCHANGED <<studio, plan, grant, receipt, cause>>

-----------------------------------------------------------------------------
(* Prepare                                                                 *)

(* refreshMultiEditCleanupGrant                                            *)
Refreshed ==
  IF ~grant.old THEN grant
  ELSE IF grant.status = "cleanup_required" THEN [grant EXCEPT !.only = TRUE] ELSE NoGrant
RefreshedSlots == IF grant.old THEN Untracked(slot, grant.tx) ELSE slot

Preparable(tx) ==
  /\ mode = "edit" /\ plan.status \notin {"applying", "recovery_required"}
  /\ Refreshed.status # "cleanup_required"
  /\ Creates(tx) # {} => Refreshed.status \in {"none", "cleaned", "refused"}
  /\ \A s \in Edits(tx) : src[s].at
  /\ \A x \in Creates(tx) : Observe(x) = "absent"

(* prepareMultiEdit: a plan in memory that a later one replaces.           *)
Prepare(tx) ==
  /\ MayAsk /\ tx \notin spent.used
  /\ hub.ready = "none" /\ hub.fence = "none" /\ ~hub.owing
  /\ hub.cleanup = "none" \/ Creates(tx) = {}
  /\ Preparable(tx)
  /\ plan' = [tx |-> tx, status |-> "prepared", evidence |-> NoEvidence,
              read |-> [s \in Edits(tx) |-> src[s].text]]
  /\ grant' = IF Creates(tx) = {} THEN Refreshed ELSE NoGrant
  /\ slot' = RefreshedSlots
  /\ cause' = {}
  /\ hub' = [hub EXCEPT !.ready = tx]
  /\ spent' = [spent EXCEPT !.asked = @ + 1, !.used = @ \cup {tx}]
  /\ UNCHANGED <<src, mode, work, receipt>>

PrepareRefused(tx) ==
  /\ MayAsk /\ tx \notin spent.used
  /\ hub.ready = "none" /\ hub.fence = "none" /\ ~hub.owing
  /\ hub.cleanup = "none" \/ Creates(tx) = {}
  /\ ~Preparable(tx) /\ mode = "edit"
  /\ grant' = Refreshed /\ slot' = RefreshedSlots
  /\ spent' = [spent EXCEPT !.asked = @ + 1]
  /\ UNCHANGED <<src, mode, plan, work, receipt, hub, cause>>

(* Its receipt is refused, or the operation is cancelled before its apply. *)
GiveUp ==
  /\ hub.ready # "none" /\ work.op = "idle"
  /\ hub' = [hub EXCEPT !.ready = "none"]
  /\ UNCHANGED <<studio, plan, grant, work, receipt, cause, spent>>

-----------------------------------------------------------------------------
(* The start of apply and of recover                                       *)

(* Mutant: the plan keeps its status.                                      *)
EndedApplying(outcome, outs) == [plan EXCEPT !.evidence = [outcome |-> outcome, outs |-> outs]]
Ended(outcome, outs) ==
  [plan EXCEPT !.status = outcome,
               !.evidence = IF outcome \in {"aborted_preflight", "rolled_back", "recovered"}
                            THEN [outcome |-> outcome, outs |-> outs] ELSE @]

(* The deadline passes at target l, or after the last one.                 *)
Preflight(tx, l) ==
  [i \in Index(tx) |-> LET seen == IF i < l THEN Seen(tx, i) ELSE Unread(tx, i)
                       IN Outcome(seen, seen, NotDone(tx, i))]

(* applyMultiEdit refuses: Play, or a plan that is too old.                *)
ApplyRefused(tx) ==
  /\ hub.ready = tx
  /\ \/ mode = "play" /\ Ask({})
     \/ mode = "edit" /\ Ask({"old"})
  /\ hub' = Unproven("apply", tx)
  /\ UNCHANGED <<studio, plan, grant, work, receipt>>

(* applyMultiEdit up to its first write                                    *)
Apply(tx) ==
  LET n == Len(Targets[tx]) IN
  /\ hub.ready = tx /\ mode = "edit" /\ plan.tx = tx /\ plan.status = "prepared"
  /\ \E l \in 1..(n + 2) :
       LET outs == Preflight(tx, l)
           conflict == \E i \in Index(tx) : outs[i].before # Prepared(tx, i)
           outcome == IF conflict THEN "aborted_preflight" ELSE "rolled_back"
       IN /\ Ask(IF l = n + 2 THEN {} ELSE {"late"})
          /\ IF conflict \/ l = n + 1
             THEN plan' = Ended(outcome, outs) /\ Say("apply", tx, outcome, outs, "")
             ELSE /\ plan' = [plan EXCEPT !.status = "applying"]
                  /\ work' = [Idle EXCEPT !.op = "apply", !.outs = outs,
                                          !.todo = [i \in Index(tx) |-> i]]
                  /\ UNCHANGED receipt
  /\ UNCHANGED <<studio, grant, hub>>

MayRecover(tx) ==
  /\ hub.fence = tx
  /\ hub.cleanup = "none" \/ (Creates(tx) = {} /\ ~hub.owing)

(* A recovery that succeeds drops the transaction's cleanup grant.         *)
GrantAfter(tx) == IF grant.tx = tx THEN NoGrant ELSE grant

(* recoverMultiEdit replays its evidence, or starts at the last target.    *)
Recover(tx) ==
  /\ MayRecover(tx) /\ mode = "edit" /\ plan.tx = tx
  /\ Ask({})
  /\ IF plan.evidence # NoEvidence
     THEN /\ plan' = Ended("recovered", plan.evidence.outs)
          /\ Say("recover", tx, "recovered", plan.evidence.outs, plan.evidence.outcome)
          /\ grant' = GrantAfter(tx)
     ELSE /\ work' = [Idle EXCEPT !.op = "recover", !.outs = [i \in Index(tx) |-> Outcome("", "", "")],
                                  !.todo = Reverse([i \in Index(tx) |-> i])]
          /\ UNCHANGED <<plan, grant, receipt>>
  /\ UNCHANGED <<studio, hub>>

-----------------------------------------------------------------------------
(* One target after another                                                *)

Now(i) == work.step = "next" /\ work.todo # <<>> /\ i = Head(work.todo)
InTime == work.op = "undo" \/ ~work.late

(* The target is dealt with; after a failure, apply undoes in reverse.     *)
Go(i, o) ==
  [work EXCEPT !.step = "next", !.outs[i] = o, !.todo = Tail(@),
               !.clash = FALSE, !.fenced = FALSE, !.failed = FALSE]
Did(i, o) == [Go(i, o) EXCEPT !.done = <<i>> \o @]
Fail(w) == [w EXCEPT !.op = "undo", !.step = "next", !.todo = w.done, !.done = <<>>]
Stuck(i, o) == IF work.op = "apply" THEN Fail(Go(i, Required(o))) ELSE Go(i, Required(o))
Restored(i, o) == Go(i, [o EXCEPT !.status = "rolled_back"])

(* The deadline has passed.                                                *)
TooLate(i) ==
  /\ Now(i) /\ work.op \in {"apply", "recover"}
  /\ IF work.late THEN UNCHANGED <<cause, spent>>
     ELSE Suffer({"late"}, 0) /\ cause' = cause \cup {"late"}
  /\ work' = IF work.op = "apply" THEN Fail([work EXCEPT !.late = TRUE])
             ELSE [Go(i, Outcome(Unread(plan.tx, i), Unread(plan.tx, i), "recovery_required"))
                     EXCEPT !.late = TRUE]
  /\ UNCHANGED <<studio, plan, grant, receipt, hub>>

(* An edit up to UpdateSourceAsync; recovery looks at the text first.      *)
EditTarget(i) ==
  LET s == At(plan.tx, i)
      text == src[s].text
      before == IF work.op = "recover" THEN text ELSE work.outs[i].before
  IN
  /\ Now(i) /\ InTime /\ IsEdit(plan.tx, i)
  /\ work' = CASE ~src[s].at ->
                    Stuck(i, Outcome(IF work.op = "undo" THEN before ELSE "", "", ""))
               [] src[s].at /\ work.op = "recover" /\ text # plan.tx ->
                    IF text = plan.read[s] THEN Restored(i, Outcome(text, text, ""))
                    ELSE Stuck(i, Outcome(text, text, ""))
               [] src[s].at /\ (work.op # "recover" \/ text = plan.tx) /\ mode = "play" ->
                    Stuck(i, Outcome(before, "", ""))
               [] OTHER -> [work EXCEPT !.step = "cas", !.outs[i].before = before]
  /\ UNCHANGED <<studio, plan, grant, receipt, hub, cause, spent>>

(* Mutants: undoing expects the text that was prepared; no comparison.     *)
ExpectedPrepared(i) == plan.read[At(plan.tx, i)]
MatchesAny(i) == TRUE
(* multiEditCasReplace: the text that is expected, and its replacement     *)
Expected(i) == IF work.op = "apply" THEN plan.read[At(plan.tx, i)] ELSE plan.tx
Replacement(i) == IF work.op = "apply" THEN plan.tx ELSE plan.read[At(plan.tx, i)]
Matches(i) == src[At(plan.tx, i)].text = Expected(i)
Fenced(i) == Matches(i) /\ ~(mode = "edit" /\ src[At(plan.tx, i)].at)
Clashes(i) ==
  ~Matches(i) /\ ~(work.op # "apply" /\ src[At(plan.tx, i)].text = Replacement(i))

(* The editor's callback; the editor may fail before it, or after it.      *)
Update(i) ==
  LET s == At(plan.tx, i) IN
  /\ work.step = "cas" /\ i = Head(work.todo)
  /\ \/ /\ \E failed \in BOOLEAN :
             /\ Suffer(IF failed THEN {"editor"} ELSE {}, 0)
             /\ cause' = IF failed THEN cause \cup {"editor"} ELSE cause
             /\ work' = [work EXCEPT !.step = "confirm", !.failed = failed, !.fenced = Fenced(i),
                                     !.clash = Clashes(i)]
        /\ src' = IF Matches(i) /\ ~Fenced(i) THEN [src EXCEPT ![s].text = Replacement(i)] ELSE src
     \/ /\ Suffer({"editor"}, 0) /\ cause' = cause \cup {"editor"}
        /\ work' = [work EXCEPT !.step = "confirm", !.failed = TRUE, !.fenced = FALSE, !.clash = FALSE]
        /\ src' = src
  /\ UNCHANGED <<slot, mode, plan, grant, receipt, hub>>

(* The text is read again; a text that is still the expected one proves    *)
(* that nothing was written.                                               *)
Uncertain(i) == work.fenced \/ ~Matches(i)
Confirm(i) ==
  LET s == At(plan.tx, i)
      o == [work.outs[i] EXCEPT !.after = src[s].text]
      replaced == /\ ~work.failed /\ ~work.fenced /\ ~work.clash /\ src[s].text = Replacement(i)
  IN
  /\ work.step = "confirm" /\ i = Head(work.todo)
  /\ work' = CASE ~src[s].at -> Stuck(i, [o EXCEPT !.after = ""])
               [] src[s].at /\ replaced ->
                    IF work.op = "apply" THEN Did(i, [o EXCEPT !.status = "applied"])
                    ELSE Restored(i, o)
               [] src[s].at /\ ~replaced /\ work.op = "apply" /\ ~Uncertain(i) -> Fail(Go(i, o))
               [] OTHER -> Stuck(i, o)
  /\ UNCHANGED <<studio, plan, grant, receipt, hub, cause, spent>>

(* applyMultiEditCreate.  When the editor fails, nothing is created, or    *)
(* the creation has no fingerprint that would identify it ever again.      *)
CreateTarget(i) ==
  LET x == At(plan.tx, i)
      o(after, status) == [work.outs[i] EXCEPT !.after = after, !.status = status]
      made(tracked) == slot' = [slot EXCEPT ![x].ours = "exact", ![x].tracked = tracked]
  IN
  /\ Now(i) /\ work.op = "apply" /\ InTime /\ ~IsEdit(plan.tx, i)
  /\ \/ /\ Observe(x) # "absent" \/ mode = "play"
        /\ work' = Stuck(i, o(IF Observe(x) # "absent" THEN Observe(x) ELSE "unavailable", ""))
        /\ UNCHANGED <<slot, cause, spent>>
     \/ /\ Observe(x) = "absent" /\ mode = "edit"
        /\ made(TRUE) /\ work' = Did(i, o("created_exact", "created"))
        /\ UNCHANGED <<cause, spent>>
     \/ /\ Observe(x) = "absent" /\ mode = "edit" /\ Suffer({"editor"}, 0)
        /\ cause' = cause \cup {"editor"}
        /\ work' = Fail(Go(i, o("absent", "not_created"))) /\ slot' = slot
     \/ /\ Observe(x) = "absent" /\ mode = "edit" /\ Suffer({"editor"}, 0)
        /\ cause' = cause \cup {"editor", x}
        /\ made(FALSE) /\ work' = Fail(Did(i, o("unavailable", "recovery_required")))
  /\ UNCHANGED <<src, mode, plan, grant, receipt, hub>>

(* compensateMultiEditCreate: only the exact creation, untouched, in Edit. *)
Deletable(x) == Observe(x) = "created_exact" /\ mode = "edit"
RemoveTarget(i) ==
  LET x == At(plan.tx, i) IN
  /\ Now(i) /\ work.op \in {"undo", "recover"} /\ InTime /\ ~IsEdit(plan.tx, i)
  /\ \/ /\ Deletable(x)
        /\ slot' = [slot EXCEPT ![x].ours = "deleted"]
        /\ work' = Restored(i, Outcome("created_exact", "absent", ""))
        /\ UNCHANGED <<cause, spent>>
     \/ /\ Deletable(x) /\ Suffer({"editor"}, 0) /\ cause' = cause \cup {"editor"}
        /\ work' = Stuck(i, Outcome("created_exact", "created_exact", "")) /\ slot' = slot
     \/ /\ ~Deletable(x)
        /\ work' = IF Observe(x) = "absent" THEN Restored(i, Outcome("absent", "absent", ""))
                   ELSE Stuck(i, Outcome(Observe(x), Observe(x), ""))
        /\ UNCHANGED <<slot, cause, spent>>
  /\ UNCHANGED <<src, mode, plan, grant, receipt, hub>>

-----------------------------------------------------------------------------
(* The end of apply and of recover                                         *)

Over(op) == work.op = op /\ work.step = "next" /\ work.todo = <<>>

(* installMultiEditCleanupGrant, in the receipt of an apply                *)
Applied ==
  /\ Over("apply") /\ Suffer({}, 0)
  /\ plan' = Ended("applied", work.outs)
  /\ grant' = IF Creates(plan.tx) = {} THEN grant
              ELSE [NoGrant EXCEPT !.tx = plan.tx, !.status = "authorized"]
  /\ Say("apply", plan.tx, "applied", work.outs, "")
  /\ UNCHANGED <<studio, hub, cause>>

(* Mutant: what was restored is not looked at again.                       *)
CheckedTrusting(i) == work.outs[i]
(* After the undoing, every target is looked at once more.                 *)
Checked(i) ==
  LET o == [work.outs[i] EXCEPT !.after = Seen(plan.tx, i)]
  IN IF IsEdit(plan.tx, i)
     THEN IF Seen(plan.tx, i) = Prepared(plan.tx, i) THEN work.outs[i] ELSE Required(o)
     ELSE IF slot[At(plan.tx, i)].ours = "none" THEN work.outs[i]
     ELSE IF Observe(At(plan.tx, i)) = "absent" THEN o ELSE Required(o)

Unrestored(outs) == \E i \in DOMAIN outs : outs[i].status = "recovery_required"

Undone ==
  LET outs == [i \in Index(plan.tx) |-> Checked(i)]
      outcome == IF Unrestored(outs) THEN "recovery_required" ELSE "rolled_back"
  IN
  /\ Over("undo") /\ Suffer({}, 0)
  /\ plan' = Ended(outcome, outs)
  /\ slot' = IF Unrestored(outs) THEN slot ELSE Untracked(slot, plan.tx)
  /\ Say("apply", plan.tx, outcome, outs, "")
  /\ UNCHANGED <<src, mode, grant, hub, cause>>

Recovered ==
  LET outcome == IF Unrestored(work.outs) THEN "recovery_required" ELSE "recovered" IN
  /\ Over("recover") /\ Suffer({}, 0)
  /\ plan' = Ended(outcome, work.outs)
  /\ slot' = IF Unrestored(work.outs) THEN slot ELSE Untracked(slot, plan.tx)
  /\ grant' = IF Unrestored(work.outs) THEN grant ELSE GrantAfter(plan.tx)
  /\ Say("recover", plan.tx, outcome, work.outs, "")
  /\ UNCHANGED <<src, mode, hub, cause>>

-----------------------------------------------------------------------------
(* Cleanup                                                                 *)

MayCleanup(tx) == hub.cleanup = tx /\ ~hub.over /\ hub.fence = "none" /\ hub.ready = "none"
Usable(tx) == Refreshed.tx = tx /\ (Refreshed.evidence # NoEvidence \/ ~Refreshed.only)

(* cleanupMultiEdit refuses: Play, or a grant that is gone.                *)
CleanupRefused(tx) ==
  /\ MayCleanup(tx) /\ Ask({})
  /\ \/ mode = "play" /\ UNCHANGED <<grant, slot>>
     \/ mode = "edit" /\ ~Usable(tx) /\ grant' = Refreshed /\ slot' = RefreshedSlots
  /\ hub' = Unproven("cleanup", tx)
  /\ UNCHANGED <<src, mode, plan, work, receipt>>

CleanupAgain(tx) ==
  /\ MayCleanup(tx) /\ mode = "edit" /\ Usable(tx) /\ grant.evidence # NoEvidence
  /\ Ask({})
  /\ Say("cleanup", tx, grant.status, grant.evidence.outs, grant.status)
  /\ UNCHANGED <<studio, plan, grant, hub>>

(* The clock ticks at each target of the check, and twice at each deletion *)
(* in reverse order: before it, and just before the script is destroyed.   *)
Place(tx, i) == Cardinality({j \in CreateIndex(tx) : j <= i})
Before(tx, i) == LET n == Cardinality(CreateIndex(tx)) IN n + 2 * (n - Place(tx, i)) + 1
Never(tx) == 3 * Cardinality(CreateIndex(tx)) + 1

Inspected(tx, i, late, old) ==
  LET seen == Observe(At(tx, i)) IN
  CASE old <= Place(tx, i) -> Outcome("unavailable", "unavailable", "cleanup_required")
    [] old > Place(tx, i) /\ late <= Place(tx, i) ->
         Outcome("unavailable", "unavailable", "preserved_conflict")
    [] OTHER -> Outcome(seen, seen, CASE seen = "created_exact" -> "not_deleted"
                                      [] seen = "absent" -> "already_absent"
                                      [] OTHER -> "preserved_conflict")

(* Every target from the last to the one that fails is deleted.            *)
Swept(tx, pre, stop, late, old) ==
  [i \in CreateIndex(tx) |->
     CASE pre[i].status = "already_absent" -> pre[i]
       [] pre[i].status # "already_absent" /\ i > stop -> Outcome("created_exact", "absent", "deleted")
       [] pre[i].status # "already_absent" /\ i = stop ->
            Outcome("created_exact",
                    IF late <= Before(tx, i) \/ old <= Before(tx, i) THEN "unavailable"
                    ELSE "created_exact", "cleanup_required")
       [] OTHER -> [pre[i] EXCEPT !.status = "cleanup_required"]]

CleanupEnds(tx, outcome, outs, only, old) ==
  /\ grant' = [grant EXCEPT !.status = outcome, !.only = only, !.old = old <= Never(tx) - 1,
                            !.evidence = IF outcome = "cleanup_required" THEN @
                                         ELSE [outcome |-> outcome, outs |-> outs]]
  /\ slot' = LET kept == [x \in Slot |->
                            IF \E i \in DOMAIN outs : At(tx, i) = x /\ outs[i].status = "deleted"
                            THEN [slot[x] EXCEPT !.ours = "deleted"] ELSE slot[x]]
             IN IF outcome = "cleanup_required" /\ ~only THEN kept ELSE Untracked(kept, tx)
  /\ Say("cleanup", tx, outcome, outs, "")

(* cleanupMultiEdit, when the deadline passes at tick late, the grant      *)
(* expires at tick old and the editor fails to delete target bad.          *)
CleanupRun(tx, late, old, bad) ==
  LET pre == [i \in CreateIndex(tx) |-> Inspected(tx, i, late, old)]
      expired == \E i \in DOMAIN pre : pre[i].status = "cleanup_required"
      conflict == \E i \in DOMAIN pre : pre[i].status = "preserved_conflict"
      failing == {i \in DOMAIN pre :
                    /\ pre[i].status # "already_absent"
                    /\ i = bad \/ late <= Before(tx, i) \/ old <= Before(tx, i) + 1}
      stop == IF failing = {} THEN 0 ELSE CHOOSE i \in failing : \A j \in failing : j <= i
      closed == [i \in DOMAIN pre |-> IF pre[i].status = "not_deleted"
                                      THEN [pre[i] EXCEPT !.status = "cleanup_required"] ELSE pre[i]]
  IN /\ Ask((IF late < Never(tx) THEN {"late"} ELSE {}) \cup (IF old < Never(tx) THEN {"old"} ELSE {})
            \cup IF bad # 0 THEN {"editor"} ELSE {})
     /\ CASE expired -> CleanupEnds(tx, "cleanup_required", closed, TRUE, old)
          [] ~expired /\ conflict -> CleanupEnds(tx, "refused", pre, FALSE, old)
          [] OTHER -> CleanupEnds(tx, IF failing = {} THEN "cleaned" ELSE "cleanup_required",
                                  Swept(tx, pre, stop, late, old),
                                  failing # {} /\ old <= Before(tx, stop) + 1, old)

Cleanup(tx) ==
  /\ MayCleanup(tx) /\ mode = "edit" /\ Usable(tx) /\ grant.evidence = NoEvidence
  /\ \E late, old \in 1..Never(tx), bad \in CreateIndex(tx) \cup {0} : CleanupRun(tx, late, old, bad)
  /\ UNCHANGED <<src, mode, plan, hub>>

(* The authorisation ends in the plugin, and then in the session.          *)
GrantExpires ==
  /\ work.op = "idle" /\ grant.status # "none" /\ ~grant.old
  /\ Suffer({"old"}, 0)
  /\ grant' = [grant EXCEPT !.old = TRUE]
  /\ UNCHANGED <<studio, plan, work, receipt, hub, cause>>
HubExpires ==
  /\ work.op = "idle" /\ hub.cleanup # "none" /\ ~hub.over
  /\ grant.old \/ grant.tx # hub.cleanup
  /\ hub' = IF hub.owing THEN [hub EXCEPT !.over = TRUE] ELSE [hub EXCEPT !.cleanup = "none"]
  /\ UNCHANGED <<studio, plan, grant, work, receipt, cause, spent>>

-----------------------------------------------------------------------------
(* The user of Studio                                                      *)

UserActs(touched) ==
  /\ work.op = "idle" \/ work.step \in {"cas", "confirm"}
  /\ spent.user < MaxUser /\ spent' = [spent EXCEPT !.user = @ + 1]
  /\ cause' = cause \cup {touched}
  /\ UNCHANGED <<plan, grant, work, receipt, hub>>

UserWrites(s) ==
  /\ \E text \in {"orig", "user"} \ {src[s].text} : src' = [src EXCEPT ![s].text = text]
  /\ UserActs(s) /\ UNCHANGED <<slot, mode>>
UserMoves(s) ==
  /\ src' = [src EXCEPT ![s].at = ~@]
  /\ UserActs(s) /\ UNCHANGED <<slot, mode>>
UserCreates(x) ==
  /\ slot' \in {[slot EXCEPT ![x].foreign = ~@], [slot EXCEPT ![x].home = ~@]}
  /\ UserActs(x) /\ UNCHANGED <<src, mode>>
UserChanges(x) ==
  /\ slot[x].ours \in {"exact", "dirty"}
  /\ \E as \in {"dirty", "moved", "deleted"} \ {slot[x].ours} : slot' = [slot EXCEPT ![x].ours = as]
  /\ UserActs(x) /\ UNCHANGED <<src, mode>>
UserPlays ==
  /\ mode' = IF mode = "edit" THEN "play" ELSE "edit"
  /\ UserActs("mode") /\ UNCHANGED <<src, slot>>

-----------------------------------------------------------------------------

Init ==
  /\ src = [s \in Script |-> [text |-> "orig", at |-> TRUE]]
  /\ slot = [x \in Slot |-> [ours |-> "none", foreign |-> FALSE, home |-> TRUE, tracked |-> FALSE]]
  /\ mode = "edit" /\ plan = NoPlan /\ grant = NoGrant /\ work = Idle /\ receipt = NoReceipt
  /\ hub = [ready |-> "none", fence |-> "none", cleanup |-> "none", owing |-> FALSE,
            over |-> FALSE]
  /\ cause = {} /\ spent = [user |-> 0, faults |-> 0, asked |-> 0, used |-> {}]

Request ==
  \E tx \in Tx : \/ Prepare(tx) \/ PrepareRefused(tx) \/ Apply(tx) \/ ApplyRefused(tx) \/ Recover(tx)
                 \/ Cleanup(tx) \/ CleanupAgain(tx) \/ CleanupRefused(tx)
Working ==
  \/ /\ plan # NoPlan
     /\ \E i \in Index(plan.tx) : \/ TooLate(i) \/ EditTarget(i) \/ Update(i) \/ Confirm(i)
                                  \/ CreateTarget(i) \/ RemoveTarget(i)
  \/ Applied \/ Undone \/ Recovered \/ Answer
User ==
  \/ \E s \in Script : UserWrites(s) \/ UserMoves(s)
  \/ \E x \in Slot : UserCreates(x) \/ UserChanges(x)
  \/ UserPlays
Next == Request \/ Working \/ User \/ GiveUp \/ GrantExpires \/ HubExpires

Spec == Init /\ [][Next]_vars

-----------------------------------------------------------------------------
(* Properties                                                              *)

(* Types: every status is one that the plugin or the session knows.        *)
TypeOK ==
  /\ \A s \in Script : src[s].text \in Text \ {""} /\ src[s].at \in BOOLEAN
  /\ \A x \in Slot : /\ slot[x].ours \in {"none", "exact", "dirty", "moved", "deleted"}
                     /\ {slot[x].foreign, slot[x].home, slot[x].tracked} \subseteq BOOLEAN
  /\ mode \in {"edit", "play"}
  /\ plan.tx \in Tx \cup {"none"} /\ grant.tx \in Tx \cup {"none"}
  /\ plan.status \in {"none", "prepared", "applying", "applied", "aborted_preflight", "rolled_back",
                      "recovery_required", "recovered"}
  /\ grant.status \in {"none", "authorized", "cleaned", "refused", "cleanup_required"}
  /\ work.op \in {"idle", "apply", "undo", "recover", "cleanup"}
  /\ work.step \in {"next", "cas", "confirm", "reply"}
  /\ {hub.ready, hub.fence, hub.cleanup} \subseteq Tx \cup {"none"} /\ {hub.owing, hub.over} \subseteq BOOLEAN
  /\ cause \subseteq Script \cup Slot \cup {"late", "editor", "old", "mode"}
  /\ plan.status = "applying" => work.op \in {"apply", "undo", "recover"}

(* A receipt that settles a transaction is true of Studio when it is made: *)
(* applied, every target is as planned unless the user has touched it      *)
(* since; taken back, nothing of the transaction is left anywhere, and     *)
(* after a rollback the scripts are as prepared; cleaned, its creations    *)
(* are gone (durable_operation_handlers.luau:5880, 6200, 6454).            *)
ReceiptHolds ==
  LET tx == receipt.tx
      gone == \A x \in Creates(tx) : slot[x].ours \in {"none", "deleted"}
  IN CASE receipt.outcome = "applied" ->
            /\ \A s \in Edits(tx) : src[s].text = tx \/ s \in cause
            /\ \A x \in Creates(tx) : slot[x].ours = "exact" \/ x \in cause
       [] receipt.outcome = "rolled_back" ->
            (\A s \in Edits(tx) : src[s].text = plan.read[s]) /\ gone
       [] receipt.outcome \in {"aborted_preflight", "recovered"} ->
            (\A s \in Edits(tx) : src[s].text # tx) /\ gone
       [] receipt.outcome = "cleaned" -> \A x \in Creates(tx) : slot[x].ours = "deleted"
       [] OTHER -> TRUE
ReceiptIsTrue == [][receipt' # receipt => ReceiptHolds']_vars

(* What the user did is kept: the plugin replaces a text only by another   *)
(* of the two that its plan holds, and deletes only the object that it     *)
(* created and nobody has touched, never in Play                           *)
(* (durable_operation_handlers.luau:5098, 5495).                           *)
KeepsUserWork ==
  spent'.user = spent.user =>
    /\ \A s \in Script : src'[s] # src[s] =>
         /\ mode = "edit" /\ src[s].at
         /\ {src[s].text, src'[s].text} = {plan.tx, plan.read[s]}
    /\ \A x \in Slot : slot[x].ours # slot'[x].ours /\ slot[x].ours \in {"exact", "dirty", "moved"} =>
         mode = "edit" /\ Observe(x) = "created_exact" /\ slot'[x].ours = "deleted"
UserWorkKept == [][KeepsUserWork]_vars

(* A creation that could not be undone, and that the user then deleted     *)
(* while the apply went on undoing: it stays recovery_required, "absent".  *)
DeletedMeanwhile(r) ==
  /\ r.outcome = "recovery_required" /\ r.op = "apply"
  /\ \E i \in CreateIndex(r.tx) : /\ r.outs[i].status = "recovery_required"
                                  /\ r.outs[i].after = "absent" /\ At(r.tx, i) \in cause

(* The session accepts every receipt that the plugin makes, but for a      *)
(* creation deleted meanwhile, and a target that still requires recovery   *)
(* has a cause: the user touched it, or this request met Play, its         *)
(* deadline or an error of the editor (session.py:4280,                    *)
(* durable_operation_handlers.luau:6200).                                  *)
RecoveryHasCause ==
  [][receipt' # receipt =>
       /\ Valid(receipt') \/ DeletedMeanwhile(receipt')
       /\ \A i \in DOMAIN receipt'.outs :
            receipt'.outs[i].status \in {"recovery_required", "cleanup_required"} =>
              At(receipt'.tx, i) \in cause' \/ cause' \cap {"late", "editor", "old", "mode"} # {}]_vars

(* Every receipt that the plugin makes passes the session's validation     *)
(* (session.py:4627-4818).                                                 *)
ReceiptsAreAccepted == [][receipt' # receipt => Valid(receipt')]_vars
=============================================================================

--------------------------- MODULE TransactionProofs ---------------------------
(***************************************************************************)
(* Proofs about Transaction, for any set of transactions, scripts and      *)
(* creations, any number of requests, faults and steps of the user.  What  *)
(* the plugin overwrites and deletes is its own: this follows, step by     *)
(* step, from what each handler looks at in the very step that writes.     *)
(* That its receipts are true needs more, TransactionInv: how far the      *)
(* request under way has come, and what an earlier one left behind.        *)
(***************************************************************************)
EXTENDS Transaction, TLAPS

ScriptShape(scripts) ==
  DOMAIN scripts = Script /\ \A s \in Script : DOMAIN scripts[s] = {"text", "at"}
SlotShape(slots) ==
  DOMAIN slots = Slot /\ \A x \in Slot : DOMAIN slots[x] = {"ours", "foreign", "home", "tracked"}
SpentShape(counts) ==
  DOMAIN counts = {"user", "faults", "asked", "used"} /\ counts.user \in Nat

Shape == ScriptShape(src) /\ SlotShape(slot) /\ SpentShape(spent)

(* The steps of the plugin, the session and the clock leave the user's     *)
(* counter alone.                                                          *)
Quiet == SpentShape(spent') /\ spent'.user = spent.user

OwnText(s) ==
  src'[s] # src[s] =>
    mode = "edit" /\ src[s].at /\ {src[s].text, src'[s].text} = {plan.tx, plan.read[s]}
OwnObject(x) ==
  slot[x].ours # slot'[x].ours /\ slot[x].ours \in {"exact", "dirty", "moved"} =>
    mode = "edit" /\ Observe(x) = "created_exact" /\ slot'[x].ours = "deleted"
Kept == (\A s \in Script : OwnText(s)) /\ (\A x \in Slot : OwnObject(x))

(* What a step of the plugin has to show.                                  *)
Clean == Kept /\ ScriptShape(src') /\ SlotShape(slot') /\ Quiet

-----------------------------------------------------------------------------
(* Operators                                                               *)

LEMMA SufferQuiet ==
  ASSUME NEW fs, NEW n, SpentShape(spent), Suffer(fs, n) PROVE Quiet
BY DEF Suffer, Quiet, SpentShape

LEMMA UntrackedKeeps ==
  ASSUME NEW slots, SlotShape(slots), NEW tx
  PROVE  /\ SlotShape(Untracked(slots, tx))
         /\ \A x \in Slot : Untracked(slots, tx)[x].ours = slots[x].ours
BY DEF SlotShape, Untracked

LEMMA RefreshedSlotsKeep ==
  ASSUME SlotShape(slot)
  PROVE  SlotShape(RefreshedSlots) /\ \A x \in Slot : RefreshedSlots[x].ours = slot[x].ours
BY UntrackedKeeps DEF RefreshedSlots

(* A step that leaves the scripts alone, and the creations but for the     *)
(* watch that is kept on them.                                             *)
LEMMA NothingWritten ==
  ASSUME Shape, src' = src, Quiet, SlotShape(slot'),
         \A x \in Slot : slot'[x].ours = slot[x].ours
  PROVE  Clean
BY DEF Clean, Kept, OwnText, OwnObject, Shape

LEMMA StudioUntouched ==
  ASSUME Shape, UNCHANGED <<src, slot>>, Quiet PROVE Clean
BY NothingWritten DEF Shape

LEMMA AbsentIsFree ==
  ASSUME NEW x \in Slot, Observe(x) = "absent"
  PROVE  slot[x].ours \notin {"exact", "dirty", "moved"}
BY DEF Observe

-----------------------------------------------------------------------------
(* Steps that write nothing                                                *)

LEMMA PrepareClean == ASSUME Shape, NEW tx, Prepare(tx) PROVE Clean
<1>1. Quiet
  BY DEF Prepare, Quiet, Shape, SpentShape
<1>2. QED
  BY <1>1, RefreshedSlotsKeep, NothingWritten DEF Prepare, Shape

LEMMA PrepareRefusedClean == ASSUME Shape, NEW tx, PrepareRefused(tx) PROVE Clean
<1>1. Quiet
  BY DEF PrepareRefused, Quiet, Shape, SpentShape
<1>2. QED
  BY <1>1, RefreshedSlotsKeep, NothingWritten DEF PrepareRefused, Shape

LEMMA AskQuiet == ASSUME Shape, NEW fs, Ask(fs) PROVE Quiet
BY SufferQuiet DEF Ask, Shape

LEMMA ApplyClean == ASSUME Shape, NEW tx, Apply(tx) \/ ApplyRefused(tx) PROVE Clean
<1>1. \E fs : Ask(fs)
  BY DEF Apply, ApplyRefused
<1>2. UNCHANGED <<src, slot>>
  BY DEF Apply, ApplyRefused, studio
<1>3. QED
  BY <1>1, <1>2, AskQuiet, StudioUntouched

LEMMA RecoverClean == ASSUME Shape, NEW tx, Recover(tx) PROVE Clean
<1>1. Ask({}) /\ UNCHANGED <<src, slot>>
  BY DEF Recover, studio
<1>2. QED
  BY <1>1, AskQuiet, StudioUntouched

LEMMA CleanupRefusedClean ==
  ASSUME Shape, NEW tx, CleanupRefused(tx) \/ CleanupAgain(tx) PROVE Clean
<1>1. Ask({}) /\ src' = src /\ (slot' = slot \/ slot' = RefreshedSlots)
  BY DEF CleanupRefused, CleanupAgain, studio
<1>2. Quiet
  BY <1>1, AskQuiet
<1>3. QED
  BY <1>1, <1>2, RefreshedSlotsKeep, NothingWritten DEF Shape

LEMMA LookingClean ==
  ASSUME Shape, NEW i, TooLate(i) \/ EditTarget(i) \/ Confirm(i) PROVE Clean
<1>1. Quiet
  BY SufferQuiet DEF TooLate, EditTarget, Confirm, Shape, Quiet
<1>2. UNCHANGED <<src, slot>>
  BY DEF TooLate, EditTarget, Confirm, studio
<1>3. QED
  BY <1>1, <1>2, StudioUntouched

LEMMA EndingClean ==
  ASSUME Shape, Applied \/ Undone \/ Recovered PROVE Clean
<1>1. Quiet
  BY SufferQuiet DEF Applied, Undone, Recovered, Shape
<1>2. src' = src
  BY DEF Applied, Undone, Recovered, studio
<1>3. slot' = slot \/ slot' = Untracked(slot, plan.tx)
  BY DEF Applied, Undone, Recovered, studio
<1>4. QED
  BY <1>1, <1>2, <1>3, UntrackedKeeps, NothingWritten DEF Shape

LEMMA SessionStepClean ==
  ASSUME Shape, Answer \/ GiveUp \/ GrantExpires \/ HubExpires PROVE Clean
<1>1. Quiet
  BY SufferQuiet DEF Answer, GiveUp, GrantExpires, HubExpires, Shape, Quiet
<1>2. UNCHANGED <<src, slot>>
  BY DEF Answer, GiveUp, GrantExpires, HubExpires, studio
<1>3. QED
  BY <1>1, <1>2, StudioUntouched

-----------------------------------------------------------------------------
(* Steps that write                                                        *)

(* UpdateSourceAsync: the text is compared in the step that replaces it.   *)
LEMMA UpdateClean == ASSUME Shape, NEW i, Update(i) PROVE Clean
<1> DEFINE s == At(plan.tx, i)
<1>1. Quiet
  BY SufferQuiet DEF Update, Shape
<1>2. slot' = slot
  BY DEF Update
<1>3. CASE src' = src
  BY <1>1, <1>2, <1>3, StudioUntouched
<1>4. CASE Matches(i) /\ ~Fenced(i) /\ src' = [src EXCEPT ![s].text = Replacement(i)]
  <2>1. ScriptShape(src')
    BY <1>4 DEF Shape, ScriptShape
  <2>2. src[s].text = Expected(i) /\ mode = "edit" /\ src[s].at
    BY <1>4 DEF Matches, Fenced
  <2>3. ASSUME NEW t \in Script PROVE OwnText(t)
    <3>1. CASE t = s
      <4>1. src'[t].text = Replacement(i)
        BY <1>4, <3>1 DEF Shape, ScriptShape
      <4>2. {Expected(i), Replacement(i)} = {plan.tx, plan.read[t]}
        BY <3>1 DEF Expected, Replacement
      <4>3. QED
        BY <2>2, <3>1, <4>1, <4>2 DEF OwnText
    <3>2. CASE t # s
      BY <1>4, <3>2 DEF Shape, ScriptShape, OwnText
    <3>3. QED
      BY <3>1, <3>2
  <2>4. \A x \in Slot : OwnObject(x)
    BY <1>2 DEF OwnObject
  <2>5. QED
    BY <1>1, <1>2, <2>1, <2>3, <2>4 DEF Clean, Kept, Shape
<1>5. QED
  BY <1>3, <1>4 DEF Update

(* A script is created only where there is none.                           *)
LEMMA CreateTargetClean == ASSUME Shape, NEW i, CreateTarget(i) PROVE Clean
<1> DEFINE x == At(plan.tx, i)
<1>1. Quiet
  BY SufferQuiet DEF CreateTarget, Shape, Quiet
<1>2. src' = src
  BY DEF CreateTarget
<1>3. CASE slot' = slot
  BY <1>1, <1>2, <1>3, StudioUntouched
<1>4. CASE /\ Observe(x) = "absent"
           /\ \E b \in BOOLEAN : slot' = [slot EXCEPT ![x].ours = "exact", ![x].tracked = b]
  <2>1. SlotShape(slot')
    BY <1>4 DEF Shape, SlotShape
  <2>2. ASSUME NEW y \in Slot PROVE OwnObject(y)
    <3>1. CASE y = x
      BY <1>4, <3>1, AbsentIsFree DEF OwnObject
    <3>2. CASE y # x
      BY <1>4, <3>2 DEF OwnObject, Shape, SlotShape
    <3>3. QED
      BY <3>1, <3>2
  <2>3. \A s \in Script : OwnText(s)
    BY <1>2 DEF OwnText
  <2>4. QED
    BY <1>1, <1>2, <2>1, <2>2, <2>3 DEF Clean, Kept, Shape
<1>5. QED
  BY <1>3, <1>4 DEF CreateTarget

(* The undoing deletes a creation that it still recognises.                *)
LEMMA RemoveTargetClean == ASSUME Shape, NEW i, RemoveTarget(i) PROVE Clean
<1> DEFINE x == At(plan.tx, i)
<1>1. Quiet
  BY SufferQuiet DEF RemoveTarget, Shape, Quiet
<1>2. src' = src
  BY DEF RemoveTarget
<1>3. CASE slot' = slot
  BY <1>1, <1>2, <1>3, StudioUntouched
<1>4. CASE Deletable(x) /\ slot' = [slot EXCEPT ![x].ours = "deleted"]
  <2>1. SlotShape(slot')
    BY <1>4 DEF Shape, SlotShape
  <2>2. ASSUME NEW y \in Slot PROVE OwnObject(y)
    <3>1. CASE y = x
      BY <1>4, <3>1 DEF OwnObject, Shape, SlotShape, Deletable
    <3>2. CASE y # x
      BY <1>4, <3>2 DEF OwnObject, Shape, SlotShape
    <3>3. QED
      BY <3>1, <3>2
  <2>3. \A s \in Script : OwnText(s)
    BY <1>2 DEF OwnText
  <2>4. QED
    BY <1>1, <1>2, <2>1, <2>2, <2>3 DEF Clean, Kept, Shape
<1>5. QED
  BY <1>3, <1>4 DEF RemoveTarget

-----------------------------------------------------------------------------
(* Cleanup                                                                 *)

LEMMA InspectedStatus ==
  ASSUME NEW tx, NEW i, NEW late, NEW old
  PROVE  LET status == Inspected(tx, i, late, old).status IN
         /\ status \in {"cleanup_required", "preserved_conflict", "not_deleted", "already_absent"}
         /\ status = "not_deleted" => Observe(At(tx, i)) = "created_exact"
BY DEF Inspected, Outcome

(* Deleting the creations that are reported deleted, and those only.       *)
LEMMA CleanupEndsClean ==
  ASSUME Shape, NEW tx, NEW outcome, NEW outs, NEW only, NEW old,
         CleanupEnds(tx, outcome, outs, only, old), src' = src, mode = "edit", Quiet,
         \A i \in DOMAIN outs : outs[i].status = "deleted" => Observe(At(tx, i)) = "created_exact"
  PROVE  Clean
<1> DEFINE gone(x) == \E i \in DOMAIN outs : At(tx, i) = x /\ outs[i].status = "deleted"
           kept == [x \in Slot |-> IF gone(x) THEN [slot[x] EXCEPT !.ours = "deleted"] ELSE slot[x]]
<1>1. SlotShape(kept)
  BY DEF Shape, SlotShape
<1>2. slot' = kept \/ slot' = Untracked(kept, tx)
  BY DEF CleanupEnds
<1> HIDE DEF gone, kept
<1>3. SlotShape(slot') /\ \A x \in Slot : slot'[x].ours = kept[x].ours
  BY <1>1, <1>2, UntrackedKeeps
<1>4. ASSUME NEW x \in Slot PROVE OwnObject(x)
  <2>1. CASE gone(x)
    BY <1>3, <2>1 DEF gone, kept, OwnObject, Shape, SlotShape
  <2>2. CASE ~gone(x)
    BY <1>3, <2>2 DEF kept, OwnObject
  <2>3. QED
    BY <2>1, <2>2
<1>5. \A s \in Script : OwnText(s)
  BY DEF OwnText
<1>6. QED
  BY <1>3, <1>4, <1>5 DEF Clean, Kept, Shape

(* A creation is deleted only when the first look found it untouched.      *)
LEMMA CleanupRunClean ==
  ASSUME Shape, NEW tx, NEW late, NEW old, NEW bad, CleanupRun(tx, late, old, bad),
         src' = src, mode = "edit"
  PROVE  Clean
<1> DEFINE pre == [i \in CreateIndex(tx) |-> Inspected(tx, i, late, old)]
           expired == \E i \in DOMAIN pre : pre[i].status = "cleanup_required"
           conflict == \E i \in DOMAIN pre : pre[i].status = "preserved_conflict"
           closed == [i \in DOMAIN pre |-> IF pre[i].status = "not_deleted"
                                           THEN [pre[i] EXCEPT !.status = "cleanup_required"] ELSE pre[i]]
           deletes(outs) == \A i \in DOMAIN outs :
                              outs[i].status = "deleted" => Observe(At(tx, i)) = "created_exact"
<1>1. Quiet
  BY AskQuiet DEF CleanupRun
<1>2. \A i \in CreateIndex(tx) :
        /\ pre[i].status \in {"cleanup_required", "preserved_conflict", "not_deleted", "already_absent"}
        /\ pre[i].status = "not_deleted" => Observe(At(tx, i)) = "created_exact"
  BY InspectedStatus
<1>3. deletes(pre)
  BY <1>2
<1>4. deletes(closed)
  <2> SUFFICES ASSUME NEW i \in CreateIndex(tx), closed[i].status = "deleted" PROVE FALSE
    OBVIOUS
  <2>1. CASE pre[i].status = "not_deleted"
    BY <2>1 DEF Inspected, Outcome
  <2>2. CASE pre[i].status # "not_deleted"
    BY <2>2, <1>2
  <2>3. QED
    BY <2>1, <2>2
<1>5. ASSUME ~expired, ~conflict, NEW stop PROVE deletes(Swept(tx, pre, stop, late, old))
  <2> SUFFICES ASSUME NEW i \in CreateIndex(tx), Swept(tx, pre, stop, late, old)[i].status = "deleted"
               PROVE  Observe(At(tx, i)) = "created_exact"
    BY DEF Swept
  <2>1. pre[i].status \in {"not_deleted", "already_absent"}
    BY <1>2, <1>5
  <2>2. pre[i].status # "already_absent"
    BY DEF Swept
  <2>3. QED
    BY <1>2, <2>1, <2>2
<1>6. \E outcome, outs, only : CleanupEnds(tx, outcome, outs, only, old) /\ deletes(outs)
  <2>1. CASE expired
    BY <1>4, <2>1 DEF CleanupRun
  <2>2. CASE ~expired /\ conflict
    BY <1>3, <2>2 DEF CleanupRun
  <2>3. CASE ~expired /\ ~conflict
    BY <1>5, <2>3 DEF CleanupRun
  <2>4. QED
    BY <2>1, <2>2, <2>3
<1>7. QED
  BY <1>1, <1>6, CleanupEndsClean

LEMMA CleanupClean == ASSUME Shape, NEW tx, Cleanup(tx) PROVE Clean
BY CleanupRunClean DEF Cleanup

-----------------------------------------------------------------------------
(* The user, and the theorem                                               *)

LEMMA UserShape == ASSUME Shape, User PROVE Shape' /\ spent'.user # spent.user
<1>1. SpentShape(spent') /\ spent'.user # spent.user
  BY DEF User, UserWrites, UserMoves, UserCreates, UserChanges, UserPlays, UserActs, Shape, SpentShape
<1>2. ScriptShape(src')
  BY DEF User, UserWrites, UserMoves, UserCreates, UserChanges, UserPlays, Shape, ScriptShape
<1>3. SlotShape(slot')
  BY DEF User, UserWrites, UserMoves, UserCreates, UserChanges, UserPlays, Shape, SlotShape
<1>4. QED
  BY <1>1, <1>2, <1>3 DEF Shape

LEMMA StepClean == ASSUME Shape, [Next]_vars PROVE Clean \/ (User /\ Shape' /\ spent'.user # spent.user)
<1>1. CASE Request
  BY <1>1, PrepareClean, PrepareRefusedClean, ApplyClean, RecoverClean, CleanupClean,
     CleanupRefusedClean DEF Request
<1>2. CASE Working
  BY <1>2, LookingClean, UpdateClean, CreateTargetClean, RemoveTargetClean, EndingClean,
     SessionStepClean DEF Working
<1>3. CASE User
  BY <1>3, UserShape
<1>4. CASE GiveUp \/ GrantExpires \/ HubExpires
  BY <1>4, SessionStepClean
<1>5. CASE UNCHANGED vars
  BY <1>5, StudioUntouched DEF vars, Quiet, Shape
<1>6. QED
  BY <1>1, <1>2, <1>3, <1>4, <1>5 DEF Next

LEMMA ShapeInit == Init => Shape
BY DEF Init, Shape, ScriptShape, SlotShape, SpentShape

(* What the user did is kept, whatever transactions run, fail, are undone, *)
(* recovered and cleaned up, and however the user's steps fall between the *)
(* plugin's (durable_operation_handlers.luau:5098, 5495, 6454).            *)
THEOREM TransactionKeepsUserWork == Spec => UserWorkKept
<1>1. Init => Shape
  BY ShapeInit
<1>2. Shape /\ [Next]_vars => Shape'
  BY StepClean DEF Clean, Quiet, Shape
<1>3. Shape /\ [Next]_vars => KeepsUserWork
  BY StepClean DEF Clean, Kept, OwnText, OwnObject, KeepsUserWork
<1>4. QED
  BY <1>1, <1>2, <1>3, PTL DEF Spec, UserWorkKept

-----------------------------------------------------------------------------
(* The invariant for the receipts.  A text is one that Studio started      *)
(* with, one of the user's, or one that a transaction asked for so far     *)
(* planned.                                                                *)
Written == {"orig", "user"} \cup spent.used

StudioTypes ==
  /\ ScriptShape(src) /\ \A s \in Script : src[s].text \in Written /\ src[s].at \in BOOLEAN
  /\ SlotShape(slot)
  /\ \A x \in Slot : /\ slot[x].ours \in {"none", "exact", "dirty", "moved", "deleted"}
                     /\ slot[x].foreign \in BOOLEAN /\ slot[x].home \in BOOLEAN
                     /\ slot[x].tracked \in BOOLEAN
  /\ mode \in {"edit", "play"}
  /\ SpentShape(spent) /\ spent.used \subseteq Tx
  /\ cause \subseteq Script \cup Slot \cup {"late", "editor", "old", "mode"}

HubTypes ==
  /\ DOMAIN hub = {"ready", "fence", "cleanup", "owing", "over"}
  /\ {hub.ready, hub.fence, hub.cleanup} \subseteq Tx \cup {"none"}
  /\ hub.owing \in BOOLEAN /\ hub.over \in BOOLEAN
  /\ work.step = "reply" => receipt.tx \in Tx

(* The plan: its text is nobody's before the plugin writes it, and what    *)
(* was read before is another one.                                         *)
Ends == {"aborted_preflight", "rolled_back", "recovered"}
PlanTypes ==
  /\ DOMAIN plan = {"tx", "status", "read", "evidence"}
  /\ plan.status \in {"none", "prepared", "applying", "applied", "recovery_required"} \cup Ends
  /\ plan.tx \in spent.used \cup {"none"}
  /\ plan.tx = "none" => plan.status = "none"
  /\ plan.tx # "none" => /\ DOMAIN plan.read = Edits(plan.tx)
                         /\ \A s \in Edits(plan.tx) : plan.read[s] \in Written \ {plan.tx}
  /\ plan.evidence # NoEvidence => plan.status \in Ends

(* The request under way: an apply or an undoing of the plan that is being *)
(* applied, or a recovery.                                                 *)
Busy == work.op \in {"apply", "undo", "recover"} /\ work.step # "reply"
WorkTypes ==
  /\ DOMAIN work = DOMAIN Idle
  /\ work.op \in {"idle", "apply", "undo", "recover", "cleanup"}
  /\ work.step \in {"next", "cas", "confirm", "reply"}
  /\ work.op = "idle" => work.step = "next" /\ work.todo = <<>>
  /\ work.op = "cleanup" => work.step = "reply"
  /\ plan.status = "applying" <=> work.op \in {"apply", "undo"} /\ work.step # "reply"
  /\ Busy => /\ plan.tx \in Tx
             /\ work.todo \in Seq(Index(plan.tx)) /\ work.done \in Seq(Index(plan.tx))
             /\ DOMAIN work.outs = Index(plan.tx)
             /\ \A i \in Index(plan.tx) : DOMAIN work.outs[i] = {"before", "after", "status"}
  /\ work.step \in {"cas", "confirm"} => /\ Busy /\ work.todo # <<>>
                                         /\ IsEdit(plan.tx, Head(work.todo))
  /\ Busy /\ work.op = "recover" => plan.evidence = NoEvidence

(* Nothing of the plan is left at a target, or anywhere.                   *)
GoneAt(i) ==
  IF IsEdit(plan.tx, i) THEN src[At(plan.tx, i)].text # plan.tx
                        ELSE slot[At(plan.tx, i)].ours \in {"none", "deleted"}
PlanGone == plan.status \in {"prepared"} \cup Ends => \A i \in Index(plan.tx) : GoneAt(i)

(* A target is as planned, unless the user has touched it.                 *)
AsPlanned(i) ==
  LET t == At(plan.tx, i)
  IN  IF IsEdit(plan.tx, i) THEN src[t].text = plan.tx \/ t \in cause
      ELSE slot[t].ours # "none" /\ (slot[t].ours = "exact" \/ t \in cause)
Pending(i) == \E k \in 1..Len(work.todo) : work.todo[k] = i
ApplyProgress ==
  Busy /\ work.op = "apply" => \A i \in Index(plan.tx) : Pending(i) \/ AsPlanned(i)
RecoverProgress ==
  Busy /\ work.op = "recover" =>
    \A i \in Index(plan.tx) :
      Pending(i) \/ work.outs[i].status = "recovery_required" \/ GoneAt(i)

(* The creations under the cleanup grant were all made, by another plan    *)
(* than the one that is still to be applied.                               *)
GrantTypes ==
  /\ DOMAIN grant = {"tx", "status", "only", "old", "evidence"}
  /\ grant.status \in {"none", "authorized", "cleaned", "refused", "cleanup_required"}
  /\ grant.tx \in spent.used \cup {"none"}
  /\ plan.status \in {"prepared", "applying"} => plan.tx # grant.tx
  /\ grant.tx # "none" =>
       \A x \in Creates(grant.tx) : /\ slot[x].ours # "none"
                                    /\ grant.status = "cleaned" => slot[x].ours = "deleted"

TransactionInv ==
  /\ StudioTypes
  /\ HubTypes
  /\ PlanTypes
  /\ WorkTypes
  /\ PlanGone
  /\ ApplyProgress
  /\ RecoverProgress
  /\ GrantTypes

-----------------------------------------------------------------------------
(* Targets                                                                 *)

LEMMA TargetKinds ==
  ASSUME NEW tx \in Tx, NEW i \in Index(tx)
  PROVE  /\ At(tx, i) \in Script \cup Slot
         /\ IsEdit(tx, i) => At(tx, i) \in Edits(tx) /\ At(tx, i) \in Script
         /\ ~IsEdit(tx, i) => At(tx, i) \in Creates(tx) /\ At(tx, i) \in Slot
<1>1. Targets[tx] \in Seq(Script \cup Slot)
  BY TransactionAssumption
<1>2. i \in DOMAIN Targets[tx] /\ Targets[tx][i] \in Script \cup Slot
  BY <1>1 DEF Index
<1>3. QED
  BY <1>2 DEF At, IsEdit, Edits, Creates, ToSet

LEMMA TargetsDiffer ==
  ASSUME NEW tx \in Tx, NEW i \in Index(tx), NEW j \in Index(tx), i # j
  PROVE  At(tx, i) # At(tx, j)
<1>1. Targets[tx] \in Seq(Script \cup Slot) /\ IsInjective(Targets[tx])
  BY TransactionAssumption
<1>2. DOMAIN Targets[tx] = Index(tx)
  BY <1>1 DEF Index
<1>3. QED
  BY <1>1, <1>2 DEF IsInjective, At

LEMMA EveryTarget ==
  ASSUME NEW tx \in Tx
  PROVE  /\ \A s \in Edits(tx) : s \in Script /\ \E i \in Index(tx) : IsEdit(tx, i) /\ At(tx, i) = s
         /\ \A x \in Creates(tx) : x \in Slot /\ \E i \in CreateIndex(tx) : At(tx, i) = x
<1>1. Targets[tx] \in Seq(Script \cup Slot) /\ Script \cap Slot = {}
  BY TransactionAssumption
<1>2. DOMAIN Targets[tx] = Index(tx)
  BY <1>1 DEF Index
<1>3. QED
  BY <1>1, <1>2 DEF Edits, Creates, CreateIndex, At, IsEdit, ToSet

LEMMA CreatesDiffer ==
  ASSUME NEW tx \in Tx, NEW ty \in Tx, tx # ty
  PROVE  Creates(tx) \cap Creates(ty) = {}
<1>1. ToSet(Targets[tx]) \cap ToSet(Targets[ty]) \cap Slot = {}
  BY TransactionAssumption
<1>2. QED
  BY <1>1 DEF Creates

LEMMA PlanIsReal == TransactionInv /\ plan.tx # "none" => plan.tx \in Tx
BY DEF TransactionInv, PlanTypes, StudioTypes

(* A text or a text's name is never a transaction's by accident.           *)
LEMMA NamesDiffer == \A tx \in Tx : tx \notin {"none", "orig", "user", ""}
BY TransactionAssumption

-----------------------------------------------------------------------------
(* The request under way                                                   *)

OutShape(o) == DOMAIN o = {"before", "after", "status"}
WorkShape(w) ==
  /\ DOMAIN w = DOMAIN Idle /\ w.step = "next"
  /\ w.todo \in Seq(Index(plan.tx)) /\ w.done \in Seq(Index(plan.tx))
  /\ DOMAIN w.outs = Index(plan.tx)
  /\ \A i \in Index(plan.tx) : OutShape(w.outs[i])

(* Where a target i is dealt with: it is the next one.                     *)
AtHead(i) == /\ Busy /\ work.todo # <<>> /\ i = Head(work.todo)
             /\ WorkTypes /\ plan.tx \in Tx

OthersKept(w, i) == \A j \in Index(plan.tx) \ {i} : w.outs[j] = work.outs[j]

LEMMA HeadIndex == ASSUME NEW i, AtHead(i) PROVE i \in Index(plan.tx)
BY DEF AtHead, WorkTypes

LEMMA OutcomeShape ==
  /\ \A b, a, t : OutShape(Outcome(b, a, t))
  /\ \A o : OutShape(o) => OutShape(Required(o)) /\ Required(o).status = "recovery_required"
BY DEF OutShape, Outcome, Required

LEMMA TailTyped ==
  ASSUME NEW S, NEW q \in Seq(S), q # <<>> PROVE Tail(q) \in Seq(S)
OBVIOUS

LEMMA GoShape ==
  ASSUME NEW i, AtHead(i), NEW o, OutShape(o)
  PROVE  /\ WorkShape(Go(i, o)) /\ Go(i, o).op = work.op
         /\ Go(i, o).todo = Tail(work.todo) /\ Go(i, o).done = work.done
         /\ Go(i, o).outs[i] = o /\ OthersKept(Go(i, o), i)
<1>1. /\ DOMAIN work = DOMAIN Idle /\ work.todo \in Seq(Index(plan.tx)) /\ work.todo # <<>>
      /\ work.done \in Seq(Index(plan.tx)) /\ DOMAIN work.outs = Index(plan.tx)
      /\ \A j \in Index(plan.tx) : OutShape(work.outs[j])
  BY DEF AtHead, WorkTypes, OutShape
<1>2. i \in Index(plan.tx)
  BY HeadIndex
<1>3. Tail(work.todo) \in Seq(Index(plan.tx))
  BY <1>1, TailTyped
<1> DEFINE w == Go(i, o)
<1>4. /\ DOMAIN w = DOMAIN Idle /\ w.op = work.op /\ w.step = "next" /\ w.done = work.done
      /\ w.todo = Tail(work.todo) /\ w.outs = [work.outs EXCEPT ![i] = o]
  BY <1>1 DEF Go, Idle
<1> HIDE DEF w
<1>5. /\ DOMAIN w.outs = Index(plan.tx) /\ w.outs[i] = o
      /\ \A j \in Index(plan.tx) \ {i} : w.outs[j] = work.outs[j]
  BY <1>1, <1>2, <1>4
<1>6. QED
  BY <1>1, <1>3, <1>4, <1>5 DEF WorkShape, OthersKept, w

LEMMA DidShape ==
  ASSUME NEW i, AtHead(i), NEW o, OutShape(o)
  PROVE  /\ WorkShape(Did(i, o)) /\ Did(i, o).op = work.op
         /\ Did(i, o).todo = Tail(work.todo)
         /\ Did(i, o).outs[i] = o /\ OthersKept(Did(i, o), i)
<1> DEFINE g == Go(i, o)
<1>1. /\ WorkShape(g) /\ g.op = work.op /\ g.todo = Tail(work.todo) /\ g.outs[i] = o
      /\ OthersKept(g, i)
  BY GoShape
<1>2. i \in Index(plan.tx)
  BY HeadIndex
<1>3. Did(i, o) = [g EXCEPT !.done = <<i>> \o g.done]
  BY DEF Did
<1> HIDE DEF g
<1>4. <<i>> \o g.done \in Seq(Index(plan.tx))
  BY <1>1, <1>2 DEF WorkShape
<1> DEFINE w == Did(i, o)
<1>5. /\ DOMAIN w = DOMAIN Idle /\ w.op = g.op /\ w.step = "next" /\ w.todo = g.todo
      /\ w.outs = g.outs /\ w.done = <<i>> \o g.done
  BY <1>1, <1>3 DEF WorkShape, Idle
<1> HIDE DEF w
<1>6. QED
  BY <1>1, <1>4, <1>5 DEF WorkShape, OthersKept, w

LEMMA FailShape ==
  ASSUME NEW w, WorkShape(w)
  PROVE  WorkShape(Fail(w)) /\ Fail(w).op = "undo" /\ Fail(w).outs = w.outs
<1> DEFINE f == Fail(w)
<1>1. <<>> \in Seq(Index(plan.tx))
  OBVIOUS
<1>2. /\ DOMAIN f = DOMAIN Idle /\ f.op = "undo" /\ f.step = "next" /\ f.todo = w.done
      /\ f.outs = w.outs /\ f.done = <<>>
  BY DEF WorkShape, Idle, Fail
<1> HIDE DEF f
<1>3. QED
  BY <1>1, <1>2 DEF WorkShape, f

LEMMA StuckShape ==
  ASSUME NEW i, AtHead(i), NEW o, OutShape(o)
  PROVE  /\ WorkShape(Stuck(i, o))
         /\ Stuck(i, o).outs[i] = Required(o) /\ OthersKept(Stuck(i, o), i)
         /\ work.op = "apply" => Stuck(i, o).op = "undo"
         /\ work.op # "apply" => /\ Stuck(i, o).op = work.op
                                 /\ Stuck(i, o).todo = Tail(work.todo)
<1>1. OutShape(Required(o))
  BY OutcomeShape
<1> DEFINE g == Go(i, Required(o))
<1>2. /\ WorkShape(g) /\ g.op = work.op /\ g.todo = Tail(work.todo) /\ g.outs[i] = Required(o)
      /\ OthersKept(g, i)
  BY <1>1, GoShape
<1>3. Stuck(i, o) = IF work.op = "apply" THEN Fail(g) ELSE g
  BY DEF Stuck
<1> HIDE DEF g
<1>4. QED
  BY <1>2, <1>3, FailShape DEF OthersKept

LEMMA RestoredShape ==
  ASSUME NEW i, AtHead(i), NEW o, OutShape(o)
  PROVE  /\ WorkShape(Restored(i, o)) /\ Restored(i, o).op = work.op
         /\ Restored(i, o).todo = Tail(work.todo)
         /\ Restored(i, o).outs[i] = [o EXCEPT !.status = "rolled_back"]
         /\ OthersKept(Restored(i, o), i)
<1>1. OutShape([o EXCEPT !.status = "rolled_back"])
  BY DEF OutShape
<1>2. QED
  BY <1>1, GoShape DEF Restored

LEMMA PendingAfter ==
  ASSUME NEW i, AtHead(i), NEW j, Pending(j), j # i, work'.todo = Tail(work.todo)
  PROVE  Pending(j)'
<1>1. work.todo \in Seq(Index(plan.tx)) /\ work.todo # <<>> /\ i = work.todo[1]
  BY DEF AtHead, WorkTypes
<1>2. PICK k \in 1..Len(work.todo) : work.todo[k] = j
  BY DEF Pending
<1>3. k # 1 /\ k \in 2..Len(work.todo)
  BY <1>1, <1>2
<1>4. k - 1 \in 1..Len(Tail(work.todo)) /\ Tail(work.todo)[k - 1] = j
  BY <1>1, <1>2, <1>3
<1>5. QED
  BY <1>4 DEF Pending

-----------------------------------------------------------------------------
(* Steps at a target that only look                                        *)

SpentStep == SpentShape(spent') /\ spent'.used = spent.used
CauseStep == /\ cause \subseteq cause'
             /\ cause' \subseteq Script \cup Slot \cup {"late", "editor", "old", "mode"}

LEMMA SufferStep ==
  ASSUME NEW fs, NEW n, StudioTypes, Suffer(fs, n) PROVE SpentStep
<1>1. SpentShape(spent)
  BY DEF StudioTypes
<1>2. SpentShape(spent')
  BY <1>1, SufferQuiet DEF Quiet
<1>3. spent'.used = spent.used
  BY <1>1 DEF Suffer, SpentShape
<1>4. QED
  BY <1>2, <1>3 DEF SpentStep

LEMMA NowAtHead ==
  ASSUME TransactionInv, NEW i, Now(i) PROVE AtHead(i)
<1>1. work.step = "next" /\ work.todo # <<>> /\ i = Head(work.todo)
  BY DEF Now
<1>2. work.op \notin {"idle", "cleanup"} /\ WorkTypes
  BY <1>1 DEF TransactionInv, WorkTypes
<1>3. Busy
  BY <1>1, <1>2 DEF WorkTypes, Busy
<1>4. QED
  BY <1>1, <1>2, <1>3 DEF AtHead, WorkTypes

LEMMA SameTargets ==
  ASSUME UNCHANGED <<src, slot, plan>>, cause \subseteq cause', NEW j
  PROVE  /\ AsPlanned(j) => AsPlanned(j)'
         /\ GoneAt(j) => GoneAt(j)'
BY DEF AsPlanned, GoneAt

(* What does not change when scripts, plan and grant do not.               *)
LEMMA StudioKept ==
  ASSUME TransactionInv, UNCHANGED <<src, slot, mode, plan, grant>>, SpentStep, CauseStep
  PROVE  StudioTypes' /\ PlanTypes' /\ PlanGone' /\ GrantTypes'
<1>1. StudioTypes'
  BY DEF TransactionInv, StudioTypes, SpentStep, CauseStep, Written
<1>2. PlanTypes'
  BY DEF TransactionInv, PlanTypes, SpentStep, Written
<1>3. PlanGone'
  BY DEF TransactionInv, PlanGone, GoneAt
<1>4. GrantTypes'
  BY DEF TransactionInv, GrantTypes, SpentStep
<1>5. QED
  BY <1>1, <1>2, <1>3, <1>4

LEMMA WorkMoves ==
  ASSUME WorkTypes, Busy, UNCHANGED plan, WorkShape(work'),
         work'.op = work.op \/ (work.op = "apply" /\ work'.op = "undo")
  PROVE  WorkTypes'
<1>1. plan' = plan /\ work'.step = "next" /\ work'.op \in {"apply", "undo", "recover"}
  BY DEF WorkShape, Busy
<1>2. /\ DOMAIN work' = DOMAIN Idle /\ work'.todo \in Seq(Index(plan.tx))
      /\ work'.done \in Seq(Index(plan.tx)) /\ DOMAIN work'.outs = Index(plan.tx)
      /\ \A i \in Index(plan.tx) : DOMAIN work'.outs[i] = {"before", "after", "status"}
  BY DEF WorkShape, OutShape
<1>3. plan.status = "applying" <=> work'.op \in {"apply", "undo"}
  BY DEF WorkTypes, Busy
<1>4. plan.tx \in Tx /\ (work'.op = "recover" => plan.evidence = NoEvidence)
  BY DEF WorkTypes, Busy
<1>5. QED
  BY <1>1, <1>2, <1>3, <1>4 DEF WorkTypes, Busy

(* A target that was dealt with, the others left as they were.             *)
LEMMA ProgressMoves ==
  ASSUME TransactionInv, NEW i, AtHead(i), UNCHANGED plan, OthersKept(work', i),
         work'.op = work.op => work'.todo = Tail(work.todo),
         work'.op = work.op \/ (work.op = "apply" /\ work'.op = "undo"),
         work'.op = "apply" => AsPlanned(i)',
         work'.op = "recover" => GoneAt(i)' \/ work'.outs[i].status = "recovery_required",
         \A j \in Index(plan.tx) \ {i} : /\ AsPlanned(j) => AsPlanned(j)'
                                         /\ GoneAt(j) => GoneAt(j)'
  PROVE  ApplyProgress' /\ RecoverProgress'
<1>1. ASSUME work'.op = "apply", NEW j \in Index(plan.tx) PROVE Pending(j)' \/ AsPlanned(j)'
  <2>1. work.op = "apply" /\ work'.todo = Tail(work.todo)
    BY <1>1
  <2>2. Pending(j) \/ AsPlanned(j)
    BY <2>1 DEF TransactionInv, ApplyProgress, AtHead
  <2>3. CASE j = i
    BY <1>1, <2>3
  <2>4. CASE j # i
    BY <2>1, <2>2, <2>4, PendingAfter
  <2>5. QED
    BY <2>3, <2>4
<1>2. ASSUME work'.op = "recover", NEW j \in Index(plan.tx)
      PROVE  Pending(j)' \/ work'.outs[j].status = "recovery_required" \/ GoneAt(j)'
  <2>1. work.op = "recover" /\ work'.todo = Tail(work.todo)
    BY <1>2
  <2>2. Pending(j) \/ work.outs[j].status = "recovery_required" \/ GoneAt(j)
    BY <2>1 DEF TransactionInv, RecoverProgress, AtHead
  <2>3. CASE j = i
    BY <1>2, <2>3
  <2>4. CASE j # i
    BY <2>1, <2>2, <2>4, PendingAfter DEF OthersKept
  <2>5. QED
    BY <2>3, <2>4
<1>3. QED
  BY <1>1, <1>2 DEF ApplyProgress, RecoverProgress

(* Putting the two together, for a step that changes nothing in Studio.    *)
LEMMA LookedAt ==
  ASSUME TransactionInv, NEW i, AtHead(i), UNCHANGED <<studio, plan, grant, receipt, hub>>,
         SpentStep, CauseStep, WorkShape(work'), OthersKept(work', i),
         work'.op = work.op => work'.todo = Tail(work.todo),
         work'.op = work.op \/ (work.op = "apply" /\ work'.op = "undo"),
         work'.op = "apply" => AsPlanned(i)',
         work'.op = "recover" => GoneAt(i)' \/ work'.outs[i].status = "recovery_required"
  PROVE  TransactionInv'
<1>1. StudioTypes' /\ PlanTypes' /\ PlanGone' /\ GrantTypes'
  BY StudioKept DEF studio
<1>2. WorkTypes'
  BY WorkMoves DEF AtHead
<1>3. \A j : (AsPlanned(j) => AsPlanned(j)') /\ (GoneAt(j) => GoneAt(j)')
  BY SameTargets DEF studio, CauseStep
<1>4. ApplyProgress' /\ RecoverProgress'
  BY <1>3, ProgressMoves
<1>5. HubTypes'
  BY DEF TransactionInv, HubTypes, WorkShape
<1>6. QED
  BY <1>1, <1>2, <1>4, <1>5 DEF TransactionInv

LEMMA TooLateStep == ASSUME TransactionInv, NEW i, TooLate(i) PROVE TransactionInv'
<1>1. AtHead(i) /\ work.op \in {"apply", "recover"}
  BY NowAtHead DEF TooLate
<1>2. SpentStep /\ CauseStep
  BY SufferStep DEF TooLate, TransactionInv, StudioTypes, CauseStep, SpentStep
<1>3. UNCHANGED <<studio, plan, grant, receipt, hub>>
  BY DEF TooLate
<1>4. CASE work.op = "apply"
  <2> DEFINE w == [work EXCEPT !.late = TRUE]
  <2>1. work' = Fail(w)
    BY <1>4 DEF TooLate
  <2>2. WorkShape(w) /\ w.outs = work.outs
    BY <1>1 DEF AtHead, WorkTypes, WorkShape, OutShape, Idle, TooLate, Now
  <2> HIDE DEF w
  <2>3. WorkShape(work') /\ work'.op = "undo" /\ work'.outs = work.outs
    BY <2>1, <2>2, FailShape
  <2>4. QED
    BY <1>1, <1>2, <1>3, <1>4, <2>3, LookedAt DEF OthersKept
<1>5. CASE work.op = "recover"
  <2> DEFINE o == Outcome(Unread(plan.tx, i), Unread(plan.tx, i), "recovery_required")
             g == Go(i, o)
  <2>1. work' = [g EXCEPT !.late = TRUE]
    BY <1>5 DEF TooLate
  <2>2. OutShape(o) /\ o.status = "recovery_required"
    BY DEF OutShape, Outcome
  <2> HIDE DEF o
  <2>3. /\ WorkShape(g) /\ g.op = work.op /\ g.todo = Tail(work.todo) /\ g.outs[i] = o
        /\ OthersKept(g, i)
    BY <1>1, <2>2, GoShape
  <2> HIDE DEF g
  <2>4. /\ WorkShape(work') /\ work'.op = g.op /\ work'.todo = g.todo /\ work'.outs = g.outs
    BY <2>1, <2>3 DEF WorkShape, Idle
  <2>5. OthersKept(work', i)
    BY <2>3, <2>4 DEF OthersKept
  <2>6. QED
    BY <1>1, <1>2, <1>3, <1>5, <2>2, <2>3, <2>4, <2>5, LookedAt
<1>6. QED
  BY <1>1, <1>4, <1>5

(* A target left for the user, and one found or made as it was.            *)
LEMMA StuckLooked ==
  ASSUME TransactionInv, NEW i, AtHead(i), UNCHANGED <<studio, plan, grant, receipt, hub>>,
         SpentStep, CauseStep, NEW o, OutShape(o), work' = Stuck(i, o)
  PROVE  TransactionInv'
<1>1. /\ WorkShape(work') /\ work'.outs[i] = Required(o) /\ OthersKept(work', i)
      /\ work.op = "apply" => work'.op = "undo"
      /\ work.op # "apply" => work'.op = work.op /\ work'.todo = Tail(work.todo)
  BY StuckShape
<1>2. work'.outs[i].status = "recovery_required"
  BY <1>1, OutcomeShape
<1>3. QED
  BY <1>1, <1>2, LookedAt

LEMMA RestoredLooked ==
  ASSUME TransactionInv, NEW i, AtHead(i), UNCHANGED <<studio, plan, grant, receipt, hub>>,
         SpentStep, CauseStep, NEW o, OutShape(o), work' = Restored(i, o),
         work.op # "apply", GoneAt(i)
  PROVE  TransactionInv'
<1>1. /\ WorkShape(work') /\ work'.op = work.op /\ work'.todo = Tail(work.todo)
      /\ OthersKept(work', i)
  BY RestoredShape
<1>2. GoneAt(i)'
  BY DEF GoneAt, studio
<1>3. QED
  BY <1>1, <1>2, LookedAt

(* The request goes on at the same target: to the editor, or back from it. *)
WorkStays(i, step) ==
  /\ DOMAIN work' = DOMAIN Idle /\ work'.op = work.op /\ work'.step = step
  /\ work'.todo = work.todo /\ work'.done = work.done
  /\ DOMAIN work'.outs = Index(plan.tx) /\ OthersKept(work', i)
  /\ OutShape(work'.outs[i]) /\ work'.outs[i].status = work.outs[i].status

LEMMA StaysTyped ==
  ASSUME WorkTypes, NEW i, AtHead(i), IsEdit(plan.tx, i), UNCHANGED plan,
         NEW step \in {"cas", "confirm"}, WorkStays(i, step)
  PROVE  WorkTypes'
<1>1. /\ DOMAIN work' = DOMAIN Idle /\ work'.op = work.op /\ work'.step = step
      /\ work'.todo = work.todo /\ work'.done = work.done
      /\ DOMAIN work'.outs = Index(plan.tx) /\ plan' = plan
  BY DEF WorkStays
<1>2. work.op \in {"apply", "undo", "recover"} /\ work.step # "reply"
  BY DEF AtHead, Busy
<1>3. \A j \in Index(plan.tx) : DOMAIN work'.outs[j] = {"before", "after", "status"}
  BY DEF WorkStays, OthersKept, OutShape, WorkTypes, AtHead
<1>4. /\ plan.tx \in Tx /\ work.todo \in Seq(Index(plan.tx)) /\ work.done \in Seq(Index(plan.tx))
      /\ work.todo # <<>> /\ IsEdit(plan.tx, Head(work.todo))
      /\ plan.status = "applying" <=> work.op \in {"apply", "undo"}
      /\ work.op = "recover" => plan.evidence = NoEvidence
  BY <1>2 DEF AtHead, WorkTypes, Busy
<1>5. QED
  BY <1>1, <1>2, <1>3, <1>4 DEF WorkTypes, Busy

LEMMA StaysProgress ==
  ASSUME TransactionInv, NEW i, AtHead(i), UNCHANGED plan, NEW step, WorkStays(i, step),
         \A j \in Index(plan.tx) : /\ work.op = "apply" /\ AsPlanned(j) => AsPlanned(j)'
                                   /\ work.op = "recover" /\ GoneAt(j) => GoneAt(j)'
  PROVE  ApplyProgress' /\ RecoverProgress'
<1>1. work'.todo = work.todo /\ work'.op = work.op /\ plan' = plan /\ i \in Index(plan.tx)
  BY HeadIndex DEF WorkStays
<1>2. \A j : Pending(j) => Pending(j)'
  BY <1>1 DEF Pending
<1>3. \A j \in Index(plan.tx) : work'.outs[j].status = work.outs[j].status
  BY <1>1 DEF WorkStays, OthersKept
<1>4. work.op = "apply" => \A j \in Index(plan.tx) : Pending(j) \/ AsPlanned(j)
  BY DEF TransactionInv, ApplyProgress, AtHead
<1>5. work.op = "recover" =>
        \A j \in Index(plan.tx) :
          Pending(j) \/ work.outs[j].status = "recovery_required" \/ GoneAt(j)
  BY DEF TransactionInv, RecoverProgress, AtHead
<1>6. ApplyProgress'
  BY <1>1, <1>2, <1>4 DEF ApplyProgress
<1>7. RecoverProgress'
  BY <1>1, <1>2, <1>3, <1>5 DEF RecoverProgress
<1>8. QED
  BY <1>6, <1>7

LEMMA EditTargetStep == ASSUME TransactionInv, NEW i, EditTarget(i) PROVE TransactionInv'
<1> DEFINE s == At(plan.tx, i)
           text == src[s].text
           before == IF work.op = "recover" THEN text ELSE work.outs[i].before
<1>1. AtHead(i) /\ IsEdit(plan.tx, i)
  BY NowAtHead DEF EditTarget
<1>2. SpentStep /\ CauseStep
  BY DEF EditTarget, TransactionInv, StudioTypes, CauseStep, SpentStep
<1>3. UNCHANGED <<studio, plan, grant, receipt, hub>>
  BY DEF EditTarget
<1>4. \/ \E b, a : work' = Stuck(i, Outcome(b, a, ""))
      \/ work.op = "recover" /\ text # plan.tx /\ work' = Restored(i, Outcome(text, text, ""))
      \/ work' = [work EXCEPT !.step = "cas", !.outs[i].before = before]
  BY DEF EditTarget
<1>5. CASE \E b, a : work' = Stuck(i, Outcome(b, a, ""))
  BY <1>1, <1>2, <1>3, <1>5, OutcomeShape, StuckLooked
<1>6. CASE work.op = "recover" /\ text # plan.tx /\ work' = Restored(i, Outcome(text, text, ""))
  <2>1. GoneAt(i)
    BY <1>1, <1>6 DEF GoneAt
  <2>2. QED
    BY <1>1, <1>2, <1>3, <1>6, <2>1, OutcomeShape, RestoredLooked
<1>7. CASE work' = [work EXCEPT !.step = "cas", !.outs[i].before = before]
  <2> HIDE DEF before
  <2>1. i \in Index(plan.tx) /\ OutShape(work.outs[i])
    BY <1>1, HeadIndex DEF AtHead, WorkTypes, OutShape
  <2>2. WorkStays(i, "cas")
    BY <1>1, <1>7, <2>1 DEF WorkStays, AtHead, WorkTypes, OutShape, OthersKept, Idle
  <2>3. WorkTypes'
    BY <1>1, <1>3, <2>2, StaysTyped DEF TransactionInv
  <2>4. \A j : (AsPlanned(j) => AsPlanned(j)') /\ (GoneAt(j) => GoneAt(j)')
    BY <1>2, <1>3, SameTargets DEF studio, CauseStep
  <2>5. ApplyProgress' /\ RecoverProgress'
    BY <1>1, <1>3, <2>2, <2>4, StaysProgress
  <2>6. HubTypes'
    BY <1>3, <2>2 DEF TransactionInv, HubTypes, WorkStays
  <2>7. StudioTypes' /\ PlanTypes' /\ PlanGone' /\ GrantTypes'
    BY <1>2, <1>3, StudioKept DEF studio
  <2>8. QED
    BY <2>3, <2>5, <2>6, <2>7 DEF TransactionInv
<1>8. QED
  BY <1>4, <1>5, <1>6, <1>7

LEMMA ConfirmStep == ASSUME TransactionInv, NEW i, Confirm(i) PROVE TransactionInv'
<1> DEFINE s == At(plan.tx, i)
           o == [work.outs[i] EXCEPT !.after = src[s].text]
<1>1. AtHead(i) /\ IsEdit(plan.tx, i) /\ i \in Index(plan.tx)
  <2>1. AtHead(i) /\ IsEdit(plan.tx, i)
    BY DEF Confirm, TransactionInv, WorkTypes, AtHead
  <2>2. QED
    BY <2>1, HeadIndex
<1>2. SpentStep /\ CauseStep
  BY DEF Confirm, TransactionInv, StudioTypes, CauseStep, SpentStep
<1>3. UNCHANGED <<studio, plan, grant, receipt, hub>>
  BY DEF Confirm
<1>4. OutShape(o) /\ OutShape([o EXCEPT !.after = ""]) /\ OutShape([o EXCEPT !.status = "applied"])
  BY <1>1 DEF AtHead, WorkTypes, OutShape
<1>5. \/ work' = Stuck(i, [o EXCEPT !.after = ""])
      \/ /\ src[s].text = Replacement(i) /\ work.op = "apply"
         /\ work' = Did(i, [o EXCEPT !.status = "applied"])
      \/ src[s].text = Replacement(i) /\ work.op # "apply" /\ work' = Restored(i, o)
      \/ work.op = "apply" /\ work' = Fail(Go(i, o))
      \/ work' = Stuck(i, o)
  BY DEF Confirm
<1> HIDE DEF o
<1>6. CASE work' = Stuck(i, [o EXCEPT !.after = ""]) \/ work' = Stuck(i, o)
  BY <1>1, <1>2, <1>3, <1>4, <1>6, StuckLooked
<1>7. CASE /\ src[s].text = Replacement(i) /\ work.op = "apply"
           /\ work' = Did(i, [o EXCEPT !.status = "applied"])
  <2>1. AsPlanned(i)'
    BY <1>1, <1>3, <1>7 DEF AsPlanned, Replacement, studio
  <2>2. /\ WorkShape(work') /\ work'.op = work.op /\ work'.todo = Tail(work.todo)
        /\ OthersKept(work', i)
    <3> DEFINE d == [o EXCEPT !.status = "applied"]
    <3>1. OutShape(d) /\ work' = Did(i, d)
      BY <1>4, <1>7
    <3> HIDE DEF d
    <3>2. QED
      BY <1>1, <3>1, DidShape
  <2>3. QED
    BY <1>1, <1>2, <1>3, <1>7, <2>1, <2>2, LookedAt
<1>8. CASE src[s].text = Replacement(i) /\ work.op # "apply" /\ work' = Restored(i, o)
  <2>1. plan.tx \in Tx /\ s \in Edits(plan.tx)
    BY <1>1, TargetKinds DEF AtHead
  <2>2. plan.read[s] # plan.tx
    BY <2>1, NamesDiffer DEF TransactionInv, PlanTypes
  <2>3. GoneAt(i)
    BY <1>1, <1>8, <2>2 DEF GoneAt, Replacement
  <2>4. QED
    BY <1>1, <1>2, <1>3, <1>4, <1>8, <2>3, RestoredLooked
<1>9. CASE work.op = "apply" /\ work' = Fail(Go(i, o))
  <2>1. WorkShape(Go(i, o)) /\ OthersKept(Go(i, o), i)
    BY <1>1, <1>4, GoShape
  <2>2. WorkShape(work') /\ work'.op = "undo" /\ OthersKept(work', i)
    BY <1>9, <2>1, FailShape DEF OthersKept
  <2>3. QED
    BY <1>1, <1>2, <1>3, <1>9, <2>2, LookedAt
<1>10. QED
  BY <1>5, <1>6, <1>7, <1>8, <1>9

-----------------------------------------------------------------------------
(* Steps at a target that write                                            *)

LEMMA UpdateStep == ASSUME TransactionInv, NEW i, Update(i) PROVE TransactionInv'
<1> DEFINE s == At(plan.tx, i)
           r == Replacement(i)
<1>1. AtHead(i) /\ IsEdit(plan.tx, i) /\ i \in Index(plan.tx)
  <2>1. AtHead(i) /\ IsEdit(plan.tx, i)
    BY DEF Update, TransactionInv, WorkTypes, AtHead
  <2>2. QED
    BY <2>1, HeadIndex
<1>2. SpentStep /\ CauseStep
  BY SufferStep DEF Update, TransactionInv, StudioTypes, CauseStep
<1>3. UNCHANGED <<slot, mode, plan, grant, receipt, hub>>
  BY DEF Update
<1>4. WorkStays(i, "confirm")
  BY <1>1 DEF Update, WorkStays, AtHead, WorkTypes, OutShape, OthersKept, Idle
<1>5. src' = src \/ src' = [src EXCEPT ![s].text = r]
  BY DEF Update
<1>6. plan.tx \in Tx /\ s \in Edits(plan.tx) /\ s \in Script
  BY <1>1, TargetKinds DEF AtHead
<1>7. /\ plan.read[s] # plan.tx /\ plan.read[s] \in Written /\ plan.tx \in Written
      /\ r = IF work.op = "apply" THEN plan.tx ELSE plan.read[s]
  BY <1>6, NamesDiffer DEF TransactionInv, PlanTypes, Written, Replacement
<1> HIDE DEF r
<1>8. /\ ScriptShape(src')
      /\ \A t \in Script : /\ src'[t].at = src[t].at
                           /\ src'[t].text = src[t].text \/ (t = s /\ src'[t].text = r)
  BY <1>5, <1>6 DEF TransactionInv, StudioTypes, ScriptShape
<1>9. StudioTypes'
  BY <1>2, <1>3, <1>7, <1>8 DEF TransactionInv, StudioTypes, SpentStep, CauseStep, Written
<1>10. PlanTypes' /\ GrantTypes'
  BY <1>2, <1>3 DEF TransactionInv, PlanTypes, GrantTypes, SpentStep, Written
<1>11. \A j \in Index(plan.tx) : /\ work.op = "apply" /\ AsPlanned(j) => AsPlanned(j)'
                                 /\ work.op # "apply" /\ GoneAt(j) => GoneAt(j)'
  <2> SUFFICES ASSUME NEW j \in Index(plan.tx)
               PROVE  /\ work.op = "apply" /\ AsPlanned(j) => AsPlanned(j)'
                      /\ work.op # "apply" /\ GoneAt(j) => GoneAt(j)'
    OBVIOUS
  <2>1. IsEdit(plan.tx, j) => At(plan.tx, j) \in Script
    BY <1>6, TargetKinds
  <2>2. plan' = plan /\ slot' = slot /\ cause \subseteq cause'
    BY <1>2, <1>3 DEF CauseStep
  <2>3. CASE IsEdit(plan.tx, j)
    BY <1>7, <1>8, <2>1, <2>2, <2>3 DEF AsPlanned, GoneAt
  <2>4. CASE ~IsEdit(plan.tx, j)
    BY <2>2, <2>4 DEF AsPlanned, GoneAt
  <2>5. QED
    BY <2>3, <2>4
<1>12. WorkTypes'
  BY <1>1, <1>3, <1>4, StaysTyped DEF TransactionInv
<1>13. ApplyProgress' /\ RecoverProgress'
  BY <1>1, <1>3, <1>4, <1>11, StaysProgress
<1>14. HubTypes'
  BY <1>3, <1>4 DEF TransactionInv, HubTypes, WorkStays
<1>15. PlanGone'
  <2> SUFFICES ASSUME plan.status \in {"prepared"} \cup Ends
               PROVE  \A j \in Index(plan.tx) : GoneAt(j)'
    BY <1>3 DEF PlanGone
  <2>1. plan.status # "applying"
    BY DEF Ends
  <2>2. work.op # "apply"
    BY <1>1, <2>1 DEF AtHead, WorkTypes, Busy
  <2>3. \A j \in Index(plan.tx) : GoneAt(j)
    BY DEF TransactionInv, PlanGone
  <2>4. QED
    BY <1>11, <2>2, <2>3
<1>16. QED
  BY <1>9, <1>10, <1>12, <1>13, <1>14, <1>15 DEF TransactionInv

(* A creation comes or goes.                                               *)
SlotMoves(x, as) ==
  /\ SlotShape(slot') /\ slot'[x].ours = as
  /\ slot'[x].home = slot[x].home /\ slot'[x].foreign = slot[x].foreign
  /\ slot'[x].tracked \in BOOLEAN
  /\ \A y \in Slot \ {x} : slot'[y] = slot[y]

LEMMA SlotMoved ==
  ASSUME TransactionInv, NEW x \in Slot, NEW as \in {"exact", "deleted"}, SlotMoves(x, as),
         UNCHANGED <<src, mode, plan, grant>>, SpentStep, CauseStep,
         as = "exact" => work.op = "apply" /\ Busy /\ x \in Creates(plan.tx)
  PROVE  StudioTypes' /\ PlanTypes' /\ PlanGone' /\ GrantTypes'
<1>1. StudioTypes'
  BY DEF TransactionInv, StudioTypes, SpentStep, CauseStep, Written, SlotMoves
<1>2. PlanTypes'
  BY DEF TransactionInv, PlanTypes, SpentStep, Written
<1>3. PlanGone'
  <2> SUFFICES ASSUME plan.status \in {"prepared"} \cup Ends, NEW j \in Index(plan.tx)
               PROVE  GoneAt(j)'
    BY DEF PlanGone
  <2>1. plan.tx \in Tx
    BY PlanIsReal DEF TransactionInv, PlanTypes, Ends
  <2>2. ~IsEdit(plan.tx, j) => At(plan.tx, j) \in Slot
    BY <2>1, TargetKinds
  <2>3. GoneAt(j)
    BY DEF TransactionInv, PlanGone
  <2>4. as = "deleted"
    BY DEF TransactionInv, WorkTypes, Busy, Ends
  <2>5. QED
    BY <2>2, <2>3, <2>4 DEF GoneAt, SlotMoves
<1>4. GrantTypes'
  <2> SUFFICES ASSUME grant.tx # "none", NEW y \in Creates(grant.tx)
               PROVE  slot'[y].ours # "none" /\ (grant.status = "cleaned" => slot'[y].ours = "deleted")
    BY DEF TransactionInv, GrantTypes, SpentStep
  <2>1. grant.tx \in Tx /\ y \in Slot
    BY DEF TransactionInv, GrantTypes, StudioTypes, Creates
  <2>2. slot[y].ours # "none" /\ (grant.status = "cleaned" => slot[y].ours = "deleted")
    BY DEF TransactionInv, GrantTypes
  <2>3. CASE as = "deleted"
    BY <2>1, <2>2, <2>3 DEF SlotMoves
  <2>4. CASE as = "exact"
    <3>1. plan.status = "applying" /\ plan.tx \in Tx /\ x \in Creates(plan.tx)
      BY <2>4 DEF TransactionInv, WorkTypes, Busy
    <3>2. plan.tx # grant.tx
      BY <3>1 DEF TransactionInv, GrantTypes
    <3>3. y # x
      BY <2>1, <3>1, <3>2, CreatesDiffer
    <3>4. QED
      BY <2>1, <2>2, <3>3 DEF SlotMoves
  <2>5. QED
    BY <2>3, <2>4
<1>5. QED
  BY <1>1, <1>2, <1>3, <1>4

(* At the other targets such a step changes nothing.                       *)
LEMMA SlotElsewhere ==
  ASSUME NEW i \in Index(plan.tx), plan.tx \in Tx, NEW as, SlotMoves(At(plan.tx, i), as),
         UNCHANGED <<src, plan>>, cause \subseteq cause', NEW j \in Index(plan.tx), j # i
  PROVE  (AsPlanned(j) => AsPlanned(j)') /\ (GoneAt(j) => GoneAt(j)')
<1>1. At(plan.tx, j) # At(plan.tx, i)
  BY TargetsDiffer
<1>2. ~IsEdit(plan.tx, j) => At(plan.tx, j) \in Slot
  BY TargetKinds
<1>3. ~IsEdit(plan.tx, j) => slot'[At(plan.tx, j)] = slot[At(plan.tx, j)]
  BY <1>1, <1>2 DEF SlotMoves
<1>4. QED
  BY <1>3 DEF AsPlanned, GoneAt

LEMMA AbsentIsGone ==
  ASSUME TransactionInv, NEW x \in Slot, Observe(x) = "absent"
  PROVE  slot[x].ours \in {"none", "deleted"}
BY AbsentIsFree DEF TransactionInv, StudioTypes

LEMMA CreateTargetStep == ASSUME TransactionInv, NEW i, CreateTarget(i) PROVE TransactionInv'
<1> DEFINE x == At(plan.tx, i)
           o(after, status) == [work.outs[i] EXCEPT !.after = after, !.status = status]
<1>1. AtHead(i) /\ ~IsEdit(plan.tx, i) /\ i \in Index(plan.tx) /\ work.op = "apply"
  BY NowAtHead, HeadIndex DEF CreateTarget
<1>2. plan.tx \in Tx /\ x \in Slot /\ x \in Creates(plan.tx)
  BY <1>1, TargetKinds DEF AtHead
<1>3. SpentStep /\ CauseStep
  BY <1>2, SufferStep DEF CreateTarget, TransactionInv, StudioTypes, CauseStep, SpentStep
<1>4. UNCHANGED <<src, mode, plan, grant, receipt, hub>>
  BY DEF CreateTarget
<1>5. \A a, t : OutShape(o(a, t))
  BY <1>1 DEF AtHead, WorkTypes, OutShape
<1>6. \/ slot' = slot /\ \E a : work' = Stuck(i, o(a, ""))
      \/ slot' = slot /\ work' = Fail(Go(i, o("absent", "not_created")))
      \/ /\ \E b \in BOOLEAN : slot' = [slot EXCEPT ![x].ours = "exact", ![x].tracked = b]
         /\ \E a, t : work' = Did(i, o(a, t)) \/ work' = Fail(Did(i, o(a, t)))
  BY DEF CreateTarget
<1> HIDE DEF o
<1>7. CASE slot' = slot /\ \E a : work' = Stuck(i, o(a, ""))
  BY <1>1, <1>3, <1>4, <1>5, <1>7, StuckLooked DEF studio
<1>8. CASE slot' = slot /\ work' = Fail(Go(i, o("absent", "not_created")))
  <2>1. WorkShape(Go(i, o("absent", "not_created"))) /\ OthersKept(Go(i, o("absent", "not_created")), i)
    BY <1>1, <1>5, GoShape
  <2>2. WorkShape(work') /\ work'.op = "undo" /\ OthersKept(work', i)
    BY <1>8, <2>1, FailShape DEF OthersKept
  <2>3. QED
    BY <1>1, <1>3, <1>4, <1>8, <2>2, LookedAt DEF studio
<1>9. CASE /\ \E b \in BOOLEAN : slot' = [slot EXCEPT ![x].ours = "exact", ![x].tracked = b]
           /\ \E a, t : work' = Did(i, o(a, t)) \/ work' = Fail(Did(i, o(a, t)))
  <2>1. SlotMoves(x, "exact")
    BY <1>2, <1>9 DEF SlotMoves, TransactionInv, StudioTypes, SlotShape
  <2>2. StudioTypes' /\ PlanTypes' /\ PlanGone' /\ GrantTypes'
    BY <1>1, <1>2, <1>3, <1>4, <2>1, SlotMoved DEF AtHead
  <2>3. PICK a, t : work' = Did(i, o(a, t)) \/ work' = Fail(Did(i, o(a, t)))
    BY <1>9
  <2> DEFINE d == Did(i, o(a, t))
  <2>4. WorkShape(d) /\ d.op = "apply" /\ d.todo = Tail(work.todo) /\ OthersKept(d, i)
    BY <1>1, <1>5, DidShape
  <2>5. work' = d \/ work' = Fail(d)
    BY <2>3
  <2> HIDE DEF d
  <2>6. /\ WorkShape(work') /\ OthersKept(work', i)
        /\ \/ work'.op = "apply" /\ work'.todo = Tail(work.todo)
           \/ work'.op = "undo"
    BY <2>4, <2>5, FailShape DEF OthersKept
  <2>7. AsPlanned(i)'
    BY <1>1, <1>4, <2>1 DEF AsPlanned, SlotMoves
  <2>8. WorkTypes'
    BY <1>1, <1>4, <2>6, WorkMoves DEF AtHead
  <2>9. \A j \in Index(plan.tx) \ {i} : (AsPlanned(j) => AsPlanned(j)') /\ (GoneAt(j) => GoneAt(j)')
    BY <1>1, <1>2, <1>3, <1>4, <2>1, SlotElsewhere DEF CauseStep
  <2>10. ApplyProgress' /\ RecoverProgress'
    BY <1>1, <1>4, <2>6, <2>7, <2>9, ProgressMoves
  <2>11. HubTypes'
    BY <1>4, <2>6 DEF TransactionInv, HubTypes, WorkShape
  <2>12. QED
    BY <2>2, <2>8, <2>10, <2>11 DEF TransactionInv
<1>10. QED
  BY <1>6, <1>7, <1>8, <1>9

LEMMA RemoveTargetStep == ASSUME TransactionInv, NEW i, RemoveTarget(i) PROVE TransactionInv'
<1> DEFINE x == At(plan.tx, i)
<1>1. /\ AtHead(i) /\ ~IsEdit(plan.tx, i) /\ i \in Index(plan.tx)
      /\ work.op \in {"undo", "recover"}
  BY NowAtHead, HeadIndex DEF RemoveTarget
<1>2. plan.tx \in Tx /\ x \in Slot
  BY <1>1, TargetKinds DEF AtHead
<1>3. SpentStep /\ CauseStep
  BY SufferStep DEF RemoveTarget, TransactionInv, StudioTypes, CauseStep, SpentStep
<1>4. UNCHANGED <<src, mode, plan, grant, receipt, hub>>
  BY DEF RemoveTarget
<1>5. \/ slot' = slot /\ \E b, a : work' = Stuck(i, Outcome(b, a, ""))
      \/ slot' = slot /\ Observe(x) = "absent" /\ work' = Restored(i, Outcome("absent", "absent", ""))
      \/ /\ slot' = [slot EXCEPT ![x].ours = "deleted"]
         /\ work' = Restored(i, Outcome("created_exact", "absent", ""))
  BY DEF RemoveTarget
<1>6. CASE slot' = slot /\ \E b, a : work' = Stuck(i, Outcome(b, a, ""))
  BY <1>1, <1>3, <1>4, <1>6, OutcomeShape, StuckLooked DEF studio
<1>7. CASE slot' = slot /\ Observe(x) = "absent" /\ work' = Restored(i, Outcome("absent", "absent", ""))
  <2>1. GoneAt(i)
    BY <1>1, <1>2, <1>7, AbsentIsGone DEF GoneAt
  <2>2. QED
    BY <1>1, <1>3, <1>4, <1>7, <2>1, OutcomeShape, RestoredLooked DEF studio
<1>8. CASE /\ slot' = [slot EXCEPT ![x].ours = "deleted"]
           /\ work' = Restored(i, Outcome("created_exact", "absent", ""))
  <2>1. SlotMoves(x, "deleted")
    BY <1>2, <1>8 DEF SlotMoves, TransactionInv, StudioTypes, SlotShape
  <2>2. StudioTypes' /\ PlanTypes' /\ PlanGone' /\ GrantTypes'
    BY <1>2, <1>3, <1>4, <2>1, SlotMoved
  <2>3. /\ WorkShape(work') /\ work'.op = work.op /\ work'.todo = Tail(work.todo)
        /\ OthersKept(work', i)
    <3> DEFINE d == Outcome("created_exact", "absent", "")
    <3>1. OutShape(d) /\ work' = Restored(i, d)
      BY <1>8, OutcomeShape
    <3> HIDE DEF d
    <3>2. /\ WorkShape(Restored(i, d)) /\ Restored(i, d).op = work.op
          /\ Restored(i, d).todo = Tail(work.todo) /\ OthersKept(Restored(i, d), i)
      BY <1>1, <3>1, RestoredShape
    <3>3. QED
      BY <3>1, <3>2
  <2>4. GoneAt(i)'
    BY <1>1, <1>4, <2>1 DEF GoneAt, SlotMoves
  <2>5. WorkTypes'
    BY <1>1, <1>4, <2>3, WorkMoves DEF AtHead
  <2>6. \A j \in Index(plan.tx) \ {i} : (AsPlanned(j) => AsPlanned(j)') /\ (GoneAt(j) => GoneAt(j)')
    BY <1>1, <1>2, <1>3, <1>4, <2>1, SlotElsewhere DEF CauseStep
  <2>7. ApplyProgress' /\ RecoverProgress'
    BY <1>1, <1>4, <2>3, <2>4, <2>6, ProgressMoves
  <2>8. HubTypes'
    BY <1>4, <2>3 DEF TransactionInv, HubTypes, WorkShape
  <2>9. QED
    BY <2>2, <2>5, <2>7, <2>8 DEF TransactionInv
<1>9. QED
  BY <1>5, <1>6, <1>7, <1>8

-----------------------------------------------------------------------------
(* Steps between requests                                                  *)

(* The creations are what they were; only the watch on them may end.       *)
SlotsSame(slots) ==
  /\ SlotShape(slots)
  /\ \A x \in Slot : /\ slots[x].ours = slot[x].ours /\ slots[x].home = slot[x].home
                     /\ slots[x].foreign = slot[x].foreign /\ slots[x].tracked \in BOOLEAN

LEMMA SlotsSameCases ==
  ASSUME StudioTypes
  PROVE  SlotsSame(slot) /\ SlotsSame(RefreshedSlots) /\ \A tx : SlotsSame(Untracked(slot, tx))
BY DEF StudioTypes, SlotsSame, SlotShape, RefreshedSlots, Untracked

CauseTyped == cause' \subseteq Script \cup Slot \cup {"late", "editor", "old", "mode"}

LEMMA StudioSame ==
  ASSUME StudioTypes, UNCHANGED <<src, mode>>, SlotsSame(slot'), CauseTyped,
         SpentShape(spent'), spent.used \subseteq spent'.used, spent'.used \subseteq Tx
  PROVE  StudioTypes'
BY DEF StudioTypes, SlotsSame, CauseTyped, Written

LEMMA GoneSame ==
  ASSUME StudioTypes, UNCHANGED <<src, plan>>, SlotsSame(slot'), plan.tx \in Tx,
         NEW i \in Index(plan.tx), GoneAt(i)
  PROVE  GoneAt(i)'
<1>1. ~IsEdit(plan.tx, i) => At(plan.tx, i) \in Slot
  BY TargetKinds
<1>2. QED
  BY <1>1 DEF GoneAt, SlotsSame

(* A grant that stays, changes its status to none but "cleaned", or goes.  *)
GrantFrom(g) ==
  /\ DOMAIN g = {"tx", "status", "only", "old", "evidence"}
  /\ g.status \in {"none", "authorized", "cleaned", "refused", "cleanup_required"}
  /\ g.tx \in {grant.tx, "none"}
  /\ g.status = "cleaned" => grant.status = "cleaned"

LEMMA GrantFromCases ==
  ASSUME GrantTypes
  PROVE  GrantFrom(grant) /\ GrantFrom(Refreshed) /\ GrantFrom(NoGrant)
         /\ GrantFrom([grant EXCEPT !.old = TRUE]) /\ \A tx : GrantFrom(GrantAfter(tx))
<1>1. GrantFrom(grant)
  BY DEF GrantTypes, GrantFrom
<1>2. GrantFrom(NoGrant)
  BY DEF NoGrant, GrantFrom
<1>3. GrantFrom([grant EXCEPT !.old = TRUE]) /\ GrantFrom([grant EXCEPT !.only = TRUE])
  BY DEF GrantTypes, GrantFrom
<1>4. QED
  BY <1>1, <1>2, <1>3 DEF Refreshed, GrantAfter

LEMMA GrantSame ==
  ASSUME GrantTypes, StudioTypes, GrantFrom(grant'), SlotsSame(slot'), spent.used \subseteq spent'.used,
         plan'.status \in {"prepared", "applying"} => plan'.tx # grant'.tx
  PROVE  GrantTypes'
<1> SUFFICES ASSUME grant'.tx # "none", NEW x \in Creates(grant'.tx)
             PROVE  slot'[x].ours # "none" /\ (grant'.status = "cleaned" => slot'[x].ours = "deleted")
  BY DEF GrantFrom, GrantTypes
<1>1. grant'.tx = grant.tx /\ x \in Creates(grant.tx) /\ x \in Slot
  BY DEF GrantFrom, Creates
<1>2. QED
  BY <1>1 DEF GrantFrom, GrantTypes, SlotsSame

(* Nothing is under way before and after the step.                         *)
LEMMA RestingWork ==
  ASSUME WorkTypes, UNCHANGED work, work.op = "idle", plan'.status # "applying"
  PROVE  WorkTypes' /\ ApplyProgress' /\ RecoverProgress'
BY DEF WorkTypes, ApplyProgress, RecoverProgress, Busy

LEMMA IdlePlan ==
  ASSUME TransactionInv, work.op = "idle" \/ work.step = "reply"
  PROVE  plan.status # "applying"
BY DEF TransactionInv, WorkTypes

(* A step of the session, the clock or a refusal: the scripts, the         *)
(* creations and the plan stay, and the plugin rests.                      *)
LEMMA RestingStep ==
  ASSUME TransactionInv, UNCHANGED <<src, mode, plan, work, receipt>>, work.op = "idle",
         SlotsSame(slot'), GrantFrom(grant'), SpentStep, CauseTyped,
         DOMAIN hub' = DOMAIN hub, hub'.owing \in BOOLEAN, hub'.over \in BOOLEAN,
         {hub'.ready, hub'.fence, hub'.cleanup} \subseteq Tx \cup {"none"}
  PROVE  TransactionInv'
<1>1. StudioTypes'
  BY StudioSame DEF TransactionInv, SpentStep, StudioTypes
<1>2. HubTypes'
  BY DEF TransactionInv, HubTypes, WorkTypes
<1>3. PlanTypes'
  BY DEF TransactionInv, PlanTypes, SpentStep, Written
<1>4. plan.status # "applying"
  BY IdlePlan
<1>5. WorkTypes' /\ ApplyProgress' /\ RecoverProgress'
  BY <1>4, RestingWork DEF TransactionInv
<1>6. PlanGone'
  BY GoneSame, PlanIsReal DEF TransactionInv, PlanGone, PlanTypes, Ends
<1>7. plan.status \in {"prepared", "applying"} => plan.tx # "none" /\ plan.tx # grant.tx
  BY DEF TransactionInv, GrantTypes, PlanTypes
<1>8. GrantTypes'
  BY <1>7, GrantSame DEF TransactionInv, GrantFrom, SpentStep
<1>9. QED
  BY <1>1, <1>2, <1>3, <1>5, <1>6, <1>8 DEF TransactionInv

LEMMA PrepareStep ==
  ASSUME TransactionInv, NEW tx \in Tx, Prepare(tx) PROVE TransactionInv' /\ receipt' = receipt
<1>1. /\ work.op = "idle" /\ tx \notin spent.used /\ UNCHANGED <<src, mode, work, receipt>>
      /\ plan' = [tx |-> tx, status |-> "prepared", evidence |-> NoEvidence,
                  read |-> [s \in Edits(tx) |-> src[s].text]]
      /\ grant' \in {Refreshed, NoGrant} /\ slot' = RefreshedSlots /\ cause' = {}
      /\ hub' = [hub EXCEPT !.ready = tx]
      /\ spent' = [spent EXCEPT !.asked = @ + 1, !.used = @ \cup {tx}]
  BY DEF Prepare, MayAsk
<1>2. \A x \in Creates(tx) : Observe(x) = "absent"
  BY DEF Prepare, Preparable
<1>3. SpentShape(spent') /\ spent'.used = spent.used \cup {tx}
  BY <1>1 DEF TransactionInv, StudioTypes, SpentShape
<1>4. SlotsSame(slot') /\ GrantFrom(grant')
  BY <1>1, SlotsSameCases, GrantFromCases DEF TransactionInv
<1>5. StudioTypes'
  BY <1>1, <1>3, <1>4, StudioSame DEF TransactionInv, StudioTypes, CauseTyped
<1>6. HubTypes'
  BY <1>1 DEF TransactionInv, HubTypes, WorkTypes
<1>7. \A s \in Edits(tx) : src[s].text \in Written /\ src[s].text # tx
  BY <1>1, EveryTarget, NamesDiffer DEF TransactionInv, StudioTypes, Written
<1>8. PlanTypes'
  BY <1>1, <1>3, <1>7, NamesDiffer DEF PlanTypes, Written
<1>9. WorkTypes' /\ ApplyProgress' /\ RecoverProgress'
  BY <1>1, RestingWork DEF TransactionInv
<1>10. PlanGone'
  <2> SUFFICES ASSUME NEW i \in Index(tx) PROVE GoneAt(i)'
    BY <1>1 DEF PlanGone
  <2>1. CASE IsEdit(tx, i)
    BY <1>1, <1>7, <2>1, TargetKinds DEF GoneAt
  <2>2. CASE ~IsEdit(tx, i)
    BY <1>1, <1>2, <1>4, <2>2, TargetKinds, AbsentIsGone DEF GoneAt, SlotsSame
  <2>3. QED
    BY <2>1, <2>2
<1>11. tx # grant'.tx
  BY <1>1, <1>4, NamesDiffer DEF TransactionInv, GrantTypes, GrantFrom
<1>12. GrantTypes'
  BY <1>1, <1>3, <1>4, <1>11, GrantSame DEF TransactionInv
<1>13. QED
  BY <1>1, <1>5, <1>6, <1>8, <1>9, <1>10, <1>12 DEF TransactionInv

LEMMA PrepareRefusedStep ==
  ASSUME TransactionInv, NEW tx, PrepareRefused(tx) PROVE TransactionInv' /\ receipt' = receipt
<1>1. /\ work.op = "idle" /\ UNCHANGED <<src, mode, plan, work, receipt, hub, cause>>
      /\ grant' = Refreshed /\ slot' = RefreshedSlots
      /\ spent' = [spent EXCEPT !.asked = @ + 1]
  BY DEF PrepareRefused, MayAsk
<1>2. SpentStep /\ CauseTyped
  BY <1>1 DEF TransactionInv, StudioTypes, SpentShape, SpentStep, CauseTyped
<1>3. SlotsSame(slot') /\ GrantFrom(grant')
  BY <1>1, SlotsSameCases, GrantFromCases DEF TransactionInv
<1>4. QED
  BY <1>1, <1>2, <1>3, RestingStep DEF TransactionInv, HubTypes

LEMMA GiveUpStep == ASSUME TransactionInv, GiveUp PROVE TransactionInv' /\ receipt' = receipt
<1>1. /\ work.op = "idle" /\ UNCHANGED <<src, slot, mode, plan, grant, work, receipt, cause, spent>>
      /\ hub' = [hub EXCEPT !.ready = "none"]
  BY DEF GiveUp, studio
<1>2. SpentStep /\ CauseTyped
  BY <1>1 DEF TransactionInv, StudioTypes, SpentStep, CauseTyped
<1>3. SlotsSame(slot') /\ GrantFrom(grant')
  BY <1>1, SlotsSameCases, GrantFromCases DEF TransactionInv
<1>4. DOMAIN hub' = DOMAIN hub /\ hub'.owing \in BOOLEAN /\ hub'.over \in BOOLEAN
      /\ {hub'.ready, hub'.fence, hub'.cleanup} \subseteq Tx \cup {"none"}
  BY <1>1 DEF TransactionInv, HubTypes
<1>5. QED
  BY <1>1, <1>2, <1>3, <1>4, RestingStep

LEMMA GrantExpiresStep == ASSUME TransactionInv, GrantExpires PROVE TransactionInv' /\ receipt' = receipt
<1>1. /\ work.op = "idle" /\ UNCHANGED <<src, slot, mode, plan, work, receipt, hub, cause>>
      /\ grant' = [grant EXCEPT !.old = TRUE]
  BY DEF GrantExpires, studio
<1>2. SpentStep /\ CauseTyped
  BY <1>1, SufferStep DEF GrantExpires, TransactionInv, StudioTypes, CauseTyped
<1>3. SlotsSame(slot') /\ GrantFrom(grant')
  BY <1>1, SlotsSameCases, GrantFromCases DEF TransactionInv
<1>4. QED
  BY <1>1, <1>2, <1>3, RestingStep DEF TransactionInv, HubTypes

LEMMA HubExpiresStep == ASSUME TransactionInv, HubExpires PROVE TransactionInv' /\ receipt' = receipt
<1>1. /\ work.op = "idle" /\ UNCHANGED <<src, slot, mode, plan, grant, work, receipt, cause, spent>>
      /\ hub' = [hub EXCEPT !.over = TRUE] \/ hub' = [hub EXCEPT !.cleanup = "none"]
  BY DEF HubExpires, studio
<1>2. SpentStep /\ CauseTyped
  BY <1>1 DEF TransactionInv, StudioTypes, SpentStep, CauseTyped
<1>3. SlotsSame(slot') /\ GrantFrom(grant')
  BY <1>1, SlotsSameCases, GrantFromCases DEF TransactionInv
<1>4. DOMAIN hub' = DOMAIN hub /\ hub'.owing \in BOOLEAN /\ hub'.over \in BOOLEAN
      /\ {hub'.ready, hub'.fence, hub'.cleanup} \subseteq Tx \cup {"none"}
  BY <1>1 DEF TransactionInv, HubTypes
<1>5. QED
  BY <1>1, <1>2, <1>3, <1>4, RestingStep

(* What a lost or unproven answer makes the session note.                  *)
HubShape(h) ==
  /\ DOMAIN h = DOMAIN hub /\ h.owing \in BOOLEAN /\ h.over \in BOOLEAN
  /\ {h.ready, h.fence, h.cleanup} \subseteq Tx \cup {"none"}

LEMMA UnprovenShape ==
  ASSUME HubTypes, NEW op, NEW tx \in Tx PROVE HubShape(Unproven(op, tx))
BY DEF HubTypes, HubShape, Unproven

LEMMA HeardShape ==
  ASSUME HubTypes, NEW r, r.tx \in Tx PROVE HubShape(Heard(r))
<1>1. CASE Heard(r) = Unproven(r.op, r.tx)
  BY <1>1, UnprovenShape
<1>2. CASE Heard(r) = [hub EXCEPT !.cleanup = "none", !.owing = FALSE, !.over = FALSE]
  BY <1>2 DEF HubTypes, HubShape
<1>3. CASE Heard(r) = [hub EXCEPT !.fence = "none", !.ready = "none",
                            !.cleanup = IF r.outcome = "applied" /\ Creates(r.tx) # {}
                                        THEN r.tx ELSE @]
  BY <1>3 DEF HubTypes, HubShape
<1>4. \/ Heard(r) = Unproven(r.op, r.tx)
      \/ Heard(r) = [hub EXCEPT !.cleanup = "none", !.owing = FALSE, !.over = FALSE]
      \/ Heard(r) = [hub EXCEPT !.fence = "none", !.ready = "none",
                            !.cleanup = IF r.outcome = "applied" /\ Creates(r.tx) # {}
                                        THEN r.tx ELSE @]
  BY DEF Heard
<1>5. QED
  BY <1>1, <1>2, <1>3, <1>4

LEMMA IdleShape ==
  /\ DOMAIN Idle = {"op", "step", "todo", "done", "outs", "late", "clash", "fenced", "failed"}
  /\ Idle.op = "idle" /\ Idle.step = "next" /\ Idle.todo = <<>>
BY DEF Idle

LEMMA AnswerStep == ASSUME TransactionInv, Answer PROVE TransactionInv' /\ receipt' = receipt
<1>1. /\ work.step = "reply" /\ work' = Idle
      /\ UNCHANGED <<src, slot, mode, plan, grant, receipt, cause>>
      /\ hub' = Heard(receipt) \/ hub' = Unproven(receipt.op, receipt.tx)
  BY DEF Answer, studio
<1>2. SpentStep /\ CauseStep
  BY <1>1, SufferStep DEF Answer, TransactionInv, StudioTypes, CauseStep
<1>3. StudioTypes' /\ PlanTypes' /\ PlanGone' /\ GrantTypes'
  BY <1>1, <1>2, StudioKept
<1>4. HubShape(hub')
  BY <1>1, HeardShape, UnprovenShape DEF TransactionInv, HubTypes
<1>5. HubTypes'
  BY <1>1, <1>4, IdleShape DEF TransactionInv, HubTypes, HubShape
<1>6. plan.status # "applying"
  BY <1>1, IdlePlan
<1>7. WorkTypes' /\ ApplyProgress' /\ RecoverProgress'
  BY <1>1, <1>6, IdleShape DEF WorkTypes, ApplyProgress, RecoverProgress, Busy
<1>8. QED
  BY <1>1, <1>3, <1>5, <1>7 DEF TransactionInv

LEMMA AskStep ==
  ASSUME TransactionInv, NEW fs, Ask(fs), fs \subseteq {"late", "editor", "old", "mode"}
  PROVE  /\ SpentStep /\ CauseTyped /\ work.op = "idle"
         /\ cause \cap (Script \cup Slot) \subseteq cause'
BY SufferStep DEF Ask, MayAsk, TransactionInv, StudioTypes, CauseTyped

LEMMA ApplyRefusedStep ==
  ASSUME TransactionInv, NEW tx \in Tx, ApplyRefused(tx) PROVE TransactionInv' /\ receipt' = receipt
<1>1. /\ UNCHANGED <<src, slot, mode, plan, grant, work, receipt>> /\ hub' = Unproven("apply", tx)
      /\ Ask({}) \/ Ask({"old"})
  BY DEF ApplyRefused, studio
<1>2. SpentStep /\ CauseTyped /\ work.op = "idle"
  BY <1>1, AskStep
<1>3. SlotsSame(slot') /\ GrantFrom(grant')
  BY <1>1, SlotsSameCases, GrantFromCases DEF TransactionInv
<1>4. HubShape(hub')
  BY <1>1, UnprovenShape DEF TransactionInv
<1>5. QED
  BY <1>1, <1>2, <1>3, <1>4, RestingStep DEF HubShape

LEMMA CleanupRefusedStep ==
  ASSUME TransactionInv, NEW tx \in Tx, CleanupRefused(tx) PROVE TransactionInv' /\ receipt' = receipt
<1>1. /\ UNCHANGED <<src, mode, plan, work, receipt>> /\ hub' = Unproven("cleanup", tx)
      /\ Ask({})
      /\ \/ UNCHANGED <<grant, slot>>
         \/ grant' = Refreshed /\ slot' = RefreshedSlots
  BY DEF CleanupRefused
<1>2. SpentStep /\ CauseTyped /\ work.op = "idle"
  BY <1>1, AskStep
<1>3. SlotsSame(slot') /\ GrantFrom(grant')
  BY <1>1, SlotsSameCases, GrantFromCases DEF TransactionInv
<1>4. HubShape(hub')
  BY <1>1, UnprovenShape DEF TransactionInv
<1>5. QED
  BY <1>1, <1>2, <1>3, <1>4, RestingStep DEF HubShape

-----------------------------------------------------------------------------
(* The user                                                                *)

UserTouches ==
  /\ ScriptShape(src') /\ SlotShape(slot') /\ mode' \in {"edit", "play"}
  /\ \A s \in Script : /\ src'[s].at \in BOOLEAN
                       /\ \/ src'[s].text = src[s].text
                          \/ src'[s].text \in {"orig", "user"} /\ s \in cause'
  /\ \A x \in Slot : /\ slot'[x].home \in BOOLEAN /\ slot'[x].foreign \in BOOLEAN
                     /\ slot'[x].tracked \in BOOLEAN
                     /\ \/ slot'[x].ours = slot[x].ours
                        \/ /\ slot[x].ours \in {"exact", "dirty"} /\ x \in cause'
                           /\ slot'[x].ours \in {"dirty", "moved", "deleted"}

LEMMA UserActed ==
  ASSUME TransactionInv, NEW t \in Script \cup Slot \cup {"mode"}, UserActs(t)
  PROVE  SpentStep /\ CauseStep /\ t \in cause' /\ UNCHANGED <<plan, grant, work, receipt, hub>>
BY DEF UserActs, TransactionInv, StudioTypes, SpentShape, SpentStep, CauseStep

LEMMA UserIs ==
  ASSUME TransactionInv, User
  PROVE  /\ UserTouches /\ SpentStep /\ CauseStep
         /\ UNCHANGED <<plan, grant, work, receipt, hub>>
<1> USE DEF TransactionInv, StudioTypes
<1>1. ASSUME NEW s \in Script, UserWrites(s)
      PROVE  UserTouches /\ SpentStep /\ CauseStep /\ UNCHANGED <<plan, grant, work, receipt, hub>>
  <2>1. /\ SpentStep /\ CauseStep /\ s \in cause' /\ UNCHANGED <<plan, grant, work, receipt, hub>>
        /\ UNCHANGED <<slot, mode>>
    BY <1>1, UserActed DEF UserWrites
  <2>2. PICK text \in {"orig", "user"} : src' = [src EXCEPT ![s].text = text]
    BY <1>1 DEF UserWrites
  <2>3. UserTouches
    BY <2>1, <2>2 DEF UserTouches, ScriptShape, SlotShape
  <2>4. QED
    BY <2>1, <2>3
<1>2. ASSUME NEW s \in Script, UserMoves(s)
      PROVE  UserTouches /\ SpentStep /\ CauseStep /\ UNCHANGED <<plan, grant, work, receipt, hub>>
  <2>1. /\ SpentStep /\ CauseStep /\ UNCHANGED <<plan, grant, work, receipt, hub>>
        /\ UNCHANGED <<slot, mode>> /\ src' = [src EXCEPT ![s].at = ~@]
    BY <1>2, UserActed DEF UserMoves
  <2>2. UserTouches
    BY <2>1 DEF UserTouches, ScriptShape, SlotShape
  <2>3. QED
    BY <2>1, <2>2
<1>3. ASSUME NEW x \in Slot, UserCreates(x)
      PROVE  UserTouches /\ SpentStep /\ CauseStep /\ UNCHANGED <<plan, grant, work, receipt, hub>>
  <2>1. /\ SpentStep /\ CauseStep /\ UNCHANGED <<plan, grant, work, receipt, hub>>
        /\ UNCHANGED <<src, mode>>
        /\ slot' \in {[slot EXCEPT ![x].foreign = ~@], [slot EXCEPT ![x].home = ~@]}
    BY <1>3, UserActed DEF UserCreates
  <2>2. SlotShape(slot')
    BY <2>1 DEF SlotShape
  <2>3. \A y \in Slot : /\ slot'[y].home \in BOOLEAN /\ slot'[y].foreign \in BOOLEAN
                        /\ slot'[y].tracked \in BOOLEAN /\ slot'[y].ours = slot[y].ours
    <3>1. CASE slot' = [slot EXCEPT ![x].foreign = ~@]
      BY <3>1 DEF SlotShape
    <3>2. CASE slot' = [slot EXCEPT ![x].home = ~@]
      BY <3>2 DEF SlotShape
    <3>3. QED
      BY <2>1, <3>1, <3>2
  <2>4. UserTouches
    BY <2>1, <2>2, <2>3 DEF UserTouches
  <2>5. QED
    BY <2>1, <2>4
<1>4. ASSUME NEW x \in Slot, UserChanges(x)
      PROVE  UserTouches /\ SpentStep /\ CauseStep /\ UNCHANGED <<plan, grant, work, receipt, hub>>
  <2>1. /\ SpentStep /\ CauseStep /\ x \in cause' /\ UNCHANGED <<plan, grant, work, receipt, hub>>
        /\ UNCHANGED <<src, mode>> /\ slot[x].ours \in {"exact", "dirty"}
    BY <1>4, UserActed DEF UserChanges
  <2>2. PICK as \in {"dirty", "moved", "deleted"} : slot' = [slot EXCEPT ![x].ours = as]
    BY <1>4 DEF UserChanges
  <2>3. SlotShape(slot')
    BY <2>2 DEF SlotShape
  <2>4. ASSUME NEW y \in Slot
        PROVE  /\ slot'[y].home \in BOOLEAN /\ slot'[y].foreign \in BOOLEAN
               /\ slot'[y].tracked \in BOOLEAN
               /\ slot'[y].ours = slot[y].ours \/ (y = x /\ slot'[y].ours = as)
    BY <2>2 DEF SlotShape
  <2>5. UserTouches
    BY <2>1, <2>3, <2>4 DEF UserTouches
  <2>6. QED
    BY <2>1, <2>5
<1>5. CASE UserPlays
  <2>1. /\ SpentStep /\ CauseStep /\ UNCHANGED <<plan, grant, work, receipt, hub>>
        /\ UNCHANGED <<src, slot>> /\ mode' \in {"edit", "play"}
    BY <1>5, UserActed DEF UserPlays
  <2>2. UserTouches
    BY <2>1 DEF UserTouches, ScriptShape, SlotShape
  <2>3. QED
    BY <2>1, <2>2
<1>6. QED
  BY <1>1, <1>2, <1>3, <1>4, <1>5 DEF User

LEMMA UserStep == ASSUME TransactionInv, User PROVE TransactionInv' /\ receipt' = receipt
<1>1. UserTouches /\ SpentStep /\ CauseStep /\ UNCHANGED <<plan, grant, work, receipt, hub>>
  BY UserIs
<1>2. StudioTypes'
  BY <1>1 DEF TransactionInv, StudioTypes, UserTouches, SpentStep, CauseStep, Written
<1>3. HubTypes' /\ PlanTypes' /\ WorkTypes'
  BY <1>1 DEF TransactionInv, HubTypes, PlanTypes, WorkTypes, Busy, SpentStep, Written
<1>4. ASSUME plan.tx \in Tx, NEW j \in Index(plan.tx)
      PROVE  (AsPlanned(j) => AsPlanned(j)') /\ (GoneAt(j) => GoneAt(j)')
  <2> DEFINE t == At(plan.tx, j)
  <2>1. /\ IsEdit(plan.tx, j) => t \in Script
        /\ ~IsEdit(plan.tx, j) => t \in Slot
    BY <1>4, TargetKinds
  <2>2. plan' = plan /\ cause \subseteq cause' /\ plan.tx \notin {"orig", "user"}
    BY <1>1, <1>4, NamesDiffer DEF CauseStep
  <2>3. CASE IsEdit(plan.tx, j)
    <3>1. src'[t].text = src[t].text \/ (src'[t].text \in {"orig", "user"} /\ t \in cause')
      BY <1>1, <2>1, <2>3 DEF UserTouches
    <3>2. QED
      BY <2>2, <2>3, <3>1 DEF AsPlanned, GoneAt
  <2>4. CASE ~IsEdit(plan.tx, j)
    <3>1. \/ slot'[t].ours = slot[t].ours
          \/ /\ slot[t].ours \in {"exact", "dirty"} /\ t \in cause'
             /\ slot'[t].ours \in {"dirty", "moved", "deleted"}
      BY <1>1, <2>1, <2>4 DEF UserTouches
    <3>2. QED
      BY <2>2, <2>4, <3>1 DEF AsPlanned, GoneAt
  <2>5. QED
    BY <2>3, <2>4
<1>5. PlanGone'
  BY <1>1, <1>4, PlanIsReal DEF TransactionInv, PlanGone, PlanTypes, Ends
<1>6. \A j : Pending(j) => Pending(j)'
  BY <1>1 DEF Pending
<1>7. ApplyProgress' /\ RecoverProgress'
  BY <1>1, <1>4, <1>6 DEF TransactionInv, ApplyProgress, RecoverProgress, WorkTypes, Busy
<1>8. GrantTypes'
  <2> SUFFICES ASSUME grant.tx # "none", NEW x \in Creates(grant.tx)
               PROVE  slot'[x].ours # "none" /\ (grant.status = "cleaned" => slot'[x].ours = "deleted")
    BY <1>1 DEF TransactionInv, GrantTypes, SpentStep
  <2>1. x \in Slot /\ slot[x].ours # "none" /\ (grant.status = "cleaned" => slot[x].ours = "deleted")
    BY DEF Creates, TransactionInv, GrantTypes
  <2>2. QED
    BY <1>1, <2>1 DEF UserTouches
<1>9. QED
  BY <1>1, <1>2, <1>3, <1>5, <1>7, <1>8 DEF TransactionInv

-----------------------------------------------------------------------------
(* Receipts                                                                *)

(* The plugin's answer: nothing is under way any more.                     *)
Replies(op) ==
  /\ work' = [Idle EXCEPT !.op = op, !.step = "reply"]
  /\ op \in {"apply", "recover", "cleanup"}
  /\ receipt'.tx \in Tx /\ plan'.status # "applying" /\ UNCHANGED hub

LEMMA ReplyTypes ==
  ASSUME HubTypes, NEW op, Replies(op)
  PROVE  HubTypes' /\ WorkTypes' /\ ApplyProgress' /\ RecoverProgress'
<1>1. /\ DOMAIN work' = DOMAIN Idle /\ work'.op = op /\ work'.step = "reply"
  BY DEF Replies, Idle
<1>2. QED
  BY <1>1 DEF Replies, HubTypes, WorkTypes, ApplyProgress, RecoverProgress, Busy

(* The end of a plan.                                                      *)
LEMMA EndedPlan ==
  ASSUME TransactionInv, plan.tx \in Tx, SpentStep, NEW outcome, NEW outs,
         plan' = Ended(outcome, outs),
         outcome \in Ends \cup {"applied", "recovery_required"},
         outcome \in {"applied", "recovery_required"} => plan.evidence = NoEvidence
  PROVE  /\ PlanTypes' /\ plan'.tx = plan.tx /\ plan'.status = outcome /\ plan'.read = plan.read
<1>1. /\ DOMAIN plan' = DOMAIN plan /\ plan'.tx = plan.tx /\ plan'.status = outcome
      /\ plan'.read = plan.read
      /\ outcome \notin Ends => plan'.evidence = plan.evidence
  BY DEF Ended, TransactionInv, PlanTypes, Ends
<1>2. PlanTypes'
  BY <1>1, NamesDiffer DEF TransactionInv, PlanTypes, SpentStep, Written, Ends
<1>3. QED
  BY <1>1, <1>2

LEMMA GoneAll ==
  ASSUME plan.tx \in Tx, \A i \in Index(plan.tx) : GoneAt(i)
  PROVE  /\ \A s \in Edits(plan.tx) : src[s].text # plan.tx
         /\ \A x \in Creates(plan.tx) : slot[x].ours \in {"none", "deleted"}
<1>1. ASSUME NEW s \in Edits(plan.tx) PROVE src[s].text # plan.tx
  <2>1. PICK i \in Index(plan.tx) : IsEdit(plan.tx, i) /\ At(plan.tx, i) = s
    BY EveryTarget
  <2>2. QED
    BY <2>1 DEF GoneAt
<1>2. ASSUME NEW x \in Creates(plan.tx) PROVE slot[x].ours \in {"none", "deleted"}
  <2>1. PICK i \in CreateIndex(plan.tx) : At(plan.tx, i) = x
    BY EveryTarget
  <2>2. QED
    BY <2>1 DEF GoneAt, CreateIndex
<1>3. QED
  BY <1>1, <1>2

LEMMA SeenPrepared ==
  ASSUME TransactionInv, plan.tx \in Tx, NEW i \in Index(plan.tx), IsEdit(plan.tx, i),
         Seen(plan.tx, i) = Prepared(plan.tx, i)
  PROVE  src[At(plan.tx, i)].text = plan.read[At(plan.tx, i)] /\ GoneAt(i)
<1> DEFINE s == At(plan.tx, i)
<1>1. s \in Edits(plan.tx) /\ s \in Script
  BY TargetKinds
<1>2. plan.read[s] \in Written \ {plan.tx}
  BY <1>1, NamesDiffer DEF TransactionInv, PlanTypes
<1>3. plan.read[s] # ""
  BY <1>2, NamesDiffer DEF TransactionInv, StudioTypes, Written
<1>4. src[s].at /\ src[s].text = plan.read[s]
  BY <1>3 DEF Seen, Prepared
<1>5. QED
  BY <1>2, <1>4 DEF GoneAt

(* A rollback left every script as it was prepared, and no creation.       *)
LEMMA RolledBackHolds ==
  ASSUME TransactionInv, plan.tx \in Tx,
         \A i \in Index(plan.tx) : IF IsEdit(plan.tx, i) THEN Seen(plan.tx, i) = Prepared(plan.tx, i)
                                   ELSE GoneAt(i)
  PROVE  /\ \A s \in Edits(plan.tx) : src[s].text = plan.read[s]
         /\ \A i \in Index(plan.tx) : GoneAt(i)
         /\ \A x \in Creates(plan.tx) : slot[x].ours \in {"none", "deleted"}
<1>1. \A i \in Index(plan.tx) : GoneAt(i)
  BY SeenPrepared
<1>2. ASSUME NEW s \in Edits(plan.tx) PROVE src[s].text = plan.read[s]
  <2>1. PICK i \in Index(plan.tx) : IsEdit(plan.tx, i) /\ At(plan.tx, i) = s
    BY EveryTarget
  <2>2. QED
    BY <2>1, SeenPrepared
<1>3. QED
  BY <1>1, <1>2, GoneAll

(* What a step that answers has in common: the scripts stay as they are.   *)
LEMMA EndStep ==
  ASSUME TransactionInv, plan.tx \in Tx, SpentStep, CauseTyped, UNCHANGED <<src, mode>>,
         SlotsSame(slot'), NEW op, Replies(op), GrantFrom(grant'),
         NEW outcome, NEW outs, plan' = Ended(outcome, outs),
         outcome \in Ends \cup {"applied", "recovery_required"},
         outcome \in {"applied", "recovery_required"} => plan.evidence = NoEvidence,
         outcome \in Ends => \A i \in Index(plan.tx) : GoneAt(i)
  PROVE  TransactionInv'
<1>1. StudioTypes'
  BY StudioSame DEF TransactionInv, SpentStep, StudioTypes
<1>2. PlanTypes' /\ plan'.tx = plan.tx /\ plan'.status = outcome /\ plan'.read = plan.read
  BY EndedPlan
<1>3. HubTypes' /\ WorkTypes' /\ ApplyProgress' /\ RecoverProgress'
  BY ReplyTypes DEF TransactionInv
<1>4. PlanGone'
  <2> SUFFICES ASSUME outcome \in Ends, NEW i \in Index(plan.tx) PROVE GoneAt(i)'
    BY <1>2 DEF PlanGone, Ends
  <2>1. GoneAt(i) /\ (~IsEdit(plan.tx, i) => At(plan.tx, i) \in Slot)
    BY TargetKinds
  <2>2. QED
    BY <1>2, <2>1 DEF GoneAt, SlotsSame
<1>5. plan'.status \notin {"prepared", "applying"}
  BY <1>2 DEF Ends
<1>6. GrantTypes'
  BY <1>5, GrantSame DEF TransactionInv, SpentStep
<1>7. QED
  BY <1>1, <1>2, <1>3, <1>4, <1>6 DEF TransactionInv

SaysOf(op, outcome) ==
  /\ receipt'.tx = plan.tx /\ receipt'.outcome = outcome
  /\ work' = [Idle EXCEPT !.op = op, !.step = "reply"]

(* The start of an apply, or its refusal by the check of every target.     *)
LEMMA PreflightShape ==
  ASSUME NEW tx, NEW l
  PROVE  /\ DOMAIN Preflight(tx, l) = Index(tx)
         /\ \A i \in Index(tx) : OutShape(Preflight(tx, l)[i])
         /\ \A i \in Index(tx) : i < l => Preflight(tx, l)[i].before = Seen(tx, i)
BY DEF Preflight, OutShape, Outcome

LEMMA ApplyStarts ==
  ASSUME TransactionInv, plan.tx \in Tx, plan.status = "prepared", SpentStep, CauseTyped,
         UNCHANGED <<studio, grant, hub, receipt>>, plan' = [plan EXCEPT !.status = "applying"],
         NEW outs, DOMAIN outs = Index(plan.tx), \A i \in Index(plan.tx) : OutShape(outs[i]),
         work' = [Idle EXCEPT !.op = "apply", !.outs = outs, !.todo = [i \in Index(plan.tx) |-> i]]
  PROVE  TransactionInv'
<1> DEFINE todo == [i \in Index(plan.tx) |-> i]
<1>1. /\ DOMAIN work' = DOMAIN Idle /\ work'.op = "apply" /\ work'.step = "next"
      /\ work'.outs = outs /\ work'.todo = todo /\ work'.done = <<>>
  BY DEF Idle
<1>2. /\ DOMAIN plan' = DOMAIN plan /\ plan'.tx = plan.tx /\ plan'.status = "applying"
      /\ plan'.read = plan.read /\ plan'.evidence = plan.evidence
  BY DEF TransactionInv, PlanTypes
<1>3. Len(Targets[plan.tx]) \in Nat
  <2>1. Targets[plan.tx] \in Seq(Script \cup Slot)
    BY TransactionAssumption
  <2>2. QED
    BY <2>1
<1>4. todo \in Seq(Index(plan.tx)) /\ Len(todo) = Len(Targets[plan.tx])
  BY <1>3 DEF Index
<1> HIDE DEF todo
<1>5. StudioTypes'
  BY SlotsSameCases, StudioSame DEF TransactionInv, StudioTypes, SpentStep, studio
<1>6. plan.evidence = NoEvidence
  BY DEF TransactionInv, PlanTypes, Ends
<1>7. PlanTypes'
  BY <1>2, <1>6, NamesDiffer DEF TransactionInv, PlanTypes, SpentStep, Written
<1>8. WorkTypes'
  <2>1. \A i \in Index(plan.tx) : DOMAIN work'.outs[i] = {"before", "after", "status"}
    BY <1>1 DEF OutShape
  <2>2. <<>> \in Seq(Index(plan.tx))
    OBVIOUS
  <2>3. /\ work'.todo \in Seq(Index(plan'.tx)) /\ work'.done \in Seq(Index(plan'.tx))
        /\ plan'.tx \in Tx /\ DOMAIN work'.outs = Index(plan'.tx)
    BY <1>1, <1>2, <1>4, <2>2
  <2>4. QED
    BY <1>1, <1>2, <2>1, <2>3 DEF WorkTypes, Busy
<1>9. ApplyProgress'
  <2>1. \A i \in Index(plan.tx) : i \in 1..Len(todo) /\ todo[i] = i
    BY <1>4 DEF Index, todo
  <2>2. QED
    BY <1>1, <1>2, <2>1 DEF ApplyProgress, Pending
<1>10. RecoverProgress' /\ PlanGone'
  BY <1>1, <1>2 DEF RecoverProgress, PlanGone, Ends
<1>11. HubTypes'
  BY <1>1 DEF TransactionInv, HubTypes
<1>12. GrantTypes'
  BY <1>2, SlotsSameCases, GrantFromCases, GrantSame
     DEF TransactionInv, GrantTypes, SpentStep, studio
<1>13. QED
  BY <1>5, <1>7, <1>8, <1>9, <1>10, <1>11, <1>12 DEF TransactionInv

LEMMA ApplyStep ==
  ASSUME TransactionInv, NEW tx \in Tx, Apply(tx)
  PROVE  TransactionInv' /\ (receipt' # receipt => ReceiptHolds')
<1> DEFINE n == Len(Targets[tx])
<1>1. /\ plan.tx = tx /\ plan.status = "prepared" /\ UNCHANGED <<src, slot, mode, grant, hub>>
  BY DEF Apply, studio
<1>2. PICK l \in 1..(n + 2) :
        LET outs == Preflight(tx, l)
            conflict == \E i \in Index(tx) : outs[i].before # Prepared(tx, i)
            outcome == IF conflict THEN "aborted_preflight" ELSE "rolled_back"
        IN /\ Ask(IF l = n + 2 THEN {} ELSE {"late"})
           /\ IF conflict \/ l = n + 1
              THEN plan' = Ended(outcome, outs) /\ Say("apply", tx, outcome, outs, "")
              ELSE /\ plan' = [plan EXCEPT !.status = "applying"]
                   /\ work' = [Idle EXCEPT !.op = "apply", !.outs = outs,
                                           !.todo = [i \in Index(tx) |-> i]]
                   /\ UNCHANGED receipt
  BY DEF Apply
<1> DEFINE outs == Preflight(tx, l)
           conflict == \E i \in Index(tx) : outs[i].before # Prepared(tx, i)
           outcome == IF conflict THEN "aborted_preflight" ELSE "rolled_back"
<1>3. SpentStep /\ CauseTyped
  <2>1. (IF l = n + 2 THEN {} ELSE {"late"}) \subseteq {"late", "editor", "old", "mode"}
    OBVIOUS
  <2>2. QED
    BY <1>2, <2>1, AskStep
<1>4. /\ DOMAIN outs = Index(tx) /\ \A i \in Index(tx) : OutShape(outs[i])
      /\ \A i \in Index(tx) : i < l => outs[i].before = Seen(tx, i)
  BY PreflightShape
<1>5. \A i \in Index(tx) : GoneAt(i)
  BY <1>1 DEF TransactionInv, PlanGone
<1>6. CASE conflict \/ l = n + 1
  <2>0. plan' = Ended(outcome, outs) /\ Say("apply", tx, outcome, outs, "")
    BY <1>2, <1>6
  <2>1. plan' = Ended(outcome, outs) /\ SaysOf("apply", outcome)
    <3> HIDE DEF outs, outcome
    <3>1. QED
      BY <1>1, <2>0 DEF Say, SaysOf
  <2>2. ~conflict => \A i \in Index(tx) : Seen(tx, i) = Prepared(tx, i)
    <3> SUFFICES ASSUME ~conflict, NEW i \in Index(tx) PROVE Seen(tx, i) = Prepared(tx, i)
      OBVIOUS
    <3>1. l = n + 1 /\ n \in Nat
      <4>1. Targets[tx] \in Seq(Script \cup Slot)
        BY TransactionAssumption
      <4>2. QED
        BY <1>6, <4>1
    <3>2. i < l
      BY <3>1 DEF Index
    <3>3. QED
      BY <1>4, <3>2
  <2> HIDE DEF outs, conflict
  <2>3. PlanTypes' /\ plan'.tx = plan.tx /\ plan'.status = outcome /\ plan'.read = plan.read
    BY <1>1, <1>3, <2>1, EndedPlan DEF Ends
  <2>4. Replies("apply")
    BY <1>1, <2>1, <2>3 DEF Replies, SaysOf
  <2>5. TransactionInv'
    <3>1. SlotsSame(slot') /\ GrantFrom(grant')
      BY <1>1, SlotsSameCases, GrantFromCases DEF TransactionInv
    <3>2. outcome \in Ends /\ outcome \notin {"applied", "recovery_required"}
      BY DEF Ends
    <3> HIDE DEF outcome
    <3>3. QED
      BY <1>1, <1>3, <1>5, <2>1, <2>4, <3>1, <3>2, EndStep
  <2>6. /\ \A s \in Edits(tx) : src[s].text # tx
        /\ \A x \in Creates(tx) : slot[x].ours \in {"none", "deleted"}
    BY <1>1, <1>5, GoneAll
  <2>7. ~conflict => \A s \in Edits(tx) : src[s].text = plan.read[s]
    BY <1>1, <1>5, <2>2, RolledBackHolds
  <2>8. ReceiptHolds'
    BY <1>1, <2>1, <2>3, <2>6, <2>7 DEF ReceiptHolds, SaysOf
  <2>9. QED
    BY <2>5, <2>8
<1>7. CASE ~(conflict \/ l = n + 1)
  <2>1. /\ plan' = [plan EXCEPT !.status = "applying"] /\ receipt' = receipt
        /\ work' = [Idle EXCEPT !.op = "apply", !.outs = outs, !.todo = [i \in Index(tx) |-> i]]
    BY <1>2, <1>7
  <2> HIDE DEF outs
  <2>2. QED
    BY <1>1, <1>3, <1>4, <2>1, ApplyStarts DEF studio
<1>8. QED
  BY <1>6, <1>7

LEMMA Backwards ==
  ASSUME NEW n \in Nat, NEW ids \in Seq(1..n), Len(ids) = n, \A i \in 1..n : ids[i] = i
  PROVE  /\ Reverse(ids) \in Seq(1..n) /\ Len(Reverse(ids)) = n
         /\ \A i \in 1..n : Reverse(ids)[i] = n - i + 1
<1> DEFINE back == [i \in 1..n |-> n - i + 1]
<1>1. \A i \in 1..n : n - i + 1 \in 1..n /\ ids[n - i + 1] = n - i + 1
  OBVIOUS
<1>2. Reverse(ids) = back
  BY <1>1 DEF Reverse
<1>3. back \in [1..n -> 1..n]
  BY <1>1
<1>4. QED
  BY <1>2, <1>3

(* A recovery starts at the last target.                                   *)
LEMMA RecoverStarts ==
  ASSUME TransactionInv, plan.tx \in Tx, plan.evidence = NoEvidence, work.op = "idle",
         SpentStep, CauseTyped, UNCHANGED <<studio, plan, grant, hub, receipt>>,
         work' = [Idle EXCEPT !.op = "recover",
                              !.outs = [i \in Index(plan.tx) |-> Outcome("", "", "")],
                              !.todo = Reverse([i \in Index(plan.tx) |-> i])]
  PROVE  TransactionInv'
<1> DEFINE ids == [i \in Index(plan.tx) |-> i]
           todo == Reverse(ids)
           outs == [i \in Index(plan.tx) |-> Outcome("", "", "")]
<1>1. /\ DOMAIN work' = DOMAIN Idle /\ work'.op = "recover" /\ work'.step = "next"
      /\ work'.outs = outs /\ work'.todo = todo /\ work'.done = <<>>
  BY DEF Idle
<1>2. Len(Targets[plan.tx]) \in Nat
  <2>1. Targets[plan.tx] \in Seq(Script \cup Slot)
    BY TransactionAssumption
  <2>2. QED
    BY <2>1
<1>3. /\ ids \in Seq(Index(plan.tx)) /\ Len(ids) = Len(Targets[plan.tx])
      /\ \A i \in Index(plan.tx) : ids[i] = i
  BY <1>2 DEF Index
<1> HIDE DEF ids
<1>4. /\ todo \in Seq(Index(plan.tx)) /\ Len(todo) = Len(Targets[plan.tx])
      /\ \A i \in Index(plan.tx) : todo[i] = Len(Targets[plan.tx]) - i + 1
  BY <1>2, <1>3, Backwards DEF Index
<1> HIDE DEF todo
<1>5. DOMAIN outs = Index(plan.tx) /\ \A i \in Index(plan.tx) : OutShape(outs[i])
  BY OutcomeShape
<1> HIDE DEF outs
<1>6. SlotsSame(slot') /\ GrantFrom(grant')
  BY SlotsSameCases, GrantFromCases DEF TransactionInv, studio
<1>7. StudioTypes'
  BY <1>6, StudioSame DEF TransactionInv, StudioTypes, SpentStep, studio
<1>8. PlanTypes' /\ PlanGone'
  BY DEF TransactionInv, PlanTypes, PlanGone, GoneAt, SpentStep, Written, studio
<1>9. plan.status # "applying"
  BY IdlePlan
<1>10. WorkTypes'
  <2>1. \A i \in Index(plan.tx) : DOMAIN work'.outs[i] = {"before", "after", "status"}
    BY <1>1, <1>5 DEF OutShape
  <2>2. <<>> \in Seq(Index(plan.tx))
    OBVIOUS
  <2>3. QED
    BY <1>1, <1>4, <1>5, <1>9, <2>1, <2>2 DEF WorkTypes, Busy
<1>11. RecoverProgress'
  <2>1. ASSUME NEW i \in Index(plan.tx) PROVE \E k \in 1..Len(todo) : todo[k] = i
    <3>1. Len(Targets[plan.tx]) - i + 1 \in Index(plan.tx)
      BY <1>2 DEF Index
    <3>2. todo[Len(Targets[plan.tx]) - i + 1] = Len(Targets[plan.tx]) - (Len(Targets[plan.tx]) - i + 1) + 1
      BY <1>4, <3>1
    <3>3. i \in Nat
      BY <1>2 DEF Index
    <3>4. todo[Len(Targets[plan.tx]) - i + 1] = i
      BY <1>2, <3>2, <3>3
    <3>5. QED
      BY <1>4, <3>1, <3>4 DEF Index
  <2>2. QED
    BY <1>1, <2>1 DEF RecoverProgress, Pending
<1>12. ApplyProgress' /\ HubTypes'
  BY <1>1 DEF ApplyProgress, TransactionInv, HubTypes
<1>13. GrantTypes'
  BY <1>6, GrantSame DEF TransactionInv, GrantTypes, SpentStep
<1>14. QED
  BY <1>7, <1>8, <1>10, <1>11, <1>12, <1>13 DEF TransactionInv

(* Evidence is kept of a plan of which nothing is left.                    *)
LEMMA RecoverStep ==
  ASSUME TransactionInv, NEW tx \in Tx, Recover(tx)
  PROVE  TransactionInv' /\ (receipt' # receipt => ReceiptHolds')
<1>1. plan.tx = tx /\ UNCHANGED <<src, slot, mode, hub>> /\ Ask({})
  BY DEF Recover, studio
<1>2. SpentStep /\ CauseTyped /\ work.op = "idle"
  BY <1>1, AskStep
<1>3. SlotsSame(slot') /\ GrantFrom(grant) /\ GrantFrom(GrantAfter(tx))
  BY <1>1, SlotsSameCases, GrantFromCases DEF TransactionInv
<1>4. CASE plan.evidence # NoEvidence
  <2> DEFINE outs == plan.evidence.outs
  <2>1. /\ plan' = Ended("recovered", outs) /\ grant' = GrantAfter(tx)
        /\ Say("recover", tx, "recovered", outs, plan.evidence.outcome)
    BY <1>4 DEF Recover
  <2> HIDE DEF outs
  <2>2. SaysOf("recover", "recovered")
    BY <1>1, <2>1 DEF Say, SaysOf
  <2>3. plan.status \in Ends
    BY <1>4 DEF TransactionInv, PlanTypes
  <2>4. \A i \in Index(tx) : GoneAt(i)
    BY <1>1, <2>3 DEF TransactionInv, PlanGone
  <2>5. plan'.tx = plan.tx /\ plan'.status = "recovered" /\ plan'.read = plan.read
    BY <1>1, <1>2, <2>1, EndedPlan DEF Ends
  <2>6. Replies("recover")
    BY <1>1, <2>2, <2>5 DEF Replies, SaysOf
  <2>7. TransactionInv'
    BY <1>1, <1>2, <1>3, <2>1, <2>4, <2>6, EndStep DEF Ends
  <2>8. /\ \A s \in Edits(tx) : src[s].text # tx
        /\ \A x \in Creates(tx) : slot[x].ours \in {"none", "deleted"}
    BY <1>1, <2>4, GoneAll
  <2>9. ReceiptHolds'
    BY <1>1, <2>2, <2>8 DEF ReceiptHolds, SaysOf
  <2>10. QED
    BY <2>7, <2>9
<1>5. CASE plan.evidence = NoEvidence
  <2>1. /\ UNCHANGED <<plan, grant, receipt>>
        /\ work' = [Idle EXCEPT !.op = "recover", !.outs = [i \in Index(tx) |-> Outcome("", "", "")],
                                !.todo = Reverse([i \in Index(tx) |-> i])]
    BY <1>5 DEF Recover
  <2>2. QED
    BY <1>1, <1>2, <1>5, <2>1, RecoverStarts DEF studio
<1>6. QED
  BY <1>4, <1>5

-----------------------------------------------------------------------------
(* The end of apply and of recover                                         *)

LEMMA OverWork ==
  ASSUME TransactionInv, NEW op \in {"apply", "undo", "recover"}, Over(op)
  PROVE  /\ Busy /\ work.op = op /\ plan.tx \in Tx /\ \A i : ~Pending(i)
         /\ plan.evidence = NoEvidence
<1>1. /\ work.op = op /\ work.step = "next" /\ work.todo = <<>>
  BY DEF Over
<1>2. Busy /\ plan.tx \in Tx
  BY <1>1 DEF TransactionInv, WorkTypes, Busy
<1>3. \A i : ~Pending(i)
  BY <1>1 DEF Pending
<1>4. plan.evidence = NoEvidence
  BY <1>1, <1>2 DEF TransactionInv, WorkTypes, PlanTypes, Ends
<1>5. QED
  BY <1>1, <1>2, <1>3, <1>4

LEMMA AppliedStep ==
  ASSUME TransactionInv, Applied PROVE TransactionInv' /\ (receipt' # receipt => ReceiptHolds')
<1>1. /\ Over("apply") /\ Suffer({}, 0) /\ UNCHANGED <<src, slot, mode, hub, cause>>
      /\ plan' = Ended("applied", work.outs)
      /\ grant' = IF Creates(plan.tx) = {} THEN grant
                  ELSE [NoGrant EXCEPT !.tx = plan.tx, !.status = "authorized"]
      /\ Say("apply", plan.tx, "applied", work.outs, "")
  BY DEF Applied, studio
<1>2. /\ Busy /\ work.op = "apply" /\ plan.tx \in Tx /\ \A i : ~Pending(i)
      /\ plan.evidence = NoEvidence
  BY <1>1, OverWork
<1>3. \A i \in Index(plan.tx) : AsPlanned(i)
  BY <1>2 DEF TransactionInv, ApplyProgress
<1>4. SpentStep /\ CauseTyped
  BY <1>1, SufferStep DEF TransactionInv, StudioTypes, CauseTyped
<1>5. SaysOf("apply", "applied")
  BY <1>1 DEF Say, SaysOf
<1>6. PlanTypes' /\ plan'.tx = plan.tx /\ plan'.status = "applied" /\ plan'.read = plan.read
  BY <1>1, <1>2, <1>4, EndedPlan
<1>7. Replies("apply")
  BY <1>1, <1>2, <1>5, <1>6 DEF Replies, SaysOf
<1>8. HubTypes' /\ WorkTypes' /\ ApplyProgress' /\ RecoverProgress'
  BY <1>7, ReplyTypes DEF TransactionInv
<1>9. StudioTypes' /\ PlanGone'
  BY <1>1, <1>4, <1>6 DEF TransactionInv, StudioTypes, SpentStep, CauseTyped, Written, PlanGone, Ends
<1>10. \A x \in Creates(plan.tx) : slot[x].ours # "none" /\ (slot[x].ours = "exact" \/ x \in cause)
  <2> SUFFICES ASSUME NEW x \in Creates(plan.tx)
               PROVE  slot[x].ours # "none" /\ (slot[x].ours = "exact" \/ x \in cause)
    OBVIOUS
  <2>1. PICK i \in CreateIndex(plan.tx) : At(plan.tx, i) = x
    BY <1>2, EveryTarget
  <2>2. QED
    BY <1>3, <2>1 DEF AsPlanned, CreateIndex
<1>11. \A s \in Edits(plan.tx) : src[s].text = plan.tx \/ s \in cause
  <2> SUFFICES ASSUME NEW s \in Edits(plan.tx) PROVE src[s].text = plan.tx \/ s \in cause
    OBVIOUS
  <2>1. PICK i \in Index(plan.tx) : IsEdit(plan.tx, i) /\ At(plan.tx, i) = s
    BY <1>2, EveryTarget
  <2>2. QED
    BY <1>3, <2>1 DEF AsPlanned
<1>12. GrantTypes'
  <2>1. plan.tx \in spent.used
    BY <1>2, NamesDiffer DEF TransactionInv, PlanTypes
  <2>2. CASE Creates(plan.tx) = {}
    BY <1>1, <1>4, <1>6, <2>2 DEF TransactionInv, GrantTypes, SpentStep
  <2>3. CASE Creates(plan.tx) # {}
    <3>1. /\ DOMAIN grant' = {"tx", "status", "only", "old", "evidence"}
          /\ grant'.tx = plan.tx /\ grant'.status = "authorized"
      BY <1>1, <2>3 DEF NoGrant
    <3>2. QED
      BY <1>1, <1>4, <1>6, <1>10, <2>1, <3>1 DEF GrantTypes, SpentStep
  <2>4. QED
    BY <2>2, <2>3
<1>13. ReceiptHolds'
  BY <1>1, <1>5, <1>10, <1>11 DEF ReceiptHolds, SaysOf
<1>14. QED
  BY <1>6, <1>8, <1>9, <1>12, <1>13 DEF TransactionInv

(* What the last look finds in order is as it was before the plan.         *)
LEMMA CheckedGone ==
  ASSUME TransactionInv, plan.tx \in Tx, NEW i \in Index(plan.tx), DOMAIN work.outs = Index(plan.tx),
         OutShape(work.outs[i]), Checked(i).status # "recovery_required"
  PROVE  IF IsEdit(plan.tx, i) THEN Seen(plan.tx, i) = Prepared(plan.tx, i) ELSE GoneAt(i)
<1> DEFINE o == [work.outs[i] EXCEPT !.after = Seen(plan.tx, i)]
<1>1. OutShape(o)
  BY DEF OutShape
<1>2. Required(o).status = "recovery_required"
  BY <1>1, OutcomeShape
<1>3. CASE IsEdit(plan.tx, i)
  BY <1>2, <1>3 DEF Checked
<1>4. CASE ~IsEdit(plan.tx, i)
  <2>1. At(plan.tx, i) \in Slot
    BY <1>4, TargetKinds
  <2>2. slot[At(plan.tx, i)].ours = "none" \/ Observe(At(plan.tx, i)) = "absent"
    BY <1>2, <1>4 DEF Checked
  <2>3. slot[At(plan.tx, i)].ours \in {"none", "deleted"}
    BY <2>1, <2>2, AbsentIsGone DEF TransactionInv
  <2>4. QED
    BY <1>4, <2>3 DEF GoneAt
<1>5. QED
  BY <1>3, <1>4

LEMMA UndoneStep ==
  ASSUME TransactionInv, Undone PROVE TransactionInv' /\ (receipt' # receipt => ReceiptHolds')
<1> DEFINE outs == [i \in Index(plan.tx) |-> Checked(i)]
           outcome == IF Unrestored(outs) THEN "recovery_required" ELSE "rolled_back"
<1>1. /\ Over("undo") /\ Suffer({}, 0) /\ UNCHANGED <<src, mode, grant, hub, cause>>
      /\ plan' = Ended(outcome, outs) /\ Say("apply", plan.tx, outcome, outs, "")
      /\ slot' = slot \/ slot' = Untracked(slot, plan.tx)
  BY DEF Undone
<1>2. Busy /\ plan.tx \in Tx /\ plan.evidence = NoEvidence
  BY <1>1, OverWork
<1>3. SpentStep /\ CauseTyped
  BY <1>1, SufferStep DEF TransactionInv, StudioTypes, CauseTyped
<1>4. SlotsSame(slot') /\ GrantFrom(grant')
  BY <1>1, SlotsSameCases, GrantFromCases DEF TransactionInv
<1>5. outcome \in {"recovery_required", "rolled_back"}
  OBVIOUS
<1>6. outcome = "rolled_back" =>
        \A i \in Index(plan.tx) : IF IsEdit(plan.tx, i) THEN Seen(plan.tx, i) = Prepared(plan.tx, i)
                                  ELSE GoneAt(i)
  <2> SUFFICES ASSUME ~Unrestored(outs), NEW i \in Index(plan.tx)
               PROVE  IF IsEdit(plan.tx, i) THEN Seen(plan.tx, i) = Prepared(plan.tx, i) ELSE GoneAt(i)
    OBVIOUS
  <2>1. Checked(i).status # "recovery_required"
    BY DEF Unrestored
  <2>2. DOMAIN work.outs = Index(plan.tx) /\ OutShape(work.outs[i])
    BY <1>2 DEF TransactionInv, WorkTypes, OutShape
  <2>3. QED
    BY <1>2, <2>1, <2>2, CheckedGone
<1> HIDE DEF outs, outcome
<1>7. SaysOf("apply", outcome)
  BY <1>1 DEF Say, SaysOf
<1>8. plan'.tx = plan.tx /\ plan'.status = outcome /\ plan'.read = plan.read
  BY <1>1, <1>2, <1>3, <1>5, EndedPlan DEF Ends
<1>9. Replies("apply")
  BY <1>1, <1>2, <1>5, <1>7, <1>8 DEF Replies, SaysOf
<1>10. outcome = "rolled_back" =>
         /\ \A s \in Edits(plan.tx) : src[s].text = plan.read[s]
         /\ \A i \in Index(plan.tx) : GoneAt(i)
         /\ \A x \in Creates(plan.tx) : slot[x].ours \in {"none", "deleted"}
  BY <1>2, <1>6, RolledBackHolds
<1>11. TransactionInv'
  BY <1>1, <1>2, <1>3, <1>4, <1>5, <1>9, <1>10, EndStep DEF Ends
<1>12. ReceiptHolds'
  <2>1. \A x \in Creates(plan.tx) : x \in Slot /\ slot'[x].ours = slot[x].ours
    BY <1>4 DEF Creates, SlotsSame
  <2>2. QED
    BY <1>1, <1>5, <1>7, <1>8, <1>10, <2>1 DEF ReceiptHolds, SaysOf
<1>13. QED
  BY <1>11, <1>12

LEMMA RecoveredStep ==
  ASSUME TransactionInv, Recovered PROVE TransactionInv' /\ (receipt' # receipt => ReceiptHolds')
<1> DEFINE outs == work.outs
           outcome == IF Unrestored(outs) THEN "recovery_required" ELSE "recovered"
<1>1. /\ Over("recover") /\ Suffer({}, 0) /\ UNCHANGED <<src, mode, hub, cause>>
      /\ plan' = Ended(outcome, outs) /\ Say("recover", plan.tx, outcome, outs, "")
      /\ slot' = slot \/ slot' = Untracked(slot, plan.tx)
      /\ grant' = grant \/ grant' = GrantAfter(plan.tx)
  BY DEF Recovered
<1>2. /\ Busy /\ work.op = "recover" /\ plan.tx \in Tx /\ \A i : ~Pending(i)
      /\ plan.evidence = NoEvidence
  BY <1>1, OverWork
<1>3. SpentStep /\ CauseTyped
  BY <1>1, SufferStep DEF TransactionInv, StudioTypes, CauseTyped
<1>4. SlotsSame(slot') /\ GrantFrom(grant')
  BY <1>1, SlotsSameCases, GrantFromCases DEF TransactionInv
<1>5. outcome \in {"recovery_required", "recovered"}
  OBVIOUS
<1>6. outcome = "recovered" => \A i \in Index(plan.tx) : GoneAt(i)
  <2> SUFFICES ASSUME ~Unrestored(outs), NEW i \in Index(plan.tx) PROVE GoneAt(i)
    OBVIOUS
  <2>1. DOMAIN work.outs = Index(plan.tx)
    BY <1>2 DEF TransactionInv, WorkTypes
  <2>2. work.outs[i].status # "recovery_required"
    BY <2>1 DEF Unrestored
  <2>3. QED
    BY <1>2, <2>2 DEF TransactionInv, RecoverProgress
<1> HIDE DEF outs, outcome
<1>7. SaysOf("recover", outcome)
  BY <1>1 DEF Say, SaysOf
<1>8. plan'.tx = plan.tx /\ plan'.status = outcome /\ plan'.read = plan.read
  BY <1>1, <1>2, <1>3, <1>5, EndedPlan DEF Ends
<1>9. Replies("recover")
  BY <1>1, <1>2, <1>5, <1>7, <1>8 DEF Replies, SaysOf
<1>10. TransactionInv'
  BY <1>1, <1>2, <1>3, <1>4, <1>5, <1>6, <1>9, EndStep DEF Ends
<1>11. outcome = "recovered" => /\ \A s \in Edits(plan.tx) : src[s].text # plan.tx
                                /\ \A x \in Creates(plan.tx) : slot[x].ours \in {"none", "deleted"}
  BY <1>2, <1>6, GoneAll
<1>12. ReceiptHolds'
  <2>1. \A x \in Creates(plan.tx) : x \in Slot /\ slot'[x].ours = slot[x].ours
    BY <1>4 DEF Creates, SlotsSame
  <2>2. QED
    BY <1>1, <1>5, <1>7, <1>8, <1>11, <2>1 DEF ReceiptHolds, SaysOf
<1>13. QED
  BY <1>10, <1>12

-----------------------------------------------------------------------------
(* Cleanup                                                                 *)

(* A cleanup deletes, and otherwise leaves the creations as they are.      *)
SlotsSwept(slots) ==
  /\ SlotShape(slots)
  /\ \A x \in Slot : /\ slots[x].ours = slot[x].ours \/ slots[x].ours = "deleted"
                     /\ slots[x].home = slot[x].home /\ slots[x].foreign = slot[x].foreign
                     /\ slots[x].tracked \in BOOLEAN

LEMMA CleanupCommon ==
  ASSUME TransactionInv, UNCHANGED <<src, mode, plan>>, SpentStep, CauseTyped, work.op = "idle",
         Replies("cleanup"), SlotsSwept(slot'),
         DOMAIN grant' = {"tx", "status", "only", "old", "evidence"}, grant'.tx = grant.tx,
         grant'.status \in {"none", "authorized", "cleaned", "refused", "cleanup_required"},
         grant'.status = "cleaned" => \A x \in Creates(grant.tx) : slot'[x].ours = "deleted"
  PROVE  TransactionInv'
<1>1. StudioTypes'
  BY DEF TransactionInv, StudioTypes, SlotsSwept, CauseTyped, SpentStep, Written
<1>2. PlanTypes'
  BY DEF TransactionInv, PlanTypes, SpentStep, Written
<1>3. HubTypes' /\ WorkTypes' /\ ApplyProgress' /\ RecoverProgress'
  BY ReplyTypes DEF TransactionInv
<1>4. PlanGone'
  <2> SUFFICES ASSUME plan.status \in {"prepared"} \cup Ends, NEW i \in Index(plan.tx) PROVE GoneAt(i)'
    BY DEF PlanGone
  <2>1. plan.tx \in Tx
    BY PlanIsReal DEF TransactionInv, PlanTypes, Ends
  <2>2. GoneAt(i) /\ (~IsEdit(plan.tx, i) => At(plan.tx, i) \in Slot)
    BY <2>1, TargetKinds DEF TransactionInv, PlanGone
  <2>3. QED
    BY <2>2 DEF GoneAt, SlotsSwept
<1>5. GrantTypes'
  <2> SUFFICES ASSUME grant.tx # "none", NEW x \in Creates(grant.tx)
               PROVE  slot'[x].ours # "none" /\ (grant'.status = "cleaned" => slot'[x].ours = "deleted")
    BY DEF TransactionInv, GrantTypes, SpentStep
  <2>1. x \in Slot /\ slot[x].ours # "none"
    BY DEF Creates, TransactionInv, GrantTypes
  <2>2. QED
    BY <2>1 DEF SlotsSwept
<1>6. QED
  BY <1>1, <1>2, <1>3, <1>4, <1>5 DEF TransactionInv

(* The grant that a cleanup uses is the transaction's.                     *)
LEMMA UsableGrant ==
  ASSUME TransactionInv, NEW tx \in Tx, Usable(tx) PROVE grant.tx = tx
<1>1. Refreshed.tx = tx /\ NoGrant.tx # tx
  BY NamesDiffer DEF Usable, NoGrant
<1>2. [grant EXCEPT !.only = TRUE].tx = grant.tx
  BY DEF TransactionInv, GrantTypes
<1>3. QED
  BY <1>1, <1>2 DEF Refreshed

LEMMA CleanupAgainStep ==
  ASSUME TransactionInv, NEW tx \in Tx, CleanupAgain(tx)
  PROVE  TransactionInv' /\ (receipt' # receipt => ReceiptHolds')
<1>1. /\ UNCHANGED <<src, slot, mode, plan, grant, hub>> /\ Ask({}) /\ Usable(tx)
      /\ Say("cleanup", tx, grant.status, grant.evidence.outs, grant.status)
  BY DEF CleanupAgain, studio
<1>2. SpentStep /\ CauseTyped /\ work.op = "idle"
  BY <1>1, AskStep
<1>3. grant.tx = tx
  BY <1>1, UsableGrant
<1>4. /\ receipt'.tx = tx /\ receipt'.outcome = grant.status
      /\ work' = [Idle EXCEPT !.op = "cleanup", !.step = "reply"]
  BY <1>1 DEF Say
<1>5. Replies("cleanup")
  BY <1>1, <1>2, <1>4, IdlePlan DEF Replies
<1>6. grant.status = "cleaned" => \A x \in Creates(tx) : slot[x].ours = "deleted"
  BY <1>3, NamesDiffer DEF TransactionInv, GrantTypes
<1>7. TransactionInv'
  <2>1. SlotsSwept(slot')
    BY <1>1 DEF SlotsSwept, TransactionInv, StudioTypes
  <2>2. QED
    BY <1>1, <1>2, <1>3, <1>5, <1>6, <2>1, CleanupCommon DEF TransactionInv, GrantTypes
<1>8. grant.status \in {"none", "authorized", "cleaned", "refused", "cleanup_required"}
  BY DEF TransactionInv, GrantTypes
<1>9. ReceiptHolds'
  BY <1>1, <1>4, <1>6, <1>8 DEF ReceiptHolds
<1>10. QED
  BY <1>7, <1>9

(* A cleanup that reports all clean has deleted every creation now, or     *)
(* found it gone.                                                          *)
LEMMA CleanupEndsStep ==
  ASSUME TransactionInv, NEW tx \in Tx, grant.tx = tx, UNCHANGED <<src, mode, plan, hub>>,
         SpentStep, CauseTyped, work.op = "idle", NEW outcome, NEW outs, NEW only, NEW old,
         outcome \in {"cleaned", "refused", "cleanup_required"}, DOMAIN outs = CreateIndex(tx),
         outcome = "cleaned" =>
           \A i \in CreateIndex(tx) : outs[i].status = "deleted" \/ slot[At(tx, i)].ours = "deleted",
         CleanupEnds(tx, outcome, outs, only, old)
  PROVE  TransactionInv' /\ ReceiptHolds'
<1> DEFINE gone(x) == \E i \in DOMAIN outs : At(tx, i) = x /\ outs[i].status = "deleted"
           kept == [x \in Slot |-> IF gone(x) THEN [slot[x] EXCEPT !.ours = "deleted"] ELSE slot[x]]
<1>1. /\ slot' = kept \/ slot' = Untracked(kept, tx)
      /\ Say("cleanup", tx, outcome, outs, "")
      /\ grant' = [grant EXCEPT !.status = outcome, !.only = only, !.old = old <= Never(tx) - 1,
                                !.evidence = IF outcome = "cleanup_required" THEN @
                                             ELSE [outcome |-> outcome, outs |-> outs]]
  BY DEF CleanupEnds
<1>2. SlotShape(kept) /\ \A x \in Slot : /\ gone(x) => kept[x].ours = "deleted"
                                         /\ ~gone(x) => kept[x].ours = slot[x].ours
                                         /\ kept[x].home = slot[x].home /\ kept[x].foreign = slot[x].foreign
                                         /\ kept[x].tracked = slot[x].tracked
  BY DEF TransactionInv, StudioTypes, SlotShape
<1> HIDE DEF kept
<1>3. /\ SlotShape(slot')
      /\ \A x \in Slot : /\ slot'[x].ours = kept[x].ours /\ slot'[x].home = kept[x].home
                         /\ slot'[x].foreign = kept[x].foreign
                         /\ slot'[x].tracked \in {kept[x].tracked, FALSE}
  <2>1. CASE slot' = kept
    BY <1>2, <2>1
  <2>2. CASE slot' = Untracked(kept, tx)
    BY <1>2, <2>2 DEF SlotShape, Untracked
  <2>3. QED
    BY <1>1, <2>1, <2>2
<1>4. SlotsSwept(slot')
  <2>1. \A x \in Slot : slot[x].tracked \in BOOLEAN
    BY DEF TransactionInv, StudioTypes
  <2>2. QED
    BY <1>2, <1>3, <2>1 DEF SlotsSwept
<1>5. outcome = "cleaned" => \A x \in Creates(tx) : slot'[x].ours = "deleted"
  <2> SUFFICES ASSUME outcome = "cleaned", NEW x \in Creates(tx) PROVE slot'[x].ours = "deleted"
    OBVIOUS
  <2>1. PICK i \in CreateIndex(tx) : At(tx, i) = x
    BY EveryTarget
  <2>2. x \in Slot
    BY DEF Creates
  <2>3. gone(x) \/ slot[x].ours = "deleted"
    BY <2>1
  <2>4. QED
    BY <1>2, <1>3, <2>2, <2>3
<1>6. /\ DOMAIN grant' = {"tx", "status", "only", "old", "evidence"}
      /\ grant'.tx = tx /\ grant'.status = outcome
  BY <1>1 DEF TransactionInv, GrantTypes
<1>7. /\ receipt'.tx = tx /\ receipt'.outcome = outcome
      /\ work' = [Idle EXCEPT !.op = "cleanup", !.step = "reply"]
  BY <1>1 DEF Say
<1>8. Replies("cleanup")
  BY <1>7, IdlePlan DEF Replies
<1>9. TransactionInv'
  BY <1>4, <1>5, <1>6, <1>8, CleanupCommon
<1>10. ReceiptHolds'
  BY <1>5, <1>7 DEF ReceiptHolds
<1>11. QED
  BY <1>9, <1>10

LEMMA InspectedAbsent ==
  ASSUME NEW tx, NEW i, NEW late, NEW old, Inspected(tx, i, late, old).status = "already_absent"
  PROVE  Observe(At(tx, i)) = "absent"
BY DEF Inspected, Outcome

LEMMA CleanupRunStep ==
  ASSUME TransactionInv, NEW tx \in Tx, grant.tx = tx, NEW late, NEW old, NEW bad,
         CleanupRun(tx, late, old, bad), UNCHANGED <<src, mode, plan, hub>>
  PROVE  TransactionInv' /\ ReceiptHolds'
<1> DEFINE pre == [i \in CreateIndex(tx) |-> Inspected(tx, i, late, old)]
           expired == \E i \in DOMAIN pre : pre[i].status = "cleanup_required"
           conflict == \E i \in DOMAIN pre : pre[i].status = "preserved_conflict"
           failing == {i \in DOMAIN pre :
                         /\ pre[i].status # "already_absent"
                         /\ i = bad \/ late <= Before(tx, i) \/ old <= Before(tx, i) + 1}
           stop == IF failing = {} THEN 0 ELSE CHOOSE i \in failing : \A j \in failing : j <= i
           closed == [i \in DOMAIN pre |-> IF pre[i].status = "not_deleted"
                                           THEN [pre[i] EXCEPT !.status = "cleanup_required"] ELSE pre[i]]
           faults == (IF late < Never(tx) THEN {"late"} ELSE {})
                       \cup (IF old < Never(tx) THEN {"old"} ELSE {})
                       \cup IF bad # 0 THEN {"editor"} ELSE {}
           swept == Swept(tx, pre, stop, late, old)
           verdict == IF failing = {} THEN "cleaned" ELSE "cleanup_required"
           only == failing # {} /\ old <= Before(tx, stop) + 1
           yes == TRUE
           no == FALSE
<1>1. SpentStep /\ CauseTyped /\ work.op = "idle"
  <2>1. Ask(faults)
    BY DEF CleanupRun
  <2>2. faults \subseteq {"late", "editor", "old", "mode"}
    OBVIOUS
  <2> HIDE DEF faults
  <2>3. QED
    BY <2>1, <2>2, AskStep
<1>2. /\ expired => CleanupEnds(tx, "cleanup_required", closed, yes, old)
      /\ ~expired /\ conflict => CleanupEnds(tx, "refused", pre, no, old)
      /\ ~expired /\ ~conflict => CleanupEnds(tx, verdict, swept, only, old)
  BY DEF CleanupRun
<1>3. /\ DOMAIN pre = CreateIndex(tx) /\ DOMAIN closed = CreateIndex(tx)
      /\ DOMAIN swept = CreateIndex(tx)
  BY DEF Swept
<1>4. verdict = "cleaned" =>
        \A i \in CreateIndex(tx) : swept[i].status = "deleted" \/ slot[At(tx, i)].ours = "deleted"
  <2> SUFFICES ASSUME failing = {}, NEW i \in CreateIndex(tx)
               PROVE  swept[i].status = "deleted" \/ slot[At(tx, i)].ours = "deleted"
    OBVIOUS
  <2>1. i \in Index(tx) /\ ~IsEdit(tx, i)
    BY DEF CreateIndex
  <2>2. At(tx, i) \in Creates(tx) /\ At(tx, i) \in Slot
    BY <2>1, TargetKinds
  <2>3. CASE pre[i].status = "already_absent"
    <3>1. Observe(At(tx, i)) = "absent"
      BY <2>3, InspectedAbsent
    <3>2. slot[At(tx, i)].ours \in {"none", "deleted"}
      BY <2>2, <3>1, AbsentIsGone
    <3>3. slot[At(tx, i)].ours # "none"
      BY <2>2, NamesDiffer DEF TransactionInv, GrantTypes
    <3>4. QED
      BY <3>2, <3>3
  <2>4. CASE pre[i].status # "already_absent"
    <3>1. stop = 0
      OBVIOUS
    <3>2. i > 0
      BY <2>1 DEF Index
    <3> HIDE DEF pre, stop
    <3>3. swept[i] = Outcome("created_exact", "absent", "deleted")
      BY <2>4, <3>1, <3>2 DEF Swept
    <3>4. QED
      BY <3>3 DEF Outcome
  <2>5. QED
    BY <2>3, <2>4
<1>5. verdict \in {"cleaned", "cleanup_required"}
  OBVIOUS
<1> HIDE DEF pre, expired, conflict, failing, stop, closed, swept, verdict, only, yes, no
<1>6. CASE expired
  BY <1>1, <1>2, <1>3, <1>6, CleanupEndsStep
<1>7. CASE ~expired /\ conflict
  BY <1>1, <1>2, <1>3, <1>7, CleanupEndsStep
<1>8. CASE ~expired /\ ~conflict
  BY <1>1, <1>2, <1>3, <1>4, <1>5, <1>8, CleanupEndsStep
<1>9. QED
  BY <1>6, <1>7, <1>8

LEMMA CleanupStep ==
  ASSUME TransactionInv, NEW tx \in Tx, Cleanup(tx)
  PROVE  TransactionInv' /\ (receipt' # receipt => ReceiptHolds')
<1>1. UNCHANGED <<src, mode, plan, hub>> /\ grant.tx = tx
  BY UsableGrant DEF Cleanup
<1>2. PICK late, old \in 1..Never(tx), bad \in CreateIndex(tx) \cup {0} : CleanupRun(tx, late, old, bad)
  BY DEF Cleanup
<1>3. QED
  BY <1>1, <1>2, CleanupRunStep

-----------------------------------------------------------------------------
(* Every step                                                              *)

LEMMA TransactionInit == Init => TransactionInv
<1> SUFFICES ASSUME Init PROVE TransactionInv
  OBVIOUS
<1>1. StudioTypes
  BY DEF Init, StudioTypes, ScriptShape, SlotShape, SpentShape, Written
<1>2. HubTypes /\ PlanTypes /\ PlanGone /\ WorkTypes /\ ApplyProgress /\ RecoverProgress
  BY DEF Init, HubTypes, PlanTypes, PlanGone, WorkTypes, ApplyProgress, RecoverProgress, Busy, Idle,
         NoPlan, Ends
<1>3. GrantTypes
  BY DEF Init, GrantTypes, NoGrant, NoPlan
<1>4. QED
  BY <1>1, <1>2, <1>3 DEF TransactionInv

LEMMA StutterStep == ASSUME TransactionInv, UNCHANGED vars PROVE TransactionInv' /\ receipt' = receipt
BY DEF vars, TransactionInv, StudioTypes, HubTypes, PlanTypes, PlanGone, WorkTypes, ApplyProgress,
       RecoverProgress, GrantTypes, Busy, Written, GoneAt, AsPlanned, Pending

LEMMA TransactionStep ==
  ASSUME TransactionInv, [Next]_vars
  PROVE  TransactionInv' /\ (receipt' # receipt => ReceiptHolds')
<1>1. CASE Request
  <2>1. PICK tx \in Tx : \/ Prepare(tx) \/ PrepareRefused(tx) \/ Apply(tx) \/ ApplyRefused(tx)
                         \/ Recover(tx) \/ Cleanup(tx) \/ CleanupAgain(tx) \/ CleanupRefused(tx)
    BY <1>1 DEF Request
  <2>2. CASE Prepare(tx) \/ PrepareRefused(tx) \/ ApplyRefused(tx) \/ CleanupRefused(tx)
    BY <2>2, PrepareStep, PrepareRefusedStep, ApplyRefusedStep, CleanupRefusedStep
  <2>3. CASE Apply(tx) \/ Recover(tx)
    BY <2>3, ApplyStep, RecoverStep
  <2>4. CASE Cleanup(tx) \/ CleanupAgain(tx)
    BY <2>4, CleanupStep, CleanupAgainStep
  <2>5. QED
    BY <2>1, <2>2, <2>3, <2>4
<1>2. ASSUME NEW i, \/ TooLate(i) \/ EditTarget(i) \/ Update(i) \/ Confirm(i)
                    \/ CreateTarget(i) \/ RemoveTarget(i)
      PROVE  TransactionInv' /\ (receipt' # receipt => ReceiptHolds')
  <2>1. receipt' = receipt
    BY <1>2 DEF TooLate, EditTarget, Update, Confirm, CreateTarget, RemoveTarget
  <2>2. TransactionInv'
    BY <1>2, TooLateStep, EditTargetStep, UpdateStep, ConfirmStep, CreateTargetStep, RemoveTargetStep
  <2>3. QED
    BY <2>1, <2>2
<1>3. CASE Working
  BY <1>2, <1>3, AppliedStep, UndoneStep, RecoveredStep, AnswerStep DEF Working
<1>4. CASE User
  BY <1>4, UserStep
<1>5. CASE GiveUp \/ GrantExpires \/ HubExpires
  BY <1>5, GiveUpStep, GrantExpiresStep, HubExpiresStep
<1>6. CASE UNCHANGED vars
  BY <1>6, StutterStep
<1>7. QED
  BY <1>1, <1>3, <1>4, <1>5, <1>6 DEF Next

(* The invariant holds however the requests, the faults and the user's     *)
(* steps fall between one another.                                         *)
THEOREM TransactionInvariant == Spec => []TransactionInv
<1>1. Init => TransactionInv
  BY TransactionInit
<1>2. TransactionInv /\ [Next]_vars => TransactionInv'
  BY TransactionStep
<1>3. QED
  BY <1>1, <1>2, PTL DEF Spec

(* Every status is one that the plugin or the session knows, and a plan is *)
(* being applied only while the plugin works on it                         *)
(* (durable_operation_handlers.luau:5880).                                 *)
THEOREM TransactionTypes == Spec => []TypeOK
<1>1. TransactionInv => TypeOK
  <2> SUFFICES ASSUME TransactionInv PROVE TypeOK
    OBVIOUS
  <2>1. /\ \A s \in Script : src[s].text \in Text \ {""} /\ src[s].at \in BOOLEAN
        /\ \A x \in Slot : /\ slot[x].ours \in {"none", "exact", "dirty", "moved", "deleted"}
                           /\ {slot[x].foreign, slot[x].home, slot[x].tracked} \subseteq BOOLEAN
        /\ mode \in {"edit", "play"}
        /\ cause \subseteq Script \cup Slot \cup {"late", "editor", "old", "mode"}
    BY NamesDiffer DEF TransactionInv, StudioTypes, Written, Text
  <2>2. /\ plan.tx \in Tx \cup {"none"} /\ grant.tx \in Tx \cup {"none"}
        /\ plan.status \in {"none", "prepared", "applying", "applied", "aborted_preflight",
                            "rolled_back", "recovery_required", "recovered"}
        /\ grant.status \in {"none", "authorized", "cleaned", "refused", "cleanup_required"}
    BY DEF TransactionInv, StudioTypes, PlanTypes, GrantTypes, Ends
  <2>3. /\ work.op \in {"idle", "apply", "undo", "recover", "cleanup"}
        /\ work.step \in {"next", "cas", "confirm", "reply"}
        /\ plan.status = "applying" => work.op \in {"apply", "undo", "recover"}
        /\ {hub.ready, hub.fence, hub.cleanup} \subseteq Tx \cup {"none"}
        /\ {hub.owing, hub.over} \subseteq BOOLEAN
    BY DEF TransactionInv, WorkTypes, HubTypes
  <2>4. QED
    BY <2>1, <2>2, <2>3 DEF TypeOK
<1>2. QED
  BY <1>1, TransactionInvariant, PTL

(* What a receipt says is so in Studio when the plugin makes it: applied   *)
(* is applied but for what the user has touched since, taken back is gone, *)
(* a rollback is as prepared, and cleaned up is deleted                    *)
(* (durable_operation_handlers.luau:5880, 6200, 6454).                     *)
THEOREM TransactionReceiptIsTrue == Spec => ReceiptIsTrue
<1>1. TransactionInv /\ [Next]_vars => [receipt' # receipt => ReceiptHolds']_vars
  BY TransactionStep
<1>2. QED
  BY <1>1, TransactionInvariant, PTL DEF Spec, ReceiptIsTrue
=============================================================================

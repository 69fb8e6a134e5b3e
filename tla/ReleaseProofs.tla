----------------------------- MODULE ReleaseProofs -----------------------------
(***************************************************************************)
(* Proofs about Release, for any managers, releases, imports and any       *)
(* number of commands, snapshots and faults.  A manager that holds the     *)
(* update lock has a program to run; what holds at a position of it is     *)
(* said by how many steps are left.                                        *)
(***************************************************************************)
EXTENDS Release, TLAPS

-----------------------------------------------------------------------------
(* Types: what each file may hold, with n snapshots taken                  *)

Fields == Owned \cup {"retained"}
Quads == Catalogs \X Catalogs \X Catalogs \X Catalogs
Receipts(n) == {NoReceipt} \cup [prev : Versions, cur : Versions, snap : 1..n]
Kind(f, n) ==
  CASE f \in {"cat", "up", "catArt", "upArt"} -> Catalogs
    [] f \in {"compat", "plugArt", "bin", "plugin"} -> Contents
    [] f = "settings" -> 0..1
    [] f = "block" -> 0..2
    [] f = "own" -> OwnType
    [] f = "receipt" -> Receipts(n)
    [] f = "imports" -> SUBSET Quads
    [] f = "retained" -> SUBSET Versions

FilesTyped(d, n) == \A f \in Owned : d[f] \in Kind(f, n)
DiskTyped == DOMAIN disk = Fields /\ \A f \in Fields : disk[f] \in Kind(f, Len(snaps))
IsSequence(q) == q \in Seq({q[i] : i \in DOMAIN q})
SnapsTyped ==
  /\ IsSequence(snaps) /\ Len(snaps) \in Nat /\ DOMAIN snaps = 1..Len(snaps)
  /\ \A n \in DOMAIN snaps : DOMAIN snaps[n] = Owned /\ FilesTyped(snaps[n], Len(snaps))
MarkTyped ==
  /\ DOMAIN mark = DOMAIN NoMark /\ mark.snap \in 0..Len(snaps)
  /\ {mark.prev, mark.new} \subseteq Versions \cup {0}
  /\ Pending => {mark.prev, mark.new} \subseteq Versions
BrokerTyped ==
  /\ DOMAIN broker = {"up", "serves", "busy"}
  /\ broker.up \in BOOLEAN /\ broker.busy \in BOOLEAN /\ broker.serves \in Catalogs

ManagerTyped(m) ==
  LET me == mgr[m] IN
  /\ DOMAIN me = DOMAIN Idle /\ me.pc \in {"idle", "ask", "run"}
  /\ me.pc # "idle" => /\ me.cmd \in CommandNames /\ me.ver \in Versions /\ me.arg \in Imports \cup {0}
                       /\ me.saw \in BOOLEAN /\ (me.saw => me.cmd = "repair")
                       /\ me.cmd = "rollback" => me.seen # 0 \/ me.pc = "run"
  /\ me.pc = "ask" => me.stage = "plain"
  /\ me.pc = "run" <=> lock = m

-----------------------------------------------------------------------------
(* Control: the program of the command that holds the lock                 *)

Steps ==
  {"config-", "config+", "artifacts-", "artifacts+", "state-", "state+", "bin+", "block+", "plugin+",
   "retain", "settings", "cat", "catArt", "up", "upArt", "compat", "keepUpArt", "keepUp",
   "keepCatArt", "keepCat", "plugArt", "plugin", "bin", "block", "own", "stopPrior", "version",
   "doctor", "clear", "capture", "begin", "preflight", "stop", "recheck", "receipt", "review",
   "importUp", "importCat", "note", "mirrorCat", "mirrorUp", "ownCat", "start", "prove", "match",
   "undoUp", "undoCat", "undoCatArt", "undoUpArt", "undoOwn", "try", "backUp", "backCat", "unblock",
   "unplug", "unroot"}

StopInstall == <<"stop">> \o InstallSteps(FALSE)

(* What is left of a program.                                              *)
Left(me) == Len(me.todo)
IsLeft(q, program) ==
  /\ q \in Seq(Steps) /\ Len(q) <= Len(program)
  /\ \A i \in 1..Len(q) : q[i] = program[Len(program) - Len(q) + i]
On(me, program) == IsLeft(me.todo, program)
Snap(n) == n \in 1..Len(snaps)
SameCatalog(d) == d.cat = disk.cat /\ d.up = disk.up /\ d.imports = disk.imports

Updating(me) ==
  /\ me.cmd = "update" /\ On(me, UpdateSteps)
  /\ \/ me.stage = "plain" /\ Left(me) = 20
     \/ me.stage = "plain" /\ Left(me) = 19 /\ Len(snaps) > 0 /\ disk.own.ver # 0
     \/ me.stage = "marked" /\ Left(me) \in 1..18 /\ Pending
     \/ me.stage = "marked" /\ Left(me) = 0
RollingBack(me) ==
  /\ me.cmd = "rollback" /\ On(me, RollbackSteps) /\ Snap(me.from)
  /\ \/ me.stage = "plain" /\ Left(me) = 16
     \/ me.stage = "plain" /\ Left(me) = 15 /\ disk.own.ver # 0
     \/ me.stage = "marked" /\ Left(me) = 14 /\ Pending
     \/ me.stage = "restoring" /\ Left(me) \in 1..13 /\ Pending
     \/ me.stage = "restoring" /\ Left(me) = 0
Recovering(me) ==
  /\ me.cmd = "repair" /\ me.saw /\ On(me, RecoverSteps)
  /\ me.stage = IF Left(me) >= 12 THEN "plain" ELSE "writing"
  /\ Snap(me.from) /\ (Left(me) # 0 => Pending /\ me.from = mark.snap)
Installing(me) ==
  /\ me.cmd \in {"install", "repair"} /\ ~me.saw /\ On(me, StopInstall)
  /\ me.stage = IF Left(me) >= 12 THEN "plain" ELSE "writing"
Importing(me) ==
  /\ me.cmd = "import" /\ On(me, ImportSteps)
  /\ \/ me.stage = "plain" /\ Left(me) = 10
     \/ me.stage = "stopped" /\ Left(me) = 9
     \/ me.stage = "importing" /\ Left(me) \in 6..8
     \/ me.stage = "imported" /\ Left(me) \in 0..5
RestoringImport(me) ==
  /\ me.cmd = "catalog_rollback" /\ On(me, CatalogBackSteps)
  /\ \/ me.stage = "plain" /\ Left(me) = 9
     \/ me.stage = "stopped" /\ Left(me) = 8 /\ SameCatalog(me.before)
     \/ me.stage = "stopped" /\ Left(me) \in 0..7 /\ Matching(me.before) # {}
Uninstalling(me) ==
  /\ me.cmd = "uninstall" /\ On(me, UninstallSteps)
  /\ me.stage = IF Left(me) >= 3 THEN "plain" ELSE "writing"
TakingBack(me) ==
  /\ me.stage = "undoing"
  /\ \/ /\ me.cmd \in {"update", "rollback"} /\ On(me, UndoSwitch) /\ Snap(me.from)
        /\ Left(me) # 0 => Pending /\ me.from = mark.snap
     \/ me.cmd = "import" /\ (On(me, ImportUndo) \/ On(me, ImportUndoEarly))
     \/ me.cmd = "catalog_rollback" /\ On(me, CatalogBackUndo)

Working(me) ==
  /\ \A f \in Owned \ {"receipt"} : me.before[f] \in Kind(f, 0)
  /\ \/ Updating(me) \/ RollingBack(me) \/ Recovering(me) \/ Installing(me) \/ Importing(me)
     \/ RestoringImport(me) \/ Uninstalling(me) \/ TakingBack(me)

ControlInv ==
  /\ DiskTyped /\ SnapsTyped /\ MarkTyped /\ BrokerTyped
  /\ lock \in Manager \cup {"free"} /\ DOMAIN mgr = Manager
  /\ \A m \in Manager : ManagerTyped(m) /\ (lock = m => Working(mgr[m]))

-----------------------------------------------------------------------------
(* Programs, position by position                                          *)

LEMMA RestoreTable ==
  /\ Len(RestoreSteps) = 9 /\ DOMAIN RestoreSteps = 1..9
  /\ {RestoreSteps[k] : k \in DOMAIN RestoreSteps}
       = {"config-", "config+", "artifacts-", "artifacts+", "state-", "state+", "bin+", "block+",
          "plugin+"}
BY DEF RestoreSteps

LEMMA UpdateTable ==
  /\ UpdateSteps \in Seq(Steps) /\ Len(UpdateSteps) = 20
  /\ UpdateSteps[1] = "capture" /\ UpdateSteps[2] = "begin" /\ UpdateSteps[3] = "preflight"
  /\ UpdateSteps[4] = "stop" /\ UpdateSteps[5] = "recheck" /\ UpdateSteps[6] = "retain"
  /\ UpdateSteps[7] = "settings" /\ UpdateSteps[8] = "cat" /\ UpdateSteps[9] = "catArt"
  /\ UpdateSteps[10] = "up" /\ UpdateSteps[11] = "upArt" /\ UpdateSteps[12] = "compat"
  /\ UpdateSteps[13] = "plugArt" /\ UpdateSteps[14] = "plugin" /\ UpdateSteps[15] = "bin"
  /\ UpdateSteps[16] = "block" /\ UpdateSteps[17] = "own" /\ UpdateSteps[18] = "doctor"
  /\ UpdateSteps[19] = "receipt" /\ UpdateSteps[20] = "clear"
BY DEF UpdateSteps, InstallSteps, Steps

LEMMA UndoTable ==
  /\ UndoSwitch \in Seq(Steps) /\ Len(UndoSwitch) = 11
  /\ UndoSwitch[1] = "config-" /\ UndoSwitch[2] = "config+" /\ UndoSwitch[3] = "artifacts-"
  /\ UndoSwitch[4] = "artifacts+" /\ UndoSwitch[5] = "state-" /\ UndoSwitch[6] = "state+"
  /\ UndoSwitch[7] = "bin+" /\ UndoSwitch[8] = "block+" /\ UndoSwitch[9] = "plugin+"
  /\ UndoSwitch[10] = "doctor" /\ UndoSwitch[11] = "clear"
BY DEF UndoSwitch, RestoreSteps, Steps

LEMMA RollbackTable ==
  /\ RollbackSteps \in Seq(Steps) /\ Len(RollbackSteps) = 16
  /\ RollbackSteps[1] = "capture" /\ RollbackSteps[2] = "begin" /\ RollbackSteps[3] = "stop"
  /\ RollbackSteps[4] = "config-" /\ RollbackSteps[5] = "config+"
  /\ RollbackSteps[6] = "artifacts-" /\ RollbackSteps[7] = "artifacts+"
  /\ RollbackSteps[8] = "state-" /\ RollbackSteps[9] = "state+" /\ RollbackSteps[10] = "bin+"
  /\ RollbackSteps[11] = "block+" /\ RollbackSteps[12] = "plugin+"
  /\ RollbackSteps[13] = "version" /\ RollbackSteps[14] = "doctor"
  /\ RollbackSteps[15] = "receipt" /\ RollbackSteps[16] = "clear"
BY DEF RollbackSteps, RestoreSteps, Steps

LEMMA RecoverTable ==
  /\ RecoverSteps \in Seq(Steps) /\ Len(RecoverSteps) = 13
  /\ RecoverSteps[1] = "stopPrior" /\ RecoverSteps[2] = "config-" /\ RecoverSteps[3] = "config+"
  /\ RecoverSteps[4] = "artifacts-" /\ RecoverSteps[5] = "artifacts+"
  /\ RecoverSteps[6] = "state-" /\ RecoverSteps[7] = "state+" /\ RecoverSteps[8] = "bin+"
  /\ RecoverSteps[9] = "block+" /\ RecoverSteps[10] = "plugin+" /\ RecoverSteps[11] = "version"
  /\ RecoverSteps[12] = "doctor" /\ RecoverSteps[13] = "clear"
BY DEF RecoverSteps, RestoreSteps, Steps

LEMMA InstallTable ==
  /\ StopInstall \in Seq(Steps) /\ Len(StopInstall) = 13
  /\ StopInstall[1] = "stop" /\ StopInstall[2] = "retain" /\ StopInstall[3] = "settings"
  /\ StopInstall[4] = "compat" /\ StopInstall[5] = "keepUpArt" /\ StopInstall[6] = "keepUp"
  /\ StopInstall[7] = "keepCatArt" /\ StopInstall[8] = "keepCat" /\ StopInstall[9] = "plugArt"
  /\ StopInstall[10] = "plugin" /\ StopInstall[11] = "bin" /\ StopInstall[12] = "block"
  /\ StopInstall[13] = "own"
BY DEF StopInstall, InstallSteps, Steps

LEMMA ImportTable ==
  /\ ImportSteps \in Seq(Steps) /\ Len(ImportSteps) = 10
  /\ ImportSteps[1] = "stop" /\ ImportSteps[2] = "review" /\ ImportSteps[3] = "importUp"
  /\ ImportSteps[4] = "importCat" /\ ImportSteps[5] = "note" /\ ImportSteps[6] = "mirrorCat"
  /\ ImportSteps[7] = "mirrorUp" /\ ImportSteps[8] = "ownCat" /\ ImportSteps[9] = "start"
  /\ ImportSteps[10] = "prove"
BY DEF ImportSteps, Steps

LEMMA ImportUndoTable ==
  /\ ImportUndo \in Seq(Steps) /\ Len(ImportUndo) = 8
  /\ ImportUndo[1] = "stop" /\ ImportUndo[2] = "match" /\ ImportUndo[3] = "undoUp"
  /\ ImportUndo[4] = "undoCat" /\ ImportUndo[5] = "mirrorCat" /\ ImportUndo[6] = "mirrorUp"
  /\ ImportUndo[7] = "undoOwn" /\ ImportUndo[8] = "try"
  /\ ImportUndoEarly \in Seq(Steps) /\ Len(ImportUndoEarly) = 3
  /\ ImportUndoEarly[1] = "undoUp" /\ ImportUndoEarly[2] = "undoCat" /\ ImportUndoEarly[3] = "try"
BY DEF ImportUndo, ImportUndoEarly, Steps

LEMMA CatalogBackTable ==
  /\ CatalogBackSteps \in Seq(Steps) /\ Len(CatalogBackSteps) = 9
  /\ CatalogBackSteps[1] = "stop" /\ CatalogBackSteps[2] = "match"
  /\ CatalogBackSteps[3] = "backUp" /\ CatalogBackSteps[4] = "backCat"
  /\ CatalogBackSteps[5] = "mirrorCat" /\ CatalogBackSteps[6] = "mirrorUp"
  /\ CatalogBackSteps[7] = "ownCat" /\ CatalogBackSteps[8] = "start"
  /\ CatalogBackSteps[9] = "prove"
  /\ CatalogBackUndo \in Seq(Steps) /\ Len(CatalogBackUndo) = 8
  /\ CatalogBackUndo[1] = "stop" /\ CatalogBackUndo[2] = "undoCat" /\ CatalogBackUndo[3] = "undoUp"
  /\ CatalogBackUndo[4] = "undoCatArt" /\ CatalogBackUndo[5] = "undoUpArt"
  /\ CatalogBackUndo[6] = "undoOwn" /\ CatalogBackUndo[7] = "start" /\ CatalogBackUndo[8] = "prove"
BY DEF CatalogBackSteps, CatalogBackUndo, Steps

LEMMA UninstallTable ==
  /\ UninstallSteps \in Seq(Steps) /\ Len(UninstallSteps) = 4
  /\ UninstallSteps[1] = "stop" /\ UninstallSteps[2] = "unblock" /\ UninstallSteps[3] = "unplug"
  /\ UninstallSteps[4] = "unroot"
BY DEF UninstallSteps, Steps

(* The next step, and what is left after it.                               *)
LEMMA NextStep ==
  ASSUME NEW program \in Seq(Steps), NEW q, IsLeft(q, program), q # <<>>
  PROVE  /\ Len(q) \in 1..Len(program) /\ Head(q) = program[Len(program) - Len(q) + 1]
         /\ Head(q) \in Steps
         /\ IsLeft(Tail(q), program) /\ Len(Tail(q)) = Len(q) - 1
<1>1. /\ q \in Seq(Steps) /\ Len(q) \in Nat /\ Len(q) > 0 /\ Len(program) \in Nat
      /\ Len(q) <= Len(program)
  BY DEF IsLeft
<1>2. Head(q) = q[1] /\ q[1] = program[Len(program) - Len(q) + 1] /\ q[1] \in Steps
  BY <1>1 DEF IsLeft
<1>3. Tail(q) \in Seq(Steps) /\ Len(Tail(q)) = Len(q) - 1
  BY <1>1
<1>4. \A i \in 1..Len(Tail(q)) : Tail(q)[i] = q[i + 1]
  BY <1>1, <1>3
<1>5. \A i \in 1..Len(Tail(q)) : Tail(q)[i] = program[Len(program) - Len(Tail(q)) + i]
  <2> SUFFICES ASSUME NEW i \in 1..Len(Tail(q))
               PROVE  Tail(q)[i] = program[Len(program) - Len(Tail(q)) + i]
    OBVIOUS
  <2>1. i + 1 \in 1..Len(q) /\ Len(program) - Len(q) + (i + 1) = Len(program) - Len(Tail(q)) + i
    BY <1>1, <1>3
  <2>2. q[i + 1] = program[Len(program) - Len(q) + (i + 1)]
    BY <2>1 DEF IsLeft
  <2>3. QED
    BY <1>4, <2>1, <2>2
<1>6. QED
  BY <1>1, <1>2, <1>3, <1>5 DEF IsLeft

LEMMA AllLeft ==
  ASSUME NEW program \in Seq(Steps) PROVE IsLeft(program, program)
BY DEF IsLeft

(* Programs that are the end of others.                                    *)
LEMMA EndsOfPrograms ==
  /\ IsLeft(InstallSteps(FALSE), StopInstall) /\ Len(InstallSteps(FALSE)) = 12
  /\ IsLeft(<<"clear">>, UndoSwitch) /\ IsLeft(<<"try">>, ImportUndo)
<1>1. IsLeft(<<"clear">>, UndoSwitch)
  BY UndoTable DEF IsLeft, Steps
<1>2. IsLeft(<<"try">>, ImportUndo)
  BY ImportUndoTable DEF IsLeft, Steps
<1>3. /\ InstallSteps(FALSE) \in Seq(Steps) /\ Len(InstallSteps(FALSE)) = 12
      /\ \A i \in 1..12 : InstallSteps(FALSE)[i] = StopInstall[1 + i]
  BY DEF InstallSteps, StopInstall, Steps
<1>4. Len(StopInstall) = 13
  BY InstallTable
<1>5. IsLeft(InstallSteps(FALSE), StopInstall)
  <2> DEFINE q == InstallSteps(FALSE)
  <2> HIDE DEF q
  <2>0. q \in Seq(Steps) /\ Len(q) = 12 /\ \A i \in 1..12 : q[i] = StopInstall[1 + i]
    BY <1>3 DEF q
  <2>1. Len(q) <= Len(StopInstall) /\ Len(StopInstall) - Len(q) = 1
    BY <1>4, <2>0
  <2>2. \A i \in 1..Len(q) : q[i] = StopInstall[Len(StopInstall) - Len(q) + i]
    BY <2>0, <2>1
  <2>3. QED
    BY <2>0, <2>1, <2>2 DEF IsLeft, q
<1>6. QED
  BY <1>1, <1>2, <1>3, <1>5

-----------------------------------------------------------------------------
(* What each step writes                                                   *)

LEMMA RestorePatches ==
  ASSUME NEW me
  PROVE  /\ \A s \in {"config-", "config+", "artifacts-", "artifacts+", "state-", "state+", "bin+",
                      "block+", "plugin+"} : Patch(me, s) = RestorePatch(snaps[me.from], s)
         /\ \A snap : /\ RestorePatch(snap, "config-") = Only(Nothing, Config)
                      /\ RestorePatch(snap, "config+") = Only(snap, Config)
                      /\ RestorePatch(snap, "artifacts-") = Only(Nothing, Artifacts)
                      /\ RestorePatch(snap, "artifacts+") = Only(snap, Artifacts)
                      /\ RestorePatch(snap, "state-") = Only(Nothing, State)
                      /\ RestorePatch(snap, "state+") = Only(snap, State)
                      /\ RestorePatch(snap, "bin+") = [bin |-> snap.bin]
                      /\ RestorePatch(snap, "block+") = [block |-> snap.block]
                      /\ RestorePatch(snap, "plugin+") = [plugin |-> snap.plugin]
BY RestoreTable DEF Patch, RestorePatch, Undoing

LEMMA ResetPatches ==
  ASSUME NEW me
  PROVE  /\ Patch(me, "cat") = [cat |-> Packaged(me.ver)]
         /\ Patch(me, "catArt") = [catArt |-> Packaged(me.ver)]
         /\ Patch(me, "up") = [up |-> Packaged(me.ver)]
         /\ Patch(me, "upArt") = [upArt |-> Packaged(me.ver)]
         /\ Patch(me, "compat") = [compat |-> me.ver]
<1>1. \A s \in {"cat", "catArt", "up", "upArt", "compat"} : Patch(me, s) = Reset(me.ver, s)
  BY RestoreTable DEF Patch, Undoing
<1>2. QED
  BY <1>1 DEF Reset

LEMMA KeepPatches ==
  ASSUME NEW me
  PROVE  /\ Patch(me, "keepCat")
              = [cat |-> Kept(disk.cat, disk.catArt, disk.own.cat, Packaged(me.ver))]
         /\ Patch(me, "keepCatArt")
              = [catArt |-> Kept(disk.cat, disk.catArt, disk.own.cat, Packaged(me.ver))]
         /\ Patch(me, "keepUp")
              = [up |-> Kept(disk.up, disk.upArt, disk.own.up, Packaged(me.ver))]
         /\ Patch(me, "keepUpArt")
              = [upArt |-> Kept(disk.up, disk.upArt, disk.own.up, Packaged(me.ver))]
<1>1. \A s \in {"keepCat", "keepCatArt", "keepUp", "keepUpArt"} : Patch(me, s) = KeepPatch(me.ver, s)
  BY RestoreTable DEF Patch, Undoing
<1>2. QED
  BY <1>1 DEF KeepPatch

LEMMA InstallPatches ==
  ASSUME NEW me
  PROVE  /\ Patch(me, "retain") = [retained |-> disk.retained \cup {me.ver}]
         /\ Patch(me, "settings") = [settings |-> 1]
         /\ Patch(me, "plugArt") = [plugArt |-> Rendered(me.ver)]
         /\ Patch(me, "plugin") = [plugin |-> disk.plugArt]
         /\ Patch(me, "bin") = [bin |-> me.ver]
         /\ Patch(me, "block") = [block |-> Block(me.ver)]
         /\ Patch(me, "own") = [own |-> OwnedNow(me.ver)]
<1>1. \A s \in {"retain", "settings", "plugArt", "plugin", "bin", "block", "own"} :
        Patch(me, s) = InstallPatch(me.ver, s)
  BY RestoreTable DEF Patch, Undoing
<1>2. QED
  BY <1>1 DEF InstallPatch

LEMMA ImportPatches ==
  ASSUME NEW me
  PROVE  /\ Patch(me, "importUp") = [up |-> Contract(me.ver, me.arg)]
         /\ Patch(me, "importCat") = [cat |-> Contract(me.ver, me.arg)]
         /\ Patch(me, "note")
              = [imports |-> disk.imports \cup {<<me.before.cat, me.before.up, disk.cat, disk.up>>}]
<1>1. \A s \in {"importUp", "importCat", "note"} : Patch(me, s) = ImportPatch(me, s)
  BY RestoreTable DEF Patch, Undoing
<1>2. QED
  BY <1>1 DEF ImportPatch

LEMMA BackPatches ==
  ASSUME NEW me
  PROVE  LET e == CHOOSE e \in Matching(me.before) : TRUE
         IN  Patch(me, "backCat") = [cat |-> e[1]] /\ Patch(me, "backUp") = [up |-> e[2]]
<1>1. \A s \in {"backCat", "backUp"} : Patch(me, s) = BackPatch(me, s)
  BY RestoreTable DEF Patch, Undoing
<1>2. QED
  BY <1>1 DEF BackPatch

LEMMA MirrorPatches ==
  ASSUME NEW me
  PROVE  /\ Patch(me, "mirrorCat") = [catArt |-> disk.cat]
         /\ Patch(me, "mirrorUp") = [upArt |-> disk.up]
<1>1. \A s \in {"mirrorCat", "mirrorUp"} : Patch(me, s) = OwnPatch(s)
  BY RestoreTable DEF Patch, Undoing
<1>2. QED
  BY <1>1 DEF OwnPatch

LEMMA OwnCatPatch ==
  ASSUME NEW me
  PROVE  Patch(me, "ownCat") = [own |-> [disk.own EXCEPT !.cat = disk.cat, !.up = disk.up,
                                                         !.compat = disk.compat]]
<1>1. Patch(me, "ownCat") = OwnPatch("ownCat")
  BY RestoreTable DEF Patch, Undoing
<1>2. QED
  BY <1>1 DEF OwnPatch

LEMMA UndoPatches ==
  ASSUME NEW me
  PROVE  /\ Patch(me, "undoCat") = [cat |-> me.before.cat]
         /\ Patch(me, "undoUp") = [up |-> me.before.up]
         /\ Patch(me, "undoCatArt") = [catArt |-> me.before.catArt]
         /\ Patch(me, "undoUpArt") = [upArt |-> me.before.upArt]
         /\ Patch(me, "undoOwn") = [own |-> me.before.own]
<1>1. \A s \in Undoing : Patch(me, s) = UndoPatch(me.before, s)
  BY RestoreTable DEF Patch, Undoing
<1>2. QED
  BY <1>1 DEF UndoPatch, Undoing

LEMMA RemovePatches ==
  ASSUME NEW me
  PROVE  /\ Patch(me, "unblock") = [block |-> 0] /\ Patch(me, "unplug") = [plugin |-> 0]
         /\ Patch(me, "unroot") = [Nothing EXCEPT !.block = disk.block, !.plugin = disk.plugin]
         /\ Patch(me, "receipt") = [receipt |-> NewReceipt(me)]
<1>1. \A s \in {"unblock", "unplug", "unroot"} : Patch(me, s) = RemovePatch(s)
  BY RestoreTable DEF Patch, Undoing
<1>2. Patch(me, "receipt") = [receipt |-> NewReceipt(me)]
  BY RestoreTable DEF Patch, Undoing
<1>3. QED
  BY <1>1, <1>2 DEF RemovePatch

(* Steps that write nothing.                                               *)
Checks == {"capture", "begin", "preflight", "stop", "stopPrior", "recheck", "version", "doctor",
           "clear", "review", "match", "start", "prove", "try"}
LEMMA CheckPatches == ASSUME NEW me, NEW s \in Checks PROVE Patch(me, s) = <<>>
BY RestoreTable DEF Patch, Undoing, Checks

-----------------------------------------------------------------------------
(* Types of what a step writes                                             *)

LEMMA Sequences ==
  /\ IsSequence(<<>>)
  /\ \A q, x : IsSequence(q) =>
       /\ IsSequence(Append(q, x)) /\ Len(q) \in Nat /\ Len(Append(q, x)) = Len(q) + 1
       /\ DOMAIN Append(q, x) = 1..(Len(q) + 1) /\ Append(q, x)[Len(q) + 1] = x
       /\ \A i \in 1..Len(q) : Append(q, x)[i] = q[i]
<1>1. IsSequence(<<>>)
  BY DEF IsSequence
<1>2. ASSUME NEW q, NEW x, IsSequence(q)
      PROVE  /\ IsSequence(Append(q, x)) /\ Len(q) \in Nat /\ Len(Append(q, x)) = Len(q) + 1
             /\ DOMAIN Append(q, x) = 1..(Len(q) + 1) /\ Append(q, x)[Len(q) + 1] = x
             /\ \A i \in 1..Len(q) : Append(q, x)[i] = q[i]
  <2> DEFINE R == {q[i] : i \in DOMAIN q}
             z == Append(q, x)
  <2>1. q \in Seq(R \cup {x}) /\ Len(q) \in Nat /\ DOMAIN q = 1..Len(q)
    BY <1>2 DEF IsSequence
  <2>2. /\ z \in Seq(R \cup {x}) /\ Len(z) = Len(q) + 1 /\ z[Len(q) + 1] = x
        /\ \A i \in 1..Len(q) : z[i] = q[i]
    BY <2>1
  <2> HIDE DEF z
  <2>3. DOMAIN z = 1..(Len(q) + 1)
    BY <2>1, <2>2
  <2>4. z \in Seq({z[i] : i \in DOMAIN z})
    BY <2>1, <2>2, <2>3
  <2>5. QED
    BY <2>1, <2>2, <2>3, <2>4 DEF IsSequence, z
<1>3. QED
  BY <1>1, <1>2

LEMMA Numbers ==
  /\ \A v \in Versions : v \in Contents /\ v # 0 /\ Block(v) \in 0..2 /\ Packaged(v) \in Catalogs
  /\ \A v \in Versions, i \in Imports \cup {0} : Contract(v, i) \in Catalogs
  /\ 0 \in Contents /\ 0 \in Catalogs /\ Junk \in Contents /\ Junk \in Catalogs
BY ReleaseAssumption DEF Contents, Catalogs, Block, Packaged, Junk

(* A file's type does not depend on how many snapshots there are, but for  *)
(* the receipt's, and that one only grows.                                 *)
LEMMA KindGrows ==
  ASSUME NEW k \in Nat, NEW n \in Nat, k <= n
  PROVE  /\ \A f \in Fields : Kind(f, k) \subseteq Kind(f, n)
         /\ \A f \in Fields \ {"receipt"} : Kind(f, k) = Kind(f, n)
<1>1. Receipts(k) \subseteq Receipts(n)
  BY DEF Receipts
<1>2. \A f \in Fields \ {"receipt"} : Kind(f, k) = Kind(f, n)
  BY DEF Fields, Kind, Owned, Config, Artifacts, State
<1>3. Kind("receipt", k) = Receipts(k) /\ Kind("receipt", n) = Receipts(n)
  BY DEF Kind
<1>4. QED
  BY <1>1, <1>2, <1>3

LEMMA NothingTyped ==
  /\ DOMAIN Nothing = Fields
  /\ \A n \in Nat : \A f \in Fields : Nothing[f] \in Kind(f, n)
<1>1. DOMAIN Nothing = Fields
  BY DEF Nothing, Fields, Owned, Config, Artifacts, State
<1>2. NoOwn \in OwnType
  BY Numbers DEF NoOwn, OwnType
<1>3. ASSUME NEW n \in Nat, NEW f \in Fields PROVE Nothing[f] \in Kind(f, n)
  BY <1>2, Numbers DEF Nothing, Fields, Owned, Config, Artifacts, State, Kind, Receipts, Quads
<1>4. QED
  BY <1>1, <1>3

(* What a step needs, to write files of their types.                       *)
Restores == {"config-", "config+", "artifacts-", "artifacts+", "state-", "state+", "bin+", "block+",
             "plugin+"}
StepOk(me, s) ==
  /\ s \in Steps
  /\ s \in Restores => Snap(me.from)
  /\ s \in {"backCat", "backUp"} => Matching(me.before) # {}
  /\ s = "receipt" => Pending
  /\ s = "begin" => Len(snaps) > 0 /\ disk.own.ver # 0
PatchOk(p) == DOMAIN p \subseteq Fields /\ \A f \in DOMAIN p : p[f] \in Kind(f, Len(snaps))

(* A step that writes one file writes it with its type.                    *)
LEMMA OneFile ==
  ASSUME NEW x
  PROVE  /\ x \in Catalogs => /\ PatchOk([cat |-> x]) /\ PatchOk([catArt |-> x])
                              /\ PatchOk([up |-> x]) /\ PatchOk([upArt |-> x])
         /\ x \in Contents => /\ PatchOk([compat |-> x]) /\ PatchOk([plugArt |-> x])
                              /\ PatchOk([bin |-> x]) /\ PatchOk([plugin |-> x])
         /\ x \in 0..1 => PatchOk([settings |-> x])
         /\ x \in 0..2 => PatchOk([block |-> x])
         /\ x \in OwnType => PatchOk([own |-> x])
         /\ x \in SUBSET Quads => PatchOk([imports |-> x])
         /\ x \in SUBSET Versions => PatchOk([retained |-> x])
         /\ x \in Receipts(Len(snaps)) => PatchOk([receipt |-> x])
<1>1. x \in Catalogs => /\ PatchOk([cat |-> x]) /\ PatchOk([catArt |-> x])
                        /\ PatchOk([up |-> x]) /\ PatchOk([upArt |-> x])
  BY DEF PatchOk, Fields, Owned, Config, Artifacts, Kind
<1>2. x \in Contents => /\ PatchOk([compat |-> x]) /\ PatchOk([plugArt |-> x])
                        /\ PatchOk([bin |-> x]) /\ PatchOk([plugin |-> x])
  BY DEF PatchOk, Fields, Owned, Config, Artifacts, Kind
<1>3. /\ x \in 0..1 => PatchOk([settings |-> x])
      /\ x \in 0..2 => PatchOk([block |-> x])
      /\ x \in OwnType => PatchOk([own |-> x])
  BY DEF PatchOk, Fields, Owned, Config, State, Kind
<1>4. /\ x \in SUBSET Quads => PatchOk([imports |-> x])
      /\ x \in SUBSET Versions => PatchOk([retained |-> x])
      /\ x \in Receipts(Len(snaps)) => PatchOk([receipt |-> x])
  BY DEF PatchOk, Fields, Owned, Config, State, Kind
<1>5. QED
  BY <1>1, <1>2, <1>3, <1>4

LEMMA PatchTyped ==
  ASSUME DiskTyped, SnapsTyped, MarkTyped, NEW me, NEW s, StepOk(me, s),
         me.ver \in Versions, me.arg \in Imports \cup {0},
         \A f \in Owned \ {"receipt"} : me.before[f] \in Kind(f, 0)
  PROVE  PatchOk(Patch(me, s))
<1> DEFINE n == Len(snaps)
<1>0. /\ n \in Nat /\ \A f \in Fields : disk[f] \in Kind(f, n)
      /\ \A f \in Owned \ {"receipt"} : me.before[f] \in Kind(f, n)
  BY KindGrows DEF SnapsTyped, DiskTyped, Fields
<1>1. CASE s \in Restores
  <2>1. /\ \A f \in Owned : snaps[me.from][f] \in Kind(f, n)
        /\ \A f \in Owned : Nothing[f] \in Kind(f, n)
    BY <1>0, <1>1, NothingTyped DEF StepOk, Snap, SnapsTyped, FilesTyped, Fields
  <2> DEFINE snap == snaps[me.from]
  <2> HIDE DEF snap
  <2>2. ASSUME NEW A, A \subseteq Owned
        PROVE  PatchOk(Only(Nothing, A)) /\ PatchOk(Only(snap, A))
    BY <2>1, <2>2 DEF PatchOk, Only, snap, Fields
  <2>3. PatchOk([bin |-> snap.bin]) /\ PatchOk([block |-> snap.block]) /\ PatchOk([plugin |-> snap.plugin])
    BY <2>1 DEF PatchOk, Fields, Owned, snap
  <2>4. Config \subseteq Owned /\ Artifacts \subseteq Owned /\ State \subseteq Owned
    BY DEF Owned
  <2>5. Patch(me, s) = RestorePatch(snap, s)
    BY <1>1, RestorePatches DEF Restores, snap
  <2>6. \/ RestorePatch(snap, s) \in {Only(Nothing, Config), Only(Nothing, Artifacts), Only(Nothing, State)}
        \/ RestorePatch(snap, s) \in {Only(snap, Config), Only(snap, Artifacts), Only(snap, State)}
        \/ RestorePatch(snap, s) \in {[bin |-> snap.bin], [block |-> snap.block], [plugin |-> snap.plugin]}
    BY <1>1, RestorePatches DEF Restores
  <2>7. QED
    BY <2>2, <2>3, <2>4, <2>5, <2>6
<1>2. CASE s \in {"cat", "catArt", "up", "upArt", "compat"}
  <2>1. /\ PatchOk([cat |-> Packaged(me.ver)]) /\ PatchOk([catArt |-> Packaged(me.ver)])
        /\ PatchOk([up |-> Packaged(me.ver)]) /\ PatchOk([upArt |-> Packaged(me.ver)])
        /\ PatchOk([compat |-> me.ver])
    BY Numbers, OneFile
  <2>2. /\ PatchOk(Patch(me, "cat")) /\ PatchOk(Patch(me, "catArt")) /\ PatchOk(Patch(me, "up"))
        /\ PatchOk(Patch(me, "upArt")) /\ PatchOk(Patch(me, "compat"))
    BY <2>1, ResetPatches
  <2>3. QED
    BY <1>2, <2>2
<1>3. CASE s \in {"keepCat", "keepCatArt", "keepUp", "keepUpArt"}
  <2>1. \A t, o, u : t \in Catalogs /\ u \in Catalogs => Kept(t, u, o, Packaged(me.ver)) \in Catalogs
    BY Numbers DEF Kept
  <2>2. disk.cat \in Catalogs /\ disk.catArt \in Catalogs /\ disk.up \in Catalogs /\ disk.upArt \in Catalogs
    BY <1>0 DEF Fields, Owned, Config, Artifacts, Kind
  <2>3. QED
    <3> DEFINE x == Kept(disk.cat, disk.catArt, disk.own.cat, Packaged(me.ver))
               y == Kept(disk.up, disk.upArt, disk.own.up, Packaged(me.ver))
    <3>1. /\ Patch(me, "keepCat") = [cat |-> x] /\ Patch(me, "keepCatArt") = [catArt |-> x]
          /\ Patch(me, "keepUp") = [up |-> y] /\ Patch(me, "keepUpArt") = [upArt |-> y]
      BY KeepPatches
    <3>2. x \in Catalogs /\ y \in Catalogs
      BY <2>1, <2>2
    <3> HIDE DEF x, y
    <3>3. /\ PatchOk([cat |-> x]) /\ PatchOk([catArt |-> x]) /\ PatchOk([up |-> y])
          /\ PatchOk([upArt |-> y])
      BY <3>2, OneFile
    <3>4. QED
      BY <1>3, <3>1, <3>3
<1>4. CASE s \in {"retain", "settings", "plugArt", "plugin", "bin", "block", "own"}
  <2>1. /\ disk.cat \in Catalogs /\ disk.up \in Catalogs /\ disk.plugArt \in Contents
        /\ disk.retained \in SUBSET Versions
    BY <1>0 DEF Fields, Owned, Config, Artifacts, Kind
  <2>2. OwnedNow(me.ver) \in OwnType /\ Rendered(me.ver) \in Contents
    BY <2>1, Numbers DEF OwnedNow, OwnType, Rendered
  <2>3. /\ disk.retained \cup {me.ver} \in SUBSET Versions /\ 1 \in 0..1
        /\ me.ver \in Contents /\ Block(me.ver) \in 0..2
    BY <2>1, Numbers
  <2>4. QED
    <3>1. /\ PatchOk([retained |-> disk.retained \cup {me.ver}]) /\ PatchOk([settings |-> 1])
          /\ PatchOk([plugArt |-> Rendered(me.ver)]) /\ PatchOk([plugin |-> disk.plugArt])
          /\ PatchOk([bin |-> me.ver]) /\ PatchOk([block |-> Block(me.ver)])
          /\ PatchOk([own |-> OwnedNow(me.ver)])
      BY <2>1, <2>2, <2>3, OneFile
    <3>2. /\ PatchOk(Patch(me, "retain")) /\ PatchOk(Patch(me, "settings"))
          /\ PatchOk(Patch(me, "plugArt")) /\ PatchOk(Patch(me, "plugin"))
          /\ PatchOk(Patch(me, "bin")) /\ PatchOk(Patch(me, "block")) /\ PatchOk(Patch(me, "own"))
      BY <3>1, InstallPatches
    <3>3. QED
      BY <1>4, <3>2
<1>5. CASE s \in {"importUp", "importCat", "mirrorCat", "mirrorUp"}
  <2>1. disk.cat \in Catalogs /\ disk.up \in Catalogs /\ Contract(me.ver, me.arg) \in Catalogs
    BY <1>0, Numbers DEF Fields, Owned, Config, Artifacts, Kind
  <2>2. QED
    <3>1. /\ PatchOk([up |-> Contract(me.ver, me.arg)]) /\ PatchOk([cat |-> Contract(me.ver, me.arg)])
          /\ PatchOk([catArt |-> disk.cat]) /\ PatchOk([upArt |-> disk.up])
      BY <2>1, OneFile
    <3>2. /\ PatchOk(Patch(me, "importUp")) /\ PatchOk(Patch(me, "importCat"))
          /\ PatchOk(Patch(me, "mirrorCat")) /\ PatchOk(Patch(me, "mirrorUp"))
      BY <3>1, ImportPatches, MirrorPatches
    <3>3. QED
      BY <1>5, <3>2
<1>6. CASE s = "note"
  <2>1. /\ disk.cat \in Catalogs /\ disk.up \in Catalogs /\ disk.imports \in SUBSET Quads
        /\ me.before.cat \in Catalogs /\ me.before.up \in Catalogs
    BY <1>0 DEF Fields, Owned, Config, Artifacts, Kind
  <2>2. <<me.before.cat, me.before.up, disk.cat, disk.up>> \in Quads
    BY <2>1 DEF Quads
  <2>3. QED
    <3> DEFINE x == disk.imports \cup {<<me.before.cat, me.before.up, disk.cat, disk.up>>}
    <3>1. x \in SUBSET Quads /\ Patch(me, s) = [imports |-> x]
      BY <1>6, <2>1, <2>2, ImportPatches
    <3> HIDE DEF x
    <3>2. QED
      BY <3>1, OneFile
<1>7. CASE s \in {"backCat", "backUp"}
  <2> DEFINE e == CHOOSE e \in Matching(me.before) : TRUE
  <2>1. me.before.imports \in SUBSET Quads
    BY <1>0 DEF Fields, Owned, Config, Artifacts, Kind
  <2>2. e \in Quads
    BY <1>7, <2>1 DEF StepOk, Matching
  <2>3. e[1] \in Catalogs /\ e[2] \in Catalogs
    BY <2>2 DEF Quads
  <2>4. Patch(me, "backCat") = [cat |-> e[1]] /\ Patch(me, "backUp") = [up |-> e[2]]
    BY BackPatches
  <2> HIDE DEF e
  <2>5. QED
    BY <1>7, <2>3, <2>4, OneFile
<1>8. CASE s = "ownCat"
  <2> DEFINE o == [disk.own EXCEPT !.cat = disk.cat, !.up = disk.up, !.compat = disk.compat]
  <2>1. /\ disk.cat \in Catalogs /\ disk.up \in Catalogs /\ disk.compat \in Contents
        /\ disk.own \in OwnType
    BY <1>0 DEF Fields, Owned, Config, Artifacts, State, Kind
  <2>2. o \in OwnType
    BY <2>1 DEF OwnType
  <2>3. Patch(me, s) = [own |-> o]
    BY <1>8, OwnCatPatch
  <2> HIDE DEF o
  <2>4. QED
    BY <2>2, <2>3, OneFile
<1>9. CASE s \in Undoing
  <2>1. /\ me.before.cat \in Catalogs /\ me.before.up \in Catalogs /\ me.before.catArt \in Catalogs
        /\ me.before.upArt \in Catalogs /\ me.before.own \in OwnType
    BY <1>0 DEF Fields, Owned, Config, Artifacts, State, Kind
  <2>2. QED
    <3>1. /\ PatchOk([cat |-> me.before.cat]) /\ PatchOk([up |-> me.before.up])
          /\ PatchOk([catArt |-> me.before.catArt]) /\ PatchOk([upArt |-> me.before.upArt])
          /\ PatchOk([own |-> me.before.own])
      BY <2>1, OneFile
    <3>2. /\ PatchOk(Patch(me, "undoCat")) /\ PatchOk(Patch(me, "undoUp"))
          /\ PatchOk(Patch(me, "undoCatArt")) /\ PatchOk(Patch(me, "undoUpArt"))
          /\ PatchOk(Patch(me, "undoOwn"))
      BY <3>1, UndoPatches
    <3>3. QED
      BY <1>9, <3>2 DEF Undoing
<1>10. CASE s \in {"unblock", "unplug"}
  <2>1. PatchOk([block |-> 0]) /\ PatchOk([plugin |-> 0])
    <3>1. 0 \in 0..2 /\ 0 \in Contents
      BY Numbers
    <3>2. QED
      BY <3>1, OneFile
  <2>2. PatchOk(Patch(me, "unblock")) /\ PatchOk(Patch(me, "unplug"))
    BY <2>1, RemovePatches
  <2>3. QED
    BY <1>10, <2>2
<1>11. CASE s = "unroot"
  <2> DEFINE p == [Nothing EXCEPT !.block = disk.block, !.plugin = disk.plugin]
  <2>1. /\ DOMAIN p = Fields /\ p["block"] = disk["block"] /\ p["plugin"] = disk["plugin"]
        /\ \A f \in Fields \ {"block", "plugin"} : p[f] = Nothing[f]
    BY NothingTyped DEF Fields, Owned
  <2>2. Patch(me, s) = p
    BY <1>11, RemovePatches
  <2> HIDE DEF p
  <2>3. QED
    BY <1>0, <2>1, <2>2, NothingTyped DEF PatchOk
<1>12. CASE s = "receipt"
  <2>1. /\ NewReceipt(me).prev \in Versions /\ NewReceipt(me).cur \in Versions
        /\ NewReceipt(me).snap \in 1..n
    BY <1>0, <1>12 DEF StepOk, NewReceipt, MarkTyped, Pending
  <2>2. NewReceipt(me) \in Receipts(n)
    BY <2>1 DEF NewReceipt, Receipts
  <2>3. Patch(me, s) = [receipt |-> NewReceipt(me)]
    BY <1>12, RemovePatches
  <2>4. QED
    BY <2>2, <2>3, OneFile
<1>13. CASE s \in Checks
  BY <1>13, CheckPatches DEF PatchOk
<1>14. QED
  BY <1>1, <1>2, <1>3, <1>4, <1>5, <1>6, <1>7, <1>8, <1>9, <1>10, <1>11, <1>12, <1>13
     DEF StepOk, Steps, Restores, Undoing, Checks

-----------------------------------------------------------------------------
(* One step of a program                                                   *)

(* What a step leaves of its manager, and of the rest.                     *)
Moved(m) ==
  LET me == mgr[m]
      now == mgr'[m]
      s == Head(me.todo)
  IN
  /\ DOMAIN mgr' = Manager /\ (\A o \in Manager \ {m} : mgr'[o] = mgr[o])
  /\ DOMAIN now = DOMAIN Idle
  /\ now.pc = me.pc /\ now.cmd = me.cmd /\ now.ver = me.ver /\ now.arg = me.arg
  /\ now.seen = me.seen /\ now.saw = me.saw /\ now.end = me.end /\ now.from = me.from
  /\ now.todo = Tail(me.todo) /\ now.stage = StageAfter(me, s)
  /\ now.before = IF s = "stop" /\ me.cmd \in {"import", "catalog_rollback"} /\ me.stage = "plain"
                  THEN disk ELSE me.before
Wrote(m) ==
  LET new == Patch(mgr[m], Head(mgr[m].todo)) IN
  /\ DOMAIN disk' = DOMAIN disk
  /\ \A f \in DOMAIN disk : disk'[f] = IF f \in DOMAIN new THEN new[f] ELSE disk[f]
Noted(m) ==
  LET me == mgr[m]
      s == Head(me.todo)
  IN
  /\ s = "capture" => snaps' = Append(snaps, Only(disk, Owned))
  /\ s = "unroot" => snaps' = <<>>
  /\ s \notin {"capture", "unroot"} => snaps' = snaps
  /\ s = "begin" => mark' = NewMark(me)
  /\ s \in {"clear", "unroot"} => mark' = NoMark
  /\ s \notin {"begin", "clear", "unroot"} => mark' = mark
  /\ lock' = lock

LEMMA DoFacts ==
  ASSUME ControlInv, NEW m \in Manager, Do(m)
  PROVE  /\ lock = m /\ mgr[m].pc = "run" /\ mgr[m].todo # <<>>
         /\ Ready(mgr[m], Head(mgr[m].todo)) /\ Working(mgr[m])
         /\ Moved(m) /\ Wrote(m) /\ Noted(m)
<1>1. /\ lock = m /\ mgr[m].pc = "run" /\ mgr[m].todo # <<>>
      /\ Ready(mgr[m], Head(mgr[m].todo)) /\ Working(mgr[m])
  BY DEF ControlInv, ManagerTyped, Do, Running, Head1
<1>2. DOMAIN mgr = Manager /\ DOMAIN mgr[m] = DOMAIN Idle
  BY DEF ControlInv, ManagerTyped
<1>3. Moved(m)
  <2> DEFINE b == IF Head(mgr[m].todo) = "stop" /\ mgr[m].cmd \in {"import", "catalog_rollback"}
                     /\ mgr[m].stage = "plain" THEN disk ELSE mgr[m].before
             g == StageAfter(mgr[m], Head(mgr[m].todo))
  <2>1. mgr' = [mgr EXCEPT ![m].todo = Tail(mgr[m].todo), ![m].stage = g, ![m].before = b]
    BY DEF Do, Head1
  <2> HIDE DEF b, g
  <2>2. DOMAIN mgr' = Manager /\ (\A o \in Manager \ {m} : mgr'[o] = mgr[o])
    BY <1>2, <2>1
  <2>3. mgr'[m] = [mgr[m] EXCEPT !.todo = Tail(mgr[m].todo), !.stage = g, !.before = b]
    BY <1>2, <2>1
  <2>4. /\ DOMAIN mgr'[m] = DOMAIN Idle
        /\ mgr'[m].todo = Tail(mgr[m].todo) /\ mgr'[m].stage = g /\ mgr'[m].before = b
        /\ \A f \in DOMAIN Idle \ {"todo", "stage", "before"} : mgr'[m][f] = mgr[m][f]
    BY <1>2, <2>3 DEF Idle
  <2>5. QED
    BY <2>2, <2>4 DEF Moved, Idle, b, g
<1>4. Wrote(m)
  BY DEF Do, Wrote, Head1
<1>5. Noted(m)
  BY DEF Do, Noted, Head1
<1>6. QED
  BY <1>1, <1>3, <1>4, <1>5

-----------------------------------------------------------------------------
(* Which steps stand where                                                 *)

Backs == {"backCat", "backUp"}
Special == Restores \cup Backs \cup {"receipt", "begin", "clear", "unroot", "capture"}

LEMMA UpdateAt ==
  /\ UpdateSteps[1] = "capture" /\ UpdateSteps[2] = "begin" /\ UpdateSteps[20] = "clear"
  /\ UpdateSteps[19] = "receipt"
  /\ \A i \in 3..18 : UpdateSteps[i] \notin Special
BY UpdateTable DEF Special, Restores, Backs
LEMMA UndoAt ==
  /\ UndoSwitch[11] = "clear" /\ UndoSwitch[10] = "doctor"
  /\ \A i \in 1..9 : UndoSwitch[i] \in Restores
BY UndoTable DEF Restores
LEMMA RollbackAt ==
  /\ RollbackSteps[1] = "capture" /\ RollbackSteps[2] = "begin" /\ RollbackSteps[16] = "clear"
  /\ RollbackSteps[3] = "stop" /\ RollbackSteps[15] = "receipt"
  /\ RollbackSteps[13] = "version" /\ RollbackSteps[14] = "doctor"
  /\ \A i \in 4..12 : RollbackSteps[i] \in Restores
BY RollbackTable DEF Restores
LEMMA RecoverAt ==
  /\ RecoverSteps[1] = "stopPrior" /\ RecoverSteps[11] = "version" /\ RecoverSteps[12] = "doctor"
  /\ RecoverSteps[13] = "clear"
  /\ \A i \in 2..10 : RecoverSteps[i] \in Restores
BY RecoverTable DEF Restores
LEMMA InstallAt ==
  /\ StopInstall[1] = "stop" /\ \A i \in 2..13 : StopInstall[i] \notin Special \cup {"stop", "stopPrior"}
BY InstallTable DEF Special, Restores, Backs
LEMMA ImportAt ==
  /\ \A i \in 1..10 : ImportSteps[i] \notin Special
  /\ ImportSteps[1] = "stop" /\ ImportSteps[2] = "review" /\ ImportSteps[5] = "note"
  /\ \A i \in {3, 4, 6, 7, 8, 9, 10} : ImportSteps[i] \notin {"stop", "review", "note"}
BY ImportTable DEF Special, Restores, Backs
LEMMA ImportUndoAt ==
  /\ \A i \in 1..8 : ImportUndo[i] \notin Special
  /\ \A i \in 1..3 : ImportUndoEarly[i] \notin Special
BY ImportUndoTable DEF Special, Restores, Backs
LEMMA CatalogBackAt ==
  /\ CatalogBackSteps[1] = "stop" /\ CatalogBackSteps[2] = "match"
  /\ \A i \in 3..4 : CatalogBackSteps[i] \in Backs
  /\ \A i \in 5..9 : CatalogBackSteps[i] \notin Special \cup {"stop", "review", "note"}
  /\ \A i \in 1..8 : CatalogBackUndo[i] \notin Special
BY CatalogBackTable DEF Special, Restores, Backs
LEMMA UninstallAt ==
  /\ UninstallSteps[1] = "stop" /\ UninstallSteps[4] = "unroot"
  /\ \A i \in 2..3 : UninstallSteps[i] \notin Special \cup {"stop", "stopPrior"}
BY UninstallTable DEF Special, Restores, Backs

LEMMA Lengths ==
  /\ UpdateSteps \in Seq(Steps) /\ Len(UpdateSteps) = 20
  /\ UndoSwitch \in Seq(Steps) /\ Len(UndoSwitch) = 11
  /\ RollbackSteps \in Seq(Steps) /\ Len(RollbackSteps) = 16
  /\ RecoverSteps \in Seq(Steps) /\ Len(RecoverSteps) = 13
  /\ StopInstall \in Seq(Steps) /\ Len(StopInstall) = 13
  /\ ImportSteps \in Seq(Steps) /\ Len(ImportSteps) = 10
  /\ ImportUndo \in Seq(Steps) /\ Len(ImportUndo) = 8
  /\ ImportUndoEarly \in Seq(Steps) /\ Len(ImportUndoEarly) = 3
  /\ CatalogBackSteps \in Seq(Steps) /\ Len(CatalogBackSteps) = 9
  /\ CatalogBackUndo \in Seq(Steps) /\ Len(CatalogBackUndo) = 8
  /\ UninstallSteps \in Seq(Steps) /\ Len(UninstallSteps) = 4
BY UpdateTable, UndoTable, RollbackTable, RecoverTable, InstallTable, ImportTable, ImportUndoTable,
   CatalogBackTable, UninstallTable

(* The step at the head of a program of n steps.                           *)
LEMMA OnProgram ==
  ASSUME NEW program \in Seq(Steps), NEW me, On(me, program), me.todo # <<>>
  PROVE  /\ Left(me) \in 1..Len(program) /\ Len(program) \in Nat
         /\ Head(me.todo) = program[Len(program) - Left(me) + 1] /\ Head(me.todo) \in Steps
         /\ IsLeft(Tail(me.todo), program) /\ Len(Tail(me.todo)) = Left(me) - 1
<1>1. IsLeft(me.todo, program)
  BY DEF On
<1>2. /\ Len(me.todo) \in 1..Len(program)
      /\ Head(me.todo) = program[Len(program) - Len(me.todo) + 1] /\ Head(me.todo) \in Steps
      /\ IsLeft(Tail(me.todo), program) /\ Len(Tail(me.todo)) = Len(me.todo) - 1
  BY <1>1, NextStep
<1>3. Len(program) \in Nat
  OBVIOUS
<1>4. QED
  BY <1>2, <1>3 DEF Left

LEMMA NotOn ==
  ASSUME NEW program \in Seq(Steps), NEW me, On(me, program), Left(me) = 0
  PROVE  me.todo = <<>>
BY DEF On, IsLeft, Left

(* The same for each of the programs.                                      *)
Stands(me, program, n) ==
  /\ Left(me) \in 1..n /\ Head(me.todo) = program[n - Left(me) + 1] /\ Head(me.todo) \in Steps
  /\ IsLeft(Tail(me.todo), program) /\ Len(Tail(me.todo)) = Left(me) - 1

LEMMA OnEach ==
  ASSUME NEW me, me.todo # <<>>
  PROVE
    /\ On(me, UpdateSteps) => Stands(me, UpdateSteps, 20)
    /\ On(me, UndoSwitch) => Stands(me, UndoSwitch, 11)
    /\ On(me, RollbackSteps) => Stands(me, RollbackSteps, 16)
    /\ On(me, RecoverSteps) => Stands(me, RecoverSteps, 13)
    /\ On(me, StopInstall) => Stands(me, StopInstall, 13)
    /\ On(me, ImportSteps) => Stands(me, ImportSteps, 10)
    /\ On(me, ImportUndo) => Stands(me, ImportUndo, 8)
    /\ On(me, ImportUndoEarly) => Stands(me, ImportUndoEarly, 3)
    /\ On(me, CatalogBackSteps) => Stands(me, CatalogBackSteps, 9)
    /\ On(me, CatalogBackUndo) => Stands(me, CatalogBackUndo, 8)
    /\ On(me, UninstallSteps) => Stands(me, UninstallSteps, 4)
<1>1. On(me, UpdateSteps) => Stands(me, UpdateSteps, 20)
  <2> UpdateSteps \in Seq(Steps) /\ Len(UpdateSteps) = 20
    BY UpdateTable
  <2> QED
    BY OnProgram DEF Stands
<1>2. On(me, UndoSwitch) => Stands(me, UndoSwitch, 11)
  <2> UndoSwitch \in Seq(Steps) /\ Len(UndoSwitch) = 11
    BY UndoTable
  <2> QED
    BY OnProgram DEF Stands
<1>3. On(me, RollbackSteps) => Stands(me, RollbackSteps, 16)
  <2> RollbackSteps \in Seq(Steps) /\ Len(RollbackSteps) = 16
    BY RollbackTable
  <2> QED
    BY OnProgram DEF Stands
<1>4. On(me, RecoverSteps) => Stands(me, RecoverSteps, 13)
  <2> RecoverSteps \in Seq(Steps) /\ Len(RecoverSteps) = 13
    BY RecoverTable
  <2> QED
    BY OnProgram DEF Stands
<1>5. On(me, StopInstall) => Stands(me, StopInstall, 13)
  <2> StopInstall \in Seq(Steps) /\ Len(StopInstall) = 13
    BY InstallTable
  <2> QED
    BY OnProgram DEF Stands
<1>6. On(me, ImportSteps) => Stands(me, ImportSteps, 10)
  <2> ImportSteps \in Seq(Steps) /\ Len(ImportSteps) = 10
    BY ImportTable
  <2> QED
    BY OnProgram DEF Stands
<1>7. On(me, ImportUndo) => Stands(me, ImportUndo, 8)
  <2> ImportUndo \in Seq(Steps) /\ Len(ImportUndo) = 8
    BY ImportUndoTable
  <2> QED
    BY OnProgram DEF Stands
<1>8. On(me, ImportUndoEarly) => Stands(me, ImportUndoEarly, 3)
  <2> ImportUndoEarly \in Seq(Steps) /\ Len(ImportUndoEarly) = 3
    BY ImportUndoTable
  <2> QED
    BY OnProgram DEF Stands
<1>9. On(me, CatalogBackSteps) => Stands(me, CatalogBackSteps, 9)
  <2> CatalogBackSteps \in Seq(Steps) /\ Len(CatalogBackSteps) = 9
    BY CatalogBackTable
  <2> QED
    BY OnProgram DEF Stands
<1>10. On(me, CatalogBackUndo) => Stands(me, CatalogBackUndo, 8)
  <2> CatalogBackUndo \in Seq(Steps) /\ Len(CatalogBackUndo) = 8
    BY CatalogBackTable
  <2> QED
    BY OnProgram DEF Stands
<1>11. On(me, UninstallSteps) => Stands(me, UninstallSteps, 4)
  <2> UninstallSteps \in Seq(Steps) /\ Len(UninstallSteps) = 4
    BY UninstallTable
  <2> QED
    BY OnProgram DEF Stands
<1>12. QED
  BY <1>1, <1>2, <1>3, <1>4, <1>5, <1>6, <1>7, <1>8, <1>9, <1>10, <1>11

(* Every step finds what it needs.                                         *)
LEMMA StepAllowed ==
  ASSUME NEW me, Working(me), me.todo # <<>>
  PROVE  StepOk(me, Head(me.todo))
<1> DEFINE s == Head(me.todo)
           k == Left(me)
<1>1. CASE Updating(me)
  <2>1. k \in 1..20 /\ s = UpdateSteps[20 - k + 1] /\ s \in Steps
    BY <1>1, OnEach DEF Stands, Updating
  <2>2. CASE k = 20
    BY <2>1, <2>2, UpdateAt DEF StepOk, Restores
  <2>3. CASE k = 19
    <3>1. Len(snaps) > 0 /\ disk.own.ver # 0
      BY <1>1, <2>3 DEF Updating
    <3>2. QED
      BY <2>1, <2>3, <3>1, UpdateAt DEF StepOk, Restores
  <2>4. CASE k \in 3..18
    <3>1. 20 - k + 1 \in 3..18
      BY <2>4
    <3>2. QED
      BY <2>1, <3>1, UpdateAt DEF StepOk, Special, Backs
  <2>5. CASE k \in 1..2
    <3>1. Pending
      BY <1>1, <2>5 DEF Updating
    <3>2. QED
      BY <2>1, <2>5, <3>1, UpdateAt DEF StepOk, Restores
  <2>6. QED
    BY <2>1, <2>2, <2>3, <2>4, <2>5
<1>2. CASE RollingBack(me)
  <2>1. k \in 1..16 /\ s = RollbackSteps[16 - k + 1] /\ s \in Steps /\ Snap(me.from)
    BY <1>2, OnEach DEF Stands, RollingBack
  <2>2. CASE k \in {16, 14, 3, 4, 1}
    BY <2>1, <2>2, RollbackAt DEF StepOk, Restores
  <2>3. CASE k = 15
    <3>1. Len(snaps) > 0 /\ disk.own.ver # 0
      BY <1>2, <2>3 DEF RollingBack, Snap
    <3>2. QED
      BY <2>1, <2>3, <3>1, RollbackAt DEF StepOk, Restores
  <2>4. CASE k \in 5..13
    <3>1. 16 - k + 1 \in 4..12
      BY <2>4
    <3>2. s \in Restores
      BY <2>1, <3>1, RollbackAt
    <3>3. QED
      BY <2>1, <3>2 DEF StepOk, Restores
  <2>5. CASE k = 2
    <3>1. Pending
      BY <1>2, <2>5 DEF RollingBack
    <3>2. QED
      BY <2>1, <2>5, <3>1, RollbackAt DEF StepOk, Restores
  <2>6. QED
    BY <2>1, <2>2, <2>3, <2>4, <2>5
<1>3. CASE Recovering(me)
  <2>1. k \in 1..13 /\ s = RecoverSteps[13 - k + 1] /\ s \in Steps /\ Snap(me.from)
    BY <1>3, OnEach DEF Stands, Recovering
  <2>2. CASE k \in {13, 3, 2, 1}
    BY <2>1, <2>2, RecoverAt DEF StepOk, Restores
  <2>3. CASE k \in 4..12
    <3>1. 13 - k + 1 \in 2..10
      BY <2>3
    <3>2. s \in Restores
      BY <2>1, <3>1, RecoverAt
    <3>3. QED
      BY <2>1, <3>2 DEF StepOk, Restores
  <2>4. QED
    BY <2>1, <2>2, <2>3
<1>4. CASE Installing(me)
  <2>1. k \in 1..13 /\ s = StopInstall[13 - k + 1] /\ s \in Steps
    BY <1>4, OnEach DEF Stands, Installing
  <2>2. 13 - k + 1 \in 1..13
    BY <2>1
  <2>3. QED
    BY <2>1, <2>2, InstallAt DEF StepOk, Special, Restores, Backs
<1>5. CASE Importing(me)
  <2>1. k \in 1..10 /\ s = ImportSteps[10 - k + 1] /\ s \in Steps
    BY <1>5, OnEach DEF Stands, Importing
  <2>2. 10 - k + 1 \in 1..10
    BY <2>1
  <2>3. QED
    BY <2>1, <2>2, ImportAt DEF StepOk, Special, Backs
<1>6. CASE RestoringImport(me)
  <2>1. k \in 1..9 /\ s = CatalogBackSteps[9 - k + 1] /\ s \in Steps
    BY <1>6, OnEach DEF Stands, RestoringImport
  <2>2. CASE k \in 8..9
    BY <2>1, <2>2, CatalogBackAt DEF StepOk, Restores
  <2>3. CASE k \in 6..7
    <3>1. Matching(me.before) # {} /\ 9 - k + 1 \in 3..4
      BY <1>6, <2>3 DEF RestoringImport
    <3>2. QED
      BY <2>1, <3>1, CatalogBackAt DEF StepOk, Restores, Backs
  <2>4. CASE k \in 1..5
    <3>1. 9 - k + 1 \in 5..9
      BY <2>4
    <3>2. QED
      BY <2>1, <3>1, CatalogBackAt DEF StepOk, Special, Backs
  <2>5. QED
    BY <2>1, <2>2, <2>3, <2>4
<1>7. CASE Uninstalling(me)
  <2>1. k \in 1..4 /\ s = UninstallSteps[4 - k + 1] /\ s \in Steps
    BY <1>7, OnEach DEF Stands, Uninstalling
  <2>2. CASE k \in {1, 4}
    BY <2>1, <2>2, UninstallAt DEF StepOk, Restores
  <2>3. CASE k \in 2..3
    <3>1. 4 - k + 1 \in 2..3
      BY <2>3
    <3>2. QED
      BY <2>1, <3>1, UninstallAt DEF StepOk, Special, Backs
  <2>4. QED
    BY <2>1, <2>2, <2>3
<1>8. CASE TakingBack(me)
  <2>1. CASE On(me, UndoSwitch) /\ Snap(me.from)
    <3>1. k \in 1..11 /\ s = UndoSwitch[11 - k + 1] /\ s \in Steps
      BY <2>1, OnEach DEF Stands
    <3>2. CASE k \in 1..2
      BY <2>1, <3>1, <3>2, UndoAt DEF StepOk, Restores
    <3>3. CASE k \in 3..11
      <4>1. 11 - k + 1 \in 1..9
        BY <3>3
      <4>2. s \in Restores
        BY <3>1, <4>1, UndoAt
      <4>3. QED
        BY <2>1, <3>1, <4>2 DEF StepOk, Restores
    <3>4. QED
      BY <3>1, <3>2, <3>3
  <2>2. CASE On(me, ImportUndo)
    <3>1. k \in 1..8 /\ s = ImportUndo[8 - k + 1] /\ s \in Steps
      BY <2>2, OnEach DEF Stands
    <3>2. 8 - k + 1 \in 1..8
      BY <3>1
    <3>3. QED
      BY <3>1, <3>2, ImportUndoAt DEF StepOk, Special, Backs
  <2>3. CASE On(me, ImportUndoEarly)
    <3>1. k \in 1..3 /\ s = ImportUndoEarly[3 - k + 1] /\ s \in Steps
      BY <2>3, OnEach DEF Stands
    <3>2. 3 - k + 1 \in 1..3
      BY <3>1
    <3>3. QED
      BY <3>1, <3>2, ImportUndoAt DEF StepOk, Special, Backs
  <2>4. CASE On(me, CatalogBackUndo)
    <3>1. k \in 1..8 /\ s = CatalogBackUndo[8 - k + 1] /\ s \in Steps
      BY <2>4, OnEach DEF Stands
    <3>2. 8 - k + 1 \in 1..8
      BY <3>1
    <3>3. QED
      BY <3>1, <3>2, CatalogBackAt DEF StepOk, Special, Backs
  <2>5. QED
    BY <1>8, <2>1, <2>2, <2>3, <2>4 DEF TakingBack
<1>9. QED
  BY <1>1, <1>2, <1>3, <1>4, <1>5, <1>6, <1>7, <1>8 DEF Working

(* What a step writes has its type, the snapshots and the marker too.      *)
LEMMA DoTypes ==
  ASSUME ControlInv, NEW m \in Manager, Do(m)
  PROVE  /\ DiskTyped' /\ SnapsTyped' /\ MarkTyped' /\ BrokerTyped'
<1> DEFINE me == mgr[m]
           s == Head(mgr[m].todo)
           new == Patch(me, s)
<1>1. /\ lock = m /\ me.pc = "run" /\ me.todo # <<>> /\ Working(me) /\ Wrote(m) /\ Noted(m)
      /\ ManagerTyped(m) /\ DiskTyped /\ SnapsTyped /\ MarkTyped
  BY DoFacts DEF ControlInv
<1>2. StepOk(me, s)
  BY <1>1, StepAllowed
<1>3. /\ me.ver \in Versions /\ me.arg \in Imports \cup {0}
      /\ \A f \in Owned \ {"receipt"} : me.before[f] \in Kind(f, 0)
  BY <1>1 DEF ManagerTyped, Working
<1>4. PatchOk(new)
  <2> HIDE DEF me
  <2>1. QED
    BY <1>1, <1>2, <1>3, PatchTyped
<1>5. \A f \in Fields : disk'[f] \in Kind(f, Len(snaps))
  BY <1>1, <1>4 DEF Wrote, PatchOk, DiskTyped
<1>6. DOMAIN disk' = Fields
  BY <1>1 DEF Wrote, DiskTyped
<1>10. BrokerTyped'
  <2>1. BrokerTyped /\ disk.cat \in Catalogs
    BY <1>1 DEF ControlInv, DiskTyped, Fields, Owned, Config, Kind
  <2>2. \/ broker' = [broker EXCEPT !.up = FALSE, !.serves = 0]
        \/ broker' = Started \/ broker' = broker
    BY DEF Do
  <2>3. CASE broker' = [broker EXCEPT !.up = FALSE, !.serves = 0]
    BY <2>1, <2>3, Numbers DEF BrokerTyped
  <2>4. CASE broker' = Started \/ broker' = broker
    <3>1. Started = broker \/ Started = [up |-> TRUE, serves |-> disk.cat, busy |-> FALSE]
      BY DEF Started
    <3>2. CASE broker' = broker
      BY <2>1, <3>2 DEF BrokerTyped
    <3>3. CASE broker' = [up |-> TRUE, serves |-> disk.cat, busy |-> FALSE]
      BY <2>1, <3>3 DEF BrokerTyped
    <3>4. QED
      BY <2>4, <3>1, <3>2, <3>3
  <2>5. QED
    BY <2>2, <2>3, <2>4
<1>7. CASE s = "unroot"
  <2>1. snaps' = <<>> /\ mark' = NoMark /\ Len(snaps') = 0
    BY <1>1, <1>7 DEF Noted
  <2>2. SnapsTyped'
    BY <2>1, Sequences DEF SnapsTyped
  <2>3. MarkTyped'
    BY <2>1 DEF MarkTyped, NoMark, Pending
  <2>4. disk'["receipt"] = NoReceipt
    <3>1. new = [Nothing EXCEPT !.block = disk.block, !.plugin = disk.plugin]
      BY <1>7, RemovePatches
    <3>2. "receipt" \in DOMAIN new /\ new["receipt"] = NoReceipt
      BY <3>1, NothingTyped DEF Nothing, Fields, Owned, State
    <3>3. QED
      BY <1>1, <3>2 DEF Wrote, DiskTyped, Fields, Owned, State
  <2>5. \A f \in Fields : disk'[f] \in Kind(f, 0)
    <3>1. \A f \in Fields \ {"receipt"} : Kind(f, 0) = Kind(f, Len(snaps))
      BY <1>1, KindGrows DEF SnapsTyped
    <3>2. disk'["receipt"] \in Kind("receipt", 0)
      BY <2>4 DEF Kind, Receipts
    <3>3. QED
      BY <1>5, <3>1, <3>2
  <2>6. \A f \in Fields : disk'[f] \in Kind(f, Len(snaps'))
    BY <2>1, <2>5
  <2>7. DiskTyped'
    BY <1>6, <2>6 DEF DiskTyped
  <2>8. QED
    BY <1>10, <2>2, <2>3, <2>7
<1>8. CASE s = "capture"
  <2> DEFINE x == Only(disk, Owned)
             z == Append(snaps, x)
  <2>1. snaps' = z /\ mark' = mark
    BY <1>1, <1>8 DEF Noted
  <2>2. /\ IsSequence(z) /\ Len(z) = Len(snaps) + 1 /\ DOMAIN z = 1..(Len(snaps) + 1)
        /\ z[Len(snaps) + 1] = x /\ (\A i \in 1..Len(snaps) : z[i] = snaps[i])
        /\ Len(snaps) \in Nat
    BY <1>1, Sequences DEF SnapsTyped
  <2>3. DOMAIN x = Owned /\ (\A f \in Owned : x[f] = disk[f])
    BY DEF Only
  <2> HIDE DEF x, z
  <2>4. \A f \in Fields : Kind(f, Len(snaps)) \subseteq Kind(f, Len(z))
    BY <2>2, KindGrows
  <2>5. DiskTyped'
    <3>1. \A f \in Fields : disk'[f] \in Kind(f, Len(snaps'))
      BY <1>5, <2>1, <2>4
    <3>2. QED
      BY <1>6, <3>1 DEF DiskTyped
  <2>6. \A n \in DOMAIN z : DOMAIN z[n] = Owned /\ FilesTyped(z[n], Len(z))
    <3>1. \A n \in 1..Len(snaps) : DOMAIN z[n] = Owned /\ FilesTyped(z[n], Len(z))
      BY <1>1, <2>2, <2>4 DEF SnapsTyped, FilesTyped, Fields
    <3>2. DOMAIN x = Owned /\ FilesTyped(x, Len(z))
      BY <1>1, <2>3, <2>4 DEF DiskTyped, FilesTyped, Fields
    <3>3. QED
      BY <2>2, <3>1, <3>2
  <2>7. SnapsTyped'
    BY <2>1, <2>2, <2>6 DEF SnapsTyped, FilesTyped, IsSequence
  <2>8. MarkTyped'
    BY <1>1, <2>1, <2>2 DEF MarkTyped, Pending
  <2>9. QED
    BY <1>10, <2>5, <2>7, <2>8
<1>9. CASE s \notin {"unroot", "capture"}
  <2>1. snaps' = snaps
    BY <1>1, <1>9 DEF Noted
  <2>2. DiskTyped' /\ SnapsTyped'
    BY <1>1, <1>5, <1>6, <2>1 DEF DiskTyped, SnapsTyped, FilesTyped, IsSequence
  <2>3. MarkTyped'
    <3>1. CASE s = "begin"
      <4>1. mark' = NewMark(me) /\ Len(snaps) > 0 /\ disk.own.ver # 0
        BY <1>1, <1>2, <3>1 DEF Noted, StepOk
      <4>2. disk.own.ver \in Versions \cup {0}
        BY <1>1 DEF DiskTyped, Fields, Owned, State, Kind, OwnType
      <4>3. /\ DOMAIN mark' = DOMAIN NoMark /\ mark'.snap = Len(snaps)
            /\ mark'.prev = disk.own.ver /\ mark'.new = me.ver
        BY <4>1 DEF NewMark, NoMark
      <4>4. Len(snaps) \in Nat
        BY <1>1 DEF SnapsTyped
      <4>5. QED
        BY <1>3, <2>1, <4>1, <4>2, <4>3, <4>4 DEF MarkTyped, Pending
    <3>2. CASE s = "clear"
      <4>1. mark' = NoMark /\ Len(snaps) \in Nat
        BY <1>1, <3>2 DEF Noted, SnapsTyped
      <4>2. QED
        BY <2>1, <4>1 DEF MarkTyped, NoMark, Pending
    <3>3. CASE s \notin {"begin", "clear"}
      <4>1. mark' = mark
        BY <1>1, <1>9, <3>3 DEF Noted
      <4>2. QED
        BY <1>1, <2>1, <4>1 DEF MarkTyped, Pending
    <3>4. QED
      BY <3>1, <3>2, <3>3
  <2>4. QED
    BY <1>10, <2>2, <2>3
<1>11. QED
  BY <1>7, <1>8, <1>9

-----------------------------------------------------------------------------
(* A step leads a program to its next position                             *)

(* What the proofs below use of a step.                                    *)
LEMMA DoMoves ==
  ASSUME ControlInv, NEW m \in Manager, Do(m)
  PROVE  LET me == mgr[m]
             now == mgr'[m]
             s == Head(me.todo)
         IN
         /\ now.cmd = me.cmd /\ now.ver = me.ver /\ now.saw = me.saw /\ now.from = me.from
         /\ now.todo = Tail(me.todo) /\ now.stage = StageAfter(me, s)
         /\ s # "stop" => now.before = me.before
         /\ \A k : Snap(k) => s = "unroot" \/ Snap(k)'
         /\ s \notin {"clear", "unroot"} => (Pending => Pending')
         /\ s \notin {"begin", "clear", "unroot"} => mark' = mark
         /\ s \in Checks => \A f \in Fields : disk'[f] = disk[f]
<1>1. Moved(m) /\ Wrote(m) /\ Noted(m) /\ SnapsTyped /\ DiskTyped /\ SnapsTyped' /\ DiskTyped'
  BY DoFacts, DoTypes DEF ControlInv
<1> DEFINE s == Head(mgr[m].todo)
<1>2. \A k : Snap(k) => s = "unroot" \/ Snap(k)'
  <2>1. CASE s = "capture"
    <3>1. snaps' = Append(snaps, Only(disk, Owned)) /\ IsSequence(snaps)
      BY <1>1, <2>1 DEF Noted, SnapsTyped
    <3>2. Len(snaps') = Len(snaps) + 1 /\ Len(snaps) \in Nat
      BY <3>1, Sequences
    <3>3. QED
      BY <3>2 DEF Snap
  <2>2. CASE s \notin {"capture", "unroot"}
    BY <1>1, <2>2 DEF Noted, Snap
  <2>3. QED
    BY <2>1, <2>2
<1>3. s \notin {"clear", "unroot"} => (Pending => Pending')
  <2>1. CASE s = "begin"
    <3>1. Ready(mgr[m], s)
      BY DoFacts
    <3>2. ~Pending
      BY <2>1, <3>1 DEF Ready
    <3>3. QED
      BY <3>2
  <2>2. CASE s \notin {"begin", "clear", "unroot"}
    BY <1>1, <2>2 DEF Noted, Pending
  <2>3. QED
    BY <2>1, <2>2
<1>4. s \in Checks => \A f \in Fields : disk'[f] = disk[f]
  BY <1>1, CheckPatches DEF Wrote, DiskTyped
<1>5. QED
  BY <1>1, <1>2, <1>3, <1>4 DEF Moved, Noted

LEMMA UpdatingMoves ==
  ASSUME ControlInv, NEW m \in Manager, Do(m), Updating(mgr[m])
  PROVE  Updating(mgr[m])'
<1> DEFINE me == mgr[m]
           s == Head(mgr[m].todo)
           k == Left(mgr[m])
<1>1. me.todo # <<>> /\ me.cmd = "update" /\ On(me, UpdateSteps) /\ Ready(me, s)
  BY DoFacts DEF Updating
<1>2. k \in 1..20 /\ s = UpdateSteps[20 - k + 1] /\ s \in Steps
  BY <1>1, OnEach DEF Stands
<1>3. /\ On(mgr[m], UpdateSteps)' /\ Left(mgr[m])' = k - 1
      /\ mgr'[m].cmd = "update" /\ mgr'[m].stage = StageAfter(me, s)
  BY <1>1, OnEach, DoMoves DEF Stands, On, Left
<1>4. CASE k = 20
  <2>1. s = "capture" /\ me.stage = "plain"
    BY <1>2, <1>4, UpdateAt DEF Updating
  <2>2. mgr'[m].stage = "plain"
    BY <1>1, <1>3, <2>1 DEF StageAfter
  <2>3. disk.own.ver # 0 /\ \A f \in Fields : disk'[f] = disk[f]
    BY <1>1, <2>1, DoMoves DEF Ready, Capturable, Checks
  <2>4. snaps' = Append(snaps, Only(disk, Owned)) /\ IsSequence(snaps)
    BY <2>1, DoFacts DEF Noted, ControlInv, SnapsTyped
  <2>5. Len(snaps') = Len(snaps) + 1 /\ Len(snaps) \in Nat
    BY <2>4, Sequences
  <2>6. disk'.own = disk.own
    BY <2>3 DEF Fields, Owned, State
  <2>7. QED
    BY <1>3, <1>4, <2>2, <2>3, <2>5, <2>6 DEF Updating
<1>5. CASE k = 19
  <2>1. s = "begin" /\ me.stage = "plain" /\ Len(snaps) > 0
    BY <1>2, <1>5, UpdateAt DEF Updating
  <2>2. mgr'[m].stage = "marked"
    BY <1>1, <1>3, <2>1 DEF StageAfter
  <2>3. Pending'
    BY <2>1, DoFacts DEF Noted, NewMark, Pending
  <2>4. QED
    BY <1>3, <1>5, <2>2, <2>3 DEF Updating
<1>6. CASE k \in 2..18
  <2>1. me.stage = "marked" /\ Pending
    BY <1>6 DEF Updating
  <2>2. s \notin {"begin", "clear", "unroot"}
    <3>1. CASE k = 2
      BY <1>2, <3>1, UpdateAt
    <3>2. CASE k \in 3..18
      <4>1. 20 - k + 1 \in 3..18
        BY <3>2
      <4>2. QED
        BY <1>2, <4>1, UpdateAt DEF Special
    <3>3. QED
      BY <1>6, <3>1, <3>2
  <2>3. s \notin {"review", "note"}
    BY <1>2, UpdateTable
  <2>4. mgr'[m].stage = "marked" /\ Pending'
    BY <1>1, <1>3, <2>1, <2>2, <2>3, DoMoves DEF StageAfter
  <2>5. QED
    BY <1>3, <1>6, <2>4 DEF Updating
<1>7. CASE k = 1
  <2>1. me.stage = "marked" /\ s = "clear"
    BY <1>2, <1>7, UpdateAt DEF Updating
  <2>2. mgr'[m].stage = "marked"
    BY <1>1, <1>3, <2>1 DEF StageAfter
  <2>3. QED
    BY <1>3, <1>7, <2>2 DEF Updating
<1>8. QED
  BY <1>2, <1>4, <1>5, <1>6, <1>7

LEMMA RollingBackMoves ==
  ASSUME ControlInv, NEW m \in Manager, Do(m), RollingBack(mgr[m])
  PROVE  RollingBack(mgr[m])'
<1> DEFINE me == mgr[m]
           s == Head(mgr[m].todo)
           k == Left(mgr[m])
<1>1. me.todo # <<>> /\ me.cmd = "rollback" /\ On(me, RollbackSteps) /\ Ready(me, s) /\ Snap(me.from)
  BY DoFacts DEF RollingBack
<1>2. k \in 1..16 /\ s = RollbackSteps[16 - k + 1] /\ s \in Steps
  BY <1>1, OnEach DEF Stands
<1>3. /\ On(mgr[m], RollbackSteps)' /\ Left(mgr[m])' = k - 1
      /\ mgr'[m].cmd = "rollback" /\ mgr'[m].stage = StageAfter(me, s) /\ mgr'[m].from = me.from
  BY <1>1, OnEach, DoMoves DEF Stands, On, Left
<1>4. s \notin {"unroot", "review", "note"}
  BY <1>2, RollbackTable
<1>5. Snap(mgr[m].from)'
  BY <1>1, <1>3, <1>4, DoMoves DEF Snap
<1>6. CASE k = 16
  <2>1. s = "capture" /\ me.stage = "plain"
    BY <1>2, <1>6, RollbackAt DEF RollingBack
  <2>2. mgr'[m].stage = "plain"
    BY <1>1, <1>3, <2>1 DEF StageAfter
  <2>3. disk.own.ver # 0 /\ \A f \in Fields : disk'[f] = disk[f]
    BY <1>1, <2>1, DoMoves DEF Ready, Capturable, Checks
  <2>4. disk'.own = disk.own
    BY <2>3 DEF Fields, Owned, State
  <2>5. QED
    BY <1>3, <1>5, <1>6, <2>2, <2>3, <2>4 DEF RollingBack
<1>7. CASE k = 15
  <2>1. s = "begin" /\ me.stage = "plain" /\ Len(snaps) > 0
    BY <1>1, <1>2, <1>7, RollbackAt DEF RollingBack, Snap
  <2>2. mgr'[m].stage = "marked"
    BY <1>1, <1>3, <2>1 DEF StageAfter
  <2>3. Pending'
    BY <2>1, DoFacts DEF Noted, NewMark, Pending
  <2>4. QED
    BY <1>3, <1>5, <1>7, <2>2, <2>3 DEF RollingBack
<1>8. CASE k = 14
  <2>1. s = "stop" /\ me.stage = "marked" /\ Pending
    BY <1>2, <1>8, RollbackAt DEF RollingBack
  <2>2. mgr'[m].stage = "restoring" /\ Pending'
    BY <1>1, <1>3, <2>1, DoMoves DEF StageAfter
  <2>3. QED
    BY <1>3, <1>5, <1>8, <2>2 DEF RollingBack
<1>9. CASE k \in 2..13
  <2>1. me.stage = "restoring" /\ Pending
    BY <1>9 DEF RollingBack
  <2>2. s \notin {"begin", "clear", "unroot", "stop"}
    <3>1. CASE k \in 2..4
      BY <1>2, <3>1, RollbackAt
    <3>2. CASE k \in 5..13
      <4>1. 16 - k + 1 \in 4..12
        BY <3>2
      <4>2. QED
        BY <1>2, <4>1, RollbackAt DEF Restores
    <3>3. QED
      BY <1>9, <3>1, <3>2
  <2>3. mgr'[m].stage = "restoring" /\ Pending'
    BY <1>1, <1>3, <1>4, <2>1, <2>2, DoMoves DEF StageAfter
  <2>4. QED
    BY <1>3, <1>5, <1>9, <2>3 DEF RollingBack
<1>10. CASE k = 1
  <2>1. me.stage = "restoring" /\ s = "clear"
    BY <1>2, <1>10, RollbackAt DEF RollingBack
  <2>2. mgr'[m].stage = "restoring"
    BY <1>1, <1>3, <2>1 DEF StageAfter
  <2>3. QED
    BY <1>3, <1>5, <1>10, <2>2 DEF RollingBack
<1>11. QED
  BY <1>2, <1>6, <1>7, <1>8, <1>9, <1>10

LEMMA RecoveringMoves ==
  ASSUME ControlInv, NEW m \in Manager, Do(m), Recovering(mgr[m])
  PROVE  Recovering(mgr[m])'
<1> DEFINE me == mgr[m]
           s == Head(mgr[m].todo)
           k == Left(mgr[m])
<1>1. me.todo # <<>> /\ me.cmd = "repair" /\ me.saw /\ On(me, RecoverSteps) /\ Snap(me.from)
  BY DoFacts DEF Recovering
<1>2. k \in 1..13 /\ s = RecoverSteps[13 - k + 1] /\ s \in Steps
  BY <1>1, OnEach DEF Stands
<1>3. /\ On(mgr[m], RecoverSteps)' /\ Left(mgr[m])' = k - 1
      /\ mgr'[m].cmd = "repair" /\ mgr'[m].stage = StageAfter(me, s) /\ mgr'[m].from = me.from
      /\ mgr'[m].saw
  BY <1>1, OnEach, DoMoves DEF Stands, On, Left
<1>4. s \notin {"unroot", "review", "note", "begin", "stop"}
  BY <1>2, RecoverTable
<1>5. Snap(mgr[m].from)'
  BY <1>1, <1>3, <1>4, DoMoves DEF Snap
<1>6. Pending /\ me.from = mark.snap /\ me.stage = IF k >= 12 THEN "plain" ELSE "writing"
  BY <1>2 DEF Recovering
<1>7. CASE k = 13
  <2>1. s = "stopPrior" /\ me.stage = "plain"
    BY <1>2, <1>6, <1>7, RecoverAt
  <2>2. mgr'[m].stage = "plain" /\ Pending' /\ mark' = mark
    BY <1>1, <1>3, <1>6, <2>1, DoMoves DEF StageAfter
  <2>3. QED
    BY <1>3, <1>5, <1>6, <1>7, <2>2 DEF Recovering
<1>8. CASE k \in 1..12
  <2>1. s # "stopPrior"
    BY <1>2, <1>8, RecoverTable
  <2>2. mgr'[m].stage = "writing"
    BY <1>1, <1>3, <1>4, <1>6, <2>1 DEF StageAfter
  <2>3. k # 1 => s # "clear"
    BY <1>2, RecoverTable
  <2>4. k # 1 => Pending' /\ mark' = mark
    BY <1>4, <1>6, <2>3, DoMoves
  <2>5. QED
    BY <1>3, <1>5, <1>6, <1>8, <2>2, <2>4 DEF Recovering
<1>9. QED
  BY <1>2, <1>7, <1>8

LEMMA InstallingMoves ==
  ASSUME ControlInv, NEW m \in Manager, Do(m), Installing(mgr[m])
  PROVE  Installing(mgr[m])'
<1> DEFINE me == mgr[m]
           s == Head(mgr[m].todo)
           k == Left(mgr[m])
<1>1. /\ me.todo # <<>> /\ me.cmd \in {"install", "repair"} /\ ~me.saw /\ On(me, StopInstall)
      /\ me.stage = IF k >= 12 THEN "plain" ELSE "writing"
  BY DoFacts DEF Installing
<1>2. k \in 1..13 /\ s = StopInstall[13 - k + 1] /\ s \in Steps
  BY <1>1, OnEach DEF Stands
<1>3. /\ On(mgr[m], StopInstall)' /\ Left(mgr[m])' = k - 1
      /\ mgr'[m].cmd = me.cmd /\ mgr'[m].stage = StageAfter(me, s) /\ ~mgr'[m].saw
  BY <1>1, OnEach, DoMoves DEF Stands, On, Left
<1>4. s \notin {"unroot", "review", "note", "begin"}
  BY <1>2, InstallTable
<1>5. CASE k = 13
  <2>1. s = "stop" /\ me.stage = "plain"
    BY <1>1, <1>2, <1>5, InstallAt
  <2>2. mgr'[m].stage = "plain"
    BY <1>1, <1>3, <2>1 DEF StageAfter
  <2>3. QED
    BY <1>1, <1>3, <1>5, <2>2 DEF Installing
<1>6. CASE k \in 1..12
  <2>1. s \notin {"stop", "stopPrior"}
    BY <1>2, <1>6, InstallTable
  <2>2. mgr'[m].stage = "writing"
    BY <1>1, <1>3, <1>4, <2>1 DEF StageAfter
  <2>3. QED
    BY <1>1, <1>3, <1>6, <2>2 DEF Installing
<1>7. QED
  BY <1>2, <1>5, <1>6

LEMMA ImportingMoves ==
  ASSUME ControlInv, NEW m \in Manager, Do(m), Importing(mgr[m])
  PROVE  Importing(mgr[m])'
<1> DEFINE me == mgr[m]
           s == Head(mgr[m].todo)
           k == Left(mgr[m])
<1>1. me.todo # <<>> /\ me.cmd = "import" /\ On(me, ImportSteps)
  BY DoFacts DEF Importing
<1>2. k \in 1..10 /\ s = ImportSteps[10 - k + 1] /\ s \in Steps
  BY <1>1, OnEach DEF Stands
<1>3. /\ On(mgr[m], ImportSteps)' /\ Left(mgr[m])' = k - 1
      /\ mgr'[m].cmd = "import" /\ mgr'[m].stage = StageAfter(me, s)
  BY <1>1, OnEach, DoMoves DEF Stands, On, Left
<1>4. s # "begin"
  BY <1>2, ImportTable
<1>5. CASE k = 10
  <2>1. s = "stop" /\ me.stage = "plain"
    BY <1>2, <1>5, ImportTable DEF Importing
  <2>2. mgr'[m].stage = "stopped"
    BY <1>1, <1>3, <2>1 DEF StageAfter
  <2>3. QED
    BY <1>3, <1>5, <2>2 DEF Importing
<1>6. CASE k = 9
  <2>1. s = "review" /\ me.stage = "stopped"
    BY <1>2, <1>6, ImportTable DEF Importing
  <2>2. mgr'[m].stage = "importing"
    BY <1>1, <1>3, <2>1 DEF StageAfter
  <2>3. QED
    BY <1>3, <1>6, <2>2 DEF Importing
<1>7. CASE k \in 7..8
  <2>1. s \notin {"stop", "review", "note"} /\ me.stage = "importing"
    BY <1>2, <1>7, ImportTable DEF Importing
  <2>2. mgr'[m].stage = "importing"
    BY <1>1, <1>3, <1>4, <2>1 DEF StageAfter
  <2>3. QED
    BY <1>3, <1>7, <2>2 DEF Importing
<1>8. CASE k = 6
  <2>1. s = "note" /\ me.stage = "importing"
    BY <1>2, <1>8, ImportTable DEF Importing
  <2>2. mgr'[m].stage = "imported"
    BY <1>1, <1>3, <2>1 DEF StageAfter
  <2>3. QED
    BY <1>3, <1>8, <2>2 DEF Importing
<1>9. CASE k \in 1..5
  <2>1. s \notin {"stop", "review", "note"} /\ me.stage = "imported"
    BY <1>2, <1>9, ImportTable DEF Importing
  <2>2. mgr'[m].stage = "imported"
    BY <1>1, <1>3, <1>4, <2>1 DEF StageAfter
  <2>3. QED
    BY <1>3, <1>9, <2>2 DEF Importing
<1>10. QED
  BY <1>2, <1>5, <1>6, <1>7, <1>8, <1>9

LEMMA RestoringImportMoves ==
  ASSUME ControlInv, NEW m \in Manager, Do(m), RestoringImport(mgr[m])
  PROVE  RestoringImport(mgr[m])'
<1> DEFINE me == mgr[m]
           s == Head(mgr[m].todo)
           k == Left(mgr[m])
<1>1. me.todo # <<>> /\ me.cmd = "catalog_rollback" /\ On(me, CatalogBackSteps) /\ Ready(me, s)
  BY DoFacts DEF RestoringImport
<1>2. k \in 1..9 /\ s = CatalogBackSteps[9 - k + 1] /\ s \in Steps
  BY <1>1, OnEach DEF Stands
<1>3. /\ On(mgr[m], CatalogBackSteps)' /\ Left(mgr[m])' = k - 1
      /\ mgr'[m].cmd = "catalog_rollback" /\ mgr'[m].stage = StageAfter(me, s)
  BY <1>1, OnEach, DoMoves DEF Stands, On, Left
<1>4. CASE k = 9
  <2>1. s = "stop" /\ me.stage = "plain"
    BY <1>2, <1>4, CatalogBackTable DEF RestoringImport
  <2>2. mgr'[m].stage = "stopped"
    BY <1>1, <1>3, <2>1 DEF StageAfter
  <2>3. mgr'[m].before = disk
    BY <1>1, <2>1, DoFacts DEF Moved
  <2>4. disk'.cat = disk.cat /\ disk'.up = disk.up /\ disk'.imports = disk.imports
    BY <2>1, DoMoves DEF Checks, Fields, Owned, Config
  <2>5. SameCatalog(mgr[m].before)'
    BY <2>3, <2>4 DEF SameCatalog
  <2>6. QED
    BY <1>3, <1>4, <2>2, <2>5 DEF RestoringImport
<1>5. CASE k = 8
  <2>1. s = "match" /\ me.stage = "stopped" /\ SameCatalog(me.before)
    BY <1>2, <1>5, CatalogBackTable DEF RestoringImport
  <2>2. mgr'[m].stage = "stopped" /\ mgr'[m].before = me.before
    BY <1>1, <1>3, <2>1, DoMoves DEF StageAfter
  <2>3. Matching(disk) # {} /\ Matching(me.before) = Matching(disk)
    BY <1>1, <2>1 DEF Ready, Matching, SameCatalog
  <2>4. QED
    BY <1>3, <1>5, <2>2, <2>3 DEF RestoringImport
<1>6. CASE k \in 1..7
  <2>1. /\ s \notin {"stop", "review", "note", "begin"} /\ me.stage = "stopped"
        /\ Matching(me.before) # {}
    BY <1>2, <1>6, CatalogBackTable DEF RestoringImport
  <2>2. mgr'[m].stage = "stopped" /\ mgr'[m].before = me.before
    BY <1>1, <1>3, <2>1, DoMoves DEF StageAfter
  <2>3. QED
    BY <1>3, <1>6, <2>1, <2>2 DEF RestoringImport
<1>7. QED
  BY <1>2, <1>4, <1>5, <1>6

LEMMA UninstallingMoves ==
  ASSUME ControlInv, NEW m \in Manager, Do(m), Uninstalling(mgr[m])
  PROVE  Uninstalling(mgr[m])'
<1> DEFINE me == mgr[m]
           s == Head(mgr[m].todo)
           k == Left(mgr[m])
<1>1. /\ me.todo # <<>> /\ me.cmd = "uninstall" /\ On(me, UninstallSteps)
      /\ me.stage = IF k >= 3 THEN "plain" ELSE "writing"
  BY DoFacts DEF Uninstalling
<1>2. k \in 1..4 /\ s = UninstallSteps[4 - k + 1] /\ s \in Steps
  BY <1>1, OnEach DEF Stands
<1>3. /\ On(mgr[m], UninstallSteps)' /\ Left(mgr[m])' = k - 1
      /\ mgr'[m].cmd = "uninstall" /\ mgr'[m].stage = StageAfter(me, s)
  BY <1>1, OnEach, DoMoves DEF Stands, On, Left
<1>4. CASE k = 4
  <2>1. s = "stop" /\ me.stage = "plain"
    BY <1>1, <1>2, <1>4, UninstallTable
  <2>2. mgr'[m].stage = "plain"
    BY <1>1, <1>3, <2>1 DEF StageAfter
  <2>3. QED
    BY <1>1, <1>3, <1>4, <2>2 DEF Uninstalling
<1>5. CASE k \in 1..3
  <2>1. s \notin {"stop", "stopPrior", "begin", "review", "note"} /\ me.stage \in {"plain", "writing"}
    BY <1>1, <1>2, <1>5, UninstallTable
  <2>2. mgr'[m].stage = "writing"
    BY <1>1, <1>3, <2>1 DEF StageAfter
  <2>3. QED
    BY <1>1, <1>3, <1>5, <2>2 DEF Uninstalling
<1>6. QED
  BY <1>2, <1>4, <1>5

LEMMA TakingBackMoves ==
  ASSUME ControlInv, NEW m \in Manager, Do(m), TakingBack(mgr[m])
  PROVE  TakingBack(mgr[m])'
<1> DEFINE me == mgr[m]
           s == Head(mgr[m].todo)
           k == Left(mgr[m])
<1>1. me.todo # <<>> /\ me.stage = "undoing"
  BY DoFacts DEF TakingBack
<1>2. /\ mgr'[m].cmd = me.cmd /\ mgr'[m].stage = "undoing" /\ mgr'[m].from = me.from
      /\ mgr'[m].todo = Tail(me.todo)
  BY <1>1, DoMoves DEF StageAfter
<1>3. CASE me.cmd \in {"update", "rollback"}
  <2>1. /\ On(me, UndoSwitch) /\ Snap(me.from) /\ (k # 0 => Pending /\ me.from = mark.snap)
    BY <1>3 DEF TakingBack
  <2>2. k \in 1..11 /\ s = UndoSwitch[11 - k + 1] /\ s \in Steps
    BY <1>1, <2>1, OnEach DEF Stands
  <2>3. On(mgr[m], UndoSwitch)' /\ Left(mgr[m])' = k - 1
    BY <1>1, <1>2, <2>1, OnEach DEF Stands, On, Left
  <2>4. s \notin {"unroot", "begin"} /\ (k # 1 => s # "clear")
    BY <2>2, UndoTable
  <2>5. Snap(mgr[m].from)'
    BY <1>2, <2>1, <2>4, DoMoves DEF Snap
  <2>6. k # 1 => Pending' /\ mark' = mark
    BY <2>1, <2>2, <2>4, DoMoves
  <2>7. QED
    BY <1>2, <1>3, <2>1, <2>2, <2>3, <2>5, <2>6 DEF TakingBack
<1>4. CASE me.cmd = "import"
  <2>1. CASE On(me, ImportUndo)
    <3>1. On(mgr[m], ImportUndo)'
      BY <1>1, <1>2, <2>1, OnEach DEF Stands, On
    <3>2. QED
      BY <1>2, <1>4, <3>1 DEF TakingBack
  <2>2. CASE On(me, ImportUndoEarly)
    <3>1. On(mgr[m], ImportUndoEarly)'
      BY <1>1, <1>2, <2>2, OnEach DEF Stands, On
    <3>2. QED
      BY <1>2, <1>4, <3>1 DEF TakingBack
  <2>3. QED
    BY <1>4, <2>1, <2>2 DEF TakingBack
<1>5. CASE me.cmd = "catalog_rollback"
  <2>1. On(me, CatalogBackUndo)
    BY <1>5 DEF TakingBack
  <2>2. On(mgr[m], CatalogBackUndo)'
    BY <1>1, <1>2, <2>1, OnEach DEF Stands, On
  <2>3. QED
    BY <1>2, <1>5, <2>2 DEF TakingBack
<1>6. QED
  BY <1>3, <1>4, <1>5 DEF TakingBack

(* Every step keeps its command where its program says.                    *)
LEMMA DoControl ==
  ASSUME ControlInv, NEW m \in Manager, Do(m)
  PROVE  ControlInv'
<1>1. /\ lock = m /\ Working(mgr[m]) /\ Moved(m) /\ Noted(m)
  BY DoFacts
<1>2. DiskTyped' /\ SnapsTyped' /\ MarkTyped' /\ BrokerTyped'
  BY DoTypes
<1>3. Working(mgr[m])'
  <2>1. \A f \in Owned \ {"receipt"} : mgr'[m].before[f] \in Kind(f, 0)
    <3>1. \A f \in Owned \ {"receipt"} : mgr[m].before[f] \in Kind(f, 0)
      BY <1>1 DEF Working
    <3>2. \A f \in Owned \ {"receipt"} : disk[f] \in Kind(f, 0)
      <4>1. \A f \in Fields \ {"receipt"} : Kind(f, 0) = Kind(f, Len(snaps))
        BY KindGrows DEF ControlInv, SnapsTyped
      <4>2. QED
        BY <4>1 DEF ControlInv, DiskTyped, Fields
    <3>3. mgr'[m].before = disk \/ mgr'[m].before = mgr[m].before
      BY <1>1 DEF Moved
    <3>4. QED
      BY <3>1, <3>2, <3>3
  <2>2. \/ Updating(mgr[m])' \/ RollingBack(mgr[m])' \/ Recovering(mgr[m])' \/ Installing(mgr[m])'
        \/ Importing(mgr[m])' \/ RestoringImport(mgr[m])' \/ Uninstalling(mgr[m])'
        \/ TakingBack(mgr[m])'
    BY <1>1, UpdatingMoves, RollingBackMoves, RecoveringMoves, InstallingMoves, ImportingMoves,
       RestoringImportMoves, UninstallingMoves, TakingBackMoves DEF Working
  <2>3. QED
    BY <2>1, <2>2 DEF Working
<1>4. ASSUME NEW o \in Manager PROVE ManagerTyped(o)' /\ (lock' = o => Working(mgr[o])')
  <2>1. CASE o = m
    <3>1. ManagerTyped(m)'
      BY <1>1 DEF ControlInv, ManagerTyped, Moved, Noted
    <3>2. QED
      BY <1>3, <2>1, <3>1
  <2>2. CASE o # m
    <3>1. mgr'[o] = mgr[o] /\ lock' = lock
      BY <1>1, <2>2 DEF Moved, Noted
    <3>2. QED
      BY <1>1, <2>2, <3>1 DEF ControlInv, ManagerTyped
  <2>3. QED
    BY <2>1, <2>2
<1>5. lock' \in Manager \cup {"free"} /\ DOMAIN mgr' = Manager
  BY <1>1 DEF ControlInv, Moved, Noted
<1>6. QED
  BY <1>2, <1>4, <1>5 DEF ControlInv

-----------------------------------------------------------------------------
(* A step that fails, and the end of a command                             *)

LEMMA EndControl ==
  ASSUME ControlInv, NEW m \in Manager, End(m), lock = m,
         disk' = disk, snaps' = snaps, mark' = mark, broker' = broker
  PROVE  ControlInv'
<1>1. /\ DOMAIN mgr' = Manager /\ mgr'[m] = Idle /\ (\A o \in Manager \ {m} : mgr'[o] = mgr[o])
      /\ lock' = "free"
  BY DEF End, ControlInv
<1>2. DiskTyped' /\ SnapsTyped' /\ MarkTyped' /\ BrokerTyped'
  BY DEF ControlInv, DiskTyped, SnapsTyped, MarkTyped, BrokerTyped, Pending, FilesTyped, IsSequence
<1>3. ASSUME NEW o \in Manager PROVE ManagerTyped(o)' /\ lock' # o
  <2>1. lock' # o
    BY <1>1, ReleaseAssumption
  <2>2. CASE o = m
    BY <1>1, <2>1, <2>2 DEF ManagerTyped, Idle
  <2>3. CASE o # m
    BY <1>1, <2>1, <2>3 DEF ControlInv, ManagerTyped
  <2>4. QED
    BY <2>1, <2>2, <2>3
<1>4. QED
  BY <1>1, <1>2, <1>3 DEF ControlInv

(* A command turns to its undo program.                                    *)
TurnsBack(m) ==
  LET me == mgr[m] IN
  /\ lock' = lock
  /\ DOMAIN mgr' = Manager /\ (\A o \in Manager \ {m} : mgr'[o] = mgr[o])
  /\ DOMAIN mgr'[m] = DOMAIN Idle
  /\ mgr'[m].todo = Undo(me) /\ mgr'[m].stage = "undoing" /\ mgr'[m].from = mark.snap
  /\ mgr'[m].pc = me.pc /\ mgr'[m].cmd = me.cmd /\ mgr'[m].ver = me.ver /\ mgr'[m].arg = me.arg
  /\ mgr'[m].saw = me.saw /\ mgr'[m].seen = me.seen /\ mgr'[m].before = me.before
  /\ mgr'[m].end = Verdict(me)
LEMMA BreakTurns ==
  ASSUME ControlInv, NEW m \in Manager, Break(m),
         ~(mgr[m].stage = "undoing" \/ Undo(mgr[m]) = <<>>)
  PROVE  TurnsBack(m)
<1> DEFINE u == Undo(mgr[m])
           v == Verdict(mgr[m])
<1>1. /\ lock' = lock
      /\ mgr' = [mgr EXCEPT ![m].todo = u, ![m].stage = "undoing", ![m].end = v, ![m].from = mark.snap]
  BY DEF Break
<1> HIDE DEF u, v
<1>2. /\ DOMAIN mgr' = Manager /\ (\A o \in Manager \ {m} : mgr'[o] = mgr[o])
      /\ mgr'[m] = [mgr[m] EXCEPT !.todo = u, !.stage = "undoing", !.end = v, !.from = mark.snap]
  BY <1>1 DEF ControlInv
<1>3. DOMAIN mgr[m] = DOMAIN Idle
  BY DEF ControlInv, ManagerTyped
<1>4. QED
  BY <1>1, <1>2, <1>3 DEF Idle, TurnsBack, u, v

LEMMA BreakControl ==
  ASSUME ControlInv, NEW m \in Manager, Break(m), mgr[m].pc = "run", mgr[m].todo # <<>>
  PROVE  ControlInv'
<1> DEFINE me == mgr[m]
<1>1. lock = m /\ Working(me) /\ ManagerTyped(m) /\ DOMAIN mgr = Manager
  BY DEF ControlInv, ManagerTyped
<1>2. disk' = disk /\ snaps' = snaps /\ mark' = mark /\ broker' = broker
  BY DEF Break
<1>3. CASE me.stage = "undoing" \/ Undo(me) = <<>>
  <2>1. End(m)
    BY <1>3 DEF Break
  <2>2. QED
    BY <1>1, <1>2, <2>1, EndControl
<1>4. CASE me.stage # "undoing" /\ Undo(me) # <<>>
  <2>1. lock' = lock
    BY <1>4, BreakTurns DEF TurnsBack
  <2>2. /\ DOMAIN mgr' = Manager /\ (\A o \in Manager \ {m} : mgr'[o] = mgr[o])
        /\ DOMAIN mgr'[m] = DOMAIN Idle
        /\ mgr'[m].todo = Undo(me) /\ mgr'[m].stage = "undoing" /\ mgr'[m].from = mark.snap
        /\ mgr'[m].pc = me.pc /\ mgr'[m].cmd = me.cmd /\ mgr'[m].ver = me.ver /\ mgr'[m].arg = me.arg
        /\ mgr'[m].saw = me.saw /\ mgr'[m].seen = me.seen /\ mgr'[m].before = me.before
    BY <1>4, BreakTurns DEF TurnsBack
  <2>3. TakingBack(mgr[m])'
    <3>1. CASE me.cmd \in {"update", "rollback"}
      <4>1. me.stage \in {"plain", "marked", "restoring"} /\ (me.stage # "plain" => (Left(me) # 0 => Pending))
        BY <1>1, <1>4, <3>1
           DEF Working, Updating, RollingBack, Recovering, Installing, Importing, RestoringImport,
               Uninstalling, TakingBack
      <4>2. Left(me) # 0
        BY <1>1, <1>4, <3>1, NotOn, UpdateTable, RollbackTable
           DEF Working, Updating, RollingBack, Recovering, Installing, Importing, RestoringImport,
               Uninstalling, TakingBack
      <4>3. me.stage # "plain"
        BY <1>4, <3>1 DEF Undo
      <4>4. Undo(me) = <<"clear">> \/ Undo(me) = UndoSwitch
        BY <3>1, <4>1, <4>3 DEF Undo
      <4>5. IsLeft(Undo(me), UndoSwitch)
        BY <4>4, EndsOfPrograms, AllLeft, UndoTable
      <4>6. Pending' /\ Snap(mark.snap)' /\ Snap(mgr[m].from)'
        BY <1>1, <1>2, <2>2, <4>1, <4>2, <4>3 DEF Pending, Snap, ControlInv, MarkTyped, SnapsTyped
      <4>7. QED
        BY <1>2, <2>2, <3>1, <4>5, <4>6 DEF TakingBack, On
    <3>2. CASE me.cmd = "import"
      <4>1. me.stage \in {"plain", "stopped", "importing", "imported"}
        BY <1>1, <1>4, <3>2
           DEF Working, Updating, RollingBack, Recovering, Installing, Importing, RestoringImport,
               Uninstalling, TakingBack
      <4>2. Undo(me) \in {<<"try">>, ImportUndo, ImportUndoEarly}
        BY <1>4, <3>2, <4>1 DEF Undo
      <4>3. IsLeft(Undo(me), ImportUndo) \/ IsLeft(Undo(me), ImportUndoEarly)
        BY <4>2, EndsOfPrograms, AllLeft, ImportUndoTable
      <4>4. QED
        BY <2>2, <3>2, <4>3 DEF TakingBack, On
    <3>3. CASE me.cmd = "catalog_rollback"
      <4>1. me.stage \in {"plain", "stopped"}
        BY <1>1, <1>4, <3>3
           DEF Working, Updating, RollingBack, Recovering, Installing, Importing, RestoringImport,
               Uninstalling, TakingBack
      <4>2. Undo(me) = CatalogBackUndo
        BY <1>4, <3>3, <4>1 DEF Undo
      <4>3. IsLeft(Undo(me), CatalogBackUndo)
        BY <4>2, AllLeft, CatalogBackTable
      <4>4. QED
        BY <2>2, <3>3, <4>3 DEF TakingBack, On
    <3>4. CASE me.cmd \in {"install", "repair", "uninstall"}
      <4>1. me.stage \in {"plain", "writing"}
        BY <1>1, <1>4, <3>4
           DEF Working, Updating, RollingBack, Recovering, Installing, Importing, RestoringImport,
               Uninstalling, TakingBack
      <4>2. Undo(me) = <<>>
        BY <3>4, <4>1 DEF Undo
      <4>3. QED
        BY <1>4, <4>2
    <3>5. QED
      BY <1>1, <3>1, <3>2, <3>3, <3>4
         DEF Working, Updating, RollingBack, Recovering, Installing, Importing, RestoringImport,
             Uninstalling, TakingBack
  <2>4. Working(mgr[m])'
    BY <1>1, <2>2, <2>3 DEF Working
  <2>5. DiskTyped' /\ SnapsTyped' /\ MarkTyped' /\ BrokerTyped'
    BY <1>2 DEF ControlInv, DiskTyped, SnapsTyped, MarkTyped, BrokerTyped, Pending, FilesTyped, IsSequence
  <2>6. ASSUME NEW o \in Manager PROVE ManagerTyped(o)' /\ (lock' = o => Working(mgr[o])')
    <3>1. CASE o = m
      BY <1>1, <2>1, <2>2, <2>4, <3>1 DEF ManagerTyped
    <3>2. CASE o # m
      BY <1>1, <2>1, <2>2, <3>2 DEF ControlInv, ManagerTyped
    <3>3. QED
      BY <3>1, <3>2
  <2>7. QED
    BY <2>1, <2>2, <2>5, <2>6 DEF ControlInv
<1>5. QED
  BY <1>3, <1>4

(* A change of the disk or the broker beside the command under way.        *)
LEMMA BesideControl ==
  ASSUME ControlInv, DiskTyped', BrokerTyped',
         snaps' = snaps, mark' = mark, lock' = lock, mgr' = mgr,
         disk.own.ver = disk'.own.ver,
         \A m \in Manager : lock = m /\ RestoringImport(mgr[m]) /\ Left(mgr[m]) = 8 => disk' = disk
  PROVE  ControlInv'
<1>1. SnapsTyped' /\ MarkTyped'
  BY DEF ControlInv, SnapsTyped, MarkTyped, Pending, FilesTyped, IsSequence
<1>2. ASSUME NEW m \in Manager, lock = m PROVE Working(mgr[m])'
  <2> DEFINE me == mgr[m]
  <2>0. Working(me) /\ mgr'[m] = me
    BY <1>2 DEF ControlInv
  <2>1. Updating(me) => Updating(mgr[m])'
    BY <2>0 DEF Updating, On, Left, Pending
  <2>2. RollingBack(me) => RollingBack(mgr[m])'
    BY <2>0 DEF RollingBack, On, Left, Pending, Snap
  <2>3. Recovering(me) => Recovering(mgr[m])'
    BY <2>0 DEF Recovering, On, Left, Pending, Snap
  <2>4. Installing(me) => Installing(mgr[m])'
    BY <2>0 DEF Installing, On, Left
  <2>5. Importing(me) => Importing(mgr[m])'
    BY <2>0 DEF Importing, On, Left
  <2>6. RestoringImport(me) => RestoringImport(mgr[m])'
    BY <1>2, <2>0 DEF RestoringImport, On, Left, SameCatalog
  <2>7. Uninstalling(me) => Uninstalling(mgr[m])'
    BY <2>0 DEF Uninstalling, On, Left
  <2>8. TakingBack(me) => TakingBack(mgr[m])'
    BY <2>0 DEF TakingBack, On, Left, Pending, Snap
  <2>9. QED
    BY <2>0, <2>1, <2>2, <2>3, <2>4, <2>5, <2>6, <2>7, <2>8 DEF Working
<1>3. \A m \in Manager : ManagerTyped(m)'
  BY DEF ControlInv, ManagerTyped
<1>4. QED
  BY <1>1, <1>2, <1>3 DEF ControlInv

-----------------------------------------------------------------------------
(* A command that begins                                                   *)

(* An admitted command, with its program before it.                        *)
TakesLock(m) ==
  LET me == mgr[m]
      now == mgr'[m]
  IN
  /\ lock' = m
  /\ DOMAIN mgr' = Manager /\ (\A o \in Manager \ {m} : mgr'[o] = mgr[o])
  /\ DOMAIN now = DOMAIN Idle
  /\ now.todo = Program(me) /\ now.stage = "plain" /\ now.pc = "run" /\ now.before = disk
  /\ now.from = IF me.cmd = "rollback" THEN disk.receipt.snap ELSE mark.snap
  /\ now.ver = IF me.cmd = "rollback" THEN disk.receipt.prev ELSE me.ver
  /\ now.cmd = me.cmd /\ now.arg = me.arg /\ now.saw = me.saw /\ now.seen = me.seen
  /\ now.end = me.end
LEMMA LockTakes ==
  ASSUME ControlInv, NEW m \in Manager, Lock(m), Admitted(mgr[m])
  PROVE  TakesLock(m)
<1> DEFINE v == IF mgr[m].cmd = "rollback" THEN disk.receipt.prev ELSE mgr[m].ver
           f == IF mgr[m].cmd = "rollback" THEN disk.receipt.snap ELSE mark.snap
           p == Program(mgr[m])
<1>1. /\ lock' = m
      /\ mgr' = [mgr EXCEPT ![m].pc = "run", ![m].before = disk, ![m].todo = p, ![m].ver = v,
                            ![m].from = f]
  BY DEF Lock
<1>2. DOMAIN mgr = Manager /\ DOMAIN mgr[m] = DOMAIN Idle /\ mgr[m].stage = "plain"
  BY DEF ControlInv, ManagerTyped, Lock
<1> HIDE DEF v, f, p
<1>3. /\ DOMAIN mgr' = Manager /\ (\A o \in Manager \ {m} : mgr'[o] = mgr[o])
      /\ mgr'[m] = [mgr[m] EXCEPT !.pc = "run", !.before = disk, !.todo = p, !.ver = v, !.from = f]
  BY <1>1, <1>2
<1>4. QED
  BY <1>1, <1>2, <1>3 DEF Idle, TakesLock, v, f, p

LEMMA LockControl ==
  ASSUME ControlInv, NEW m \in Manager, Lock(m)
  PROVE  ControlInv'
<1> DEFINE me == mgr[m]
<1>1. /\ lock = "free" /\ me.pc = "ask" /\ ManagerTyped(m) /\ DOMAIN mgr = Manager
      /\ disk' = disk /\ snaps' = snaps /\ mark' = mark /\ broker' = broker
  BY DEF ControlInv, Lock, LockIsFree
<1>2. DiskTyped' /\ SnapsTyped' /\ MarkTyped' /\ BrokerTyped'
  BY <1>1 DEF ControlInv, DiskTyped, SnapsTyped, MarkTyped, BrokerTyped, Pending, FilesTyped, IsSequence
<1>3. /\ me.cmd \in CommandNames /\ me.ver \in Versions /\ me.arg \in Imports \cup {0}
      /\ me.saw \in BOOLEAN /\ (me.saw => me.cmd = "repair") /\ (me.cmd = "rollback" => me.seen # 0)
      /\ me.stage = "plain" /\ DOMAIN me = DOMAIN Idle
  BY <1>1 DEF ManagerTyped
<1>4. CASE ~Admitted(me)
  <2>1. mgr' = [mgr EXCEPT ![m] = Idle] /\ lock' = lock
    BY <1>4 DEF Lock
  <2>2. mgr'[m] = Idle /\ (\A o \in Manager \ {m} : mgr'[o] = mgr[o]) /\ DOMAIN mgr' = Manager
    BY <1>1, <2>1
  <2>3. ASSUME NEW o \in Manager PROVE ManagerTyped(o)' /\ lock' # o
    <3>1. lock' # o
      BY <1>1, <2>1, ReleaseAssumption
    <3>2. CASE o = m
      BY <2>2, <3>1, <3>2 DEF ManagerTyped, Idle
    <3>3. CASE o # m
      BY <2>1, <2>2, <3>1, <3>3 DEF ControlInv, ManagerTyped
    <3>4. QED
      BY <3>1, <3>2, <3>3
  <2>4. QED
    BY <1>1, <1>2, <2>1, <2>2, <2>3 DEF ControlInv
<1>5. CASE Admitted(me)
  <2> DEFINE v == IF me.cmd = "rollback" THEN disk.receipt.prev ELSE me.ver
             f == IF me.cmd = "rollback" THEN disk.receipt.snap ELSE mark.snap
             p == Program(me)
  <2>1. lock' = m
    BY <1>5, LockTakes DEF TakesLock
  <2>2. /\ DOMAIN mgr' = Manager /\ (\A o \in Manager \ {m} : mgr'[o] = mgr[o])
        /\ DOMAIN mgr'[m] = DOMAIN Idle
        /\ mgr'[m].todo = p /\ mgr'[m].stage = "plain" /\ mgr'[m].from = f
        /\ mgr'[m].pc = "run" /\ mgr'[m].cmd = me.cmd /\ mgr'[m].ver = v /\ mgr'[m].arg = me.arg
        /\ mgr'[m].saw = me.saw /\ mgr'[m].seen = me.seen /\ mgr'[m].before = disk
    BY <1>5, LockTakes DEF TakesLock
  <2>3. v \in Versions /\ (me.cmd = "rollback" => Snap(f))
    <3>1. CASE me.cmd = "rollback"
      <4>1. disk.receipt \in Receipts(Len(snaps))
        BY DEF ControlInv, DiskTyped, Fields, Owned, State, Kind
      <4>2. disk.receipt.cur # 0
        BY <1>3, <1>5, <3>1 DEF Admitted
      <4>3. disk.receipt \in [prev : Versions, cur : Versions, snap : 1..Len(snaps)]
        BY <4>1, <4>2 DEF Receipts, NoReceipt
      <4>4. QED
        BY <3>1, <4>3 DEF Snap
    <3>2. CASE me.cmd # "rollback"
      BY <1>3, <3>2
    <3>3. QED
      BY <3>1, <3>2
  <2> HIDE DEF v
  <2>4. \A g \in Owned \ {"receipt"} : mgr'[m].before[g] \in Kind(g, 0)
    <3>1. \A g \in Fields \ {"receipt"} : Kind(g, 0) = Kind(g, Len(snaps))
      BY KindGrows DEF ControlInv, SnapsTyped
    <3>2. QED
      BY <2>2, <3>1 DEF ControlInv, DiskTyped, Fields
  <2>5. Working(mgr[m])'
    <3>1. CASE me.cmd = "update"
      <4>1. p = UpdateSteps
        BY <3>1 DEF Program
      <4>2. On(mgr[m], UpdateSteps)' /\ Left(mgr[m])' = 20
        BY <2>2, <4>1, AllLeft, UpdateTable DEF On, Left
      <4>3. Updating(mgr[m])'
        BY <2>2, <3>1, <4>2 DEF Updating
      <4>4. QED
        BY <2>4, <4>3 DEF Working
    <3>2. CASE me.cmd = "rollback"
      <4>1. p = RollbackSteps
        BY <3>2 DEF Program
      <4>2. On(mgr[m], RollbackSteps)' /\ Left(mgr[m])' = 16
        BY <2>2, <4>1, AllLeft, RollbackTable DEF On, Left
      <4>3. Snap(mgr[m].from)'
        BY <1>1, <2>2, <2>3, <3>2 DEF Snap
      <4>4. RollingBack(mgr[m])'
        BY <2>2, <3>2, <4>2, <4>3 DEF RollingBack
      <4>5. QED
        BY <2>4, <4>4 DEF Working
    <3>3. CASE me.cmd = "import"
      <4>1. p = ImportSteps
        BY <3>3 DEF Program
      <4>2. On(mgr[m], ImportSteps)' /\ Left(mgr[m])' = 10
        BY <2>2, <4>1, AllLeft, ImportTable DEF On, Left
      <4>3. Importing(mgr[m])'
        BY <2>2, <3>3, <4>2 DEF Importing
      <4>4. QED
        BY <2>4, <4>3 DEF Working
    <3>4. CASE me.cmd = "catalog_rollback"
      <4>1. p = CatalogBackSteps
        BY <3>4 DEF Program
      <4>2. On(mgr[m], CatalogBackSteps)' /\ Left(mgr[m])' = 9
        BY <2>2, <4>1, AllLeft, CatalogBackTable DEF On, Left
      <4>3. RestoringImport(mgr[m])'
        BY <2>2, <3>4, <4>2 DEF RestoringImport
      <4>4. QED
        BY <2>4, <4>3 DEF Working
    <3>5. CASE me.cmd = "uninstall"
      <4>1. p = UninstallSteps
        BY <3>5 DEF Program
      <4>2. On(mgr[m], UninstallSteps)' /\ Left(mgr[m])' = 4
        BY <2>2, <4>1, AllLeft, UninstallTable DEF On, Left
      <4>3. Uninstalling(mgr[m])'
        BY <2>2, <3>5, <4>2 DEF Uninstalling
      <4>4. QED
        BY <2>4, <4>3 DEF Working
    <3>6. CASE me.cmd \in {"install", "repair"} /\ me.saw
      <4>1. p = RecoverSteps /\ f = mark.snap /\ me.cmd = "repair" /\ Pending
        BY <1>3, <1>5, <3>6 DEF Program, Admitted, MarkerSound
      <4>2. On(mgr[m], RecoverSteps)' /\ Left(mgr[m])' = 13
        BY <2>2, <4>1, AllLeft, RecoverTable DEF On, Left
      <4>3. Snap(mgr[m].from)' /\ Pending' /\ mgr'[m].from = mark'.snap
        BY <1>1, <2>2, <4>1 DEF Snap, Pending, ControlInv, MarkTyped, SnapsTyped
      <4>4. Recovering(mgr[m])'
        BY <2>2, <3>6, <4>1, <4>2, <4>3 DEF Recovering
      <4>5. QED
        BY <2>4, <4>4 DEF Working
    <3>7. CASE me.cmd \in {"install", "repair"} /\ ~me.saw
      <4>1. p = StopInstall \/ p = InstallSteps(FALSE)
        BY <3>7 DEF Program, StopInstall
      <4>2. On(mgr[m], StopInstall)' /\ Left(mgr[m])' \in 12..13
        <5>1. IsLeft(p, StopInstall)
          BY <4>1, EndsOfPrograms, AllLeft, InstallTable
        <5>2. Len(p) \in 12..13
          <6>1. Len(InstallSteps(FALSE)) = 12 /\ Len(StopInstall) = 13
            BY EndsOfPrograms, InstallTable
          <6> HIDE DEF p
          <6>2. Len(p) = 12 \/ Len(p) = 13
            BY <4>1, <6>1
          <6>3. QED
            BY <6>2
        <5>3. QED
          BY <2>2, <5>1, <5>2 DEF On, Left
      <4>3. Installing(mgr[m])'
        BY <1>3, <2>2, <3>7, <4>2 DEF Installing
      <4>4. QED
        BY <2>4, <4>3 DEF Working
    <3>8. QED
      BY <1>3, <3>1, <3>2, <3>3, <3>4, <3>5, <3>6, <3>7 DEF CommandNames
  <2>6. ASSUME NEW o \in Manager PROVE ManagerTyped(o)' /\ (lock' = o => Working(mgr[o])')
    <3>1. CASE o = m
      BY <1>3, <2>1, <2>2, <2>3, <2>5, <3>1 DEF ManagerTyped
    <3>2. CASE o # m
      <4>1. lock # o /\ lock' # o
        BY <1>1, <2>1, <3>2, ReleaseAssumption
      <4>2. QED
        BY <2>2, <3>2, <4>1 DEF ControlInv, ManagerTyped
    <3>3. QED
      BY <3>1, <3>2
  <2>7. QED
    BY <1>2, <2>1, <2>2, <2>6 DEF ControlInv
<1>6. QED
  BY <1>4, <1>5

(* A manager that does not work changes.                                   *)
LEMMA AsideControl ==
  ASSUME ControlInv, NEW m \in Manager, mgr[m].pc # "run", NEW x, mgr' = [mgr EXCEPT ![m] = x],
         ManagerTyped(m)', lock' = lock, disk' = disk, snaps' = snaps, mark' = mark, broker' = broker
  PROVE  ControlInv'
<1>1. /\ DOMAIN mgr' = Manager /\ (\A o \in Manager \ {m} : mgr'[o] = mgr[o]) /\ lock # m
  BY DEF ControlInv, ManagerTyped
<1>2. DiskTyped' /\ SnapsTyped' /\ MarkTyped' /\ BrokerTyped'
  BY DEF ControlInv, DiskTyped, SnapsTyped, MarkTyped, BrokerTyped, Pending, FilesTyped, IsSequence
<1>3. ASSUME NEW o \in Manager \ {m} PROVE ManagerTyped(o)' /\ (lock' = o => Working(mgr[o])')
  <2>1. mgr'[o] = mgr[o] /\ ManagerTyped(o) /\ (lock = o => Working(mgr[o]))
    BY <1>1, <1>3 DEF ControlInv
  <2>2. ManagerTyped(o)'
    BY <2>1 DEF ManagerTyped
  <2>3. lock = o => Working(mgr[o])'
    BY <2>1 DEF Working, Updating, RollingBack, Recovering, Installing, Importing, RestoringImport,
                Uninstalling, TakingBack, On, Left, Pending, Snap, SameCatalog
  <2>4. QED
    BY <2>2, <2>3
<1>4. QED
  BY <1>1, <1>2, <1>3 DEF ControlInv

LEMMA AskControl ==
  ASSUME ControlInv, NEW m \in Manager, NEW c \in Commands[m], NEW v \in Versions,
         NEW a \in Imports \cup {0}, Ask(m, c, v, a)
  PROVE  ControlInv'
<1> DEFINE x == [Idle EXCEPT !.pc = "ask", !.cmd = c, !.ver = v, !.arg = a, !.seen = disk.own.ver,
                              !.saw = (c = "repair" /\ Pending)]
<1>1. /\ mgr' = [mgr EXCEPT ![m] = x] /\ mgr[m].pc = "idle" /\ lock' = lock /\ disk' = disk
      /\ snaps' = snaps /\ mark' = mark /\ broker' = broker
      /\ (c \in {"install", "repair"} \/ disk.own.ver # 0)
  BY DEF Ask
<1>2. c \in CommandNames
  BY ReleaseAssumption
<1>3. /\ DOMAIN x = DOMAIN Idle /\ x.pc = "ask" /\ x.cmd = c /\ x.ver = v /\ x.arg = a
      /\ x.seen = disk.own.ver /\ x.saw = (c = "repair" /\ Pending) /\ x.stage = "plain"
  BY DEF Idle
<1> HIDE DEF x
<1>4. mgr'[m] = x /\ lock # m
  BY <1>1 DEF ControlInv, ManagerTyped
<1>5. ManagerTyped(m)'
  BY <1>1, <1>2, <1>3, <1>4 DEF ManagerTyped
<1>6. QED
  BY <1>1, <1>5, AsideControl

LEMMA LockTakenControl ==
  ASSUME ControlInv, NEW m \in Manager, LockTaken(m)
  PROVE  ControlInv'
<1>1. /\ mgr' = [mgr EXCEPT ![m] = Idle] /\ mgr[m].pc # "run" /\ lock' = lock /\ disk' = disk
      /\ snaps' = snaps /\ mark' = mark /\ broker' = broker
  BY DEF LockTaken
<1>2. mgr'[m] = Idle /\ lock # m
  BY <1>1 DEF ControlInv, ManagerTyped
<1>3. ManagerTyped(m)'
  BY <1>1, <1>2 DEF ManagerTyped, Idle
<1>4. QED
  BY <1>1, <1>3, AsideControl

-----------------------------------------------------------------------------
(* Users, clients and the broker                                           *)

(* A user's edit comes while nothing works, or while a stop is under way.  *)
LEMMA EditableAt ==
  ASSUME Editable, NEW m \in Manager, lock = m, RestoringImport(mgr[m])
  PROVE  Left(mgr[m]) # 8
<1> SUFFICES ASSUME Left(mgr[m]) = 8 PROVE FALSE
  OBVIOUS
<1>1. mgr[m].todo # <<>> /\ Head(mgr[m].todo) \in {"stop", "stopPrior"}
  BY ReleaseAssumption DEF Editable
<1>2. Head(mgr[m].todo) = CatalogBackSteps[9 - 8 + 1]
  BY <1>1, OnEach DEF RestoringImport, Stands
<1>3. CatalogBackSteps[2] = "match"
  BY CatalogBackTable
<1>4. QED
  BY <1>1, <1>2, <1>3

LEMMA DriftControl ==
  ASSUME ControlInv, NEW f \in {"cat", "plugin"}, Drift(f)
  PROVE  ControlInv'
<1>1. /\ snaps' = snaps /\ mark' = mark /\ lock' = lock /\ mgr' = mgr /\ broker' = broker
      /\ disk' = [disk EXCEPT ![f] = Junk] /\ Editable
  BY DEF Drift
<1>2. /\ DOMAIN disk' = Fields /\ disk'[f] = Junk /\ (\A g \in Fields \ {f} : disk'[g] = disk[g])
      /\ f \in Fields
  BY <1>1 DEF ControlInv, DiskTyped, Fields, Owned, Config
<1>3. DiskTyped'
  <2>1. Junk \in Kind(f, Len(snaps))
    BY Numbers DEF Kind
  <2>2. QED
    BY <1>1, <1>2, <2>1 DEF ControlInv, DiskTyped
<1>4. BrokerTyped'
  BY <1>1 DEF ControlInv, BrokerTyped
<1>5. disk'.own = disk.own
  BY <1>2 DEF Fields, Owned, State
<1>6. \A m \in Manager : lock = m /\ RestoringImport(mgr[m]) => Left(mgr[m]) # 8
  BY <1>1, EditableAt
<1>7. QED
  BY <1>1, <1>3, <1>4, <1>5, <1>6, BesideControl

LEMMA DamageControl ==
  ASSUME ControlInv, NEW v \in Versions, Damage(v)
  PROVE  ControlInv'
<1>1. /\ snaps' = snaps /\ mark' = mark /\ lock' = lock /\ mgr' = mgr /\ broker' = broker
      /\ disk' = [disk EXCEPT !.retained = @ \ {v}] /\ Editable
  BY DEF Damage
<1>2. /\ DOMAIN disk' = Fields /\ disk'.retained = disk.retained \ {v}
      /\ (\A g \in Fields \ {"retained"} : disk'[g] = disk[g])
  BY <1>1 DEF ControlInv, DiskTyped, Fields
<1>3. DiskTyped'
  <2>1. disk'.retained \in Kind("retained", Len(snaps))
    BY <1>2 DEF ControlInv, DiskTyped, Fields, Kind
  <2>2. QED
    BY <1>1, <1>2, <2>1 DEF ControlInv, DiskTyped
<1>4. BrokerTyped'
  BY <1>1 DEF ControlInv, BrokerTyped
<1>5. disk'.own = disk.own
  BY <1>2 DEF Fields, Owned, State
<1>6. \A m \in Manager : lock = m /\ RestoringImport(mgr[m]) => Left(mgr[m]) # 8
  BY <1>1, EditableAt
<1>7. QED
  BY <1>1, <1>3, <1>4, <1>5, <1>6, BesideControl

LEMMA StartedTyped == ASSUME ControlInv, broker' = Started PROVE BrokerTyped'
<1>1. BrokerTyped /\ disk.cat \in Catalogs
  BY DEF ControlInv, DiskTyped, Fields, Owned, Config, Kind
<1>2. Started = broker \/ Started = [up |-> TRUE, serves |-> disk.cat, busy |-> FALSE]
  BY DEF Started
<1>3. CASE broker' = broker
  BY <1>1, <1>3 DEF BrokerTyped
<1>4. CASE broker' = [up |-> TRUE, serves |-> disk.cat, busy |-> FALSE]
  BY <1>1, <1>4 DEF BrokerTyped
<1>5. QED
  BY <1>2, <1>3, <1>4

LEMMA BrokerControl ==
  ASSUME ControlInv, ClientStart \/ BrokerWorks \/ BrokerRests
  PROVE  ControlInv'
<1>1. snaps' = snaps /\ mark' = mark /\ lock' = lock /\ mgr' = mgr /\ disk' = disk
  BY DEF ClientStart, BrokerWorks, BrokerRests
<1>2. DiskTyped'
  BY <1>1 DEF ControlInv, DiskTyped
<1>3. BrokerTyped'
  <2>1. CASE ClientStart
    BY <2>1, StartedTyped DEF ClientStart
  <2>2. CASE BrokerWorks
    BY <2>2 DEF BrokerWorks, ControlInv, BrokerTyped
  <2>3. CASE BrokerRests
    BY <2>3 DEF BrokerRests, ControlInv, BrokerTyped
  <2>4. QED
    BY <2>1, <2>2, <2>3
<1>4. QED
  BY <1>1, <1>2, <1>3, BesideControl

LEMMA CrashControl ==
  ASSUME ControlInv, NEW m \in Manager, Crash(m)
  PROVE  ControlInv'
<1>1. /\ End(m) /\ lock = m /\ disk' = disk /\ snaps' = snaps /\ mark' = mark /\ broker' = broker
  BY DEF Crash, End, Running, ControlInv, ManagerTyped
<1>2. QED
  BY <1>1, EndControl

LEMMA FinishControl ==
  ASSUME ControlInv, NEW m \in Manager, Finish(m)
  PROVE  ControlInv'
<1>1. /\ End(m) /\ lock = m /\ disk' = disk /\ snaps' = snaps /\ mark' = mark /\ broker' = broker
  BY DEF Finish, Running, ControlInv, ManagerTyped
<1>2. QED
  BY <1>1, EndControl

-----------------------------------------------------------------------------
(* The invariant                                                           *)

LEMMA InstalledTyped ==
  ASSUME NEW v \in First
  PROVE  DOMAIN Installed(v) = Fields /\ \A f \in Fields : Installed(v)[f] \in Kind(f, 0)
<1>1. CASE v = 0
  BY <1>1, NothingTyped DEF Installed
<1>2. CASE v # 0
  <2>1. v \in Versions
    BY <1>2, ReleaseAssumption
  <2> DEFINE o == [ver |-> v, cat |-> Packaged(v), up |-> Packaged(v), compat |-> v,
                   plugin |-> v, bin |-> v, block |-> Block(v)]
             b == Block(v)
             p == Packaged(v)
  <2>2. o \in OwnType /\ v \in Contents /\ p \in Catalogs /\ b \in 0..2
    BY <2>1, Numbers DEF OwnType
  <2>3. Installed(v) = [Nothing EXCEPT !.cat = p, !.catArt = p, !.up = p,
          !.upArt = p, !.compat = v, !.settings = 1, !.plugArt = v, !.plugin = v,
          !.bin = v, !.block = b, !.retained = {v}, !.own = o]
    BY <1>2 DEF Installed
  <2> HIDE DEF o, b, p
  <2> DEFINE d == Installed(v)
  <2>4. /\ DOMAIN d = Fields /\ d["cat"] = p /\ d["catArt"] = p /\ d["up"] = p /\ d["upArt"] = p
        /\ d["compat"] = v /\ d["settings"] = 1 /\ d["plugArt"] = v /\ d["plugin"] = v
        /\ d["bin"] = v /\ d["block"] = b /\ d["retained"] = {v} /\ d["own"] = o
        /\ d["receipt"] = NoReceipt /\ d["imports"] = {}
    BY <2>3, NothingTyped DEF Nothing, Fields, Owned, Config, Artifacts, State
  <2> HIDE DEF d
  <2>5. \A f \in Fields : d[f] \in Kind(f, 0)
    BY <2>1, <2>2, <2>4 DEF Fields, Owned, Config, Artifacts, State, Kind, Receipts
  <2>6. QED
    BY <2>4, <2>5 DEF d
<1>3. QED
  BY <1>1, <1>2

LEMMA InitControl == Init => ControlInv
<1> SUFFICES ASSUME Init PROVE ControlInv
  OBVIOUS
<1>1. /\ snaps = <<>> /\ Len(snaps) = 0 /\ mark = NoMark /\ lock = "free" /\ mgr = [m \in Manager |-> Idle]
      /\ broker = [up |-> FALSE, serves |-> 0, busy |-> FALSE]
  BY DEF Init
<1>2. SnapsTyped
  BY <1>1, Sequences DEF SnapsTyped
<1>3. DiskTyped
  <2>1. PICK v \in First : disk = Installed(v)
    BY DEF Init
  <2>2. QED
    BY <1>1, <2>1, InstalledTyped DEF DiskTyped
<1>4. MarkTyped
  BY <1>1 DEF MarkTyped, NoMark, Pending
<1>5. BrokerTyped
  BY <1>1, Numbers DEF BrokerTyped
<1>6. \A m \in Manager : lock # m /\ ManagerTyped(m)
  BY <1>1, ReleaseAssumption DEF ManagerTyped, Idle
<1>7. QED
  BY <1>1, <1>2, <1>3, <1>4, <1>5, <1>6 DEF ControlInv

LEMMA NextControl == ControlInv /\ [Next]_vars => ControlInv'
<1> SUFFICES ASSUME ControlInv, [Next]_vars PROVE ControlInv'
  OBVIOUS
<1>1. ASSUME NEW m \in Manager, NEW c \in Commands[m], NEW v \in Versions, NEW a \in Imports \cup {0},
             Ask(m, c, v, a)
      PROVE  ControlInv'
  BY <1>1, AskControl
<1>2. ASSUME NEW m \in Manager, Lock(m) PROVE ControlInv'
  BY <1>2, LockControl
<1>3. ASSUME NEW m \in Manager, LockTaken(m) PROVE ControlInv'
  BY <1>3, LockTakenControl
<1>4. ASSUME NEW m \in Manager, Do(m) PROVE ControlInv'
  BY <1>4, DoControl
<1>5. ASSUME NEW m \in Manager, Refuse(m) PROVE ControlInv'
  BY <1>5, BreakControl DEF Refuse, Running
<1>6. ASSUME NEW m \in Manager, Finish(m) PROVE ControlInv'
  BY <1>6, FinishControl
<1>7. ASSUME NEW m \in Manager, Fail(m) PROVE ControlInv'
  BY <1>7, BreakControl DEF Fail, Running
<1>8. ASSUME NEW m \in Manager, Crash(m) PROVE ControlInv'
  BY <1>8, CrashControl
<1>9. ASSUME NEW f \in {"cat", "plugin"}, Drift(f) PROVE ControlInv'
  BY <1>9, DriftControl
<1>10. ASSUME NEW v \in Versions, Damage(v) PROVE ControlInv'
  BY <1>10, DamageControl
<1>11. CASE ClientStart \/ BrokerWorks \/ BrokerRests
  BY <1>11, BrokerControl
<1>12. CASE UNCHANGED vars
  BY <1>12 DEF vars, ControlInv, DiskTyped, SnapsTyped, MarkTyped, BrokerTyped, ManagerTyped, Working,
     Updating, RollingBack, Recovering, Installing, Importing, RestoringImport, Uninstalling,
     TakingBack, On, Left, Pending, Snap, SameCatalog, FilesTyped, IsSequence
<1>13. QED
  BY <1>1, <1>2, <1>3, <1>4, <1>5, <1>6, <1>7, <1>8, <1>9, <1>10, <1>11, <1>12 DEF Next

(* Whatever is installed, updated, imported, taken back or interrupted:    *)
(* files, snapshots and marker have their types, and the command that has  *)
(* the lock is where its program says, with what the rest of it needs.     *)
THEOREM ReleaseControl == Spec => []ControlInv
BY InitControl, NextControl, PTL DEF Spec

(* Every variable has its type, and the lock belongs to who works.         *)
THEOREM ReleaseTypes == Spec => []TypeOK
<1>1. ControlInv => TypeOK
  <2> SUFFICES ASSUME ControlInv PROVE TypeOK
    OBVIOUS
  <2>1. DiskOk(disk) /\ disk.retained \subseteq Versions
    BY DEF ControlInv, DiskTyped, DiskOk, Fields, Owned, Config, Artifacts, State, Kind
  <2>2. ASSUME NEW n \in DOMAIN snaps PROVE DiskOk(snaps[n])
    BY <2>2 DEF ControlInv, SnapsTyped, FilesTyped, DiskOk, Owned, Config, Artifacts, State, Kind
  <2>3. mark.snap \in 0..Len(snaps) /\ {mark.prev, mark.new} \subseteq Versions \cup {0}
    BY DEF ControlInv, MarkTyped
  <2>4. \A m \in Manager : mgr[m].pc = "run" <=> lock = m
    BY DEF ControlInv, ManagerTyped
  <2>5. broker.up \in BOOLEAN /\ broker.busy \in BOOLEAN /\ broker.serves \in Catalogs
    BY DEF ControlInv, BrokerTyped
  <2>6. QED
    BY <2>1, <2>2, <2>3, <2>4, <2>5 DEF TypeOK
<1>2. QED
  BY <1>1, ReleaseControl, PTL

-----------------------------------------------------------------------------
(* The journal: what the pending marker, the receipt and the snapshots     *)
(* tell of the installed release, with the snapshots q                     *)

OneStepBack(d, q) ==
  d.receipt # NoReceipt =>
    LET r == d.receipt
        s == q[r.snap]
    IN /\ r.cur = d.own.ver /\ r.prev # r.cur
       /\ s.own.ver = r.prev /\ s.bin = r.prev /\ s.settings = 1 /\ s.receipt.cur \in {0, r.prev}
Settled(d, q) ==
  /\ OneStepBack(d, q) /\ (d.own.ver # 0 => d.bin = d.own.ver)
  /\ d.own.ver = 0 => d.receipt = NoReceipt

(* The snapshot under the marker is one of the release before the switch.  *)
MarkSound ==
  Pending => LET s == snaps[mark.snap] IN
    /\ Settled(s, snaps) /\ s.own.ver = mark.prev /\ s.settings = 1 /\ mark.prev # mark.new
    /\ disk.own.ver \in {0, mark.prev, mark.new}
AtRest == ~Pending => Settled(disk, snaps) /\ (disk.own.ver = 0 => snaps = <<>>)

Edited == {"cat", "plugin"}
LikeSnapshot ==
  \A f \in Owned : disk[f] = snaps[mark.snap][f] \/ (f \in Edited /\ disk[f] = Junk)
Receipted == disk.receipt = [prev |-> mark.prev, cur |-> mark.new, snap |-> mark.snap]
Captured == snaps[Len(snaps)] = Only(disk, Owned) /\ disk.settings = 1 /\ disk.own.ver # 0

(* The files that are back when k steps of a restore are left.             *)
BackAgain(k) ==
  (IF k <= 7 THEN Config ELSE {}) \cup (IF k <= 5 THEN Artifacts ELSE {})
  \cup (IF k <= 3 THEN State ELSE {}) \cup (IF k <= 2 THEN {"bin"} ELSE {})
  \cup (IF k <= 1 THEN {"block"} ELSE {}) \cup (IF k <= 0 THEN {"plugin"} ELSE {})
Restored(me, k) == \A f \in BackAgain(k) : disk[f] = snaps[me.from][f]

UpdateJournal(me) ==
  /\ Left(me) >= 19 => me.ver # disk.own.ver
  /\ Left(me) = 19 => Captured
  /\ Left(me) \in 1..18 => mark.new = me.ver
  /\ Left(me) \in {1, 2} => Whole(mark.new, disk)
  /\ Left(me) = 1 => Receipted
RollbackJournal(me) ==
  /\ snaps[me.from].own.ver = me.ver
  /\ Left(me) >= 15 => /\ me.ver = disk.receipt.prev /\ disk.receipt.cur = disk.own.ver
                       /\ disk.own.ver # 0
  /\ Left(me) = 15 => Captured
  /\ Left(me) \in 1..14 => mark.new = me.ver
  /\ Left(me) = 14 => LikeSnapshot
  /\ Left(me) \in {1, 2} => Whole(mark.new, disk)
  /\ Left(me) = 1 => Receipted
RecoverJournal(me) == Left(me) # 0 => Restored(me, Left(me) - 3)
UndoJournal(me) ==
  /\ me.end \in {"refused", "restored"}
  /\ me.end = "refused" => Left(me) <= 1 /\ (Left(me) = 1 => LikeSnapshot)
  /\ me.end = "restored" /\ Left(me) # 0 => Restored(me, Left(me) - 2)
InstallJournal(me) ==
  /\ ~Pending /\ disk.own.ver \in {0, me.ver}
  /\ Left(me) <= 2 => disk.bin = me.ver
CatalogJournal(me) == me.before.own.ver = disk.own.ver

Journal(me) ==
  /\ Updating(me) => UpdateJournal(me)
  /\ RollingBack(me) => RollbackJournal(me)
  /\ Recovering(me) => RecoverJournal(me)
  /\ Installing(me) => InstallJournal(me)
  /\ Importing(me) \/ RestoringImport(me) => CatalogJournal(me)
  /\ TakingBack(me) => IF me.cmd \in {"update", "rollback"} THEN UndoJournal(me) ELSE CatalogJournal(me)

JournalInv ==
  /\ MarkSound /\ AtRest
  /\ \A m \in Manager : /\ mgr[m].pc = "ask" /\ mgr[m].cmd = "update" => mgr[m].ver # mgr[m].seen
                        /\ lock = m => Journal(mgr[m])

LEMMA SettledGrows ==
  ASSUME NEW d, NEW e, NEW q, NEW p, NEW n, Settled(d, q), d.receipt \in Receipts(n),
         \A i \in 1..n : p[i] = q[i],
         e.own.ver = d.own.ver, e.receipt = d.receipt, e.bin = d.bin
  PROVE  Settled(e, p)
<1>1. d.receipt # NoReceipt => p[d.receipt.snap] = q[d.receipt.snap]
  BY DEF Receipts
<1>2. QED
  BY <1>1 DEF Settled, OneStepBack

(* The files that a step writes.                                           *)
LEMMA PatchDomains ==
  ASSUME NEW me, NEW s \in Steps \ Restores
  PROVE  /\ "own" \in DOMAIN Patch(me, s) => s \in {"own", "ownCat", "undoOwn", "unroot"}
         /\ "receipt" \in DOMAIN Patch(me, s) => s \in {"receipt", "unroot"}
         /\ "bin" \in DOMAIN Patch(me, s) => s \in {"bin", "unroot"}
         /\ "imports" \in DOMAIN Patch(me, s) => s \in {"note", "unroot"}
<1>1. CASE s \in {"cat", "catArt", "up", "upArt", "compat"}
  <2>1. /\ DOMAIN Patch(me, "cat") = {"cat"} /\ DOMAIN Patch(me, "catArt") = {"catArt"}
        /\ DOMAIN Patch(me, "up") = {"up"} /\ DOMAIN Patch(me, "upArt") = {"upArt"}
        /\ DOMAIN Patch(me, "compat") = {"compat"}
    BY ResetPatches
  <2>2. QED
    BY <1>1, <2>1
<1>2. CASE s \in {"keepCat", "keepCatArt", "keepUp", "keepUpArt"}
  <2>1. /\ DOMAIN Patch(me, "keepCat") = {"cat"} /\ DOMAIN Patch(me, "keepCatArt") = {"catArt"}
        /\ DOMAIN Patch(me, "keepUp") = {"up"} /\ DOMAIN Patch(me, "keepUpArt") = {"upArt"}
    BY KeepPatches
  <2>2. QED
    BY <1>2, <2>1
<1>3. CASE s \in {"retain", "settings", "plugArt", "plugin", "bin", "block", "own"}
  <2>1. /\ DOMAIN Patch(me, "retain") = {"retained"} /\ DOMAIN Patch(me, "settings") = {"settings"}
        /\ DOMAIN Patch(me, "plugArt") = {"plugArt"} /\ DOMAIN Patch(me, "plugin") = {"plugin"}
        /\ DOMAIN Patch(me, "bin") = {"bin"} /\ DOMAIN Patch(me, "block") = {"block"}
        /\ DOMAIN Patch(me, "own") = {"own"}
    BY InstallPatches
  <2>2. QED
    BY <1>3, <2>1
<1>4. CASE s \in {"importUp", "importCat", "note"}
  <2>1. /\ DOMAIN Patch(me, "importUp") = {"up"} /\ DOMAIN Patch(me, "importCat") = {"cat"}
        /\ DOMAIN Patch(me, "note") = {"imports"}
    BY ImportPatches
  <2>2. QED
    BY <1>4, <2>1
<1>5. CASE s \in {"backCat", "backUp"}
  <2>1. DOMAIN Patch(me, "backCat") = {"cat"} /\ DOMAIN Patch(me, "backUp") = {"up"}
    BY BackPatches
  <2>2. QED
    BY <1>5, <2>1
<1>6. CASE s \in {"mirrorCat", "mirrorUp"}
  BY <1>6, MirrorPatches
<1>7. CASE s = "ownCat"
  <2> DEFINE o == [disk.own EXCEPT !.cat = disk.cat, !.up = disk.up, !.compat = disk.compat]
  <2>1. Patch(me, s) = [own |-> o]
    BY <1>7, OwnCatPatch
  <2> HIDE DEF o
  <2>2. QED
    BY <1>7, <2>1
<1>8. CASE s \in Undoing
  <2>1. /\ DOMAIN Patch(me, "undoCat") = {"cat"} /\ DOMAIN Patch(me, "undoUp") = {"up"}
        /\ DOMAIN Patch(me, "undoCatArt") = {"catArt"} /\ DOMAIN Patch(me, "undoUpArt") = {"upArt"}
        /\ DOMAIN Patch(me, "undoOwn") = {"own"}
    BY UndoPatches
  <2>2. QED
    BY <1>8, <2>1 DEF Undoing
<1>9. CASE s \in {"unblock", "unplug", "unroot", "receipt"}
  BY <1>9, RemovePatches
<1>10. CASE s \in Checks
  BY <1>10, CheckPatches
<1>11. QED
  BY <1>1, <1>2, <1>3, <1>4, <1>5, <1>6, <1>7, <1>8, <1>9, <1>10
     DEF Steps, Restores, Undoing, Checks

LEMMA OtherWrites ==
  ASSUME ControlInv, NEW m \in Manager, Do(m), Head(mgr[m].todo) \notin Restores
  PROVE  LET me == mgr[m]
             s == Head(me.todo)
         IN
         /\ s \notin {"own", "ownCat", "undoOwn", "unroot"} => disk'.own = disk.own
         /\ s \notin {"receipt", "unroot"} => disk'.receipt = disk.receipt
         /\ s \notin {"bin", "unroot"} => disk'.bin = disk.bin
         /\ s \notin {"note", "unroot"} => disk'.imports = disk.imports
         /\ s = "bin" => disk'.bin = me.ver
         /\ s = "own" => disk'.own.ver = me.ver
         /\ s = "ownCat" => disk'.own.ver = disk.own.ver
         /\ s = "undoOwn" => disk'.own = me.before.own
         /\ s = "unroot" => /\ disk'.own.ver = 0 /\ disk'.receipt = NoReceipt /\ disk'.retained = {}
                            /\ disk'.imports = {} /\ disk'.block = disk.block
         /\ s = "receipt" => /\ disk'.receipt = NewReceipt(me)
                             /\ \A f \in Fields \ {"receipt"} : disk'[f] = disk[f]
<1> DEFINE me == mgr[m]
           s == Head(mgr[m].todo)
           new == Patch(me, s)
<1>1. s \in Steps \ Restores
  <2>1. Working(me) /\ me.todo # <<>>
    BY DoFacts
  <2>2. StepOk(me, s)
    BY <2>1, StepAllowed
  <2>3. QED
    BY <2>2 DEF StepOk
<1>2. \A f \in Fields : disk'[f] = IF f \in DOMAIN new THEN new[f] ELSE disk[f]
  BY DoFacts DEF Wrote, ControlInv, DiskTyped
<1>3. {"own", "receipt", "bin", "retained", "imports", "block"} \subseteq Fields
  BY DEF Fields, Owned, State, Config
<1>4. /\ "own" \in DOMAIN new => s \in {"own", "ownCat", "undoOwn", "unroot"}
      /\ "receipt" \in DOMAIN new => s \in {"receipt", "unroot"}
      /\ "bin" \in DOMAIN new => s \in {"bin", "unroot"}
      /\ "imports" \in DOMAIN new => s \in {"note", "unroot"}
  BY <1>1, PatchDomains
<1>5. s = "bin" => disk'.bin = me.ver
  <2>1. s = "bin" => new = [bin |-> me.ver]
    BY InstallPatches
  <2>2. QED
    BY <1>2, <1>3, <2>1
<1>6. s = "own" => disk'.own.ver = me.ver
  <2>1. s = "own" => new = [own |-> OwnedNow(me.ver)]
    BY InstallPatches
  <2>2. s = "own" => disk'.own = OwnedNow(me.ver)
    BY <1>2, <1>3, <2>1
  <2>3. QED
    BY <2>2 DEF OwnedNow
<1>7. s = "ownCat" => disk'.own.ver = disk.own.ver
  <2> DEFINE o == [disk.own EXCEPT !.cat = disk.cat, !.up = disk.up, !.compat = disk.compat]
  <2>1. disk.own \in OwnType
    BY <1>3 DEF ControlInv, DiskTyped, Kind
  <2>2. o.ver = disk.own.ver
    BY <2>1 DEF OwnType
  <2>3. s = "ownCat" => new = [own |-> o]
    BY OwnCatPatch
  <2> HIDE DEF o
  <2>4. s = "ownCat" => disk'.own = o
    BY <1>2, <1>3, <2>3
  <2>5. QED
    BY <2>2, <2>4
<1>8. s = "undoOwn" => disk'.own = me.before.own
  <2>1. s = "undoOwn" => new = [own |-> me.before.own]
    BY UndoPatches
  <2>2. QED
    BY <1>2, <1>3, <2>1
<1>9. s = "unroot" => /\ disk'.own.ver = 0 /\ disk'.receipt = NoReceipt /\ disk'.retained = {}
                      /\ disk'.imports = {} /\ disk'.block = disk.block
  <2> SUFFICES ASSUME s = "unroot"
               PROVE  /\ disk'.own.ver = 0 /\ disk'.receipt = NoReceipt /\ disk'.retained = {}
                      /\ disk'.imports = {} /\ disk'.block = disk.block
    OBVIOUS
  <2>1. new = [Nothing EXCEPT !.block = disk.block, !.plugin = disk.plugin]
    BY RemovePatches
  <2>2. /\ DOMAIN new = Fields /\ new["own"] = NoOwn /\ new["receipt"] = NoReceipt
        /\ new["retained"] = {} /\ new["imports"] = {} /\ new["block"] = disk.block
    BY <2>1, NothingTyped DEF Nothing
  <2>3. QED
    BY <1>2, <1>3, <2>2 DEF NoOwn
<1>10. s = "receipt" => /\ disk'.receipt = NewReceipt(me)
                        /\ \A f \in Fields \ {"receipt"} : disk'[f] = disk[f]
  BY <1>2, <1>3, RemovePatches
<1>11. QED
  BY <1>2, <1>3, <1>4, <1>5, <1>6, <1>7, <1>8, <1>9, <1>10

(* What a restore writes, step by step.                                    *)
Put(A, d) == \A f \in Fields : disk'[f] = IF f \in A THEN d[f] ELSE disk[f]
LEMMA RestoreWrites ==
  ASSUME ControlInv, NEW m \in Manager, Do(m)
  PROVE  LET s == Head(mgr[m].todo)
             snap == snaps[mgr[m].from]
         IN
         /\ s = "config-" => Put(Config, Nothing)
         /\ s = "config+" => Put(Config, snap)
         /\ s = "artifacts-" => Put(Artifacts, Nothing)
         /\ s = "artifacts+" => Put(Artifacts, snap)
         /\ s = "state-" => Put(State, Nothing)
         /\ s = "state+" => Put(State, snap)
         /\ s = "bin+" => Put({"bin"}, snap)
         /\ s = "block+" => Put({"block"}, snap)
         /\ s = "plugin+" => Put({"plugin"}, snap)
<1> DEFINE me == mgr[m]
           s == Head(mgr[m].todo)
           snap == snaps[me.from]
<1>1. \A p : Patch(me, s) = p => \A f \in Fields : disk'[f] = IF f \in DOMAIN p THEN p[f] ELSE disk[f]
  BY DoFacts DEF Wrote, ControlInv, DiskTyped
<1>2. \A A, d : Patch(me, s) = Only(d, A) => Put(A, d)
  BY <1>1 DEF Only, Put
<1>3. /\ s = "config-" => Patch(me, s) = Only(Nothing, Config)
      /\ s = "config+" => Patch(me, s) = Only(snap, Config)
      /\ s = "artifacts-" => Patch(me, s) = Only(Nothing, Artifacts)
      /\ s = "artifacts+" => Patch(me, s) = Only(snap, Artifacts)
      /\ s = "state-" => Patch(me, s) = Only(Nothing, State)
      /\ s = "state+" => Patch(me, s) = Only(snap, State)
  BY RestorePatches
<1>4. /\ s = "bin+" => Patch(me, s) = [bin |-> snap.bin]
      /\ s = "block+" => Patch(me, s) = [block |-> snap.block]
      /\ s = "plugin+" => Patch(me, s) = [plugin |-> snap.plugin]
  BY RestorePatches
<1>5. s = "bin+" => Put({"bin"}, snap)
  BY <1>1, <1>4 DEF Put
<1>6. s = "block+" => Put({"block"}, snap)
  BY <1>1, <1>4 DEF Put
<1>7. s = "plugin+" => Put({"plugin"}, snap)
  BY <1>1, <1>4 DEF Put
<1>8. QED
  BY <1>2, <1>3, <1>5, <1>6, <1>7

(* The snapshots, once taken, stay.                                        *)
LEMMA SnapsStay ==
  ASSUME ControlInv, NEW m \in Manager, Do(m), Head(mgr[m].todo) # "unroot"
  PROVE  /\ \A n \in 1..Len(snaps) : snaps'[n] = snaps[n]
         /\ Len(snaps) \in Nat /\ Len(snaps') >= Len(snaps)
         /\ Head(mgr[m].todo) = "capture" =>
              Len(snaps') = Len(snaps) + 1 /\ snaps'[Len(snaps')] = Only(disk, Owned)
<1>1. Noted(m) /\ IsSequence(snaps) /\ Len(snaps) \in Nat
  BY DoFacts DEF ControlInv, SnapsTyped
<1>2. CASE Head(mgr[m].todo) = "capture"
  <2> DEFINE x == Only(disk, Owned)
  <2>1. snaps' = Append(snaps, x)
    BY <1>1, <1>2 DEF Noted
  <2> HIDE DEF x
  <2>2. /\ Len(snaps') = Len(snaps) + 1 /\ snaps'[Len(snaps) + 1] = x
        /\ \A i \in 1..Len(snaps) : snaps'[i] = snaps[i]
    BY <1>1, <2>1, Sequences
  <2>3. QED
    BY <1>1, <2>2 DEF x
<1>3. CASE Head(mgr[m].todo) # "capture"
  BY <1>1, <1>3 DEF Noted
<1>4. QED
  BY <1>2, <1>3

(* The restore, file by file.                                              *)
LEMMA RestoreNth ==
  /\ RestoreSteps[1] = "config-" /\ RestoreSteps[2] = "config+" /\ RestoreSteps[3] = "artifacts-"
  /\ RestoreSteps[4] = "artifacts+" /\ RestoreSteps[5] = "state-" /\ RestoreSteps[6] = "state+"
  /\ RestoreSteps[7] = "bin+" /\ RestoreSteps[8] = "block+" /\ RestoreSteps[9] = "plugin+"
BY DEF RestoreSteps
LEMMA RestoreAt ==
  \A i \in 1..9 : /\ UndoSwitch[i] = RestoreSteps[i] /\ RecoverSteps[i + 1] = RestoreSteps[i]
                  /\ RollbackSteps[i + 3] = RestoreSteps[i]
BY RestoreNth, UndoTable, RecoverTable, RollbackTable

LEMMA BackSets ==
  /\ \A k \in 8..10 : BackAgain(k) = {}
  /\ \A k \in 6..7 : BackAgain(k) = Config
  /\ \A k \in 4..5 : BackAgain(k) = Config \cup Artifacts
  /\ BackAgain(3) = Config \cup Artifacts \cup State
  /\ BackAgain(2) = Config \cup Artifacts \cup State \cup {"bin"}
  /\ BackAgain(1) = Config \cup Artifacts \cup State \cup {"bin", "block"}
  /\ \A k \in {0, 0 - 1, 0 - 2} : BackAgain(k) = Owned
BY DEF BackAgain, Owned

LEMMA RestoreBack ==
  ASSUME ControlInv, NEW m \in Manager, Do(m), NEW i \in 1..9,
         Head(mgr[m].todo) = RestoreSteps[i], Restored(mgr[m], 10 - i)
  PROVE  \A f \in BackAgain(9 - i) : disk'[f] = snaps[mgr[m].from][f]
<1> DEFINE snap == snaps[mgr[m].from]
           s == Head(mgr[m].todo)
<1> USE DEF Owned, Config, Artifacts, State, Fields
<1>1. CASE i = 1
  BY <1>1, BackSets
<1>2. CASE i = 2
  <2>1. Put(Config, snap)
    BY <1>2, RestoreNth, RestoreWrites
  <2>2. QED
    BY <1>2, <2>1, BackSets DEF Put
<1>3. CASE i = 3
  <2>1. Put(Artifacts, Nothing) /\ \A f \in Config : disk[f] = snap[f]
    BY <1>3, RestoreNth, RestoreWrites, BackSets DEF Restored
  <2>2. QED
    BY <1>3, <2>1, BackSets DEF Put
<1>4. CASE i = 4
  <2>1. Put(Artifacts, snap) /\ \A f \in Config : disk[f] = snap[f]
    BY <1>4, RestoreNth, RestoreWrites, BackSets DEF Restored
  <2>2. QED
    BY <1>4, <2>1, BackSets DEF Put
<1>5. CASE i = 5
  <2>1. Put(State, Nothing) /\ \A f \in Config \cup Artifacts : disk[f] = snap[f]
    BY <1>5, RestoreNth, RestoreWrites, BackSets DEF Restored
  <2>2. QED
    BY <1>5, <2>1, BackSets DEF Put
<1>6. CASE i = 6
  <2>1. Put(State, snap) /\ \A f \in Config \cup Artifacts : disk[f] = snap[f]
    BY <1>6, RestoreNth, RestoreWrites, BackSets DEF Restored
  <2>2. QED
    BY <1>6, <2>1, BackSets DEF Put
<1>7. CASE i = 7
  <2>1. Put({"bin"}, snap) /\ \A f \in Config \cup Artifacts \cup State : disk[f] = snap[f]
    BY <1>7, RestoreNth, RestoreWrites, BackSets DEF Restored
  <2>2. QED
    BY <1>7, <2>1, BackSets DEF Put
<1>8. CASE i = 8
  <2>1. Put({"block"}, snap) /\ \A f \in Config \cup Artifacts \cup State \cup {"bin"} : disk[f] = snap[f]
    BY <1>8, RestoreNth, RestoreWrites, BackSets DEF Restored
  <2>2. QED
    BY <1>8, <2>1, BackSets DEF Put
<1>9. CASE i = 9
  <2>1. /\ Put({"plugin"}, snap)
        /\ \A f \in Config \cup Artifacts \cup State \cup {"bin", "block"} : disk[f] = snap[f]
    BY <1>9, RestoreNth, RestoreWrites, BackSets DEF Restored
  <2>2. QED
    BY <1>9, <2>1, BackSets DEF Put
<1>10. QED
  BY <1>1, <1>2, <1>3, <1>4, <1>5, <1>6, <1>7, <1>8, <1>9

(* A restore takes the ownership state away, and brings the snapshot's.    *)
LEMMA RestoreOwn ==
  ASSUME ControlInv, NEW m \in Manager, Do(m), Head(mgr[m].todo) \in Restores
  PROVE  disk'.own.ver \in {disk.own.ver, 0, snaps[mgr[m].from].own.ver}
<1> DEFINE snap == snaps[mgr[m].from]
           s == Head(mgr[m].todo)
<1>1. "own" \in Fields /\ "own" \in State /\ "own" \notin Config \cup Artifacts \cup {"bin", "block", "plugin"}
  BY DEF Fields, Owned, State, Config, Artifacts
<1>2. CASE s = "state-"
  <2>1. disk'.own = NoOwn
    BY <1>1, <1>2, RestoreWrites DEF Put, Nothing
  <2>2. QED
    BY <2>1 DEF NoOwn
<1>3. CASE s = "state+"
  BY <1>1, <1>3, RestoreWrites DEF Put
<1>4. CASE s \in Restores \ {"state-", "state+"}
  <2>1. \E A \in {Config, Artifacts, {"bin"}, {"block"}, {"plugin"}} : Put(A, snap) \/ Put(A, Nothing)
    BY <1>4, RestoreWrites DEF Restores
  <2>2. disk'.own = disk.own
    BY <1>1, <2>1 DEF Put
  <2>3. QED
    BY <2>2
<1>5. QED
  BY <1>2, <1>3, <1>4

-----------------------------------------------------------------------------
(* Every step keeps the journal                                            *)

KeepsJournal(m) ==
  LET me == mgr[m]
      s == Head(me.todo)
  IN
  /\ s = "begin" => Captured /\ me.ver # disk.own.ver
  /\ s = "clear" => Pending /\ (LikeSnapshot \/ (Whole(mark.new, disk) /\ Receipted))
  /\ \/ disk'.own.ver = disk.own.ver
     \/ Pending /\ Pending' /\ mark' = mark /\ disk'.own.ver \in {0, mark.prev, mark.new}
     \/ ~Pending /\ disk.own.ver = 0
     \/ s = "unroot"
  /\ ~Pending /\ s # "unroot" =>
       Settled(disk', snaps) /\ (disk'.own.ver = 0 => disk.own.ver = 0)

LEMMA WholeSame ==
  ASSUME NEW v, Whole(v, disk), \A f \in Fields \ {"receipt"} : disk'[f] = disk[f]
  PROVE  Whole(v, disk')
<1>1. /\ disk'.own = disk.own /\ disk'.retained = disk.retained /\ disk'.settings = disk.settings
      /\ disk'.cat = disk.cat /\ disk'.catArt = disk.catArt /\ disk'.up = disk.up
      /\ disk'.upArt = disk.upArt /\ disk'.compat = disk.compat /\ disk'.plugin = disk.plugin
      /\ disk'.plugArt = disk.plugArt /\ disk'.bin = disk.bin /\ disk'.block = disk.block
  BY DEF Fields, Owned, Config, Artifacts, State
<1>2. QED
  BY <1>1 DEF Whole, Intact, CatalogOwned, Valid

LEMMA RestStays ==
  ASSUME AtRest, ~Pending, disk'.own.ver = disk.own.ver, disk'.receipt = disk.receipt,
         disk'.bin = disk.bin
  PROVE  Settled(disk', snaps)
BY DEF AtRest, Settled, OneStepBack

(* A step that only checks, in the rest.                                   *)
LEMMA CheckKeeps ==
  ASSUME ControlInv, JournalInv, NEW m \in Manager, Do(m), Head(mgr[m].todo) \in Checks,
         Head(mgr[m].todo) \notin {"begin", "clear"}
  PROVE  KeepsJournal(m)
<1>1. \A f \in Fields : disk'[f] = disk[f]
  BY DoMoves
<1>2. disk'.own = disk.own /\ disk'.receipt = disk.receipt /\ disk'.bin = disk.bin
  BY <1>1 DEF Fields, Owned, State
<1>3. Head(mgr[m].todo) # "unroot"
  BY DEF Checks
<1>4. ~Pending => Settled(disk', snaps)
  BY <1>2, RestStays DEF JournalInv
<1>5. QED
  BY <1>2, <1>3, <1>4 DEF KeepsJournal

LEMMA CaptureKeeps ==
  ASSUME ControlInv, JournalInv, NEW m \in Manager, Do(m), Head(mgr[m].todo) = "capture"
  PROVE  Captured' /\ KeepsJournal(m) /\ \A f \in Fields : disk'[f] = disk[f]
<1>1. \A f \in Fields : disk'[f] = disk[f]
  BY DoMoves DEF Checks
<1>2. disk'.own = disk.own /\ disk'.settings = disk.settings
  BY <1>1 DEF Fields, Owned, State, Config
<1>3. disk.settings = 1 /\ disk.own.ver # 0
  BY DoFacts DEF Ready, Capturable
<1>4. snaps'[Len(snaps')] = Only(disk, Owned)
  BY SnapsStay
<1>5. Only(disk, Owned) = Only(disk', Owned)
  BY <1>1 DEF Only, Fields
<1>6. Captured'
  BY <1>2, <1>3, <1>4, <1>5 DEF Captured
<1>7. KeepsJournal(m)
  BY CheckKeeps DEF Checks
<1>8. QED
  BY <1>1, <1>6, <1>7

LEMMA BeginKeeps ==
  ASSUME ControlInv, JournalInv, NEW m \in Manager, Do(m), Head(mgr[m].todo) = "begin",
         Captured, mgr[m].ver # disk.own.ver
  PROVE  /\ ~Pending /\ mark'.snap = Len(snaps) /\ mark'.prev = disk.own.ver
         /\ mark'.new = mgr[m].ver /\ KeepsJournal(m)
         /\ snaps' = snaps /\ \A f \in Fields : disk'[f] = disk[f]
<1>1. Noted(m) /\ Ready(mgr[m], "begin")
  BY DoFacts
<1>2. mark' = NewMark(mgr[m]) /\ snaps' = snaps
  BY <1>1 DEF Noted
<1>3. ~Pending
  BY <1>1 DEF Ready
<1>4. \A f \in Fields : disk'[f] = disk[f]
  BY DoMoves DEF Checks
<1>5. disk'.own = disk.own /\ disk'.receipt = disk.receipt /\ disk'.bin = disk.bin
  BY <1>4 DEF Fields, Owned, State
<1>6. Settled(disk', snaps)
  BY <1>3, <1>5, RestStays DEF JournalInv
<1>7. KeepsJournal(m)
  BY <1>5, <1>6 DEF KeepsJournal
<1>8. QED
  BY <1>2, <1>3, <1>4, <1>7 DEF NewMark

LEMMA UpdateKeeps ==
  ASSUME ControlInv, JournalInv, NEW m \in Manager, Do(m), Updating(mgr[m])
  PROVE  UpdateJournal(mgr[m])' /\ KeepsJournal(m)
<1> DEFINE me == mgr[m]
           s == Head(mgr[m].todo)
           k == Left(mgr[m])
<1>1. me.todo # <<>> /\ me.cmd = "update" /\ On(me, UpdateSteps) /\ Ready(me, s)
  BY DoFacts DEF Updating
<1>2. k \in 1..20 /\ s = UpdateSteps[20 - k + 1]
  BY <1>1, OnEach DEF Stands
<1>3. /\ Left(mgr[m])' = k - 1 /\ mgr'[m].ver = me.ver
  BY <1>1, OnEach, DoMoves DEF Stands, On, Left
<1>4. UpdateJournal(me)
  BY DoFacts DEF JournalInv, Journal
<1>5. CASE k = 20
  <2>1. s = "capture"
    BY <1>2, <1>5, UpdateTable
  <2>2. Captured' /\ KeepsJournal(m) /\ \A f \in Fields : disk'[f] = disk[f]
    BY <2>1, CaptureKeeps
  <2>3. disk'.own = disk.own
    BY <2>2 DEF Fields, Owned, State
  <2>4. QED
    BY <1>3, <1>4, <1>5, <2>2, <2>3 DEF UpdateJournal
<1>6. CASE k = 19
  <2>1. s = "begin" /\ Captured /\ me.ver # disk.own.ver
    BY <1>2, <1>4, <1>6, UpdateTable DEF UpdateJournal
  <2>2. mark'.new = me.ver /\ KeepsJournal(m)
    BY <2>1, BeginKeeps
  <2>3. QED
    BY <1>3, <1>6, <2>2 DEF UpdateJournal
<1>7. CASE k \in 2..18
  <2>1. Pending /\ mark.new = me.ver
    BY <1>4, <1>7 DEF Updating, UpdateJournal
  <2>2. s \notin {"begin", "clear", "unroot", "ownCat", "undoOwn"} /\ (k # 4 => s # "own")
        /\ (k = 4 => s = "own")
    BY <1>2, <1>7, UpdateTable
  <2>3. Pending' /\ mark' = mark
    BY <2>1, <2>2, DoMoves
  <2>4. s \notin Restores
    BY <1>2, <1>7, UpdateTable DEF Restores
  <2>5. disk'.own = disk.own \/ disk'.own.ver = mark.new
    BY <2>1, <2>2, <2>4, OtherWrites
  <2>6. KeepsJournal(m)
    BY <2>1, <2>2, <2>3, <2>5 DEF KeepsJournal
  <2>7. CASE k \in 4..18
    BY <1>3, <2>1, <2>3, <2>6, <2>7 DEF UpdateJournal
  <2>8. CASE k = 3
    <3>1. s = "doctor" /\ me.stage = "marked"
      BY <1>2, <2>8, UpdateTable DEF Updating
    <3>2. Whole(mark.new, disk)
      BY <1>1, <3>1 DEF Ready, Doctor
    <3>3. \A f \in Fields : disk'[f] = disk[f]
      BY <3>1, DoMoves DEF Checks
    <3>4. Whole(mark.new, disk')
      BY <3>2, <3>3, WholeSame
    <3>5. QED
      BY <1>3, <2>1, <2>3, <2>6, <2>8, <3>4 DEF UpdateJournal
  <2>9. CASE k = 2
    <3>1. s = "receipt" /\ Whole(mark.new, disk)
      BY <1>2, <1>4, <2>9, UpdateTable DEF UpdateJournal
    <3>2. disk'.receipt = NewReceipt(me) /\ \A f \in Fields \ {"receipt"} : disk'[f] = disk[f]
      BY <2>4, <3>1, OtherWrites
    <3>3. Whole(mark.new, disk')
      BY <3>1, <3>2, WholeSame
    <3>4. Receipted'
      BY <2>3, <3>2 DEF Receipted, NewReceipt
    <3>5. QED
      BY <1>3, <2>1, <2>3, <2>6, <2>9, <3>3, <3>4 DEF UpdateJournal
  <2>10. QED
    BY <1>7, <2>7, <2>8, <2>9
<1>8. CASE k = 1
  <2>1. s = "clear" /\ Whole(mark.new, disk) /\ Receipted /\ Pending
    BY <1>2, <1>4, <1>8, UpdateTable DEF UpdateJournal, Updating
  <2>2. \A f \in Fields : disk'[f] = disk[f]
    BY <2>1, DoMoves DEF Checks
  <2>3. disk'.own = disk.own
    BY <2>2 DEF Fields, Owned, State
  <2>4. KeepsJournal(m)
    BY <2>1, <2>3 DEF KeepsJournal
  <2>5. QED
    BY <1>3, <1>8, <2>4 DEF UpdateJournal
<1>9. QED
  BY <1>2, <1>5, <1>6, <1>7, <1>8

LEMMA RollbackKeeps ==
  ASSUME ControlInv, JournalInv, NEW m \in Manager, Do(m), RollingBack(mgr[m])
  PROVE  RollbackJournal(mgr[m])' /\ KeepsJournal(m)
<1> DEFINE me == mgr[m]
           s == Head(mgr[m].todo)
           k == Left(mgr[m])
<1>1. /\ me.todo # <<>> /\ me.cmd = "rollback" /\ On(me, RollbackSteps) /\ Ready(me, s)
      /\ me.from \in 1..Len(snaps)
  BY DoFacts DEF RollingBack, Snap
<1>2. k \in 1..16 /\ s = RollbackSteps[16 - k + 1]
  BY <1>1, OnEach DEF Stands
<1>3. /\ Left(mgr[m])' = k - 1 /\ mgr'[m].ver = me.ver /\ mgr'[m].from = me.from
  BY <1>1, OnEach, DoMoves DEF Stands, On, Left
<1>4. RollbackJournal(me)
  BY DoFacts DEF JournalInv, Journal
<1>5. s # "unroot" /\ snaps'[me.from] = snaps[me.from]
  <2>1. s # "unroot"
    BY <1>2, RollbackTable
  <2>2. QED
    BY <1>1, <2>1, SnapsStay
<1>6. snaps'[mgr'[m].from].own.ver = mgr'[m].ver
  BY <1>3, <1>4, <1>5 DEF RollbackJournal
<1>7. CASE k = 16
  <2>1. s = "capture"
    BY <1>2, <1>7, RollbackTable
  <2>2. Captured' /\ KeepsJournal(m) /\ \A f \in Fields : disk'[f] = disk[f]
    BY <2>1, CaptureKeeps
  <2>3. disk'.own = disk.own /\ disk'.receipt = disk.receipt
    BY <2>2 DEF Fields, Owned, State
  <2>4. QED
    BY <1>3, <1>4, <1>6, <1>7, <2>2, <2>3 DEF RollbackJournal
<1>8. CASE k = 15
  <2>1. /\ s = "begin" /\ Captured /\ me.ver = disk.receipt.prev /\ disk.receipt.cur = disk.own.ver
        /\ disk.own.ver # 0
    BY <1>2, <1>4, <1>8, RollbackTable DEF RollbackJournal
  <2>2. ~Pending
    BY <1>1, <2>1 DEF Ready
  <2>3. disk.receipt # NoReceipt
    BY <2>1 DEF NoReceipt
  <2>4. me.ver # disk.own.ver
    BY <2>1, <2>2, <2>3 DEF JournalInv, AtRest, Settled, OneStepBack
  <2>5. /\ mark'.snap = Len(snaps) /\ mark'.new = me.ver /\ KeepsJournal(m)
        /\ snaps' = snaps /\ \A f \in Fields : disk'[f] = disk[f]
    BY <2>1, <2>4, BeginKeeps
  <2>6. LikeSnapshot'
    <3>1. \A f \in Owned : disk'[f] = snaps[Len(snaps)][f]
      BY <2>1, <2>5 DEF Captured, Only, Fields
    <3>2. QED
      BY <2>5, <3>1 DEF LikeSnapshot
  <2>7. QED
    BY <1>3, <1>6, <1>8, <2>5, <2>6 DEF RollbackJournal
<1>9. CASE k \in 2..14
  <2>1. Pending /\ mark.new = me.ver
    BY <1>4, <1>9 DEF RollingBack, RollbackJournal
  <2>2. s \notin {"begin", "clear", "unroot"}
    BY <1>2, <1>9, RollbackTable
  <2>3. Pending' /\ mark' = mark
    BY <2>1, <2>2, DoMoves
  <2>4. CASE k \in 5..13
    <3>1. s \in Restores
      <4>1. 16 - k + 1 \in 4..12
        BY <2>4
      <4>2. QED
        BY <1>2, <4>1, RollbackAt
    <3>2. disk'.own.ver \in {disk.own.ver, 0, mark.new}
      BY <1>4, <2>1, <3>1, RestoreOwn DEF RollbackJournal
    <3>3. KeepsJournal(m)
      BY <2>1, <2>2, <2>3, <3>2 DEF KeepsJournal
    <3>4. QED
      BY <1>3, <1>6, <2>1, <2>3, <2>4, <3>3 DEF RollbackJournal
  <2>5. CASE k = 14 \/ k = 4
    <3>1. s \in {"stop", "version"}
      BY <1>2, <2>5, RollbackTable
    <3>2. KeepsJournal(m)
      BY <3>1, CheckKeeps DEF Checks
    <3>3. QED
      BY <1>3, <1>6, <2>1, <2>3, <2>5, <3>2 DEF RollbackJournal
  <2>6. CASE k = 3
    <3>1. s = "doctor" /\ me.stage = "restoring"
      BY <1>2, <2>6, RollbackTable DEF RollingBack
    <3>2. Whole(mark.new, disk)
      BY <1>1, <3>1 DEF Ready, Doctor
    <3>3. \A f \in Fields : disk'[f] = disk[f]
      BY <3>1, DoMoves DEF Checks
    <3>4. Whole(mark.new, disk')
      BY <3>2, <3>3, WholeSame
    <3>5. KeepsJournal(m)
      BY <3>1, CheckKeeps DEF Checks
    <3>6. QED
      BY <1>3, <1>6, <2>1, <2>3, <2>6, <3>4, <3>5 DEF RollbackJournal
  <2>7. CASE k = 2
    <3>1. s = "receipt" /\ Whole(mark.new, disk)
      BY <1>2, <1>4, <2>7, RollbackTable DEF RollbackJournal
    <3>2. disk'.receipt = NewReceipt(me) /\ \A f \in Fields \ {"receipt"} : disk'[f] = disk[f]
      BY <3>1, OtherWrites DEF Restores
    <3>3. Whole(mark.new, disk')
      BY <3>1, <3>2, WholeSame
    <3>4. Receipted'
      BY <2>3, <3>2 DEF Receipted, NewReceipt
    <3>5. disk'.own = disk.own
      BY <3>2 DEF Fields, Owned, State
    <3>6. KeepsJournal(m)
      BY <2>1, <3>1, <3>5 DEF KeepsJournal
    <3>7. QED
      BY <1>3, <1>6, <2>1, <2>3, <2>7, <3>3, <3>4, <3>6 DEF RollbackJournal
  <2>8. QED
    BY <1>9, <2>4, <2>5, <2>6, <2>7
<1>10. CASE k = 1
  <2>1. s = "clear" /\ Whole(mark.new, disk) /\ Receipted /\ Pending
    BY <1>2, <1>4, <1>10, RollbackTable DEF RollbackJournal, RollingBack
  <2>2. \A f \in Fields : disk'[f] = disk[f]
    BY <2>1, DoMoves DEF Checks
  <2>3. disk'.own = disk.own
    BY <2>2 DEF Fields, Owned, State
  <2>4. KeepsJournal(m)
    BY <2>1, <2>3 DEF KeepsJournal
  <2>5. QED
    BY <1>3, <1>6, <1>10, <2>4 DEF RollbackJournal
<1>11. QED
  BY <1>2, <1>7, <1>8, <1>9, <1>10

(* Both ways back: the snapshot's files return, one group after another.   *)
LEMMA RestoreKeeps ==
  ASSUME ControlInv, JournalInv, NEW m \in Manager, Do(m), NEW i \in 1..9,
         Head(mgr[m].todo) = RestoreSteps[i], Restored(mgr[m], 10 - i),
         Pending, mgr[m].from = mark.snap
  PROVE  Restored(mgr[m], 9 - i)' /\ KeepsJournal(m)
<1> DEFINE me == mgr[m]
           s == Head(mgr[m].todo)
<1>1. s \in Restores
  BY RestoreNth DEF Restores
<1>2. snaps' = snaps /\ mark' = mark /\ Pending' /\ mgr'[m].from = me.from
  <2>1. s \notin {"capture", "unroot", "begin", "clear"}
    BY <1>1 DEF Restores
  <2>2. QED
    BY <2>1, DoFacts, DoMoves DEF Noted
<1>3. Restored(mgr[m], 9 - i)'
  BY <1>2, RestoreBack DEF Restored
<1>4. disk'.own.ver \in {disk.own.ver, 0, mark.prev}
  BY <1>1, RestoreOwn DEF JournalInv, MarkSound
<1>5. s \notin {"begin", "clear", "unroot"}
  BY <1>1 DEF Restores
<1>6. KeepsJournal(m)
  BY <1>2, <1>4, <1>5 DEF KeepsJournal
<1>7. QED
  BY <1>3, <1>6

LEMMA RestoredStays ==
  ASSUME ControlInv, NEW m \in Manager, Do(m), Head(mgr[m].todo) \in Checks \ {"capture"}, NEW k,
         Restored(mgr[m], k), BackAgain(k) \subseteq Owned
  PROVE  Restored(mgr[m], k)'
<1>1. \A f \in Fields : disk'[f] = disk[f]
  BY DoMoves
<1>2. snaps' = snaps /\ mgr'[m].from = mgr[m].from
  <2>1. Head(mgr[m].todo) \notin {"capture", "unroot"}
    BY DEF Checks
  <2>2. QED
    BY <2>1, DoFacts, DoMoves DEF Noted
<1>3. QED
  BY <1>1, <1>2 DEF Restored, Fields

LEMMA RecoverKeeps ==
  ASSUME ControlInv, JournalInv, NEW m \in Manager, Do(m), Recovering(mgr[m])
  PROVE  RecoverJournal(mgr[m])' /\ KeepsJournal(m)
<1> DEFINE me == mgr[m]
           s == Head(mgr[m].todo)
<1>1. me.todo # <<>> /\ On(me, RecoverSteps) /\ Ready(me, s)
  BY DoFacts DEF Recovering
<1>2. PICK k \in 1..13 : Left(mgr[m]) = k /\ s = RecoverSteps[13 - k + 1]
  BY <1>1, OnEach DEF Stands
<1>3. Left(mgr[m])' = k - 1
  BY <1>1, <1>2, OnEach, DoMoves DEF Stands, On, Left
<1>4. Restored(mgr[m], k - 3) /\ Pending /\ me.from = mark.snap
  BY <1>2, DoFacts DEF JournalInv, Journal, RecoverJournal, Recovering
<1>5. ASSUME NEW j, j = (k - 1) - 3, \A f \in BackAgain(j) : disk'[f] = snaps'[mgr'[m].from][f]
      PROVE  RecoverJournal(mgr[m])'
  BY <1>3, <1>5 DEF RecoverJournal, Restored
<1>6. CASE k = 13
  <2>1. s = "stopPrior"
    BY <1>2, <1>6, RecoverTable
  <2>2. KeepsJournal(m)
    BY <2>1, CheckKeeps DEF Checks
  <2>3. BackAgain(9) = {}
    BY BackSets
  <2>4. QED
    BY <1>5, <1>6, <2>2, <2>3
<1>7. CASE k \in 4..12
  <2>1. PICK i \in 1..9 : k = 13 - i
    BY <1>7, 13 - k \in 1..9
  <2>2. k - 3 = 10 - i /\ 9 - i = (k - 1) - 3 /\ 13 - k + 1 = i + 1
    BY <2>1
  <2>3. s = RestoreSteps[i]
    BY <1>2, <2>2, RestoreAt
  <2>4. Restored(mgr[m], 10 - i)
    BY <1>4, <2>2
  <2>5. Restored(mgr[m], 9 - i)' /\ KeepsJournal(m)
    BY <1>4, <2>3, <2>4, RestoreKeeps
  <2>6. \A f \in BackAgain(9 - i) : disk'[f] = snaps'[mgr'[m].from][f]
    BY <2>5 DEF Restored
  <2>7. QED
    BY <1>5, <2>2, <2>5, <2>6
<1>8. CASE k \in 2..3
  <2>1. s \in {"version", "doctor"}
    BY <1>2, <1>8, RecoverTable
  <2>2. KeepsJournal(m)
    BY <2>1, CheckKeeps DEF Checks
  <2>3. BackAgain(k - 3) = Owned /\ BackAgain((k - 1) - 3) = Owned
    BY <1>8, BackSets
  <2>4. Restored(mgr[m], k - 3)'
    BY <1>4, <2>1, <2>3, RestoredStays DEF Checks
  <2>5. \A f \in BackAgain((k - 1) - 3) : disk'[f] = snaps'[mgr'[m].from][f]
    BY <2>3, <2>4 DEF Restored
  <2>6. QED
    BY <1>5, <2>2, <2>5
<1>9. CASE k = 1
  <2>1. s = "clear"
    BY <1>2, <1>9, RecoverTable
  <2>2. LikeSnapshot
    BY <1>4, <1>9, BackSets DEF Restored, LikeSnapshot
  <2>3. \A f \in Fields : disk'[f] = disk[f]
    BY <2>1, DoMoves DEF Checks
  <2>4. disk'.own = disk.own
    BY <2>3 DEF Fields, Owned, State
  <2>5. KeepsJournal(m)
    BY <1>4, <2>1, <2>2, <2>4 DEF KeepsJournal
  <2>6. QED
    BY <1>3, <1>9, <2>5 DEF RecoverJournal
<1>10. QED
  BY <1>6, <1>7, <1>8, <1>9

LEMMA UndoKeeps ==
  ASSUME ControlInv, JournalInv, NEW m \in Manager, Do(m), TakingBack(mgr[m]),
         mgr[m].cmd \in {"update", "rollback"}
  PROVE  UndoJournal(mgr[m])' /\ KeepsJournal(m)
<1> DEFINE me == mgr[m]
           s == Head(mgr[m].todo)
<1>1. me.todo # <<>> /\ On(me, UndoSwitch) /\ Ready(me, s)
  BY DoFacts DEF TakingBack
<1>2. PICK k \in 1..11 : Left(mgr[m]) = k /\ s = UndoSwitch[11 - k + 1]
  BY <1>1, OnEach DEF Stands
<1>3. Left(mgr[m])' = k - 1
  BY <1>1, <1>2, OnEach, DoMoves DEF Stands, On, Left
<1>4. mgr'[m].end = me.end
  BY DoFacts DEF Moved
<1>5. UndoJournal(me) /\ Pending /\ me.from = mark.snap
  BY <1>2, DoFacts DEF JournalInv, Journal, TakingBack
<1>6. ASSUME NEW j, j = (k - 1) - 2, me.end = "restored",
             \A f \in BackAgain(j) : disk'[f] = snaps'[mgr'[m].from][f]
      PROVE  UndoJournal(mgr[m])'
  BY <1>3, <1>4, <1>6 DEF UndoJournal, Restored
<1>7. CASE k \in 3..11
  <2>1. PICK i \in 1..9 : k = 12 - i
    BY <1>7, 12 - k \in 1..9
  <2>2. k - 2 = 10 - i /\ 9 - i = (k - 1) - 2 /\ 11 - k + 1 = i
    BY <2>1
  <2>3. me.end = "restored" /\ Restored(mgr[m], k - 2)
    BY <1>2, <1>5, <1>7 DEF UndoJournal
  <2>4. s = RestoreSteps[i]
    BY <1>2, <2>2, RestoreAt
  <2>5. Restored(mgr[m], 10 - i)
    BY <2>2, <2>3
  <2>6. Restored(mgr[m], 9 - i)' /\ KeepsJournal(m)
    BY <1>5, <2>4, <2>5, RestoreKeeps
  <2>7. \A f \in BackAgain(9 - i) : disk'[f] = snaps'[mgr'[m].from][f]
    BY <2>6 DEF Restored
  <2>8. QED
    BY <1>6, <2>2, <2>3, <2>6, <2>7
<1>8. CASE k = 2
  <2>1. me.end = "restored" /\ Restored(mgr[m], 0)
    BY <1>2, <1>5, <1>8 DEF UndoJournal
  <2>2. s = "doctor"
    BY <1>2, <1>8, UndoTable
  <2>3. KeepsJournal(m)
    BY <2>2, CheckKeeps DEF Checks
  <2>4. BackAgain(0) = Owned /\ BackAgain((k - 1) - 2) = Owned
    BY <1>8, BackSets
  <2>5. Restored(mgr[m], 0)'
    BY <2>1, <2>2, <2>4, RestoredStays DEF Checks
  <2>6. \A f \in BackAgain((k - 1) - 2) : disk'[f] = snaps'[mgr'[m].from][f]
    BY <2>4, <2>5 DEF Restored
  <2>7. QED
    BY <1>6, <2>1, <2>3, <2>6
<1>9. CASE k = 1
  <2>1. s = "clear"
    BY <1>2, <1>9, UndoTable
  <2>2. LikeSnapshot
    <3>1. CASE me.end = "refused"
      BY <1>2, <1>5, <1>9, <3>1 DEF UndoJournal
    <3>2. CASE me.end = "restored"
      <4>1. Restored(mgr[m], k - 2)
        BY <1>2, <1>5, <3>2 DEF UndoJournal
      <4>2. BackAgain(k - 2) = Owned
        BY <1>9, BackSets
      <4>3. QED
        BY <1>5, <4>1, <4>2 DEF Restored, LikeSnapshot
    <3>3. QED
      BY <1>5, <3>1, <3>2 DEF UndoJournal
  <2>3. \A f \in Fields : disk'[f] = disk[f]
    BY <2>1, DoMoves DEF Checks
  <2>4. disk'.own = disk.own
    BY <2>3 DEF Fields, Owned, State
  <2>5. KeepsJournal(m)
    BY <1>5, <2>1, <2>2, <2>4 DEF KeepsJournal
  <2>6. QED
    BY <1>3, <1>4, <1>5, <1>9, <2>5 DEF UndoJournal
<1>10. QED
  BY <1>7, <1>8, <1>9

LEMMA InstallKeeps ==
  ASSUME ControlInv, JournalInv, NEW m \in Manager, Do(m), Installing(mgr[m])
  PROVE  InstallJournal(mgr[m])' /\ KeepsJournal(m)
<1> DEFINE me == mgr[m]
           s == Head(mgr[m].todo)
<1>1. me.todo # <<>> /\ On(me, StopInstall)
  BY DoFacts DEF Installing
<1>2. PICK k \in 1..13 : Left(mgr[m]) = k /\ s = StopInstall[13 - k + 1]
  BY <1>1, OnEach DEF Stands
<1>3. Left(mgr[m])' = k - 1 /\ mgr'[m].ver = me.ver
  BY <1>1, <1>2, OnEach, DoMoves DEF Stands, On, Left
<1>4. InstallJournal(me) /\ me.ver \in Versions /\ me.ver # 0
  BY DoFacts, Numbers DEF JournalInv, Journal, ControlInv, ManagerTyped
<1>5. /\ s \notin Special \cup {"ownCat", "undoOwn"}
      /\ s = "bin" <=> k = 3
      /\ s = "own" <=> k = 1
  <2>1. s \notin Special
    <3>1. CASE k = 13
      BY <1>2, <3>1, InstallTable DEF Special, Restores, Backs
    <3>2. CASE k \in 1..12
      <4>1. 13 - k + 1 \in 2..13
        BY <3>2
      <4>2. QED
        BY <1>2, <4>1, InstallAt
    <3>3. QED
      BY <3>1, <3>2
  <2>2. \A i \in 1..13 : /\ StopInstall[i] \notin {"ownCat", "undoOwn"}
                         /\ StopInstall[i] = "bin" <=> i = 11
                         /\ StopInstall[i] = "own" <=> i = 13
    BY InstallTable
  <2>3. 13 - k + 1 \in 1..13 /\ (13 - k + 1 = 11 <=> k = 3) /\ (13 - k + 1 = 13 <=> k = 1)
    OBVIOUS
  <2>4. QED
    BY <1>2, <2>1, <2>2, <2>3
<1>6. mark' = mark /\ ~Pending'
  BY <1>4, <1>5, DoMoves DEF Special, InstallJournal, Pending
<1>7. /\ disk'.receipt = disk.receipt
      /\ s # "own" => disk'.own = disk.own
      /\ s = "own" => disk'.own.ver = me.ver
      /\ s # "bin" => disk'.bin = disk.bin
      /\ s = "bin" => disk'.bin = me.ver
  BY <1>5, OtherWrites DEF Special
<1>8. Settled(disk, snaps) /\ ~Pending
  BY <1>4 DEF JournalInv, AtRest, InstallJournal
<1>9. InstallJournal(mgr[m])'
  <2>1. disk'.own.ver \in {0, me.ver}
    BY <1>4, <1>7 DEF InstallJournal
  <2>2. k - 1 <= 2 => disk'.bin = me.ver
    BY <1>2, <1>4, <1>5, <1>7 DEF InstallJournal
  <2>3. QED
    BY <1>3, <1>6, <2>1, <2>2 DEF InstallJournal
<1>10. Settled(disk', snaps) /\ (disk'.own.ver = 0 => disk.own.ver = 0)
  <2>1. CASE s = "own"
    <3>1. disk'.own.ver = me.ver /\ disk'.bin = me.ver /\ disk'.receipt = disk.receipt
      BY <1>2, <1>4, <1>5, <1>7, <2>1 DEF InstallJournal
    <3>2. OneStepBack(disk', snaps)
      BY <1>4, <1>8, <3>1 DEF Settled, OneStepBack, InstallJournal
    <3>3. QED
      BY <1>4, <3>1, <3>2 DEF Settled
  <2>2. CASE s # "own"
    <3>1. disk'.own = disk.own /\ (disk'.own.ver # 0 => disk'.bin = disk'.own.ver)
      BY <1>4, <1>7, <1>8, <2>2 DEF Settled, InstallJournal
    <3>2. QED
      BY <1>7, <1>8, <3>1 DEF Settled, OneStepBack
  <2>3. QED
    BY <2>1, <2>2
<1>11. KeepsJournal(m)
  <2>1. disk'.own.ver = disk.own.ver \/ disk.own.ver = 0
    BY <1>4, <1>7 DEF InstallJournal
  <2>2. s \notin {"begin", "clear"}
    BY <1>5 DEF Special
  <2>3. QED
    BY <1>8, <1>10, <2>1, <2>2 DEF KeepsJournal
<1>12. QED
  BY <1>9, <1>11

(* A catalog command leaves the release alone, and so does its way back.   *)
LEMMA CatalogKeeps ==
  ASSUME ControlInv, JournalInv, NEW m \in Manager, Do(m), CatalogJournal(mgr[m]),
         Head(mgr[m].todo) \notin (Special \ Backs) \cup {"own", "bin"}
  PROVE  CatalogJournal(mgr[m])' /\ KeepsJournal(m)
<1> DEFINE me == mgr[m]
           s == Head(mgr[m].todo)
<1>1. /\ disk'.receipt = disk.receipt /\ disk'.bin = disk.bin
      /\ s \notin {"ownCat", "undoOwn"} => disk'.own = disk.own
      /\ s = "ownCat" => disk'.own.ver = disk.own.ver
      /\ s = "undoOwn" => disk'.own = me.before.own
  BY OtherWrites DEF Special, Backs, Restores
<1>2. disk'.own.ver = disk.own.ver
  BY <1>1 DEF CatalogJournal
<1>3. CatalogJournal(mgr[m])'
  <2>1. mgr'[m].before \in {disk, me.before}
    BY DoFacts DEF Moved
  <2>2. QED
    BY <1>2, <2>1 DEF CatalogJournal
<1>4. ~Pending => Settled(disk', snaps)
  BY <1>1, <1>2, RestStays DEF JournalInv
<1>5. s \notin {"begin", "clear", "unroot"}
  BY DEF Special, Backs
<1>6. QED
  BY <1>2, <1>3, <1>4, <1>5 DEF KeepsJournal

LEMMA CatalogSteps ==
  ASSUME NEW me, me.todo # <<>>, On(me, ImportSteps) \/ On(me, ImportUndo)
                                 \/ On(me, ImportUndoEarly) \/ On(me, CatalogBackUndo)
                                 \/ On(me, CatalogBackSteps)
  PROVE  Head(me.todo) \notin (Special \ Backs) \cup {"own", "bin"}
<1> DEFINE s == Head(me.todo)
<1>1. CASE On(me, ImportSteps)
  <2>1. PICK i \in 1..10 : s = ImportSteps[i]
    <3>1. Left(me) \in 1..10 /\ s = ImportSteps[10 - Left(me) + 1]
      BY <1>1, OnEach DEF Stands
    <3>2. QED
      BY <3>1
  <2>2. QED
    BY <2>1, ImportTable DEF Special, Restores, Backs
<1>2. CASE On(me, ImportUndo)
  <2>1. PICK i \in 1..8 : s = ImportUndo[i]
    <3>1. Left(me) \in 1..8 /\ s = ImportUndo[8 - Left(me) + 1]
      BY <1>2, OnEach DEF Stands
    <3>2. QED
      BY <3>1
  <2>2. QED
    BY <2>1, ImportUndoTable DEF Special, Restores, Backs
<1>3. CASE On(me, ImportUndoEarly)
  <2>1. PICK i \in 1..3 : s = ImportUndoEarly[i]
    <3>1. Left(me) \in 1..3 /\ s = ImportUndoEarly[3 - Left(me) + 1]
      BY <1>3, OnEach DEF Stands
    <3>2. QED
      BY <3>1
  <2>2. QED
    BY <2>1, ImportUndoTable DEF Special, Restores, Backs
<1>4. CASE On(me, CatalogBackUndo)
  <2>1. PICK i \in 1..8 : s = CatalogBackUndo[i]
    <3>1. Left(me) \in 1..8 /\ s = CatalogBackUndo[8 - Left(me) + 1]
      BY <1>4, OnEach DEF Stands
    <3>2. QED
      BY <3>1
  <2>2. QED
    BY <2>1, CatalogBackTable DEF Special, Restores, Backs
<1>5. CASE On(me, CatalogBackSteps)
  <2>1. PICK i \in 1..9 : s = CatalogBackSteps[i]
    <3>1. Left(me) \in 1..9 /\ s = CatalogBackSteps[9 - Left(me) + 1]
      BY <1>5, OnEach DEF Stands
    <3>2. QED
      BY <3>1
  <2>2. QED
    BY <2>1, CatalogBackTable DEF Special, Restores, Backs
<1>6. QED
  BY <1>1, <1>2, <1>3, <1>4, <1>5

LEMMA UninstallKeeps ==
  ASSUME ControlInv, JournalInv, NEW m \in Manager, Do(m), Uninstalling(mgr[m])
  PROVE  KeepsJournal(m)
<1> DEFINE me == mgr[m]
           s == Head(mgr[m].todo)
<1>1. me.todo # <<>> /\ On(me, UninstallSteps)
  BY DoFacts DEF Uninstalling
<1>2. PICK k \in 1..4 : s = UninstallSteps[4 - k + 1]
  BY <1>1, OnEach DEF Stands
<1>3. s \in {"stop", "unblock", "unplug", "unroot"}
  BY <1>2, UninstallTable
<1>4. CASE s = "unroot"
  BY <1>4 DEF KeepsJournal
<1>5. CASE s # "unroot"
  <2>1. s \notin Restores
    BY <1>3 DEF Restores
  <2>2. disk'.own = disk.own /\ disk'.receipt = disk.receipt /\ disk'.bin = disk.bin
    BY <1>3, <1>5, <2>1, OtherWrites
  <2>3. ~Pending => Settled(disk', snaps)
    BY <2>2, RestStays DEF JournalInv
  <2>4. QED
    BY <1>3, <2>2, <2>3 DEF KeepsJournal
<1>6. QED
  BY <1>4, <1>5

(* A step of any program.                                                  *)
LEMMA StepKeeps ==
  ASSUME ControlInv, JournalInv, NEW m \in Manager, Do(m)
  PROVE  Journal(mgr[m])' /\ KeepsJournal(m)
<1> DEFINE me == mgr[m]
           s == Head(mgr[m].todo)
<1>1. Working(me) /\ Journal(me) /\ me.todo # <<>> /\ mgr'[m].cmd = me.cmd
  BY DoFacts DEF JournalInv, Moved
<1>2. CASE Updating(me)
  <2>1. Updating(mgr[m])'
    BY <1>2, UpdatingMoves
  <2>2. mgr'[m].cmd = "update" /\ mgr'[m].stage \in {"plain", "marked"}
    BY <2>1 DEF Updating
  <2>3. UpdateJournal(mgr[m])' /\ KeepsJournal(m)
    BY <1>2, UpdateKeeps
  <2>4. QED
    BY <2>2, <2>3 DEF Journal, RollingBack, Recovering, Installing, Importing, RestoringImport, TakingBack
<1>3. CASE RollingBack(me)
  <2>1. RollingBack(mgr[m])'
    BY <1>3, RollingBackMoves
  <2>2. mgr'[m].cmd = "rollback" /\ mgr'[m].stage \in {"plain", "marked", "restoring"}
    BY <2>1 DEF RollingBack
  <2>3. RollbackJournal(mgr[m])' /\ KeepsJournal(m)
    BY <1>3, RollbackKeeps
  <2>4. QED
    BY <2>2, <2>3 DEF Journal, Updating, Recovering, Installing, Importing, RestoringImport, TakingBack
<1>4. CASE Recovering(me)
  <2>1. Recovering(mgr[m])'
    BY <1>4, RecoveringMoves
  <2>2. mgr'[m].cmd = "repair" /\ mgr'[m].saw /\ mgr'[m].stage \in {"plain", "writing"}
    BY <2>1 DEF Recovering
  <2>3. RecoverJournal(mgr[m])' /\ KeepsJournal(m)
    BY <1>4, RecoverKeeps
  <2>4. QED
    BY <2>2, <2>3 DEF Journal, Updating, RollingBack, Installing, Importing, RestoringImport, TakingBack
<1>5. CASE Installing(me)
  <2>1. Installing(mgr[m])'
    BY <1>5, InstallingMoves
  <2>2. /\ mgr'[m].cmd \in {"install", "repair"} /\ ~mgr'[m].saw
        /\ mgr'[m].stage \in {"plain", "writing"}
    BY <2>1 DEF Installing
  <2>3. InstallJournal(mgr[m])' /\ KeepsJournal(m)
    BY <1>5, InstallKeeps
  <2>4. QED
    BY <2>2, <2>3 DEF Journal, Updating, RollingBack, Recovering, Importing, RestoringImport, TakingBack
<1>6. CASE Importing(me)
  <2>1. Importing(mgr[m])'
    BY <1>6, ImportingMoves
  <2>2. mgr'[m].cmd = "import" /\ mgr'[m].stage \in {"plain", "stopped", "importing", "imported"}
    BY <2>1 DEF Importing
  <2>3. s \notin (Special \ Backs) \cup {"own", "bin"}
    BY <1>1, <1>6, CatalogSteps DEF Importing
  <2>4. CatalogJournal(mgr[m])' /\ KeepsJournal(m)
    BY <1>1, <1>6, <2>3, CatalogKeeps DEF Journal
  <2>5. QED
    BY <2>2, <2>4 DEF Journal, Updating, RollingBack, Recovering, Installing, RestoringImport, TakingBack
<1>7. CASE RestoringImport(me)
  <2>1. RestoringImport(mgr[m])'
    BY <1>7, RestoringImportMoves
  <2>2. mgr'[m].cmd = "catalog_rollback" /\ mgr'[m].stage \in {"plain", "stopped"}
    BY <2>1 DEF RestoringImport
  <2>3. s \notin (Special \ Backs) \cup {"own", "bin"}
    BY <1>1, <1>7, CatalogSteps DEF RestoringImport
  <2>4. CatalogJournal(mgr[m])' /\ KeepsJournal(m)
    BY <1>1, <1>7, <2>3, CatalogKeeps DEF Journal
  <2>5. QED
    BY <2>2, <2>4 DEF Journal, Updating, RollingBack, Recovering, Installing, Importing, TakingBack
<1>8. CASE Uninstalling(me)
  <2>1. Uninstalling(mgr[m])'
    BY <1>8, UninstallingMoves
  <2>2. mgr'[m].cmd = "uninstall" /\ mgr'[m].stage \in {"plain", "writing"}
    BY <2>1 DEF Uninstalling
  <2>3. KeepsJournal(m)
    BY <1>8, UninstallKeeps
  <2>4. QED
    BY <2>2, <2>3 DEF Journal, Updating, RollingBack, Recovering, Installing, Importing, RestoringImport,
       TakingBack
<1>9. CASE TakingBack(me)
  <2>1. TakingBack(mgr[m])'
    BY <1>9, TakingBackMoves
  <2>2. mgr'[m].stage = "undoing"
    BY <2>1 DEF TakingBack
  <2>3. CASE me.cmd \in {"update", "rollback"}
    <3>1. UndoJournal(mgr[m])' /\ KeepsJournal(m)
      BY <1>9, <2>3, UndoKeeps
    <3>2. QED
      BY <1>1, <2>2, <2>3, <3>1 DEF Journal, Updating, RollingBack, Recovering, Installing, Importing,
         RestoringImport
  <2>4. CASE me.cmd \notin {"update", "rollback"}
    <3>1. s \notin (Special \ Backs) \cup {"own", "bin"}
      BY <1>1, <1>9, <2>4, CatalogSteps DEF TakingBack
    <3>2. CatalogJournal(mgr[m])' /\ KeepsJournal(m)
      BY <1>1, <1>9, <2>4, <3>1, CatalogKeeps DEF Journal
    <3>3. QED
      BY <1>1, <2>2, <2>4, <3>2 DEF Journal, Updating, RollingBack, Recovering, Installing, Importing,
         RestoringImport
  <2>5. QED
    BY <2>3, <2>4
<1>10. QED
  BY <1>1, <1>2, <1>3, <1>4, <1>5, <1>6, <1>7, <1>8, <1>9 DEF Working

(* The snapshot under the marker, in a step.                               *)
LEMMA DoMarkSound ==
  ASSUME ControlInv, JournalInv, NEW m \in Manager, Do(m)
  PROVE  MarkSound'
<1> DEFINE me == mgr[m]
           s == Head(mgr[m].todo)
           n == Len(snaps)
<1>1. Noted(m) /\ KeepsJournal(m) /\ StepOk(me, s)
  <2>1. Working(me) /\ me.todo # <<>>
    BY DoFacts
  <2>2. QED
    BY <2>1, DoFacts, StepKeeps, StepAllowed
<1>2. n \in Nat
  BY DEF ControlInv, SnapsTyped
<1>3. CASE s = "begin"
  <2>1. Captured /\ me.ver # disk.own.ver /\ n > 0
    BY <1>1, <1>3 DEF KeepsJournal, StepOk
  <2>2. /\ ~Pending /\ mark'.snap = n /\ mark'.prev = disk.own.ver /\ mark'.new = me.ver
        /\ snaps' = snaps /\ \A f \in Fields : disk'[f] = disk[f]
    BY <1>3, <2>1, BeginKeeps
  <2> DEFINE e == snaps[n]
  <2>3. e.own = disk.own /\ e.receipt = disk.receipt /\ e.bin = disk.bin /\ e.settings = 1
    BY <2>1 DEF Captured, Only, Owned, State, Config
  <2>4. disk.receipt \in Receipts(n)
    BY DEF ControlInv, DiskTyped, Fields, Owned, State, Kind
  <2>5. Settled(disk, snaps)
    BY <2>2 DEF JournalInv, AtRest
  <2>6. Settled(e, snaps)
    <3> HIDE DEF e
    <3>1. QED
      BY <2>3, <2>4, <2>5, SettledGrows
  <2>7. disk'.own = disk.own
    BY <2>2 DEF Fields, Owned, State
  <2>8. QED
    BY <2>1, <2>2, <2>3, <2>6, <2>7 DEF MarkSound
<1>4. CASE s \in {"clear", "unroot"}
  <2>1. mark' = NoMark
    BY <1>1, <1>4 DEF Noted
  <2>2. QED
    BY <2>1 DEF MarkSound, Pending, NoMark
<1>5. CASE s \notin {"begin", "clear", "unroot"}
  <2>1. mark' = mark
    BY <1>1, <1>5 DEF Noted
  <2> SUFFICES ASSUME Pending PROVE MarkSound'
    BY <2>1 DEF MarkSound, Pending
  <2>2. mark.snap \in 1..n /\ MarkSound
    BY <1>2 DEF ControlInv, MarkTyped, Pending, JournalInv
  <2> DEFINE e == snaps[mark.snap]
  <2>3. snaps'[mark'.snap] = e /\ \A i \in 1..n : snaps'[i] = snaps[i]
    BY <1>5, <2>1, <2>2, SnapsStay
  <2>4. e.receipt \in Receipts(n)
    BY <2>2 DEF ControlInv, SnapsTyped, FilesTyped, Owned, State, Kind
  <2>5. Settled(e, snaps) /\ e.own.ver = mark.prev /\ e.settings = 1 /\ mark.prev # mark.new
    BY <2>2 DEF MarkSound
  <2>6. Settled(e, snaps')
    <3> HIDE DEF e
    <3>1. QED
      BY <2>3, <2>4, <2>5, SettledGrows
  <2>7. disk'.own.ver \in {0, mark.prev, mark.new}
    BY <1>1, <1>5, <2>2 DEF KeepsJournal, MarkSound
  <2>8. QED
    BY <2>1, <2>3, <2>5, <2>6, <2>7 DEF MarkSound
<1>6. QED
  BY <1>3, <1>4, <1>5

(* What is left when the marker goes is settled.                           *)
LEMMA ClearSettles ==
  ASSUME ControlInv, MarkSound, Pending, LikeSnapshot \/ (Whole(mark.new, disk) /\ Receipted)
  PROVE  Settled(disk, snaps) /\ disk.own.ver # 0
<1> DEFINE e == snaps[mark.snap]
<1>1. /\ Settled(e, snaps) /\ e.own.ver = mark.prev /\ e.settings = 1 /\ mark.prev # mark.new
      /\ mark.snap \in 1..Len(snaps)
  BY DEF MarkSound, ControlInv, MarkTyped, SnapsTyped, Pending
<1>2. mark.prev # 0 /\ mark.new # 0
  BY Numbers DEF ControlInv, MarkTyped
<1>3. e.receipt \in Receipts(Len(snaps))
  BY <1>1 DEF ControlInv, SnapsTyped, FilesTyped, Owned, State, Kind
<1>4. CASE LikeSnapshot
  <2>1. disk.own = e.own /\ disk.receipt = e.receipt /\ disk.bin = e.bin
    BY <1>4 DEF LikeSnapshot, Edited, Owned, State
  <2> HIDE DEF e
  <2>2. QED
    BY <1>1, <1>2, <1>3, <2>1, SettledGrows
<1>5. CASE Whole(mark.new, disk) /\ Receipted
  <2>1. disk.own.ver = mark.new /\ disk.bin = mark.new
    BY <1>5 DEF Whole, Intact
  <2>2. /\ disk.receipt.cur = mark.new /\ disk.receipt.prev = mark.prev
        /\ disk.receipt.snap = mark.snap
    BY <1>5 DEF Receipted
  <2>3. e.bin = mark.prev /\ e.receipt.cur \in {0, mark.prev}
    BY <1>1, <1>2 DEF Settled, OneStepBack, NoReceipt
  <2> HIDE DEF e
  <2>4. OneStepBack(disk, snaps)
    BY <1>1, <2>1, <2>2, <2>3 DEF OneStepBack, e
  <2>5. QED
    BY <1>2, <2>1, <2>4 DEF Settled
<1>6. QED
  BY <1>4, <1>5

LEMMA DoAtRest ==
  ASSUME ControlInv, JournalInv, NEW m \in Manager, Do(m)
  PROVE  AtRest'
<1> DEFINE me == mgr[m]
           s == Head(mgr[m].todo)
           n == Len(snaps)
<1>1. Noted(m) /\ KeepsJournal(m) /\ StepOk(me, s) /\ Ready(me, s)
  <2>1. Working(me) /\ me.todo # <<>>
    BY DoFacts
  <2>2. QED
    BY <2>1, DoFacts, StepKeeps, StepAllowed
<1> SUFFICES ASSUME ~Pending'
             PROVE  Settled(disk', snaps') /\ (disk'.own.ver = 0 => snaps' = <<>>)
  BY DEF AtRest, Settled, OneStepBack
<1>2. CASE s = "unroot"
  <2>1. snaps' = <<>>
    BY <1>1, <1>2 DEF Noted
  <2>2. disk'.own.ver = 0 /\ disk'.receipt = NoReceipt
    BY <1>2, OtherWrites DEF Restores
  <2>3. QED
    BY <2>1, <2>2 DEF Settled, OneStepBack
<1>3. CASE s = "clear"
  <2>1. snaps' = snaps
    BY <1>1, <1>3 DEF Noted
  <2>2. \A f \in Fields : disk'[f] = disk[f]
    BY <1>3, DoMoves DEF Checks
  <2>3. disk'.own = disk.own /\ disk'.receipt = disk.receipt /\ disk'.bin = disk.bin
    BY <2>2 DEF Fields, Owned, State
  <2>4. Settled(disk, snaps) /\ disk.own.ver # 0
    BY <1>1, <1>3, ClearSettles DEF KeepsJournal, JournalInv
  <2>5. QED
    BY <2>1, <2>3, <2>4 DEF Settled, OneStepBack
<1>4. CASE s \notin {"unroot", "clear"}
  <2>1. s # "begin"
    <3>1. s = "begin" => mark'.snap = n /\ n > 0
      BY <1>1, BeginKeeps DEF KeepsJournal, StepOk
    <3>2. n \in Nat
      BY DEF ControlInv, SnapsTyped
    <3>3. QED
      BY <3>1, <3>2 DEF Pending
  <2>2. ~Pending
    BY <1>1, <1>4, <2>1 DEF Noted, Pending
  <2>3. Settled(disk', snaps) /\ (disk'.own.ver = 0 => disk.own.ver = 0)
    BY <1>1, <1>4, <2>2 DEF KeepsJournal
  <2>4. CASE s = "capture"
    <3>1. \A f \in Fields : disk'[f] = disk[f]
      BY <2>4, DoMoves DEF Checks
    <3>2. disk'.receipt = disk.receipt /\ disk.receipt \in Receipts(n)
      BY <3>1 DEF ControlInv, DiskTyped, Fields, Owned, State, Kind
    <3>3. \A i \in 1..n : snaps'[i] = snaps[i]
      BY <2>4, SnapsStay
    <3>4. Settled(disk', snaps')
      BY <2>3, <3>2, <3>3, SettledGrows
    <3>5. disk.own.ver # 0
      BY <1>1, <2>4 DEF Ready, Capturable
    <3>6. QED
      BY <2>3, <3>4, <3>5
  <2>5. CASE s # "capture"
    <3>1. snaps' = snaps
      BY <1>1, <1>4, <2>5 DEF Noted
    <3>2. QED
      BY <2>2, <2>3, <3>1 DEF JournalInv, AtRest
  <2>6. QED
    BY <2>4, <2>5
<1>5. QED
  BY <1>2, <1>3, <1>4

LEMMA DoJournal ==
  ASSUME ControlInv, JournalInv, NEW m \in Manager, Do(m)
  PROVE  JournalInv'
<1>1. MarkSound' /\ AtRest' /\ Journal(mgr[m])'
  BY DoMarkSound, DoAtRest, StepKeeps
<1>2. lock' = m /\ mgr'[m].pc = "run" /\ \A o \in Manager \ {m} : mgr'[o] = mgr[o]
  BY DoFacts DEF Moved, Noted
<1>3. ASSUME NEW o \in Manager
      PROVE  /\ mgr'[o].pc = "ask" /\ mgr'[o].cmd = "update" => mgr'[o].ver # mgr'[o].seen
             /\ lock' = o => Journal(mgr[o])'
  <2>1. CASE o = m
    BY <1>1, <1>2, <2>1
  <2>2. CASE o # m
    BY <1>2, <2>2 DEF JournalInv
  <2>3. QED
    BY <2>1, <2>2
<1>4. QED
  BY <1>1, <1>3 DEF JournalInv

-----------------------------------------------------------------------------
(* The journal when a command ends, breaks off or begins                   *)

LEMMA JournalStays ==
  ASSUME NEW m, mgr'[m] = mgr[m], disk' = disk, snaps' = snaps, mark' = mark, Journal(mgr[m])
  PROVE  Journal(mgr[m])'
<1>1. /\ Updating(mgr[m])' = Updating(mgr[m]) /\ RollingBack(mgr[m])' = RollingBack(mgr[m])
      /\ Recovering(mgr[m])' = Recovering(mgr[m]) /\ Installing(mgr[m])' = Installing(mgr[m])
      /\ Importing(mgr[m])' = Importing(mgr[m]) /\ TakingBack(mgr[m])' = TakingBack(mgr[m])
      /\ RestoringImport(mgr[m])' = RestoringImport(mgr[m])
  BY DEF Updating, RollingBack, Recovering, Installing, Importing, RestoringImport, TakingBack, On, Left,
         Pending, Snap, SameCatalog
<1>2. /\ UpdateJournal(mgr[m])' = UpdateJournal(mgr[m])
      /\ RollbackJournal(mgr[m])' = RollbackJournal(mgr[m])
      /\ RecoverJournal(mgr[m])' = RecoverJournal(mgr[m])
      /\ UndoJournal(mgr[m])' = UndoJournal(mgr[m])
      /\ InstallJournal(mgr[m])' = InstallJournal(mgr[m])
      /\ CatalogJournal(mgr[m])' = CatalogJournal(mgr[m])
  BY DEF UpdateJournal, RollbackJournal, RecoverJournal, UndoJournal, InstallJournal, CatalogJournal, Left,
         Captured, Whole, Intact, CatalogOwned, Valid, Receipted, LikeSnapshot, Restored, Pending
<1>3. QED
  BY <1>1, <1>2 DEF Journal

(* Nothing is written.                                                     *)
LEMMA FilesStay ==
  ASSUME JournalInv, disk' = disk, snaps' = snaps, mark' = mark
  PROVE  MarkSound' /\ AtRest'
BY DEF JournalInv, MarkSound, AtRest, Pending, Settled, OneStepBack

LEMMA EndJournal ==
  ASSUME ControlInv, JournalInv, NEW m \in Manager, End(m),
         disk' = disk, snaps' = snaps, mark' = mark
  PROVE  JournalInv'
<1>1. /\ DOMAIN mgr' = Manager /\ mgr'[m] = Idle /\ (\A o \in Manager \ {m} : mgr'[o] = mgr[o])
      /\ lock' = "free"
  BY DEF End, ControlInv
<1>2. \A o \in Manager : lock' # o
  BY <1>1, ReleaseAssumption
<1>3. \A o \in Manager : mgr'[o].pc = "ask" /\ mgr'[o].cmd = "update" => mgr'[o].ver # mgr'[o].seen
  BY <1>1 DEF JournalInv, Idle
<1>4. QED
  BY <1>2, <1>3, FilesStay DEF JournalInv

LEMMA AsideJournal ==
  ASSUME ControlInv, JournalInv, NEW m \in Manager, mgr[m].pc # "run", lock' = lock,
         \A o \in Manager \ {m} : mgr'[o] = mgr[o],
         mgr'[m].pc = "ask" /\ mgr'[m].cmd = "update" => mgr'[m].ver # mgr'[m].seen,
         disk' = disk, snaps' = snaps, mark' = mark
  PROVE  JournalInv'
<1>1. lock # m
  BY DEF ControlInv, ManagerTyped
<1>2. ASSUME NEW o \in Manager \ {m}
      PROVE  /\ mgr'[o].pc = "ask" /\ mgr'[o].cmd = "update" => mgr'[o].ver # mgr'[o].seen
             /\ lock' = o => Journal(mgr[o])'
  BY JournalStays DEF JournalInv
<1>3. QED
  BY <1>1, <1>2, FilesStay DEF JournalInv

(* The way back begins.                                                    *)
LEMMA TurnJournal ==
  ASSUME ControlInv, JournalInv, NEW m \in Manager, TurnsBack(m), lock = m, mgr[m].todo # <<>>,
         disk' = disk, snaps' = snaps, mark' = mark,
         mgr[m].stage # "undoing", Undo(mgr[m]) # <<>>
  PROVE  Journal(mgr[m])'
<1> DEFINE me == mgr[m]
<1>1. /\ Working(me) /\ Journal(me) /\ mgr'[m].stage = "undoing" /\ mgr'[m].cmd = me.cmd
      /\ mgr'[m].before = me.before /\ mgr'[m].todo = Undo(me) /\ mgr'[m].end = Verdict(me)
  BY DEF ControlInv, JournalInv, TurnsBack
<1>2. /\ ~Updating(mgr[m])' /\ ~RollingBack(mgr[m])' /\ ~Importing(mgr[m])' /\ ~RestoringImport(mgr[m])'
      /\ ~Recovering(mgr[m])' /\ ~Installing(mgr[m])'
  BY <1>1 DEF Updating, RollingBack, Recovering, Installing, Importing, RestoringImport
<1>3. CASE me.cmd = "update" \/ (me.cmd = "rollback" /\ me.stage = "restoring")
  <2>1. me.stage # "plain"
    BY <1>3 DEF Undo
  <2>2. me.stage \in {"marked", "restoring"} /\ (me.cmd = "rollback" => me.stage = "restoring")
    BY <1>1, <1>3, <2>1 DEF Working, Updating, RollingBack, Recovering, Installing, Importing,
       RestoringImport, Uninstalling, TakingBack
  <2>3. Undo(me) = UndoSwitch /\ Verdict(me) = "restored"
    BY <1>3, <2>2 DEF Undo, Verdict
  <2>4. Left(mgr[m])' = 11
    BY <1>1, <2>3, UndoTable DEF Left
  <2>5. BackAgain(11 - 2) = {}
    BY BackSets
  <2>6. UndoJournal(mgr[m])'
    BY <1>1, <2>3, <2>4, <2>5 DEF UndoJournal, Restored
  <2>7. QED
    BY <1>1, <1>2, <1>3, <2>6 DEF Journal
<1>4. CASE me.cmd = "rollback" /\ me.stage # "restoring"
  <2>1. me.stage # "plain"
    BY <1>4 DEF Undo
  <2>2. RollingBack(me) /\ me.stage = "marked"
    BY <1>1, <1>4, <2>1 DEF Working, Updating, RollingBack, Recovering, Installing, Importing,
       RestoringImport, Uninstalling, TakingBack
  <2>3. Undo(me) = <<"clear">> /\ Verdict(me) = "refused"
    BY <1>4, <2>2 DEF Undo, Verdict
  <2>4. LikeSnapshot
    BY <1>1, <2>2 DEF Journal, RollbackJournal, RollingBack
  <2>5. LikeSnapshot' /\ Left(mgr[m])' = 1
    BY <1>1, <2>3, <2>4 DEF LikeSnapshot, Left
  <2>6. UndoJournal(mgr[m])'
    BY <1>1, <2>3, <2>5 DEF UndoJournal
  <2>7. QED
    BY <1>1, <1>2, <1>4, <2>6 DEF Journal
<1>5. CASE me.cmd \in {"import", "catalog_rollback"}
  <2>1. Importing(me) \/ RestoringImport(me)
    BY <1>1, <1>5 DEF Working, Updating, RollingBack, Recovering, Installing, Uninstalling, TakingBack
  <2>2. CatalogJournal(mgr[m])'
    BY <1>1, <2>1 DEF Journal, CatalogJournal
  <2>3. QED
    BY <1>1, <1>2, <1>5, <2>2 DEF Journal
<1>6. CASE me.cmd \notin {"update", "rollback", "import", "catalog_rollback"}
  <2>1. ~TakingBack(mgr[m])'
    BY <1>1, <1>6 DEF TakingBack
  <2>2. QED
    BY <1>2, <2>1 DEF Journal
<1>7. QED
  BY <1>3, <1>4, <1>5, <1>6

LEMMA BreakJournal ==
  ASSUME ControlInv, JournalInv, NEW m \in Manager, Break(m), mgr[m].pc = "run", mgr[m].todo # <<>>
  PROVE  JournalInv'
<1> DEFINE me == mgr[m]
<1>1. lock = m /\ disk' = disk /\ snaps' = snaps /\ mark' = mark
  BY DEF ControlInv, ManagerTyped, Break
<1>2. CASE me.stage = "undoing" \/ Undo(me) = <<>>
  BY <1>1, <1>2, EndJournal DEF Break
<1>3. CASE ~(me.stage = "undoing" \/ Undo(me) = <<>>)
  <2>1. TurnsBack(m)
    BY <1>3, BreakTurns
  <2>2. Journal(mgr[m])'
    BY <1>1, <1>3, <2>1, TurnJournal
  <2>3. ASSUME NEW o \in Manager
        PROVE  /\ mgr'[o].pc = "ask" /\ mgr'[o].cmd = "update" => mgr'[o].ver # mgr'[o].seen
               /\ lock' = o => Journal(mgr[o])'
    BY <1>1, <2>1, <2>2 DEF TurnsBack, JournalInv
  <2>4. QED
    BY <1>1, <2>3, FilesStay DEF JournalInv
<1>4. QED
  BY <1>2, <1>3

(* The command begins with what it has checked under the lock.             *)
LEMMA TakeJournal ==
  ASSUME ControlInv, JournalInv, NEW m \in Manager, Lock(m), Admitted(mgr[m])
  PROVE  Journal(mgr[m])'
<1> DEFINE me == mgr[m]
<1>1. TakesLock(m)
  BY LockTakes
<1>2. /\ me.pc = "ask" /\ ManagerTyped(m) /\ disk' = disk /\ snaps' = snaps /\ mark' = mark
  BY DEF ControlInv, Lock
<1>3. /\ mgr'[m].todo = Program(me) /\ mgr'[m].stage = "plain" /\ mgr'[m].before = disk
      /\ mgr'[m].cmd = me.cmd /\ mgr'[m].saw = me.saw
  BY <1>1 DEF TakesLock
<1>4. ~TakingBack(mgr[m])'
  BY <1>3 DEF TakingBack
<1>5. Updating(mgr[m])' => UpdateJournal(mgr[m])'
  <2> SUFFICES ASSUME me.cmd = "update" PROVE UpdateJournal(mgr[m])'
    BY <1>3 DEF Updating
  <2>1. mgr'[m].ver # disk'.own.ver
    BY <1>1, <1>2 DEF TakesLock, Admitted, JournalInv
  <2>2. Left(mgr[m])' = 20
    BY <1>3, UpdateTable DEF Program, Left
  <2>3. QED
    BY <2>1, <2>2 DEF UpdateJournal
<1>6. RollingBack(mgr[m])' => RollbackJournal(mgr[m])'
  <2> SUFFICES ASSUME me.cmd = "rollback" PROVE RollbackJournal(mgr[m])'
    BY <1>3 DEF RollingBack
  <2>1. mgr'[m].ver = disk.receipt.prev /\ mgr'[m].from = disk.receipt.snap
    BY <1>1 DEF TakesLock
  <2>2. disk.own.ver # 0 /\ disk.receipt.cur = disk.own.ver /\ snaps[disk.receipt.snap].own.ver = disk.receipt.prev
    BY <1>2 DEF Admitted, ManagerTyped
  <2>3. Left(mgr[m])' = 16
    BY <1>3, RollbackTable DEF Program, Left
  <2>4. QED
    BY <1>2, <2>1, <2>2, <2>3 DEF RollbackJournal
<1>7. Recovering(mgr[m])' => RecoverJournal(mgr[m])'
  <2> SUFFICES ASSUME me.cmd = "repair", me.saw PROVE RecoverJournal(mgr[m])'
    BY <1>3 DEF Recovering
  <2>1. Left(mgr[m])' = 13
    BY <1>3, RecoverTable DEF Program, Left
  <2>2. BackAgain(13 - 3) = {}
    BY BackSets
  <2>3. QED
    BY <2>1, <2>2 DEF RecoverJournal, Restored
<1>8. Installing(mgr[m])' => InstallJournal(mgr[m])'
  <2> SUFFICES ASSUME me.cmd \in {"install", "repair"}, ~me.saw PROVE InstallJournal(mgr[m])'
    BY <1>3 DEF Installing
  <2>1. ~Pending' /\ disk'.own.ver \in {0, mgr'[m].ver}
    BY <1>1, <1>2 DEF Admitted, MayInstall, Pending, TakesLock
  <2>2. Program(me) = StopInstall \/ Program(me) = InstallSteps(FALSE)
    BY DEF Program, StopInstall
  <2>3. Len(Program(me)) \in {12, 13}
    <3>1. Len(InstallSteps(FALSE)) = 12 /\ Len(StopInstall) = 13
      BY EndsOfPrograms, InstallTable
    <3>2. QED
      BY <2>2, <3>1
  <2>4. Left(mgr[m])' \in {12, 13}
    BY <1>3, <2>3 DEF Left
  <2>5. QED
    BY <2>1, <2>4 DEF InstallJournal
<1>9. CatalogJournal(mgr[m])'
  BY <1>2, <1>3 DEF CatalogJournal
<1>10. QED
  BY <1>4, <1>5, <1>6, <1>7, <1>8, <1>9 DEF Journal

LEMMA LockJournal ==
  ASSUME ControlInv, JournalInv, NEW m \in Manager, Lock(m)
  PROVE  JournalInv'
<1>1. /\ mgr[m].pc = "ask" /\ disk' = disk /\ snaps' = snaps /\ mark' = mark /\ lock = "free"
  BY DEF Lock, LockIsFree
<1>2. CASE Admitted(mgr[m])
  <2>1. TakesLock(m) /\ Journal(mgr[m])'
    BY <1>2, LockTakes, TakeJournal
  <2>2. ASSUME NEW o \in Manager
        PROVE  /\ mgr'[o].pc = "ask" /\ mgr'[o].cmd = "update" => mgr'[o].ver # mgr'[o].seen
               /\ lock' = o => Journal(mgr[o])'
    BY <2>1 DEF TakesLock, JournalInv
  <2>3. QED
    BY <1>1, <2>2, FilesStay DEF JournalInv
<1>3. CASE ~Admitted(mgr[m])
  <2>1. lock' = lock /\ mgr' = [mgr EXCEPT ![m] = Idle]
    BY <1>3 DEF Lock
  <2>2. mgr'[m] = Idle /\ \A o \in Manager \ {m} : mgr'[o] = mgr[o]
    BY <2>1 DEF ControlInv
  <2>3. QED
    BY <1>1, <2>1, <2>2, AsideJournal DEF Idle
<1>4. QED
  BY <1>2, <1>3

LEMMA AskJournal ==
  ASSUME ControlInv, JournalInv, NEW m \in Manager, NEW c \in Commands[m], NEW v \in Versions,
         NEW a \in Imports \cup {0}, Ask(m, c, v, a)
  PROVE  JournalInv'
<1> DEFINE x == [Idle EXCEPT !.pc = "ask", !.cmd = c, !.ver = v, !.arg = a, !.seen = disk.own.ver,
                              !.saw = (c = "repair" /\ Pending)]
<1>1. /\ mgr' = [mgr EXCEPT ![m] = x] /\ mgr[m].pc # "run" /\ lock' = lock /\ disk' = disk
      /\ snaps' = snaps /\ mark' = mark /\ (c = "update" => v # disk.own.ver)
  BY DEF Ask
<1>2. x.cmd = c /\ x.ver = v /\ x.seen = disk.own.ver
  BY DEF Idle
<1> HIDE DEF x
<1>3. mgr'[m] = x /\ \A o \in Manager \ {m} : mgr'[o] = mgr[o]
  BY <1>1 DEF ControlInv
<1>4. QED
  BY <1>1, <1>2, <1>3, AsideJournal

LEMMA LockTakenJournal ==
  ASSUME ControlInv, JournalInv, NEW m \in Manager, LockTaken(m)
  PROVE  JournalInv'
<1>1. /\ mgr' = [mgr EXCEPT ![m] = Idle] /\ mgr[m].pc # "run" /\ lock' = lock /\ disk' = disk
      /\ snaps' = snaps /\ mark' = mark
  BY DEF LockTaken
<1>2. mgr'[m] = Idle /\ \A o \in Manager \ {m} : mgr'[o] = mgr[o]
  BY <1>1 DEF ControlInv
<1>3. QED
  BY <1>1, <1>2, AsideJournal DEF Idle

-----------------------------------------------------------------------------
(* The journal beside users, clients and the broker                        *)

(* While a stop is under way nothing has been switched.                    *)
LEMMA StopAt ==
  ASSUME NEW me, me.todo # <<>>, Head(me.todo) \in {"stop", "stopPrior"}
  PROVE  /\ Updating(me) => Left(me) = 17
         /\ RollingBack(me) => Left(me) = 14
         /\ Recovering(me) => Left(me) = 13
         /\ TakingBack(me) => me.cmd \notin {"update", "rollback"}
<1> DEFINE s == Head(me.todo)
<1>1. ASSUME Updating(me) PROVE Left(me) = 17
  <2>1. PICK k \in 1..20 : Left(me) = k /\ s = UpdateSteps[20 - k + 1]
    BY <1>1, OnEach DEF Updating, Stands
  <2>2. \A i \in 1..20 : UpdateSteps[i] \in {"stop", "stopPrior"} => i = 4
    BY UpdateTable
  <2>3. 20 - k + 1 \in 1..20
    OBVIOUS
  <2>4. 20 - k + 1 = 4
    BY <2>1, <2>2, <2>3
  <2>5. QED
    BY <2>1, <2>4
<1>2. ASSUME RollingBack(me) PROVE Left(me) = 14
  <2>1. PICK k \in 1..16 : Left(me) = k /\ s = RollbackSteps[16 - k + 1]
    BY <1>2, OnEach DEF RollingBack, Stands
  <2>2. QED
    BY <2>1, RollbackTable
<1>3. ASSUME Recovering(me) PROVE Left(me) = 13
  <2>1. PICK k \in 1..13 : Left(me) = k /\ s = RecoverSteps[13 - k + 1]
    BY <1>3, OnEach DEF Recovering, Stands
  <2>2. QED
    BY <2>1, RecoverTable
<1>4. ASSUME TakingBack(me), me.cmd \in {"update", "rollback"} PROVE FALSE
  <2>1. PICK k \in 1..11 : s = UndoSwitch[11 - k + 1]
    BY <1>4, OnEach DEF TakingBack, Stands
  <2>2. QED
    BY <2>1, UndoTable
<1>5. QED
  BY <1>1, <1>2, <1>3, <1>4

(* An edit of the catalog or the plugin, or a package that is damaged.     *)
Touched ==
  /\ \A f \in Fields \ (Edited \cup {"retained"}) : disk'[f] = disk[f]
  /\ \A f \in Edited : disk'[f] = disk[f] \/ disk'[f] = Junk
LEMMA TouchedJournal ==
  ASSUME ControlInv, JournalInv, Editable, Touched,
         snaps' = snaps, mark' = mark, lock' = lock, mgr' = mgr
  PROVE  JournalInv'
<1>1. disk'.own = disk.own /\ disk'.receipt = disk.receipt /\ disk'.bin = disk.bin
  BY DEF Touched, Fields, Edited, Owned, State
<1>2. MarkSound' /\ AtRest'
  BY <1>1 DEF JournalInv, MarkSound, AtRest, Pending, Settled, OneStepBack
<1>3. ASSUME NEW m \in Manager, lock = m PROVE Journal(mgr[m])'
  <2> DEFINE me == mgr[m]
  <2>1. me.todo # <<>> /\ Head(me.todo) \in {"stop", "stopPrior"}
    BY <1>3, ReleaseAssumption DEF Editable
  <2>2. /\ Updating(me) => Left(me) = 17
        /\ RollingBack(me) => Left(me) = 14
        /\ Recovering(me) => Left(me) = 13
        /\ TakingBack(me) => me.cmd \notin {"update", "rollback"}
    BY <2>1, StopAt
  <2>3. Journal(me)
    BY <1>3 DEF JournalInv
  <2>4. /\ Updating(mgr[m])' = Updating(me) \/ Left(me) = 19
        /\ RollingBack(mgr[m])' = RollingBack(me)
        /\ Recovering(mgr[m])' = Recovering(me) /\ Installing(mgr[m])' = Installing(me)
        /\ Importing(mgr[m])' = Importing(me) /\ TakingBack(mgr[m])' = TakingBack(me)
        /\ RestoringImport(mgr[m])' => RestoringImport(me) \/ SameCatalog(me.before)'
    BY <1>1 DEF Updating, RollingBack, Recovering, Installing, Importing, RestoringImport, TakingBack, On,
           Left, Pending, Snap, SameCatalog
  <2>5. Updating(mgr[m])' => UpdateJournal(mgr[m])'
    <3> SUFFICES ASSUME Updating(me) PROVE UpdateJournal(mgr[m])'
      BY <1>1 DEF Updating, On, Left, Pending
    <3>1. Left(me) = 17 /\ UpdateJournal(me)
      BY <2>2, <2>3 DEF Journal
    <3>2. QED
      BY <1>1, <3>1 DEF UpdateJournal, Left
  <2>6. RollingBack(mgr[m])' => RollbackJournal(mgr[m])'
    <3> SUFFICES ASSUME RollingBack(me) PROVE RollbackJournal(mgr[m])'
      BY <2>4
    <3>1. Left(me) = 14 /\ RollbackJournal(me)
      BY <2>2, <2>3 DEF Journal
    <3>2. LikeSnapshot
      BY <3>1 DEF RollbackJournal
    <3>3. LikeSnapshot'
      <4>1. Owned \ Edited \subseteq Fields \ (Edited \cup {"retained"})
        BY DEF Fields, Owned, Config, Artifacts, State
      <4>2. QED
        BY <3>2, <4>1 DEF LikeSnapshot, Touched
    <3>4. QED
      BY <1>1, <3>1, <3>3 DEF RollbackJournal, Left
  <2>7. Recovering(mgr[m])' => RecoverJournal(mgr[m])'
    <3> SUFFICES ASSUME Recovering(me) PROVE RecoverJournal(mgr[m])'
      BY <2>4
    <3>1. Left(me)' = 13
      BY <2>2 DEF Left
    <3>2. BackAgain(13 - 3) = {}
      BY BackSets
    <3>3. QED
      BY <3>1, <3>2 DEF RecoverJournal, Restored
  <2>8. Installing(mgr[m])' => InstallJournal(mgr[m])'
    <3> SUFFICES ASSUME Installing(me) PROVE InstallJournal(mgr[m])'
      BY <2>4
    <3>1. InstallJournal(me)
      BY <2>3 DEF Journal
    <3>2. QED
      BY <1>1, <3>1 DEF InstallJournal, Left, Pending
  <2>9. Importing(mgr[m])' \/ RestoringImport(mgr[m])' => CatalogJournal(mgr[m])'
    <3> SUFFICES ASSUME Importing(me) \/ RestoringImport(me) PROVE CatalogJournal(mgr[m])'
      <4>1. RestoringImport(mgr[m])' => RestoringImport(me)
        <5> SUFFICES ASSUME RestoringImport(mgr[m])' PROVE RestoringImport(me)
          OBVIOUS
        <5>1. On(me, CatalogBackSteps)
          BY DEF RestoringImport, On
        <5>2. PICK k \in 1..9 : Left(me) = k /\ Head(me.todo) = CatalogBackSteps[9 - k + 1]
          BY <2>1, <5>1, OnEach DEF Stands
        <5>3. Left(me) = 9
          BY <2>1, <5>2, CatalogBackTable
        <5>4. QED
          BY <5>3 DEF RestoringImport, On, Left
      <4>2. QED
        BY <2>4, <4>1
    <3>1. CatalogJournal(me)
      BY <2>3 DEF Journal
    <3>2. QED
      BY <1>1, <3>1 DEF CatalogJournal
  <2>10. TakingBack(mgr[m])' => mgr'[m].cmd \notin {"update", "rollback"} /\ CatalogJournal(mgr[m])'
    <3> SUFFICES ASSUME TakingBack(me) PROVE me.cmd \notin {"update", "rollback"} /\ CatalogJournal(mgr[m])'
      BY <2>4
    <3>1. CatalogJournal(me)
      BY <2>2, <2>3 DEF Journal
    <3>2. QED
      BY <1>1, <2>2, <3>1 DEF CatalogJournal
  <2>11. QED
    BY <2>5, <2>6, <2>7, <2>8, <2>9, <2>10 DEF Journal
<1>4. QED
  BY <1>2, <1>3 DEF JournalInv

LEMMA DriftJournal ==
  ASSUME ControlInv, JournalInv, NEW f \in {"cat", "plugin"}, Drift(f)
  PROVE  JournalInv'
<1>1. /\ snaps' = snaps /\ mark' = mark /\ lock' = lock /\ mgr' = mgr
      /\ disk' = [disk EXCEPT ![f] = Junk] /\ Editable
  BY DEF Drift
<1>2. disk'[f] = Junk /\ \A g \in Fields \ {f} : disk'[g] = disk[g]
  BY <1>1 DEF ControlInv, DiskTyped, Fields, Owned, Config
<1>3. Touched
  BY <1>2 DEF Touched, Edited, Fields, Owned, Config
<1>4. QED
  BY <1>1, <1>3, TouchedJournal

LEMMA DamageJournal ==
  ASSUME ControlInv, JournalInv, NEW v \in Versions, Damage(v)
  PROVE  JournalInv'
<1>1. /\ snaps' = snaps /\ mark' = mark /\ lock' = lock /\ mgr' = mgr
      /\ disk' = [disk EXCEPT !.retained = @ \ {v}] /\ Editable
  BY DEF Damage
<1>2. \A g \in Fields \ {"retained"} : disk'[g] = disk[g]
  BY <1>1 DEF ControlInv, DiskTyped
<1>3. Touched
  BY <1>2 DEF Touched, Edited, Fields, Owned, Config
<1>4. QED
  BY <1>1, <1>3, TouchedJournal

LEMMA StillJournal ==
  ASSUME JournalInv, disk' = disk, snaps' = snaps, mark' = mark, lock' = lock, mgr' = mgr
  PROVE  JournalInv'
<1>1. ASSUME NEW m \in Manager, lock = m PROVE Journal(mgr[m])'
  BY <1>1, JournalStays DEF JournalInv
<1>2. QED
  BY <1>1, FilesStay DEF JournalInv

-----------------------------------------------------------------------------
(* The theorems about the journal                                          *)

LEMMA InitJournal == Init => JournalInv
<1> SUFFICES ASSUME Init PROVE JournalInv
  OBVIOUS
<1>1. /\ snaps = <<>> /\ mark = NoMark /\ lock = "free" /\ mgr = [m \in Manager |-> Idle]
  BY DEF Init
<1>2. PICK v \in First : disk = Installed(v)
  BY DEF Init
<1>3. disk.own.ver = v /\ (v # 0 => disk.bin = v) /\ disk.receipt = NoReceipt
  <2>1. CASE v = 0
    BY <1>2, <2>1 DEF Installed, Nothing, NoOwn
  <2>2. CASE v # 0
    BY <1>2, <2>2 DEF Installed, Nothing
  <2>3. QED
    BY <2>1, <2>2
<1>4. AtRest /\ MarkSound
  BY <1>1, <1>3 DEF AtRest, MarkSound, Pending, NoMark, Settled, OneStepBack
<1>5. \A m \in Manager : lock # m /\ mgr[m].pc # "ask"
  BY <1>1, ReleaseAssumption DEF Idle
<1>6. QED
  BY <1>4, <1>5 DEF JournalInv

LEMMA NextJournal == ControlInv /\ JournalInv /\ [Next]_vars => JournalInv'
<1> SUFFICES ASSUME ControlInv, JournalInv, [Next]_vars PROVE JournalInv'
  OBVIOUS
<1>1. ASSUME NEW m \in Manager, NEW c \in Commands[m], NEW v \in Versions, NEW a \in Imports \cup {0},
             Ask(m, c, v, a)
      PROVE  JournalInv'
  BY <1>1, AskJournal
<1>2. ASSUME NEW m \in Manager, Lock(m) PROVE JournalInv'
  BY <1>2, LockJournal
<1>3. ASSUME NEW m \in Manager, LockTaken(m) PROVE JournalInv'
  BY <1>3, LockTakenJournal
<1>4. ASSUME NEW m \in Manager, Do(m) PROVE JournalInv'
  BY <1>4, DoJournal
<1>5. ASSUME NEW m \in Manager, Refuse(m) PROVE JournalInv'
  BY <1>5, BreakJournal DEF Refuse, Running
<1>6. ASSUME NEW m \in Manager, Finish(m) PROVE JournalInv'
  BY <1>6, EndJournal DEF Finish
<1>7. ASSUME NEW m \in Manager, Fail(m) PROVE JournalInv'
  BY <1>7, BreakJournal DEF Fail, Running
<1>8. ASSUME NEW m \in Manager, Crash(m) PROVE JournalInv'
  BY <1>8, EndJournal DEF Crash, End
<1>9. ASSUME NEW f \in {"cat", "plugin"}, Drift(f) PROVE JournalInv'
  BY <1>9, DriftJournal
<1>10. ASSUME NEW v \in Versions, Damage(v) PROVE JournalInv'
  BY <1>10, DamageJournal
<1>11. CASE ClientStart \/ BrokerWorks \/ BrokerRests
  BY <1>11, StillJournal DEF ClientStart, BrokerWorks, BrokerRests
<1>12. CASE UNCHANGED vars
  BY <1>12, StillJournal DEF vars
<1>13. QED
  BY <1>1, <1>2, <1>3, <1>4, <1>5, <1>6, <1>7, <1>8, <1>9, <1>10, <1>11, <1>12 DEF Next

(* Whatever fails, dies or is edited on the way: the marker names a whole  *)
(* snapshot of the release before the switch, what it does not guard is    *)
(* settled, and the command at work has journaled what its rest relies on. *)
THEOREM ReleaseJournal == Spec => []JournalInv
<1>1. Init => ControlInv /\ JournalInv
  BY InitControl, InitJournal
<1>2. (ControlInv /\ JournalInv) /\ [Next]_vars => (ControlInv /\ JournalInv)'
  BY NextControl, NextJournal
<1>3. QED
  BY <1>1, <1>2, PTL DEF Spec

(* Without a pending transaction, the receipt names the installed release, *)
(* and the snapshot that it names is whole and of the one before.          *)
THEOREM ReleaseReceipt == Spec => []ReceiptIsOneStepBack
<1>1. JournalInv => ReceiptIsOneStepBack
  BY DEF JournalInv, AtRest, Settled, OneStepBack, ReceiptIsOneStepBack
<1>2. QED
  BY <1>1, ReleaseJournal, PTL

(* A step in which the ownership state may change is one of a program.     *)
LEMMA OthersLeaveOwn ==
  ASSUME ControlInv, [Next]_vars, \A m \in Manager : ~Do(m)
  PROVE  disk'.own = disk.own /\ mark' = mark
<1>1. ASSUME NEW f \in {"cat", "plugin"}, Drift(f) PROVE disk'.own = disk.own /\ mark' = mark
  <2>1. disk' = [disk EXCEPT ![f] = Junk] /\ mark' = mark
    BY <1>1 DEF Drift
  <2>2. DOMAIN disk = Fields /\ "own" \in Fields \ {f}
    BY DEF ControlInv, DiskTyped, Fields, Owned, State
  <2>3. QED
    BY <2>1, <2>2
<1>2. ASSUME NEW v \in Versions, Damage(v) PROVE disk'.own = disk.own /\ mark' = mark
  <2>1. disk' = [disk EXCEPT !.retained = @ \ {v}] /\ mark' = mark
    BY <1>2 DEF Damage
  <2>2. DOMAIN disk = Fields /\ "own" \in Fields \ {"retained"}
    BY DEF ControlInv, DiskTyped, Fields, Owned, State
  <2>3. QED
    BY <2>1, <2>2
<1>3. ASSUME NEW m \in Manager, Refuse(m) \/ Fail(m) \/ Finish(m) \/ Crash(m) \/ Lock(m) \/ LockTaken(m)
      PROVE  disk'.own = disk.own /\ mark' = mark
  BY <1>3 DEF Refuse, Fail, Break, Finish, Crash, Lock, LockTaken
<1>4. ASSUME NEW m \in Manager, NEW c \in Commands[m], NEW v \in Versions, NEW a \in Imports \cup {0},
             Ask(m, c, v, a)
      PROVE  disk'.own = disk.own /\ mark' = mark
  BY <1>4 DEF Ask
<1>5. CASE ClientStart \/ BrokerWorks \/ BrokerRests \/ UNCHANGED vars
  BY <1>5 DEF ClientStart, BrokerWorks, BrokerRests, vars
<1>6. QED
  BY <1>1, <1>2, <1>3, <1>4, <1>5 DEF Next

LEMMA SwitchStep ==
  ControlInv /\ JournalInv /\ [Next]_vars =>
    [disk.own.ver # disk'.own.ver =>
       \/ /\ Pending /\ Pending'
          /\ {disk.own.ver, disk'.own.ver} \subseteq {0, mark.prev, mark.new}
       \/ disk'.retained = {}
       \/ disk.own.ver = 0 /\ disk.receipt = NoReceipt /\ snaps = <<>>]_vars
<1> SUFFICES ASSUME ControlInv, JournalInv, [Next]_vars, disk.own.ver # disk'.own.ver
             PROVE  \/ /\ Pending /\ Pending'
                       /\ {disk.own.ver, disk'.own.ver} \subseteq {0, mark.prev, mark.new}
                    \/ disk'.retained = {}
                    \/ disk.own.ver = 0 /\ disk.receipt = NoReceipt /\ snaps = <<>>
  OBVIOUS
<1>1. PICK m \in Manager : Do(m)
  BY OthersLeaveOwn
<1>2. KeepsJournal(m)
  BY <1>1, StepKeeps
<1>3. CASE Pending /\ Pending' /\ disk'.own.ver \in {0, mark.prev, mark.new}
  BY <1>3 DEF JournalInv, MarkSound
<1>4. CASE ~Pending /\ disk.own.ver = 0
  BY <1>4 DEF JournalInv, AtRest, Settled
<1>5. CASE Head(mgr[m].todo) = "unroot"
  BY <1>1, <1>5, OtherWrites DEF Restores
<1>6. QED
  BY <1>2, <1>3, <1>4, <1>5 DEF KeepsJournal

LEMMA ClearStep ==
  ControlInv /\ JournalInv /\ [Next]_vars =>
    [Pending /\ ~Pending' =>
       \/ disk'.own.ver = 0
       \/ \A f \in Owned : disk'[f] = snaps[mark.snap][f] \/ disk'[f] = Junk
       \/ /\ disk'.own.ver = mark.new /\ disk'.receipt.cur = mark.new
          /\ CatalogOwned(disk') /\ disk'.bin = mark.new
          /\ disk'.plugin = disk'.own.plugin /\ disk'.block = Block(mark.new)]_vars
<1> SUFFICES ASSUME ControlInv, JournalInv, [Next]_vars, Pending, ~Pending'
             PROVE  \/ disk'.own.ver = 0
                    \/ \A f \in Owned : disk'[f] = snaps[mark.snap][f] \/ disk'[f] = Junk
                    \/ /\ disk'.own.ver = mark.new /\ disk'.receipt.cur = mark.new
                       /\ CatalogOwned(disk') /\ disk'.bin = mark.new
                       /\ disk'.plugin = disk'.own.plugin /\ disk'.block = Block(mark.new)
  OBVIOUS
<1>1. PICK m \in Manager : Do(m)
  BY OthersLeaveOwn DEF Pending
<1>2. KeepsJournal(m) /\ Head(mgr[m].todo) \in {"clear", "unroot"}
  BY <1>1, StepKeeps, DoMoves, DoFacts DEF Ready
<1>3. CASE Head(mgr[m].todo) = "unroot"
  BY <1>1, <1>3, OtherWrites DEF Restores
<1>4. CASE Head(mgr[m].todo) = "clear"
  <2>1. \A f \in Fields : disk'[f] = disk[f]
    BY <1>1, <1>4, DoMoves DEF Checks
  <2>2. CASE LikeSnapshot
    BY <2>1, <2>2 DEF LikeSnapshot, Fields
  <2>3. CASE Whole(mark.new, disk) /\ Receipted
    <3>1. Whole(mark.new, disk')
      BY <2>1, <2>3, WholeSame
    <3>2. disk'.receipt = disk.receipt
      BY <2>1 DEF Fields, Owned, State
    <3>3. disk'.receipt.cur = mark.new
      BY <2>3, <3>2 DEF Receipted
    <3>4. Intact(mark.new, disk') /\ disk'.block = Block(mark.new)
      BY <3>1 DEF Whole
    <3>5. /\ disk'.own.ver = mark.new /\ CatalogOwned(disk') /\ disk'.bin = mark.new
          /\ disk'.plugin = disk'.own.plugin
      BY <3>4 DEF Intact
    <3>6. QED
      BY <3>3, <3>4, <3>5
  <2>4. QED
    BY <1>2, <1>4, <2>2, <2>3 DEF KeepsJournal
<1>5. QED
  BY <1>2, <1>3, <1>4

(* The installed release changes only inside a pending transaction between *)
(* the two, which repair can take back; but for a first install and an     *)
(* uninstall.                                                              *)
THEOREM ReleaseSwitch == Spec => SwitchIsJournaled
BY ReleaseControl, ReleaseJournal, SwitchStep, PTL DEF Spec, SwitchIsJournaled

(* The pending marker is cleared last: the files are those of its snapshot *)
(* or those of the candidate, receipt included, or the root is gone.       *)
THEOREM ReleaseMarker == Spec => MarkerGoesLast
BY ReleaseControl, ReleaseJournal, ClearStep, PTL DEF Spec, MarkerGoesLast

-----------------------------------------------------------------------------
(* What a command found, and what is left of it to put back                *)

(* A failed import copies the catalogs that are back into their mirrors.   *)
Copied(me, f) ==
  me.cmd = "import" /\ f \in DOMAIN MirrorOf /\ disk[f] \in {me.before[MirrorOf[f]], Junk}
SameFiles(me, except) ==
  \A f \in Owned \ except :
    disk[f] = me.before[f] \/ (f \in Edited /\ disk[f] = Junk) \/ Copied(me, f)
AsFound(me) == \A f \in Owned : disk[f] = me.before[f]
SnapAsFound(me) == \A f \in Owned : snaps[mark.snap][f] = me.before[f]

(* The files of a catalog command, and those that the rest of its undo     *)
(* program puts back; the receipt of the import stays.                     *)
Catalogued == {"cat", "up", "catArt", "upArt", "own", "imports"}
PuttingBack == Undoing \cup {"mirrorCat", "mirrorUp"}
Undoes ==
  [undoCat |-> "cat", undoUp |-> "up", undoCatArt |-> "catArt", undoUpArt |-> "upArt", undoOwn |-> "own",
   mirrorCat |-> "catArt", mirrorUp |-> "upArt"]
PutsBack(q) ==
  {f \in Catalogued : \E i \in 1..Len(q) : q[i] \in PuttingBack /\ Undoes[q[i]] = f}
ToUndo(me) == {"imports"} \cup PutsBack(me.todo)

(* Before the marker the files are as found, after it the snapshot has them.*)
SwitchFound(me) ==
  /\ me.stage = "plain" => AsFound(me)
  /\ me.stage # "plain" /\ Left(me) # 0 => SnapAsFound(me)
WriteFound(me) == me.stage = "plain" => SameFiles(me, {})
ImportFound(me) ==
  /\ me.stage = "plain" => SameFiles(me, {})
  /\ me.stage = "stopped" => AsFound(me)
  /\ me.stage = "importing" => SameFiles(me, {"up", "cat"})
  /\ SameFiles(me, Catalogued)
BackFound(me) ==
  /\ me.stage = "plain" => SameFiles(me, {})
  /\ SameFiles(me, Catalogued)
UndoFound(me) ==
  IF me.cmd \in {"update", "rollback"}
  THEN IF Left(me) = 0 THEN SameFiles(me, {}) ELSE SnapAsFound(me)
  ELSE SameFiles(me, ToUndo(me))

Found(me) ==
  /\ Updating(me) \/ RollingBack(me) => SwitchFound(me)
  /\ Recovering(me) \/ Installing(me) \/ Uninstalling(me) => WriteFound(me)
  /\ Importing(me) => ImportFound(me)
  /\ RestoringImport(me) => BackFound(me)
  /\ TakingBack(me) => UndoFound(me)
Says(me) == IF me.stage = "undoing" THEN me.end \in {"refused", "restored"} ELSE me.end = "ok"

OutcomeInv ==
  \A m \in Manager : /\ mgr[m].pc = "ask" => mgr[m].end = "ok"
                     /\ lock = m => Found(mgr[m]) /\ Says(mgr[m])

-----------------------------------------------------------------------------
(* The outcome, over the steps of a program                                *)

(* A step that checks, and one that writes one file.                       *)
WritesOnly(f) == \A g \in Fields \ {f} : disk'[g] = disk[g]
LEMMA CatalogWrites ==
  ASSUME ControlInv, NEW m \in Manager, Do(m)
  PROVE  LET me == mgr[m]
             s == Head(me.todo)
         IN
         /\ s \in {"importUp", "backUp"} => WritesOnly("up")
         /\ s \in {"importCat", "backCat"} => WritesOnly("cat")
         /\ s = "note" => WritesOnly("imports")
         /\ s = "mirrorCat" => WritesOnly("catArt") /\ disk'.catArt = disk.cat
         /\ s = "mirrorUp" => WritesOnly("upArt") /\ disk'.upArt = disk.up
         /\ s = "ownCat" => WritesOnly("own")
         /\ s \in Undoing =>
              /\ Undoes[s] \in Catalogued /\ WritesOnly(Undoes[s])
              /\ disk'[Undoes[s]] = me.before[Undoes[s]]
<1> DEFINE me == mgr[m]
           s == Head(mgr[m].todo)
<1>1. \A p : Patch(me, s) = p => \A f \in Fields : disk'[f] = IF f \in DOMAIN p THEN p[f] ELSE disk[f]
  BY DoFacts DEF Wrote, ControlInv, DiskTyped
<1>2. /\ s = "importUp" => Patch(me, s) = [up |-> Contract(me.ver, me.arg)]
      /\ s = "importCat" => Patch(me, s) = [cat |-> Contract(me.ver, me.arg)]
      /\ s = "note" => Patch(me, s) = [imports |-> disk.imports
                         \cup {<<me.before.cat, me.before.up, disk.cat, disk.up>>}]
  BY ImportPatches
<1>3. s \in {"importUp", "backUp"} => WritesOnly("up")
  <2>1. CASE s = "importUp"
    BY <1>1, <1>2, <2>1 DEF WritesOnly
  <2>2. CASE s = "backUp"
    BY <1>1, <2>2, BackPatches DEF WritesOnly
  <2>3. QED
    BY <2>1, <2>2
<1>4. s \in {"importCat", "backCat"} => WritesOnly("cat")
  <2>1. CASE s = "importCat"
    BY <1>1, <1>2, <2>1 DEF WritesOnly
  <2>2. CASE s = "backCat"
    BY <1>1, <2>2, BackPatches DEF WritesOnly
  <2>3. QED
    BY <2>1, <2>2
<1>5. s = "note" => WritesOnly("imports")
  BY <1>1, <1>2 DEF WritesOnly
<1>6. s = "mirrorCat" => WritesOnly("catArt") /\ disk'.catArt = disk.cat
  BY <1>1, MirrorPatches DEF WritesOnly, Fields, Owned, Artifacts
<1>7. s = "mirrorUp" => WritesOnly("upArt") /\ disk'.upArt = disk.up
  BY <1>1, MirrorPatches DEF WritesOnly, Fields, Owned, Artifacts
<1>8. s = "ownCat" => WritesOnly("own")
  <2> DEFINE o == [disk.own EXCEPT !.cat = disk.cat, !.up = disk.up, !.compat = disk.compat]
  <2>1. s = "ownCat" => Patch(me, s) = [own |-> o]
    BY OwnCatPatch
  <2> HIDE DEF o
  <2>2. QED
    BY <1>1, <2>1 DEF WritesOnly
<1>9. ASSUME s \in Undoing
      PROVE  /\ Undoes[s] \in Catalogued /\ WritesOnly(Undoes[s])
             /\ disk'[Undoes[s]] = me.before[Undoes[s]]
  <2> USE DEF WritesOnly, Catalogued, Fields, Owned, Config, Artifacts, State
  <2>1. CASE s = "undoCat"
    <3>1. Patch(me, s) = [cat |-> me.before.cat]
      BY <2>1, UndoPatches
    <3>2. Undoes[s] = "cat"
      BY <2>1 DEF Undoes
    <3>3. QED
      BY <1>1, <3>1, <3>2
  <2>2. CASE s = "undoUp"
    <3>1. Patch(me, s) = [up |-> me.before.up]
      BY <2>2, UndoPatches
    <3>2. Undoes[s] = "up"
      BY <2>2 DEF Undoes
    <3>3. QED
      BY <1>1, <3>1, <3>2
  <2>3. CASE s = "undoCatArt"
    <3>1. Patch(me, s) = [catArt |-> me.before.catArt]
      BY <2>3, UndoPatches
    <3>2. Undoes[s] = "catArt"
      BY <2>3 DEF Undoes
    <3>3. QED
      BY <1>1, <3>1, <3>2
  <2>4. CASE s = "undoUpArt"
    <3>1. Patch(me, s) = [upArt |-> me.before.upArt]
      BY <2>4, UndoPatches
    <3>2. Undoes[s] = "upArt"
      BY <2>4 DEF Undoes
    <3>3. QED
      BY <1>1, <3>1, <3>2
  <2>5. CASE s = "undoOwn"
    <3>1. Patch(me, s) = [own |-> me.before.own]
      BY <2>5, UndoPatches
    <3>2. Undoes[s] = "own"
      BY <2>5 DEF Undoes
    <3>3. QED
      BY <1>1, <3>1, <3>2
  <2>6. QED
    BY <1>9, <2>1, <2>2, <2>3, <2>4, <2>5 DEF Undoing
<1>10. QED
  BY <1>3, <1>4, <1>5, <1>6, <1>7, <1>8, <1>9

(* Where a switch stands.                                                  *)
LEMMA SwitchAt ==
  ASSUME NEW me, me.todo # <<>>, Updating(me) \/ RollingBack(me)
  PROVE  LET s == Head(me.todo) IN
         /\ me.stage \in {"plain", "marked", "restoring"}
         /\ s # "unroot" /\ s \notin {"review", "note"}
         /\ me.stage = "plain" => s \in {"capture", "begin"}
         /\ s = "begin" => /\ Updating(me) => Left(me) = 19
                           /\ RollingBack(me) => Left(me) = 15
         /\ me.stage # "plain" => s \notin {"capture", "begin"} /\ Pending
         /\ s = "clear" => Left(me) = 1
<1> DEFINE s == Head(me.todo)
<1>1. CASE Updating(me)
  <2>1. PICK i \in 1..20 : Left(me) = 21 - i /\ s = UpdateSteps[i]
    <3>1. PICK k \in 1..20 : Left(me) = k /\ s = UpdateSteps[20 - k + 1]
      BY <1>1, OnEach DEF Updating, Stands
    <3>2. 20 - k + 1 \in 1..20 /\ k = 21 - (20 - k + 1)
      OBVIOUS
    <3>3. QED
      BY <3>1, <3>2
  <2>2. ~RollingBack(me)
    BY <1>1 DEF Updating, RollingBack
  <2>3. \A j \in 1..20 : /\ UpdateSteps[j] \notin {"unroot", "review", "note"}
                         /\ UpdateSteps[j] = "clear" => j = 20
                         /\ UpdateSteps[j] = "begin" => j = 2
                         /\ UpdateSteps[j] = "capture" => j = 1
                         /\ j \in 1..2 => UpdateSteps[j] \in {"capture", "begin"}
    BY UpdateTable
  <2>4. /\ me.stage \in {"plain", "marked", "restoring"}
        /\ me.stage = "plain" => i \in 1..2
        /\ me.stage # "plain" => i \in 3..20 /\ Pending
    BY <1>1, <2>1 DEF Updating
  <2>5. /\ s \notin {"unroot", "review", "note"} /\ (s = "clear" => i = 20) /\ (s = "begin" => i = 2)
        /\ (s = "capture" => i = 1) /\ (i \in 1..2 => s \in {"capture", "begin"})
    BY <2>1, <2>3
  <2>6. QED
    BY <2>1, <2>2, <2>4, <2>5
<1>2. CASE RollingBack(me)
  <2>1. PICK i \in 1..16 : Left(me) = 17 - i /\ s = RollbackSteps[i]
    <3>1. PICK k \in 1..16 : Left(me) = k /\ s = RollbackSteps[16 - k + 1]
      BY <1>2, OnEach DEF RollingBack, Stands
    <3>2. 16 - k + 1 \in 1..16 /\ k = 17 - (16 - k + 1)
      OBVIOUS
    <3>3. QED
      BY <3>1, <3>2
  <2>2. ~Updating(me)
    BY <1>2 DEF Updating, RollingBack
  <2>3. \A j \in 1..16 : /\ RollbackSteps[j] \notin {"unroot", "review", "note"}
                         /\ RollbackSteps[j] = "clear" => j = 16
                         /\ RollbackSteps[j] = "begin" => j = 2
                         /\ RollbackSteps[j] = "capture" => j = 1
                         /\ j \in 1..2 => RollbackSteps[j] \in {"capture", "begin"}
    BY RollbackTable
  <2>4. /\ me.stage \in {"plain", "marked", "restoring"}
        /\ me.stage = "plain" => i \in 1..2
        /\ me.stage # "plain" => i \in 3..16 /\ Pending
    BY <1>2, <2>1 DEF RollingBack
  <2>5. /\ s \notin {"unroot", "review", "note"} /\ (s = "clear" => i = 16) /\ (s = "begin" => i = 2)
        /\ (s = "capture" => i = 1) /\ (i \in 1..2 => s \in {"capture", "begin"})
    BY <2>1, <2>3
  <2>6. QED
    BY <2>1, <2>2, <2>4, <2>5
<1>3. QED
  BY <1>1, <1>2

LEMMA SwitchFinds ==
  ASSUME ControlInv, JournalInv, NEW m \in Manager, Do(m), Updating(mgr[m]) \/ RollingBack(mgr[m]),
         SwitchFound(mgr[m])
  PROVE  SwitchFound(mgr[m])'
<1> DEFINE me == mgr[m]
           s == Head(mgr[m].todo)
<1>1. me.todo # <<>> /\ Journal(me) /\ Moved(m) /\ Noted(m)
  BY DoFacts DEF JournalInv
<1>2. /\ me.stage \in {"plain", "marked", "restoring"}
      /\ s \notin {"unroot", "review", "note"}
      /\ me.stage = "plain" => s \in {"capture", "begin"}
      /\ s = "begin" => (Updating(me) => Left(me) = 19) /\ (RollingBack(me) => Left(me) = 15)
      /\ me.stage # "plain" => s \notin {"capture", "begin"} /\ Pending
      /\ s = "clear" => Left(me) = 1
  BY <1>1, SwitchAt
<1>3. me.cmd \in {"update", "rollback"}
  BY DEF Updating, RollingBack
<1>4. mgr'[m].before = me.before /\ mgr'[m].stage = StageAfter(me, s)
  BY <1>1, <1>3 DEF Moved
<1>5. CASE s = "capture"
  <2>1. me.stage = "plain" /\ mgr'[m].stage = "plain"
    BY <1>2, <1>4, <1>5, <1>3 DEF StageAfter
  <2>2. \A f \in Fields : disk'[f] = disk[f]
    BY <1>5, DoMoves DEF Checks
  <2>3. AsFound(mgr[m])'
    BY <1>4, <2>1, <2>2 DEF SwitchFound, AsFound, Fields
  <2>4. QED
    BY <2>1, <2>3 DEF SwitchFound
<1>6. CASE s = "begin"
  <2>1. me.stage = "plain" /\ mgr'[m].stage = "marked"
    BY <1>2, <1>3, <1>4, <1>6 DEF StageAfter
  <2>2. Captured /\ me.ver # disk.own.ver
    <3>1. CASE Updating(me)
      BY <1>1, <1>2, <1>6, <3>1 DEF Journal, UpdateJournal
    <3>2. CASE RollingBack(me)
      <4>1. RollbackJournal(me) /\ Left(me) = 15
        BY <1>1, <1>2, <1>6, <3>2 DEF Journal
      <4>2. AtRest /\ ~Pending
        BY <1>6, DoFacts DEF JournalInv, Ready
      <4>3. disk.receipt # NoReceipt
        BY <4>1 DEF RollbackJournal, NoReceipt
      <4>4. QED
        BY <4>1, <4>2, <4>3 DEF RollbackJournal, AtRest, Settled, OneStepBack
    <3>3. QED
      BY <3>1, <3>2
  <2>3. mark'.snap = Len(snaps) /\ snaps' = snaps
    BY <1>6, <2>2, BeginKeeps
  <2>4. \A f \in Owned : snaps[Len(snaps)][f] = disk[f]
    BY <2>2 DEF Captured, Only
  <2>5. SnapAsFound(mgr[m])'
    BY <1>4, <2>1, <2>3, <2>4 DEF SwitchFound, AsFound, SnapAsFound
  <2>6. QED
    BY <2>1, <2>5 DEF SwitchFound
<1>7. CASE s = "clear"
  <2>1. Left(mgr[m])' = 0
    <3>1. Len(Tail(me.todo)) = Left(me) - 1
      BY <1>1, OnEach DEF Updating, RollingBack, Stands
    <3>2. QED
      BY <1>1, <1>2, <1>7, <3>1 DEF Moved, Left
  <2>2. mgr'[m].stage # "plain"
    BY <1>2, <1>4, <1>7, <1>3 DEF StageAfter
  <2>3. QED
    BY <2>1, <2>2 DEF SwitchFound
<1>8. CASE s \notin {"capture", "begin", "clear"}
  <2>1. me.stage # "plain"
    BY <1>2, <1>8
  <2>2. mgr'[m].stage # "plain"
    BY <1>2, <1>4, <1>8, <1>3, <2>1 DEF StageAfter
  <2>3. mark' = mark /\ snaps' = snaps
    BY <1>1, <1>2, <1>8 DEF Noted
  <2>4. Left(me) # 0
    BY <1>1, OnEach DEF Updating, RollingBack, Stands
  <2>5. SnapAsFound(mgr[m])'
    BY <1>4, <2>1, <2>3, <2>4 DEF SwitchFound, SnapAsFound
  <2>6. QED
    BY <2>2, <2>5 DEF SwitchFound
<1>9. QED
  BY <1>5, <1>6, <1>7, <1>8

(* An install, a repair and an uninstall have written nothing before their *)
(* first step after the stop.                                              *)
LEMMA WriteFinds ==
  ASSUME ControlInv, NEW m \in Manager, Do(m), mgr[m].cmd \in {"install", "repair", "uninstall"},
         mgr[m].stage # "undoing", WriteFound(mgr[m])
  PROVE  WriteFound(mgr[m])'
<1> DEFINE me == mgr[m]
           s == Head(mgr[m].todo)
<1> SUFFICES ASSUME mgr'[m].stage = "plain" PROVE SameFiles(mgr[m], {})'
  BY DEF WriteFound
<1>1. mgr'[m].before = me.before /\ mgr'[m].stage = StageAfter(me, s) /\ mgr'[m].cmd = me.cmd
  BY DoFacts DEF Moved
<1>2. s \in {"stop", "stopPrior"} /\ me.stage = "plain"
  BY <1>1 DEF StageAfter
<1>3. \A f \in Fields : disk'[f] = disk[f]
  BY <1>2, DoMoves DEF Checks
<1>4. QED
  BY <1>1, <1>2, <1>3 DEF WriteFound, SameFiles, Copied, Fields

(* What a step of a catalog command does to what was found.                *)
LEMMA SameWithout ==
  ASSUME NEW me, NEW A, NEW B, SameFiles(me, A), A \subseteq B PROVE SameFiles(me, B)
BY DEF SameFiles
LEMMA SameAfter ==
  ASSUME NEW m, NEW A, NEW g, mgr'[m].before = mgr[m].before, mgr'[m].cmd = mgr[m].cmd,
         WritesOnly(g), g \in A, SameFiles(mgr[m], A)
  PROVE  SameFiles(mgr[m], A)'
<1>1. \A f \in Owned \ A : disk'[f] = disk[f]
  BY DEF WritesOnly, Fields
<1>2. QED
  BY <1>1 DEF SameFiles, Copied
LEMMA SameStill ==
  ASSUME NEW m, NEW A, mgr'[m].before = mgr[m].before, mgr'[m].cmd = mgr[m].cmd,
         \A f \in Fields : disk'[f] = disk[f],
         SameFiles(mgr[m], A)
  PROVE  SameFiles(mgr[m], A)'
BY DEF SameFiles, Copied, Fields

LEMMA ImportFinds ==
  ASSUME ControlInv, NEW m \in Manager, Do(m), Importing(mgr[m]), ImportFound(mgr[m])
  PROVE  ImportFound(mgr[m])'
<1> DEFINE me == mgr[m]
           s == Head(mgr[m].todo)
<1>1. me.todo # <<>> /\ me.cmd = "import" /\ On(me, ImportSteps) /\ Moved(m)
  BY DoFacts DEF Importing
<1>2. PICK k \in 1..10 : Left(mgr[m]) = k /\ s = ImportSteps[10 - k + 1]
  BY <1>1, OnEach DEF Stands
<1>3. mgr'[m].stage = StageAfter(me, s)
  BY <1>1 DEF Moved
<1>4. CASE k = 10
  <2>1. s = "stop" /\ me.stage = "plain"
    BY <1>2, <1>4, ImportTable DEF Importing
  <2>2. mgr'[m].before = disk /\ mgr'[m].stage = "stopped"
    BY <1>1, <1>3, <2>1 DEF Moved, StageAfter
  <2>3. \A f \in Fields : disk'[f] = disk[f]
    BY <2>1, DoMoves DEF Checks
  <2>4. AsFound(mgr[m])' /\ SameFiles(mgr[m], Catalogued)'
    BY <2>2, <2>3 DEF AsFound, SameFiles, Fields
  <2>5. QED
    BY <2>2, <2>4 DEF ImportFound
<1>5. CASE k = 9
  <2>1. s = "review" /\ me.stage = "stopped"
    BY <1>2, <1>5, ImportTable DEF Importing
  <2>2. mgr'[m].before = me.before /\ mgr'[m].cmd = me.cmd /\ mgr'[m].stage = "importing"
    BY <1>1, <1>3, <2>1 DEF Moved, StageAfter
  <2>3. \A f \in Fields : disk'[f] = disk[f]
    BY <2>1, DoMoves DEF Checks
  <2>4. AsFound(mgr[m])'
    BY <2>1, <2>2, <2>3 DEF ImportFound, AsFound, Fields
  <2>5. SameFiles(mgr[m], {"up", "cat"})' /\ SameFiles(mgr[m], Catalogued)'
    BY <2>4 DEF AsFound, SameFiles
  <2>6. QED
    BY <2>2, <2>5 DEF ImportFound
<1>6. CASE k \in {7, 8}
  <2>1. me.stage = "importing" /\ s = (IF k = 8 THEN "importUp" ELSE "importCat")
    BY <1>2, <1>6, ImportTable DEF Importing
  <2>2. mgr'[m].before = me.before /\ mgr'[m].cmd = me.cmd /\ mgr'[m].stage = "importing"
    BY <1>1, <1>3, <2>1 DEF Moved, StageAfter
  <2>3. PICK g \in {"up", "cat"} : WritesOnly(g)
    BY <2>1, CatalogWrites
  <2>4. SameFiles(mgr[m], {"up", "cat"})'
    BY <2>1, <2>2, <2>3, SameAfter DEF ImportFound
  <2>5. SameFiles(mgr[m], Catalogued)'
    BY <2>2, <2>3, SameAfter DEF ImportFound, Catalogued
  <2>6. QED
    BY <2>2, <2>4, <2>5 DEF ImportFound
<1>7. CASE k \in 1..6
  <2>1. /\ me.stage = (IF k = 6 THEN "importing" ELSE "imported")
        /\ s \in {"note", "mirrorCat", "mirrorUp", "ownCat", "start", "prove"} /\ (k = 6 => s = "note")
    BY <1>2, <1>7, ImportTable DEF Importing
  <2>2. mgr'[m].before = me.before /\ mgr'[m].cmd = me.cmd /\ mgr'[m].stage = "imported"
    BY <1>1, <1>3, <2>1 DEF Moved, StageAfter
  <2>3. SameFiles(mgr[m], Catalogued)'
    <3>1. CASE s \in {"start", "prove"}
      <4>1. \A f \in Fields : disk'[f] = disk[f]
        BY <3>1, DoMoves DEF Checks
      <4>2. QED
        BY <2>2, <4>1, SameStill DEF ImportFound
    <3>2. CASE s \notin {"start", "prove"}
      <4>1. PICK g \in Catalogued : WritesOnly(g)
        BY <2>1, <3>2, CatalogWrites DEF Catalogued
      <4>2. QED
        BY <2>2, <4>1, SameAfter DEF ImportFound
    <3>3. QED
      BY <3>1, <3>2
  <2>4. QED
    BY <2>2, <2>3 DEF ImportFound
<1>8. QED
  BY <1>4, <1>5, <1>6, <1>7

LEMMA BackFinds ==
  ASSUME ControlInv, NEW m \in Manager, Do(m), RestoringImport(mgr[m]), BackFound(mgr[m])
  PROVE  BackFound(mgr[m])'
<1> DEFINE me == mgr[m]
           s == Head(mgr[m].todo)
<1>1. me.todo # <<>> /\ me.cmd = "catalog_rollback" /\ On(me, CatalogBackSteps) /\ Moved(m)
  BY DoFacts DEF RestoringImport
<1>2. PICK k \in 1..9 : Left(mgr[m]) = k /\ s = CatalogBackSteps[9 - k + 1]
  BY <1>1, OnEach DEF Stands
<1>3. mgr'[m].stage = StageAfter(me, s)
  BY <1>1 DEF Moved
<1>4. CASE k = 9
  <2>1. s = "stop" /\ me.stage = "plain"
    BY <1>2, <1>4, CatalogBackTable DEF RestoringImport
  <2>2. mgr'[m].before = disk /\ mgr'[m].stage = "stopped"
    BY <1>1, <1>3, <2>1 DEF Moved, StageAfter
  <2>3. \A f \in Fields : disk'[f] = disk[f]
    BY <2>1, DoMoves DEF Checks
  <2>4. SameFiles(mgr[m], Catalogued)'
    BY <2>2, <2>3 DEF SameFiles, Fields
  <2>5. QED
    BY <2>2, <2>4 DEF BackFound
<1>5. CASE k \in 1..8
  <2>1. /\ me.stage = "stopped"
        /\ s \in {"match", "backUp", "backCat", "mirrorCat", "mirrorUp", "ownCat", "start", "prove"}
    BY <1>2, <1>5, CatalogBackTable DEF RestoringImport
  <2>2. mgr'[m].before = me.before /\ mgr'[m].cmd = me.cmd /\ mgr'[m].stage = "stopped"
    BY <1>1, <1>3, <2>1 DEF Moved, StageAfter
  <2>3. SameFiles(mgr[m], Catalogued)'
    <3>1. CASE s \in {"match", "start", "prove"}
      <4>1. \A f \in Fields : disk'[f] = disk[f]
        BY <3>1, DoMoves DEF Checks
      <4>2. QED
        BY <2>2, <4>1, SameStill DEF BackFound
    <3>2. CASE s \notin {"match", "start", "prove"}
      <4>1. PICK g \in Catalogued : WritesOnly(g)
        BY <2>1, <3>2, CatalogWrites DEF Catalogued
      <4>2. QED
        BY <2>2, <4>1, SameAfter DEF BackFound
    <3>3. QED
      BY <3>1, <3>2
  <2>4. QED
    BY <2>2, <2>3 DEF BackFound
<1>6. QED
  BY <1>4, <1>5

(* The way back of a switch ends over the files of its snapshot, that of a *)
(* catalog command has fewer files to put back after each step.            *)
LEMMA PutsBackLess ==
  ASSUME NEW q \in Seq(Steps), q # <<>>
  PROVE  /\ Head(q) \in PuttingBack => PutsBack(q) \subseteq PutsBack(Tail(q)) \cup {Undoes[Head(q)]}
         /\ Head(q) \notin PuttingBack => PutsBack(q) \subseteq PutsBack(Tail(q))
<1>1. /\ Len(q) \in Nat /\ Head(q) = q[1] /\ Len(Tail(q)) = Len(q) - 1
      /\ \A j \in 1..(Len(q) - 1) : Tail(q)[j] = q[j + 1]
  OBVIOUS
<1>2. ASSUME NEW f \in PutsBack(q), f \notin PutsBack(Tail(q))
      PROVE  Head(q) \in PuttingBack /\ f = Undoes[Head(q)]
  <2>1. PICK i \in 1..Len(q) : q[i] \in PuttingBack /\ Undoes[q[i]] = f
    BY DEF PutsBack
  <2>2. CASE i = 1
    BY <1>1, <2>1, <2>2
  <2>3. CASE i # 1
    <3>1. i - 1 \in 1..(Len(q) - 1) /\ (i - 1) + 1 = i
      BY <1>1, <2>3
    <3>2. Tail(q)[i - 1] = q[i]
      BY <1>1, <3>1
    <3>3. i - 1 \in 1..Len(Tail(q))
      BY <1>1, <3>1
    <3>4. f \in PutsBack(Tail(q))
      BY <2>1, <3>2, <3>3 DEF PutsBack
    <3>5. QED
      BY <1>2, <3>4
  <2>4. QED
    BY <2>2, <2>3
<1>3. QED
  BY <1>2

LEMMA UndoAtCatalog ==
  ASSUME NEW me, me.todo # <<>>, TakingBack(me), me.cmd \notin {"update", "rollback"}
  PROVE  /\ me.todo \in Seq(Steps)
         /\ Head(me.todo) \in PuttingBack \cup (Checks \ {"begin", "clear", "capture"})
<1> DEFINE s == Head(me.todo)
<1>1. CASE On(me, ImportUndo)
  <2>1. PICK k \in 1..8 : s = ImportUndo[8 - k + 1]
    BY <1>1, OnEach DEF Stands
  <2>2. QED
    BY <1>1, <2>1, ImportUndoTable DEF PuttingBack, Undoing, Checks, On, IsLeft
<1>2. CASE On(me, ImportUndoEarly)
  <2>1. PICK k \in 1..3 : s = ImportUndoEarly[3 - k + 1]
    BY <1>2, OnEach DEF Stands
  <2>2. QED
    BY <1>2, <2>1, ImportUndoTable DEF PuttingBack, Undoing, Checks, On, IsLeft
<1>3. CASE On(me, CatalogBackUndo)
  <2>1. PICK k \in 1..8 : s = CatalogBackUndo[8 - k + 1]
    BY <1>3, OnEach DEF Stands
  <2>2. QED
    BY <1>3, <2>1, CatalogBackTable DEF PuttingBack, Undoing, Checks, On, IsLeft
<1>4. QED
  BY <1>1, <1>2, <1>3 DEF TakingBack

(* When the mirrors are copied both catalogs are back.                     *)
LEMMA MirrorUndoAt ==
  ASSUME NEW me, me.todo # <<>>, TakingBack(me), me.cmd \notin {"update", "rollback"},
         Head(me.todo) \in {"mirrorCat", "mirrorUp"}
  PROVE  me.cmd = "import" /\ "cat" \notin ToUndo(me) /\ "up" \notin ToUndo(me)
<1> DEFINE s == Head(me.todo)
<1>1. CASE me.cmd = "import" /\ On(me, ImportUndo)
  <2>1. PICK k \in 1..8 : Left(me) = k /\ s = ImportUndo[8 - k + 1]
    BY <1>1, OnEach DEF Stands
  <2>2. k \in 3..4
    BY <2>1, ImportUndoTable
  <2>3. ASSUME NEW i \in 1..Len(me.todo)
        PROVE  me.todo[i] \in {"mirrorCat", "mirrorUp", "undoOwn", "try"}
    <3>1. me.todo[i] = ImportUndo[8 - k + i]
      BY <1>1, <2>1, ImportUndoTable DEF On, IsLeft, Left
    <3>2. 8 - k + i \in 5..8
      BY <2>1, <2>2 DEF Left
    <3>3. QED
      BY <3>1, <3>2, ImportUndoTable
  <2>4. /\ Undoes["mirrorCat"] = "catArt" /\ Undoes["mirrorUp"] = "upArt" /\ Undoes["undoOwn"] = "own"
        /\ "try" \notin PuttingBack
    BY DEF Undoes, PuttingBack, Undoing
  <2>5. QED
    BY <1>1, <2>3, <2>4 DEF ToUndo, PutsBack
<1>2. CASE On(me, ImportUndoEarly)
  <2>1. PICK k \in 1..3 : s = ImportUndoEarly[3 - k + 1]
    BY <1>2, OnEach DEF Stands
  <2>2. QED
    BY <2>1, ImportUndoTable
<1>3. CASE On(me, CatalogBackUndo)
  <2>1. PICK k \in 1..8 : s = CatalogBackUndo[8 - k + 1]
    BY <1>3, OnEach DEF Stands
  <2>2. QED
    BY <2>1, CatalogBackTable
<1>4. QED
  BY <1>1, <1>2, <1>3 DEF TakingBack

LEMMA UndoFinds ==
  ASSUME ControlInv, JournalInv, NEW m \in Manager, Do(m), TakingBack(mgr[m]), UndoFound(mgr[m])
  PROVE  UndoFound(mgr[m])'
<1> DEFINE me == mgr[m]
           s == Head(mgr[m].todo)
<1>1. me.todo # <<>> /\ me.stage = "undoing" /\ Moved(m) /\ Noted(m) /\ Journal(me)
  BY DoFacts DEF TakingBack, JournalInv
<1>2. mgr'[m].before = me.before /\ mgr'[m].cmd = me.cmd /\ mgr'[m].todo = Tail(me.todo)
  BY <1>1 DEF Moved
<1>3. CASE me.cmd \in {"update", "rollback"}
  <2>1. On(me, UndoSwitch) /\ UndoJournal(me)
    BY <1>1, <1>3 DEF TakingBack, Journal
  <2>2. PICK k \in 1..11 : Left(mgr[m]) = k /\ s = UndoSwitch[11 - k + 1]
    BY <1>1, <2>1, OnEach DEF Stands
  <2>3. Left(mgr[m])' = k - 1
    BY <1>1, <1>2, <2>1, <2>2, OnEach DEF Stands, Left
  <2>4. SnapAsFound(me) /\ Pending /\ me.from = mark.snap
    BY <1>3, <2>2 DEF UndoFound, TakingBack
  <2>5. CASE k = 1
    <3>1. s = "clear"
      BY <2>2, <2>5, UndoTable
    <3>2. LikeSnapshot
      <4>1. CASE me.end = "refused"
        BY <2>1, <2>2, <2>5, <4>1 DEF UndoJournal
      <4>2. CASE me.end = "restored"
        <5>1. Restored(mgr[m], k - 2)
          BY <2>1, <2>2, <4>2 DEF UndoJournal
        <5>2. BackAgain(k - 2) = Owned
          BY <2>5, BackSets
        <5>3. QED
          BY <2>4, <5>1, <5>2 DEF Restored, LikeSnapshot
      <4>3. QED
        BY <2>1, <4>1, <4>2 DEF UndoJournal
    <3>3. \A f \in Fields : disk'[f] = disk[f]
      BY <3>1, DoMoves DEF Checks
    <3>4. SameFiles(mgr[m], {})'
      BY <1>2, <2>4, <3>2, <3>3 DEF SnapAsFound, LikeSnapshot, SameFiles, Fields
    <3>5. QED
      BY <1>2, <1>3, <2>3, <2>5, <3>4 DEF UndoFound
  <2>6. CASE k \in 2..11
    <3>1. s \notin {"capture", "begin", "clear", "unroot"}
      BY <2>2, <2>6, UndoTable
    <3>2. mark' = mark /\ snaps' = snaps
      BY <1>1, <3>1 DEF Noted
    <3>3. SnapAsFound(mgr[m])'
      BY <1>2, <2>4, <3>2 DEF SnapAsFound
    <3>4. QED
      BY <1>2, <1>3, <2>3, <2>6, <3>3 DEF UndoFound
  <2>7. QED
    BY <2>5, <2>6
<1>4. CASE me.cmd \notin {"update", "rollback"}
  <2>1. /\ me.todo \in Seq(Steps)
        /\ s \in PuttingBack \cup (Checks \ {"begin", "clear", "capture"})
    BY <1>1, <1>4, UndoAtCatalog
  <2>2. SameFiles(me, ToUndo(me))
    BY <1>4 DEF UndoFound
  <2>3. CASE s \in Undoing
    <3>1. WritesOnly(Undoes[s]) /\ disk'[Undoes[s]] = me.before[Undoes[s]]
      BY <2>3, CatalogWrites
    <3>2. ToUndo(me) \subseteq ToUndo(mgr[m])' \cup {Undoes[s]}
      BY <1>1, <1>2, <2>1, <2>3, PutsBackLess DEF ToUndo, PuttingBack
    <3>3. \A f \in Owned \ ToUndo(mgr[m])' : f # Undoes[s] => disk'[f] = disk[f] /\ f \notin ToUndo(me)
      BY <3>1, <3>2 DEF WritesOnly, Fields
    <3>4. SameFiles(mgr[m], ToUndo(mgr[m]))'
      BY <1>2, <2>2, <3>1, <3>3 DEF SameFiles, Copied
    <3>5. QED
      BY <1>2, <1>4, <3>4 DEF UndoFound
  <2>4. CASE s \in {"mirrorCat", "mirrorUp"}
    <3>1. /\ WritesOnly(Undoes[s]) /\ Undoes[s] \in DOMAIN MirrorOf /\ MirrorOf[Undoes[s]] \in {"cat", "up"}
          /\ disk'[Undoes[s]] = disk[MirrorOf[Undoes[s]]]
      <4>1. /\ Undoes["mirrorCat"] = "catArt" /\ Undoes["mirrorUp"] = "upArt"
            /\ DOMAIN MirrorOf = {"catArt", "upArt"} /\ MirrorOf["catArt"] = "cat" /\ MirrorOf["upArt"] = "up"
        BY DEF Undoes, MirrorOf
      <4>2. CASE s = "mirrorCat"
        <5>1. WritesOnly("catArt") /\ disk'["catArt"] = disk["cat"]
          BY <4>2, CatalogWrites
        <5>2. QED
          BY <4>1, <4>2, <5>1
      <4>3. CASE s = "mirrorUp"
        <5>1. WritesOnly("upArt") /\ disk'["upArt"] = disk["up"]
          BY <4>3, CatalogWrites
        <5>2. QED
          BY <4>1, <4>3, <5>1
      <4>4. QED
        BY <2>4, <4>2, <4>3
    <3>2. me.cmd = "import" /\ "cat" \notin ToUndo(me) /\ "up" \notin ToUndo(me)
      BY <1>1, <1>4, <2>4, MirrorUndoAt
    <3>3. \A f \in {"cat", "up"} : disk[f] \in {me.before[f], Junk}
      BY <2>2, <3>2 DEF SameFiles, Copied, MirrorOf, Owned, Config
    <3>4. \A f : f = Undoes[s] => Copied(mgr[m], f)'
      BY <1>2, <3>1, <3>2, <3>3 DEF Copied
    <3>5. ToUndo(me) \subseteq ToUndo(mgr[m])' \cup {Undoes[s]}
      BY <1>1, <1>2, <2>1, <2>4, PutsBackLess DEF ToUndo, PuttingBack
    <3>6. \A f \in Owned \ ToUndo(mgr[m])' : f # Undoes[s] => disk'[f] = disk[f] /\ f \notin ToUndo(me)
      BY <3>1, <3>5 DEF WritesOnly, Fields
    <3>7. SameFiles(mgr[m], ToUndo(mgr[m]))'
      BY <1>2, <2>2, <3>4, <3>6 DEF SameFiles, Copied
    <3>8. QED
      BY <1>2, <1>4, <3>7 DEF UndoFound
  <2>5. CASE s \notin PuttingBack
    <3>1. \A f \in Fields : disk'[f] = disk[f]
      BY <2>1, <2>5, DoMoves
    <3>2. ToUndo(me) \subseteq ToUndo(mgr[m])'
      BY <1>1, <1>2, <2>1, <2>5, PutsBackLess DEF ToUndo
    <3>3. SameFiles(mgr[m], ToUndo(mgr[m]))'
      BY <1>2, <2>2, <3>1, <3>2 DEF SameFiles, Copied, Fields
    <3>4. QED
      BY <1>2, <1>4, <3>3 DEF UndoFound
  <2>6. QED
    BY <2>3, <2>4, <2>5 DEF PuttingBack
<1>5. QED
  BY <1>3, <1>4

(* No command is in two programs.                                          *)
LEMMA OneProgram ==
  ASSUME NEW me
  PROVE  /\ Updating(me) => me.cmd = "update" /\ me.stage # "undoing"
         /\ RollingBack(me) => me.cmd = "rollback" /\ me.stage # "undoing"
         /\ Recovering(me) \/ Installing(me) \/ Uninstalling(me) =>
              me.cmd \in {"install", "repair", "uninstall"} /\ me.stage # "undoing"
         /\ Importing(me) => me.cmd = "import" /\ me.stage # "undoing"
         /\ RestoringImport(me) => me.cmd = "catalog_rollback" /\ me.stage # "undoing"
         /\ TakingBack(me) => me.stage = "undoing"
BY DEF Updating, RollingBack, Recovering, Installing, Uninstalling, Importing, RestoringImport, TakingBack

LEMMA DoOutcome ==
  ASSUME ControlInv, JournalInv, OutcomeInv, NEW m \in Manager, Do(m)
  PROVE  OutcomeInv'
<1> DEFINE me == mgr[m]
<1>1. lock = m /\ lock' = lock /\ Moved(m) /\ Working(me) /\ Found(me) /\ Says(me)
  BY DoFacts DEF OutcomeInv, Noted
<1>2. mgr'[m].cmd = me.cmd /\ mgr'[m].end = me.end
      /\ (me.stage = "undoing" <=> mgr'[m].stage = "undoing") /\ mgr'[m].pc = me.pc /\ me.pc = "run"
  <2>1. mgr'[m].stage = StageAfter(me, Head(me.todo))
    BY <1>1 DEF Moved
  <2>2. me.stage = "undoing" <=> mgr'[m].stage = "undoing"
    BY <2>1 DEF StageAfter
  <2>3. QED
    BY <1>1, <2>2, DoFacts DEF Moved
<1>3. Says(mgr[m])'
  BY <1>1, <1>2 DEF Says
<1>4. Found(mgr[m])'
  <2>1. Updating(mgr[m])' \/ RollingBack(mgr[m])' => SwitchFound(mgr[m])'
    <3> SUFFICES ASSUME me.cmd \in {"update", "rollback"}, me.stage # "undoing"
                 PROVE  SwitchFound(mgr[m])'
      BY <1>2 DEF Updating, RollingBack
    <3>1. Updating(me) \/ RollingBack(me)
      BY <1>1, OneProgram DEF Working
    <3>2. QED
      BY <1>1, <3>1, SwitchFinds DEF Found
  <2>2. Recovering(mgr[m])' \/ Installing(mgr[m])' \/ Uninstalling(mgr[m])' => WriteFound(mgr[m])'
    <3> SUFFICES ASSUME me.cmd \in {"install", "repair", "uninstall"}, me.stage # "undoing"
                 PROVE  WriteFound(mgr[m])'
      BY <1>2 DEF Recovering, Installing, Uninstalling
    <3>1. Recovering(me) \/ Installing(me) \/ Uninstalling(me)
      BY <1>1, OneProgram DEF Working
    <3>2. QED
      BY <1>1, <3>1, WriteFinds DEF Found
  <2>3. Importing(mgr[m])' => ImportFound(mgr[m])'
    <3> SUFFICES ASSUME me.cmd = "import", me.stage # "undoing" PROVE ImportFound(mgr[m])'
      BY <1>2 DEF Importing
    <3>1. Importing(me)
      BY <1>1, OneProgram DEF Working
    <3>2. QED
      BY <1>1, <3>1, ImportFinds DEF Found
  <2>4. RestoringImport(mgr[m])' => BackFound(mgr[m])'
    <3> SUFFICES ASSUME me.cmd = "catalog_rollback", me.stage # "undoing" PROVE BackFound(mgr[m])'
      BY <1>2 DEF RestoringImport
    <3>1. RestoringImport(me)
      BY <1>1, OneProgram DEF Working
    <3>2. QED
      BY <1>1, <3>1, BackFinds DEF Found
  <2>5. TakingBack(mgr[m])' => UndoFound(mgr[m])'
    <3> SUFFICES ASSUME me.stage = "undoing" PROVE UndoFound(mgr[m])'
      BY <1>2 DEF TakingBack
    <3>1. TakingBack(me)
      BY <1>1, OneProgram DEF Working
    <3>2. QED
      BY <1>1, <3>1, UndoFinds DEF Found
  <2>6. QED
    BY <2>1, <2>2, <2>3, <2>4, <2>5 DEF Found
<1>5. ASSUME NEW o \in Manager
      PROVE  /\ mgr'[o].pc = "ask" => mgr'[o].end = "ok"
             /\ lock' = o => Found(mgr[o])' /\ Says(mgr[o])'
  BY <1>1, <1>2, <1>3, <1>4 DEF Moved, OutcomeInv
<1>6. QED
  BY <1>5 DEF OutcomeInv

-----------------------------------------------------------------------------
(* The outcome when a command ends, turns back or begins                   *)

LEMMA OutcomeStays ==
  ASSUME NEW m, mgr'[m] = mgr[m], disk' = disk, snaps' = snaps, mark' = mark, Found(mgr[m]), Says(mgr[m])
  PROVE  Found(mgr[m])' /\ Says(mgr[m])'
<1>1. /\ Updating(mgr[m])' = Updating(mgr[m]) /\ RollingBack(mgr[m])' = RollingBack(mgr[m])
      /\ Recovering(mgr[m])' = Recovering(mgr[m]) /\ Installing(mgr[m])' = Installing(mgr[m])
      /\ Importing(mgr[m])' = Importing(mgr[m]) /\ TakingBack(mgr[m])' = TakingBack(mgr[m])
      /\ RestoringImport(mgr[m])' = RestoringImport(mgr[m])
      /\ Uninstalling(mgr[m])' = Uninstalling(mgr[m])
  BY DEF Updating, RollingBack, Recovering, Installing, Importing, RestoringImport, TakingBack, On, Left,
         Pending, Snap, SameCatalog, Uninstalling
<1>2. /\ SwitchFound(mgr[m])' = SwitchFound(mgr[m])
      /\ WriteFound(mgr[m])' = WriteFound(mgr[m])
      /\ ImportFound(mgr[m])' = ImportFound(mgr[m])
      /\ BackFound(mgr[m])' = BackFound(mgr[m])
      /\ UndoFound(mgr[m])' = UndoFound(mgr[m])
  BY DEF SwitchFound, WriteFound, ImportFound, BackFound, UndoFound, AsFound, SnapAsFound, SameFiles,
         Copied, Left, ToUndo, PutsBack
<1>3. QED
  BY <1>1, <1>2 DEF Found, Says

LEMMA EndOutcome ==
  ASSUME ControlInv, OutcomeInv, NEW m \in Manager, End(m)
  PROVE  OutcomeInv'
<1>1. /\ DOMAIN mgr' = Manager /\ mgr'[m] = Idle /\ (\A o \in Manager \ {m} : mgr'[o] = mgr[o])
      /\ lock' = "free"
  BY DEF End, ControlInv
<1>2. \A o \in Manager : lock' # o
  BY <1>1, ReleaseAssumption
<1>3. \A o \in Manager : mgr'[o].pc = "ask" => mgr'[o].end = "ok"
  BY <1>1 DEF OutcomeInv, Idle
<1>4. QED
  BY <1>2, <1>3 DEF OutcomeInv

LEMMA AsideOutcome ==
  ASSUME ControlInv, OutcomeInv, NEW m \in Manager, mgr[m].pc # "run", lock' = lock,
         \A o \in Manager \ {m} : mgr'[o] = mgr[o],
         mgr'[m].pc = "ask" => mgr'[m].end = "ok",
         disk' = disk, snaps' = snaps, mark' = mark
  PROVE  OutcomeInv'
<1>1. lock # m
  BY DEF ControlInv, ManagerTyped
<1>2. ASSUME NEW o \in Manager \ {m}
      PROVE  /\ mgr'[o].pc = "ask" => mgr'[o].end = "ok"
             /\ lock' = o => Found(mgr[o])' /\ Says(mgr[o])'
  BY OutcomeStays DEF OutcomeInv
<1>3. QED
  BY <1>1, <1>2 DEF OutcomeInv

(* What the way back of a catalog command puts back.                       *)
LEMMA UndoneFiles ==
  /\ {"up", "cat"} \subseteq PutsBack(ImportUndoEarly)
  /\ Catalogued \ {"imports"} \subseteq PutsBack(ImportUndo)
  /\ Catalogued \ {"imports"} \subseteq PutsBack(CatalogBackUndo)
<1> DEFINE Puts(q, i, f) == i \in 1..Len(q) /\ q[i] \in PuttingBack /\ Undoes[q[i]] = f
<1>0. /\ Undoes["undoCat"] = "cat" /\ Undoes["undoUp"] = "up" /\ Undoes["undoCatArt"] = "catArt"
      /\ Undoes["undoUpArt"] = "upArt" /\ Undoes["undoOwn"] = "own"
      /\ Undoes["mirrorCat"] = "catArt" /\ Undoes["mirrorUp"] = "upArt"
  BY DEF Undoes
<1>1. ASSUME NEW q, NEW i, NEW f \in Catalogued, Puts(q, i, f) PROVE f \in PutsBack(q)
  BY <1>1 DEF PutsBack
<1>2. Puts(ImportUndoEarly, 1, "up") /\ Puts(ImportUndoEarly, 2, "cat")
  BY <1>0, ImportUndoTable DEF PuttingBack, Undoing
<1>3. /\ Puts(ImportUndo, 3, "up") /\ Puts(ImportUndo, 4, "cat") /\ Puts(ImportUndo, 5, "catArt")
      /\ Puts(ImportUndo, 6, "upArt") /\ Puts(ImportUndo, 7, "own")
  BY <1>0, ImportUndoTable DEF PuttingBack, Undoing
<1>4. /\ Puts(CatalogBackUndo, 2, "cat") /\ Puts(CatalogBackUndo, 3, "up")
      /\ Puts(CatalogBackUndo, 4, "catArt") /\ Puts(CatalogBackUndo, 5, "upArt")
      /\ Puts(CatalogBackUndo, 6, "own")
  BY <1>0, CatalogBackTable DEF PuttingBack, Undoing
<1> HIDE DEF Puts
<1>5. QED
  BY <1>1, <1>2, <1>3, <1>4 DEF Catalogued

LEMMA TurnFound ==
  ASSUME ControlInv, OutcomeInv, NEW m \in Manager, TurnsBack(m), lock = m, mgr[m].todo # <<>>,
         disk' = disk, snaps' = snaps, mark' = mark,
         mgr[m].stage # "undoing", Undo(mgr[m]) # <<>>
  PROVE  Found(mgr[m])' /\ Says(mgr[m])'
<1> DEFINE me == mgr[m]
<1>1. /\ Working(me) /\ Found(me) /\ mgr'[m].stage = "undoing" /\ mgr'[m].cmd = me.cmd
      /\ mgr'[m].before = me.before /\ mgr'[m].todo = Undo(me) /\ mgr'[m].end = Verdict(me)
  BY DEF ControlInv, OutcomeInv, TurnsBack
<1>2. Says(mgr[m])'
  BY <1>1 DEF Says, Verdict
<1>3. /\ ~Updating(mgr[m])' /\ ~RollingBack(mgr[m])' /\ ~Importing(mgr[m])' /\ ~RestoringImport(mgr[m])'
      /\ ~Recovering(mgr[m])' /\ ~Installing(mgr[m])' /\ ~Uninstalling(mgr[m])'
  BY <1>1 DEF Updating, RollingBack, Recovering, Installing, Importing, RestoringImport, Uninstalling
<1>4. UndoFound(mgr[m])'
  <2>1. CASE me.cmd \in {"update", "rollback"}
    <3>1. Updating(me) \/ RollingBack(me)
      BY <1>1, <2>1, OneProgram DEF Working
    <3>2. Left(me) # 0
      BY <3>1, OnEach DEF Updating, RollingBack, Stands
    <3>3. me.stage \in {"marked", "restoring"}
      <4>1. me.stage \in {"plain", "marked", "restoring"}
        BY <3>1 DEF Updating, RollingBack
      <4>2. me.stage # "plain"
        BY <2>1 DEF Undo
      <4>3. QED
        BY <4>1, <4>2
    <3>4. SnapAsFound(me)
      BY <1>1, <3>1, <3>2, <3>3 DEF Found, SwitchFound
    <3>5. Undo(me) = <<"clear">> \/ Undo(me) = UndoSwitch
      BY <2>1, <3>3 DEF Undo
    <3>6. Left(mgr[m])' # 0
      BY <1>1, <3>5, UndoTable DEF Left
    <3>7. SnapAsFound(mgr[m])'
      BY <1>1, <3>4 DEF SnapAsFound
    <3>8. QED
      BY <1>1, <2>1, <3>6, <3>7 DEF UndoFound
  <2>2. CASE me.cmd = "import"
    <3>1. Importing(me) /\ ImportFound(me)
      BY <1>1, <2>2, OneProgram DEF Working, Found
    <3>2. me.stage # "plain"
      BY <2>2 DEF Undo
    <3>3. SameFiles(me, ToUndo(mgr[m])')
      <4>1. CASE me.stage = "stopped"
        BY <3>1, <4>1 DEF ImportFound, AsFound, SameFiles
      <4>2. CASE me.stage = "importing"
        <5>1. Undo(me) = ImportUndoEarly
          BY <2>2, <4>2 DEF Undo
        <5>2. {"up", "cat"} \subseteq ToUndo(mgr[m])'
          BY <1>1, <5>1, UndoneFiles DEF ToUndo, PutsBack
        <5>3. QED
          BY <3>1, <4>2, <5>2, SameWithout DEF ImportFound
      <4>3. CASE me.stage = "imported"
        <5>1. Undo(me) = ImportUndo
          BY <2>2, <4>3 DEF Undo
        <5>2. Catalogued \subseteq ToUndo(mgr[m])'
          BY <1>1, <5>1, UndoneFiles DEF ToUndo, PutsBack
        <5>3. QED
          BY <3>1, <5>2, SameWithout DEF ImportFound
      <4>4. QED
        BY <3>1, <3>2, <4>1, <4>2, <4>3 DEF Importing
    <3>4. SameFiles(mgr[m], ToUndo(mgr[m]))'
      BY <1>1, <3>3 DEF SameFiles, Copied
    <3>5. QED
      BY <1>1, <2>2, <3>4 DEF UndoFound
  <2>3. CASE me.cmd = "catalog_rollback"
    <3>1. RestoringImport(me) /\ BackFound(me)
      BY <1>1, <2>3, OneProgram DEF Working, Found
    <3>2. me.stage # "plain"
      BY <2>3 DEF Undo
    <3>3. Undo(me) = CatalogBackUndo
      <4>1. me.stage = "stopped"
        BY <3>1, <3>2 DEF RestoringImport
      <4>2. QED
        BY <2>3, <4>1 DEF Undo
    <3>4. Catalogued \subseteq ToUndo(mgr[m])'
      BY <1>1, <3>3, UndoneFiles DEF ToUndo, PutsBack
    <3>5. SameFiles(me, ToUndo(mgr[m])')
      BY <3>1, <3>4, SameWithout DEF BackFound
    <3>6. SameFiles(mgr[m], ToUndo(mgr[m]))'
      BY <1>1, <3>5 DEF SameFiles, Copied
    <3>7. QED
      BY <1>1, <2>3, <3>6 DEF UndoFound
  <2>4. CASE me.cmd \notin {"update", "rollback", "import", "catalog_rollback"}
    <3>1. Recovering(me) \/ Installing(me) \/ Uninstalling(me)
      BY <1>1, <2>4, OneProgram DEF Working
    <3>2. me.stage \in {"plain", "writing"}
      BY <3>1 DEF Recovering, Installing, Uninstalling
    <3>3. Undo(me) = <<>>
      BY <2>4, <3>2 DEF Undo
    <3>4. QED
      BY <3>3
  <2>5. QED
    BY <2>1, <2>2, <2>3, <2>4
<1>5. QED
  BY <1>2, <1>3, <1>4 DEF Found

LEMMA BreakOutcome ==
  ASSUME ControlInv, OutcomeInv, NEW m \in Manager, Break(m), mgr[m].pc = "run", mgr[m].todo # <<>>
  PROVE  OutcomeInv'
<1> DEFINE me == mgr[m]
<1>1. lock = m /\ disk' = disk /\ snaps' = snaps /\ mark' = mark
  BY DEF ControlInv, ManagerTyped, Break
<1>2. CASE me.stage = "undoing" \/ Undo(me) = <<>>
  BY <1>1, <1>2, EndOutcome DEF Break
<1>3. CASE ~(me.stage = "undoing" \/ Undo(me) = <<>>)
  <2>1. TurnsBack(m)
    BY <1>3, BreakTurns
  <2>2. Found(mgr[m])' /\ Says(mgr[m])'
    BY <1>1, <1>3, <2>1, TurnFound
  <2>3. ASSUME NEW o \in Manager
        PROVE  /\ mgr'[o].pc = "ask" => mgr'[o].end = "ok"
               /\ lock' = o => Found(mgr[o])' /\ Says(mgr[o])'
    BY <1>1, <2>1, <2>2 DEF TurnsBack, OutcomeInv
  <2>4. QED
    BY <2>3 DEF OutcomeInv
<1>4. QED
  BY <1>2, <1>3

(* What a command finds is what is there when it has the lock.             *)
LEMMA LockOutcome ==
  ASSUME ControlInv, OutcomeInv, NEW m \in Manager, Lock(m)
  PROVE  OutcomeInv'
<1>1. /\ mgr[m].pc = "ask" /\ disk' = disk /\ snaps' = snaps /\ mark' = mark /\ lock = "free"
  BY DEF Lock, LockIsFree
<1>2. CASE Admitted(mgr[m])
  <2>1. /\ TakesLock(m) /\ mgr'[m].stage = "plain" /\ mgr'[m].before = disk
        /\ mgr'[m].end = mgr[m].end /\ mgr[m].end = "ok"
    BY <1>1, <1>2, LockTakes DEF TakesLock, OutcomeInv
  <2>2. AsFound(mgr[m])' /\ \A A : SameFiles(mgr[m], A)'
    BY <1>1, <2>1 DEF AsFound, SameFiles
  <2>3. Found(mgr[m])' /\ Says(mgr[m])'
    <3>1. ~TakingBack(mgr[m])' /\ Says(mgr[m])'
      BY <2>1 DEF TakingBack, Says
    <3>2. SwitchFound(mgr[m])' /\ WriteFound(mgr[m])' /\ ImportFound(mgr[m])' /\ BackFound(mgr[m])'
      BY <2>1, <2>2 DEF SwitchFound, WriteFound, ImportFound, BackFound
    <3>3. QED
      BY <3>1, <3>2 DEF Found
  <2>4. ASSUME NEW o \in Manager
        PROVE  /\ mgr'[o].pc = "ask" => mgr'[o].end = "ok"
               /\ lock' = o => Found(mgr[o])' /\ Says(mgr[o])'
    BY <2>1, <2>3 DEF TakesLock, OutcomeInv
  <2>5. QED
    BY <2>4 DEF OutcomeInv
<1>3. CASE ~Admitted(mgr[m])
  <2>1. lock' = lock /\ mgr' = [mgr EXCEPT ![m] = Idle]
    BY <1>3 DEF Lock
  <2>2. mgr'[m] = Idle /\ \A o \in Manager \ {m} : mgr'[o] = mgr[o]
    BY <2>1 DEF ControlInv
  <2>3. QED
    BY <1>1, <2>1, <2>2, AsideOutcome DEF Idle
<1>4. QED
  BY <1>2, <1>3

LEMMA AskOutcome ==
  ASSUME ControlInv, OutcomeInv, NEW m \in Manager, NEW c \in Commands[m], NEW v \in Versions,
         NEW a \in Imports \cup {0}, Ask(m, c, v, a)
  PROVE  OutcomeInv'
<1> DEFINE x == [Idle EXCEPT !.pc = "ask", !.cmd = c, !.ver = v, !.arg = a, !.seen = disk.own.ver,
                              !.saw = (c = "repair" /\ Pending)]
<1>1. /\ mgr' = [mgr EXCEPT ![m] = x] /\ mgr[m].pc # "run" /\ lock' = lock /\ disk' = disk
      /\ snaps' = snaps /\ mark' = mark
  BY DEF Ask
<1>2. x.end = "ok"
  BY DEF Idle
<1> HIDE DEF x
<1>3. mgr'[m] = x /\ \A o \in Manager \ {m} : mgr'[o] = mgr[o]
  BY <1>1 DEF ControlInv
<1>4. QED
  BY <1>1, <1>2, <1>3, AsideOutcome

LEMMA LockTakenOutcome ==
  ASSUME ControlInv, OutcomeInv, NEW m \in Manager, LockTaken(m)
  PROVE  OutcomeInv'
<1>1. /\ mgr' = [mgr EXCEPT ![m] = Idle] /\ mgr[m].pc # "run" /\ lock' = lock /\ disk' = disk
      /\ snaps' = snaps /\ mark' = mark
  BY DEF LockTaken
<1>2. mgr'[m] = Idle /\ \A o \in Manager \ {m} : mgr'[o] = mgr[o]
  BY <1>1 DEF ControlInv
<1>3. QED
  BY <1>1, <1>2, AsideOutcome DEF Idle

-----------------------------------------------------------------------------
(* The outcome beside users, clients and the broker                        *)

LEMMA TouchedSame ==
  ASSUME Touched, mgr' = mgr, NEW m, NEW A, SameFiles(mgr[m], A)
  PROVE  SameFiles(mgr[m], A)'
<1>1. Owned \ Edited \subseteq Fields \ (Edited \cup {"retained"})
  BY DEF Fields, Owned, Config, Artifacts, State
<1>2. QED
  BY <1>1 DEF SameFiles, Copied, Edited, MirrorOf, Touched

LEMMA TouchedOutcome ==
  ASSUME ControlInv, OutcomeInv, Editable, Touched,
         snaps' = snaps, mark' = mark, lock' = lock, mgr' = mgr
  PROVE  OutcomeInv'
<1>1. disk'.own = disk.own
  BY DEF Touched, Fields, Edited, Owned, State
<1>2. ASSUME NEW m \in Manager, lock = m PROVE Found(mgr[m])' /\ Says(mgr[m])'
  <2> DEFINE me == mgr[m]
  <2>1. me.todo # <<>> /\ Head(me.todo) \in {"stop", "stopPrior"}
    BY <1>2, ReleaseAssumption DEF Editable
  <2>2. /\ Updating(me) => Left(me) = 17
        /\ RollingBack(me) => Left(me) = 14
        /\ TakingBack(me) => me.cmd \notin {"update", "rollback"}
    BY <2>1, StopAt
  <2>3. Found(me) /\ Says(me)
    BY <1>2 DEF OutcomeInv
  <2>4. Updating(mgr[m])' \/ RollingBack(mgr[m])' => SwitchFound(mgr[m])'
    <3> SUFFICES ASSUME Updating(me) \/ RollingBack(me) PROVE SwitchFound(mgr[m])'
      BY <1>1 DEF Updating, RollingBack, On, Left, Pending, Snap
    <3>1. me.stage # "plain"
      BY <2>2 DEF Updating, RollingBack
    <3>2. SwitchFound(me)
      BY <2>3 DEF Found
    <3>3. QED
      BY <3>1, <3>2 DEF SwitchFound, SnapAsFound, Left
  <2>5. Recovering(mgr[m])' \/ Installing(mgr[m])' \/ Uninstalling(mgr[m])' => WriteFound(mgr[m])'
    <3> SUFFICES ASSUME Recovering(me) \/ Installing(me) \/ Uninstalling(me) PROVE WriteFound(mgr[m])'
      BY DEF Recovering, Installing, Uninstalling, On, Left, Pending, Snap
    <3>1. WriteFound(me)
      BY <2>3 DEF Found
    <3>2. QED
      BY <3>1, TouchedSame DEF WriteFound
  <2>6. Importing(mgr[m])' => ImportFound(mgr[m])'
    <3> SUFFICES ASSUME Importing(me) PROVE ImportFound(mgr[m])'
      BY DEF Importing, On, Left
    <3>1. PICK k \in 1..10 : Left(mgr[m]) = k /\ Head(mgr[m].todo) = ImportSteps[10 - k + 1]
      BY <2>1, OnEach DEF Importing, Stands
    <3>2. k = 10
      BY <2>1, <3>1, ImportTable
    <3>3. me.stage = "plain"
      BY <3>1, <3>2 DEF Importing
    <3>4. SameFiles(me, {}) /\ SameFiles(me, Catalogued)
      BY <2>3, <3>3 DEF Found, ImportFound
    <3>5. SameFiles(mgr[m], {})' /\ SameFiles(mgr[m], Catalogued)'
      BY <3>4, TouchedSame
    <3>6. QED
      BY <3>3, <3>5 DEF ImportFound
  <2>7. RestoringImport(mgr[m])' => BackFound(mgr[m])'
    <3> SUFFICES ASSUME RestoringImport(mgr[m])' PROVE BackFound(mgr[m])'
      OBVIOUS
    <3>1. On(me, CatalogBackSteps)
      BY DEF RestoringImport, On
    <3>2. PICK k \in 1..9 : Left(mgr[m]) = k /\ Head(mgr[m].todo) = CatalogBackSteps[9 - k + 1]
      BY <2>1, <3>1, OnEach DEF Stands
    <3>3. k = 9
      BY <2>1, <3>2, CatalogBackTable
    <3>4. RestoringImport(me)
      BY <3>2, <3>3 DEF RestoringImport, On, Left
    <3>5. BackFound(me)
      BY <2>3, <3>4 DEF Found
    <3>6. QED
      BY <3>5, TouchedSame DEF BackFound
  <2>8. TakingBack(mgr[m])' => UndoFound(mgr[m])'
    <3> SUFFICES ASSUME TakingBack(me) PROVE UndoFound(mgr[m])'
      BY DEF TakingBack, On, Left, Pending, Snap
    <3>1. me.cmd \notin {"update", "rollback"} /\ SameFiles(me, ToUndo(me))
      BY <2>2, <2>3 DEF Found, UndoFound
    <3>2. ToUndo(mgr[m])' = ToUndo(me)
      BY DEF ToUndo, PutsBack
    <3>3. SameFiles(mgr[m], ToUndo(mgr[m]))'
      BY <3>1, <3>2, TouchedSame DEF SameFiles, Copied
    <3>4. QED
      BY <3>1, <3>3 DEF UndoFound
  <2>9. QED
    BY <2>3, <2>4, <2>5, <2>6, <2>7, <2>8 DEF Found, Says
<1>3. QED
  BY <1>2 DEF OutcomeInv

LEMMA DriftOutcome ==
  ASSUME ControlInv, OutcomeInv, NEW f \in {"cat", "plugin"}, Drift(f)
  PROVE  OutcomeInv'
<1>1. /\ snaps' = snaps /\ mark' = mark /\ lock' = lock /\ mgr' = mgr
      /\ disk' = [disk EXCEPT ![f] = Junk] /\ Editable
  BY DEF Drift
<1>2. disk'[f] = Junk /\ \A g \in Fields \ {f} : disk'[g] = disk[g]
  BY <1>1 DEF ControlInv, DiskTyped, Fields, Owned, Config
<1>3. Touched
  BY <1>2 DEF Touched, Edited, Fields, Owned, Config
<1>4. QED
  BY <1>1, <1>3, TouchedOutcome

LEMMA DamageOutcome ==
  ASSUME ControlInv, OutcomeInv, NEW v \in Versions, Damage(v)
  PROVE  OutcomeInv'
<1>1. /\ snaps' = snaps /\ mark' = mark /\ lock' = lock /\ mgr' = mgr
      /\ disk' = [disk EXCEPT !.retained = @ \ {v}] /\ Editable
  BY DEF Damage
<1>2. \A g \in Fields \ {"retained"} : disk'[g] = disk[g]
  BY <1>1 DEF ControlInv, DiskTyped
<1>3. Touched
  BY <1>2 DEF Touched, Edited, Fields, Owned, Config
<1>4. QED
  BY <1>1, <1>3, TouchedOutcome

LEMMA StillOutcome ==
  ASSUME OutcomeInv, disk' = disk, snaps' = snaps, mark' = mark, lock' = lock, mgr' = mgr
  PROVE  OutcomeInv'
BY OutcomeStays DEF OutcomeInv

-----------------------------------------------------------------------------
(* The theorems about the outcome                                          *)

LEMMA InitOutcome == Init => OutcomeInv
<1> SUFFICES ASSUME Init PROVE OutcomeInv
  OBVIOUS
<1>1. lock = "free" /\ mgr = [m \in Manager |-> Idle]
  BY DEF Init
<1>2. \A m \in Manager : lock # m /\ mgr[m].pc # "ask"
  BY <1>1, ReleaseAssumption DEF Idle
<1>3. QED
  BY <1>2 DEF OutcomeInv

LEMMA NextOutcome == ControlInv /\ JournalInv /\ OutcomeInv /\ [Next]_vars => OutcomeInv'
<1> SUFFICES ASSUME ControlInv, JournalInv, OutcomeInv, [Next]_vars PROVE OutcomeInv'
  OBVIOUS
<1>1. ASSUME NEW m \in Manager, NEW c \in Commands[m], NEW v \in Versions, NEW a \in Imports \cup {0},
             Ask(m, c, v, a)
      PROVE  OutcomeInv'
  BY <1>1, AskOutcome
<1>2. ASSUME NEW m \in Manager, Lock(m) PROVE OutcomeInv'
  BY <1>2, LockOutcome
<1>3. ASSUME NEW m \in Manager, LockTaken(m) PROVE OutcomeInv'
  BY <1>3, LockTakenOutcome
<1>4. ASSUME NEW m \in Manager, Do(m) PROVE OutcomeInv'
  BY <1>4, DoOutcome
<1>5. ASSUME NEW m \in Manager, Refuse(m) PROVE OutcomeInv'
  BY <1>5, BreakOutcome DEF Refuse, Running
<1>6. ASSUME NEW m \in Manager, Finish(m) PROVE OutcomeInv'
  BY <1>6, EndOutcome DEF Finish
<1>7. ASSUME NEW m \in Manager, Fail(m) PROVE OutcomeInv'
  BY <1>7, BreakOutcome DEF Fail, Running
<1>8. ASSUME NEW m \in Manager, Crash(m) PROVE OutcomeInv'
  BY <1>8, EndOutcome DEF Crash, End
<1>9. ASSUME NEW f \in {"cat", "plugin"}, Drift(f) PROVE OutcomeInv'
  BY <1>9, DriftOutcome
<1>10. ASSUME NEW v \in Versions, Damage(v) PROVE OutcomeInv'
  BY <1>10, DamageOutcome
<1>11. CASE ClientStart \/ BrokerWorks \/ BrokerRests
  BY <1>11, StillOutcome DEF ClientStart, BrokerWorks, BrokerRests
<1>12. CASE UNCHANGED vars
  BY <1>12, StillOutcome DEF vars
<1>13. QED
  BY <1>1, <1>2, <1>3, <1>4, <1>5, <1>6, <1>7, <1>8, <1>9, <1>10, <1>11, <1>12 DEF Next

(* The files when a command ends with nothing done, or with all put back.  *)
LEMMA EndsAsFound ==
  ASSUME ControlInv, OutcomeInv, NEW m \in Manager, mgr[m].pc = "run",
         Told(mgr[m]) \in {"refused", "restored"}
  PROVE  SameFiles(mgr[m], {"imports"})
<1> DEFINE me == mgr[m]
<1>1. lock = m /\ Working(me) /\ Found(me) /\ Says(me)
  BY DEF ControlInv, ManagerTyped, OutcomeInv
<1>2. CASE me.todo = <<>>
  <2>1. me.stage = "undoing"
    BY <1>1, <1>2 DEF Told, Says
  <2>2. TakingBack(me) /\ UndoFound(me)
    BY <1>1, <2>1, OneProgram DEF Working, Found
  <2>3. CASE me.cmd \in {"update", "rollback"}
    <3>1. Left(me) = 0
      BY <1>2 DEF Left
    <3>2. SameFiles(me, {})
      BY <2>2, <2>3, <3>1 DEF UndoFound
    <3>3. QED
      BY <3>2, SameWithout
  <2>4. CASE me.cmd \notin {"update", "rollback"}
    <3>1. ToUndo(me) = {"imports"}
      BY <1>2 DEF ToUndo, PutsBack
    <3>2. QED
      BY <2>2, <2>4, <3>1 DEF UndoFound
  <2>5. QED
    BY <2>3, <2>4
<1>3. CASE me.todo # <<>>
  <2>1. me.stage = "plain"
    BY <1>3 DEF Told
  <2>2. AsFound(me) \/ SameFiles(me, {})
    BY <1>1, <2>1 DEF Working, TakingBack, Found, SwitchFound, WriteFound, ImportFound, BackFound
  <2>3. QED
    BY <2>2 DEF AsFound, SameFiles
<1>4. QED
  BY <1>2, <1>3

LEMMA OutcomeStep ==
  ControlInv /\ OutcomeInv /\ [Next]_vars =>
    [\A m \in Manager :
       Ends(m) /\ Told(mgr[m]) \in {"refused", "restored"} =>
         \A f \in Owned \ {"imports"} : AsItWas(mgr[m], f, disk'[f])]_vars
<1> SUFFICES ASSUME ControlInv, OutcomeInv, NEW m \in Manager, Ends(m),
                    Told(mgr[m]) \in {"refused", "restored"}
             PROVE  \A f \in Owned \ {"imports"} : AsItWas(mgr[m], f, disk'[f])
  OBVIOUS
<1>1. disk' = disk /\ mgr[m].pc = "run"
  BY DEF Ends, Finish, Refuse, Fail, Break, Running
<1>2. SameFiles(mgr[m], {"imports"})
  BY <1>1, EndsAsFound
<1>3. QED
  BY <1>1, <1>2 DEF SameFiles, Copied, AsItWas

(* Whatever a command has written so far, what it found is still there, or *)
(* in the snapshot of its marker, or is put back by what is left of the    *)
(* undo program that would run; that of an import copies the catalogs that *)
(* it put back into their mirrors, which may have differed from them.      *)
THEOREM ReleaseOutcomeInvariant == Spec => []OutcomeInv
<1>1. Init => ControlInv /\ JournalInv /\ OutcomeInv
  BY InitControl, InitJournal, InitOutcome
<1>2. (ControlInv /\ JournalInv /\ OutcomeInv) /\ [Next]_vars => (ControlInv /\ JournalInv /\ OutcomeInv)'
  BY NextControl, NextJournal, NextOutcome
<1>3. QED
  BY <1>1, <1>2, PTL DEF Spec

(* A user who is told that the command was refused, or that everything was *)
(* restored, is told the truth: every file is as the command found it, but *)
(* for edits of his own and the import receipt, and for the mirrors, which *)
(* a failed import leaves equal to the catalogs it found.                  *)
THEOREM ReleaseOutcome == Spec => OutcomeIsTrue
BY ReleaseControl, ReleaseOutcomeInvariant, OutcomeStep, PTL DEF Spec, OutcomeIsTrue

-----------------------------------------------------------------------------
(* What a command that succeeds leaves                                     *)

(* The ownership state names a catalog of its release and a plugin, and an *)
(* import stays within its release.                                        *)
OwnSound(o) == o.ver # 0 => Writer(o.cat) = o.ver /\ o.plugin # 0
ImportsSound(q) == \A e \in q : Writer(e[1]) = Writer(e[3]) /\ Writer(e[3]) # 0
DiskSound(d) == OwnSound(d.own) /\ ImportsSound(d.imports)

UpdateSuccess(me) ==
  /\ Left(me) \in 4..12 => Writer(disk.cat) = me.ver
  /\ Left(me) \in 4..7 => disk.plugArt # 0
  /\ Left(me) = 0 => Whole(me.ver, disk)
RollbackSuccess(me) == Left(me) = 0 => Whole(me.ver, disk)
RecoverSuccess(me) == Left(me) <= 1 => Whole(disk.own.ver, disk)
InstallSuccess(me) ==
  LET v == me.ver
      k == Left(me)
  IN
  /\ k <= 11 => v \in disk.retained
  /\ k <= 10 => disk.settings = 1
  /\ k <= 9 => disk.compat = v
  /\ k = 8 => disk.upArt = Kept(disk.up, disk.upArt, disk.own.up, Packaged(v))
  /\ k <= 7 => disk.up = disk.upArt
  /\ k = 6 => disk.catArt = Kept(disk.cat, disk.catArt, disk.own.cat, Packaged(v))
  /\ k <= 5 => disk.cat = disk.catArt /\ Writer(disk.cat) = v
  /\ k <= 4 => disk.plugArt # 0
  /\ k <= 3 => disk.plugin = disk.plugArt
  /\ k <= 2 => disk.bin = v
  /\ k <= 1 => disk.block = Block(v)
  /\ k = 0 => Whole(v, disk)
Mirrored(me) ==
  /\ Left(me) <= 4 => disk.catArt = disk.cat
  /\ Left(me) <= 3 => disk.upArt = disk.up
  /\ Left(me) <= 2 => CatalogOwned(disk)
  /\ Left(me) = 0 => broker.up /\ broker.serves = disk.cat
ImportSuccess(me) ==
  /\ disk.own.ver = me.ver
  /\ Left(me) <= 8 => Writer(me.before.cat) = me.ver
  /\ Left(me) <= 6 => Writer(disk.cat) = me.ver
  /\ Mirrored(me)
BackSuccess(me) ==
  /\ disk.own.ver = me.ver
  /\ Left(me) = 9 => Writer(disk.cat) = me.ver \/ disk.cat = Junk
  /\ Left(me) <= 8 => Writer(me.before.cat) = me.ver \/ me.before.cat = Junk
  /\ Left(me) <= 5 => Writer(disk.cat) = me.ver
  /\ Mirrored(me)
UninstallSuccess(me) ==
  /\ Left(me) <= 2 => disk.block = 0
  /\ Left(me) = 0 => disk.own.ver = 0

Success(me) ==
  /\ Updating(me) => UpdateSuccess(me)
  /\ RollingBack(me) => RollbackSuccess(me)
  /\ Recovering(me) => RecoverSuccess(me)
  /\ Installing(me) => InstallSuccess(me)
  /\ Importing(me) => ImportSuccess(me)
  /\ RestoringImport(me) => BackSuccess(me)
  /\ Uninstalling(me) => UninstallSuccess(me)
  /\ me.cmd \in {"import", "catalog_rollback"} => DiskSound(me.before)
SuccessInv ==
  /\ DiskSound(disk) /\ \A n \in 1..Len(snaps) : DiskSound(snaps[n])
  /\ \A m \in Manager : lock = m => Success(mgr[m])

(* A catalog content tells its release.                                    *)
LEMMA Writers ==
  /\ Writer(0) = 0 /\ Writer(Junk) = 0 /\ 0 \notin Versions
  /\ \A v \in Versions : /\ Writer(Packaged(v)) = v /\ v # 0
                         /\ \A i \in Imports \cup {0} : Writer(Contract(v, i)) = v
<1>1. \A v \in 1..9, i \in 0..9 : (10 * v + i) \div 10 = v
  OBVIOUS
<1>2. Versions \subseteq 1..9 /\ Imports \cup {0} \subseteq 0..9
  BY ReleaseAssumption
<1>3. 0 \div 10 = 0 /\ 9 \div 10 = 0
  OBVIOUS
<1>4. \A v \in Versions : \A i \in Imports \cup {0} : Writer(Contract(v, i)) = v
  BY <1>1, <1>2 DEF Writer, Contract
<1>5. QED
  BY <1>2, <1>3, <1>4 DEF Writer, Junk, Packaged

(* Which commands write the ownership state and the import receipts.       *)
LEMMA WhoOwns ==
  ASSUME NEW me, Working(me), me.todo # <<>>
  PROVE  LET s == Head(me.todo) IN
         /\ s = "own" => (Updating(me) /\ Left(me) = 4) \/ (Installing(me) /\ Left(me) = 1)
         /\ s = "ownCat" => (Importing(me) \/ RestoringImport(me)) /\ Left(me) = 3
         /\ s = "note" => Importing(me) /\ Left(me) = 6
         /\ s = "undoOwn" => me.cmd \in {"import", "catalog_rollback"}
<1> DEFINE s == Head(me.todo)
           Own == {"own", "ownCat", "note", "undoOwn"}
<1>1. CASE Updating(me)
  <2>1. PICK k \in 1..20 : Left(me) = k /\ s = UpdateSteps[20 - k + 1]
    BY <1>1, OnEach DEF Updating, Stands
  <2>2. \A j \in 1..20 : UpdateSteps[j] \in Own => UpdateSteps[j] = "own" /\ j = 17
    BY UpdateTable
  <2>3. 20 - k + 1 \in 1..20 /\ (20 - k + 1 = 17 => k = 4)
    OBVIOUS
  <2>4. s \in Own => s = "own" /\ k = 4
    BY <2>1, <2>2, <2>3
  <2>5. QED
    BY <1>1, <2>1, <2>4
<1>2. CASE RollingBack(me)
  <2>1. PICK k \in 1..16 : s = RollbackSteps[16 - k + 1]
    BY <1>2, OnEach DEF RollingBack, Stands
  <2>2. \A j \in 1..16 : RollbackSteps[j] \notin Own
    BY RollbackTable
  <2>3. 16 - k + 1 \in 1..16
    OBVIOUS
  <2>4. QED
    BY <2>1, <2>2, <2>3
<1>3. CASE Recovering(me)
  <2>1. PICK k \in 1..13 : s = RecoverSteps[13 - k + 1]
    BY <1>3, OnEach DEF Recovering, Stands
  <2>2. \A j \in 1..13 : RecoverSteps[j] \notin Own
    BY RecoverTable
  <2>3. 13 - k + 1 \in 1..13
    OBVIOUS
  <2>4. QED
    BY <2>1, <2>2, <2>3
<1>4. CASE Installing(me)
  <2>1. PICK k \in 1..13 : Left(me) = k /\ s = StopInstall[13 - k + 1]
    BY <1>4, OnEach DEF Installing, Stands
  <2>2. \A j \in 1..13 : StopInstall[j] \in Own => StopInstall[j] = "own" /\ j = 13
    BY InstallTable
  <2>3. 13 - k + 1 \in 1..13 /\ (13 - k + 1 = 13 => k = 1)
    OBVIOUS
  <2>4. s \in Own => s = "own" /\ k = 1
    BY <2>1, <2>2, <2>3
  <2>5. QED
    BY <1>4, <2>1, <2>4
<1>5. CASE Importing(me)
  <2>1. PICK k \in 1..10 : Left(me) = k /\ s = ImportSteps[10 - k + 1]
    BY <1>5, OnEach DEF Importing, Stands
  <2>2. \A j \in 1..10 : /\ ImportSteps[j] \notin {"own", "undoOwn"}
                         /\ ImportSteps[j] = "ownCat" => j = 8
                         /\ ImportSteps[j] = "note" => j = 5
    BY ImportTable
  <2>3. 10 - k + 1 \in 1..10 /\ (10 - k + 1 = 8 => k = 3) /\ (10 - k + 1 = 5 => k = 6)
    OBVIOUS
  <2>4. s \in Own => (s = "ownCat" /\ k = 3) \/ (s = "note" /\ k = 6)
    BY <2>1, <2>2, <2>3
  <2>5. QED
    BY <1>5, <2>1, <2>4
<1>6. CASE RestoringImport(me)
  <2>1. PICK k \in 1..9 : Left(me) = k /\ s = CatalogBackSteps[9 - k + 1]
    BY <1>6, OnEach DEF RestoringImport, Stands
  <2>2. \A j \in 1..9 : CatalogBackSteps[j] \in Own => CatalogBackSteps[j] = "ownCat" /\ j = 7
    BY CatalogBackTable
  <2>3. 9 - k + 1 \in 1..9 /\ (9 - k + 1 = 7 => k = 3)
    OBVIOUS
  <2>4. s \in Own => s = "ownCat" /\ k = 3
    BY <2>1, <2>2, <2>3
  <2>5. QED
    BY <1>6, <2>1, <2>4
<1>7. CASE Uninstalling(me)
  <2>1. PICK k \in 1..4 : s = UninstallSteps[4 - k + 1]
    BY <1>7, OnEach DEF Uninstalling, Stands
  <2>2. QED
    BY <2>1, UninstallTable
<1>8. CASE TakingBack(me)
  <2>1. CASE me.cmd \in {"update", "rollback"}
    <3>1. PICK k \in 1..11 : s = UndoSwitch[11 - k + 1]
      BY <1>8, <2>1, OnEach DEF TakingBack, Stands
    <3>2. \A j \in 1..11 : UndoSwitch[j] \notin Own
      BY UndoTable
    <3>3. 11 - k + 1 \in 1..11
      OBVIOUS
    <3>4. QED
      BY <3>1, <3>2, <3>3
  <2>2. CASE me.cmd \notin {"update", "rollback"}
    <3>1. s \in PuttingBack \cup Checks
      BY <1>8, <2>2, UndoAtCatalog
    <3>2. me.cmd \in {"import", "catalog_rollback"}
      BY <1>8, <2>2 DEF TakingBack
    <3>3. QED
      BY <3>1, <3>2 DEF PuttingBack, Undoing, Checks
  <2>3. QED
    BY <2>1, <2>2
<1>9. QED
  BY <1>1, <1>2, <1>3, <1>4, <1>5, <1>6, <1>7, <1>8 DEF Working

(* What an install writes, step by step.                                   *)
LEMMA InstallWrites ==
  ASSUME ControlInv, NEW m \in Manager, Do(m)
  PROVE  LET me == mgr[m]
             s == Head(me.todo)
             v == me.ver
         IN
         /\ s = "retain" => WritesOnly("retained") /\ disk'.retained = disk.retained \cup {v}
         /\ s = "settings" => WritesOnly("settings") /\ disk'.settings = 1
         /\ s = "compat" => WritesOnly("compat") /\ disk'.compat = v
         /\ s = "cat" => WritesOnly("cat") /\ disk'.cat = Packaged(v)
         /\ s = "catArt" => WritesOnly("catArt")
         /\ s = "up" => WritesOnly("up")
         /\ s = "upArt" => WritesOnly("upArt")
         /\ s = "keepUpArt" => /\ WritesOnly("upArt")
                               /\ disk'.upArt = Kept(disk.up, disk.upArt, disk.own.up, Packaged(v))
         /\ s = "keepUp" => /\ WritesOnly("up")
                            /\ disk'.up = Kept(disk.up, disk.upArt, disk.own.up, Packaged(v))
         /\ s = "keepCatArt" => /\ WritesOnly("catArt")
                                /\ disk'.catArt = Kept(disk.cat, disk.catArt, disk.own.cat, Packaged(v))
         /\ s = "keepCat" => /\ WritesOnly("cat")
                             /\ disk'.cat = Kept(disk.cat, disk.catArt, disk.own.cat, Packaged(v))
         /\ s = "plugArt" => WritesOnly("plugArt") /\ disk'.plugArt = Rendered(v)
         /\ s = "plugin" => WritesOnly("plugin") /\ disk'.plugin = disk.plugArt
         /\ s = "bin" => WritesOnly("bin") /\ disk'.bin = v
         /\ s = "block" => WritesOnly("block") /\ disk'.block = Block(v)
         /\ s = "own" => WritesOnly("own") /\ disk'.own = OwnedNow(v)
<1> DEFINE me == mgr[m]
           s == Head(mgr[m].todo)
<1>1. \A p : Patch(me, s) = p => \A f \in Fields : disk'[f] = IF f \in DOMAIN p THEN p[f] ELSE disk[f]
  BY DoFacts DEF Wrote, ControlInv, DiskTyped
<1>2. /\ {"cat", "up", "compat", "settings"} \subseteq Fields /\ {"catArt", "upArt", "plugArt"} \subseteq Fields
      /\ {"own", "bin", "block", "plugin", "retained"} \subseteq Fields
  BY DEF Fields, Owned, Config, Artifacts, State
<1>3. s = "retain" => WritesOnly("retained") /\ disk'.retained = disk.retained \cup {me.ver}
  <2>1. s = "retain" => Patch(me, s) = [retained |-> disk.retained \cup {me.ver}]
    BY InstallPatches
  <2>2. QED
    BY <1>1, <1>2, <2>1 DEF WritesOnly
<1>4. s = "settings" => WritesOnly("settings") /\ disk'.settings = 1
  <2>1. s = "settings" => Patch(me, s) = [settings |-> 1]
    BY InstallPatches
  <2>2. QED
    BY <1>1, <1>2, <2>1 DEF WritesOnly
<1>5. s = "compat" => WritesOnly("compat") /\ disk'.compat = me.ver
  <2>1. s = "compat" => Patch(me, s) = [compat |-> me.ver]
    BY ResetPatches
  <2>2. QED
    BY <1>1, <1>2, <2>1 DEF WritesOnly
<1>6. s = "cat" => WritesOnly("cat") /\ disk'.cat = Packaged(me.ver)
  <2>1. s = "cat" => Patch(me, s) = [cat |-> Packaged(me.ver)]
    BY ResetPatches
  <2>2. QED
    BY <1>1, <1>2, <2>1 DEF WritesOnly
<1>7. s = "catArt" => WritesOnly("catArt") /\ disk'.catArt = Packaged(me.ver)
  <2>1. s = "catArt" => Patch(me, s) = [catArt |-> Packaged(me.ver)]
    BY ResetPatches
  <2>2. QED
    BY <1>1, <1>2, <2>1 DEF WritesOnly
<1>8. s = "up" => WritesOnly("up") /\ disk'.up = Packaged(me.ver)
  <2>1. s = "up" => Patch(me, s) = [up |-> Packaged(me.ver)]
    BY ResetPatches
  <2>2. QED
    BY <1>1, <1>2, <2>1 DEF WritesOnly
<1>9. s = "upArt" => WritesOnly("upArt") /\ disk'.upArt = Packaged(me.ver)
  <2>1. s = "upArt" => Patch(me, s) = [upArt |-> Packaged(me.ver)]
    BY ResetPatches
  <2>2. QED
    BY <1>1, <1>2, <2>1 DEF WritesOnly
<1>10. s = "keepUpArt" => WritesOnly("upArt") /\ disk'.upArt = Kept(disk.up, disk.upArt, disk.own.up, Packaged(me.ver))
  <2>1. s = "keepUpArt" => Patch(me, s) = [upArt |-> Kept(disk.up, disk.upArt, disk.own.up, Packaged(me.ver))]
    BY KeepPatches
  <2>2. QED
    BY <1>1, <1>2, <2>1 DEF WritesOnly
<1>11. s = "keepUp" => WritesOnly("up") /\ disk'.up = Kept(disk.up, disk.upArt, disk.own.up, Packaged(me.ver))
  <2>1. s = "keepUp" => Patch(me, s) = [up |-> Kept(disk.up, disk.upArt, disk.own.up, Packaged(me.ver))]
    BY KeepPatches
  <2>2. QED
    BY <1>1, <1>2, <2>1 DEF WritesOnly
<1>12. s = "keepCatArt" => WritesOnly("catArt") /\ disk'.catArt = Kept(disk.cat, disk.catArt, disk.own.cat, Packaged(me.ver))
  <2>1. s = "keepCatArt" => Patch(me, s) = [catArt |-> Kept(disk.cat, disk.catArt, disk.own.cat, Packaged(me.ver))]
    BY KeepPatches
  <2>2. QED
    BY <1>1, <1>2, <2>1 DEF WritesOnly
<1>13. s = "keepCat" => WritesOnly("cat") /\ disk'.cat = Kept(disk.cat, disk.catArt, disk.own.cat, Packaged(me.ver))
  <2>1. s = "keepCat" => Patch(me, s) = [cat |-> Kept(disk.cat, disk.catArt, disk.own.cat, Packaged(me.ver))]
    BY KeepPatches
  <2>2. QED
    BY <1>1, <1>2, <2>1 DEF WritesOnly
<1>14. s = "plugArt" => WritesOnly("plugArt") /\ disk'.plugArt = Rendered(me.ver)
  <2>1. s = "plugArt" => Patch(me, s) = [plugArt |-> Rendered(me.ver)]
    BY InstallPatches
  <2>2. QED
    BY <1>1, <1>2, <2>1 DEF WritesOnly
<1>15. s = "plugin" => WritesOnly("plugin") /\ disk'.plugin = disk.plugArt
  <2>1. s = "plugin" => Patch(me, s) = [plugin |-> disk.plugArt]
    BY InstallPatches
  <2>2. QED
    BY <1>1, <1>2, <2>1 DEF WritesOnly
<1>16. s = "bin" => WritesOnly("bin") /\ disk'.bin = me.ver
  <2>1. s = "bin" => Patch(me, s) = [bin |-> me.ver]
    BY InstallPatches
  <2>2. QED
    BY <1>1, <1>2, <2>1 DEF WritesOnly
<1>17. s = "block" => WritesOnly("block") /\ disk'.block = Block(me.ver)
  <2>1. s = "block" => Patch(me, s) = [block |-> Block(me.ver)]
    BY InstallPatches
  <2>2. QED
    BY <1>1, <1>2, <2>1 DEF WritesOnly
<1>18. s = "own" => WritesOnly("own") /\ disk'.own = OwnedNow(me.ver)
  <2>1. s = "own" => Patch(me, s) = [own |-> OwnedNow(me.ver)]
    BY InstallPatches
  <2>2. QED
    BY <1>1, <1>2, <2>1 DEF WritesOnly
<1>19. QED
  BY <1>3, <1>4, <1>5, <1>6, <1>7, <1>8, <1>9, <1>10, <1>11, <1>12,
     <1>13, <1>14, <1>15, <1>16, <1>17, <1>18

(* What the catalog commands write of the mirrors and the ownership state. *)
LEMMA OwnCatWrites ==
  ASSUME ControlInv, NEW m \in Manager, Do(m)
  PROVE  LET s == Head(mgr[m].todo) IN
         /\ s = "mirrorCat" => disk'.catArt = disk.cat
         /\ s = "mirrorUp" => disk'.upArt = disk.up
         /\ s = "importCat" => disk'.cat = Contract(mgr[m].ver, mgr[m].arg)
         /\ s = "ownCat" => /\ disk'.own.ver = disk.own.ver /\ disk'.own.plugin = disk.own.plugin
                            /\ disk'.own.cat = disk.cat /\ disk'.own.up = disk.up
                            /\ disk'.own.compat = disk.compat
<1> DEFINE me == mgr[m]
           s == Head(mgr[m].todo)
<1>1. \A p : Patch(me, s) = p => \A f \in Fields : disk'[f] = IF f \in DOMAIN p THEN p[f] ELSE disk[f]
  BY DoFacts DEF Wrote, ControlInv, DiskTyped
<1>2. {"own", "cat", "catArt", "upArt"} \subseteq Fields
  BY DEF Fields, Owned, Config, Artifacts, State
<1>3. s = "mirrorCat" => disk'.catArt = disk.cat
  BY <1>1, <1>2, MirrorPatches
<1>4. s = "mirrorUp" => disk'.upArt = disk.up
  BY <1>1, <1>2, MirrorPatches
<1>5. s = "importCat" => disk'.cat = Contract(me.ver, me.arg)
  <2>1. s = "importCat" => Patch(me, s) = [cat |-> Contract(me.ver, me.arg)]
    BY ImportPatches
  <2>2. QED
    BY <1>1, <1>2, <2>1
<1>6. ASSUME s = "ownCat"
      PROVE  /\ disk'.own.ver = disk.own.ver /\ disk'.own.plugin = disk.own.plugin
             /\ disk'.own.cat = disk.cat /\ disk'.own.up = disk.up
             /\ disk'.own.compat = disk.compat
  <2> DEFINE o == [disk.own EXCEPT !.cat = disk.cat, !.up = disk.up, !.compat = disk.compat]
  <2>1. disk.own \in OwnType
    BY <1>2 DEF ControlInv, DiskTyped, Kind
  <2>2. /\ o.ver = disk.own.ver /\ o.plugin = disk.own.plugin
        /\ o.cat = disk.cat /\ o.up = disk.up /\ o.compat = disk.compat
    BY <2>1 DEF OwnType
  <2>3. Patch(me, s) = [own |-> o]
    BY <1>6, OwnCatPatch
  <2> HIDE DEF o
  <2>4. disk'.own = o
    BY <1>1, <1>2, <2>3
  <2>5. QED
    BY <2>2, <2>4
<1>7. QED
  BY <1>3, <1>4, <1>5, <1>6

(* What is restored was sound when it was captured.                        *)
LEMMA RestoreSound ==
  ASSUME ControlInv, SuccessInv, NEW m \in Manager, Do(m), Head(mgr[m].todo) \in Restores
  PROVE  DiskSound(disk')
<1> DEFINE snap == snaps[mgr[m].from]
           s == Head(mgr[m].todo)
<1>1. Snap(mgr[m].from)
  <2>1. StepOk(mgr[m], s)
    BY DoFacts, StepAllowed
  <2>2. QED
    BY <2>1 DEF StepOk
<1>2. DiskSound(disk) /\ DiskSound(snap)
  BY <1>1 DEF SuccessInv, Snap
<1>3. \E A \in {Config, Artifacts, State, {"bin"}, {"block"}, {"plugin"}} : Put(A, snap) \/ Put(A, Nothing)
  BY RestoreWrites DEF Restores
<1>4. {"own", "imports"} \subseteq Fields
  BY DEF Fields, Owned, Config, State
<1>5. /\ disk'.own \in {disk.own, snap.own, Nothing.own}
      /\ disk'.imports \in {disk.imports, snap.imports, Nothing.imports}
  BY <1>3, <1>4 DEF Put
<1>6. OwnSound(Nothing.own) /\ ImportsSound(Nothing.imports)
  BY DEF Nothing, NoOwn, OwnSound, ImportsSound
<1>7. QED
  BY <1>2, <1>5, <1>6 DEF DiskSound

(* What a step writes of the ownership state and the import receipts is    *)
(* sound.                                                                  *)
LEMMA DoSound ==
  ASSUME ControlInv, SuccessInv, NEW m \in Manager, Do(m)
  PROVE  DiskSound(disk')
<1> DEFINE me == mgr[m]
           s == Head(mgr[m].todo)
<1>1. /\ Working(me) /\ me.todo # <<>> /\ Success(me) /\ DiskSound(disk)
      /\ me.ver \in Versions /\ me.arg \in Imports \cup {0}
  BY DoFacts DEF SuccessInv, ControlInv, ManagerTyped
<1>2. /\ s = "own" => (Updating(me) /\ Left(me) = 4) \/ (Installing(me) /\ Left(me) = 1)
      /\ s = "ownCat" => (Importing(me) \/ RestoringImport(me)) /\ Left(me) = 3
      /\ s = "note" => Importing(me) /\ Left(me) = 6
      /\ s = "undoOwn" => me.cmd \in {"import", "catalog_rollback"}
  BY <1>1, WhoOwns
<1>3. CASE s \in Restores
  BY <1>3, RestoreSound
<1>4. CASE s = "own"
  <2>1. Writer(disk.cat) = me.ver /\ disk.plugArt # 0
    <3>1. CASE Updating(me) /\ Left(me) = 4
      BY <1>1, <3>1 DEF Success, UpdateSuccess
    <3>2. CASE Installing(me) /\ Left(me) = 1
      BY <1>1, <3>2 DEF Success, InstallSuccess
    <3>3. QED
      BY <1>2, <1>4, <3>1, <3>2
  <2>2. disk'.own = OwnedNow(me.ver)
    BY <1>4, InstallWrites
  <2>3. disk'.own.ver = me.ver /\ disk'.own.cat = disk.cat /\ disk'.own.plugin = disk.plugArt
    BY <2>2 DEF OwnedNow
  <2>4. disk'.imports = disk.imports
    BY <1>4, OtherWrites DEF Restores
  <2>5. QED
    BY <1>1, <2>1, <2>3, <2>4 DEF DiskSound, OwnSound
<1>5. CASE s = "ownCat"
  <2>1. Writer(disk.cat) = me.ver /\ disk.own.ver = me.ver
    <3>1. CASE Importing(me) /\ Left(me) = 3
      BY <1>1, <3>1 DEF Success, ImportSuccess
    <3>2. CASE RestoringImport(me) /\ Left(me) = 3
      BY <1>1, <3>2 DEF Success, BackSuccess
    <3>3. QED
      BY <1>2, <1>5, <3>1, <3>2
  <2>2. /\ disk'.own.ver = disk.own.ver /\ disk'.own.plugin = disk.own.plugin
        /\ disk'.own.cat = disk.cat
    BY <1>5, OwnCatWrites
  <2>3. disk.own.plugin # 0
    BY <1>1, <2>1, Writers DEF DiskSound, OwnSound
  <2>4. disk'.imports = disk.imports
    BY <1>5, OtherWrites DEF Restores
  <2>5. QED
    BY <1>1, <2>1, <2>2, <2>3, <2>4 DEF DiskSound, OwnSound
<1>6. CASE s = "note"
  <2>1. Writer(me.before.cat) = me.ver /\ Writer(disk.cat) = me.ver
    BY <1>1, <1>2, <1>6 DEF Success, ImportSuccess
  <2> DEFINE e == <<me.before.cat, me.before.up, disk.cat, disk.up>>
  <2>2. Writer(e[1]) = Writer(e[3]) /\ Writer(e[3]) # 0
    BY <1>1, <2>1, Writers
  <2>3. disk'.imports = disk.imports \cup {e}
    <3>1. Patch(me, s) = [imports |-> disk.imports \cup {e}]
      BY <1>6, ImportPatches
    <3>2. "imports" \in Fields
      BY DEF Fields, Owned, Config
    <3> HIDE DEF e
    <3>3. QED
      BY <3>1, <3>2, DoFacts DEF Wrote, ControlInv, DiskTyped
  <2> HIDE DEF e
  <2>4. disk'.own = disk.own
    BY <1>6, OtherWrites DEF Restores
  <2>5. QED
    BY <1>1, <2>2, <2>3, <2>4 DEF DiskSound, ImportsSound
<1>7. CASE s = "undoOwn"
  <2>1. disk'.own = me.before.own /\ disk'.imports = disk.imports
    BY <1>7, OtherWrites DEF Restores
  <2>2. DiskSound(me.before)
    BY <1>1, <1>2, <1>7 DEF Success
  <2>3. QED
    BY <1>1, <2>1, <2>2 DEF DiskSound
<1>8. CASE s = "unroot"
  <2>1. disk'.own.ver = 0 /\ disk'.imports = {}
    BY <1>8, OtherWrites DEF Restores
  <2>2. QED
    BY <2>1 DEF DiskSound, OwnSound, ImportsSound
<1>9. CASE s \notin Restores \cup {"own", "ownCat", "note", "undoOwn", "unroot"}
  <2>1. disk'.own = disk.own /\ disk'.imports = disk.imports
    BY <1>9, OtherWrites
  <2>2. QED
    BY <1>1, <2>1 DEF DiskSound
<1>10. QED
  BY <1>3, <1>4, <1>5, <1>6, <1>7, <1>8, <1>9

LEMMA DoSnapsSound ==
  ASSUME ControlInv, SuccessInv, NEW m \in Manager, Do(m)
  PROVE  \A n \in 1..Len(snaps') : DiskSound(snaps'[n])
<1> DEFINE s == Head(mgr[m].todo)
<1>1. CASE s = "unroot"
  BY <1>1, DoFacts DEF Noted
<1>2. CASE s = "capture"
  <2>1. /\ \A n \in 1..Len(snaps) : snaps'[n] = snaps[n]
        /\ Len(snaps') = Len(snaps) + 1 /\ snaps'[Len(snaps')] = Only(disk, Owned) /\ Len(snaps) \in Nat
    BY <1>2, SnapsStay
  <2>2. DiskSound(Only(disk, Owned))
    <3>1. Only(disk, Owned).own = disk.own /\ Only(disk, Owned).imports = disk.imports
      BY DEF Only, Owned, Config, State
    <3>2. QED
      BY <3>1 DEF SuccessInv, DiskSound
  <2>3. QED
    BY <2>1, <2>2 DEF SuccessInv
<1>3. CASE s \notin {"unroot", "capture"}
  BY <1>3, DoFacts DEF Noted, SuccessInv
<1>4. QED
  BY <1>1, <1>2, <1>3

-----------------------------------------------------------------------------
(* A step keeps what its command will have achieved                        *)

LEMMA LeavesRest ==
  ASSUME NEW f, WritesOnly(f)
  PROVE  /\ f # "retained" => disk'.retained = disk.retained
         /\ f # "settings" => disk'.settings = disk.settings
         /\ f # "compat" => disk'.compat = disk.compat
         /\ f # "up" => disk'.up = disk.up
         /\ f # "upArt" => disk'.upArt = disk.upArt
         /\ f # "cat" => disk'.cat = disk.cat
         /\ f # "catArt" => disk'.catArt = disk.catArt
         /\ f # "plugArt" => disk'.plugArt = disk.plugArt
         /\ f # "plugin" => disk'.plugin = disk.plugin
         /\ f # "bin" => disk'.bin = disk.bin
         /\ f # "block" => disk'.block = disk.block
         /\ f # "own" => disk'.own = disk.own
<1>1. /\ {"cat", "up", "compat", "settings"} \subseteq Fields /\ {"catArt", "upArt", "plugArt"} \subseteq Fields
      /\ {"own", "bin", "block", "plugin", "retained"} \subseteq Fields
  BY DEF Fields, Owned, Config, Artifacts, State
<1>2. QED
  BY <1>1 DEF WritesOnly

LEMMA ChecksLeave ==
  ASSUME ControlInv, NEW m \in Manager, Do(m), Head(mgr[m].todo) \in Checks
  PROVE  WritesOnly("none")
<1>1. \A f \in Fields : disk'[f] = disk[f]
  BY DoMoves
<1>2. QED
  BY <1>1 DEF WritesOnly

(* A plugin that is rendered is one.                                       *)
LEMMA RenderedPlugin ==
  ASSUME DiskSound(disk), NEW v \in Versions
  PROVE  Rendered(v) # 0
<1>1. v # 0
  BY Writers
<1>2. CASE disk.own.ver # v \/ disk.plugArt # disk.own.plugin
  BY <1>1, <1>2 DEF Rendered
<1>3. CASE ~(disk.own.ver # v \/ disk.plugArt # disk.own.plugin)
  BY <1>1, <1>3 DEF Rendered, DiskSound, OwnSound
<1>4. QED
  BY <1>2, <1>3

LEMMA UpdateSucceeds ==
  ASSUME ControlInv, JournalInv, SuccessInv, NEW m \in Manager, Do(m), Updating(mgr[m])
  PROVE  UpdateSuccess(mgr[m])'
<1> DEFINE me == mgr[m]
           s == Head(mgr[m].todo)
<1>1. /\ me.todo # <<>> /\ me.ver \in Versions /\ Journal(me) /\ Success(me) /\ DiskSound(disk)
  BY DoFacts DEF ControlInv, ManagerTyped, JournalInv, SuccessInv
<1>2. UpdateJournal(me) /\ UpdateSuccess(me)
  BY <1>1 DEF Journal, Success
<1>3. PICK k \in 1..20 : Left(mgr[m]) = k /\ s = UpdateSteps[20 - k + 1] /\ Len(Tail(me.todo)) = k - 1
  BY <1>1, OnEach DEF Updating, Stands
<1>4. Left(mgr[m])' = k - 1 /\ mgr'[m].ver = me.ver
  BY <1>3, DoMoves DEF Left
<1>5. /\ \A j \in 9..16 : UpdateSteps[j] \in {"catArt", "up", "upArt", "compat", "plugArt", "plugin", "bin", "block"}
      /\ \A j \in 14..16 : UpdateSteps[j] \in {"plugin", "bin", "block"}
      /\ UpdateSteps[8] = "cat" /\ UpdateSteps[13] = "plugArt" /\ UpdateSteps[20] = "clear"
  BY UpdateTable
<1>6. /\ k \in 5..12 => s \in {"catArt", "up", "upArt", "compat", "plugArt", "plugin", "bin", "block"}
      /\ k \in 5..7 => s \in {"plugin", "bin", "block"}
      /\ k = 13 => s = "cat"
      /\ k = 8 => s = "plugArt"
      /\ k = 1 => s = "clear"
  <2>1. /\ k \in 5..12 => 20 - k + 1 \in 9..16
        /\ k \in 5..7 => 20 - k + 1 \in 14..16
        /\ k = 13 => 20 - k + 1 = 8
        /\ k = 8 => 20 - k + 1 = 13
        /\ k = 1 => 20 - k + 1 = 20
    OBVIOUS
  <2>2. QED
    BY <1>3, <1>5, <2>1
<1>7. k - 1 \in 4..12 => Writer(disk'.cat) = me.ver
  <2>1. CASE k = 13
    <3>1. disk'.cat = Packaged(me.ver)
      BY <1>6, <2>1, InstallWrites
    <3>2. QED
      BY <1>1, <3>1, Writers
  <2>2. CASE k \in 5..12
    <3>1. PICK f : WritesOnly(f) /\ f # "cat"
      BY <1>6, <2>2, InstallWrites
    <3>2. disk'.cat = disk.cat
      BY <3>1, LeavesRest
    <3>3. k \in 4..12
      BY <2>2
    <3>4. QED
      BY <1>2, <1>3, <3>2, <3>3 DEF UpdateSuccess
  <2>3. QED
    BY <2>1, <2>2
<1>8. k - 1 \in 4..7 => disk'.plugArt # 0
  <2>1. CASE k = 8
    <3>1. disk'.plugArt = Rendered(me.ver)
      BY <1>6, <2>1, InstallWrites
    <3>2. QED
      BY <1>1, <3>1, RenderedPlugin
  <2>2. CASE k \in 5..7
    <3>1. PICK f : WritesOnly(f) /\ f # "plugArt"
      BY <1>6, <2>2, InstallWrites
    <3>2. disk'.plugArt = disk.plugArt
      BY <3>1, LeavesRest
    <3>3. k \in 4..7
      BY <2>2
    <3>4. QED
      BY <1>2, <1>3, <3>2, <3>3 DEF UpdateSuccess
  <2>3. QED
    BY <2>1, <2>2
<1>9. k - 1 = 0 => Whole(me.ver, disk')
  <2> SUFFICES ASSUME k = 1 PROVE Whole(me.ver, disk')
    OBVIOUS
  <2>1. Whole(mark.new, disk) /\ mark.new = me.ver
    BY <1>2, <1>3 DEF UpdateJournal
  <2>2. \A f \in Fields : disk'[f] = disk[f]
    BY <1>6, DoMoves DEF Checks
  <2>3. QED
    BY <2>1, <2>2, WholeSame
<1>10. QED
  BY <1>4, <1>7, <1>8, <1>9 DEF UpdateSuccess

LEMMA RollbackSucceeds ==
  ASSUME ControlInv, JournalInv, SuccessInv, NEW m \in Manager, Do(m), RollingBack(mgr[m])
  PROVE  RollbackSuccess(mgr[m])'
<1> DEFINE me == mgr[m]
           s == Head(mgr[m].todo)
<1>1. me.todo # <<>> /\ Journal(me)
  BY DoFacts DEF JournalInv
<1>2. RollbackJournal(me)
  BY <1>1 DEF Journal
<1>3. PICK k \in 1..16 : Left(mgr[m]) = k /\ s = RollbackSteps[16 - k + 1] /\ Len(Tail(me.todo)) = k - 1
  BY <1>1, OnEach DEF RollingBack, Stands
<1>4. Left(mgr[m])' = k - 1 /\ mgr'[m].ver = me.ver
  BY <1>3, DoMoves DEF Left
<1>5. k - 1 = 0 => Whole(me.ver, disk')
  <2> SUFFICES ASSUME k = 1 PROVE Whole(me.ver, disk')
    OBVIOUS
  <2>1. Whole(mark.new, disk) /\ mark.new = me.ver
    BY <1>2, <1>3 DEF RollbackJournal
  <2>2. s = "clear"
    BY <1>3, RollbackTable
  <2>3. \A f \in Fields : disk'[f] = disk[f]
    BY <2>2, DoMoves DEF Checks
  <2>4. QED
    BY <2>1, <2>3, WholeSame
<1>6. QED
  BY <1>4, <1>5 DEF RollbackSuccess

LEMMA RecoverSucceeds ==
  ASSUME ControlInv, SuccessInv, NEW m \in Manager, Do(m), Recovering(mgr[m])
  PROVE  RecoverSuccess(mgr[m])'
<1> DEFINE me == mgr[m]
           s == Head(mgr[m].todo)
<1>1. me.todo # <<>> /\ RecoverSuccess(me) /\ me.cmd = "repair" /\ Ready(me, s)
  BY DoFacts DEF SuccessInv, Success, Recovering
<1>2. PICK k \in 1..13 : Left(mgr[m]) = k /\ s = RecoverSteps[13 - k + 1] /\ Len(Tail(me.todo)) = k - 1
  BY <1>1, OnEach DEF Recovering, Stands
<1>3. Left(mgr[m])' = k - 1
  BY <1>2, DoMoves DEF Left
<1>4. k \in {1, 2} => Whole(disk'.own.ver, disk')
  <2> SUFFICES ASSUME k \in {1, 2} PROVE Whole(disk'.own.ver, disk')
    OBVIOUS
  <2>1. (k = 1 => s = "clear") /\ (k = 2 => s = "doctor")
    BY <1>2, RecoverTable
  <2>2. \A f \in Fields : disk'[f] = disk[f]
    BY <2>1, DoMoves DEF Checks
  <2>3. Whole(disk.own.ver, disk)
    <3>1. CASE k = 1
      BY <1>1, <1>2, <3>1 DEF RecoverSuccess
    <3>2. CASE k = 2
      <4>1. Doctor(mark.prev)
        BY <1>1, <2>1, <3>2 DEF Ready
      <4>2. Whole(mark.prev, disk)
        BY <4>1 DEF Doctor
      <4>3. disk.own.ver = mark.prev
        BY <4>2 DEF Whole, Intact
      <4>4. QED
        BY <4>2, <4>3
    <3>3. QED
      BY <3>1, <3>2
  <2>4. disk'.own.ver = disk.own.ver
    BY <2>2 DEF Fields, Owned, State
  <2>5. QED
    BY <2>2, <2>3, <2>4, WholeSame
<1>5. k - 1 <= 1 => k \in {1, 2}
  OBVIOUS
<1>6. QED
  BY <1>3, <1>4, <1>5 DEF RecoverSuccess

(* The owned pair is restored to one content, which stays as it is.        *)
LEMMA KeptTwice ==
  ASSUME NEW t, NEW a, NEW o, NEW p
  PROVE  Kept(t, Kept(t, a, o, p), o, p) = Kept(t, a, o, p)
BY DEF Kept

LEMMA KeptCatalog ==
  ASSUME DiskSound(disk), NEW v \in Versions, disk.own.ver \in {0, v}, NEW t, NEW a
  PROVE  Writer(Kept(t, a, disk.own.cat, Packaged(v))) = v
<1>1. v # 0 /\ Writer(Packaged(v)) = v
  BY Writers
<1>2. disk.own.ver # 0 => Writer(disk.own.cat) = v
  BY DEF DiskSound, OwnSound
<1>3. QED
  BY <1>1, <1>2 DEF Kept

LEMMA InstallSucceeds ==
  ASSUME ControlInv, JournalInv, SuccessInv, NEW m \in Manager, Do(m), Installing(mgr[m])
  PROVE  InstallSuccess(mgr[m])'
<1> DEFINE me == mgr[m]
           s == Head(mgr[m].todo)
           v == mgr[m].ver
<1>1. /\ me.todo # <<>> /\ v \in Versions /\ Journal(me) /\ Success(me) /\ DiskSound(disk)
  BY DoFacts DEF ControlInv, ManagerTyped, JournalInv, SuccessInv
<1>2. disk.own.ver \in {0, v} /\ InstallSuccess(me)
  BY <1>1 DEF Journal, InstallJournal, Success
<1>3. PICK k \in 1..13 : Left(mgr[m]) = k /\ s = StopInstall[13 - k + 1] /\ Len(Tail(me.todo)) = k - 1
  BY <1>1, OnEach DEF Installing, Stands
<1>4. Left(mgr[m])' = k - 1 /\ mgr'[m].ver = v
  BY <1>3, DoMoves DEF Left
<1>5. /\ k = 13 => s = "stop"
      /\ k = 12 => s = "retain"
      /\ k = 11 => s = "settings"
      /\ k = 10 => s = "compat"
      /\ k = 9 => s = "keepUpArt"
      /\ k = 8 => s = "keepUp"
      /\ k = 7 => s = "keepCatArt"
      /\ k = 6 => s = "keepCat"
      /\ k = 5 => s = "plugArt"
      /\ k = 4 => s = "plugin"
      /\ k = 3 => s = "bin"
      /\ k = 2 => s = "block"
      /\ k = 1 => s = "own"
  BY <1>3, InstallTable
<1>6. /\ k <= 11 => v \in disk.retained
      /\ k <= 10 => disk.settings = 1
      /\ k <= 9 => disk.compat = v
      /\ k = 8 => disk.upArt = Kept(disk.up, disk.upArt, disk.own.up, Packaged(v))
      /\ k <= 7 => disk.up = disk.upArt
      /\ k = 6 => disk.catArt = Kept(disk.cat, disk.catArt, disk.own.cat, Packaged(v))
      /\ k <= 5 => disk.cat = disk.catArt /\ Writer(disk.cat) = v
      /\ k <= 4 => disk.plugArt # 0
      /\ k <= 3 => disk.plugin = disk.plugArt
      /\ k <= 2 => disk.bin = v
      /\ k <= 1 => disk.block = Block(v)
  BY <1>2, <1>3 DEF InstallSuccess
<1> DEFINE Done(j) ==
      /\ j <= 11 => v \in disk'.retained
      /\ j <= 10 => disk'.settings = 1
      /\ j <= 9 => disk'.compat = v
      /\ j = 8 => disk'.upArt = Kept(disk.up, disk.upArt, disk.own.up, Packaged(v))'
      /\ j <= 7 => disk'.up = disk'.upArt
      /\ j = 6 => disk'.catArt = Kept(disk.cat, disk.catArt, disk.own.cat, Packaged(v))'
      /\ j <= 5 => disk'.cat = disk'.catArt /\ Writer(disk'.cat) = v
      /\ j <= 4 => disk'.plugArt # 0
      /\ j <= 3 => disk'.plugin = disk'.plugArt
      /\ j <= 2 => disk'.bin = v
      /\ j <= 1 => disk'.block = Block(v)
      /\ j = 0 => Whole(v, disk')
<1>7. ASSUME k = 13 PROVE Done(k - 1)
  BY <1>7
<1>8. ASSUME k = 12 PROVE Done(k - 1)
  <2>1. v \in disk'.retained
    BY <1>5, <1>8, InstallWrites
  <2>2. QED
    BY <1>8, <2>1
<1>9. ASSUME k = 11 PROVE Done(k - 1)
  <2>1. WritesOnly("settings") /\ disk'.settings = 1
    BY <1>5, <1>9, InstallWrites
  <2>2. disk'.retained = disk.retained
    BY <2>1, LeavesRest
  <2>3. QED
    BY <1>6, <1>9, <2>1, <2>2
<1>10. ASSUME k = 10 PROVE Done(k - 1)
  <2>1. WritesOnly("compat") /\ disk'.compat = v
    BY <1>5, <1>10, InstallWrites
  <2>2. disk'.retained = disk.retained /\ disk'.settings = disk.settings
    BY <2>1, LeavesRest
  <2>3. QED
    BY <1>6, <1>10, <2>1, <2>2
<1>11. ASSUME k = 9 PROVE Done(k - 1)
  <2>1. /\ WritesOnly("upArt")
        /\ disk'.upArt = Kept(disk.up, disk.upArt, disk.own.up, Packaged(v))
    BY <1>5, <1>11, InstallWrites
  <2>2. /\ disk'.retained = disk.retained /\ disk'.settings = disk.settings
        /\ disk'.compat = disk.compat /\ disk'.up = disk.up /\ disk'.own = disk.own
    BY <2>1, LeavesRest
  <2>3. Kept(disk.up, disk.upArt, disk.own.up, Packaged(v))'
          = Kept(disk.up, disk'.upArt, disk.own.up, Packaged(v))
    BY <1>4, <2>2 DEF Kept
  <2>4. disk'.upArt = Kept(disk.up, disk.upArt, disk.own.up, Packaged(v))'
    BY <2>1, <2>3, KeptTwice
  <2>5. QED
    BY <1>6, <1>11, <2>2, <2>4
<1>12. ASSUME k = 8 PROVE Done(k - 1)
  <2>1. /\ WritesOnly("up")
        /\ disk'.up = Kept(disk.up, disk.upArt, disk.own.up, Packaged(v))
    BY <1>5, <1>12, InstallWrites
  <2>2. /\ disk'.retained = disk.retained /\ disk'.settings = disk.settings
        /\ disk'.compat = disk.compat /\ disk'.upArt = disk.upArt
    BY <2>1, LeavesRest
  <2>3. QED
    BY <1>6, <1>12, <2>1, <2>2
<1>13. ASSUME k = 7 PROVE Done(k - 1)
  <2>1. /\ WritesOnly("catArt")
        /\ disk'.catArt = Kept(disk.cat, disk.catArt, disk.own.cat, Packaged(v))
    BY <1>5, <1>13, InstallWrites
  <2>2. /\ disk'.retained = disk.retained /\ disk'.settings = disk.settings
        /\ disk'.compat = disk.compat /\ disk'.up = disk.up /\ disk'.upArt = disk.upArt
        /\ disk'.cat = disk.cat /\ disk'.own = disk.own
    BY <2>1, LeavesRest
  <2>3. Kept(disk.cat, disk.catArt, disk.own.cat, Packaged(v))'
          = Kept(disk.cat, disk'.catArt, disk.own.cat, Packaged(v))
    BY <1>4, <2>2 DEF Kept
  <2>4. disk'.catArt = Kept(disk.cat, disk.catArt, disk.own.cat, Packaged(v))'
    BY <2>1, <2>3, KeptTwice
  <2>5. QED
    BY <1>6, <1>13, <2>2, <2>4
<1>14. ASSUME k = 6 PROVE Done(k - 1)
  <2>1. /\ WritesOnly("cat")
        /\ disk'.cat = Kept(disk.cat, disk.catArt, disk.own.cat, Packaged(v))
    BY <1>5, <1>14, InstallWrites
  <2>2. /\ disk'.retained = disk.retained /\ disk'.settings = disk.settings
        /\ disk'.compat = disk.compat /\ disk'.up = disk.up /\ disk'.upArt = disk.upArt
        /\ disk'.catArt = disk.catArt
    BY <2>1, LeavesRest
  <2>3. Writer(disk'.cat) = v
    BY <1>1, <1>2, <2>1, KeptCatalog
  <2>4. QED
    BY <1>6, <1>14, <2>1, <2>2, <2>3
<1>15. ASSUME k = 5 PROVE Done(k - 1)
  <2>1. WritesOnly("plugArt") /\ disk'.plugArt = Rendered(v)
    BY <1>5, <1>15, InstallWrites
  <2>2. /\ disk'.retained = disk.retained /\ disk'.settings = disk.settings
        /\ disk'.compat = disk.compat /\ disk'.up = disk.up /\ disk'.upArt = disk.upArt
        /\ disk'.cat = disk.cat /\ disk'.catArt = disk.catArt
    BY <2>1, LeavesRest
  <2>3. disk'.plugArt # 0
    BY <1>1, <2>1, RenderedPlugin
  <2>4. QED
    BY <1>6, <1>15, <2>2, <2>3
<1>16. ASSUME k = 4 PROVE Done(k - 1)
  <2>1. WritesOnly("plugin") /\ disk'.plugin = disk.plugArt
    BY <1>5, <1>16, InstallWrites
  <2>2. /\ disk'.retained = disk.retained /\ disk'.settings = disk.settings
        /\ disk'.compat = disk.compat /\ disk'.up = disk.up /\ disk'.upArt = disk.upArt
        /\ disk'.cat = disk.cat /\ disk'.catArt = disk.catArt /\ disk'.plugArt = disk.plugArt
    BY <2>1, LeavesRest
  <2>3. QED
    BY <1>6, <1>16, <2>1, <2>2
<1>17. ASSUME k = 3 PROVE Done(k - 1)
  <2>1. WritesOnly("bin") /\ disk'.bin = v
    BY <1>5, <1>17, InstallWrites
  <2>2. /\ disk'.retained = disk.retained /\ disk'.settings = disk.settings
        /\ disk'.compat = disk.compat /\ disk'.up = disk.up /\ disk'.upArt = disk.upArt
        /\ disk'.cat = disk.cat /\ disk'.catArt = disk.catArt /\ disk'.plugArt = disk.plugArt
        /\ disk'.plugin = disk.plugin
    BY <2>1, LeavesRest
  <2>3. QED
    BY <1>6, <1>17, <2>1, <2>2
<1>18. ASSUME k = 2 PROVE Done(k - 1)
  <2>1. WritesOnly("block") /\ disk'.block = Block(v)
    BY <1>5, <1>18, InstallWrites
  <2>2. /\ disk'.retained = disk.retained /\ disk'.settings = disk.settings
        /\ disk'.compat = disk.compat /\ disk'.up = disk.up /\ disk'.upArt = disk.upArt
        /\ disk'.cat = disk.cat /\ disk'.catArt = disk.catArt /\ disk'.plugArt = disk.plugArt
        /\ disk'.plugin = disk.plugin /\ disk'.bin = disk.bin
    BY <2>1, LeavesRest
  <2>3. QED
    BY <1>6, <1>18, <2>1, <2>2
<1>19. ASSUME k = 1 PROVE Done(k - 1)
  <2>1. WritesOnly("own") /\ disk'.own = OwnedNow(v)
    BY <1>5, <1>19, InstallWrites
  <2>2. /\ disk'.retained = disk.retained /\ disk'.settings = disk.settings
        /\ disk'.compat = disk.compat /\ disk'.up = disk.up /\ disk'.upArt = disk.upArt
        /\ disk'.cat = disk.cat /\ disk'.catArt = disk.catArt /\ disk'.plugArt = disk.plugArt
        /\ disk'.plugin = disk.plugin /\ disk'.bin = disk.bin /\ disk'.block = disk.block
    BY <2>1, LeavesRest
  <2>3. /\ disk'.own.ver = v /\ disk'.own.cat = disk.cat /\ disk'.own.up = disk.up
        /\ disk'.own.compat = v /\ disk'.own.plugin = disk.plugArt /\ disk'.own.bin = v
        /\ disk'.own.block = Block(v)
    BY <2>1 DEF OwnedNow
  <2>4. Whole(v, disk')
    BY <1>6, <1>19, <2>2, <2>3 DEF Whole, Intact, CatalogOwned, Valid
  <2>5. QED
    BY <1>6, <1>19, <2>2, <2>4
<1>20. Done(k - 1)
  BY <1>7, <1>8, <1>9, <1>10, <1>11, <1>12, <1>13, <1>14, <1>15, <1>16, <1>17, <1>18, <1>19
<1>21. QED
  BY <1>4, <1>20 DEF InstallSuccess

(* The broker is stopped and started by few steps.                         *)
LEMMA BrokerStays ==
  ASSUME NEW m \in Manager, Do(m), Head(mgr[m].todo) \notin {"stop", "stopPrior", "start", "try"}
  PROVE  broker' = broker
BY DEF Do, Head1

(* The mirrors and the ownership state follow the catalog.                 *)
LEMMA MirrorsFollow ==
  ASSUME ControlInv, SuccessInv, NEW m \in Manager, Do(m), NEW k \in 1..5,
         Mirrored(mgr[m]), Left(mgr[m]) = k, Left(mgr[m])' = k - 1,
         k = 5 => Head(mgr[m].todo) = "mirrorCat",
         k = 4 => Head(mgr[m].todo) = "mirrorUp",
         k = 3 => Head(mgr[m].todo) = "ownCat",
         k = 2 => Head(mgr[m].todo) = "start",
         k = 1 => Head(mgr[m].todo) = "prove"
  PROVE  Mirrored(mgr[m])'
<1> DEFINE s == Head(mgr[m].todo)
<1>1. /\ k <= 4 => disk.catArt = disk.cat
      /\ k <= 3 => disk.upArt = disk.up
      /\ k <= 2 => CatalogOwned(disk)
  BY DEF Mirrored
<1>2. CASE k = 5
  <2>1. WritesOnly("catArt") /\ disk'.catArt = disk.cat
    BY <1>2, CatalogWrites, OwnCatWrites
  <2>2. disk'.cat = disk.cat
    BY <2>1, LeavesRest
  <2>3. QED
    BY <1>2, <2>1, <2>2 DEF Mirrored
<1>3. CASE k = 4
  <2>1. WritesOnly("upArt") /\ disk'.upArt = disk.up
    BY <1>3, CatalogWrites, OwnCatWrites
  <2>2. disk'.cat = disk.cat /\ disk'.catArt = disk.catArt /\ disk'.up = disk.up
    BY <2>1, LeavesRest
  <2>3. QED
    BY <1>1, <1>3, <2>1, <2>2 DEF Mirrored
<1>4. CASE k = 3
  <2>1. /\ WritesOnly("own") /\ disk'.own.cat = disk.cat /\ disk'.own.up = disk.up
        /\ disk'.own.compat = disk.compat
    BY <1>4, CatalogWrites, OwnCatWrites
  <2>2. /\ disk'.cat = disk.cat /\ disk'.catArt = disk.catArt /\ disk'.up = disk.up
        /\ disk'.upArt = disk.upArt /\ disk'.compat = disk.compat
    BY <2>1, LeavesRest
  <2>3. CatalogOwned(disk')
    BY <1>1, <1>4, <2>1, <2>2 DEF CatalogOwned
  <2>4. QED
    BY <1>1, <1>4, <2>2, <2>3 DEF Mirrored
<1>5. CASE k \in {1, 2}
  <2>1. s \in Checks
    BY <1>5 DEF Checks
  <2>2. WritesOnly("none")
    BY <2>1, ChecksLeave
  <2>3. /\ disk'.cat = disk.cat /\ disk'.catArt = disk.catArt /\ disk'.up = disk.up
        /\ disk'.upArt = disk.upArt /\ disk'.compat = disk.compat /\ disk'.own = disk.own
    BY <2>2, LeavesRest
  <2>4. CatalogOwned(disk')
    BY <1>1, <1>5, <2>3 DEF CatalogOwned
  <2>5. k = 1 => broker'.up /\ broker'.serves = disk'.cat
    <3> SUFFICES ASSUME k = 1 PROVE broker'.up /\ broker'.serves = disk'.cat
      OBVIOUS
    <3>1. s = "prove" /\ Ready(mgr[m], s)
      BY DoFacts
    <3>2. Proven
      BY <3>1 DEF Ready
    <3>3. QED
      BY <2>3, <3>1, <3>2, BrokerStays DEF Proven
  <2>6. QED
    BY <1>1, <1>5, <2>3, <2>4, <2>5 DEF Mirrored
<1>6. QED
  BY <1>2, <1>3, <1>4, <1>5

LEMMA ImportSucceeds ==
  ASSUME ControlInv, OutcomeInv, SuccessInv, NEW m \in Manager, Do(m), Importing(mgr[m])
  PROVE  ImportSuccess(mgr[m])'
<1> DEFINE me == mgr[m]
           s == Head(mgr[m].todo)
           v == mgr[m].ver
<1>1. /\ me.todo # <<>> /\ v \in Versions /\ me.arg \in Imports \cup {0} /\ Ready(me, s)
      /\ Found(me) /\ Success(me) /\ lock = m
  BY DoFacts DEF ControlInv, ManagerTyped, OutcomeInv, SuccessInv
<1>2. ImportSuccess(me) /\ ImportFound(me)
  BY <1>1 DEF Success, Found
<1>3. PICK k \in 1..10 : Left(mgr[m]) = k /\ s = ImportSteps[10 - k + 1] /\ Len(Tail(me.todo)) = k - 1
  BY <1>1, OnEach DEF Importing, Stands
<1>4. Left(mgr[m])' = k - 1 /\ mgr'[m].ver = v
  BY <1>3, DoMoves DEF Left
<1>5. /\ k = 10 => s = "stop"
      /\ k = 9 => s = "review"
      /\ k = 8 => s = "importUp"
      /\ k = 7 => s = "importCat"
      /\ k = 6 => s = "note"
      /\ k = 5 => s = "mirrorCat"
      /\ k = 4 => s = "mirrorUp"
      /\ k = 3 => s = "ownCat"
      /\ k = 2 => s = "start"
      /\ k = 1 => s = "prove"
  BY <1>3, ImportTable
<1>6. s \in {"stop", "review", "importUp", "importCat", "note", "mirrorCat", "mirrorUp", "ownCat",
             "start", "prove"}
  BY <1>5
<1>7. disk'.own.ver = v
  <2>1. disk'.own.ver = disk.own.ver
    BY <1>6, OtherWrites DEF Restores
  <2>2. QED
    BY <1>2, <2>1 DEF ImportSuccess
<1>8. k - 1 <= 8 => Writer(mgr'[m].before.cat) = v
  <2> SUFFICES ASSUME k <= 9 PROVE Writer(mgr'[m].before.cat) = v
    OBVIOUS
  <2>1. s # "stop"
    BY <1>5
  <2>2. mgr'[m].before = me.before
    BY <2>1, DoMoves
  <2>3. Writer(me.before.cat) = v
    <3>1. CASE k = 9
      <4>1. Valid(v, disk)
        BY <1>1, <1>5, <3>1 DEF Ready
      <4>2. me.stage = "stopped"
        BY <1>3, <3>1 DEF Importing
      <4>3. disk.cat = me.before.cat
        BY <1>2, <4>2 DEF ImportFound, AsFound, Owned, Config
      <4>4. QED
        BY <4>1, <4>3 DEF Valid
    <3>2. CASE k <= 8
      BY <1>2, <1>3, <3>2 DEF ImportSuccess
    <3>3. QED
      BY <3>1, <3>2
  <2>4. QED
    BY <2>2, <2>3
<1>9. k - 1 <= 6 => Writer(disk'.cat) = v
  <2> SUFFICES ASSUME k <= 7 PROVE Writer(disk'.cat) = v
    OBVIOUS
  <2>1. CASE k = 7
    <3>1. disk'.cat = Contract(v, me.arg)
      BY <1>5, <2>1, OwnCatWrites
    <3>2. QED
      BY <1>1, <3>1, Writers
  <2>2. CASE k \in 1..6
    <3>1. PICK f : WritesOnly(f) /\ f # "cat"
      <4>1. s \in {"start", "prove"} => WritesOnly("none")
        BY ChecksLeave DEF Checks
      <4>2. s \in {"note", "mirrorCat", "mirrorUp", "ownCat", "start", "prove"}
        BY <1>5, <2>2
      <4>3. QED
        BY <4>1, <4>2, CatalogWrites
    <3>2. disk'.cat = disk.cat
      BY <3>1, LeavesRest
    <3>3. Writer(disk.cat) = v
      BY <1>2, <1>3, <2>2 DEF ImportSuccess
    <3>4. QED
      BY <3>2, <3>3
  <2>3. QED
    BY <2>1, <2>2
<1>10. Mirrored(mgr[m])'
  <2>1. CASE k \in 1..5
    BY <1>2, <1>3, <1>4, <1>5, <2>1, MirrorsFollow DEF ImportSuccess
  <2>2. CASE k \in 6..10
    BY <1>4, <2>2 DEF Mirrored
  <2>3. QED
    BY <2>1, <2>2
<1>11. QED
  BY <1>4, <1>7, <1>8, <1>9, <1>10 DEF ImportSuccess

LEMMA BackSucceeds ==
  ASSUME ControlInv, SuccessInv, NEW m \in Manager, Do(m), RestoringImport(mgr[m])
  PROVE  BackSuccess(mgr[m])'
<1> DEFINE me == mgr[m]
           s == Head(mgr[m].todo)
           v == mgr[m].ver
<1>1. /\ me.todo # <<>> /\ v \in Versions /\ Success(me) /\ lock = m /\ Moved(m)
      /\ me.cmd = "catalog_rollback"
  BY DoFacts DEF ControlInv, ManagerTyped, SuccessInv, RestoringImport
<1>2. BackSuccess(me) /\ DiskSound(me.before)
  BY <1>1 DEF Success
<1>3. PICK k \in 1..9 : Left(mgr[m]) = k /\ s = CatalogBackSteps[9 - k + 1] /\ Len(Tail(me.todo)) = k - 1
  BY <1>1, OnEach DEF RestoringImport, Stands
<1>4. Left(mgr[m])' = k - 1 /\ mgr'[m].ver = v
  BY <1>3, DoMoves DEF Left
<1>5. /\ k = 9 => s = "stop"
      /\ k = 8 => s = "match"
      /\ k = 7 => s = "backUp"
      /\ k = 6 => s = "backCat"
      /\ k = 5 => s = "mirrorCat"
      /\ k = 4 => s = "mirrorUp"
      /\ k = 3 => s = "ownCat"
      /\ k = 2 => s = "start"
      /\ k = 1 => s = "prove"
  BY <1>3, CatalogBackTable
<1>6. s \in {"stop", "match", "backUp", "backCat", "mirrorCat", "mirrorUp", "ownCat", "start", "prove"}
  BY <1>5
<1>7. disk'.own.ver = v
  <2>1. disk'.own.ver = disk.own.ver
    BY <1>6, OtherWrites DEF Restores
  <2>2. QED
    BY <1>2, <2>1 DEF BackSuccess
<1>8. Writer(mgr'[m].before.cat) = v \/ mgr'[m].before.cat = Junk
  <2>1. CASE k = 9
    <3>1. me.stage = "plain" /\ s = "stop"
      BY <1>3, <1>5, <2>1 DEF RestoringImport
    <3>2. mgr'[m].before = disk
      BY <1>1, <3>1 DEF Moved
    <3>3. QED
      BY <1>2, <1>3, <2>1, <3>2 DEF BackSuccess
  <2>2. CASE k \in 1..8
    <3>1. s # "stop"
      BY <1>5, <2>2
    <3>2. mgr'[m].before = me.before
      BY <3>1, DoMoves
    <3>3. QED
      BY <1>2, <1>3, <2>2, <3>2 DEF BackSuccess
  <2>3. QED
    BY <2>1, <2>2
<1>9. k - 1 <= 5 => Writer(disk'.cat) = v
  <2> SUFFICES ASSUME k <= 6 PROVE Writer(disk'.cat) = v
    OBVIOUS
  <2>1. CASE k = 6
    <3> DEFINE e == CHOOSE e \in Matching(me.before) : TRUE
    <3>1. Matching(me.before) # {}
      BY <1>3, <2>1 DEF RestoringImport
    <3>2. e \in me.before.imports /\ e[3] = me.before.cat
      <4>1. e \in Matching(me.before)
        BY <3>1
      <4> HIDE DEF e
      <4>2. QED
        BY <4>1 DEF Matching
    <3>3. disk'.cat = e[1]
      <4>1. Patch(me, s) = [cat |-> e[1]]
        BY <1>5, <2>1, BackPatches
      <4>2. "cat" \in Fields
        BY DEF Fields, Owned, Config
      <4> HIDE DEF e
      <4>3. QED
        BY <4>1, <4>2, DoFacts DEF Wrote, ControlInv, DiskTyped
    <3> HIDE DEF e
    <3>4. Writer(e[1]) = Writer(me.before.cat) /\ Writer(me.before.cat) # 0
      BY <1>2, <3>2 DEF DiskSound, ImportsSound
    <3>5. Writer(me.before.cat) = v
      BY <1>2, <1>3, <2>1, <3>4, Writers DEF BackSuccess
    <3>6. QED
      BY <3>3, <3>4, <3>5
  <2>2. CASE k \in 1..5
    <3>1. PICK f : WritesOnly(f) /\ f # "cat"
      <4>1. s \in {"start", "prove"} => WritesOnly("none")
        BY ChecksLeave DEF Checks
      <4>2. s \in {"mirrorCat", "mirrorUp", "ownCat", "start", "prove"}
        BY <1>5, <2>2
      <4>3. QED
        BY <4>1, <4>2, CatalogWrites
    <3>2. disk'.cat = disk.cat
      BY <3>1, LeavesRest
    <3>3. Writer(disk.cat) = v
      BY <1>2, <1>3, <2>2 DEF BackSuccess
    <3>4. QED
      BY <3>2, <3>3
  <2>3. QED
    BY <2>1, <2>2
<1>10. Mirrored(mgr[m])'
  <2>1. CASE k \in 1..5
    BY <1>2, <1>3, <1>4, <1>5, <2>1, MirrorsFollow DEF BackSuccess
  <2>2. CASE k \in 6..9
    BY <1>4, <2>2 DEF Mirrored
  <2>3. QED
    BY <2>1, <2>2
<1>11. k - 1 # 9
  OBVIOUS
<1>12. QED
  BY <1>4, <1>7, <1>8, <1>9, <1>10, <1>11 DEF BackSuccess

LEMMA UninstallSucceeds ==
  ASSUME ControlInv, SuccessInv, NEW m \in Manager, Do(m), Uninstalling(mgr[m])
  PROVE  UninstallSuccess(mgr[m])'
<1> DEFINE me == mgr[m]
           s == Head(mgr[m].todo)
<1>1. me.todo # <<>> /\ UninstallSuccess(me)
  BY DoFacts DEF SuccessInv, Success
<1>2. PICK k \in 1..4 : Left(mgr[m]) = k /\ s = UninstallSteps[4 - k + 1] /\ Len(Tail(me.todo)) = k - 1
  BY <1>1, OnEach DEF Uninstalling, Stands
<1>3. Left(mgr[m])' = k - 1
  BY <1>2, DoMoves DEF Left
<1>4. (k = 3 => s = "unblock") /\ (k = 2 => s = "unplug") /\ (k = 1 => s = "unroot")
  BY <1>2, UninstallTable
<1>5. \A p : Patch(me, s) = p => \A f \in Fields : disk'[f] = IF f \in DOMAIN p THEN p[f] ELSE disk[f]
  BY DoFacts DEF Wrote, ControlInv, DiskTyped
<1>6. "block" \in Fields
  BY DEF Fields, Owned
<1>7. k = 3 => disk'.block = 0
  BY <1>4, <1>5, <1>6, RemovePatches
<1>8. k = 2 => disk'.block = disk.block
  <2>1. k = 2 => Patch(me, s) = [plugin |-> 0]
    BY <1>4, RemovePatches
  <2>2. QED
    BY <1>5, <1>6, <2>1
<1>9. k = 1 => disk'.block = disk.block /\ disk'.own.ver = 0
  BY <1>4, OtherWrites DEF Restores
<1>10. k <= 2 => disk.block = 0
  BY <1>1, <1>2 DEF UninstallSuccess
<1>11. QED
  BY <1>3, <1>7, <1>8, <1>9, <1>10 DEF UninstallSuccess

LEMMA DoSuccess ==
  ASSUME ControlInv, JournalInv, OutcomeInv, SuccessInv, NEW m \in Manager, Do(m)
  PROVE  SuccessInv'
<1> DEFINE me == mgr[m]
<1>1. lock = m /\ lock' = lock /\ Moved(m) /\ Working(me) /\ Success(me) /\ DiskSound(disk)
  BY DoFacts DEF SuccessInv, Noted
<1>2. mgr'[m].cmd = me.cmd /\ mgr'[m].saw = me.saw /\ (me.stage = "undoing" <=> mgr'[m].stage = "undoing")
  <2>1. mgr'[m].stage = StageAfter(me, Head(me.todo))
    BY <1>1 DEF Moved
  <2>2. me.stage = "undoing" <=> mgr'[m].stage = "undoing"
    BY <2>1 DEF StageAfter
  <2>3. QED
    BY <1>1, <2>2 DEF Moved
<1>3. me.cmd \in {"import", "catalog_rollback"} => DiskSound(mgr'[m].before)
  <2>1. mgr'[m].before \in {disk, me.before}
    BY <1>1 DEF Moved
  <2>2. QED
    BY <1>1, <2>1 DEF Success
<1>4. Success(mgr[m])'
  <2>1. Updating(mgr[m])' => UpdateSuccess(mgr[m])'
    <3> SUFFICES ASSUME me.cmd = "update", me.stage # "undoing" PROVE UpdateSuccess(mgr[m])'
      BY <1>2 DEF Updating
    <3>1. Updating(me)
      BY <1>1, OneProgram DEF Working
    <3>2. QED
      BY <3>1, UpdateSucceeds
  <2>2. RollingBack(mgr[m])' => RollbackSuccess(mgr[m])'
    <3> SUFFICES ASSUME me.cmd = "rollback", me.stage # "undoing" PROVE RollbackSuccess(mgr[m])'
      BY <1>2 DEF RollingBack
    <3>1. RollingBack(me)
      BY <1>1, OneProgram DEF Working
    <3>2. QED
      BY <3>1, RollbackSucceeds
  <2>3. Recovering(mgr[m])' => RecoverSuccess(mgr[m])'
    <3> SUFFICES ASSUME me.cmd = "repair", me.saw, me.stage # "undoing"
                 PROVE  RecoverSuccess(mgr[m])'
      BY <1>2 DEF Recovering
    <3>1. Recovering(me)
      BY <1>1, OneProgram DEF Working, Installing, Uninstalling
    <3>2. QED
      BY <3>1, RecoverSucceeds
  <2>4. Installing(mgr[m])' => InstallSuccess(mgr[m])'
    <3> SUFFICES ASSUME me.cmd \in {"install", "repair"}, ~me.saw, me.stage # "undoing"
                 PROVE  InstallSuccess(mgr[m])'
      BY <1>2 DEF Installing
    <3>1. Installing(me)
      BY <1>1, OneProgram DEF Working, Recovering, Uninstalling
    <3>2. QED
      BY <3>1, InstallSucceeds
  <2>5. Importing(mgr[m])' => ImportSuccess(mgr[m])'
    <3> SUFFICES ASSUME me.cmd = "import", me.stage # "undoing" PROVE ImportSuccess(mgr[m])'
      BY <1>2 DEF Importing
    <3>1. Importing(me)
      BY <1>1, OneProgram DEF Working
    <3>2. QED
      BY <3>1, ImportSucceeds
  <2>6. RestoringImport(mgr[m])' => BackSuccess(mgr[m])'
    <3> SUFFICES ASSUME me.cmd = "catalog_rollback", me.stage # "undoing" PROVE BackSuccess(mgr[m])'
      BY <1>2 DEF RestoringImport
    <3>1. RestoringImport(me)
      BY <1>1, OneProgram DEF Working
    <3>2. QED
      BY <3>1, BackSucceeds
  <2>7. Uninstalling(mgr[m])' => UninstallSuccess(mgr[m])'
    <3> SUFFICES ASSUME me.cmd = "uninstall", me.stage # "undoing" PROVE UninstallSuccess(mgr[m])'
      BY <1>2 DEF Uninstalling
    <3>1. Uninstalling(me)
      BY <1>1, OneProgram DEF Working, Recovering, Installing
    <3>2. QED
      BY <3>1, UninstallSucceeds
  <2>8. (mgr[m].cmd \in {"import", "catalog_rollback"} => DiskSound(mgr[m].before))'
    BY <1>2, <1>3
  <2>9. QED
    BY <2>1, <2>2, <2>3, <2>4, <2>5, <2>6, <2>7, <2>8 DEF Success
<1>5. ASSUME NEW o \in Manager, lock' = o PROVE Success(mgr[o])'
  <2>1. o = m
    BY <1>1, <1>5
  <2>2. QED
    BY <1>4, <2>1
<1>6. DiskSound(disk)' /\ \A n \in 1..Len(snaps') : DiskSound(snaps'[n])
  BY DoSound, DoSnapsSound
<1>7. QED
  BY <1>5, <1>6 DEF SuccessInv

-----------------------------------------------------------------------------
(* What commands achieve, when one ends, turns back or begins              *)

LEMMA SuccessStays ==
  ASSUME NEW m, mgr'[m] = mgr[m], disk' = disk, snaps' = snaps, mark' = mark, Success(mgr[m]),
         broker.up /\ broker.serves = disk.cat => broker'.up /\ broker'.serves = disk.cat
  PROVE  Success(mgr[m])'
<1>1. /\ Updating(mgr[m])' = Updating(mgr[m]) /\ RollingBack(mgr[m])' = RollingBack(mgr[m])
      /\ Recovering(mgr[m])' = Recovering(mgr[m]) /\ Installing(mgr[m])' = Installing(mgr[m])
      /\ Importing(mgr[m])' = Importing(mgr[m]) /\ Uninstalling(mgr[m])' = Uninstalling(mgr[m])
      /\ RestoringImport(mgr[m])' = RestoringImport(mgr[m])
  BY DEF Updating, RollingBack, Recovering, Installing, Importing, RestoringImport, On, Left,
         Pending, Snap, SameCatalog, Uninstalling
<1>2. /\ UpdateSuccess(mgr[m])' = UpdateSuccess(mgr[m])
      /\ RollbackSuccess(mgr[m])' = RollbackSuccess(mgr[m])
      /\ RecoverSuccess(mgr[m])' = RecoverSuccess(mgr[m])
      /\ UninstallSuccess(mgr[m])' = UninstallSuccess(mgr[m])
  BY DEF UpdateSuccess, RollbackSuccess, RecoverSuccess, UninstallSuccess, Left
<1>3. InstallSuccess(mgr[m])' = InstallSuccess(mgr[m])
  BY DEF InstallSuccess, Left, Kept
<1>4. Mirrored(mgr[m]) => Mirrored(mgr[m])'
  BY DEF Mirrored, Left
<1>5. /\ ImportSuccess(mgr[m]) => ImportSuccess(mgr[m])'
      /\ BackSuccess(mgr[m]) => BackSuccess(mgr[m])'
  BY <1>4 DEF ImportSuccess, BackSuccess, Left
<1>6. QED
  BY <1>1, <1>2, <1>3, <1>5 DEF Success

LEMMA EndSuccess ==
  ASSUME ControlInv, SuccessInv, NEW m \in Manager, End(m), disk' = disk, snaps' = snaps
  PROVE  SuccessInv'
<1>1. \A o \in Manager : lock' # o
  BY ReleaseAssumption DEF End
<1>2. QED
  BY <1>1 DEF SuccessInv

LEMMA AsideSuccess ==
  ASSUME ControlInv, SuccessInv, NEW m \in Manager, mgr[m].pc # "run", lock' = lock,
         \A o \in Manager \ {m} : mgr'[o] = mgr[o],
         disk' = disk, snaps' = snaps, mark' = mark, broker' = broker
  PROVE  SuccessInv'
<1>1. lock # m
  BY DEF ControlInv, ManagerTyped
<1>2. ASSUME NEW o \in Manager \ {m}, lock' = o PROVE Success(mgr[o])'
  BY <1>2, SuccessStays DEF SuccessInv
<1>3. QED
  BY <1>1, <1>2 DEF SuccessInv

LEMMA BreakSuccess ==
  ASSUME ControlInv, SuccessInv, NEW m \in Manager, Break(m), mgr[m].pc = "run"
  PROVE  SuccessInv'
<1> DEFINE me == mgr[m]
<1>1. lock = m /\ disk' = disk /\ snaps' = snaps
  BY DEF ControlInv, ManagerTyped, Break
<1>2. CASE me.stage = "undoing" \/ Undo(me) = <<>>
  BY <1>1, <1>2, EndSuccess DEF Break
<1>3. CASE ~(me.stage = "undoing" \/ Undo(me) = <<>>)
  <2>1. /\ lock' = m /\ mgr'[m].stage = "undoing" /\ mgr'[m].cmd = me.cmd
        /\ mgr'[m].before = me.before
    BY <1>1, <1>3, BreakTurns DEF TurnsBack
  <2>2. /\ ~Updating(mgr[m])' /\ ~RollingBack(mgr[m])' /\ ~Importing(mgr[m])' /\ ~RestoringImport(mgr[m])'
        /\ ~Recovering(mgr[m])' /\ ~Installing(mgr[m])' /\ ~Uninstalling(mgr[m])'
    BY <2>1 DEF Updating, RollingBack, Recovering, Installing, Importing, RestoringImport, Uninstalling
  <2>3. (mgr[m].cmd \in {"import", "catalog_rollback"} => DiskSound(mgr[m].before))'
    BY <1>1, <2>1 DEF SuccessInv, Success
  <2>4. Success(mgr[m])'
    BY <2>2, <2>3 DEF Success
  <2>5. QED
    BY <1>1, <2>1, <2>4 DEF SuccessInv
<1>4. QED
  BY <1>2, <1>3

LEMMA LockSuccess ==
  ASSUME ControlInv, SuccessInv, NEW m \in Manager, Lock(m)
  PROVE  SuccessInv'
<1> DEFINE me == mgr[m]
<1>1. /\ me.pc = "ask" /\ disk' = disk /\ snaps' = snaps /\ mark' = mark /\ broker' = broker
  BY DEF Lock
<1>2. CASE Admitted(mgr[m])
  <2>1. /\ lock' = m /\ mgr'[m].stage = "plain" /\ mgr'[m].before = disk /\ mgr'[m].cmd = me.cmd
        /\ me.cmd # "rollback" => mgr'[m].ver = me.ver
    BY <1>2, LockTakes DEF TakesLock
  <2>2. Updating(mgr[m])' => UpdateSuccess(mgr[m])'
    <3> SUFFICES ASSUME Updating(mgr[m])' PROVE UpdateSuccess(mgr[m])'
      OBVIOUS
    <3>1. Left(mgr[m])' \in {19, 20}
      BY <2>1 DEF Updating
    <3>2. QED
      BY <3>1 DEF UpdateSuccess
  <2>3. RollingBack(mgr[m])' => RollbackSuccess(mgr[m])'
    BY <2>1 DEF RollingBack, RollbackSuccess
  <2>4. ASSUME Recovering(mgr[m])' \/ Installing(mgr[m])'
        PROVE  Left(mgr[m])' >= 12 /\ Left(mgr[m])' \in Nat
    <3>1. Left(mgr[m])' >= 12
      BY <2>1, <2>4 DEF Recovering, Installing
    <3>2. mgr'[m].todo \in Seq(Steps)
      BY <2>4 DEF Recovering, Installing, On, IsLeft
    <3>3. Left(mgr[m])' \in Nat
      BY <3>2 DEF Left
    <3>4. QED
      BY <3>1, <3>3
  <2>5. Recovering(mgr[m])' => RecoverSuccess(mgr[m])'
    BY <2>4 DEF RecoverSuccess
  <2>6. Installing(mgr[m])' => InstallSuccess(mgr[m])'
    BY <2>4 DEF InstallSuccess
  <2>7. Importing(mgr[m])' => ImportSuccess(mgr[m])'
    <3> SUFFICES ASSUME Importing(mgr[m])' PROVE ImportSuccess(mgr[m])'
      OBVIOUS
    <3>1. Left(mgr[m])' = 10 /\ me.cmd = "import"
      BY <2>1 DEF Importing
    <3>2. disk'.own.ver = mgr'[m].ver
      BY <1>1, <1>2, <2>1, <3>1 DEF Admitted
    <3>3. QED
      BY <3>1, <3>2 DEF ImportSuccess, Mirrored
  <2>8. RestoringImport(mgr[m])' => BackSuccess(mgr[m])'
    <3> SUFFICES ASSUME RestoringImport(mgr[m])' PROVE BackSuccess(mgr[m])'
      OBVIOUS
    <3>1. Left(mgr[m])' = 9 /\ me.cmd = "catalog_rollback"
      BY <2>1 DEF RestoringImport
    <3>2. disk'.own.ver = mgr'[m].ver /\ Writer(disk'.cat) = mgr'[m].ver
      BY <1>1, <1>2, <2>1, <3>1 DEF Admitted, Valid
    <3>3. QED
      BY <3>1, <3>2 DEF BackSuccess, Mirrored
  <2>9. Uninstalling(mgr[m])' => UninstallSuccess(mgr[m])'
    <3> SUFFICES ASSUME Uninstalling(mgr[m])' PROVE UninstallSuccess(mgr[m])'
      OBVIOUS
    <3>1. Left(mgr[m])' >= 3 /\ Left(mgr[m])' \in Nat
      BY <2>1 DEF Uninstalling, On, IsLeft, Left
    <3>2. QED
      BY <3>1 DEF UninstallSuccess
  <2>10. DiskSound(mgr'[m].before)
    BY <2>1 DEF SuccessInv
  <2>11. Success(mgr[m])'
    BY <2>2, <2>3, <2>5, <2>6, <2>7, <2>8, <2>9, <2>10 DEF Success
  <2>12. QED
    BY <1>1, <2>1, <2>11 DEF SuccessInv
<1>3. CASE ~Admitted(mgr[m])
  <2>1. lock' = lock /\ mgr' = [mgr EXCEPT ![m] = Idle]
    BY <1>3 DEF Lock
  <2>2. mgr'[m] = Idle /\ \A o \in Manager \ {m} : mgr'[o] = mgr[o]
    BY <2>1 DEF ControlInv
  <2>3. QED
    BY <1>1, <2>1, <2>2, AsideSuccess
<1>4. QED
  BY <1>2, <1>3

LEMMA AskSuccess ==
  ASSUME ControlInv, SuccessInv, NEW m \in Manager, NEW c \in Commands[m], NEW v \in Versions,
         NEW a \in Imports \cup {0}, Ask(m, c, v, a)
  PROVE  SuccessInv'
<1>1. /\ mgr[m].pc # "run" /\ lock' = lock /\ disk' = disk /\ snaps' = snaps /\ mark' = mark
      /\ broker' = broker /\ \A o \in Manager \ {m} : mgr'[o] = mgr[o]
  BY DEF Ask, ControlInv
<1>2. QED
  BY <1>1, AsideSuccess

LEMMA LockTakenSuccess ==
  ASSUME ControlInv, SuccessInv, NEW m \in Manager, LockTaken(m)
  PROVE  SuccessInv'
<1>1. /\ mgr[m].pc # "run" /\ lock' = lock /\ disk' = disk /\ snaps' = snaps /\ mark' = mark
      /\ broker' = broker /\ \A o \in Manager \ {m} : mgr'[o] = mgr[o]
  BY DEF LockTaken, ControlInv
<1>2. QED
  BY <1>1, AsideSuccess

-----------------------------------------------------------------------------
(* What commands achieve, beside users, clients and the broker             *)

(* Only the commands that have written nothing yet wait in a stop.         *)
LEMMA StopsAt ==
  ASSUME NEW me, me.todo # <<>>, Head(me.todo) \in {"stop", "stopPrior"}
  PROVE  /\ On(me, UpdateSteps) => Left(me) = 17
         /\ On(me, RollbackSteps) => Left(me) = 14
         /\ On(me, RecoverSteps) => Left(me) = 13
         /\ On(me, StopInstall) => Left(me) = 13
         /\ On(me, ImportSteps) => Left(me) = 10
         /\ On(me, CatalogBackSteps) => Left(me) = 9
         /\ On(me, UninstallSteps) => Left(me) = 4
<1> DEFINE Stops == {"stop", "stopPrior"}
           s == Head(me.todo)
<1>1. ASSUME On(me, UpdateSteps) PROVE Left(me) = 17
  <2>1. PICK k \in 1..20 : Left(me) = k /\ s = UpdateSteps[20 - k + 1]
    BY <1>1, OnEach DEF Stands
  <2>2. \A j \in 1..20 : UpdateSteps[j] \in Stops => j = 4
    BY UpdateTable
  <2>3. 20 - k + 1 \in 1..20 /\ (20 - k + 1 = 4 => k = 17)
    OBVIOUS
  <2>4. QED
    BY <2>1, <2>2, <2>3
<1>2. ASSUME On(me, RollbackSteps) PROVE Left(me) = 14
  <2>1. PICK k \in 1..16 : Left(me) = k /\ s = RollbackSteps[16 - k + 1]
    BY <1>2, OnEach DEF Stands
  <2>2. \A j \in 1..16 : RollbackSteps[j] \in Stops => j = 3
    BY RollbackTable
  <2>3. 16 - k + 1 \in 1..16 /\ (16 - k + 1 = 3 => k = 14)
    OBVIOUS
  <2>4. QED
    BY <2>1, <2>2, <2>3
<1>3. ASSUME On(me, RecoverSteps) PROVE Left(me) = 13
  <2>1. PICK k \in 1..13 : Left(me) = k /\ s = RecoverSteps[13 - k + 1]
    BY <1>3, OnEach DEF Stands
  <2>2. \A j \in 1..13 : RecoverSteps[j] \in Stops => j = 1
    BY RecoverTable
  <2>3. 13 - k + 1 \in 1..13 /\ (13 - k + 1 = 1 => k = 13)
    OBVIOUS
  <2>4. QED
    BY <2>1, <2>2, <2>3
<1>4. ASSUME On(me, StopInstall) PROVE Left(me) = 13
  <2>1. PICK k \in 1..13 : Left(me) = k /\ s = StopInstall[13 - k + 1]
    BY <1>4, OnEach DEF Stands
  <2>2. \A j \in 1..13 : StopInstall[j] \in Stops => j = 1
    BY InstallTable
  <2>3. 13 - k + 1 \in 1..13 /\ (13 - k + 1 = 1 => k = 13)
    OBVIOUS
  <2>4. QED
    BY <2>1, <2>2, <2>3
<1>5. ASSUME On(me, ImportSteps) PROVE Left(me) = 10
  <2>1. PICK k \in 1..10 : Left(me) = k /\ s = ImportSteps[10 - k + 1]
    BY <1>5, OnEach DEF Stands
  <2>2. \A j \in 1..10 : ImportSteps[j] \in Stops => j = 1
    BY ImportTable
  <2>3. 10 - k + 1 \in 1..10 /\ (10 - k + 1 = 1 => k = 10)
    OBVIOUS
  <2>4. QED
    BY <2>1, <2>2, <2>3
<1>6. ASSUME On(me, CatalogBackSteps) PROVE Left(me) = 9
  <2>1. PICK k \in 1..9 : Left(me) = k /\ s = CatalogBackSteps[9 - k + 1]
    BY <1>6, OnEach DEF Stands
  <2>2. \A j \in 1..9 : CatalogBackSteps[j] \in Stops => j = 1
    BY CatalogBackTable
  <2>3. 9 - k + 1 \in 1..9 /\ (9 - k + 1 = 1 => k = 9)
    OBVIOUS
  <2>4. QED
    BY <2>1, <2>2, <2>3
<1>7. ASSUME On(me, UninstallSteps) PROVE Left(me) = 4
  <2>1. PICK k \in 1..4 : Left(me) = k /\ s = UninstallSteps[4 - k + 1]
    BY <1>7, OnEach DEF Stands
  <2>2. \A j \in 1..4 : UninstallSteps[j] \in Stops => j = 1
    BY UninstallTable
  <2>3. 4 - k + 1 \in 1..4 /\ (4 - k + 1 = 1 => k = 4)
    OBVIOUS
  <2>4. QED
    BY <2>1, <2>2, <2>3
<1>8. QED
  BY <1>1, <1>2, <1>3, <1>4, <1>5, <1>6, <1>7

LEMMA TouchedSuccess ==
  ASSUME ControlInv, SuccessInv, Editable, Touched,
         snaps' = snaps, mark' = mark, lock' = lock, mgr' = mgr
  PROVE  SuccessInv'
<1>1. disk'.own = disk.own /\ disk'.imports = disk.imports /\ (disk'.cat = disk.cat \/ disk'.cat = Junk)
  BY DEF Touched, Fields, Edited, Owned, State, Config
<1>2. DiskSound(disk)' /\ \A n \in 1..Len(snaps') : DiskSound(snaps'[n])
  BY <1>1 DEF SuccessInv, DiskSound
<1>3. ASSUME NEW m \in Manager, lock = m PROVE Success(mgr[m])'
  <2> DEFINE me == mgr[m]
  <2>1. me.todo # <<>> /\ Head(me.todo) \in {"stop", "stopPrior"} /\ Success(me)
    BY <1>3, ReleaseAssumption DEF Editable, SuccessInv
  <2>2. Updating(mgr[m])' => UpdateSuccess(mgr[m])'
    <3> SUFFICES ASSUME Updating(mgr[m])' PROVE UpdateSuccess(mgr[m])'
      OBVIOUS
    <3>1. On(me, UpdateSteps)
      BY DEF Updating, On
    <3>2. Left(mgr[m])' = 17
      BY <2>1, <3>1, StopsAt DEF Left
    <3>3. QED
      BY <3>2 DEF UpdateSuccess
  <2>3. RollingBack(mgr[m])' => RollbackSuccess(mgr[m])'
    <3> SUFFICES ASSUME RollingBack(mgr[m])' PROVE RollbackSuccess(mgr[m])'
      OBVIOUS
    <3>1. On(me, RollbackSteps)
      BY DEF RollingBack, On
    <3>2. Left(mgr[m])' = 14
      BY <2>1, <3>1, StopsAt DEF Left
    <3>3. QED
      BY <3>2 DEF RollbackSuccess
  <2>4. Recovering(mgr[m])' => RecoverSuccess(mgr[m])'
    <3> SUFFICES ASSUME Recovering(mgr[m])' PROVE RecoverSuccess(mgr[m])'
      OBVIOUS
    <3>1. On(me, RecoverSteps)
      BY DEF Recovering, On
    <3>2. Left(mgr[m])' = 13
      BY <2>1, <3>1, StopsAt DEF Left
    <3>3. QED
      BY <3>2 DEF RecoverSuccess
  <2>5. Installing(mgr[m])' => InstallSuccess(mgr[m])'
    <3> SUFFICES ASSUME Installing(mgr[m])' PROVE InstallSuccess(mgr[m])'
      OBVIOUS
    <3>1. On(me, StopInstall)
      BY DEF Installing, On
    <3>2. Left(mgr[m])' = 13
      BY <2>1, <3>1, StopsAt DEF Left
    <3>3. QED
      BY <3>2 DEF InstallSuccess
  <2>6. Importing(mgr[m])' => ImportSuccess(mgr[m])'
    <3> SUFFICES ASSUME Importing(me) PROVE ImportSuccess(mgr[m])'
      BY DEF Importing, On, Left
    <3>1. On(me, ImportSteps) /\ ImportSuccess(me)
      BY <2>1 DEF Importing, Success
    <3>2. Left(mgr[m])' = 10
      BY <2>1, <3>1, StopsAt DEF Left
    <3>3. QED
      BY <1>1, <3>1, <3>2 DEF ImportSuccess, Mirrored
  <2>7. RestoringImport(mgr[m])' => BackSuccess(mgr[m])'
    <3> SUFFICES ASSUME RestoringImport(mgr[m])' PROVE BackSuccess(mgr[m])'
      OBVIOUS
    <3>1. On(me, CatalogBackSteps)
      BY DEF RestoringImport, On
    <3>2. Left(mgr[m])' = 9 /\ Left(me) = 9
      BY <2>1, <3>1, StopsAt DEF Left
    <3>3. RestoringImport(me)
      BY <3>2 DEF RestoringImport, On, Left
    <3>4. BackSuccess(me)
      BY <2>1, <3>3 DEF Success
    <3>5. QED
      BY <1>1, <3>2, <3>4 DEF BackSuccess, Mirrored
  <2>8. Uninstalling(mgr[m])' => UninstallSuccess(mgr[m])'
    <3> SUFFICES ASSUME Uninstalling(mgr[m])' PROVE UninstallSuccess(mgr[m])'
      OBVIOUS
    <3>1. On(me, UninstallSteps)
      BY DEF Uninstalling, On
    <3>2. Left(mgr[m])' = 4
      BY <2>1, <3>1, StopsAt DEF Left
    <3>3. QED
      BY <3>2 DEF UninstallSuccess
  <2>9. (mgr[m].cmd \in {"import", "catalog_rollback"} => DiskSound(mgr[m].before))'
    BY <2>1 DEF Success
  <2>10. QED
    BY <2>2, <2>3, <2>4, <2>5, <2>6, <2>7, <2>8, <2>9 DEF Success
<1>4. QED
  BY <1>2, <1>3 DEF SuccessInv

LEMMA DriftSuccess ==
  ASSUME ControlInv, SuccessInv, NEW f \in {"cat", "plugin"}, Drift(f)
  PROVE  SuccessInv'
<1>1. /\ snaps' = snaps /\ mark' = mark /\ lock' = lock /\ mgr' = mgr
      /\ disk' = [disk EXCEPT ![f] = Junk] /\ Editable
  BY DEF Drift
<1>2. disk'[f] = Junk /\ \A g \in Fields \ {f} : disk'[g] = disk[g]
  BY <1>1 DEF ControlInv, DiskTyped, Fields, Owned, Config
<1>3. Touched
  BY <1>2 DEF Touched, Edited, Fields, Owned, Config
<1>4. QED
  BY <1>1, <1>3, TouchedSuccess

LEMMA DamageSuccess ==
  ASSUME ControlInv, SuccessInv, NEW v \in Versions, Damage(v)
  PROVE  SuccessInv'
<1>1. /\ snaps' = snaps /\ mark' = mark /\ lock' = lock /\ mgr' = mgr
      /\ disk' = [disk EXCEPT !.retained = @ \ {v}] /\ Editable
  BY DEF Damage
<1>2. \A g \in Fields \ {"retained"} : disk'[g] = disk[g]
  BY <1>1 DEF ControlInv, DiskTyped
<1>3. Touched
  BY <1>2 DEF Touched, Edited, Fields, Owned, Config
<1>4. QED
  BY <1>1, <1>3, TouchedSuccess

(* A broker that serves the installed catalog is left to serve it.         *)
LEMMA BrokerSuccess ==
  ASSUME ControlInv, SuccessInv, disk' = disk, snaps' = snaps, mark' = mark, lock' = lock, mgr' = mgr,
         \/ broker' = broker
         \/ ClientStart
         \/ BrokerWorks
         \/ BrokerRests
  PROVE  SuccessInv'
<1>1. broker.up /\ broker.serves = disk.cat => broker'.up /\ broker'.serves = disk.cat
  <2>1. CASE ClientStart
    BY <2>1 DEF ClientStart, Started
  <2>2. CASE BrokerWorks \/ BrokerRests
    <3>1. broker' = [broker EXCEPT !.busy = TRUE] \/ broker' = [broker EXCEPT !.busy = FALSE]
      BY <2>2 DEF BrokerWorks, BrokerRests
    <3>2. broker'.up = broker.up /\ broker'.serves = broker.serves
      BY <3>1 DEF ControlInv, BrokerTyped
    <3>3. QED
      BY <3>2
  <2>3. QED
    BY <2>1, <2>2
<1>2. ASSUME NEW m \in Manager, lock' = m PROVE Success(mgr[m])'
  <2>1. Success(mgr[m])
    BY <1>2 DEF SuccessInv
  <2>2. QED
    BY <1>1, <2>1, SuccessStays
<1>3. QED
  BY <1>2 DEF SuccessInv

-----------------------------------------------------------------------------
(* The theorems about success                                              *)

LEMMA InitSuccess == Init => SuccessInv
<1> SUFFICES ASSUME Init PROVE SuccessInv
  OBVIOUS
<1>1. \A m \in Manager : lock # m
  BY ReleaseAssumption DEF Init
<1>2. snaps = <<>>
  BY DEF Init
<1>3. PICK v \in First : disk = Installed(v)
  BY DEF Init
<1>4. DiskSound(disk)
  <2>1. CASE v = 0
    BY <1>3, <2>1 DEF Installed, Nothing, NoOwn, DiskSound, OwnSound, ImportsSound
  <2>2. CASE v # 0
    <3>1. v \in Versions
      BY <2>2, ReleaseAssumption
    <3>2. disk.own.cat = Packaged(v) /\ disk.own.ver = v /\ disk.own.plugin = v /\ disk.imports = {}
      BY <1>3, <2>2 DEF Installed, Nothing
    <3>3. QED
      BY <3>1, <3>2, Writers DEF DiskSound, OwnSound, ImportsSound
  <2>3. QED
    BY <2>1, <2>2
<1>5. QED
  BY <1>1, <1>2, <1>4 DEF SuccessInv

LEMMA NextSuccess ==
  ControlInv /\ JournalInv /\ OutcomeInv /\ SuccessInv /\ [Next]_vars => SuccessInv'
<1> SUFFICES ASSUME ControlInv, JournalInv, OutcomeInv, SuccessInv, [Next]_vars PROVE SuccessInv'
  OBVIOUS
<1>1. ASSUME NEW m \in Manager, NEW c \in Commands[m], NEW v \in Versions, NEW a \in Imports \cup {0},
             Ask(m, c, v, a)
      PROVE  SuccessInv'
  BY <1>1, AskSuccess
<1>2. ASSUME NEW m \in Manager, Lock(m) PROVE SuccessInv'
  BY <1>2, LockSuccess
<1>3. ASSUME NEW m \in Manager, LockTaken(m) PROVE SuccessInv'
  BY <1>3, LockTakenSuccess
<1>4. ASSUME NEW m \in Manager, Do(m) PROVE SuccessInv'
  BY <1>4, DoSuccess
<1>5. ASSUME NEW m \in Manager, Refuse(m) PROVE SuccessInv'
  BY <1>5, BreakSuccess DEF Refuse, Running
<1>6. ASSUME NEW m \in Manager, Finish(m) PROVE SuccessInv'
  BY <1>6, EndSuccess DEF Finish
<1>7. ASSUME NEW m \in Manager, Fail(m) PROVE SuccessInv'
  BY <1>7, BreakSuccess DEF Fail, Running
<1>8. ASSUME NEW m \in Manager, Crash(m) PROVE SuccessInv'
  BY <1>8, EndSuccess DEF Crash, End
<1>9. ASSUME NEW f \in {"cat", "plugin"}, Drift(f) PROVE SuccessInv'
  BY <1>9, DriftSuccess
<1>10. ASSUME NEW v \in Versions, Damage(v) PROVE SuccessInv'
  BY <1>10, DamageSuccess
<1>11. CASE ClientStart \/ BrokerWorks \/ BrokerRests
  BY <1>11, BrokerSuccess DEF ClientStart, BrokerWorks, BrokerRests
<1>12. CASE UNCHANGED vars
  BY <1>12, BrokerSuccess DEF vars
<1>13. QED
  BY <1>1, <1>2, <1>3, <1>4, <1>5, <1>6, <1>7, <1>8, <1>9, <1>10, <1>11, <1>12 DEF Next

(* A command that says it succeeded has come to the end of its program.    *)
LEMMA EndsWell ==
  ASSUME ControlInv, OutcomeInv, SuccessInv, NEW m \in Manager, Ends(m), Told(mgr[m]) = "ok"
  PROVE  /\ disk' = disk /\ broker' = broker /\ Left(mgr[m]) = 0 /\ Success(mgr[m])
         /\ Working(mgr[m]) /\ ~TakingBack(mgr[m])
<1>1. lock = m
  BY DEF Ends, Finish, Refuse, Fail, Running, ControlInv, ManagerTyped
<1>2. mgr[m].todo = <<>> /\ mgr[m].end = "ok"
  BY DEF Told
<1>3. Finish(m)
  BY <1>2 DEF Ends, Refuse, Fail
<1>4. ~TakingBack(mgr[m])
  <2>1. Says(mgr[m])
    BY <1>1 DEF OutcomeInv
  <2>2. QED
    BY <1>2, <2>1 DEF Says, TakingBack
<1>5. QED
  BY <1>1, <1>2, <1>3, <1>4 DEF Finish, Left, SuccessInv, ControlInv

LEMMA SuccessStep ==
  ControlInv /\ OutcomeInv /\ SuccessInv /\ [Next]_vars =>
    [\A m \in Manager : Ends(m) /\ Told(mgr[m]) = "ok" =>
       CASE mgr[m].cmd = "uninstall" -> disk'.own.ver = 0 /\ disk'.block = 0
         [] mgr[m].cmd \in {"import", "catalog_rollback"} ->
              CatalogOwned(disk') /\ broker'.serves = disk'.cat
         [] OTHER -> /\ Whole(disk'.own.ver, disk')
                     /\ mgr[m].cmd \in {"update", "rollback"} => disk'.own.ver = mgr[m].ver]_vars
<1> DEFINE Good(m) ==
      CASE mgr[m].cmd = "uninstall" -> disk'.own.ver = 0 /\ disk'.block = 0
        [] mgr[m].cmd \in {"import", "catalog_rollback"} ->
             CatalogOwned(disk') /\ broker'.serves = disk'.cat
        [] OTHER -> /\ Whole(disk'.own.ver, disk')
                    /\ mgr[m].cmd \in {"update", "rollback"} => disk'.own.ver = mgr[m].ver
<1> SUFFICES ASSUME ControlInv, OutcomeInv, SuccessInv, NEW m \in Manager, Ends(m),
                    Told(mgr[m]) = "ok"
             PROVE  Good(m)
  OBVIOUS
<1>1. /\ disk' = disk /\ broker' = broker /\ Left(mgr[m]) = 0 /\ Success(mgr[m])
      /\ Working(mgr[m]) /\ ~TakingBack(mgr[m])
  BY EndsWell
<1>2. \A v : Whole(v, disk) => disk.own.ver = v
  BY DEF Whole, Intact
<1>3. CASE mgr[m].cmd = "uninstall"
  <2>1. Uninstalling(mgr[m])
    BY <1>1, <1>3, OneProgram DEF Working, Recovering, Installing
  <2>2. UninstallSuccess(mgr[m])
    BY <1>1, <2>1 DEF Success
  <2>3. disk'.own.ver = 0 /\ disk'.block = 0
    BY <1>1, <2>2 DEF UninstallSuccess
  <2>4. QED
    BY <1>3, <2>3
<1>4. CASE mgr[m].cmd \in {"import", "catalog_rollback"}
  <2>1. Importing(mgr[m]) \/ RestoringImport(mgr[m])
    BY <1>1, <1>4, OneProgram DEF Working
  <2>2. Mirrored(mgr[m])
    BY <1>1, <2>1 DEF Success, ImportSuccess, BackSuccess
  <2>3. CatalogOwned(disk') /\ broker'.serves = disk'.cat
    BY <1>1, <2>2 DEF Mirrored
  <2>4. QED
    BY <1>4, <2>3
<1>5. CASE mgr[m].cmd \notin {"uninstall", "import", "catalog_rollback"}
  <2>1. Updating(mgr[m]) \/ RollingBack(mgr[m]) \/ Recovering(mgr[m]) \/ Installing(mgr[m])
    BY <1>1, <1>5, OneProgram DEF Working, Uninstalling
  <2>2. CASE Updating(mgr[m]) \/ RollingBack(mgr[m])
    <3>1. Whole(mgr[m].ver, disk)
      BY <1>1, <2>2 DEF Success, UpdateSuccess, RollbackSuccess
    <3>2. QED
      BY <1>1, <1>2, <1>5, <3>1
  <2>3. CASE Recovering(mgr[m]) \/ Installing(mgr[m])
    <3>1. mgr[m].cmd \notin {"update", "rollback"}
      BY <2>3, OneProgram
    <3>2. Whole(disk.own.ver, disk)
      <4>1. CASE Recovering(mgr[m])
        BY <1>1, <4>1 DEF Success, RecoverSuccess
      <4>2. CASE Installing(mgr[m])
        BY <1>1, <1>2, <4>2 DEF Success, InstallSuccess
      <4>3. QED
        BY <2>3, <4>1, <4>2
    <3>3. QED
      BY <1>1, <1>5, <3>1, <3>2
  <2>4. QED
    BY <2>1, <2>2, <2>3
<1>6. QED
  BY <1>3, <1>4, <1>5

(* As far as a command has come, the files that it will answer for are as  *)
(* its success needs them: what it wrote last is still there, what it will *)
(* copy is of its release, and every ownership state and import receipt,   *)
(* in the snapshots too, names catalogs of one release.                    *)
THEOREM ReleaseSuccessInvariant == Spec => []SuccessInv
<1>1. Init => ControlInv /\ JournalInv /\ OutcomeInv /\ SuccessInv
  BY InitControl, InitJournal, InitOutcome, InitSuccess
<1>2. (ControlInv /\ JournalInv /\ OutcomeInv /\ SuccessInv) /\ [Next]_vars
        => (ControlInv /\ JournalInv /\ OutcomeInv /\ SuccessInv)'
  BY NextControl, NextJournal, NextOutcome, NextSuccess
<1>3. QED
  BY <1>1, <1>2, PTL DEF Spec

(* A command that says it succeeded leaves an installation that doctor     *)
(* finds whole, of the release it was asked for; after a catalog command   *)
(* the broker serves what is owned, and after an uninstall nothing is left *)
(* registered.                                                             *)
THEOREM ReleaseSuccess == Spec => SuccessMeansWhole
BY ReleaseControl, ReleaseOutcomeInvariant, ReleaseSuccessInvariant, SuccessStep, PTL
   DEF Spec, SuccessMeansWhole
================================================================================

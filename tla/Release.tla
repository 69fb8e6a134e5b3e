-------------------------------- MODULE Release --------------------------------
(***************************************************************************)
(* One installation of the program and the management commands that change *)
(* it (release_tools/updater.py, release_tools/installer.py, and the       *)
(* import and rollback of a reviewed catalog, catalog_review.py).          *)
(*                                                                         *)
(* A command works under the update lock.  What it will do is a program, a *)
(* sequence of named steps: each replaces some files in one atomic write,  *)
(* or checks, stops or starts something.  A step can fail, which runs the  *)
(* command's undo program, and the process can die between any two.        *)
(*                                                                         *)
(* A file's content is a number that tells which release wrote it: a       *)
(* release's own number, or Contract(v, i) for a catalog of release v,     *)
(* with i = 0 as packaged and i > 0 after the reviewed import of i.        *)
(***************************************************************************)
EXTENDS Naturals, Sequences

CONSTANTS
  Manager,     \* processes that run management commands
  Versions,    \* the releases
  Former,      \* the releases that register under the former server name
  First,       \* the releases that may be installed at first, 0 for none
  Imports,     \* the candidates that a reviewer may accept
  Commands,    \* the commands that each of them runs
  MaxCommands, \* bound on the commands run
  MaxSnaps,    \* bound on the snapshots
  MaxFaults,   \* bound on the faults
  Faults       \* "crash", "fail", "drift", "busy"

CommandNames ==
  {"install", "repair", "update", "rollback", "import", "catalog_rollback", "uninstall"}

ASSUME ReleaseAssumption ==
  /\ "free" \notin Manager /\ \A m \in Manager : Commands[m] \subseteq CommandNames
  /\ Versions \subseteq 1..9 /\ Former \subseteq Versions
  /\ First \subseteq Versions \cup {0} /\ Imports \subseteq 1..9
  /\ MaxCommands \in Nat /\ MaxSnaps \in Nat /\ MaxFaults \in Nat

Contract(v, i) == 10 * v + i
Packaged(v) == Contract(v, 0)
Junk == 9                          \* what a user's edit leaves: no release wrote it
Writer(c) == c \div 10

(* The Codex table a release registers: canonical 1, former 2, none 0.     *)
Block(v) == IF v \in Former THEN 2 ELSE 1

VARIABLES
  disk,     \* the files
  snaps,    \* the snapshots under backups/release-updates
  mark,     \* the pending-transaction record
  lock,     \* the manager that holds the update lock, or "free"
  mgr,      \* the managers
  broker,   \* the broker process
  spent     \* commands and faults so far

vars == <<disk, snaps, mark, lock, mgr, broker, spent>>

(* The trees that a snapshot holds, by directory.                          *)
Config == {"cat", "up", "compat", "settings", "imports"}
Artifacts == {"catArt", "upArt", "plugArt"}
State == {"own", "receipt"}
Owned == Config \cup Artifacts \cup State \cup {"bin", "block", "plugin"}

NoOwn == [ver |-> 0, cat |-> 0, up |-> 0, compat |-> 0, plugin |-> 0, bin |-> 0, block |-> 0]
NoReceipt == [prev |-> 0, cur |-> 0, snap |-> 0]
Nothing ==
  [cat |-> 0, up |-> 0, compat |-> 0, settings |-> 0, imports |-> {}, catArt |-> 0, upArt |-> 0,
   plugArt |-> 0, own |-> NoOwn, receipt |-> NoReceipt, bin |-> 0, block |-> 0, plugin |-> 0,
   retained |-> {}]
NoMark == [snap |-> 0, prev |-> 0, new |-> 0, action |-> "none"]
Idle == [pc |-> "idle", cmd |-> "none", ver |-> 0, arg |-> 0, seen |-> 0, saw |-> FALSE,
         todo |-> <<>>, stage |-> "plain", end |-> "ok", from |-> 0, before |-> Nothing]

Only(d, fields) == [f \in fields |-> d[f]]
Pending == mark.snap # 0

-----------------------------------------------------------------------------
(* What an installation of release v has to be                             *)

(* _validate_durable_contract                                              *)
Valid(v, d) == Writer(d.cat) = v /\ d.compat = v

(* The catalog files are those that the ownership state names.             *)
CatalogOwned(d) ==
  /\ d.cat = d.own.cat /\ d.catArt = d.own.cat /\ d.up = d.own.up /\ d.upArt = d.own.up
  /\ d.compat = d.own.compat

(* _lifecycle_sensitive_change_needed, when it is not                      *)
Intact(v, d) ==
  /\ d.own.ver = v /\ v \in d.retained /\ d.settings = 1
  /\ CatalogOwned(d) /\ Valid(v, d)
  /\ d.plugin = d.own.plugin /\ d.plugArt = d.own.plugin /\ d.plugin # 0
  /\ d.bin = v

(* doctor, as far as files go                                              *)
Whole(v, d) == Intact(v, d) /\ d.bin = d.own.bin /\ d.block = Block(v) /\ d.own.block = Block(v)

Busy == broker.up /\ broker.busy

(* status: an absent marker wants the receipt of this release, a present   *)
(* one is vouched for by the process that validates under it.              *)
UpdateStateOk(v) ==
  LET r == disk.receipt.cur IN
  IF Pending THEN \/ v = mark.prev /\ r \in {0, mark.prev}
                  \/ v = mark.new /\ r \in {0, IF mark.action = "rollback" THEN mark.new
                                               ELSE mark.prev}
  ELSE r \in {0, v}

Doctor(v) == Whole(v, disk) /\ ~Busy /\ UpdateStateOk(v)

(* _validate_live_codex_ownership                                          *)
CodexOk(v, d, cross) ==
  IF d.own.ver = 0 THEN d.block = 0
  ELSE d.block # 0 /\ d.block = d.own.block /\ (d.block = Block(v) \/ (cross /\ d.block = 2))

(* _preflight_first_install: an empty root and no plugin                   *)
RootEmpty == [disk EXCEPT !.block = 0] = Nothing

-----------------------------------------------------------------------------
(* Programs                                                                *)

(* _OwnedSnapshot.restore: a directory is moved away, its copy moved in.   *)
RestoreSteps ==
  <<"config-", "config+", "artifacts-", "artifacts+", "state-", "state+", "bin+", "block+",
    "plugin+">>

(* Mutant: the plugin is copied before it is rendered.                     *)
InstallStepsSwapped(cross) ==
  <<"retain", "settings">>
  \o (IF cross THEN <<"cat", "catArt", "up", "upArt", "compat">>
      ELSE <<"compat", "keepUpArt", "keepUp", "keepCatArt", "keepCat">>)
  \o <<"plugin", "plugArt", "bin", "block", "own">>

(* _install_locked, in the order in which it writes.                       *)
InstallSteps(cross) ==
  <<"retain", "settings">>
  \o (IF cross THEN <<"cat", "catArt", "up", "upArt", "compat">>
      ELSE <<"compat", "keepUpArt", "keepUp", "keepCatArt", "keepCat">>)
  \o <<"plugArt", "plugin", "bin", "block", "own">>

(* Mutant: the marker is cleared before the old release is back.           *)
RecoverForgetful == <<"stopPrior", "clear">> \o RestoreSteps \o <<"version", "doctor">>

(* recover_interrupted_update                                              *)
RecoverSteps == <<"stopPrior">> \o RestoreSteps \o <<"version", "doctor", "clear">>

(* update, through _transactional_switch and the candidate's install       *)
UpdateSteps ==
  <<"capture", "begin", "preflight", "stop", "recheck">> \o InstallSteps(TRUE)
  \o <<"doctor", "receipt", "clear">>

(* Mutant: the marker is cleared before the restore, not after it.         *)
UndoSwitchCleared == <<"clear">> \o RestoreSteps \o <<"doctor">>

(* What both do when the candidate fails.                                  *)
UndoSwitch == RestoreSteps \o <<"doctor", "clear">>

(* _transactional_snapshot_rollback                                        *)
RollbackSteps ==
  <<"capture", "begin", "stop">> \o RestoreSteps \o <<"version", "doctor", "receipt", "clear">>

(* _catalog_import_locked with import_reviewed_catalog, and its way back:  *)
(* by the receipt once there is one, and then the mirrors are copied from  *)
(* the files that came back.                                               *)
ImportSteps ==
  <<"stop", "review", "importUp", "importCat", "note", "mirrorCat", "mirrorUp", "ownCat",
    "start", "prove">>

(* Mutant: the mirrors under artifacts/ are not taken back.                *)
ImportUndoFiles == <<"stop", "match", "undoUp", "undoCat", "undoOwn", "try">>
ImportUndoEarly == <<"undoUp", "undoCat", "try">>
ImportUndo ==
  <<"stop", "match", "undoUp", "undoCat", "mirrorCat", "mirrorUp", "undoOwn", "try">>

(* _catalog_rollback_locked with rollback_catalog_import, and its way back *)
CatalogBackSteps ==
  <<"stop", "match", "backUp", "backCat", "mirrorCat", "mirrorUp", "ownCat", "start", "prove">>
CatalogBackUndo ==
  <<"stop", "undoCat", "undoUp", "undoCatArt", "undoUpArt", "undoOwn", "start", "prove">>

(* _uninstall_locked                                                       *)
UninstallSteps == <<"stop", "unblock", "unplug", "unroot">>

(* What a command does once it is admitted.                                *)
Program(m) ==
  CASE m.cmd = "update" -> UpdateSteps
    [] m.cmd = "rollback" -> RollbackSteps
    [] m.cmd = "import" -> ImportSteps
    [] m.cmd = "catalog_rollback" -> CatalogBackSteps
    [] m.cmd = "uninstall" -> UninstallSteps
    [] m.cmd \in {"install", "repair"} ->
         IF m.saw THEN RecoverSteps
         ELSE IF disk.own.ver = 0 \/ Intact(m.ver, disk) THEN InstallSteps(FALSE)
         ELSE <<"stop">> \o InstallSteps(FALSE)

(* What runs when a step fails, by how far the command had come.           *)
Undo(m) ==
  CASE m.stage = "marked" /\ m.cmd = "rollback" -> <<"clear">>
    [] m.stage = "restoring" \/ (m.stage = "marked" /\ m.cmd # "rollback") -> UndoSwitch
    [] m.stage = "stopped" /\ m.cmd = "import" -> <<"try">>
    [] m.stage = "importing" -> ImportUndoEarly
    [] m.stage = "imported" -> ImportUndo
    [] m.stage = "stopped" /\ m.cmd = "catalog_rollback" -> CatalogBackUndo
    [] OTHER -> <<>>

(* The stage that a completed step leads to.                               *)
StageAfter(m, s) ==
  IF m.stage = "undoing" THEN "undoing"
  ELSE CASE s = "begin" -> "marked"
         [] s = "stop" /\ m.cmd = "rollback" -> "restoring"
         [] s = "stop" /\ m.cmd \in {"import", "catalog_rollback"} -> "stopped"
         [] s = "review" -> "importing"
         [] s = "note" -> "imported"
         [] m.cmd \in {"install", "repair", "uninstall"} /\ s \notin {"stop", "stopPrior"} -> "writing"
         [] OTHER -> m.stage

(* What the user is told once the undo program has run.                    *)
Verdict(m) ==
  IF m.stage = "plain" \/ (m.stage = "marked" /\ m.cmd = "rollback")
     \/ (m.stage = "stopped" /\ m.cmd = "import") THEN "refused" ELSE "restored"

-----------------------------------------------------------------------------
(* Steps                                                                   *)

(* restore_owned_pair: the owned bytes from the file or from its mirror,   *)
(* or else the packaged ones.                                              *)
Kept(target, mirror, owned, packaged) ==
  IF disk.own.ver # 0 /\ owned \in {target, mirror} THEN owned ELSE packaged

(* The receipts that name both catalogs as they are.                       *)
Matching(d) == {e \in d.imports : e[3] = d.cat /\ e[4] = d.up}

(* Mutant: the previous release is read when the switch has been made.     *)
NewReceiptLate(m) == [prev |-> disk.own.ver, cur |-> mark.new, snap |-> mark.snap]

(* _write_receipt: the snapshot taken before the switch.                   *)
NewReceipt(m) == [prev |-> mark.prev, cur |-> mark.new, snap |-> mark.snap]

(* _OwnedSnapshot.restore                                                  *)
RestorePatch(snap, s) ==
  CASE s = "config-" -> Only(Nothing, Config)
    [] s = "config+" -> Only(snap, Config)
    [] s = "artifacts-" -> Only(Nothing, Artifacts)
    [] s = "artifacts+" -> Only(snap, Artifacts)
    [] s = "state-" -> Only(Nothing, State)
    [] s = "state+" -> Only(snap, State)
    [] s = "bin+" -> [bin |-> snap.bin]
    [] s = "block+" -> [block |-> snap.block]
    [] s = "plugin+" -> [plugin |-> snap.plugin]

(* reset_catalog_contract_to_packaged_defaults                             *)
Reset(v, s) == [f \in {s} |-> IF s = "compat" THEN v ELSE Packaged(v)]

(* _seed_or_repair_catalog, of the release that is installed               *)
KeepPatch(v, s) ==
  LET cat == Kept(disk.cat, disk.catArt, disk.own.cat, Packaged(v))
      up == Kept(disk.up, disk.upArt, disk.own.up, Packaged(v))
  IN CASE s = "keepCat" -> [cat |-> cat]
       [] s = "keepCatArt" -> [catArt |-> cat]
       [] s = "keepUp" -> [up |-> up]
       [] s = "keepUpArt" -> [upArt |-> up]

(* _install_plugin renders the artifact when it has to.                    *)
Rendered(v) == IF disk.own.ver # v \/ disk.plugArt # disk.own.plugin THEN v ELSE disk.plugArt

(* The ownership state, written last.                                      *)
OwnedNow(v) ==
  [ver |-> v, cat |-> disk.cat, up |-> disk.up, compat |-> v, plugin |-> disk.plugArt,
   bin |-> v, block |-> Block(v)]

InstallPatch(v, s) ==
  CASE s = "retain" -> [retained |-> disk.retained \cup {v}]
    [] s = "settings" -> [settings |-> 1]
    [] s = "plugArt" -> [plugArt |-> Rendered(v)]
    [] s = "plugin" -> [plugin |-> disk.plugArt]
    [] s = "bin" -> [bin |-> v]
    [] s = "block" -> [block |-> Block(v)]
    [] s = "own" -> [own |-> OwnedNow(v)]

(* import_reviewed_catalog: the upstream snapshot, the durable catalog     *)
(* regenerated from it, and the receipt of what they replaced.             *)
ImportPatch(m, s) ==
  CASE s = "importUp" -> [up |-> Contract(m.ver, m.arg)]
    [] s = "importCat" -> [cat |-> Contract(m.ver, m.arg)]
    [] s = "note" -> [imports |-> disk.imports
                        \cup {<<m.before.cat, m.before.up, disk.cat, disk.up>>}]

(* rollback_catalog_import, by the receipt that matches                    *)
BackPatch(m, s) ==
  LET e == CHOOSE e \in Matching(m.before) : TRUE
  IN IF s = "backCat" THEN [cat |-> e[1]] ELSE [up |-> e[2]]

(* _update_catalog_state: the mirrors follow the files, then the state.    *)
OwnPatch(s) ==
  CASE s = "mirrorCat" -> [catArt |-> disk.cat]
    [] s = "mirrorUp" -> [upArt |-> disk.up]
    [] s = "ownCat" -> [own |-> [disk.own EXCEPT !.cat = disk.cat, !.up = disk.up,
                                                 !.compat = disk.compat]]

(* What a catalog command took over, from the receipt or from memory. Only *)
(* catalog rollback remembers the bytes of the mirrors.                    *)
UndoPatch(was, s) ==
  CASE s = "undoCat" -> [cat |-> was.cat]
    [] s = "undoUp" -> [up |-> was.up]
    [] s = "undoCatArt" -> [catArt |-> was.catArt]
    [] s = "undoUpArt" -> [upArt |-> was.upArt]
    [] s = "undoOwn" -> [own |-> was.own]

(* The Codex table goes, then the plugin, then the support root.           *)
RemovePatch(s) ==
  CASE s = "unblock" -> [block |-> 0]
    [] s = "unplug" -> [plugin |-> 0]
    [] s = "unroot" -> [Nothing EXCEPT !.block = disk.block, !.plugin = disk.plugin]

Undoing == {"undoCat", "undoUp", "undoCatArt", "undoUpArt", "undoOwn"}

(* The files that a step replaces.                                         *)
Patch(m, s) ==
  CASE s \in {RestoreSteps[k] : k \in DOMAIN RestoreSteps} -> RestorePatch(snaps[m.from], s)
    [] s \in {"cat", "catArt", "up", "upArt", "compat"} -> Reset(m.ver, s)
    [] s \in {"keepCat", "keepCatArt", "keepUp", "keepUpArt"} -> KeepPatch(m.ver, s)
    [] s \in {"retain", "settings", "plugArt", "plugin", "bin", "block", "own"} ->
         InstallPatch(m.ver, s)
    [] s \in {"importUp", "importCat", "note"} -> ImportPatch(m, s)
    [] s \in {"backCat", "backUp"} -> BackPatch(m, s)
    [] s \in {"mirrorCat", "mirrorUp", "ownCat"} -> OwnPatch(s)
    [] s \in Undoing -> UndoPatch(m.before, s)
    [] s \in {"unblock", "unplug", "unroot"} -> RemovePatch(s)
    [] s = "receipt" -> [receipt |-> NewReceipt(m)]
    [] OTHER -> <<>>

(* capture: the four directories and both external files are there.        *)
Capturable == disk.settings = 1 /\ disk.own.ver # 0 /\ disk.bin # 0 /\ disk.plugin # 0

(* _validate_interrupted_transaction                                       *)
MarkerSound == Pending /\ snaps[mark.snap].own.ver = mark.prev

(* _verify_pre_switch_release                                              *)
PriorRetained == mark.prev \in disk.retained

(* _validate_prior_catalog_contract_for_update                             *)
PriorContract ==
  CatalogOwned(snaps[mark.snap]) /\ Valid(mark.prev, snaps[mark.snap])

(* _require_live_catalog_contract_matches_snapshot                         *)
LiveIsSnapshot ==
  \A f \in {"own", "cat", "catArt", "up", "upArt", "compat"} : disk[f] = snaps[mark.snap][f]

(* _preflight_cross_version_launcher_targets                               *)
LaunchersOwned == disk.bin \in {0, disk.own.bin}

(* _install_launchers: what is there is owned, and what is there already   *)
(* as it should be is what the state says.                                 *)
LaunchersFree(v) ==
  disk.bin # 0 => disk.own.ver # 0 /\ (disk.bin = v => disk.bin = disk.own.bin)

(* _invoke_lifecycle stop: it needs its configuration, and a broker that   *)
(* is at work refuses.                                                     *)
StopOk == disk.settings = 1 /\ ~Busy

(* _stop_from_pre_switch_snapshot: by the release that the marker names    *)
StopPriorOk == PriorRetained /\ StopOk

(* ensure_broker: a broker that serves this catalog, or a new one.         *)
StartOk ==
  /\ disk.settings = 1 /\ disk.bin # 0 /\ disk.cat \notin {0, Junk}
  /\ broker.up /\ broker.serves # disk.cat => ~broker.busy
Started ==
  IF broker.up /\ broker.serves = disk.cat THEN broker
  ELSE [up |-> TRUE, serves |-> disk.cat, busy |-> FALSE]

(* _start_and_verify_catalog: the bytes are owned, then the broker proves  *)
(* that it serves them.                                                    *)
MayStart == StartOk /\ disk.cat = disk.own.cat
Proven == broker.up /\ ~broker.busy /\ broker.serves = disk.cat

(* The condition under which a step does its work; it fails otherwise.     *)
Ready(m, s) ==
  CASE s = "capture" -> Capturable
    [] s = "begin" -> ~Pending
    [] s = "preflight" -> /\ PriorRetained /\ PriorContract /\ LiveIsSnapshot
                          /\ LaunchersOwned /\ CodexOk(m.ver, disk, TRUE)
    [] s = "recheck" -> LiveIsSnapshot
    [] s = "stop" -> StopOk
    [] s = "stopPrior" -> StopPriorOk
    [] s = "bin" -> LaunchersFree(m.ver)
    [] s = "block" -> CodexOk(m.ver, disk, m.cmd = "update")
    [] s = "version" -> disk.own.ver = IF m.cmd = "rollback" THEN mark.new ELSE mark.prev
    [] s = "doctor" -> Doctor(IF m.stage = "undoing" \/ m.cmd = "repair" THEN mark.prev
                              ELSE mark.new)
    [] s = "review" -> Valid(m.ver, disk) /\ disk.up \notin {0, Junk}
    [] s = "match" -> Matching(disk) # {}
    [] s = "start" -> MayStart
    [] s = "prove" -> Proven
    [] OTHER -> TRUE

Head1(m) == Head(mgr[m].todo)
Running(m) == mgr[m].pc = "run"
End(m) == mgr' = [mgr EXCEPT ![m] = Idle] /\ lock' = "free"

(* What the user is told when the command ends here.                       *)
Told(m) ==
  CASE m.todo = <<>> -> m.end
    [] m.todo # <<>> /\ m.stage = "undoing" -> "run_repair"
    [] m.todo # <<>> /\ m.stage = "plain" -> "refused"
    [] OTHER -> "failed"

(* _begin_pending_validation                                               *)
NewMark(m) == [snap |-> Len(snaps), prev |-> disk.own.ver, new |-> m.ver, action |-> m.cmd]

(* A step does what it has to.                                             *)
Do(m) ==
  /\ Running(m) /\ mgr[m].todo # <<>> /\ Ready(mgr[m], Head1(m))
  /\ LET me == mgr[m]
         s == Head1(m)
         new == Patch(me, s)
     IN  /\ disk' = [f \in DOMAIN disk |-> IF f \in DOMAIN new THEN new[f] ELSE disk[f]]
         /\ snaps' = IF s = "capture" THEN Append(snaps, Only(disk, Owned))
                     ELSE IF s = "unroot" THEN <<>> ELSE snaps
         /\ mark' = IF s = "begin" THEN NewMark(me)
                    ELSE IF s \in {"clear", "unroot"} THEN NoMark ELSE mark
         /\ broker' = IF s \in {"stop", "stopPrior"} THEN [broker EXCEPT !.up = FALSE, !.serves = 0]
                      ELSE IF s = "start" \/ (s = "try" /\ MayStart)
                      THEN Started ELSE broker
         /\ mgr' = [mgr EXCEPT ![m].todo = Tail(@), ![m].stage = StageAfter(me, s),
                      ![m].before = IF s = "stop" /\ me.cmd \in {"import", "catalog_rollback"}
                                       /\ me.stage = "plain" THEN disk ELSE @]
         /\ UNCHANGED <<lock, spent>>

(* The program has run to its end.                                         *)
Finish(m) ==
  /\ Running(m) /\ mgr[m].todo = <<>>
  /\ End(m)
  /\ UNCHANGED <<disk, snaps, mark, broker, spent>>

(* A step is refused or fails: the undo program, or the end.               *)
Break(m) ==
  LET me == mgr[m]
      undo == Undo(me)
  IN  /\ IF me.stage = "undoing" \/ undo = <<>> THEN End(m)
         ELSE /\ mgr' = [mgr EXCEPT ![m].todo = undo, ![m].stage = "undoing",
                           ![m].end = Verdict(me), ![m].from = mark.snap]
              /\ UNCHANGED lock
      /\ UNCHANGED <<disk, snaps, mark, broker>>

Refuse(m) ==
  /\ Running(m) /\ mgr[m].todo # <<>> /\ ~Ready(mgr[m], Head1(m))
  /\ Break(m) /\ UNCHANGED spent

-----------------------------------------------------------------------------
(* Commands                                                                *)

(* A command begins, before it has the lock: it reads which release is     *)
(* installed, and repair whether a transaction is pending.  The commands   *)
(* of the installed manager are those of the release its launcher pins.    *)
Ask(m, c, v, a) ==
  /\ mgr[m].pc = "idle" /\ c \in Commands[m] /\ spent.commands < MaxCommands
  /\ c \in {"install", "repair"} \/ (disk.bin # 0 /\ disk.own.ver # 0)
  /\ c = "update" => v # disk.own.ver
  /\ c \in {"rollback", "import", "catalog_rollback", "uninstall"} => v = disk.bin
  /\ c = "import" \/ a = 0
  /\ c # "import" \/ a # 0
  /\ c \in {"update", "rollback"} => Len(snaps) < MaxSnaps
  /\ mgr' = [mgr EXCEPT ![m] = [Idle EXCEPT !.pc = "ask", !.cmd = c, !.ver = v, !.arg = a,
                                  !.seen = disk.own.ver, !.saw = (c = "repair" /\ Pending)]]
  /\ spent' = [spent EXCEPT !.commands = @ + 1]
  /\ UNCHANGED <<disk, snaps, mark, lock, broker>>

(* Only the live update transaction puts one release over another.         *)
MayInstall(m) == disk.own.ver \in {0, m.ver}

(* The checks that a command makes as soon as it has the lock.             *)
Admitted(m) ==
  CASE m.cmd = "update" -> disk.own.ver = m.seen
    [] m.cmd = "rollback" ->
         /\ disk.own.ver = m.seen /\ disk.receipt.cur = m.seen
         /\ disk.receipt.prev \in disk.retained
         /\ snaps[disk.receipt.snap].own.ver = disk.receipt.prev
    [] m.cmd = "import" -> disk.own.ver = m.ver /\ Valid(m.ver, disk)
    [] m.cmd = "catalog_rollback" ->
         disk.own.ver = m.ver /\ Valid(m.ver, disk) /\ \E e \in Matching(disk) : Matching(disk) = {e}
    [] m.cmd = "uninstall" ->
         /\ disk.own.ver = m.ver /\ CodexOk(m.ver, disk, FALSE)
         /\ disk.plugin = disk.own.plugin
    [] m.cmd \in {"install", "repair"} ->
         IF m.saw THEN MarkerSound /\ PriorRetained
         ELSE /\ ~Pending /\ MayInstall(m) /\ (disk.own.ver = 0 => RootEmpty)
              /\ CodexOk(m.ver, disk, FALSE)

(* Mutant: the update lock is not looked at.                               *)
LockIsMine == TRUE

(* _exclusive_update_lock                                                  *)
LockIsFree == lock = "free"

(* The lock is there, and the command's checks pass or do not.             *)
Lock(m) ==
  /\ mgr[m].pc = "ask" /\ LockIsFree
  /\ IF Admitted(mgr[m])
     THEN /\ lock' = m
          /\ mgr' = [mgr EXCEPT ![m].pc = "run", ![m].before = disk,
                       ![m].todo = Program(mgr[m]),
                       ![m].ver = IF mgr[m].cmd = "rollback" THEN disk.receipt.prev ELSE @,
                       ![m].from = IF mgr[m].cmd = "rollback" THEN disk.receipt.snap ELSE mark.snap]
     ELSE mgr' = [mgr EXCEPT ![m] = Idle] /\ UNCHANGED lock
  /\ UNCHANGED <<disk, snaps, mark, broker, spent>>

(* The lock is never waited for.                                           *)
LockTaken(m) ==
  /\ mgr[m].pc = "ask" /\ ~LockIsFree
  /\ mgr' = [mgr EXCEPT ![m] = Idle]
  /\ UNCHANGED <<disk, snaps, mark, lock, broker, spent>>

-----------------------------------------------------------------------------
(* Faults, and the clients                                                 *)

Spend(f) ==
  /\ f \in Faults /\ spent.faults < MaxFaults
  /\ spent' = [spent EXCEPT !.faults = @ + 1]

(* A write, a subprocess or a check fails for a reason of its own.         *)
Fail(m) ==
  /\ Running(m) /\ mgr[m].todo # <<>> /\ Head1(m) \notin {"try", "retain"}
  /\ Spend("fail") /\ Break(m)

(* The process dies, and its lock with it.                                 *)
Crash(m) ==
  /\ Running(m) /\ Spend("crash")
  /\ mgr' = [mgr EXCEPT ![m] = Idle] /\ lock' = "free"
  /\ UNCHANGED <<disk, snaps, mark, broker>>

Editable ==
  IF lock = "free" THEN TRUE ELSE mgr[lock].todo # <<>> /\ Head(mgr[lock].todo) \in {"stop", "stopPrior"}

(* A user edits the catalog or the plugin, while a stop is under way too,  *)
(* or a retained package is damaged.                                       *)
Drift(f) ==
  /\ Editable /\ disk[f] \notin {0, Junk} /\ Spend("drift")
  /\ disk' = [disk EXCEPT ![f] = Junk]
  /\ UNCHANGED <<snaps, mark, lock, mgr, broker>>
Damage(v) ==
  /\ Editable /\ v \in disk.retained /\ Spend("drift")
  /\ disk' = [disk EXCEPT !.retained = @ \ {v}]
  /\ UNCHANGED <<snaps, mark, lock, mgr, broker>>

(* A client finds no broker, or one that serves another catalog.           *)
ClientStart ==
  /\ StartOk /\ Started # broker
  /\ broker' = Started
  /\ UNCHANGED <<disk, snaps, mark, lock, mgr, spent>>

(* The broker takes up work, or is done with it.                           *)
BrokerWorks ==
  /\ broker.up /\ ~broker.busy /\ Spend("busy")
  /\ broker' = [broker EXCEPT !.busy = TRUE]
  /\ UNCHANGED <<disk, snaps, mark, lock, mgr>>
BrokerRests ==
  /\ broker.busy
  /\ broker' = [broker EXCEPT !.busy = FALSE]
  /\ UNCHANGED <<disk, snaps, mark, lock, mgr, spent>>

-----------------------------------------------------------------------------
(* What a first install leaves.                                            *)
Installed(v) ==
  IF v = 0 THEN Nothing
  ELSE [Nothing EXCEPT !.cat = Packaged(v), !.catArt = Packaged(v), !.up = Packaged(v),
          !.upArt = Packaged(v), !.compat = v, !.settings = 1, !.plugArt = v, !.plugin = v,
          !.bin = v, !.block = Block(v), !.retained = {v},
          !.own = [ver |-> v, cat |-> Packaged(v), up |-> Packaged(v), compat |-> v,
                   plugin |-> v, bin |-> v, block |-> Block(v)]]

Init ==
  /\ disk \in {Installed(v) : v \in First}
  /\ snaps = <<>> /\ mark = NoMark /\ lock = "free"
  /\ mgr = [m \in Manager |-> Idle]
  /\ broker = [up |-> FALSE, serves |-> 0, busy |-> FALSE]
  /\ spent = [commands |-> 0, faults |-> 0]

Next ==
  \/ \E m \in Manager :
       \/ \E c \in Commands[m], v \in Versions, a \in Imports \cup {0} : Ask(m, c, v, a)
       \/ Lock(m) \/ LockTaken(m) \/ Do(m) \/ Refuse(m) \/ Finish(m) \/ Fail(m) \/ Crash(m)
  \/ \E f \in {"cat", "plugin"} : Drift(f)
  \/ \E v \in Versions : Damage(v)
  \/ ClientStart \/ BrokerWorks \/ BrokerRests

Spec == Init /\ [][Next]_vars

-----------------------------------------------------------------------------
(* Properties                                                              *)

Contents == {0, Junk} \cup Versions
Catalogs == {0, Junk} \cup {Contract(v, i) : v \in Versions, i \in Imports \cup {0}}
OwnType ==
  [ver : Versions \cup {0}, cat : Catalogs, up : Catalogs, compat : Contents, plugin : Contents,
   bin : Contents, block : 0..2]
DiskOk(d) ==
  /\ {d.cat, d.up, d.catArt, d.upArt} \subseteq Catalogs
  /\ {d.compat, d.plugArt, d.bin, d.plugin} \subseteq Contents
  /\ d.settings \in 0..1 /\ d.block \in 0..2 /\ d.own \in OwnType

(* Every variable has its type, and the lock belongs to who works.         *)
TypeOK ==
  /\ DiskOk(disk) /\ disk.retained \subseteq Versions
  /\ \A n \in DOMAIN snaps : DiskOk(snaps[n])
  /\ mark.snap \in 0..Len(snaps) /\ {mark.prev, mark.new} \subseteq Versions \cup {0}
  /\ \A m \in Manager : mgr[m].pc = "run" <=> lock = m
  /\ broker.up \in BOOLEAN /\ broker.busy \in BOOLEAN /\ broker.serves \in Catalogs

(* Whatever failed or died on the way: without a pending transaction, a    *)
(* receipt names the installed release, and the snapshot it names is a     *)
(* whole one of the release before, to go one step back to                 *)
(* (updater.py:1202-1235, 1837).                                           *)
ReceiptIsOneStepBack ==
  ~Pending /\ disk.receipt # NoReceipt =>
    LET r == disk.receipt IN
    /\ r.cur = disk.own.ver /\ r.prev # r.cur
    /\ snaps[r.snap].own.ver = r.prev /\ snaps[r.snap].bin = r.prev
    /\ snaps[r.snap].settings = 1 /\ snaps[r.snap].receipt.cur \in {0, r.prev}

(* The pending marker goes last: when it does, the files are those of the  *)
(* snapshot, or those of the candidate with its receipt, or all are gone   *)
(* (updater.py:1532-1534, 877-910).                                        *)
MarkerGoesLast ==
  [][Pending /\ ~Pending' =>
       \/ disk'.own.ver = 0
       \/ \A f \in Owned : disk'[f] = snaps[mark.snap][f] \/ disk'[f] = Junk
       \/ /\ disk'.own.ver = mark.new /\ disk'.receipt.cur = mark.new
          /\ CatalogOwned(disk') /\ disk'.bin = mark.new
          /\ disk'.plugin = disk'.own.plugin /\ disk'.block = Block(mark.new)]_vars

(* The installed release changes, goes or comes back only inside a pending *)
(* transaction between the two, which repair can take back; but for a      *)
(* first install and an uninstall (installer.py:2833-2845, 2861-2872).     *)
SwitchIsJournaled ==
  [][disk.own.ver # disk'.own.ver =>
       \/ /\ Pending /\ Pending'
          /\ {disk.own.ver, disk'.own.ver} \subseteq {0, mark.prev, mark.new}
       \/ disk'.retained = {}
       \/ disk.own.ver = 0 /\ disk.receipt = NoReceipt /\ snaps = <<>>]_vars

(* A command that says it succeeded leaves an installation that doctor     *)
(* finds whole, repair too, whatever had been interrupted; after a catalog *)
(* command the broker serves what is owned (installer.py:3057, 3622).      *)
Ends(m) == (Finish(m) \/ Refuse(m) \/ Fail(m)) /\ mgr'[m].pc = "idle"
SuccessMeansWhole ==
  [][\A m \in Manager : Ends(m) /\ Told(mgr[m]) = "ok" =>
       CASE mgr[m].cmd = "uninstall" -> disk'.own.ver = 0 /\ disk'.block = 0
         [] mgr[m].cmd \in {"import", "catalog_rollback"} ->
              CatalogOwned(disk') /\ broker'.serves = disk'.cat
         [] OTHER -> /\ Whole(disk'.own.ver, disk')
                     /\ mgr[m].cmd \in {"update", "rollback"} => disk'.own.ver = mgr[m].ver]_vars

(* What a user is told of a command that did not succeed is true: refused  *)
(* or restored, every file is as the command found it, but for what the    *)
(* user edited meanwhile and the import receipt. A failed import may also  *)
(* leave a mirror equal to the catalog it found, where a command that died *)
(* earlier had left the two different (installer.py:3755-3768).            *)
MirrorOf == [catArt |-> "cat", upArt |-> "up"]
AsItWas(me, f, v) ==
  \/ v \in {me.before[f], Junk}
  \/ me.cmd = "import" /\ f \in DOMAIN MirrorOf /\ v = me.before[MirrorOf[f]]
OutcomeIsTrue ==
  [][\A m \in Manager :
       Ends(m) /\ Told(mgr[m]) \in {"refused", "restored"} =>
         \A f \in Owned \ {"imports"} : AsItWas(mgr[m], f, disk'[f])]_vars

(* Repair takes back an interrupted transaction unless a broker is at work *)
(* (README.md:303-308).                                                    *)
RecoveryIsRefusedForCause ==
  [][\A m \in Manager :
       Refuse(m) /\ mgr[m].cmd = "repair" /\ mgr[m].saw => Busy]_vars
=============================================================================

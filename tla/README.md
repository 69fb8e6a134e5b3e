# Verification of the multi-session Studio broker

TLA+ models, TLC configurations and TLAPS proofs for the broker, the Studio
plugin, the Play server bridge and the release tools of this repository. Paths below are relative
to the source tree (`src/studio_mcp_v2/session.py` is `session.py`, and so on).

Contents: 1 inventory; 2 modules and their correspondence to the code; 3 runs;
4 fairness; 5 proofs; 6 disagreements found; 7 what is only model-checked and
what is not modelled; 8 plan.

## 1. Inventory

An MCP client talks JSON-RPC over stdio to a front end, which forwards each call
over HTTP to one broker process per user. The broker owns one `StudioSession`
per connected Studio. The Studio plugin registers, keeps a lease, long-polls for
requests, runs one at a time and posts each response. When a play test runs, a
second script inside the Play server talks to the broker with its own
credentials, only to be told to stop.

| Part | State | Operations | Interacts through | What makes it correct |
|---|---|---|---|---|
| `StudioSession` (`session.py`) | connection and generation; admission chain; in-flight request, futures; uncertain requests; recovery fence; prepare receipt; cleanup grant; job table; cached `uncertainty_state` and retirement verdict | invoke, start_job, cancel_job, receive_response, disconnect, replace_connection, snapshot, mode changes, lazy expiry | one asyncio loop; futures; callbacks of the registry | no dispatched mutation is forgotten; at most one unproven; recovery is never shut out; cleanups are settled, not dropped; job verdicts are true; every operation ends |
| Result validators (`session.py`) | none | decide whether a result is a valid receipt | called by receive_response | a forged or truncated receipt settles nothing |
| Job table (`session.py`) | records, tombstones, byte and count limits | admit, compact | start_job, verdicts | a full table sheds only settled jobs |
| `SessionRegistry` (`registry.py`) | sessions by id, tokens, document epochs, leases, retired records | register, reconnect, poll, retire, sweep, Play routes | HTTP API, sessions, Play manager | one live session per document; a lost reply never forks it; nothing owed is retired silently |
| `PlayBridgeManager` (`play_bridge.py`) | one transition: nonce, phases, acknowledgements, stop and its source, outcome, deadlines | prepare, attach, poll, arm, ack, request_stop, abort, complete, enter_recovery, sweep | registry routes | a completion rests on acknowledgements; a transition is never abandoned, rebound or reopened |
| Edit plugin, Play half (`studio_plugin_template.luau`, `render_studio_plugin.py`) | `active_play`, `ExecutePlayModeAsync` | startPlay, stopPlay, abort, classify, complete, recover on reconnect | HTTP with retries | the outcome reported is how the test ended |
| Play server bridge (`play_server_bridge.luau`) | phase of its loop, pending stop, hard watchdog | attach, arm, poll, ack, EndTest | HTTP with its own token | a stop ends the test once; a silent broker cannot leave it running |
| Edit plugin, request loop (`studio_plugin_template.luau`) | response cache, request ids in hand | poll, run, deliver, reconnect | HTTP | one request at a time, and each is answered |
| Durable operations (`durable_operation_handlers.luau`) | the plan of a transaction, the cleanup grant, the scripts and objects in Studio | prepare, apply, recover, cleanup | request loop; a user who edits | a receipt is true of Studio; nothing the user did is overwritten or deleted; recovery is asked for only with a cause |
| HTTP API (`http_api.py`) | request counters, stop fence | routes, submit_to_loop, stop | threads beside the loop | no mutation is admitted after a stop is confirmed |
| Broker process (`lifecycle.py`, `hub.py`) | record file, lock, child process | ensure, stop, managed client | files, ports, other processes | one broker; an operation is never replayed |
| Front end, service, auth, catalog, schemas (`frontend.py`, `mcp_stdio.py`, `service.py`, `auth.py`, `catalog.py`, `schema_validation.py`, `validation.py`, `multi_edit.py`) | none beyond a request | validate, authorise, forward | calls | an invalid call reaches no session |
| Releases (`release_tools/`) | installed tree, pointer, snapshot, pending marker, locks | install, update, recover, rollback, uninstall, catalog import | file system, broker, Codex configuration | a switch is journaled from its first change to its last; what a command reports is what it left; one step back stays possible |
| Offline tools (`scripts/`, `catalog_review.py`, `mock_studio.py`, proofs and audits of releases) | none while the broker runs | checks, reports | files | deterministic checks; no state machine |

The hard behaviours, each listed at its line under `hazards` in `PROJECT.json`:

* a response that is accepted and the coroutine that waits for it are two
  scheduler steps; a timeout, a cancellation, a disconnect and a reconnect come
  between them;
* a multi-edit is two dispatches; a connection may be lost before, between or
  after them, and Studio may or may not have run the second;
* late receipts, repeated receipts and reconnects that claim requests are settled
  must not prove more than they do;
* three fences (uncertain requests, recovery, cleanup grant) are raised and
  lifted on different paths, and each refuses what the others may need;
* the plugin, the Play server, Studio and the broker each hold one part of what
  is known of a test, joined by calls whose replies are lost, repeated or late,
  with four lifetimes and two watchdogs that may end it;
* a connect request is repeated over HTTP and a copy may execute after its attempt
  is over, beside a lease that ends, a sweep and a change of document;
* a stop of the broker is decided on counters kept by threads and on a summary
  made by the loop, while both go on; two clients may start or replace a broker at
  once, and either may be killed half way;
* an apply over several scripts fails in the middle, in a Studio whose user edits,
  moves and deletes the same objects and presses Play;
* a management command writes a dozen files one by one; it fails or dies between
  two of them, and another manager waits for the lock with what it read before.

## 2. Modules

| Module | Models | Uses |
|---|---|---|
| `MutationLedger` | what the broker promises about mutations | |
| `Session` | `StudioSession`, its admission, waiters, fences, jobs and receipts | refines `MutationLedger` |
| `SessionProofs` | theorems about `Session`: fences, the refinement | `Session`, `TLAPS` |
| `SessionGrantProofs` | theorems about `Session`: the cleanup grant, what is shown | `SessionProofs` |
| `SessionJobProofs` | theorems about `Session`: the verdicts of jobs | `SessionGrantProofs` |
| `MCSession` | instances of `Session` for TLC | `Session` |
| `PlayPromise` | what the broker promises about Edit and Play | |
| `PlayBridge` | `PlayBridgeManager`, for any caller | |
| `PlayLifecycle` | `PlayBridge` with registry routes, plugin, Play server and Studio | `PlayBridge`, refines `PlayPromise` |
| `PlayProofs` | theorems about `PlayBridge` and `PlayLifecycle` | `PlayLifecycle`, `TLAPS` |
| `MCPlayLifecycle` | instances of `PlayLifecycle` for TLC | `PlayLifecycle` |
| `Registry` | `SessionRegistry` against the adapters that register with it | |
| `RegistryProofs` | theorems about `Registry` | `Registry`, `TLAPS` |
| `MCRegistry` | instance of `Registry` for TLC | `Registry` |
| `Broker` | the broker as a process: threads, loop, stop fence, start and stop by its clients | |
| `BrokerProofs` | theorems about `Broker` | `Broker`, `TLAPS` |
| `MCBroker` | instances of `Broker` for TLC | `Broker` |
| `Transaction` | a multi-edit in the plugin, and its receipts as the session reads them | |
| `TransactionProofs` | theorems about `Transaction` | `Transaction`, `TLAPS` |
| `MCTransaction` | instances of `Transaction` for TLC | `Transaction` |
| `Release` | an installation and the management commands that change it | |
| `ReleaseProofs` | theorems about `Release` | `Release`, `TLAPS` |
| `MCRelease` | instances of `Release` for TLC | `Release` |

The modules meet at interfaces that each states for itself. `Session` takes Studio
to answer with one of ten outcomes; `Transaction` says which outcomes the plugin
produces and that the session's validators accept them. `Session` loses and makes
connections at will; `Registry` says when, and reduces a session to what it owes.
`Session` and `PlayLifecycle` take a broker that may restart; `Broker` says what a
restart loses.

### Session

`session.py` runs on one asyncio loop, so an action is one handler, or the part
of a coroutine between two awaits. The variables are the fields of the session
under their names in camel case (`uncertain_requests` is `uncertainRequests`);
`outbox`, `served`, `reply` and `proven` are history: what was handed to the
transport, what Studio did last, what has been proven.

| Action | Code |
|---|---|
| `Submit(o, t)` | `invoke` / `start_job`: admission under the current generation, the place in the chain |
| `Begin(o)`, `Refuse(o)` | the operation reaches the lock: the fences and the generation are checked again; dispatch, or refusal |
| `ContinueToApply(o)`, `ApplyNotDispatched(o)` | between prepare and apply of a multi-edit |
| `Return(o)`, `RaiseRemoteError(o)`, `RaiseOffline(o)`, `Timeout(o)`, `CancelWait(o)`, `CancelQueued(o)` | the ends of `_invoke_locked` and `_invoke_multi_edit_locked`, with the fences each raises |
| `ReceiveResponse(r, y)`, `ReceiveLate(r, y)` | `receive_response` for a request that is awaited, or no longer |
| `Disconnect`, `Reconnect(settled)` | `disconnect`, `replace_connection` |
| `DeadlinePasses(t)`, `Snapshot`, `ModeEvent(m)`, `PlayBridge` | the cleanup lifetime, lazy expiry on a read, the mode, the registry's Play fence |

What is abstracted, and why it does not hide a step:

* A response is one of ten outcomes (`applied`, `restored`, `invalid`, ...): what
  the validators make of its payload.
* Admission is the set `ahead` of operations queued before; the code's chain of
  futures gives the same order.
* Studio is an environment that answers in dispatch order, or never, and repeats
  an answer but does not change it: the plugin runs one request at a time,
  delivers its answer (with retries) before it polls again and answers a
  repeated request from its cache.
* A response is accepted on the current generation only: the registry
  authenticates the poster before the session sees it.
* A cleanup grant lives 600 s, longer than any wait (120 s at most), so
  `DeadlinePasses` is not enabled while the edit that earns the grant is awaited.
* Left out: repeated request ids, capability refusals, byte budgets, the limits
  and tombstones of the job table, the limit of the resolution receipts.
* The Play fence is a toggle here; `PlayLifecycle` models who sets it.

### PlayBridge and PlayLifecycle

`PlayBridge` is one record (`bridge`) with one action per method of the manager,
each first applying the watchdog as the code does (`Observe`, `Advanced`). A
secret is represented by what it is bound to: the nonce of its transition and
the server that attached. Report-only fields (`watchdog_deadline`,
`expired_reason`) are left out. A deadline is the flag `overdue`, which `Expire`
raises at any time and the next call acts on.

`PlayLifecycle` adds the registry's routes and fence, the plugin's coroutine
(`peer`, `attempt`, `play`), the Play server's loop (`server`, `ready`, `heard`)
and the test in Studio (`run`). A call is one step at the broker; what the caller
does with the reply is a later step. A lost reply is repeated by the caller,
which the broker answers alike, or given up (`PrepareLost`, `CompleteLost`,
`AttachFails`, ...). `Faults` selects what may go wrong:

| Fault | Code |
|---|---|
| `loss` | a caller exhausts its retries; a reconnect whose replies are all lost leaves the plugin with a token that was rotated away (`outside`) |
| `delay` | a retried `prepare` executes after the first was answered |
| `ttl` | a phase outlives its lifetime (180 s before attach, 150 s to activate, 210 s active) |
| `watchdog` | the server's hard watchdog (180 s) fires |
| `lease` | the broker's 30 s lease on the controller lapses, at most `MaxGeneration` times |
| `broker` | the broker restarts, or retires the session; the plugin keeps asking for its old connection (`restoring`) for as long as its transition is open |
| `user` | the test ends, or does not start, without the bridge |
| `script` | the runner script cannot be created |
| `crash` | the plugin is unloaded |

Abstracted: the plugin's monitor (it only reads); `EndTest` is taken to succeed;
replies that this broker does not produce (`attach_rejected`,
`watchdog_ack_rejected`) are left out; an invalid bootstrap is
`EndsWithoutBridge`; a failed wait for a stable Edit is `Crash`; the dispatch of
a start or a stop is one step with the broker call it causes.

### Registry

The registry runs on the loop, so each handler is one action. `sessions`,
`mapping` and `created` are `_sessions`, `_client_instances` and the ids assigned;
`peers` is what each adapter knows; `wire` holds the connect requests of which a
copy may still execute; `born` is history, the generation each attempt made. The
adapter is the installed plugin: `render_studio_plugin.py` replaces the connect
loop of the template. It never gives up. When a poll fails it waits for its own
lease to pass and sends `connect(true)`; if that fails, `connect(false)`; then it
begins again, each time under a new id, while copies of earlier requests may still
execute.

| Action | Code |
|---|---|
| `Connect(m)` | `register` (`registry.py` 92-283) in its outcomes: first registration, its retry, document rollover, reconnect, its retry; a refusal changes nothing |
| `Register` | `establishInitialConnection`: `connect(false)` |
| `Reconnect`, `RegisterAfresh` | `restoreConnection`: `connect(true)`, and `connect(false)` after one that failed |
| `Unheard`, `Lapse` | an attempt of which no copy was answered is over; its last copy has executed |
| `OpenDocument` | an adapter that opens another document under its identity, which `register` provides for; the installed plugin takes a new identity |
| `Poll`, `Leave`, `LeaseEnds`, `ExpireLease` | authenticated polls, disconnect, the 30 s lease |
| `GracePasses`, `Sweep` | the 60 s grace, and `snapshots` / `lifecycle_summary`, which expire leases and retire what is positively over |
| `Dispatch`, `Answer`, `Unwind`, `PayOff`, `OpenPlay`, `ChangeMode` | what a session's work leaves behind |

A resume token is the session and generation it was issued for, since every
connection rotates it. A copy of a request that made a connection is gone before
the grace of that connection ends, and before its adapter opens another document:
an attempt lasts at most 34 s, with its retries, and the grace 60 s. Attempts
overlap otherwise in every way. Left out: the check of `broker_instance_id` and the
restart of the broker, which `PlayLifecycle` and `Broker` have; and that
`connect(false)` is withheld while a Play transition is active, which only takes
behaviours away (`PlayLifecycle` has it).

### Broker

`procs` are the broker processes, `queue` what the loop of each has yet to start,
`ops` the requests with their thread, work and what their client was told,
`callers` the processes inside `ensure_broker` or `stop_broker`, and `lock` the
lifecycle lock. An HTTP thread counts its request (`Send`), queues it
(`Submit`), and answers it or gives up (`Reply`, `Deadline`); the loop takes up one
entry at a time (`LoopStep`), the stop's summary among them. `Ask`, `LoopStep` and
`DecideStop` are the stop handler: fence, summary, commit or refusal. The caller's
actions are the stages of `ensure_broker` and `stop_broker` in order. What an
operation does is reduced to: it works, ends, or leaves an unknown outcome.
`Faults` selects a slow process or a deadline (`slow`), a caller or a broker that
is killed (`crash`, `kill`), an answer that cannot be written (`reply`). Left out:
the record `broker.json`, which nothing decides on.

### Transaction

The plugin runs one request at a time and gives way to the user only inside
`UpdateSourceAsync`, before the editor calls back and before the result is read.
An action is therefore what lies between two such points: `Prepare`, `Apply`
(with its preflight), `Update` and `Confirm` for each replacement of a text,
`CreateTarget`, `RemoveTarget`, the ends `Applied`, `Undone` and `Recovered`, and
`Answer`, with which the session reads the receipt. `Cleanup` does not yield and is
one action. The user writes, moves, creates, changes and deletes, and presses Play
in between. A text is named by who wrote it (`orig`, `user`, or a transaction), so
two equal texts of different origin are not told apart: the code compares hashes.
`cause` is history: what the user touched and which faults struck the
transaction at hand. `Faults` selects a deadline that passes (`late`), an editor
that fails (`editor`), an answer that is lost (`lost`), and a grant that expires
(`old`). Left out: a transaction is prepared once; one connection, since a plan is
lost with it and its recovery is then refused; the failure of
`assertExpectedDocument`, which ends the plugin; the user's undo of a deletion.

### Release

A management command is a program: a sequence of named steps, each of which
replaces some files in one atomic write, or checks, stops or starts something
(`Do`). A step can fail (`Fail`), which runs the undo program, and the process can
die between any two (`Crash`); the next command finds what is left. `disk` maps
each file or directory to the release that wrote it. `snaps`, `mark` and `lock`
are the snapshots, the pending marker and the update lock; `mgr` holds where each
manager is and what it read before it had the lock. A directory that is restored
is moved away and its copy moved in, in two steps (`config-`, `config+`). The undo
program of an import goes back by its receipt and then copies the catalogs into
their mirrors (`installer.py` 3755-3768); that of a catalog rollback restores the
bytes it read of each (3895-3917). Release
1 registers under the former server name, release 2 under the present one.
`Drift` is a user's edit of a catalog or a plugin file; `ClientStart`,
`BrokerWorks`, `BrokerRests` are the broker beside it.

## 3. Runs

The bounds of `Session` are the set of operations, the creating edits and
`MaxGeneration`. An operation ends once, so the set is also the bound on
concurrency. Deadlock is not checked in these runs: when every operation, attempt,
call, command or request has ended and nothing is left to lose, the instance is
over.

| Run | Instance | Shows |
|---|---|---|
| `session_recover` | a creating edit, two recoveries, a cleanup; 2 connections | `TypeOK`, `RecoveryOwnsUncertainty`, `UnknownJobHasEvidence`, `CleanupKept`, and under fairness `EveryOperationEnds` |
| `session_two_edits` | two edits, a recovery of either; 3 connections | `UnprovenIsFenced`, `JobVerdictSound`, and the refinement `LedgerSpec` |
| `session_mixed` | an edit, a state read, a write, a Play switch; 2 modes, 2 connections | `ShownCoversObligations`, `TerminalVerdictExact` |
| `play_faults` | two tests, a stop, every fault, 2 connections | `LifecycleTypeOK`, `RecordSound`, `FencedWhileActive`, `OutcomeIsHowItEnded`, `TransitionKeptWhileLive`, and the refinement `PromiseSpec` |
| `play_stop` | the connection kept, replies not lost; expiries, script failures, late prepares | `StopCompletes` |
| `play_settle` | every fault except endless loss | `TestIsSettled` |
| `registry` | one adapter, two documents, two sessions, three attempts | `TypeOK`, `OneConnectionEach`, `AttemptConnectsOnce`, `UnheardIsUnused`, `DebtIsKept`, and under fairness `CurrentIsCompacted` |
| `broker` | two callers of different releases, two requests, two brokers, every fault | `TypeOK`, `StopLosesNothing`, `ExecutedOnce`, `NoCollision`, and under fairness `CallsEnd`, `FenceResolves` |
| `release` | two managers, two releases, three commands, two snapshots, two faults | `TypeOK`, `ReceiptIsOneStepBack`, `MarkerGoesLast`, `SwitchIsJournaled`, `SuccessMeansWhole`, `OutcomeIsTrue` |
| `transaction` | a multi-edit of two scripts and two creations, one of the first script; two steps of the user, two faults, five requests | `TypeOK`, `ReceiptIsTrue`, `UserWorkKept`, `RecoveryHasCause` |

Two further runs, `session_blocked_recovery` and `broker_timed_out`, each show a
counterexample to a sentence of the documentation or of a comment (section 6).

Why the bounds are enough:

* Two recoveries are needed for one to be queued while the receipt of another
  arrives; one cleanup suffices, since a grant names one transaction and a second
  cleanup only repeats the first.
* Two edits are needed for one to be admitted while the other is unproven; with
  three connections an operation can be admitted under a generation that is two
  behind, and a fence can survive a reconnect and be met by a second one.
* One operation of each remaining kind is enough for `session_mixed`: a read, a
  write and a Play switch each hold no state after they end but their uncertain
  request and their job.
* Two transitions suffice for Play: the record is reset by `prepare`, so the
  second shows what is left over from the first (a late `prepare`, a stale plugin,
  a server of an earlier test); a third finds the same record. One stop request
  per transition is what the plugin sends; a repetition is answered alike.
* One adapter suffices for `registry`: an adapter reaches only its own mapping and
  the sessions that carry its name, the sweep aside, which treats each alone. Two
  documents give one rollover. Three attempts give a first registration, a
  `connect(true)` that goes unanswered and the `connect(false)` after it, each with
  copies that come late beside the others. A second reconnect differs in nothing
  but the generation.
* Two callers suffice for `broker`: the lock holds at most one, and the other is
  the one that waits, or is killed. Two brokers are the old and its successor; a
  third would be the successor's. One request of a client and one of an adapter
  give both counters; the first may be a call or a job. The theorems of section 5
  hold for any number.
* Three commands suffice for `release`: two build up a receipt and an interrupted
  switch, the third meets what they left. Two faults allow a second failure in
  what repairs the first.
* In `transaction` the first transaction has two targets of either kind, so that a
  failure has something before it to undo and something after it not to do; the
  second meets what the first left in the script they share. Five requests are
  prepare, apply, recover or cleanup of one and the start of the other.

Reading the properties:

* `UnprovenIsFenced`: an apply that left the broker and has no proven outcome is
  awaited, recorded as uncertain, or named by the recovery fence.
* `RecoveryOwnsUncertainty`: a fence and the uncertain requests beside it name one
  transaction. The exact recovery is admitted only then, so one stray request
  would close the session for good.
* `CleanupKept`: a cleanup that was dispatched keeps its grant until a receipt
  settles it, through deadlines, disconnects and new connections.
* `JobVerdictSound`, `UnknownJobHasEvidence`: a job never reports a failure of an
  edit that may have been applied, and one of unknown outcome can be resolved.
* `ShownCoversObligations`, `TerminalVerdictExact`: the cached reason and the
  cached retirement verdict agree with what is owed.
* `RecordSound`, `TransitionKeptWhileLive`: the acknowledgements under a recorded
  outcome were given, and no call abandons, rebinds or reopens a transition.
* `OutcomeIsHowItEnded`: the recorded outcome is how the test ended in Studio,
  which the broker itself cannot see.
* `PromiseSpec`: the broker says Edit only over a Studio that is not playing.
* `AttemptConnectsOnce`: a repeated, lost or late connect request makes one
  connection, also beside copies of other attempts.
* `UnheardIsUnused`: a connection that its adapter has not heard of is never polled
  and carries no work, so that a fresh registration still hands it over.
* `DebtIsKept`: what an unproven mutation owes leaves a session by an answer, by a
  recovery, or with the whole document.
* `CurrentIsCompacted`: a current session that has left in Edit, owing nothing, does
  not stay, so that its adapter can register again.
* `StopLosesNothing`: a broker that ends because it was asked to drops no request.
  The fence closes admission, but what was admitted before goes on until the
  summary, and answers that arrive after the fence are refused.
* `NoCollision` excepts a caller killed inside its call: its child lives on without
  the lock, and a second broker may find the port taken and end.
* `MarkerGoesLast`, `SwitchIsJournaled`: the files are consistent whenever no marker
  stands, and the installed release changes only under one.
* `SuccessMeansWhole`, `OutcomeIsTrue`: what a command says of itself, success,
  refusal or restoration, is true of the files. Two exceptions are stated in
  `AsItWas`: the user's own edits, and the mirrors, which a failed import leaves
  equal to the catalogs it found. They differ from what it found when an import or
  a catalog rollback died earlier, between the catalogs and their mirrors.
* `ReceiptIsTrue`: a receipt that settles a transaction agrees with Studio at the
  moment it is made.
* `UserWorkKept`: the plugin overwrites only a text that it read or wrote, and
  deletes only an object that it made and nobody touched.
* `RecoveryHasCause`: recovery is asked for because of the user, Play, a deadline or
  the editor, never because of the order of the plugin's own steps; and the
  session's validators accept the receipt.

For each property `PROJECT.json` names a mutant: a plausible slip in one mapped
definition that breaks the property in the same run.

## 4. Fairness

`EveryOperationEnds` assumes, for each operation, weak fairness of taking its turn
(`Begin \/ Refuse`) and of the end of its wait (`Resume \/ Timeout`). The asyncio
loop runs every ready coroutine, and each wait is an `asyncio.wait_for` with a
finite deadline. Nothing is assumed of Studio, of the connection or of a client
that cancels.

`StopCompletes` and `TestIsSettled` assume weak fairness of the plugin's steps, of
the Play server's steps and of the hard watchdog. The first two are loops that
yield only to bounded HTTP calls and timers; the watchdog is armed with
`task.delay` before the server's first request, so it fires whatever the broker
does. No fairness is assumed of faults, of clients or of the broker's sweep.
`play_stop` holds the connection and the replies: a test whose controller is lost
may end by other means, which is `play_settle`. `TestIsSettled` demands that the
test in Studio ends, and counts as an end of its transition also a plugin that
gives up (`peer = "dead"`) and one that asks a broker which forgot the transition
to take it back (`Stranded`). The code fails closed in such states; section 7
lists them.

`CurrentIsCompacted` assumes weak fairness of the sweep (each listing of Studios
and each summary runs it), of a woken waiter, of the grace, and of the end of HTTP
retries. `CallsEnd` and `FenceResolves` assume that the callers and the brokers
run: each wait in `lifecycle.py` has a deadline, the loop takes up what is queued,
and the stop handler ends. Nothing is assumed of requests, faults or kills.

## 5. Proofs

All theorems hold for every set of operations, transactions and requests and
every bound on connections and transitions, and for any number of adapters,
documents, callers, brokers, scripts, creations, managers, commands, snapshots
and faults; they rest on `SessionAssumption`, `PlayAssumption`, `FaultAssumption`,
`RegistryAssumption`, `BrokerAssumption`, `TransactionAssumption` and
`ReleaseAssumption`, which TLC evaluates in the runs. Two of these say something of
names: a transaction is none of the texts that `Transaction` has for a script's
other contents, and releases and reviewed imports are numbered 1 to 9, so that a
catalog's content, `Contract(v, i)`, tells both.

| Theorem | States |
|---|---|
| `SessionInvariant` | `Spec => []FenceInv` |
| `SessionTypes`, `SessionFences`, `SessionRecoverable` | `TypeOK`, `UnprovenIsFenced`, `RecoveryOwnsUncertainty` |
| `GrantInvariant` | `Spec => []GrantInv` |
| `SessionCleanupKept`, `SessionShown`, `SessionTerminalVerdict` | `CleanupKept`, `ShownCoversObligations`, `TerminalVerdictExact` |
| `SessionOrder`, `SessionAnswers`, `SessionJobInvariant` | `Spec => []OrderInv`, `[](OrderInv /\ AnswerInv)`, `[]JobInv` |
| `SessionVerdicts`, `SessionEvidence` | `JobVerdictSound`, `UnknownJobHasEvidence` |
| `SessionRefinesLedger` | `Session` implements `MutationLedger` |
| `BridgeRecordSound` | `RecordSound` for any caller in any order |
| `PlayInvariant` | `LifecycleSpec => []PlayInv` |
| `LifecycleTypes`, `PlayRecordSound`, `PlayFenced`, `PlayOutcomeTrue` | the invariants of `play_faults` |
| `PromiseKept` | `PlayLifecycle` implements `PlayPromise` |
| `BridgeTransitionKept`, `PlayTransitionKept` | `TransitionKept` for any caller, `TransitionKeptWhileLive` for the composition |
| `RegistryHolds` | `Spec => []RegistryInv` |
| `RegistryTypes`, `RegistryOneConnection`, `RegistryConnectsOnce`, `RegistryUnheardUnused`, `RegistryKeepsDebts` | the invariants and the action property of `registry` |
| `BrokerHolds` | `Spec => []BrokerInv` |
| `BrokerTypes`, `BrokerStopLosesNothing`, `BrokerExecutedOnce`, `BrokerNoCollision` | the invariants of `broker` |
| `TransactionKeepsUserWork` | `UserWorkKept` |
| `TransactionInvariant` | `Spec => []TransactionInv` |
| `TransactionTypes`, `TransactionReceiptIsTrue` | `TypeOK`, `ReceiptIsTrue` |
| `ReleaseControl`, `ReleaseJournal` | `Spec => []ControlInv`, `Spec => []JournalInv` |
| `ReleaseTypes`, `ReleaseReceipt` | `TypeOK`, `ReceiptIsOneStepBack` |
| `ReleaseSwitch`, `ReleaseMarker` | `SwitchIsJournaled`, `MarkerGoesLast` |
| `ReleaseOutcomeInvariant`, `ReleaseOutcome` | `Spec => []OutcomeInv`, `OutcomeIsTrue` |
| `ReleaseSuccessInvariant`, `ReleaseSuccess` | `Spec => []SuccessInv`, `SuccessMeansWhole` |

**Session.** `UnprovenIsFenced` is not inductive. A recovery fence is overwritten
when a second request ends badly, and an uncertain request is removed by a late
receipt that proves nothing; both would drop the only trace of a transaction if
they concerned another one. `FenceInv` therefore adds that all that is owed
concerns one transaction, the one the fence names (`OneSubject`), that what is
recorded was dispatched and belongs to an operation past the queue
(`RecordsWereDispatched`, `RequestsHaveOwners`), and that an apply whose success
its waiter has yet to see is settled or fenced (`AnsweredApplyIsSettled`: the
waiter may be interrupted after the receipt). `OneSubject` is preserved because
admission refuses every other mutation while something is owed; the mutant that
lets any recovery through breaks it. The proof has one lemma per group of
actions with the same effect on these parts (`QuietStep`, `DispatchStep`,
`LeaveStep`, `RaiseStep`, `ConnectionStep`, `ReplyStep`), each instantiated for its
actions. For the refinement, a dispatch of an apply is `Open`, a receipt that
settles is `Settle`, and every other action stutters (`LedgerDispatch`,
`LedgerReply`, `LedgerStutter`).

`CleanupKept` is about one step, but what a deadline does to the grant depends on
whose request it was: `GrantInv` adds to `FenceInv` that a cleanup that is owed
still has the grant it was dispatched under, under its transaction and
generation, and that nothing but a cleanup is awaited beside a used grant, so
that neither another request's end nor an answer to one can touch it.

The job verdicts need the history of the wire, in three layers. `OrderInv`: what is
awaited is the last request sent, no request is sent twice, and once it is
answered Studio only repeats its answer. `AnswerInv`: what each way a wait can end
(answer, error, deadline, cancellation, lost connection) leaves recorded, that all
that is owed was admitted under one connection, and that a recovery that was sent
controls its apply for as long as the apply is uncertain (`RecoveryTakesOver`:
the fence names it, under the generation it was admitted in), so that a late
receipt of that apply settles nothing. `JobInv`: an answered or lost job is settled or its request is recorded, and
a job of unknown outcome has a settler of its own, be it a request, a fence or a
used grant. Each layer is preserved given those below it.

**Play.** `BridgeInv` (types, `Sound`, and that no transition means nonce 0) is
inductive for the manager alone. Each of its methods either is *quiet*, keeping
nonce, outcome and activity, or opens, ends or forgets a transition
(`PreparedOpens`, `AbortEnds`, `CompleteEnds`, `RetireForgets`). The composition
needs what the parties know of one another: the plugin's nonce is the
broker's while it is open (`PluginKnows`), a test's reason implies what the
broker acknowledged (`ReasonIsTrue`), what the plugin claims is how the test
ended (`ClaimIsTrue`), and a session that is gone has no record (`GoneForgets`). One
lemma per action gives `PlayInv'` and the step of the promise; `PromiseKept`
combines them. For `TransitionKept`, a call of the manager is a chain of changes
to the record (the expiry it starts with, the change it makes, a stop it binds):
`Follows` relates two records when the second keeps what the first had fixed, is
transitive, and is shown change by change. It needs that an owner of a stop is
never set without the stop (`OwnedStop`).

**Registry.** That an attempt makes one connection depends on the registry still
knowing, whenever a late copy of a request executes, what came of the first. The
invariant says why it does: a request on the wire is about the document its
adapter has open, and of any of its attempts (`Speaks`); each attempt has one
request (`Apart`); and while a copy of a request that made a connection is about,
either it was a registration, whose session is still the adapter's and within its
grace, or a reconnect, whose session has the attempt among those it has seen
(`Recognised`). Nothing is assumed of the order of attempts. `UnheardIsUnused` is
kept because the retry branches, which hand a connection over a second time, need
one that was never polled, and a new connection closes what the last one had in
flight (`Idle`), while everything an adapter does goes over the generation it holds
(`Held`). The 60 s of grace enter as
the guard of `GracePasses`; `GracePassesStep` is the one lemma that uses it. The
other steps either make no connection and send nothing (`FollowStep`), send a
request (`SendStep`), or execute one: `Granting` says what the registry owes an
adapter that may hear the reply or not, the three `...Grants` lemmas show that
each outcome of `register` gives it, and `HearStep` that it suffices. Every lemma
also shows the step of `DebtIsKept` (`Kept`).

**Broker.** `StopLosesNothing` speaks of the end; the invariant must say why there is
less and less to lose from the fence on (`StopInv`): a fence goes up over no
request whose thread waits, so nothing is admitted and not yet queued; a stop is
the last entry of its queue (`QueueInv`: nothing enters behind a fence, and each
entry is there once), so that when the loop takes it up the queue is empty; a safe
summary then means that nothing is unsettled, and no action unsettles anything
while the fence stands. `ExecutedOnce` follows from the entries being distinct and
from `OpsInv`, which says how far a request can be. `NoCollision` rests on
`StartInv`: unless a caller was killed, a process that is starting has a caller
that waits for it, and one who has seen the port closed sees no process alive,
since the lock keeps all others out. The proof has one lemma per action, over two
halves (`BrokerPart`, `CallerPart`) of which most actions disturb one.

**Transaction.** That the user's work is kept needs no history: it follows step by
step from what each handler looks at in the very step in which it writes, and the
shape of the plan and of the work; the proof has one lemma per writing action.
That a receipt is true does: it is made many steps after the first script was
looked at, and the user edits in between. `TransactionInv` adds the texts that
anybody can have written, that nothing is left of a plan that is not being
applied, how far an apply or a recovery has come (each script before the cursor is
as it should be or touched by the user since), and that the creations under the
cleanup grant were all made. `ReceiptIsTrue` then reads off the last state of each
work.

**Release.** A command is a program of named steps, so the invariants are about
positions: `Left` is how many steps a command has to go. `ControlInv` says, for
the command that holds the lock, at which position of which program it is, and
what the rest of that program needs: a marker to read, a snapshot that is there, a
receipt to go back by. It makes `TypeOK` inductive: a step that reads a snapshot
has one. `JournalInv` says what the files tell. With no marker the receipt names
the installed release and a whole snapshot of the previous one (`AtRest`); under a
marker its snapshot is settled and of the release before the switch
(`MarkSound`); and each program has written what its later steps assume
(`UpdateJournal`, `RollbackJournal`, `RecoverJournal`, `UndoJournal`,
`InstallJournal`, `CatalogJournal`). `ReceiptIsOneStepBack` alone is not inductive: a repair
that clears a marker makes a receipt valid again that an interrupted switch had
overwritten, and only the snapshot says that it does. Most steps only move along a
program and write files of which the journal says nothing (`KeepsJournal`); the
others have a lemma each. A failed step turns to the undo program (`BreakTurns`),
and a process that dies leaves whatever its position had reached, which is why
`MarkSound` and `AtRest` hold between any two steps and not only at the ends.
`SwitchIsJournaled` and `MarkerGoesLast` follow from `JournalInv` by the steps that
write the install state and that clear the marker. `OutcomeInv` says where what a
command found still is: in the files before its first write (`AsFound`,
`SameFiles`, which allow for the user's edits), in the snapshot of the marker
during a switch (`SnapAsFound`), and for a catalog command in the files that the
rest of its undo program does not put back (`ToUndo`, which loses a file with each
step). The undo of an import puts no mirror back: it copies the catalogs, which are
back by then (`MirrorUndoAt`), so a mirror ends as it was found or equal to the
catalog that was found (`Copied`). An undo program that has come to its end has nothing left to put back, which
is `OutcomeIsTrue`; for a switch this needs `JournalInv`, since the restored files
are like the snapshot and the snapshot is what the command found.
`SuccessInv` says what each program has achieved at each of its positions:
an install has written, in order, what `doctor` will look at; a catalog command has
a catalog of its own release, then mirrors that agree with it, then an ownership
state that names it, then a broker that serves it. An update and a rollback are
whole by `JournalInv`, from the step that runs doctor on. Two of the facts concern
every state and not only the running command: an ownership state, also one in a
snapshot or in a command's memory, names a catalog of its own release and a plugin
(`OwnSound`), and an import receipt goes from a catalog to one of the same release
(`ImportsSound`). Without the first a repair that keeps the owned bytes could
install the catalog of another release; without the second a catalog rollback
could bring one back. That the bytes a repair keeps are the same for a file and its
mirror, though one is written before the other is read again, is `KeptTwice`.

## 6. Disagreements found

| Run | Document or comment | Code |
|---|---|---|
| `session_blocked_recovery` | the caller of a session quarantined for recovery may recover (`docs/PROTOCOL.md` 288-300) | an available cleanup grant refuses the recovery, and the fence refuses the cleanup |
| `broker_timed_out` | queued work does not run after its caller was told of a timeout (`http_api.py` 224-225) | the cancellation reaches the loop after the task's first step was scheduled, which then runs |

Further configurations beside the runs show disagreements of the same kind; TLC
refutes the property of each (`tlc -config <cfg> <module>`):

| Configuration | Property | Document or comment | Code |
|---|---|---|---|
| `MCSessionLateFence.cfg` | `ReceiptIsNotMisclassified` | the receipt "proves the remote operation reached a terminal state", so it cannot be misclassified (`session.py` 5903-5905) | a waiter interrupted after the receipt raises a recovery fence for the proven transaction |
| `MCSessionLateTimer.cfg` | `UncertainMeansUnproven` | `uncertain_requests` holds calls "whose terminal outcome has not been proven" (`session.py` 1071-1073) | the timeout branch does not ask whether the future is done, as the cancellation branch does |
| `MCSessionSettledIds.cfg` | `SettledReconnectLiftsQuarantine` | a reconnect that names the request lifts the quarantine (`docs/PROTOCOL.md` 108-111) | an apply, a recovery and a cleanup are never settled by name |
| `MCPlayExpiry.cfg` | `ExpiryIsRecoveryOnly` | expiry "marks it recovery-only" (`docs/PROTOCOL.md` 457-458) | expiry binds a stop; only lost control marks it recovery-only |
| `MCPlayReceipt.cfg` | `EndTestAfterReceipt` | the stop is acknowledged before `EndTest` (`docs/PROTOCOL.md` 431-434) | the hard watchdog ends the test with an unacknowledged stop |
| `MCReleaseRecovery.cfg` | `RecoveryIsRefusedForCause` | repair takes back an interrupted transaction unless a broker is at work (`README.md` 303-308) | a crash between the two renames of `config` leaves no `runtime.json`, without which the next repair cannot ask the broker to stop and refuses |
| `MCTransactionReceipt.cfg` | `ReceiptsAreAccepted` | the validators describe the plugin's receipts (`session.py` 4627-4818) | a creation that could not be undone and that the user deletes meanwhile is reported `absent` and `recovery_required`, which the validator rejects; the session quarantines the receipt, and a recovery succeeds |

Those of `Session` leave it more cautious than it need be; none loses a mutation,
which is what `UnprovenIsFenced` proves.

Met while reading, and not the property of a run:

* `docs/ARCHITECTURE.md` 284-289 has every disconnected session that owes nothing
  compacted after its grace. A document rollover (`registry.py` 169-173) leaves the
  older record with a reason that `_terminal_disconnected_is_safe` takes for an
  uncertainty: it is never compacted, and `lifecycle_summary` stays unsafe, so that
  a stop is refused for as long as the broker lives. `CurrentIsCompacted` is about
  current sessions for this reason; `TerminalIsCompacted` states the document's
  sentence.
* A cleanup dispatched after the plugin's grant expired and before the session's is
  refused, and the session keeps `cleanup_required` until the connection is closed.
* Releases: a crash in the middle of an uninstall or of a first install leaves an
  installation that neither uninstall nor repair accepts; catalog import, catalog
  rollback and uninstall do not look at the pending marker, so an import over one
  is taken back by the next repair; a crash during a second catalog import leaves a
  catalog half packaged and half reviewed, which repair completes and doctor
  passes; a drift of the catalog while an update runs makes a snapshot that
  never passes doctor again; a failed switch restores the files without stopping a
  broker that has started meanwhile, and doctor does not compare what it serves.
* Repair that repins a moved Python (`README.md` 315-318) and is interrupted between
  the launchers and the install state is refused from then on
  (`installer.py` 2622-2627); a crash of `--rotate-secrets` after `secrets.json` and
  before the plugin is not noticed (`docs/DURABLE_PLUGIN.md` 190). Neither is
  modelled.

## 7. Limits

Only model-checked: liveness (`EveryOperationEnds`, `StopCompletes`,
`TestIsSettled`, `CurrentIsCompacted`, `CallsEnd`, `FenceResolves`), which the
prover does not reach; and `RecoveryHasCause` of `Transaction`, which needs that the
session's validators accept every receipt but two.

States in which the Play code gives up or never gets on, and stays fenced,
reachable in `play_faults`, about which no property promises an end:

* the broker restarts while a transition is open: it refuses `connect(true)` for
  ever, and `connect(false)` is sent only without a transition
  (`render_studio_plugin.py` 416-453). The plugin stays in `restoreConnection`: it
  neither classifies and completes the test nor gives it up, though Studio has
  ended it (`docs/DURABLE_PLUGIN.md` 195-201);
* every reply to a reconnect is lost while a transition is open: the token is
  rotated away, and the plugin stays outside in the same way;

* every reply to `prepare` is lost, or a delayed `prepare` opens a transition no
  plugin knows;
* the lifetime ends before a failed abort is repeated: the stop it binds makes the
  abort impossible;
* the Play server handles an expiry's stop before the plugin learns its id, or
  the hard watchdog races a stop of the controller: the plugin cannot correlate
  the return;
* the reply to `complete` is lost and the session is retired before the retry.

A state in which the connect loop of the plugin never gets on, reachable in
`registry`: a copy of `connect(true)` executes after the `connect(false)` that
followed it was answered, and makes a generation that the adapter does not know
of, so that its polls fail. `connect(false)` hands the connection over until its
lease ends. After that the registry takes neither the old token nor a fresh
registration of the same document, and the adapter stays out until the session is
compacted, which a session that owes something never is. Nothing is lost over it
(`UnheardIsUnused`, `DebtIsKept`).

### Not modelled

* The limits, compaction and tombstones of the job table: bookkeeping of one loop
  over jobs that have ended. A table full of jobs of unknown outcome refuses new
  ones; `UnknownJobHasEvidence` shows that each such job can still be settled.
* The plugin's cache of answers: the queue of a connection is popped, so no request
  reaches the plugin twice and an eviction cannot repeat one.
* The validators of reads, catalog and schema validation, and the normalisation of
  multi-edit arguments: functions of one document, without state. The validators of
  multi-edit receipts are operators of `Transaction`.
* The choice of Python, the rotation of secrets, the parsing of the Codex
  configuration, downloads and archives: I/O before or beside the switch that
  `Release` models.
* Policy, errors, the mock Studio, builders, audits, proofs of releases, the native
  compile check and the developer scripts: stateless, or batch programs with
  nothing beside them.

## 8. Plan

1. A proof of `RecoveryHasCause`, with the validity of receipts.
2. The admission chain of `Session` as a refinement of a FIFO lock.
3. The rotation of secrets and of the Python executable as steps of `Release`.
4. Several connections in `Transaction`, with a plan that is lost.

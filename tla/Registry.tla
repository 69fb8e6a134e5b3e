------------------------------- MODULE Registry -------------------------------
(***************************************************************************)
(* The broker's SessionRegistry (studio_mcp_v2/registry.py) against the    *)
(* adapters that register with it: first registration, reconnect, document *)
(* rollover, leases, retirement.  An adapter, the installed plugin of      *)
(* render_studio_plugin.py, sends one connect request per logical attempt, *)
(* repeats it over HTTP a few times, and then makes another attempt, for   *)
(* as long as it lives; each reply may be lost, and a copy may execute     *)
(* long after its attempt is over, beside copies of other attempts.  The   *)
(* registry runs on one loop, so each handler is one action.               *)
(*                                                                         *)
(* A connect rotates the resume token, so a token is known by the session  *)
(* and the generation it was issued for.  The Studio work of a session is  *)
(* reduced to what it owes: Session and PlayLifecycle say how it comes to  *)
(* owe it.                                                                 *)
(***************************************************************************)
EXTENDS Naturals, FiniteSets

CONSTANTS
  Adapter,      \* client_instance_ids, each with its registration secret
  MaxEpoch,     \* bound on the documents an adapter opens
  MaxSession,   \* bound on the sessions ever created
  MaxAttempt    \* bound on the logical connect attempts of an adapter

ASSUME RegistryAssumption ==
  /\ MaxEpoch \in Nat \ {0} /\ MaxSession \in Nat \ {0} /\ MaxAttempt \in Nat \ {0}

Ids == 1..MaxSession
Attempts == 1..MaxAttempt

(* What a session can owe: a dispatched call or mutation of unknown        *)
(* outcome, a recovery fence, an open Play transition.                     *)
Debts == {"call", "edit", "fence", "play"}
Uncertain == {"call", "edit"}      \* the debts kept in uncertain_requests

NoSession == [client |-> "none"]
Sessions ==
  [client : Adapter, epoch : 1..MaxEpoch, generation : Attempts, connected : BOOLEAN,
   stale : BOOLEAN, polled : BOOLEAN, retry : 0..MaxAttempt, prior : 0..MaxAttempt,
   used : SUBSET Attempts, work : {"none", "call", "edit"}, lost : BOOLEAN,
   owes : SUBSET Debts, edit : BOOLEAN, candidate : BOOLEAN,
   state : {"clear", "owing", "reason", "retired"}, grace : BOOLEAN]

(* A connect request; sid 0 registers afresh.                              *)
Requests == [client : Adapter, attempt : Attempts, epoch : 1..MaxEpoch,
             sid : 0..MaxSession, token : 0..MaxAttempt, settled : SUBSET Uncertain]

(* What an adapter knows: its phase, document, session and generation.  It *)
(* waits for connect(false) or for connect(true), or for its next attempt. *)
Waiting == {"connecting", "reconnecting"}
Peers == [phase : Waiting \cup {"new", "connected", "restoring", "refused", "left", "dead"},
          epoch : 1..MaxEpoch, sid : 0..MaxSession, generation : 0..MaxAttempt,
          attempt : 0..MaxAttempt]

VARIABLES
  sessions,   \* _sessions, by server-assigned id
  mapping,    \* _client_instances: each adapter's current session, or 0
  created,    \* number of ids assigned
  peers,      \* the adapters
  wire,       \* connect requests, copies of which may still execute
  born        \* history: the generation that each attempt made

vars == <<sessions, mapping, created, peers, wire, born>>

Live == {s \in Ids : sessions[s] # NoSession}

-----------------------------------------------------------------------------
(* The session's own bookkeeping                                           *)

(* _refresh_uncertainty: owed work is named, else the caller's reason.     *)
Refreshed(r, fallback) ==
  [r EXCEPT !.state = IF r.owes \cap (Uncertain \cup {"fence"}) # {} THEN "owing"
                      ELSE fallback]

(* Mutant: the verdict is taken, the reason of the connection stays.       *)
RecomputedWithReason(r) ==
  Refreshed([r EXCEPT !.candidate = r.edit /\ r.owes = {} /\ r.work = "none"], "reason")

(* _recompute_terminal_disconnect_candidate, of a disconnected session.    *)
Recomputed(r) ==
  LET safe == r.edit /\ r.owes = {} /\ r.work = "none"
  IN  Refreshed([r EXCEPT !.candidate = safe], IF safe THEN "clear" ELSE "reason")

(* Mutant: a connection that is lost while nothing runs owes its request.  *)
DisconnectedAlways(r) ==
  Recomputed([r EXCEPT !.connected = FALSE, !.grace = FALSE, !.lost = (r.work # "none"),
                       !.owes = @ \cup {r.work}])

(* _disconnect_current: a dispatched request becomes uncertain, and its    *)
(* waiter, which holds the lock, has yet to find out.                      *)
Disconnected(r) ==
  Recomputed([r EXCEPT !.connected = FALSE, !.grace = FALSE,
                       !.lost = (r.work # "none"),
                       !.owes = IF r.work # "none" /\ ~r.lost THEN @ \cup {r.work} ELSE @])

Expired(r) == IF r.connected /\ r.stale THEN Disconnected(r) ELSE r

(* _terminal_disconnected_is_safe                                          *)
SafeToRetire(r) ==
  /\ ~r.connected /\ r.candidate /\ r.edit /\ r.work = "none"
  /\ r.owes = {} /\ r.state = "clear"

-----------------------------------------------------------------------------
(* register                                                                *)

Current(a) == mapping[a]

NewSession(m, edit) ==
  [client |-> m.client, epoch |-> m.epoch, generation |-> 1, connected |-> TRUE,
   stale |-> FALSE, polled |-> FALSE, retry |-> 0, prior |-> 0, used |-> {},
   work |-> "none", lost |-> FALSE, owes |-> {}, edit |-> edit, candidate |-> FALSE,
   state |-> "clear", grace |-> FALSE]

(* The retry of a first registration, until the first poll.                *)
FirstRetried(m) ==
  /\ m.sid = 0 /\ Current(m.client) # 0
  /\ LET r == sessions[Current(m.client)]
     IN  r.epoch = m.epoch /\ r.connected /\ ~r.polled

(* Mutant: a fresh registration replaces a session of the same document.   *)
ReplaceableBySame(m) ==
  LET r == sessions[Current(m.client)]
  IN  /\ Current(m.client) # 0 /\ ~r.connected
      /\ r.owes \cap Uncertain \subseteq m.settled /\ "play" \notin r.owes

(* Mutant: a document is rolled over under a live connection.              *)
ReplaceableLive(m) ==
  LET r == sessions[Current(m.client)]
  IN  /\ Current(m.client) # 0 /\ r.epoch # m.epoch
      /\ r.owes \cap Uncertain \subseteq m.settled /\ "play" \notin r.owes

(* The older document may go: it is disconnected, every request of unknown *)
(* outcome is named as settled, and no Play transition is open.            *)
Replaceable(m) ==
  LET r == sessions[Current(m.client)]
  IN  /\ Current(m.client) # 0 /\ r.epoch # m.epoch /\ ~r.connected
      /\ r.owes \cap Uncertain \subseteq m.settled /\ "play" \notin r.owes

RolledOver(r, m) == Refreshed([r EXCEPT !.owes = @ \ m.settled], "retired")

Registers(m) ==
  /\ m.sid = 0 /\ created < MaxSession
  /\ Current(m.client) = 0 \/ Replaceable(m)

RegisterEffect(m, edit) ==
  LET old == Current(m.client)
      s   == created + 1
  IN  /\ sessions' = [t \in Ids |-> IF t = s THEN NewSession(m, edit)
                                    ELSE IF t = old THEN RolledOver(sessions[t], m)
                                    ELSE sessions[t]]
      /\ mapping' = [mapping EXCEPT ![m.client] = s]
      /\ created' = s
      /\ born' = born \cup {[client |-> m.client, attempt |-> m.attempt, sid |-> s,
                             generation |-> 1]}

(* A request that may speak for the session at all.                        *)
Names(m) == /\ m.sid \in Live /\ sessions[m.sid].client = m.client
            /\ Current(m.client) = m.sid

(* The retry of a reconnect whose reply was lost: the same attempt, with   *)
(* the token of the generation before, until the first poll.               *)
ReconnectRetried(m) ==
  /\ Names(m)
  /\ LET r == sessions[m.sid]
     IN  r.connected /\ ~r.polled /\ r.retry = m.attempt /\ r.prior = m.token

(* Possession of the current token, for an attempt not seen before, of a   *)
(* connection that is closed or whose lease is over.                       *)
Proves(m) == LET r == sessions[m.sid]
             IN  /\ m.token = r.generation /\ m.epoch = r.epoch
                 /\ m.attempt \notin r.used

Reconnects(m) ==
  /\ Names(m) /\ ~ReconnectRetried(m) /\ Proves(m)
  /\ ~sessions[m.sid].connected \/ sessions[m.sid].stale
  /\ sessions[m.sid].generation < MaxAttempt

(* Mutant: a name settles whatever it names.                               *)
ReplacedAndSettled(r, m, edit) ==
  LET d == Disconnected(r)
  IN  Refreshed([d EXCEPT !.generation = @ + 1, !.connected = TRUE, !.stale = FALSE,
                          !.polled = FALSE, !.retry = m.attempt, !.prior = r.generation,
                          !.used = @ \cup {m.attempt}, !.edit = edit,
                          !.owes = @ \ m.settled, !.candidate = FALSE,
                          !.grace = FALSE], "clear")

(* Mutant: the new connection counts as polled.                            *)
ReplacedStillPolled(r, m, edit) ==
  LET d == Disconnected(r)
  IN  Refreshed([d EXCEPT !.generation = @ + 1, !.connected = TRUE, !.stale = FALSE,
                          !.retry = m.attempt, !.prior = r.generation,
                          !.used = @ \cup {m.attempt}, !.edit = edit,
                          !.owes = @ \ (m.settled \ {"edit"}), !.candidate = FALSE,
                          !.grace = FALSE], "clear")

(* replace_connection: a name settles a call, never a mutation.            *)
Replaced(r, m, edit) ==
  LET d == Disconnected(r)
  IN  Refreshed([d EXCEPT !.generation = @ + 1, !.connected = TRUE, !.stale = FALSE,
                          !.polled = FALSE, !.retry = m.attempt, !.prior = r.generation,
                          !.used = @ \cup {m.attempt}, !.edit = edit,
                          !.owes = @ \ (m.settled \ {"edit"}), !.candidate = FALSE,
                          !.grace = FALSE], "clear")

ReconnectEffect(m, edit) ==
  LET r == Replaced(sessions[m.sid], m, edit)
  IN  /\ sessions' = [sessions EXCEPT ![m.sid] = r]
      /\ born' = born \cup {[client |-> m.client, attempt |-> m.attempt, sid |-> m.sid,
                             generation |-> r.generation]}
      /\ UNCHANGED <<mapping, created>>

(* The registration that the reply names.                                  *)
Granted(m) == IF m.sid = 0 THEN [sid |-> Current(m.client)', generation |->
                                 sessions'[Current(m.client)'].generation]
              ELSE [sid |-> m.sid, generation |-> sessions'[m.sid].generation]

(* The reply reaches the adapter if it still waits for this attempt; a     *)
(* reconnect must have advanced the generation.                            *)
Hears(m) ==
  LET p == peers[m.client]
      g == Granted(m)
  IN  /\ p.phase \in Waiting /\ p.attempt = m.attempt
      /\ peers' = [peers EXCEPT ![m.client] =
           IF m.sid # 0 /\ g.generation <= p.generation
           THEN [p EXCEPT !.phase = "refused"]
           ELSE [p EXCEPT !.phase = "connected", !.sid = g.sid,
                          !.generation = g.generation]]

(* A copy of a connect request executes and succeeds; its reply is heard   *)
(* or lost.  One that the registry refuses changes nothing.                *)
Connect(m) ==
  /\ m \in wire
  /\ \E edit \in BOOLEAN :
       \/ FirstRetried(m) /\ UNCHANGED <<sessions, mapping, created, born>>
       \/ ~FirstRetried(m) /\ Registers(m) /\ RegisterEffect(m, edit)
       \/ ReconnectRetried(m) /\ UNCHANGED <<sessions, mapping, created, born>>
       \/ Reconnects(m) /\ ReconnectEffect(m, edit)
  /\ Hears(m) \/ UNCHANGED peers
  /\ UNCHANGED wire

-----------------------------------------------------------------------------
(* The adapter                                                             *)

(* A session has one request at a time: if there is one, its adapter names *)
(* it as settled or does not.                                              *)
Reports(s) ==
  IF s \in Live /\ (sessions[s].work # "none" \/ sessions[s].owes \cap Uncertain # {})
  THEN {{}, Uncertain} ELSE {{}}

(* An attempt: one request, whose copies carry the same reconnect id.      *)
Send(a, phase, epoch, sid, token, settled) ==
  /\ peers[a].attempt < MaxAttempt
  /\ peers' = [peers EXCEPT ![a].phase = phase, ![a].epoch = epoch, ![a].attempt = @ + 1]
  /\ wire' = wire \cup {[client |-> a, attempt |-> peers[a].attempt + 1, epoch |-> epoch,
                         sid |-> sid, token |-> token, settled |-> settled]}
  /\ UNCHANGED <<sessions, mapping, created, born>>

(* establishInitialConnection: connect(false), until it is heard.          *)
Register(a) ==
  /\ peers[a].phase = "new"
  /\ Send(a, "connecting", peers[a].epoch, 0, 0, {})

(* A poll failed, the plugin has waited for its own lease to pass, and     *)
(* restoreConnection sends connect(true) with the token it has: every time *)
(* under a new id, whatever became of the attempts before.                 *)
Reconnect(a) ==
  /\ peers[a].phase \in {"connected", "restoring", "refused"}
  /\ \E settled \in Reports(peers[a].sid) :
       Send(a, "reconnecting", peers[a].epoch, peers[a].sid, peers[a].generation, settled)

(* After a connect(true) that failed, connect(false), unless a Play        *)
(* transition is active or uncertain.                                      *)
RegisterAfresh(a) ==
  /\ peers[a].phase = "refused"
  /\ Send(a, "connecting", peers[a].epoch, 0, 0, {})

(* The adapter opens another document under its identity, with or without  *)
(* leaving the one it has, which takes longer than a copy of an earlier    *)
(* request may be late.  (The installed plugin takes a new identity.)      *)
OpenDocument(a) ==
  /\ peers[a].phase \in {"left", "connected"} /\ peers[a].epoch < MaxEpoch
  /\ ~\E m \in wire : m.client = a
  /\ \E settled \in Reports(peers[a].sid) :
       Send(a, "connecting", peers[a].epoch + 1, 0, 0, settled)

(* No copy of the request was answered in time: the attempt is over.       *)
Unheard(a) ==
  /\ peers[a].phase \in Waiting
  /\ peers' = [peers EXCEPT ![a].phase =
       CASE @ = "reconnecting" -> "refused"
         [] @ = "connecting" /\ peers[a].sid = 0 -> "new"
         [] OTHER -> "restoring"]
  /\ UNCHANGED <<sessions, mapping, created, wire, born>>

(* The last copy of a request whose attempt is over has executed.          *)
Lapse(m) ==
  /\ m \in wire
  /\ peers[m.client].phase \notin Waiting \/ peers[m.client].attempt # m.attempt
  /\ wire' = wire \ {m}
  /\ UNCHANGED <<sessions, mapping, created, peers, born>>

(* authenticate_studio, of an adapter that speaks for its generation.      *)
Authentic(a) ==
  LET p == peers[a]
  IN  /\ p.phase = "connected" /\ p.sid \in Live
      /\ Expired(sessions[p.sid]).connected
      /\ sessions[p.sid].generation = p.generation

Update(s, r) == /\ sessions' = [sessions EXCEPT ![s] = r]
                /\ UNCHANGED <<mapping, created, peers, wire, born>>

Poll(a) ==
  /\ Authentic(a)
  /\ Update(peers[a].sid, [sessions[peers[a].sid] EXCEPT !.polled = TRUE, !.stale = FALSE,
                                                        !.retry = 0, !.prior = 0])

Leave(a) ==
  /\ Authentic(a)
  /\ sessions' = [sessions EXCEPT ![peers[a].sid] = Disconnected(@)]
  /\ peers' = [peers EXCEPT ![a].phase = "left"]
  /\ UNCHANGED <<mapping, created, wire, born>>

(* An adapter that crashes says nothing; one that crashes in another phase *)
(* takes no step any more.                                                 *)
Crash(a) ==
  /\ peers[a].phase = "connected"
  /\ peers' = [peers EXCEPT ![a].phase = "dead"]
  /\ UNCHANGED <<sessions, mapping, created, wire, born>>

-----------------------------------------------------------------------------
(* The session's work, reduced to what it leaves behind                    *)

Dispatch(s, k) ==
  /\ s \in Live /\ sessions[s].connected /\ sessions[s].polled
  /\ sessions[s].work = "none" /\ sessions[s].owes = {}
  /\ Update(s, [sessions[s] EXCEPT !.work = k])

Answer(s) ==
  /\ s \in Live /\ sessions[s].connected /\ sessions[s].work # "none" /\ ~sessions[s].lost
  /\ Update(s, [sessions[s] EXCEPT !.work = "none"])

(* The waiter of a request that was lost resumes and lets go of the lock;  *)
(* a mutation leaves a recovery fence.                                     *)
Unwind(s) ==
  /\ s \in Live /\ sessions[s].lost
  /\ LET r == [sessions[s] EXCEPT !.lost = FALSE, !.work = "none",
                 !.owes = IF sessions[s].work = "edit" THEN @ \cup {"fence"} ELSE @]
     IN  Update(s, IF r.connected THEN Refreshed(r, IF r.state = "owing" THEN "clear" ELSE r.state)
                   ELSE Recomputed(r))

(* An exact recovery, a settled call or a finished test of a live session. *)
PayOff(s, d) ==
  /\ s \in Live /\ sessions[s].connected /\ ~sessions[s].lost
  /\ d \in sessions[s].owes
  /\ Update(s, Refreshed([sessions[s] EXCEPT !.owes = @ \ {d}], "clear"))

OpenPlay(s) ==
  /\ s \in Live /\ sessions[s].connected /\ sessions[s].polled /\ sessions[s].owes = {}
  /\ Update(s, [sessions[s] EXCEPT !.owes = {"play"}])

(* Nothing looks at the mode of a session that works or owes.              *)
ChangeMode(s) ==
  /\ s \in Live /\ sessions[s].connected
  /\ sessions[s].work = "none" /\ sessions[s].owes = {}
  /\ Update(s, [sessions[s] EXCEPT !.edit = ~@])

-----------------------------------------------------------------------------
(* Time and the sweep                                                      *)

LeaseEnds(s) ==
  /\ s \in Live /\ sessions[s].connected /\ ~sessions[s].stale
  /\ Update(s, [sessions[s] EXCEPT !.stale = TRUE])

(* require: a tool call that finds the lease over.                         *)
ExpireLease(s) ==
  /\ s \in Live /\ sessions[s].connected /\ sessions[s].stale
  /\ Update(s, Expired(sessions[s]))

(* The grace of 60 s outlives every copy of a request that made a          *)
(* connection: an attempt is over after at most 34 s of HTTP retries.      *)
GracePasses(s) ==
  /\ s \in Live /\ ~sessions[s].connected /\ ~sessions[s].grace
  /\ ~\E m \in wire, b \in born : m.client = sessions[s].client /\ b.client = m.client
                               /\ b.attempt = m.attempt
  /\ Update(s, [sessions[s] EXCEPT !.grace = TRUE])

(* snapshots and lifecycle_summary: leases expire, then what is positively *)
(* terminal is compacted and its adapter may register again.               *)
Sweep ==
  LET after == [s \in Ids |-> IF s \in Live THEN Expired(sessions[s]) ELSE NoSession]
      gone  == {s \in Live : after[s].grace /\ SafeToRetire(after[s])}
  IN  /\ sessions' = [s \in Ids |-> IF s \in gone THEN NoSession ELSE after[s]]
      /\ mapping' = [a \in Adapter |-> IF mapping[a] \in gone THEN 0 ELSE mapping[a]]
      /\ UNCHANGED <<created, peers, wire, born>>

-----------------------------------------------------------------------------
Init ==
  /\ sessions = [s \in Ids |-> NoSession]
  /\ mapping = [a \in Adapter |-> 0]
  /\ created = 0
  /\ peers = [a \in Adapter |-> [phase |-> "new", epoch |-> 1, sid |-> 0,
                                 generation |-> 0, attempt |-> 0]]
  /\ wire = {} /\ born = {}

Next ==
  \/ \E a \in Adapter : \/ Register(a) \/ Reconnect(a) \/ RegisterAfresh(a)
                        \/ OpenDocument(a) \/ Unheard(a)
                        \/ Poll(a) \/ Leave(a) \/ Crash(a)
  \/ \E m \in wire : Connect(m) \/ Lapse(m)
  \/ \E s \in Ids : \/ \E k \in Uncertain : Dispatch(s, k)
                    \/ Answer(s) \/ Unwind(s) \/ \E d \in Debts : PayOff(s, d)
                    \/ OpenPlay(s) \/ ChangeMode(s)
                    \/ LeaseEnds(s) \/ ExpireLease(s) \/ GracePasses(s)
  \/ Sweep

Spec == Init /\ [][Next]_vars

(* The broker's callers keep asking for the list of Studios; a coroutine   *)
(* that was woken runs; HTTP retries and the grace period end.             *)
Fairness ==
  /\ WF_vars(Sweep)
  /\ \A s \in Ids : WF_vars(Unwind(s)) /\ WF_vars(GracePasses(s))
  /\ WF_vars(\E m \in wire : Lapse(m)) /\ \A a \in Adapter : WF_vars(Unheard(a))

FairSpec == Spec /\ Fairness

-----------------------------------------------------------------------------
(* Every variable keeps its type.                                          *)
TypeOK ==
  /\ sessions \in [Ids -> Sessions \cup {NoSession}]
  /\ mapping \in [Adapter -> 0..MaxSession]
  /\ created \in 0..MaxSession
  /\ peers \in [Adapter -> Peers]
  /\ wire \subseteq Requests
  /\ born \subseteq [client : Adapter, attempt : Attempts, sid : Ids, generation : Attempts]

(* An adapter has one current session, and no other session of its is      *)
(* connected: a document that was rolled over never speaks again.          *)
OneConnectionEach ==
  /\ \A a \in Adapter : mapping[a] # 0 =>
       mapping[a] \in Live /\ sessions[mapping[a]].client = a
  /\ \A s \in Live : sessions[s].connected => mapping[sessions[s].client] = s

(* However often a connect request is repeated, lost or delayed, it makes  *)
(* one connection: no second session, no second generation.                *)
AttemptConnectsOnce ==
  \A x, y \in born : x.client = y.client /\ x.attempt = y.attempt => x = y

(* A late copy of a reconnect, or one whose reply was lost, makes a        *)
(* connection that its adapter does not know of.  Nothing is ever done     *)
(* over it: it is not polled and no request goes out on it, so that a      *)
(* fresh registration still hands it over, until its lease ends.           *)
Holds(a) == /\ peers[a].sid = mapping[a]
            /\ peers[a].generation = sessions[mapping[a]].generation
UnheardIsUnused ==
  \A a \in Adapter :
    mapping[a] # 0 /\ ~Holds(a) =>
      LET r == sessions[mapping[a]]
      IN  ~r.polled /\ (r.work = "none" \/ r.lost)

(* A mutation of unknown outcome and its fence leave a session only by an  *)
(* answer, a recovery, or with the whole document: a reconnect, a lease    *)
(* that ends and the sweep forget neither.                                 *)
DebtIsKept ==
  [][\A s \in Live : {"edit", "fence"} \cap sessions[s].owes # {} =>
       \/ \E d \in Debts : PayOff(s, d)
       \/ /\ s \in Live'
          /\ \/ {"edit", "fence"} \cap sessions[s].owes \subseteq sessions'[s].owes
             \/ mapping'[sessions[s].client] > s]_vars

(* A current session that has left, in Edit and owing nothing, is          *)
(* compacted, unless its adapter comes back: its adapter is never kept out *)
(* by a record of a connection that is over.                               *)
TerminalOf(s) ==
  s \in Live /\ ~sessions[s].connected /\ sessions[s].edit /\ sessions[s].owes = {}
CurrentIsCompacted ==
  \A s \in Ids : (TerminalOf(s) /\ mapping[sessions[s].client] = s)
                   ~> (~TerminalOf(s) \/ mapping[sessions[s].client] # s)

(* What docs/ARCHITECTURE.md says of every record in that state: it is     *)
(* compacted after a bounded grace period.                                 *)
TerminalIsCompacted == \A s \in Ids : TerminalOf(s) ~> ~TerminalOf(s)
=============================================================================

---------------------------- MODULE RegistryProofs ----------------------------
(***************************************************************************)
(* Proofs about Registry, for any number of adapters, documents, sessions  *)
(* and attempts: an adapter has one connection, an attempt makes one, none *)
(* is used that its adapter does not know of, and what an unproven         *)
(* mutation owes is kept.                                                  *)
(***************************************************************************)
EXTENDS Registry, TLAPS

SessionsType == sessions \in [Ids -> Sessions \cup {NoSession}]
MappingType == mapping \in [Adapter -> 0..MaxSession] /\ created \in 0..MaxSession
PeersType == peers \in [Adapter -> Peers]
WireType == wire \subseteq Requests
Birth == [client : Adapter, attempt : Attempts, sid : Ids, generation : Attempts]
BornType == born \subseteq Birth

(* What is not created yet is known to nobody.                             *)
FreshInv ==
  /\ \A s \in Ids : s > created => sessions[s] = NoSession
  /\ \A a \in Adapter : mapping[a] <= created /\ peers[a].sid <= created
  /\ \A m \in wire : m.sid <= created
  /\ \A b \in born : b.sid <= created

(* A request on the wire is about the document that its adapter has open;  *)
(* it may belong to any of its attempts.                                   *)
Speaks(m) == m.attempt <= peers[m.client].attempt /\ m.epoch = peers[m.client].epoch

(* Each attempt has its request.                                           *)
Apart(m, n) == m.client = n.client /\ m.attempt = n.attempt => m = n
WireInv == (\A m \in wire : Speaks(m)) /\ (\A m, n \in wire : Apart(m, n))

(* While a copy of a request that made a connection may execute, the       *)
(* session is there to recognise it.                                       *)
Recognised(m, b) ==
  m.client = b.client /\ m.attempt = b.attempt =>
    IF m.sid = 0
    THEN /\ mapping[m.client] = b.sid /\ b.sid \in Live
         /\ sessions[b.sid].epoch = m.epoch /\ ~sessions[b.sid].grace
    ELSE m.sid \in Live => m.attempt \in sessions[m.sid].used
BornInv ==
  /\ \A b \in born : b.attempt <= peers[b.client].attempt
  /\ \A m \in wire, b \in born : Recognised(m, b)

(* The session that an adapter knows is its own.                           *)
PeerInv ==
  \A a \in Adapter : peers[a].sid \in Live => sessions[peers[a].sid].client = a

(* A session over which nothing is done.                                   *)
Idle(r) == ~r.polled /\ (r.work = "none" \/ r.lost)
Held(s) == \A a \in Adapter : mapping[a] = s => Holds(a)

Types == SessionsType /\ MappingType /\ PeersType /\ WireType /\ BornType
RegistryInv ==
  /\ Types /\ FreshInv /\ WireInv /\ BornInv /\ PeerInv
  /\ OneConnectionEach /\ AttemptConnectsOnce /\ UnheardIsUnused

LEMMA TypesAreTypeOK == Types <=> TypeOK
BY DEF Types, SessionsType, MappingType, PeersType, WireType, BornType, Birth, TypeOK

LEMMA LiveSession ==
  ASSUME SessionsType, NEW s \in Ids
  PROVE  /\ s \in Live <=> sessions[s] \in Sessions
         /\ s \notin Live <=> sessions[s] = NoSession
<1>1. ASSUME NEW r \in Sessions PROVE r # NoSession
  BY DEF Sessions, NoSession
<1>2. QED
  BY <1>1 DEF Live, SessionsType

-----------------------------------------------------------------------------
(* What the session's bookkeeping leaves alone                             *)

Same(x, r) ==
  /\ x \in Sessions /\ x.client = r.client /\ x.epoch = r.epoch
  /\ x.generation = r.generation /\ x.used = r.used
SameWork(x, r) == x.polled = r.polled /\ x.work = r.work /\ x.lost = r.lost
Follows(x, r) ==
  /\ Same(x, r) /\ (x.connected => r.connected) /\ (x.grace => r.grace)
  /\ Idle(r) => Idle(x)

(* The step that DebtIsKept allows, of one session and of all.             *)
Owed(s) == {"edit", "fence"} \cap sessions[s].owes
KeptBy(s) ==
  \/ \E d \in Debts : PayOff(s, d)
  \/ /\ s \in Live'
     /\ Owed(s) \subseteq sessions'[s].owes \/ mapping'[sessions[s].client] > s
Kept == \A s \in Live : Owed(s) # {} => KeptBy(s)

LEMMA RefreshedFacts ==
  ASSUME NEW r \in Sessions, NEW f \in {"clear", "owing", "reason", "retired"}
  PROVE  LET x == Refreshed(r, f)
         IN  /\ Same(x, r) /\ x.connected = r.connected /\ x.grace = r.grace /\ x.owes = r.owes
             /\ x.candidate = r.candidate /\ SameWork(x, r)
BY DEF Refreshed, Same, SameWork, Sessions

LEMMA RecomputedFacts ==
  ASSUME NEW r \in Sessions
  PROVE  LET x == Recomputed(r)
         IN  /\ Same(x, r) /\ x.connected = r.connected /\ x.grace = r.grace /\ x.owes = r.owes
             /\ SameWork(x, r)
<1> DEFINE safe == r.edit /\ r.owes = {} /\ r.work = "none"
           y == [r EXCEPT !.candidate = safe]
<1>1. safe \in BOOLEAN
  OBVIOUS
<1> HIDE DEF safe
<1>2. /\ y \in Sessions /\ y.client = r.client /\ y.epoch = r.epoch /\ y.generation = r.generation
      /\ y.used = r.used /\ y.connected = r.connected /\ y.grace = r.grace /\ y.owes = r.owes
      /\ y.polled = r.polled /\ y.work = r.work /\ y.lost = r.lost
  BY <1>1 DEF Sessions
<1>3. Recomputed(r) = Refreshed(y, IF safe THEN "clear" ELSE "reason")
  BY DEF Recomputed, safe
<1> HIDE DEF y
<1>4. QED
  BY <1>2, <1>3, RefreshedFacts DEF Same, SameWork

LEMMA DisconnectedFacts ==
  ASSUME NEW r \in Sessions
  PROVE  LET x == Disconnected(r)
         IN  /\ Same(x, r) /\ ~x.connected /\ ~x.grace /\ r.owes \subseteq x.owes
             /\ x.polled = r.polled /\ x.work = r.work /\ x.lost = (r.work # "none")
<1> DEFINE lost == r.work # "none"
           owes == IF r.work # "none" /\ ~r.lost THEN r.owes \cup {r.work} ELSE r.owes
           y == [r EXCEPT !.connected = FALSE, !.grace = FALSE, !.lost = lost, !.owes = owes]
<1>1. lost \in BOOLEAN /\ owes \in SUBSET Debts /\ r.owes \subseteq owes
  BY DEF Sessions, Debts
<1>2. Disconnected(r) = Recomputed(y)
  BY DEF Disconnected
<1> HIDE DEF lost, owes
<1>3. /\ y \in Sessions /\ y.client = r.client /\ y.epoch = r.epoch /\ y.generation = r.generation
      /\ y.used = r.used /\ y.connected = FALSE /\ y.grace = FALSE /\ y.owes = owes
      /\ y.polled = r.polled /\ y.work = r.work /\ y.lost = lost
  BY <1>1 DEF Sessions
<1> HIDE DEF y
<1>4. QED
  BY <1>1, <1>2, <1>3, RecomputedFacts DEF Same, SameWork, lost

LEMMA ExpiredFacts ==
  ASSUME NEW r \in Sessions
  PROVE  Follows(Expired(r), r) /\ r.owes \subseteq Expired(r).owes
BY DisconnectedFacts DEF Expired, Follows, Same, Idle

-----------------------------------------------------------------------------
(* Steps that make no connection and send no request                       *)

(* No late copy of a request that made a connection of the session.        *)
NoLateCopy(s) ==
  ~\E m \in wire, b \in born : m.client = sessions[s].client /\ b.client = m.client
                              /\ b.attempt = m.attempt

(* Each session is who it was, connected only if it was, and used only if  *)
(* its adapter knows the connection.                                       *)
SessionsFollow ==
  /\ SessionsType' /\ Live' = Live
  /\ \A t \in Live : /\ Same(sessions'[t], sessions[t])
                     /\ sessions'[t].connected => sessions[t].connected
                     /\ sessions'[t].grace => sessions[t].grace \/ NoLateCopy(t)
                     /\ Idle(sessions[t]) => Idle(sessions'[t]) \/ Held(t)

(* Each adapter knows what it knew.                                        *)
PeersFollow ==
  /\ PeersType'
  /\ \A a \in Adapter :
       /\ peers'[a].epoch = peers[a].epoch /\ peers'[a].sid = peers[a].sid
       /\ peers'[a].generation = peers[a].generation /\ peers'[a].attempt = peers[a].attempt

LEMMA PeersUnchanged ==
  ASSUME PeersType, UNCHANGED peers
  PROVE  PeersFollow
BY DEF PeersFollow, PeersType

LEMMA SessionsUnchanged ==
  ASSUME SessionsType, UNCHANGED sessions
  PROVE  SessionsFollow
<1>1. \A t \in Live : sessions[t] \in Sessions
  BY LiveSession DEF Live
<1>2. QED
  BY <1>1 DEF SessionsFollow, SessionsType, Live, Same

LEMMA FollowWire ==
  ASSUME RegistryInv, SessionsFollow, PeersFollow, UNCHANGED <<mapping, created, wire, born>>
  PROVE  FreshInv' /\ WireInv' /\ BornInv'
<1>0. \A m \in wire : m.client \in Adapter
  BY DEF RegistryInv, Types, WireType, Requests
<1>1. FreshInv'
  <2>1. ASSUME NEW t \in Ids, t > created PROVE sessions'[t] = NoSession
    <3>1. t \notin Live
      BY <2>1 DEF RegistryInv, FreshInv, Live
    <3>2. QED
      BY <3>1 DEF SessionsFollow, Live
  <2>2. QED
    BY <2>1 DEF RegistryInv, FreshInv, PeersFollow
<1>2. WireInv'
  <2>1. ASSUME NEW m \in wire PROVE Speaks(m)'
    <3>1. Speaks(m)
      BY DEF RegistryInv, WireInv
    <3>2. QED
      BY <3>1, <1>0 DEF Speaks, SessionsFollow, PeersFollow, Same
  <2>2. ASSUME NEW m \in wire, NEW n \in wire PROVE Apart(m, n)'
    BY <1>0 DEF RegistryInv, WireInv, Apart, PeersFollow
  <2>3. QED
    BY <2>1, <2>2 DEF WireInv
<1>3. BornInv'
  <2>1. ASSUME NEW m \in wire, NEW b \in born PROVE Recognised(m, b)'
    <3>1. Recognised(m, b)
      BY DEF RegistryInv, BornInv
    <3>2. CASE ~(m.client = b.client /\ m.attempt = b.attempt)
      BY <3>2 DEF Recognised
    <3>3. CASE m.client = b.client /\ m.attempt = b.attempt /\ m.sid # 0
      BY <3>1, <3>3 DEF Recognised, SessionsFollow, Same
    <3>4. CASE m.client = b.client /\ m.attempt = b.attempt /\ m.sid = 0
      <4>1. /\ mapping[m.client] = b.sid /\ b.sid \in Live
            /\ sessions[b.sid].epoch = m.epoch /\ ~sessions[b.sid].grace
        BY <3>1, <3>4 DEF Recognised
      <4>2. b.sid # 0
        BY <4>1 DEF Live, Ids
      <4>3. sessions[b.sid].client = m.client
        BY <4>1, <4>2, <1>0 DEF RegistryInv, OneConnectionEach
      <4>4. ~sessions'[b.sid].grace
        BY <4>1, <4>3, <3>4 DEF SessionsFollow, NoLateCopy
      <4>5. QED
        BY <4>1, <4>4, <3>4 DEF Recognised, SessionsFollow, Same
    <3>5. QED
      BY <3>2, <3>3, <3>4
  <2>2. ASSUME NEW b \in born PROVE b.attempt <= peers'[b.client].attempt
    BY DEF RegistryInv, BornInv, Types, BornType, Birth, PeersFollow
  <2>3. QED
    BY <2>1, <2>2 DEF BornInv
<1>4. QED
  BY <1>1, <1>2, <1>3

LEMMA FollowStep ==
  ASSUME RegistryInv, SessionsFollow, PeersFollow, UNCHANGED <<mapping, created, wire, born>>
  PROVE  RegistryInv'
<1>1. Types'
  BY DEF RegistryInv, Types, MappingType, WireType, BornType, SessionsFollow, PeersFollow
<1>2. PeerInv'
  BY DEF RegistryInv, PeerInv, SessionsFollow, PeersFollow, Same
<1>3. OneConnectionEach'
  <2>1. \A t \in Live : sessions[t].client \in Adapter
    BY LiveSession DEF RegistryInv, Types, Sessions, Live
  <2>2. QED
    BY <2>1 DEF RegistryInv, OneConnectionEach, SessionsFollow, Same
<1>4. AttemptConnectsOnce'
  BY DEF RegistryInv, AttemptConnectsOnce
<1>5. UnheardIsUnused'
  <2>1. SUFFICES ASSUME NEW a \in Adapter, mapping'[a] # 0, ~Holds(a)'
                 PROVE  Idle(sessions'[mapping[a]])
    BY DEF UnheardIsUnused, Idle
  <2>2. mapping[a] \in Live
    BY <2>1 DEF RegistryInv, OneConnectionEach
  <2>3. ~Holds(a)
    BY <2>1, <2>2 DEF Holds, SessionsFollow, PeersFollow, Same
  <2>4. Idle(sessions[mapping[a]]) /\ ~Held(mapping[a])
    BY <2>1, <2>3 DEF RegistryInv, UnheardIsUnused, Idle, Held
  <2>5. QED
    BY <2>2, <2>4 DEF SessionsFollow
<1>6. QED
  BY <1>1, <1>2, <1>3, <1>4, <1>5, FollowWire DEF RegistryInv

(* One session changes.                                                    *)
Changed(s, x) ==
  /\ s \in Live /\ sessions' = [sessions EXCEPT ![s] = x]
  /\ Same(x, sessions[s]) /\ (x.connected => sessions[s].connected)
  /\ x.grace => sessions[s].grace \/ NoLateCopy(s)
  /\ Idle(sessions[s]) => Idle(x) \/ Held(s)

LEMMA ChangedFacts ==
  ASSUME SessionsType, NEW s, NEW x, Changed(s, x)
  PROVE  /\ SessionsFollow /\ sessions'[s] = x
         /\ \A t \in Ids \ {s} : sessions'[t] = sessions[t]
<1>1. s \in Ids /\ sessions[s] \in Sessions
  BY LiveSession DEF Changed, Live
<1>2. x \in Sessions
  BY DEF Changed, Same
<1>3. sessions'[s] = x /\ \A t \in Ids \ {s} : sessions'[t] = sessions[t]
  BY <1>1 DEF Changed, SessionsType
<1>4. SessionsType'
  BY <1>1, <1>2 DEF Changed, SessionsType
<1>5. Live' = Live
  <2>1. x # NoSession
    BY <1>2 DEF Sessions, NoSession
  <2>2. QED
    BY <2>1, <1>1, <1>3 DEF Live, Changed
<1>6. ASSUME NEW t \in Live
      PROVE  /\ Same(sessions'[t], sessions[t])
             /\ sessions'[t].connected => sessions[t].connected
             /\ sessions'[t].grace => sessions[t].grace \/ NoLateCopy(t)
             /\ Idle(sessions[t]) => Idle(sessions'[t]) \/ Held(t)
  <2>1. t \in Ids /\ sessions[t] \in Sessions
    BY LiveSession DEF Live
  <2>2. CASE t = s
    BY <2>2, <1>3 DEF Changed
  <2>3. CASE t # s
    BY <2>3, <2>1, <1>3 DEF Same
  <2>4. QED
    BY <2>2, <2>3
<1>7. QED
  BY <1>3, <1>4, <1>5, <1>6 DEF SessionsFollow

LEMMA ChangedKeeps ==
  ASSUME RegistryInv, NEW s, NEW x, Changed(s, x), Owed(s) \subseteq x.owes
  PROVE  Kept
<1>1. /\ Live' = Live /\ sessions'[s] = x
      /\ \A t \in Ids \ {s} : sessions'[t] = sessions[t]
  BY ChangedFacts DEF RegistryInv, Types, SessionsFollow
<1>2. ASSUME NEW t \in Live PROVE Owed(t) \subseteq sessions'[t].owes
  BY <1>1 DEF Owed, Live
<1>3. QED
  BY <1>1, <1>2 DEF Kept, KeptBy

(* Such a step, as the actions take it.                                    *)
LEMMA UpdateStep ==
  ASSUME RegistryInv, NEW s \in Live, NEW x \in Sessions, Update(s, x),
         x.client = sessions[s].client, x.epoch = sessions[s].epoch,
         x.generation = sessions[s].generation, x.used = sessions[s].used,
         x.connected => sessions[s].connected,
         x.grace => sessions[s].grace \/ NoLateCopy(s),
         Idle(sessions[s]) => Idle(x) \/ Held(s),
         Owed(s) \subseteq x.owes
  PROVE  RegistryInv' /\ Kept
<1>1. Changed(s, x) /\ UNCHANGED <<mapping, created, peers, wire, born>>
  BY DEF Update, Changed, Same
<1>2. SessionsFollow /\ PeersFollow
  BY <1>1, ChangedFacts, PeersUnchanged DEF RegistryInv, Types
<1>3. QED
  BY <1>1, <1>2, FollowStep, ChangedKeeps

LEMMA LiveRecord ==
  ASSUME RegistryInv, NEW s \in Live
  PROVE  s \in Ids /\ sessions[s] \in Sessions
BY LiveSession DEF RegistryInv, Types, Live

LEMMA PollStep ==
  ASSUME RegistryInv, NEW a \in Adapter, Poll(a)
  PROVE  RegistryInv' /\ Kept
<1> DEFINE s == peers[a].sid
<1>1. s \in Live
  BY DEF Poll, Authentic
<1>2. PICK r \in Sessions : r = sessions[s]
  BY <1>1, LiveRecord
<1> DEFINE x == [r EXCEPT !.polled = TRUE, !.stale = FALSE, !.retry = 0, !.prior = 0]
<1>3. Update(s, x)
  BY <1>2 DEF Poll
<1>0. 0 \in 0..MaxAttempt
  BY RegistryAssumption
<1>4. /\ x \in Sessions /\ x.client = r.client /\ x.epoch = r.epoch
      /\ x.generation = r.generation /\ x.used = r.used /\ x.connected = r.connected
      /\ x.grace = r.grace /\ x.owes = r.owes
  BY <1>0 DEF Sessions
<1> HIDE DEF x
<1>5. Held(s)
  <2>1. r.connected /\ r.generation = peers[a].generation /\ r.client = a
    BY <1>1, <1>2, ExpiredFacts DEF Poll, Authentic, Follows, RegistryInv, PeerInv
  <2>2. \A b \in Adapter : mapping[b] = s => b = a
    <3>1. s # 0
      BY <1>1 DEF Live, Ids
    <3>2. QED
      BY <3>1, <2>1, <1>2 DEF RegistryInv, OneConnectionEach
  <2>3. QED
    BY <2>1, <2>2, <1>2 DEF Held, Holds
<1>6. QED
  BY <1>1, <1>2, <1>3, <1>4, <1>5, UpdateStep DEF Owed

LEMMA DispatchStep ==
  ASSUME RegistryInv, NEW s \in Ids, NEW k \in Uncertain, Dispatch(s, k)
  PROVE  RegistryInv' /\ Kept
<1>1. s \in Live
  BY DEF Dispatch
<1>2. PICK r \in Sessions : r = sessions[s]
  BY <1>1, LiveRecord
<1> DEFINE x == [r EXCEPT !.work = k]
<1>3. Update(s, x)
  BY <1>2 DEF Dispatch
<1>4. /\ x \in Sessions /\ x.client = r.client /\ x.epoch = r.epoch
      /\ x.generation = r.generation /\ x.used = r.used /\ x.connected = r.connected
      /\ x.grace = r.grace /\ x.owes = r.owes
  BY DEF Sessions, Uncertain
<1> HIDE DEF x
<1>5. ~Idle(r)
  BY <1>2 DEF Dispatch, Idle
<1>6. QED
  BY <1>1, <1>2, <1>3, <1>4, <1>5, UpdateStep DEF Owed

LEMMA AnswerStep ==
  ASSUME RegistryInv, NEW s \in Ids, Answer(s)
  PROVE  RegistryInv' /\ Kept
<1>1. s \in Live
  BY DEF Answer
<1>2. PICK r \in Sessions : r = sessions[s]
  BY <1>1, LiveRecord
<1> DEFINE x == [r EXCEPT !.work = "none"]
<1>3. Update(s, x)
  BY <1>2 DEF Answer
<1>4. /\ x \in Sessions /\ x.client = r.client /\ x.epoch = r.epoch
      /\ x.generation = r.generation /\ x.used = r.used /\ x.connected = r.connected
      /\ x.grace = r.grace /\ x.owes = r.owes
      /\ Idle(r) => Idle(x)
  BY DEF Sessions, Idle
<1> HIDE DEF x
<1>5. QED
  BY <1>1, <1>2, <1>3, <1>4, UpdateStep DEF Owed

LEMMA UnwindStep ==
  ASSUME RegistryInv, NEW s \in Ids, Unwind(s)
  PROVE  RegistryInv' /\ Kept
<1>1. s \in Live
  BY DEF Unwind
<1>2. PICK r \in Sessions : r = sessions[s]
  BY <1>1, LiveRecord
<1> DEFINE o == IF r.work = "edit" THEN r.owes \cup {"fence"} ELSE r.owes
           y == [r EXCEPT !.lost = FALSE, !.work = "none",
                          !.owes = IF r.work = "edit" THEN @ \cup {"fence"} ELSE @]
           f == IF y.state = "owing" THEN "clear" ELSE y.state
           x == IF y.connected THEN Refreshed(y, f) ELSE Recomputed(y)
<1>3. Update(s, x)
  BY <1>2 DEF Unwind
<1>4. o \in SUBSET Debts /\ r.owes \subseteq o
  BY DEF Sessions, Debts
<1>5. /\ y \in Sessions /\ y.client = r.client /\ y.epoch = r.epoch
      /\ y.generation = r.generation /\ y.used = r.used /\ y.connected = r.connected
      /\ y.grace = r.grace /\ y.owes = o /\ y.polled = r.polled /\ y.work = "none"
  BY <1>4 DEF Sessions
<1> HIDE DEF o, y
<1>6. f \in {"clear", "owing", "reason", "retired"}
  BY <1>5 DEF Sessions
<1> HIDE DEF f
<1>7. /\ Same(x, y) /\ x.connected = y.connected /\ x.grace = y.grace /\ x.owes = y.owes
      /\ SameWork(x, y)
  BY <1>5, <1>6, RefreshedFacts, RecomputedFacts
<1> HIDE DEF x
<1>8. Idle(r) => Idle(x)
  BY <1>5, <1>7 DEF Idle, SameWork
<1>9. QED
  BY <1>1, <1>2, <1>3, <1>4, <1>5, <1>7, <1>8, UpdateStep DEF Owed, Same

LEMMA OpenPlayStep ==
  ASSUME RegistryInv, NEW s \in Ids, OpenPlay(s)
  PROVE  RegistryInv' /\ Kept
<1>1. s \in Live /\ sessions[s].owes = {}
  BY DEF OpenPlay
<1>2. PICK r \in Sessions : r = sessions[s]
  BY <1>1, LiveRecord
<1> DEFINE x == [r EXCEPT !.owes = {"play"}]
<1>3. Update(s, x)
  BY <1>2 DEF OpenPlay
<1>4. /\ x \in Sessions /\ x.client = r.client /\ x.epoch = r.epoch
      /\ x.generation = r.generation /\ x.used = r.used /\ x.connected = r.connected
      /\ x.grace = r.grace
      /\ Idle(r) => Idle(x)
  BY DEF Sessions, Debts, Idle
<1> HIDE DEF x
<1>5. QED
  BY <1>1, <1>2, <1>3, <1>4, UpdateStep DEF Owed

LEMMA ChangeModeStep ==
  ASSUME RegistryInv, NEW s \in Ids, ChangeMode(s)
  PROVE  RegistryInv' /\ Kept
<1>1. s \in Live
  BY DEF ChangeMode
<1>2. PICK r \in Sessions : r = sessions[s]
  BY <1>1, LiveRecord
<1> DEFINE x == [r EXCEPT !.edit = ~@]
<1>3. Update(s, x)
  BY <1>2 DEF ChangeMode
<1>4. /\ x \in Sessions /\ x.client = r.client /\ x.epoch = r.epoch
      /\ x.generation = r.generation /\ x.used = r.used /\ x.connected = r.connected
      /\ x.grace = r.grace /\ x.owes = r.owes
      /\ Idle(r) => Idle(x)
  BY DEF Sessions, Idle
<1> HIDE DEF x
<1>5. QED
  BY <1>1, <1>2, <1>3, <1>4, UpdateStep DEF Owed

LEMMA LeaseEndsStep ==
  ASSUME RegistryInv, NEW s \in Ids, LeaseEnds(s)
  PROVE  RegistryInv' /\ Kept
<1>1. s \in Live
  BY DEF LeaseEnds
<1>2. PICK r \in Sessions : r = sessions[s]
  BY <1>1, LiveRecord
<1> DEFINE x == [r EXCEPT !.stale = TRUE]
<1>3. Update(s, x)
  BY <1>2 DEF LeaseEnds
<1>4. /\ x \in Sessions /\ x.client = r.client /\ x.epoch = r.epoch
      /\ x.generation = r.generation /\ x.used = r.used /\ x.connected = r.connected
      /\ x.grace = r.grace /\ x.owes = r.owes
      /\ Idle(r) => Idle(x)
  BY DEF Sessions, Idle
<1> HIDE DEF x
<1>5. QED
  BY <1>1, <1>2, <1>3, <1>4, UpdateStep DEF Owed

LEMMA ExpireLeaseStep ==
  ASSUME RegistryInv, NEW s \in Ids, ExpireLease(s)
  PROVE  RegistryInv' /\ Kept
<1>1. s \in Live /\ Update(s, Expired(sessions[s]))
  BY DEF ExpireLease
<1>2. sessions[s] \in Sessions
  BY <1>1, LiveRecord
<1>3. /\ Follows(Expired(sessions[s]), sessions[s])
      /\ sessions[s].owes \subseteq Expired(sessions[s]).owes
  BY <1>2, ExpiredFacts
<1>4. QED
  BY <1>1, <1>3, UpdateStep DEF Owed, Follows, Same

(* The grace cannot pass while a late copy is under way: only then would a *)
(* copy outlive the record that recognises it.                             *)
LEMMA GracePassesStep ==
  ASSUME RegistryInv, NEW s \in Ids, GracePasses(s)
  PROVE  RegistryInv' /\ Kept
<1>1. s \in Live /\ NoLateCopy(s)
  BY DEF GracePasses, NoLateCopy
<1>2. PICK r \in Sessions : r = sessions[s]
  BY <1>1, LiveRecord
<1> DEFINE x == [r EXCEPT !.grace = TRUE]
<1>3. Update(s, x)
  BY <1>2 DEF GracePasses
<1>4. /\ x \in Sessions /\ x.client = r.client /\ x.epoch = r.epoch
      /\ x.generation = r.generation /\ x.used = r.used /\ x.connected = r.connected
      /\ x.owes = r.owes
      /\ Idle(r) => Idle(x)
  BY DEF Sessions, Idle
<1> HIDE DEF x
<1>5. QED
  BY <1>1, <1>2, <1>3, <1>4, UpdateStep DEF Owed

(* A settled debt is the one thing that a debt may leave by.               *)
LEMMA PayOffStep ==
  ASSUME RegistryInv, NEW s \in Ids, NEW d \in Debts, PayOff(s, d)
  PROVE  RegistryInv' /\ Kept
<1>1. s \in Live
  BY DEF PayOff
<1>2. PICK r \in Sessions : r = sessions[s]
  BY <1>1, LiveRecord
<1> DEFINE y == [r EXCEPT !.owes = @ \ {d}]
           x == Refreshed(y, "clear")
<1>3. Update(s, x)
  BY <1>2 DEF PayOff
<1>4. /\ y \in Sessions /\ y.client = r.client /\ y.epoch = r.epoch
      /\ y.generation = r.generation /\ y.used = r.used /\ y.connected = r.connected
      /\ y.grace = r.grace /\ SameWork(y, r)
  BY DEF Sessions, SameWork
<1> HIDE DEF y
<1>5. Same(x, y) /\ x.connected = y.connected /\ x.grace = y.grace /\ SameWork(x, y)
  BY <1>4, RefreshedFacts
<1> HIDE DEF x
<1>6. Changed(s, x) /\ UNCHANGED <<mapping, created, peers, wire, born>>
  BY <1>1, <1>2, <1>3, <1>4, <1>5 DEF Update, Changed, Same, SameWork, Idle
<1>7. Kept
  <2>1. Live' = Live /\ \A t \in Ids \ {s} : sessions'[t] = sessions[t]
    BY <1>6, ChangedFacts DEF RegistryInv, Types, SessionsFollow
  <2>2. ASSUME NEW t \in Live, t # s PROVE KeptBy(t)
    BY <2>1, <2>2 DEF KeptBy, Owed, Live
  <2>3. KeptBy(s)
    BY DEF KeptBy
  <2>4. QED
    BY <2>2, <2>3 DEF Kept
<1>8. SessionsFollow /\ PeersFollow
  BY <1>6, ChangedFacts, PeersUnchanged DEF RegistryInv, Types
<1>9. QED
  BY <1>6, <1>7, <1>8, FollowStep

(* An adapter that leaves, waits no more or crashes.                       *)
Phases == Waiting \cup {"new", "connected", "restoring", "refused", "left", "dead"}
LEMMA PhaseFollows ==
  ASSUME PeersType, NEW a \in Adapter, NEW ph \in Phases,
         peers' = [peers EXCEPT ![a].phase = ph]
  PROVE  PeersFollow
<1>1. PICK p \in Peers : p = peers[a]
  BY DEF PeersType
<1> DEFINE q == [p EXCEPT !.phase = ph]
<1>2. /\ q \in Peers /\ q.phase = ph /\ q.epoch = p.epoch /\ q.sid = p.sid
      /\ q.generation = p.generation /\ q.attempt = p.attempt
  BY DEF Peers, Phases
<1>3. peers' = [peers EXCEPT ![a] = q]
  BY <1>1
<1> HIDE DEF q
<1>4. peers'[a] = q /\ \A b \in Adapter \ {a} : peers'[b] = peers[b]
  BY <1>3 DEF PeersType
<1>5. PeersType'
  BY <1>2, <1>3 DEF PeersType
<1>6. QED
  BY <1>1, <1>2, <1>4, <1>5 DEF PeersFollow

LEMMA UnchangedKeeps ==
  ASSUME UNCHANGED sessions
  PROVE  Kept
BY DEF Kept, KeptBy, Owed, Live

LEMMA EndStep ==
  ASSUME RegistryInv, NEW a \in Adapter, Unheard(a) \/ Crash(a)
  PROVE  RegistryInv' /\ Kept
<1>1. PICK ph \in Phases :
        /\ peers' = [peers EXCEPT ![a].phase = ph]
        /\ UNCHANGED <<sessions, mapping, created, wire, born>>
  <2>1. CASE Unheard(a)
    <3> DEFINE ph == IF peers[a].phase = "reconnecting" THEN "refused"
                     ELSE IF peers[a].sid = 0 THEN "new" ELSE "restoring"
    <3>1. /\ peers' = [peers EXCEPT ![a].phase = ph]
          /\ UNCHANGED <<sessions, mapping, created, wire, born>>
      BY <2>1 DEF Unheard, Waiting
    <3>2. ph \in Phases
      BY DEF Phases
    <3>3. QED
      BY <3>1, <3>2
  <2>2. CASE Crash(a)
    BY <2>2 DEF Crash, Phases
  <2>3. QED
    BY <2>1, <2>2
<1>2. SessionsFollow /\ PeersFollow
  BY <1>1, PhaseFollows, SessionsUnchanged DEF RegistryInv, Types
<1>3. QED
  BY <1>1, <1>2, FollowStep, UnchangedKeeps

LEMMA LeaveStep ==
  ASSUME RegistryInv, NEW a \in Adapter, Leave(a)
  PROVE  RegistryInv' /\ Kept
<1>1. PICK s \in Live : s = peers[a].sid
  BY DEF Leave, Authentic
<1>2. PICK r \in Sessions : r = sessions[s]
  BY <1>1, LiveRecord
<1>3. /\ Same(Disconnected(r), r) /\ ~Disconnected(r).connected /\ ~Disconnected(r).grace
      /\ r.owes \subseteq Disconnected(r).owes /\ (Idle(r) => Idle(Disconnected(r)))
  BY DisconnectedFacts DEF Idle
<1>4. sessions' = [sessions EXCEPT ![s] = Disconnected(r)]
  BY <1>1, <1>2 DEF Leave
<1>5. Changed(s, Disconnected(r))
  BY <1>2, <1>3, <1>4 DEF Changed
<1>6. SessionsFollow /\ PeersFollow
  BY <1>5, ChangedFacts, PhaseFollows DEF RegistryInv, Types, Leave, Phases
<1>7. Kept
  BY <1>2, <1>3, <1>5, ChangedKeeps DEF Owed
<1>8. QED
  BY <1>6, <1>7, FollowStep DEF Leave

LEMMA LapseStep ==
  ASSUME RegistryInv, NEW m \in wire, Lapse(m)
  PROVE  RegistryInv' /\ Kept
<1>1. wire' \subseteq wire /\ UNCHANGED <<sessions, mapping, created, peers, born>>
  BY DEF Lapse
<1>2. Types'
  BY <1>1 DEF RegistryInv, Types, SessionsType, MappingType, PeersType, WireType, BornType
<1>3. FreshInv' /\ PeerInv' /\ OneConnectionEach' /\ AttemptConnectsOnce'
      /\ UnheardIsUnused'
  BY <1>1 DEF RegistryInv, FreshInv, PeerInv, OneConnectionEach, AttemptConnectsOnce,
              UnheardIsUnused, Holds, Live
<1>4. WireInv'
  BY <1>1 DEF RegistryInv, WireInv, Speaks, Apart, Live
<1>5. BornInv'
  BY <1>1 DEF RegistryInv, BornInv, Recognised, Live
<1>6. QED
  BY <1>1, <1>2, <1>3, <1>4, <1>5, UnchangedKeeps DEF RegistryInv

-----------------------------------------------------------------------------
(* Steps that send a request                                               *)

(* A request is about the document that is open, or is the first about     *)
(* another, and about the session that the adapter knows, if any.          *)
MaySend(a, epoch, sid) ==
  /\ epoch = peers[a].epoch \/ ~\E m \in wire : m.client = a
  /\ sid \in {0, peers[a].sid}

LEMMA SendStep ==
  ASSUME RegistryInv, NEW a \in Adapter, NEW ph \in Phases, NEW epoch \in 1..MaxEpoch,
         NEW sid \in 0..MaxSession, NEW token \in 0..MaxAttempt,
         NEW settled \in SUBSET Uncertain,
         Send(a, ph, epoch, sid, token, settled), MaySend(a, epoch, sid)
  PROVE  RegistryInv' /\ Kept
<1>1. PICK p \in Peers : p = peers[a]
  BY DEF RegistryInv, Types, PeersType
<1>2. p.attempt \in Nat /\ p.attempt + 1 \in Attempts /\ p.attempt + 1 \in 0..MaxAttempt
  BY <1>1, RegistryAssumption DEF Send, Peers, Attempts
<1> DEFINE q == [p EXCEPT !.phase = ph, !.epoch = epoch, !.attempt = @ + 1]
           req == [client |-> a, attempt |-> p.attempt + 1, epoch |-> epoch,
                   sid |-> sid, token |-> token, settled |-> settled]
<1>3. /\ peers' = [peers EXCEPT ![a] = q] /\ wire' = wire \cup {req}
      /\ UNCHANGED <<sessions, mapping, created, born>>
  BY <1>1 DEF Send
<1>4. /\ q \in Peers /\ q.epoch = epoch /\ q.sid = p.sid
      /\ q.generation = p.generation /\ q.attempt = p.attempt + 1
  BY <1>2 DEF Peers, Phases
<1>5. /\ req \in Requests /\ req.client = a /\ req.attempt = p.attempt + 1
      /\ req.epoch = epoch /\ req.sid = sid
  BY <1>2 DEF Requests
<1> HIDE DEF q, req
<1>6. peers'[a] = q /\ \A b \in Adapter \ {a} : peers'[b] = peers[b]
  BY <1>3 DEF RegistryInv, Types, PeersType
<1>7. \A m \in wire : m.client \in Adapter /\ m.attempt \in Nat
  BY DEF RegistryInv, Types, WireType, Requests, Attempts
<1>8. \A m \in wire : m.client = a => m.attempt <= p.attempt /\ m.epoch = epoch
  BY <1>1 DEF MaySend, RegistryInv, WireInv, Speaks
<1>9. Types'
  <2>1. PeersType'
    BY <1>3, <1>4 DEF RegistryInv, Types, PeersType
  <2>2. WireType'
    BY <1>3, <1>5 DEF RegistryInv, Types, WireType
  <2>3. QED
    BY <2>1, <2>2, <1>3 DEF RegistryInv, Types, SessionsType, MappingType, BornType
<1>10. FreshInv'
  <2>1. \A b \in Adapter : peers'[b].sid = peers[b].sid
    BY <1>1, <1>4, <1>6
  <2>2. sid <= created
    BY DEF MaySend, RegistryInv, FreshInv, Types, MappingType
  <2>3. QED
    BY <2>1, <2>2, <1>3, <1>5 DEF RegistryInv, FreshInv
<1>11. \A m \in wire' : Speaks(m)'
  <2>1. ASSUME NEW m \in wire PROVE Speaks(m)'
    BY <1>2, <1>4, <1>6, <1>7, <1>8 DEF RegistryInv, WireInv, Speaks
  <2>2. Speaks(req)'
    BY <1>2, <1>4, <1>5, <1>6 DEF Speaks
  <2>3. QED
    BY <2>1, <2>2, <1>3
<1>12. \A m, n \in wire' : Apart(m, n)'
  <2>1. ASSUME NEW m \in wire, NEW n \in wire PROVE Apart(m, n)'
    BY DEF RegistryInv, WireInv, Apart
  <2>2. ASSUME NEW m \in wire PROVE Apart(m, req)' /\ Apart(req, m)'
    <3>1. m.client = a => m.attempt # p.attempt + 1
      BY <1>2, <1>7, <1>8
    <3>2. QED
      BY <3>1, <1>5 DEF Apart
  <2>3. Apart(req, req)'
    BY DEF Apart
  <2>4. QED
    BY <2>1, <2>2, <2>3, <1>3
<1>13. BornInv'
  <2>1. \A b \in born : b.client \in Adapter /\ b.attempt \in Nat
    BY DEF RegistryInv, Types, BornType, Birth, Attempts
  <2>2. ASSUME NEW b \in born PROVE b.attempt <= peers'[b.client].attempt
    BY <2>1, <1>1, <1>2, <1>4, <1>6 DEF RegistryInv, BornInv
  <2>3. ASSUME NEW b \in born PROVE Recognised(req, b)'
    BY <2>1, <1>1, <1>2, <1>5 DEF RegistryInv, BornInv, Recognised
  <2>4. ASSUME NEW b \in born, NEW m \in wire PROVE Recognised(m, b)'
    BY <1>3 DEF RegistryInv, BornInv, Recognised, Live
  <2>5. QED
    BY <2>2, <2>3, <2>4, <1>3 DEF BornInv
<1>14. \A b \in Adapter :
         peers'[b].sid = peers[b].sid /\ peers'[b].generation = peers[b].generation
  BY <1>1, <1>4, <1>6
<1>15. PeerInv'
  BY <1>3, <1>14 DEF RegistryInv, PeerInv, Live
<1>16. OneConnectionEach' /\ AttemptConnectsOnce'
  BY <1>3 DEF RegistryInv, OneConnectionEach, AttemptConnectsOnce, Live
<1>17. UnheardIsUnused'
  BY <1>3, <1>14 DEF RegistryInv, UnheardIsUnused, Holds
<1>18. QED
  BY <1>3, <1>9, <1>10, <1>11, <1>12, <1>13, <1>15, <1>16, <1>17, UnchangedKeeps
     DEF RegistryInv, WireInv

LEMMA PeerRecord ==
  ASSUME RegistryInv, NEW a \in Adapter
  PROVE  /\ peers[a] \in Peers /\ peers[a].epoch \in 1..MaxEpoch
         /\ peers[a].sid \in 0..MaxSession /\ peers[a].generation \in 0..MaxAttempt
BY DEF RegistryInv, Types, PeersType, Peers

LEMMA ReportsFacts ==
  ASSUME NEW s
  PROVE  Reports(s) \subseteq SUBSET Uncertain
BY DEF Reports

LEMMA RegisterStep ==
  ASSUME RegistryInv, NEW a \in Adapter, Register(a) \/ RegisterAfresh(a)
  PROVE  RegistryInv' /\ Kept
<1>1. Send(a, "connecting", peers[a].epoch, 0, 0, {})
  BY DEF Register, RegisterAfresh
<1>2. MaySend(a, peers[a].epoch, 0)
  BY DEF MaySend
<1>3. /\ 0 \in 0..MaxSession /\ 0 \in 0..MaxAttempt /\ {} \in SUBSET Uncertain
      /\ "connecting" \in Phases
  BY RegistryAssumption DEF Phases, Waiting
<1>4. QED
  BY <1>1, <1>2, <1>3, SendStep, PeerRecord

LEMMA ReconnectStep ==
  ASSUME RegistryInv, NEW a \in Adapter, Reconnect(a)
  PROVE  RegistryInv' /\ Kept
<1>1. PICK settled \in SUBSET Uncertain :
        Send(a, "reconnecting", peers[a].epoch, peers[a].sid, peers[a].generation, settled)
  BY ReportsFacts DEF Reconnect
<1>2. MaySend(a, peers[a].epoch, peers[a].sid)
  BY DEF MaySend
<1>3. "reconnecting" \in Phases
  BY DEF Phases, Waiting
<1>4. QED
  BY <1>1, <1>2, <1>3, SendStep, PeerRecord

LEMMA OpenDocumentStep ==
  ASSUME RegistryInv, NEW a \in Adapter, OpenDocument(a)
  PROVE  RegistryInv' /\ Kept
<1>1. PICK settled \in SUBSET Uncertain :
        Send(a, "connecting", peers[a].epoch + 1, 0, 0, settled)
  BY ReportsFacts DEF OpenDocument
<1>2. MaySend(a, peers[a].epoch + 1, 0)
  BY DEF OpenDocument, MaySend
<1>3. /\ peers[a].epoch + 1 \in 1..MaxEpoch /\ 0 \in 0..MaxSession /\ 0 \in 0..MaxAttempt
      /\ "connecting" \in Phases
  BY PeerRecord, RegistryAssumption DEF OpenDocument, Phases, Waiting
<1>4. QED
  BY <1>1, <1>2, <1>3, SendStep

-----------------------------------------------------------------------------
(* A connect request executes                                              *)

(* What the registry makes of a request, whether its reply is heard or     *)
(* not: the sessions go on to satisfy their invariants against what the    *)
(* adapters know, and the reply names the current session.                 *)
Granting(m) ==
  /\ SessionsType' /\ MappingType' /\ BornType' /\ OneConnectionEach' /\ AttemptConnectsOnce'
  /\ created <= created'
  /\ \A t \in Live : t \in Live' /\ sessions'[t].client = sessions[t].client
  /\ \A t \in Live' : t <= created => t \in Live
  /\ \A t \in Ids : t > created' => sessions'[t] = NoSession
  /\ \A b \in Adapter : mapping'[b] <= created'
  /\ \A b \in born' : b.sid <= created' /\ b.attempt <= peers[b.client].attempt
  /\ \A n \in wire : \A b \in born' : Recognised(n, b)'
  /\ \A b \in Adapter : mapping'[b] # 0 =>
       \/ Idle(sessions'[mapping'[b]])
       \/ /\ peers[b].sid = mapping'[b]
          /\ peers[b].generation = sessions'[mapping'[b]].generation
  /\ \E s \in Live' :
       /\ Granted(m).sid = s /\ Granted(m).generation = sessions'[s].generation
       /\ mapping'[m.client] = s /\ (m.sid # 0 => m.sid = s)

LEMMA WireRequest ==
  ASSUME RegistryInv, NEW m \in wire
  PROVE  /\ m \in Requests /\ m.client \in Adapter /\ m.attempt \in Attempts
         /\ m.epoch \in 1..MaxEpoch /\ m.sid \in 0..MaxSession /\ m.token \in 0..MaxAttempt
         /\ m.settled \subseteq Uncertain /\ Speaks(m) /\ m.sid <= created
BY DEF RegistryInv, Types, WireType, Requests, WireInv, FreshInv

LEMMA HearStep ==
  ASSUME RegistryInv, NEW m \in wire, Granting(m), Hears(m) \/ UNCHANGED peers, UNCHANGED wire
  PROVE  RegistryInv'
<1> DEFINE a == m.client
<1>1. a \in Adapter /\ Speaks(m) /\ m.sid \in 0..MaxSession
  BY WireRequest
<1>2. PICK p \in Peers : p = peers[a]
  BY <1>1 DEF RegistryInv, Types, PeersType
<1>3. PICK s \in Live' :
        /\ Granted(m).sid = s /\ Granted(m).generation = sessions'[s].generation
        /\ mapping'[a] = s
  BY DEF Granting
<1>4. PICK g \in 0..MaxAttempt : g = sessions'[s].generation
  <2>1. SessionsType'
    BY DEF Granting
  <2>2. sessions'[s] \in Sessions
    BY <2>1 DEF Live, SessionsType
  <2>3. QED
    BY <2>2, RegistryAssumption DEF Sessions, Attempts
<1>5. /\ s \in Ids /\ s # 0 /\ s \in 0..MaxSession /\ s <= created'
      /\ sessions'[s].client = a
  BY <1>1, <1>3 DEF Granting, Live, Ids, MappingType, OneConnectionEach
<1>6. PICK q \in Peers :
        /\ peers' = [peers EXCEPT ![a] = q]
        /\ q.epoch = p.epoch /\ q.attempt = p.attempt
        /\ \/ q.sid = p.sid /\ q.generation = p.generation
           \/ q.sid = s /\ q.generation = g
  <2>1. CASE UNCHANGED peers
    BY <2>1, <1>1, <1>2 DEF RegistryInv, Types, PeersType
  <2>2. CASE Hears(m) /\ m.sid # 0 /\ g <= p.generation
    <3> DEFINE q == [p EXCEPT !.phase = "refused"]
    <3>1. peers' = [peers EXCEPT ![a] = q]
      BY <2>2, <1>2, <1>3, <1>4 DEF Hears
    <3>2. /\ q \in Peers /\ q.sid = p.sid /\ q.generation = p.generation
          /\ q.epoch = p.epoch /\ q.attempt = p.attempt
      BY DEF Peers
    <3> HIDE DEF q
    <3>3. QED
      BY <3>1, <3>2
  <2>3. CASE Hears(m) /\ ~(m.sid # 0 /\ g <= p.generation)
    <3> DEFINE q == [p EXCEPT !.phase = "connected", !.sid = s, !.generation = g]
    <3>1. peers' = [peers EXCEPT ![a] = q]
      BY <2>3, <1>2, <1>3, <1>4 DEF Hears
    <3>2. /\ q \in Peers /\ q.sid = s /\ q.generation = g
          /\ q.epoch = p.epoch /\ q.attempt = p.attempt
      BY <1>5 DEF Peers
    <3> HIDE DEF q
    <3>3. QED
      BY <3>1, <3>2
  <2>4. QED
    BY <2>1, <2>2, <2>3
<1>7. peers'[a] = q /\ \A b \in Adapter \ {a} : peers'[b] = peers[b]
  BY <1>6, <1>1 DEF RegistryInv, Types, PeersType
<1>8. \A b \in Adapter :
        peers'[b].attempt = peers[b].attempt /\ peers'[b].epoch = peers[b].epoch
  BY <1>2, <1>6, <1>7
<1>9. \A b \in Adapter :
        \/ peers'[b].sid = peers[b].sid /\ peers'[b].generation = peers[b].generation
        \/ b = a /\ peers'[b].sid = s /\ peers'[b].generation = g
  BY <1>2, <1>6, <1>7
<1>10. Types'
  <2>1. PeersType'
    BY <1>6 DEF RegistryInv, Types, PeersType
  <2>2. QED
    BY <2>1 DEF RegistryInv, Types, Granting, WireType
<1>11. FreshInv'
  <2>1. \A b \in Adapter : peers'[b].sid <= created'
    <3>1. \A b \in Adapter : peers[b].sid <= created'
      BY PeerRecord DEF Granting, RegistryInv, FreshInv, Types, MappingType
    <3>2. QED
      BY <3>1, <1>5, <1>9
  <2>2. \A n \in wire : n.sid <= created'
    BY WireRequest DEF Granting, RegistryInv, Types, MappingType
  <2>3. QED
    BY <2>1, <2>2 DEF FreshInv, Granting
<1>12. WireInv'
  <2>1. ASSUME NEW n \in wire PROVE Speaks(n)'
    BY WireRequest, <1>8 DEF Speaks
  <2>2. \A n, o \in wire : Apart(n, o)'
    BY DEF RegistryInv, WireInv, Apart
  <2>3. QED
    BY <2>1, <2>2 DEF WireInv
<1>13. BornInv'
  <2>1. \A b \in born' : b.client \in Adapter
    BY DEF Granting, BornType, Birth
  <2>2. QED
    BY <2>1, <1>8 DEF BornInv, Granting
<1>14. PeerInv'
  <2>1. ASSUME NEW b \in Adapter, peers[b].sid \in Live'
        PROVE  sessions'[peers[b].sid].client = b
    <3>1. peers[b].sid <= created
      BY DEF RegistryInv, FreshInv
    <3>2. QED
      BY <2>1, <3>1 DEF Granting, RegistryInv, PeerInv
  <2>2. QED
    BY <2>1, <1>5, <1>9 DEF PeerInv
<1>15. UnheardIsUnused'
  <2>1. ASSUME NEW b \in Adapter, mapping'[b] # 0, ~Holds(b)' PROVE Idle(sessions'[mapping'[b]])
    <3>1. peers'[b].sid = peers[b].sid /\ peers'[b].generation = peers[b].generation
      BY <2>1, <1>3, <1>4, <1>9 DEF Holds
    <3>2. QED
      BY <2>1, <3>1 DEF Granting, Holds
  <2>2. QED
    BY <2>1 DEF UnheardIsUnused, Idle
<1>16. QED
  BY <1>10, <1>11, <1>12, <1>13, <1>14, <1>15 DEF RegistryInv, Granting

(* A retry is answered from what is there.                                 *)
LEMMA RetryGrants ==
  ASSUME RegistryInv, NEW m \in wire, FirstRetried(m) \/ ReconnectRetried(m),
         UNCHANGED <<sessions, mapping, created, born>>
  PROVE  Granting(m)
<1>1. m.client \in Adapter /\ Speaks(m)
  BY WireRequest
<1>2. PICK s \in Live :
        mapping[m.client] = s /\ (m.sid # 0 => m.sid = s)
  <2>1. CASE FirstRetried(m)
    BY <2>1, <1>1 DEF FirstRetried, Current, RegistryInv, OneConnectionEach
  <2>2. CASE ReconnectRetried(m)
    BY <2>2, <1>1 DEF ReconnectRetried, Names, Current
  <2>3. QED
    BY <2>1, <2>2
<1>3. /\ Live' = Live
      /\ SessionsType' /\ MappingType' /\ BornType' /\ OneConnectionEach' /\ AttemptConnectsOnce'
  BY DEF RegistryInv, Types, SessionsType, MappingType, BornType, OneConnectionEach,
         AttemptConnectsOnce, Live
<1>4. Granted(m).sid = s /\ Granted(m).generation = sessions'[s].generation
  BY <1>2 DEF Granted, Current
<1>5. \A n \in wire : \A b \in born' : Recognised(n, b)'
  BY <1>3 DEF RegistryInv, BornInv, Recognised
<1>6. \E t \in Live' :
        /\ Granted(m).sid = t /\ Granted(m).generation = sessions'[t].generation
        /\ mapping'[m.client] = t /\ (m.sid # 0 => m.sid = t)
  BY <1>2, <1>3, <1>4
<1>7. created <= created'
  BY DEF RegistryInv, Types, MappingType
<1>8. \A b \in Adapter : mapping'[b] # 0 =>
        \/ Idle(sessions'[mapping'[b]])
        \/ /\ peers[b].sid = mapping'[b]
           /\ peers[b].generation = sessions'[mapping'[b]].generation
  BY DEF RegistryInv, UnheardIsUnused, Holds, Idle
<1>9. QED
  BY <1>3, <1>5, <1>6, <1>7, <1>8 DEF Granting, RegistryInv, FreshInv, BornInv

(* A registration makes a session, and retires the one that it replaces.   *)
LEMMA NewSessionFacts ==
  ASSUME NEW m \in Requests, NEW edit \in BOOLEAN
  PROVE  LET x == NewSession(m, edit)
         IN  /\ x \in Sessions /\ x.client = m.client /\ x.epoch = m.epoch
             /\ x.generation = 1 /\ x.connected /\ ~x.grace /\ Idle(x)
<1>1. 0 \in 0..MaxAttempt /\ 1 \in Attempts
  BY RegistryAssumption DEF Attempts
<1>2. QED
  BY <1>1 DEF NewSession, Sessions, Requests, Idle

LEMMA RolledOverFacts ==
  ASSUME NEW r \in Sessions, NEW m
  PROVE  LET x == RolledOver(r, m)
         IN  Same(x, r) /\ x.connected = r.connected /\ x.grace = r.grace
<1> DEFINE y == [r EXCEPT !.owes = @ \ m.settled]
<1>1. /\ y \in Sessions /\ y.client = r.client /\ y.epoch = r.epoch
      /\ y.generation = r.generation /\ y.used = r.used /\ y.connected = r.connected
      /\ y.grace = r.grace
  BY DEF Sessions
<1>2. RolledOver(r, m) = Refreshed(y, "retired")
  BY DEF RolledOver
<1> HIDE DEF y
<1>3. QED
  BY <1>1, <1>2, RefreshedFacts DEF Same

LEMMA RegisterGrants ==
  ASSUME RegistryInv, NEW m \in wire, NEW edit \in BOOLEAN, ~FirstRetried(m),
         Registers(m), RegisterEffect(m, edit)
  PROVE  Granting(m) /\ Kept
<1> DEFINE a == m.client
           old == mapping[m.client]
           s == created + 1
<1>1. /\ m \in Requests /\ a \in Adapter /\ m.attempt \in Attempts /\ Speaks(m)
      /\ m.sid = 0
  BY WireRequest DEF Registers
<1>2. /\ created \in Nat /\ s \in Ids /\ s \in 0..MaxSession /\ s # 0 /\ created < s
      /\ s \notin Live /\ 1 \in Attempts
  BY RegistryAssumption DEF Registers, RegistryInv, Types, MappingType, FreshInv, Live, Ids,
     Attempts
<1>3. PICK fresh \in Sessions : fresh = NewSession(m, edit)
  BY <1>1, NewSessionFacts
<1>4. /\ fresh \in Sessions /\ fresh.client = a /\ fresh.epoch = m.epoch
      /\ fresh.generation = 1 /\ fresh.connected /\ ~fresh.grace /\ Idle(fresh)
  BY <1>1, <1>3, NewSessionFacts
<1>5. PICK nb \in Birth : nb = [client |-> a, attempt |-> m.attempt, sid |-> s,
                               generation |-> 1]
  BY <1>1, <1>2 DEF Birth
<1>6. nb.client = a /\ nb.attempt = m.attempt /\ nb.sid = s
  BY <1>5
<1>7. /\ sessions' = [t \in Ids |-> IF t = s THEN fresh
                                   ELSE IF t = old THEN RolledOver(sessions[t], m)
                                   ELSE sessions[t]]
      /\ mapping' = [mapping EXCEPT ![a] = s] /\ created' = s /\ born' = born \cup {nb}
  BY <1>3, <1>5 DEF RegisterEffect, Current
<1>8. old # 0 => /\ old \in Live /\ sessions[old].client = a /\ ~sessions[old].connected
                 /\ sessions[old].epoch # m.epoch
  BY <1>1 DEF Registers, Replaceable, Current, RegistryInv, OneConnectionEach
<1>9. \A t \in Live : t \in Ids /\ t # s /\ sessions[t] \in Sessions
  BY <1>2, LiveRecord
<1>10. sessions'[s] = fresh
  BY <1>2, <1>7
<1>11. \A t \in Live :
         /\ Same(sessions'[t], sessions[t])
         /\ sessions'[t].connected = sessions[t].connected
         /\ sessions'[t].grace = sessions[t].grace
         /\ t # old => sessions'[t] = sessions[t]
  BY <1>7, <1>9, RolledOverFacts DEF Same
<1>12. \A t \in Ids : t \notin Live /\ t # s => sessions'[t] = NoSession
  BY <1>7, <1>8 DEF Live, Ids
<1>13. SessionsType'
  <2>1. \A t \in Ids : sessions'[t] \in Sessions \cup {NoSession}
    BY <1>4, <1>10, <1>11, <1>12 DEF Same
  <2>2. QED
    BY <2>1, <1>7 DEF SessionsType
<1>14. Live' = Live \cup {s}
  <2>1. \A r \in Sessions : r # NoSession
    BY DEF Sessions, NoSession
  <2>2. QED
    BY <2>1, <1>2, <1>4, <1>9, <1>10, <1>11, <1>12 DEF Live, Same
<1>15. mapping'[a] = s /\ \A b \in Adapter \ {a} : mapping'[b] = mapping[b]
  BY <1>1, <1>7 DEF RegistryInv, Types, MappingType
<1>16. \A b \in Adapter : mapping[b] # 0 => mapping[b] \in Live /\ sessions[mapping[b]].client = b
  BY DEF RegistryInv, OneConnectionEach
<1>17. MappingType' /\ BornType'
  BY <1>2, <1>7 DEF RegistryInv, Types, MappingType, BornType
<1>18. OneConnectionEach'
  <2>1. ASSUME NEW b \in Adapter, mapping'[b] # 0
        PROVE  mapping'[b] \in Live' /\ sessions'[mapping'[b]].client = b
    BY <2>1, <1>4, <1>10, <1>11, <1>14, <1>15, <1>16 DEF Same
  <2>2. ASSUME NEW t \in Live', sessions'[t].connected
        PROVE  mapping'[sessions'[t].client] = t
    <3>1. CASE t = s
      BY <3>1, <1>4, <1>10, <1>15
    <3>2. CASE t # s
      <4>1. t \in Live /\ sessions[t].connected /\ sessions'[t].client = sessions[t].client
        BY <2>2, <3>2, <1>11, <1>14 DEF Same
      <4>2. mapping[sessions[t].client] = t /\ sessions[t].client \in Adapter
        BY <4>1, <1>9 DEF RegistryInv, OneConnectionEach, Sessions
      <4>3. sessions[t].client # a
        BY <4>1, <4>2, <1>8, <1>9 DEF Ids
      <4>4. QED
        BY <4>1, <4>2, <4>3, <1>15
    <3>3. QED
      BY <3>1, <3>2
  <2>3. QED
    BY <2>1, <2>2 DEF OneConnectionEach
<1>19. ASSUME NEW b \in born, b.client = a, b.attempt = m.attempt PROVE FALSE
  <2>1. Recognised(m, b)
    BY DEF RegistryInv, BornInv
  <2>2. old \in Live /\ sessions[old].epoch = m.epoch
    BY <2>1, <1>1, <1>19 DEF Recognised
  <2>3. QED
    BY <2>2, <1>8 DEF Live, Ids
<1>20. AttemptConnectsOnce'
  BY <1>6, <1>7, <1>19 DEF RegistryInv, AttemptConnectsOnce
<1>21. ASSUME NEW n \in wire, NEW b \in born' PROVE Recognised(n, b)'
  <2>1. n.client \in Adapter /\ n.sid <= created /\ n.sid \in 0..MaxSession
    BY WireRequest
  <2>2. CASE ~(n.client = b.client /\ n.attempt = b.attempt)
    BY <2>2 DEF Recognised
  <2>3. CASE b = nb /\ n.client = b.client /\ n.attempt = b.attempt
    <3>1. n = m
      BY <2>3, <1>6 DEF RegistryInv, WireInv, Apart
    <3>2. QED
      BY <3>1, <2>3, <1>1, <1>4, <1>6, <1>10, <1>14, <1>15 DEF Recognised
  <2>4. CASE b \in born /\ n.client = b.client /\ n.attempt = b.attempt
    <3>1. Recognised(n, b)
      BY <2>4 DEF RegistryInv, BornInv
    <3>2. CASE n.sid # 0
      <4>1. n.sid # s
        BY <2>1, <1>2
      <4>2. QED
        BY <3>1, <3>2, <4>1, <2>4, <1>11, <1>14 DEF Recognised, Same
    <3>3. CASE n.sid = 0
      <4>1. /\ mapping[n.client] = b.sid /\ b.sid \in Live
            /\ sessions[b.sid].epoch = n.epoch /\ ~sessions[b.sid].grace
        BY <3>1, <3>3, <2>4 DEF Recognised
      <4>2. n.client # a
        <5>1. n.client = a => n.epoch = m.epoch
          BY <1>1, WireRequest DEF Speaks
        <5>2. QED
          BY <4>1, <5>1, <1>8 DEF Live, Ids
      <4>3. QED
        BY <4>1, <4>2, <3>3, <2>1, <2>4, <1>11, <1>14, <1>15 DEF Recognised, Same
    <3>4. QED
      BY <3>2, <3>3
  <2>5. QED
    BY <2>2, <2>3, <2>4, <1>7
<1>22. ASSUME NEW b \in born' PROVE b.sid <= created' /\ b.attempt <= peers[b.client].attempt
  <2>1. CASE b = nb
    BY <2>1, <1>1, <1>2, <1>6, <1>7 DEF Speaks
  <2>2. CASE b \in born
    <3>1. b.sid <= created /\ b.sid \in Nat /\ b.attempt <= peers[b.client].attempt
      BY <2>2 DEF RegistryInv, FreshInv, BornInv, Types, BornType, Birth, Ids
    <3>2. QED
      BY <3>1, <1>2, <1>7
  <2>3. QED
    BY <2>1, <2>2, <1>7
<1>23. ASSUME NEW b \in Adapter, mapping'[b] # 0
       PROVE  \/ Idle(sessions'[mapping'[b]])
              \/ /\ peers[b].sid = mapping'[b]
                 /\ peers[b].generation = sessions'[mapping'[b]].generation
  <2>1. CASE b = a
    BY <2>1, <1>4, <1>10, <1>15
  <2>2. CASE b # a
    <3>1. mapping'[b] = mapping[b] /\ mapping[b] \in Live /\ mapping[b] # old
      BY <2>2, <1>8, <1>15, <1>16, <1>23
    <3>2. sessions'[mapping[b]] = sessions[mapping[b]]
      BY <3>1, <1>11
    <3>3. QED
      BY <3>1, <3>2, <1>23 DEF RegistryInv, UnheardIsUnused, Holds, Idle
  <2>3. QED
    BY <2>1, <2>2
<1>24. Granted(m).sid = s /\ Granted(m).generation = sessions'[s].generation
  BY <1>1, <1>15 DEF Granted, Current
<1>25. \A t \in Ids : t > created' => sessions'[t] = NoSession
  <2>1. \A t \in Ids : t > s => t \notin Live /\ t # s
    BY <1>2 DEF RegistryInv, FreshInv, Live, Ids
  <2>2. QED
    BY <2>1, <1>7, <1>12
<1>26. \A b \in Adapter : mapping'[b] <= created'
  <2>1. \A b \in Adapter : mapping[b] <= created /\ mapping[b] \in Nat
    BY DEF RegistryInv, FreshInv, Types, MappingType
  <2>2. QED
    BY <2>1, <1>2, <1>7, <1>15
<1>27. Granting(m)
  <2>1. \A t \in Live : t \in Live' /\ sessions'[t].client = sessions[t].client
    BY <1>11, <1>14 DEF Same
  <2>2. \A t \in Live' : t <= created => t \in Live
    BY <1>2, <1>14
  <2>3. \E t \in Live' :
          /\ Granted(m).sid = t /\ Granted(m).generation = sessions'[t].generation
          /\ mapping'[m.client] = t /\ (m.sid # 0 => m.sid = t)
    BY <1>1, <1>4, <1>10, <1>14, <1>15, <1>24
  <2>4. created <= created'
    BY <1>2, <1>7
  <2>5. QED
    BY <2>1, <2>2, <2>3, <2>4, <1>13, <1>17, <1>18, <1>20, <1>21, <1>22, <1>23, <1>25, <1>26
       DEF Granting
<1>28. Kept
  <2>1. ASSUME NEW t \in Live, t = old PROVE KeptBy(t)
    <3>1. t \in Nat /\ t # 0
      BY <1>9 DEF Ids
    <3>2. t \in Ids /\ sessions[t] # NoSession
      BY DEF Live
    <3>3. t <= created /\ created < s
      BY <3>2, <3>1, <1>2 DEF RegistryInv, FreshInv
    <3>4. mapping'[sessions[t].client] = s
      BY <2>1, <3>1, <1>8, <1>15
    <3>5. mapping'[sessions[t].client] > t
      BY <3>1, <3>3, <3>4, <1>2
    <3>6. QED
      BY <3>5, <1>14 DEF KeptBy
  <2>2. ASSUME NEW t \in Live, t # old PROVE KeptBy(t)
    BY <2>2, <1>11, <1>14 DEF KeptBy, Owed
  <2>3. QED
    BY <2>1, <2>2 DEF Kept
<1>29. QED
  BY <1>27, <1>28

(* A reconnect makes a generation, and keeps what a mutation owes.         *)
LEMMA ReplacedFacts ==
  ASSUME NEW r \in Sessions, NEW m \in Requests, NEW edit \in BOOLEAN,
         r.generation < MaxAttempt
  PROVE  LET x == Replaced(r, m, edit)
         IN  /\ x \in Sessions /\ x.client = r.client /\ x.epoch = r.epoch
             /\ x.generation = r.generation + 1 /\ x.connected /\ ~x.grace
             /\ x.used = r.used \cup {m.attempt}
             /\ {"edit", "fence"} \cap r.owes \subseteq x.owes /\ Idle(x)
<1>1. PICK d \in Sessions : d = Disconnected(r)
  BY DisconnectedFacts DEF Same
<1>2. /\ d \in Sessions /\ d.client = r.client /\ d.epoch = r.epoch
      /\ d.generation = r.generation /\ d.used = r.used /\ r.owes \subseteq d.owes
      /\ d.work = r.work /\ d.lost = (r.work # "none")
  BY <1>1, DisconnectedFacts DEF Same
<1>3. /\ r.generation \in Nat /\ r.generation + 1 \in Attempts /\ r.generation \in 0..MaxAttempt
      /\ 0 \in 0..MaxAttempt
  BY RegistryAssumption DEF Sessions, Attempts
<1>4. /\ m.attempt \in Attempts /\ m.attempt \in 0..MaxAttempt /\ m.settled \in SUBSET Uncertain
  BY RegistryAssumption DEF Requests, Attempts
<1>5. d.owes \in SUBSET Debts /\ d.used \in SUBSET Attempts
  BY DEF Sessions
<1> DEFINE y == [d EXCEPT !.generation = @ + 1, !.connected = TRUE, !.stale = FALSE,
                          !.polled = FALSE, !.retry = m.attempt, !.prior = r.generation,
                          !.used = @ \cup {m.attempt}, !.edit = edit,
                          !.owes = @ \ (m.settled \ {"edit"}), !.candidate = FALSE,
                          !.grace = FALSE]
<1>6. /\ y.client = d.client /\ y.epoch = d.epoch /\ y.generation = d.generation + 1
      /\ y.connected = TRUE /\ y.grace = FALSE /\ y.used = d.used \cup {m.attempt}
      /\ y.owes = d.owes \ (m.settled \ {"edit"})
      /\ y.polled = FALSE /\ y.work = d.work /\ y.lost = d.lost
  BY <1>2 DEF Sessions
<1>7. y \in Sessions
  BY <1>2, <1>3, <1>4, <1>5 DEF Sessions
<1>8. Replaced(r, m, edit) = Refreshed(y, "clear")
  BY <1>1 DEF Replaced
<1> HIDE DEF y
<1>9. \A x : x = Refreshed(y, "clear") =>
        /\ Same(x, y) /\ x.connected = y.connected /\ x.grace = y.grace /\ x.owes = y.owes
        /\ SameWork(x, y)
  BY <1>7, RefreshedFacts
<1>10. {"edit", "fence"} \cap r.owes \subseteq y.owes
  BY <1>2, <1>4, <1>6 DEF Uncertain
<1>11. QED
  BY <1>2, <1>6, <1>8, <1>9, <1>10 DEF Same, SameWork, Idle

LEMMA ReconnectGrants ==
  ASSUME RegistryInv, NEW m \in wire, NEW edit \in BOOLEAN,
         Reconnects(m), ReconnectEffect(m, edit)
  PROVE  Granting(m) /\ Kept
<1> DEFINE a == m.client
           s == m.sid
<1>1. /\ m \in Requests /\ a \in Adapter /\ m.attempt \in Attempts /\ Speaks(m)
      /\ s \in Live /\ s \in Ids /\ s # 0 /\ mapping[a] = s /\ sessions[s].client = a
      /\ s \in 0..MaxSession
  BY WireRequest DEF Reconnects, Names, Current, Live, Ids
<1>2. PICK r \in Sessions : r = sessions[s]
  BY <1>1, LiveRecord
<1>3. /\ m.token = r.generation /\ m.epoch = r.epoch /\ m.attempt \notin r.used
      /\ r.generation < MaxAttempt
  BY <1>2 DEF Reconnects, Proves
<1>4. PICK fresh \in Sessions : fresh = Replaced(r, m, edit)
  BY <1>1, <1>3, ReplacedFacts
<1>5. /\ fresh \in Sessions /\ fresh.client = r.client /\ fresh.epoch = r.epoch
      /\ fresh.generation = r.generation + 1 /\ fresh.connected /\ ~fresh.grace
      /\ fresh.used = r.used \cup {m.attempt}
      /\ {"edit", "fence"} \cap r.owes \subseteq fresh.owes /\ Idle(fresh)
  BY <1>1, <1>3, <1>4, ReplacedFacts
<1>6. r.generation + 1 \in Attempts
  BY <1>3, RegistryAssumption DEF Sessions, Attempts
<1>7. PICK nb \in Birth : nb = [client |-> a, attempt |-> m.attempt, sid |-> s,
                               generation |-> fresh.generation]
  BY <1>1, <1>5, <1>6 DEF Birth
<1>8. nb.client = a /\ nb.attempt = m.attempt /\ nb.sid = s
  BY <1>7
<1>9. /\ sessions' = [sessions EXCEPT ![s] = fresh] /\ born' = born \cup {nb}
      /\ mapping' = mapping /\ created' = created
  BY <1>2, <1>4, <1>7 DEF ReconnectEffect
<1>10. sessions'[s] = fresh /\ \A t \in Ids \ {s} : sessions'[t] = sessions[t]
  BY <1>1, <1>9 DEF RegistryInv, Types, SessionsType
<1>11. \A t \in Live : t \in Ids /\ sessions[t] \in Sessions
  BY LiveRecord
<1>12. Live' = Live
  <2>1. fresh # NoSession
    BY <1>5 DEF Sessions, NoSession
  <2>2. QED
    BY <2>1, <1>1, <1>10 DEF Live
<1>13. \A t \in Live :
         /\ sessions'[t].client = sessions[t].client /\ sessions'[t].epoch = sessions[t].epoch
         /\ sessions[t].used \subseteq sessions'[t].used
         /\ sessions'[t].grace => sessions[t].grace
         /\ t # s => sessions'[t] = sessions[t]
  <2>1. TAKE t \in Live
  <2>2. CASE t = s
    BY <2>2, <1>2, <1>5, <1>10
  <2>3. CASE t # s
    BY <2>3, <1>10, <1>11
  <2>4. QED
    BY <2>2, <2>3
<1>14. SessionsType' /\ MappingType' /\ BornType'
  BY <1>5, <1>9 DEF RegistryInv, Types, SessionsType, MappingType, BornType
<1>15. OneConnectionEach'
  <2>1. ASSUME NEW b \in Adapter, mapping'[b] # 0
        PROVE  mapping'[b] \in Live' /\ sessions'[mapping'[b]].client = b
    BY <2>1, <1>9, <1>12, <1>13 DEF RegistryInv, OneConnectionEach
  <2>2. ASSUME NEW t \in Live', sessions'[t].connected
        PROVE  mapping'[sessions'[t].client] = t
    BY <2>2, <1>1, <1>9, <1>12, <1>13 DEF RegistryInv, OneConnectionEach
  <2>3. QED
    BY <2>1, <2>2 DEF OneConnectionEach
<1>16. ASSUME NEW b \in born, b.client = a, b.attempt = m.attempt PROVE FALSE
  BY <1>1, <1>2, <1>3, <1>16 DEF RegistryInv, BornInv, Recognised
<1>17. AttemptConnectsOnce'
  BY <1>8, <1>9, <1>16 DEF RegistryInv, AttemptConnectsOnce
<1>18. ASSUME NEW n \in wire, NEW b \in born' PROVE Recognised(n, b)'
  <2>1. CASE ~(n.client = b.client /\ n.attempt = b.attempt)
    BY <2>1 DEF Recognised
  <2>2. CASE b = nb /\ n.client = b.client /\ n.attempt = b.attempt
    <3>1. n = m
      BY <2>2, <1>8 DEF RegistryInv, WireInv, Apart
    <3>2. m.attempt \in sessions'[s].used
      BY <1>5, <1>10
    <3>3. QED
      BY <3>1, <3>2, <1>1 DEF Recognised
  <2>3. CASE b \in born /\ n.client = b.client /\ n.attempt = b.attempt
    <3>1. Recognised(n, b)
      BY <2>3 DEF RegistryInv, BornInv
    <3>2. QED
      BY <3>1, <2>3, <1>9, <1>12, <1>13 DEF Recognised
  <2>4. QED
    BY <2>1, <2>2, <2>3, <1>9
<1>19. ASSUME NEW b \in born' PROVE b.sid <= created' /\ b.attempt <= peers[b.client].attempt
  <2>1. CASE b = nb
    BY <2>1, <1>1, <1>8, <1>9, WireRequest DEF Speaks
  <2>2. CASE b \in born
    BY <2>2, <1>9 DEF RegistryInv, FreshInv, BornInv
  <2>3. QED
    BY <2>1, <2>2, <1>9
<1>20. ASSUME NEW b \in Adapter, mapping'[b] # 0
       PROVE  \/ Idle(sessions'[mapping'[b]])
              \/ /\ peers[b].sid = mapping'[b]
                 /\ peers[b].generation = sessions'[mapping'[b]].generation
  <2>1. CASE mapping[b] = s
    BY <2>1, <1>5, <1>9, <1>10
  <2>2. CASE mapping[b] # s
    <3>1. mapping[b] \in Live /\ sessions'[mapping[b]] = sessions[mapping[b]]
      BY <2>2, <1>9, <1>13, <1>20 DEF RegistryInv, OneConnectionEach
    <3>2. QED
      BY <3>1, <1>9, <1>20 DEF RegistryInv, UnheardIsUnused, Holds, Idle
  <2>3. QED
    BY <2>1, <2>2
<1>21. Granting(m)
  <2>1. Granted(m).sid = s /\ Granted(m).generation = sessions'[s].generation
    BY <1>1 DEF Granted
  <2>3. \E t \in Live' :
          /\ Granted(m).sid = t /\ Granted(m).generation = sessions'[t].generation
          /\ mapping'[m.client] = t /\ (m.sid # 0 => m.sid = t)
    BY <2>1, <1>1, <1>9, <1>12
  <2>4. created <= created' /\ \A b \in Adapter : mapping'[b] <= created'
    BY <1>9 DEF RegistryInv, FreshInv, Types, MappingType
  <2>5. \A t \in Ids : t > created' => sessions'[t] = NoSession
    BY <1>1, <1>9, <1>10, <1>12 DEF RegistryInv, FreshInv, Live
  <2>6. QED
    BY <2>3, <2>4, <2>5, <1>12, <1>13, <1>14, <1>15, <1>17, <1>18, <1>19, <1>20 DEF Granting
<1>22. Kept
  <2>1. ASSUME NEW t \in Live PROVE Owed(t) \subseteq sessions'[t].owes
    <3>1. CASE t = s
      BY <3>1, <1>2, <1>5, <1>10 DEF Owed
    <3>2. CASE t # s
      BY <3>2, <1>13 DEF Owed
    <3>3. QED
      BY <3>1, <3>2
  <2>2. QED
    BY <2>1, <1>12 DEF Kept, KeptBy
<1>23. QED
  BY <1>21, <1>22

LEMMA ConnectStep ==
  ASSUME RegistryInv, NEW m \in wire, Connect(m)
  PROVE  RegistryInv' /\ Kept
<1>1. (Hears(m) \/ UNCHANGED peers) /\ UNCHANGED wire
  BY DEF Connect
<1>2. Granting(m) /\ Kept
  <2>1. PICK edit \in BOOLEAN :
          \/ FirstRetried(m) /\ UNCHANGED <<sessions, mapping, created, born>>
          \/ ~FirstRetried(m) /\ Registers(m) /\ RegisterEffect(m, edit)
          \/ ReconnectRetried(m) /\ UNCHANGED <<sessions, mapping, created, born>>
          \/ Reconnects(m) /\ ReconnectEffect(m, edit)
    BY DEF Connect
  <2>2. CASE FirstRetried(m) /\ UNCHANGED <<sessions, mapping, created, born>>
    BY <2>2, RetryGrants, UnchangedKeeps
  <2>3. CASE ~FirstRetried(m) /\ Registers(m) /\ RegisterEffect(m, edit)
    BY <2>3, RegisterGrants
  <2>4. CASE ReconnectRetried(m) /\ UNCHANGED <<sessions, mapping, created, born>>
    BY <2>4, RetryGrants, UnchangedKeeps
  <2>5. CASE Reconnects(m) /\ ReconnectEffect(m, edit)
    BY <2>5, ReconnectGrants
  <2>6. QED
    BY <2>1, <2>2, <2>3, <2>4, <2>5
<1>3. QED
  BY <1>1, <1>2, HearStep

-----------------------------------------------------------------------------
(* The sweep forgets only sessions that owe nothing and that no late copy  *)
(* of a request could be about.                                            *)
LEMMA SweepStep ==
  ASSUME RegistryInv, Sweep
  PROVE  RegistryInv' /\ Kept
<1>1. PICK gone \in SUBSET Live :
        /\ \A t \in gone : Expired(sessions[t]).grace /\ SafeToRetire(Expired(sessions[t]))
        /\ sessions' = [t \in Ids |-> IF t \in gone \/ t \notin Live THEN NoSession
                                     ELSE Expired(sessions[t])]
        /\ mapping' = [a \in Adapter |-> IF mapping[a] \in gone THEN 0 ELSE mapping[a]]
  <2>1. PICK after : after = [t \in Ids |-> IF t \in Live THEN Expired(sessions[t]) ELSE NoSession]
    OBVIOUS
  <2>2. PICK gone : gone = {t \in Live : after[t].grace /\ SafeToRetire(after[t])}
    OBVIOUS
  <2>3. \A t \in Live : t \in Ids /\ after[t] = Expired(sessions[t])
    BY <2>1 DEF Live
  <2>4. /\ sessions' = [t \in Ids |-> IF t \in gone THEN NoSession ELSE after[t]]
        /\ mapping' = [a \in Adapter |-> IF mapping[a] \in gone THEN 0 ELSE mapping[a]]
    BY <2>1, <2>2 DEF Sweep
  <2>5. sessions' = [t \in Ids |-> IF t \in gone \/ t \notin Live THEN NoSession
                                  ELSE Expired(sessions[t])]
    BY <2>1, <2>4
  <2>6. gone \in SUBSET Live
        /\ \A t \in gone : Expired(sessions[t]).grace /\ SafeToRetire(Expired(sessions[t]))
    BY <2>2, <2>3
  <2>7. QED
    BY <2>4, <2>5, <2>6
<1>2. UNCHANGED <<created, peers, wire, born>>
  BY DEF Sweep
<1>3. \A t \in Live : t \in Ids /\ sessions[t] \in Sessions
  BY LiveRecord
<1>4. \A t \in Live \ gone :
         /\ sessions'[t] = Expired(sessions[t]) /\ Follows(sessions'[t], sessions[t])
         /\ Owed(t) \subseteq sessions'[t].owes
  BY <1>1, <1>3, ExpiredFacts DEF Owed
<1>5. \A t \in Ids : t \notin Live \ gone => sessions'[t] = NoSession
  BY <1>1
<1>6. Live' = Live \ gone
  <2>1. \A r \in Sessions : r # NoSession
    BY DEF Sessions, NoSession
  <2>2. QED
    BY <2>1, <1>3, <1>4, <1>5 DEF Live, Follows, Same
<1>7. \A t \in gone : sessions[t].grace /\ ~sessions[t].connected /\ Owed(t) = {}
  <2>1. TAKE t \in gone
  <2>2. sessions[t] \in Sessions
    BY <1>1, <1>3
  <2>3. Expired(sessions[t]).grace /\ Expired(sessions[t]).owes = {}
    BY <1>1 DEF SafeToRetire
  <2>4. Expired(sessions[t]) = sessions[t]
    BY <2>2, <2>3, DisconnectedFacts DEF Expired
  <2>5. QED
    BY <2>3, <2>4, <1>1 DEF SafeToRetire, Owed
<1>8. \A a \in Adapter : mapping'[a] = IF mapping[a] \in gone THEN 0 ELSE mapping[a]
  BY <1>1
<1>9. Types'
  <2>1. SessionsType'
    <3>1. \A t \in Ids : sessions'[t] \in Sessions \cup {NoSession}
      BY <1>4, <1>5 DEF Follows, Same
    <3>2. QED
      BY <3>1, <1>1 DEF SessionsType
  <2>2. MappingType'
    <3>1. 0 \in 0..MaxSession
      BY RegistryAssumption
    <3>2. QED
      BY <3>1, <1>1, <1>2 DEF RegistryInv, Types, MappingType
  <2>3. QED
    BY <2>1, <2>2, <1>2 DEF RegistryInv, Types, PeersType, WireType, BornType
<1>10. FreshInv'
  <2>1. \A t \in Ids : t > created => t \notin Live
    BY DEF RegistryInv, FreshInv, Live
  <2>2. \A a \in Adapter : mapping'[a] <= created
    BY <1>8 DEF RegistryInv, FreshInv, Types, MappingType
  <2>3. QED
    BY <2>1, <2>2, <1>2, <1>5 DEF RegistryInv, FreshInv
<1>11. WireInv'
  <2>1. ASSUME NEW m \in wire PROVE Speaks(m)'
    <3>1. Speaks(m)
      BY DEF RegistryInv, WireInv
    <3>2. QED
      BY <3>1, <1>2, <1>4, <1>6 DEF Speaks, Follows, Same
  <2>2. QED
    BY <2>1, <1>2 DEF RegistryInv, WireInv, Apart
<1>12. BornInv'
  <2>1. ASSUME NEW m \in wire, NEW b \in born PROVE Recognised(m, b)'
    <3>1. Recognised(m, b) /\ m.client \in Adapter
      BY WireRequest DEF RegistryInv, BornInv
    <3>2. QED
      BY <3>1, <1>4, <1>6, <1>7, <1>8 DEF Recognised, Follows, Same
  <2>2. QED
    BY <2>1, <1>2 DEF RegistryInv, BornInv
<1>13. PeerInv'
  BY <1>2, <1>4, <1>6 DEF RegistryInv, PeerInv, Follows, Same
<1>14. OneConnectionEach'
  <2>1. ASSUME NEW a \in Adapter, mapping'[a] # 0
        PROVE  mapping'[a] \in Live' /\ sessions'[mapping'[a]].client = a
    BY <2>1, <1>4, <1>6, <1>8 DEF RegistryInv, OneConnectionEach, Follows, Same
  <2>2. ASSUME NEW t \in Live', sessions'[t].connected
        PROVE  mapping'[sessions'[t].client] = t
    <3>1. /\ t \in Live \ gone /\ sessions[t].connected
          /\ sessions'[t].client = sessions[t].client /\ sessions[t].client \in Adapter
      BY <2>2, <1>3, <1>4, <1>6 DEF Follows, Same, Sessions
    <3>2. mapping[sessions[t].client] = t
      BY <3>1 DEF RegistryInv, OneConnectionEach
    <3>3. QED
      BY <3>1, <3>2, <1>8
  <2>3. QED
    BY <2>1, <2>2 DEF OneConnectionEach
<1>15. AttemptConnectsOnce'
  BY <1>2 DEF RegistryInv, AttemptConnectsOnce
<1>16. UnheardIsUnused'
  <2>1. ASSUME NEW a \in Adapter, mapping'[a] # 0, ~Holds(a)' PROVE Idle(sessions'[mapping'[a]])
    <3>1. mapping'[a] = mapping[a] /\ mapping[a] \in Live \ gone
      BY <2>1, <1>8 DEF RegistryInv, OneConnectionEach
    <3>2. ~Holds(a)
      BY <2>1, <3>1, <1>2, <1>4 DEF Holds, Follows, Same
    <3>3. Idle(sessions[mapping[a]])
      BY <2>1, <3>1, <3>2 DEF RegistryInv, UnheardIsUnused, Idle
    <3>4. QED
      BY <3>1, <3>3, <1>4 DEF Follows
  <2>2. QED
    BY <2>1 DEF UnheardIsUnused, Idle
<1>17. Kept
  BY <1>4, <1>6, <1>7 DEF Kept, KeptBy
<1>18. QED
  BY <1>9, <1>10, <1>11, <1>12, <1>13, <1>14, <1>15, <1>16, <1>17 DEF RegistryInv

-----------------------------------------------------------------------------
LEMMA InitHolds ==
  ASSUME Init
  PROVE  RegistryInv
<1>1. Live = {}
  BY DEF Init, Live
<1>2. Types
  <2>1. [phase |-> "new", epoch |-> 1, sid |-> 0, generation |-> 0, attempt |-> 0] \in Peers
    BY RegistryAssumption DEF Peers
  <2>2. 0 \in 0..MaxSession
    BY RegistryAssumption
  <2>3. QED
    BY <2>1, <2>2 DEF Init, Types, SessionsType, MappingType, PeersType, WireType, BornType
<1>3. FreshInv /\ WireInv /\ BornInv /\ PeerInv
  BY <1>1 DEF Init, FreshInv, WireInv, BornInv, PeerInv
<1>4. OneConnectionEach /\ AttemptConnectsOnce /\ UnheardIsUnused
  BY <1>1 DEF Init, OneConnectionEach, AttemptConnectsOnce, UnheardIsUnused
<1>5. QED
  BY <1>2, <1>3, <1>4 DEF RegistryInv

LEMMA StutterStep ==
  ASSUME RegistryInv, UNCHANGED vars
  PROVE  RegistryInv' /\ Kept
<1>1. UNCHANGED <<sessions, mapping, created, peers, wire, born>>
  BY DEF vars
<1>2. SessionsFollow /\ PeersFollow
  BY <1>1, SessionsUnchanged, PeersUnchanged DEF RegistryInv, Types
<1>3. QED
  BY <1>1, <1>2, FollowStep, UnchangedKeeps

LEMMA NextStep ==
  ASSUME RegistryInv, [Next]_vars
  PROVE  RegistryInv' /\ Kept
<1>1. ASSUME NEW a \in Adapter,
             \/ Register(a) \/ Reconnect(a) \/ RegisterAfresh(a)
             \/ OpenDocument(a) \/ Unheard(a)
             \/ Poll(a) \/ Leave(a) \/ Crash(a)
      PROVE  RegistryInv' /\ Kept
  BY <1>1, RegisterStep, ReconnectStep, OpenDocumentStep, EndStep, PollStep, LeaveStep
<1>2. ASSUME NEW m \in wire, Connect(m) \/ Lapse(m)
      PROVE  RegistryInv' /\ Kept
  BY <1>2, ConnectStep, LapseStep
<1>3. ASSUME NEW s \in Ids, NEW k \in Uncertain, Dispatch(s, k)
      PROVE  RegistryInv' /\ Kept
  BY <1>3, DispatchStep
<1>4. ASSUME NEW s \in Ids, NEW d \in Debts, PayOff(s, d)
      PROVE  RegistryInv' /\ Kept
  BY <1>4, PayOffStep
<1>5. ASSUME NEW s \in Ids,
             \/ Answer(s) \/ Unwind(s) \/ OpenPlay(s) \/ ChangeMode(s)
             \/ LeaseEnds(s) \/ ExpireLease(s) \/ GracePasses(s)
      PROVE  RegistryInv' /\ Kept
  BY <1>5, AnswerStep, UnwindStep, OpenPlayStep, ChangeModeStep, LeaseEndsStep, ExpireLeaseStep,
     GracePassesStep
<1>6. CASE Sweep
  BY <1>6, SweepStep
<1>7. CASE UNCHANGED vars
  BY <1>7, StutterStep
<1>8. QED
  BY <1>1, <1>2, <1>3, <1>4, <1>5, <1>6, <1>7 DEF Next

(* The inductive invariant holds: registry.register, replace_connection,   *)
(* the session's bookkeeping and the sweep keep what the registry knows of *)
(* an adapter in step with what the adapter knows of it.                   *)
THEOREM RegistryHolds == Spec => []RegistryInv
<1>1. Init => RegistryInv
  BY InitHolds
<1>2. RegistryInv /\ [Next]_vars => RegistryInv'
  BY NextStep
<1>3. QED
  BY <1>1, <1>2, PTL DEF Spec

(* Every variable of the registry, of its adapters and of the wire keeps   *)
(* its type.                                                               *)
THEOREM RegistryTypes == Spec => []TypeOK
<1>1. RegistryInv => TypeOK
  BY TypesAreTypeOK DEF RegistryInv
<1>2. QED
  BY <1>1, RegistryHolds, PTL

(* register and the sweep leave an adapter one current session, and no     *)
(* other session of its connected.                                         *)
THEOREM RegistryOneConnection == Spec => []OneConnectionEach
<1>1. RegistryInv => OneConnectionEach
  BY DEF RegistryInv
<1>2. QED
  BY <1>1, RegistryHolds, PTL

(* However often a connect request is repeated, lost or late, register     *)
(* makes one connection of it.                                             *)
THEOREM RegistryConnectsOnce == Spec => []AttemptConnectsOnce
<1>1. RegistryInv => AttemptConnectsOnce
  BY DEF RegistryInv
<1>2. QED
  BY <1>1, RegistryHolds, PTL

(* A connection that a late copy made, or whose reply was lost, is used    *)
(* for nothing: register and replace_connection leave it unpolled, and a   *)
(* session sends nothing before its first poll.                            *)
THEOREM RegistryUnheardUnused == Spec => []UnheardIsUnused
<1>1. RegistryInv => UnheardIsUnused
  BY DEF RegistryInv
<1>2. QED
  BY <1>1, RegistryHolds, PTL

(* A reconnect, a lease that ends and the sweep keep what a mutation of    *)
(* unknown outcome owes.                                                   *)
THEOREM RegistryKeepsDebts == Spec => DebtIsKept
<1>1. RegistryInv /\ [Next]_vars =>
        [\A s \in Live : {"edit", "fence"} \cap sessions[s].owes # {} =>
           \/ \E d \in Debts : PayOff(s, d)
           \/ /\ s \in Live'
              /\ \/ {"edit", "fence"} \cap sessions[s].owes \subseteq sessions'[s].owes
                 \/ mapping'[sessions[s].client] > s]_vars
  BY NextStep DEF Kept, KeptBy, Owed
<1>2. QED
  BY <1>1, RegistryHolds, PTL DEF Spec, DebtIsKept

=============================================================================

----------------------------- MODULE BrokerProofs -----------------------------
(***************************************************************************)
(* Proofs about Broker, for any number of callers, releases, requests and  *)
(* broker processes, and with every fault: a stop loses nothing, a request *)
(* is executed at most once, and a broker that is started finds the port   *)
(* free.                                                                   *)
(***************************************************************************)
EXTENDS Broker, SequenceTheorems, TLAPS

Proc ==
  [phase : {"absent", "spawned", "serving", "committed", "gone"},
   release : {0} \cup First \cup {Release[c] : c \in Caller}, fence : BOOLEAN,
   summary : {"none", "queued", "safe", "unsafe"}, unsafe : BOOLEAN,
   ended : {"no", "stop", "signal", "crash", "bind"}]
ProcType == procs \in [Instances -> Proc]
QueueType == queue \in [Instances -> Seq(Op \cup {"stop"})]
Request ==
  [at : 0..MaxInstance, thread : {"none", "waiting", "gone"}, runs : Nat,
   kind : {"none", "call", "job", "studio"}, work : Unsettled \cup {"none", "done", "dropped"},
   told : {"none", "result", "refused", "timeout", "lost"}]
OpType == ops \in [Op -> Request]
Call ==
  [pc : {"idle", "probe", "ask", "asked", "wait", "spawn", "start", "out", "dead"},
   want : {"none", "ensure", "stop"}, port : BOOLEAN, target : 0..MaxInstance, calls : 0..MaxCalls]
CallerType == callers \in [Caller -> Call]
LockType == lock \in {"free"} \cup Caller
LockHeld == \A c \in Caller : lock = c <=> callers[c].pc \notin {"idle", "dead"}

(* How far a request can be: sent to a broker or to none, run or not yet.  *)
OpsInv ==
  \A o \in Op :
    /\ ops[o].at = 0 <=> ops[o].work = "none"
    /\ ops[o].at = 0 <=> ops[o].thread = "none"
    /\ ops[o].work = "admitted" => ops[o].thread = "waiting"
    /\ ops[o].runs <= 1
    /\ ops[o].work \in {"none", "admitted", "queued"} => ops[o].runs = 0
    /\ ops[o].work = "dropped" => procs[ops[o].at].phase = "gone"

(* What waits in the queue of a loop, once; a stop is always the last.     *)
Queued(i) ==
  \A p \in 1..Len(queue[i]) :
    /\ queue[i][p] \in Op => ops[queue[i][p]].work = "queued" /\ ops[queue[i][p]].at = i
    /\ queue[i][p] = "stop" => p = Len(queue[i]) /\ procs[i].summary = "queued"
    /\ \A r \in 1..Len(queue[i]) : queue[i][p] = queue[i][r] => p = r
QueueInv ==
  /\ \A i \in Instances : Queued(i)
  /\ \A o \in Op : ops[o].work = "queued" =>
       \E p \in 1..Len(queue[ops[o].at]) : queue[ops[o].at][p] = o

(* From its fence to its end, a stop finds less and less to lose.          *)
Settled(i) ==
  ~procs[i].unsafe /\ queue[i] = <<>> /\ \A o \in Op : ops[o].at = i => ops[o].work \notin Unsettled
Stopping(i) ==
  /\ procs[i].summary # "none" => procs[i].fence
  /\ procs[i].fence => \A o \in Op : ops[o].at = i => ops[o].thread # "waiting"
  /\ procs[i].summary = "safe" => Settled(i)
  /\ procs[i].phase = "committed" => procs[i].summary = "safe"
  /\ procs[i].ended = "stop" =>
       /\ procs[i].phase = "gone" /\ ~procs[i].unsafe
       /\ \A o \in Op : ops[o].at = i => ops[o].work # "dropped"
StopInv == \A i \in Instances : Stopping(i)

(* Unless a caller was killed: a broker is started under the lock, once    *)
(* the port was seen closed, and nobody else starts one.                   *)
Alive(i) == procs[i].phase \in {"spawned", "serving", "committed"}
Orderly ==
  /\ \A i \in Instances : procs[i].phase = "spawned" =>
       \E c \in Caller : callers[c].pc = "start" /\ callers[c].target = i
  /\ \A c \in Caller : callers[c].pc = "spawn" \/ (callers[c].pc = "probe" /\ ~callers[c].port) =>
       \A i \in Instances : ~Alive(i)
  /\ \A i, j \in Instances : Alive(i) /\ Alive(j) => i = j
  /\ \A i \in Instances : procs[i].ended # "bind"
StartInv ==
  /\ \A c \in Caller : callers[c].pc = "start" => callers[c].target \in Instances
  /\ (\A c \in Caller : callers[c].pc # "dead") => Orderly

Types == ProcType /\ QueueType /\ OpType /\ CallerType /\ LockType /\ LockHeld
BrokerInv == Types /\ OpsInv /\ QueueInv /\ StopInv /\ StartInv

LEMMA TypesAreTypeOK == Types <=> TypeOK
BY DEF Types, ProcType, Proc, QueueType, OpType, Request, CallerType, Call, LockType, LockHeld, TypeOK

LEMMA ListenerListens == PortOpen => Listener \in Instances /\ Listening(Listener)
BY DEF PortOpen, Listener

-----------------------------------------------------------------------------
LEMMA BrokerStart == Init => BrokerInv
<1> SUFFICES ASSUME Init PROVE BrokerInv
  OBVIOUS
<1>1. PICK first \in {NoProc} \cup {Serving(r) : r \in First} :
        procs = [i \in Instances |-> IF i = 1 THEN first ELSE NoProc]
  BY DEF Init
<1>11. /\ first.phase \in {"absent", "serving"} /\ first.summary = "none" /\ first.unsafe = FALSE
       /\ first.fence = FALSE /\ first.ended = "no"
       /\ first \in Proc
  <2>1. CASE first = NoProc
    BY <2>1 DEF NoProc, Proc
  <2>2. CASE first # NoProc
    <3>1. PICK r \in First : first = Serving(r)
      BY <1>1, <2>2
    <3>2. first = [phase |-> "serving", release |-> r, fence |-> FALSE, summary |-> "none",
                   unsafe |-> FALSE, ended |-> "no"]
      BY <3>1 DEF Serving, NoProc
    <3>3. QED
      BY <3>2 DEF Proc
  <2>3. QED
    BY <2>1, <2>2
<1>12. NoProc \in Proc
  BY DEF NoProc, Proc
<1>2. ProcType
  BY <1>1, <1>11, <1>12 DEF ProcType
<1>3. QueueType /\ OpType /\ CallerType /\ LockType
  BY BrokerAssumption DEF Init, QueueType, OpType, Request, Call, CallerType, LockType, NoOp, NoCall, Unsettled
<1>4. LockHeld
  BY BrokerAssumption DEF Init, LockHeld, NoCall
<1>5. OpsInv
  BY DEF Init, OpsInv, NoOp
<1>6. QueueInv
  BY DEF Init, QueueInv, Queued, NoOp
<1>7. \A i \in Instances : /\ procs[i].phase \in {"absent", "serving"} /\ procs[i].summary = "none"
                           /\ procs[i].fence = FALSE /\ procs[i].ended = "no"
                           /\ procs[i].phase = "serving" => i = 1
  BY <1>1, <1>11 DEF NoProc
<1>8. StopInv
  BY <1>7 DEF StopInv, Stopping
<1>9. StartInv
  BY <1>7 DEF Init, StartInv, Orderly, Alive, NoCall
<1>10. QED
  BY <1>2, <1>3, <1>4, <1>5, <1>6, <1>8, <1>9 DEF BrokerInv, Types

-----------------------------------------------------------------------------
(* Steps of the requests                                                   *)

(* The parts of the invariant that a caller's own steps leave alone, and   *)
(* those that the steps of requests and brokers leave alone.               *)
BrokerPart == ProcType /\ QueueType /\ OpType /\ OpsInv /\ QueueInv /\ StopInv
CallerPart == CallerType /\ LockType /\ LockHeld /\ StartInv

LEMMA Parts == BrokerInv <=> BrokerPart /\ CallerPart
BY DEF BrokerInv, Types, BrokerPart, CallerPart

LEMMA BrokerPartKept == BrokerPart /\ UNCHANGED <<procs, queue, ops>> => BrokerPart'
BY DEF BrokerPart, ProcType, QueueType, OpType, OpsInv, QueueInv, Queued, StopInv, Stopping, Settled

(* A step that changes no caller, and of the processes at most what their  *)
(* loops and fences know.                                                  *)
LEMMA CallerPartKept ==
  ASSUME CallerPart, UNCHANGED <<callers, lock>>,
         \A i \in Instances : procs'[i].phase = procs[i].phase /\ procs'[i].ended = procs[i].ended
  PROVE  CallerPart'
BY DEF CallerPart, CallerType, LockType, LockHeld, StartInv, Orderly, Alive

(* A step after which the requests are as far as before.                   *)
LEMMA SameProgress ==
  ASSUME BrokerPart, UNCHANGED <<procs, queue>>, OpType',
         \A p \in Op : /\ ops'[p].at = ops[p].at /\ ops'[p].thread = ops[p].thread
                       /\ ops'[p].work = ops[p].work /\ ops'[p].runs = ops[p].runs
  PROVE  BrokerPart'
<1>1. OpsInv'
  BY DEF BrokerPart, OpsInv
<1>2. QueueInv'
  BY DEF BrokerPart, QueueInv, Queued
<1>3. StopInv'
  BY DEF BrokerPart, StopInv, Stopping, Settled
<1>4. QED
  BY <1>1, <1>2, <1>3 DEF BrokerPart, ProcType, QueueType

LEMMA SendStep == ASSUME BrokerInv, NEW o \in Op, Send(o) PROVE BrokerInv'
<1> USE DEF BrokerInv, Types
<1>1. CallerPart'
  BY CallerPartKept, Parts DEF Send
<1>2. CASE procs = procs' /\ queue' = queue /\ \E t \in {"lost", "refused"} : ops' = [ops EXCEPT ![o].told = t]
  <2>6. PICK t \in {"lost", "refused"} : ops' = [ops EXCEPT ![o].told = t]
    BY <1>2
  <2>1. OpType'
    BY <2>6 DEF OpType, Request
  <2>7. \A p \in Op : /\ ops'[p].at = ops[p].at /\ ops'[p].thread = ops[p].thread
                       /\ ops'[p].work = ops[p].work /\ ops'[p].runs = ops[p].runs
    BY <2>6 DEF OpType, Request
  <2>8. UNCHANGED <<procs, queue>>
    BY <1>2
  <2>5. QED
    BY <1>1, <2>1, <2>7, <2>8, SameProgress DEF BrokerPart, CallerPart
<1>3. CASE /\ procs' = procs /\ queue' = queue /\ PortOpen /\ ~procs[Listener].fence
           /\ \E k \in Kinds[o] :
                ops' = [ops EXCEPT ![o] = [@ EXCEPT !.at = Listener, !.work = "admitted",
                                             !.thread = "waiting", !.told = "none", !.kind = k]]
  <2>1. Listener \in Instances /\ Listening(Listener) /\ Listener # 0
    BY <1>3, ListenerListens DEF Instances
  <2>2. ops[o].thread = "none" /\ ops[o].work = "none" /\ ops[o].runs = 0 /\ ops[o].at = 0
    BY DEF Send, MaySend, OpsInv
  <2>3. /\ \A p \in Op \ {o} : ops'[p] = ops[p]
        /\ ops'[o].at = Listener /\ ops'[o].work = "admitted" /\ ops'[o].thread = "waiting"
        /\ ops'[o].runs = 0
    BY <1>3, <2>2 DEF OpType, Request
  <2>9. PICK k \in Kinds[o] :
           ops' = [ops EXCEPT ![o] = [@ EXCEPT !.at = Listener, !.work = "admitted",
                                         !.thread = "waiting", !.told = "none", !.kind = k]]
    BY <1>3
  <2>10. k \in {"call", "job", "studio"}
    BY BrokerAssumption
  <2>4. OpType'
    <3>1. ops[o] \in Request /\ Listener \in 0..MaxInstance
      BY <2>1 DEF OpType, Instances
    <3>2. ops'[o] \in Request
      BY <2>9, <2>10, <3>1 DEF Request, Unsettled, OpType
    <3>3. QED
      BY <2>9, <3>2 DEF OpType
  <2>5. OpsInv'
    BY <1>3, <2>1, <2>3 DEF OpsInv
  <2>6. QueueInv'
    BY <1>3, <2>2, <2>3 DEF QueueInv, Queued
  <2>7. StopInv'
    BY <1>3, <2>1, <2>3 DEF StopInv, Stopping, Settled
  <2>11. UNCHANGED <<procs, queue>>
    BY <1>3
  <2>8. QED
    BY <1>1, <2>11, <2>4, <2>5, <2>6, <2>7 DEF BrokerPart, CallerPart, ProcType, QueueType
<1>4. QED
  BY <1>2, <1>3 DEF Send

LEMMA SubmitStep == ASSUME BrokerInv, NEW o \in Op, Submit(o) PROVE BrokerInv'
<1> USE DEF BrokerInv, Types
<1> DEFINE i == ops[o].at
           q == queue[i]
<1>1. CallerPart'
  BY CallerPartKept, Parts DEF Submit
<1>2. i \in Instances /\ ops[o].work = "admitted" /\ ops[o].thread = "waiting"
  BY DEF Submit, OpsInv, OpType, Request, Instances
<1>3. ~procs[i].fence /\ procs[i].summary = "none"
  BY <1>2 DEF StopInv, Stopping, ProcType, Proc
<1>4. procs' = procs /\ queue' = [queue EXCEPT ![i] = Append(q, o)] /\ ops' = [ops EXCEPT ![o].work = "queued"]
  BY DEF Submit
<1>5. q \in Seq(Op \cup {"stop"})
  BY <1>2 DEF QueueType
<1>6. /\ \A p \in Op \ {o} : ops'[p] = ops[p]
      /\ ops'[o] = [ops[o] EXCEPT !.work = "queued"]
      /\ ops'[o].work = "queued" /\ ops'[o].at = i /\ ops'[o].thread = "waiting"
      /\ ops'[o].runs = ops[o].runs
  BY <1>2, <1>4 DEF OpType, Request
<1>17. ops'[o].work = "queued" /\ ops'[o].at = i
  BY <1>6
<1>7. /\ Len(Append(q, o)) = Len(q) + 1 /\ Append(q, o)[Len(q) + 1] = o
      /\ \A p \in 1..Len(q) : Append(q, o)[p] = q[p]
      /\ Len(q) \in Nat
  BY <1>5
<1>8. \A p \in 1..Len(q) : q[p] # o
  BY <1>2 DEF QueueInv, Queued
<1>9. QueueType' /\ ProcType'
  BY <1>4, <1>5, <1>2 DEF QueueType, ProcType
<1>10. OpType'
  BY <1>4 DEF OpType, Request, Unsettled
<1>11. OpsInv'
  BY <1>2, <1>4, <1>6 DEF OpsInv
<1>12. ASSUME NEW j \in Instances PROVE Queued(j)'
  <2>1. CASE j = i
    <3>1. queue'[j] = Append(q, o)
      BY <1>4, <2>1 DEF QueueType
    <3>2. \A p \in 1..Len(q) : q[p] # "stop"
      BY <1>2, <1>3 DEF QueueInv, Queued
    <3>3. "stop" # o
      BY BrokerAssumption
    <3>4. \A p \in 1..Len(q) : q[p] \in Op => ops'[q[p]].work = "queued" /\ ops'[q[p]].at = i
      BY <1>2, <1>6, <1>8 DEF QueueInv, Queued
    <3>5. \A p, r \in 1..Len(q) : q[p] = q[r] => p = r
      BY <1>2 DEF QueueInv, Queued
    <3> HIDE DEF i, q
    <3>7. Len(queue'[j]) = Len(q) + 1 /\ queue'[j][Len(q) + 1] = o
          /\ \A p \in 1..Len(q) : queue'[j][p] = q[p]
      BY <1>7, <3>1
    <3>8. \A p \in 1..Len(queue'[j]) : p \in 1..Len(q) \/ p = Len(q) + 1
      BY <1>7, <3>7
    <3>9. ASSUME NEW p \in 1..Len(queue'[j])
          PROVE  /\ queue'[j][p] \in Op => ops'[queue'[j][p]].work = "queued" /\ ops'[queue'[j][p]].at = j
                 /\ queue'[j][p] # "stop"
      <4>1. CASE p \in 1..Len(q)
        BY <2>1, <3>2, <3>4, <3>7, <4>1
      <4>2. CASE p = Len(q) + 1
        BY <1>17, <2>1, <3>3, <3>7, <4>2
      <4>3. QED
        BY <3>8, <4>1, <4>2
    <3>10. ASSUME NEW p \in 1..Len(queue'[j]), NEW r \in 1..Len(queue'[j]), queue'[j][p] = queue'[j][r]
           PROVE  p = r
      BY <1>8, <3>5, <3>7, <3>8, <3>10
    <3>6. QED
      BY <3>9, <3>10 DEF Queued
  <2>2. CASE j # i
    <3>1. queue'[j] = queue[j]
      BY <1>4, <2>2 DEF QueueType
    <3>2. \A p \in 1..Len(queue[j]) : queue[j][p] # o
      BY <1>2 DEF QueueInv, Queued
    <3>3. \A p \in 1..Len(queue[j]) : queue[j][p] \in Op => ops'[queue[j][p]] = ops[queue[j][p]]
      BY <1>6, <3>2
    <3>4. Queued(j) /\ procs' = procs
      BY <1>4 DEF QueueInv
    <3>5. QED
      BY <3>1, <3>3, <3>4 DEF Queued
  <2>3. QED
    BY <2>1, <2>2
<1>13. ASSUME NEW u \in Op, ops'[u].work = "queued"
       PROVE  \E p \in 1..Len(queue'[ops'[u].at]) : queue'[ops'[u].at][p] = u
  <2>1. queue'[i] = Append(q, o)
    BY <1>2, <1>4 DEF QueueType
  <2>2. CASE u = o
    <3>1. Len(q) + 1 \in 1..Len(Append(q, o))
      BY <1>7
    <3>2. QED
      BY <1>17, <1>7, <2>1, <2>2, <3>1
  <2>3. CASE u # o /\ ops[u].at = i
    <3>1. PICK p \in 1..Len(q) : q[p] = u
      BY <1>6, <1>13, <2>3 DEF QueueInv
    <3>2. p \in 1..Len(Append(q, o)) /\ Append(q, o)[p] = u
      BY <1>7, <3>1
    <3>3. QED
      BY <1>6, <2>1, <2>3, <3>2
  <2>4. CASE u # o /\ ops[u].at # i
    <3>1. ops'[u] = ops[u]
      BY <1>6, <2>4
    <3>2. ops[u].at \in Instances
      BY <3>1, <1>13 DEF OpType, Request, Instances, OpsInv
    <3>3. queue'[ops[u].at] = queue[ops[u].at]
      BY <1>4, <2>4, <3>2 DEF QueueType
    <3>4. QED
      BY <1>13, <3>1, <3>3 DEF QueueInv
  <2>5. QED
    BY <2>2, <2>3, <2>4
<1>14. StopInv'
  <2> SUFFICES ASSUME NEW j \in Instances PROVE Stopping(j)'
    BY DEF StopInv
  <2>1. CASE j = i
    BY <1>3, <1>4, <1>6, <2>1 DEF StopInv, Stopping, Settled
  <2>2. CASE j # i
    BY <1>4, <1>6, <2>2 DEF StopInv, Stopping, Settled, QueueType
  <2>3. QED
    BY <2>1, <2>2
<1>15. QueueInv'
  BY <1>12, <1>13 DEF QueueInv
<1>16. QED
  BY <1>1, <1>9, <1>10, <1>11, <1>14, <1>15 DEF CallerPart

(* A request goes on: its work ends or its outcome becomes unknown, or its *)
(* thread answers or gives up.                                             *)
LEMMA GoesOn ==
  ASSUME BrokerPart, NEW o \in Op, UNCHANGED <<procs, queue>>, OpType', ops[o].at # 0,
         \A p \in Op \ {o} : ops'[p] = ops[p],
         ops'[o].at = ops[o].at, ops'[o].runs = ops[o].runs,
         ops'[o].thread \in {ops[o].thread, "gone"},
         \/ ops'[o].work = ops[o].work
         \/ ops[o].work \in {"working", "uncertain"} /\ ops'[o].work \in {"done", "uncertain"},
         ops[o].work = "admitted" => ops'[o].thread = "waiting"
  PROVE  BrokerPart'
<1> USE DEF BrokerPart
<1>1. OpsInv'
  BY DEF OpsInv
<1>2. ASSUME NEW i \in Instances PROVE Queued(i)'
  <2>1. \A u \in Op : ops[u].work = "queued" => ops'[u].work = "queued" /\ ops'[u].at = ops[u].at
    OBVIOUS
  <2>2. Queued(i) /\ queue'[i] = queue[i] /\ procs'[i] = procs[i]
    BY DEF QueueInv
  <2>3. QED
    BY <2>1, <2>2 DEF Queued
<1>3. QueueInv'
  <2>1. \A u \in Op : ops'[u].work = "queued" => ops[u].work = "queued" /\ ops'[u].at = ops[u].at
    OBVIOUS
  <2>2. QED
    BY <1>2, <2>1 DEF QueueInv
<1>4. StopInv'
  BY DEF StopInv, Stopping, Settled, Unsettled
<1>5. QED
  BY <1>1, <1>3, <1>4 DEF ProcType, QueueType

LEMMA OpStep ==
  ASSUME BrokerInv, NEW o \in Op, Settle(o) \/ Unwind(o) \/ Reply(o) \/ Deadline(o)
  PROVE  BrokerInv'
<1> USE DEF BrokerInv, Types
<1>1. UNCHANGED <<procs, queue, callers, lock>>
  BY DEF Settle, Unwind, Reply, Deadline
<1>2. CallerPart'
  BY <1>1, CallerPartKept, Parts
<1>3. CASE Settle(o) \/ Unwind(o)
  <2>1. PICK w \in {"done", "uncertain"} : ops' = [ops EXCEPT ![o].work = w]
    BY <1>3 DEF Settle, Unwind
  <2>2. ops[o].work \in {"working", "uncertain"}
    BY <1>3 DEF Settle, Unwind
  <2>3. OpType'
    BY <2>1 DEF OpType, Request, Unsettled
  <2>4. /\ ops'[o].at = ops[o].at /\ ops'[o].runs = ops[o].runs /\ ops'[o].thread = ops[o].thread
        /\ ops'[o].work = w /\ \A p \in Op \ {o} : ops'[p] = ops[p]
    BY <2>1 DEF OpType, Request
  <2>5. ops[o].at # 0
    BY <2>2 DEF OpsInv
  <2>6. QED
    BY <1>1, <1>2, <2>2, <2>3, <2>4, <2>5, GoesOn DEF BrokerPart, CallerPart
<1>4. CASE Reply(o) \/ Deadline(o)
  <2>1. PICK t \in {"result", "timeout"} : ops' = [ops EXCEPT ![o].thread = "gone", ![o].told = t]
    BY <1>4 DEF Reply, Deadline
  <2>2. ops[o].thread = "waiting" /\ ops[o].work # "admitted"
    BY <1>4 DEF Reply, Deadline
  <2>7. ops'[o].at = ops[o].at /\ ops'[o].thread = "gone" /\ ops'[o].runs = ops[o].runs
        /\ ops'[o].work = ops[o].work
    BY <2>1 DEF OpType, Request
  <2>8. ops'[o] \in Request
    BY <2>1 DEF OpType, Request
  <2>3. OpType'
    BY <2>1, <2>8 DEF OpType
  <2>4. \A p \in Op \ {o} : ops'[p] = ops[p]
    BY <2>1 DEF OpType
  <2>5. ops[o].at # 0
    BY <2>2 DEF OpsInv
  <2>6. QED
    BY <1>1, <1>2, <2>2, <2>3, <2>4, <2>5, <2>7, GoesOn DEF BrokerPart, CallerPart
<1>5. QED
  BY <1>3, <1>4

-----------------------------------------------------------------------------
(* Steps of the brokers                                                    *)

LEMMA TailFacts ==
  ASSUME NEW S, NEW q \in Seq(S), q # <<>>
  PROVE  /\ Tail(q) \in Seq(S) /\ Len(q) \in Nat \ {0} /\ Len(Tail(q)) = Len(q) - 1
         /\ Head(q) = q[1] /\ q[1] \in S
         /\ \A p \in 1..Len(Tail(q)) : Tail(q)[p] = q[p + 1] /\ p + 1 \in 1..Len(q)
         /\ Len(q) = 1 => Tail(q) = <<>>
<1>1. Tail(q) \in Seq(S) /\ Len(q) \in Nat \ {0} /\ Len(Tail(q)) = Len(q) - 1 /\ Head(q) = q[1] /\ q[1] \in S
  OBVIOUS
<1>2. \A p \in 1..Len(Tail(q)) : Tail(q)[p] = q[p + 1] /\ p + 1 \in 1..Len(q)
  OBVIOUS
<1>3. Len(q) = 1 => Tail(q) = <<>>
  <2>1. SUFFICES ASSUME Len(q) = 1 PROVE Tail(q) = <<>>
    OBVIOUS
  <2>2. Tail(q) \in Seq(S) /\ ~(Len(Tail(q)) \in Nat \ {0})
    BY <1>1, <2>1
  <2>3. QED
    BY <2>2, EmptySeq, Zenon
<1>4. QED
  BY <1>1, <1>2, <1>3

(* The loop takes up a stop: everything before it has run.                 *)
LEMMA LoopTakesStop ==
  ASSUME BrokerInv, NEW i \in Instances, LoopStep(i), Head(queue[i]) = "stop"
  PROVE  BrokerInv'
<1> USE DEF BrokerInv, Types
<1> DEFINE q == queue[i]
<1>1. /\ procs' = [procs EXCEPT ![i].summary = IF StopSafe(i) THEN "safe" ELSE "unsafe"]
      /\ queue' = [queue EXCEPT ![i] = Tail(q)] /\ UNCHANGED <<ops, callers, lock>>
      /\ q # <<>> /\ q[1] = "stop" /\ Listening(i)
  BY TailFacts DEF LoopStep, QueueType
<1>2. q \in Seq(Op \cup {"stop"}) /\ Len(q) \in Nat \ {0}
  BY <1>1, TailFacts DEF QueueType
<1>16. 1 \in 1..Len(q)
  BY <1>2
<1>3. Len(q) = 1 /\ procs[i].summary = "queued"
  BY <1>1, <1>16 DEF QueueInv, Queued
<1>4. Tail(q) = <<>>
  BY <1>1, <1>2, <1>3, TailFacts
<1>5. queue'[i] = <<>> /\ \A j \in Instances \ {i} : queue'[j] = queue[j] /\ procs'[j] = procs[j]
  BY <1>1, <1>4 DEF QueueType, ProcType
<1>6. /\ procs'[i].phase = procs[i].phase /\ procs'[i].ended = procs[i].ended
      /\ procs'[i].fence = procs[i].fence /\ procs'[i].unsafe = procs[i].unsafe
      /\ procs'[i].summary = IF StopSafe(i) THEN "safe" ELSE "unsafe"
      /\ procs'[i] \in Proc
  BY <1>1 DEF ProcType, Proc
<1>7. \A o \in Op : ops[o].at = i => ops[o].work # "queued"
  <2>1. SUFFICES ASSUME NEW o \in Op, ops[o].at = i, ops[o].work = "queued" PROVE FALSE
    OBVIOUS
  <2>2. PICK p \in 1..Len(q) : q[p] = o
    BY <2>1 DEF QueueInv
  <2>3. o = "stop"
    BY <1>1, <1>3, <2>2
  <2>4. QED
    BY <2>3, BrokerAssumption
<1>8. \A o \in Op : ops[o].at = i => ops[o].work # "admitted"
  BY <1>3 DEF StopInv, Stopping, OpsInv
<1>9. ProcType' /\ QueueType'
  BY <1>1, <1>2, <1>4, <1>6 DEF ProcType, QueueType
<1>10. OpsInv'
  <2>1. \A o \in Op : ops[o].work = "dropped" => procs'[ops[o].at].phase = procs[ops[o].at].phase
    BY <1>1, <1>6 DEF ProcType
  <2>2. QED
    BY <1>1, <2>1 DEF OpsInv
<1>11. QueueInv'
  <2>1. \A j \in Instances : Queued(j)'
    BY <1>1, <1>5 DEF QueueInv, Queued
  <2>2. \A o \in Op : ops'[o].work = "queued" => queue'[ops'[o].at] = queue[ops[o].at]
    BY <1>1, <1>7 DEF QueueType
  <2>3. QED
    BY <1>1, <2>1, <2>2 DEF QueueInv
<1>12. Stopping(i)'
  <2>1. procs[i].fence /\ \A o \in Op : ops[o].at = i => ops[o].thread # "waiting"
    BY <1>3 DEF StopInv, Stopping
  <2>2. StopSafe(i) => Settled(i)'
    BY <1>1, <1>5, <1>6, <1>7, <1>8 DEF StopSafe, At, Settled, Unsettled
  <2>3. procs[i].phase = "serving" /\ procs[i].ended # "stop"
    BY <1>1, <1>3 DEF StopInv, Stopping, Listening
  <2>4. QED
    BY <1>1, <1>6, <2>1, <2>2, <2>3 DEF Stopping
<1>13. \A j \in Instances \ {i} : Stopping(j)'
  BY <1>1, <1>5 DEF StopInv, Stopping, Settled
<1>14. CallerPart'
  BY <1>1, <1>5, <1>6, CallerPartKept, Parts
<1>15. QED
  BY <1>1, <1>9, <1>10, <1>11, <1>12, <1>13, <1>14 DEF CallerPart, StopInv, OpType

(* The loop starts a request, which has waited in its queue once.          *)
LEMMA LoopTakesOp ==
  ASSUME BrokerInv, NEW i \in Instances, LoopStep(i), Head(queue[i]) # "stop"
  PROVE  BrokerInv'
<1> USE DEF BrokerInv, Types
<1> DEFINE q == queue[i]
           o == q[1]
<1>1. q # <<>> /\ Listening(i) /\ o # "stop" /\ o = Head(q)
  BY TailFacts DEF LoopStep, QueueType
<1>2. /\ o \in Op /\ q \in Seq(Op \cup {"stop"}) /\ Len(q) \in Nat \ {0} /\ Len(Tail(q)) = Len(q) - 1
      /\ Tail(q) \in Seq(Op \cup {"stop"})
      /\ \A p \in 1..Len(Tail(q)) : Tail(q)[p] = q[p + 1] /\ p + 1 \in 1..Len(q)
  <2>1. q \in Seq(Op \cup {"stop"})
    BY DEF QueueType
  <2>2. QED
    BY <1>1, <2>1, TailFacts
<1>3. PICK w \in {"done", "working"} : ops' = [ops EXCEPT ![o].runs = @ + 1, ![o].work = w]
  BY <1>1 DEF LoopStep
<1>4. PICK u \in BOOLEAN : procs' = procs \/ procs' = [procs EXCEPT ![i].unsafe = u]
  BY <1>1 DEF LoopStep
<1>5. queue' = [queue EXCEPT ![i] = Tail(q)] /\ UNCHANGED <<callers, lock>>
  BY DEF LoopStep
<1>6. ops[o].work = "queued" /\ ops[o].at = i /\ ops[o].runs = 0 /\ ops[o].thread # "none"
  BY <1>2 DEF QueueInv, Queued, OpsInv
<1>7. ops'[o].at = i /\ ops'[o].thread = ops[o].thread /\ ops'[o].runs = 1 /\ ops'[o].work = w
  BY <1>2, <1>3, <1>6 DEF OpType, Request
<1>8. \A p \in Op \ {o} : ops'[p] = ops[p]
  BY <1>3 DEF OpType
<1>9. OpType'
  <2>1. ops'[o] \in Request
    <3>1. ops[o] \in Request
      BY <1>2 DEF OpType
    <3>2. ops'[o] = [ops[o] EXCEPT !.runs = ops[o].runs + 1, !.work = w]
      BY <1>2, <1>3 DEF OpType, Request
    <3>3. ops[o].runs + 1 \in Nat /\ w \in Unsettled \cup {"none", "done", "dropped"}
      BY <3>1 DEF Request, Unsettled
    <3>4. QED
      BY <3>1, <3>2, <3>3 DEF Request
  <2>2. QED
    BY <1>3, <2>1 DEF OpType
<1>10. /\ \A j \in Instances : /\ procs'[j].phase = procs[j].phase /\ procs'[j].ended = procs[j].ended
                               /\ procs'[j].fence = procs[j].fence /\ procs'[j].summary = procs[j].summary
       /\ \A j \in Instances \ {i} : procs'[j] = procs[j] /\ queue'[j] = queue[j]
       /\ queue'[i] = Tail(q)
  <2>1. CASE procs' = procs
    BY <1>5, <2>1 DEF QueueType
  <2>2. CASE procs' = [procs EXCEPT ![i].unsafe = u]
    BY <1>5, <2>2 DEF QueueType, ProcType, Proc
  <2>3. QED
    BY <1>4, <2>1, <2>2
<1>11. ProcType' /\ QueueType'
  <2>1. CASE procs' = procs
    BY <1>2, <1>5, <2>1 DEF QueueType, ProcType
  <2>2. CASE procs' = [procs EXCEPT ![i].unsafe = u]
    <3>1. procs'[i] \in Proc
      BY <2>2 DEF ProcType, Proc
    <3>2. QED
      BY <1>2, <1>5, <2>2, <3>1 DEF QueueType, ProcType
  <2>3. QED
    BY <1>4, <2>1, <2>2
<1>12. OpsInv'
  <2>1. \A p \in Op : ops[p].work = "dropped" => ops[p].at \in Instances
    BY DEF OpsInv, OpType, Request, Instances
  <2>2. i # 0
    BY DEF Instances
  <2>3. QED
    BY <1>6, <1>7, <1>8, <1>10, <2>1, <2>2 DEF OpsInv
<1>13. \A p \in 2..Len(q) : q[p] # o
  <2>1. 1 \in 1..Len(q)
    BY <1>2
  <2>2. QED
    BY <2>1 DEF QueueInv, Queued
<1>14. Queued(i)'
  <2> SUFFICES ASSUME NEW p \in 1..Len(Tail(q))
               PROVE  /\ Tail(q)[p] \in Op => ops'[Tail(q)[p]].work = "queued" /\ ops'[Tail(q)[p]].at = i
                      /\ Tail(q)[p] = "stop" => p = Len(Tail(q)) /\ procs[i].summary = "queued"
                      /\ \A r \in 1..Len(Tail(q)) : Tail(q)[p] = Tail(q)[r] => p = r
    BY <1>10 DEF Queued
  <2>1. Tail(q)[p] = q[p + 1] /\ p + 1 \in 1..Len(q) /\ p + 1 \in 2..Len(q) /\ p \in Nat
    BY <1>2
  <2>2. q[p + 1] # o
    BY <1>13, <2>1
  <2>3. q[p + 1] \in Op => ops'[q[p + 1]].work = "queued" /\ ops'[q[p + 1]].at = i
    BY <1>8, <2>1, <2>2 DEF QueueInv, Queued
  <2>4. q[p + 1] = "stop" => p + 1 = Len(q) /\ procs[i].summary = "queued"
    BY <2>1 DEF QueueInv, Queued
  <2>5. ASSUME NEW r \in 1..Len(Tail(q)), Tail(q)[p] = Tail(q)[r] PROVE p = r
    <3>1. Tail(q)[r] = q[r + 1] /\ r + 1 \in 1..Len(q) /\ r \in Nat
      BY <1>2
    <3>2. p + 1 = r + 1
      BY <2>1, <2>5, <3>1 DEF QueueInv, Queued
    <3>3. QED
      BY <2>1, <3>1, <3>2
  <2>6. QED
    BY <1>2, <2>1, <2>3, <2>4, <2>5
<1>15. ASSUME NEW j \in Instances \ {i} PROVE Queued(j)'
  <2>1. \A p \in 1..Len(queue[j]) : queue[j][p] \in Op => ops'[queue[j][p]] = ops[queue[j][p]]
    BY <1>6, <1>8 DEF QueueInv, Queued
  <2>2. Queued(j) /\ queue'[j] = queue[j] /\ procs'[j] = procs[j]
    BY <1>10 DEF QueueInv
  <2>3. QED
    BY <2>1, <2>2 DEF Queued
<1>16. ASSUME NEW p \in Op, ops'[p].work = "queued"
       PROVE  \E r \in 1..Len(queue'[ops'[p].at]) : queue'[ops'[p].at][r] = p
  <2>1. p # o /\ ops'[p] = ops[p]
    BY <1>7, <1>8, <1>16
  <2>2. ops[p].at \in Instances
    BY <1>16, <2>1 DEF OpsInv, OpType, Request, Instances
  <2>3. PICK r \in 1..Len(queue[ops[p].at]) : queue[ops[p].at][r] = p
    BY <1>16, <2>1 DEF QueueInv
  <2>4. CASE ops[p].at = i
    <3>1. r # 1 /\ r \in 1..Len(q) /\ q[r] = p
      BY <2>1, <2>3, <2>4
    <3>2. r - 1 \in 1..Len(Tail(q)) /\ (r - 1) + 1 = r
      BY <1>2, <3>1
    <3>3. Tail(q)[r - 1] = q[(r - 1) + 1]
      BY <1>2, <3>2
    <3>4. queue'[ops'[p].at] = Tail(q)
      BY <1>10, <2>1, <2>4
    <3>5. QED
      BY <3>1, <3>2, <3>3, <3>4
  <2>5. CASE ops[p].at # i
    BY <1>10, <2>1, <2>2, <2>3, <2>5
  <2>6. QED
    BY <2>4, <2>5
<1>17. QueueInv'
  BY <1>14, <1>15, <1>16 DEF QueueInv
<1>18. Stopping(i)'
  <2>1. procs[i].summary # "safe"
    BY <1>1 DEF StopInv, Stopping, Settled
  <2>2. procs[i].phase # "gone"
    BY <1>1 DEF Listening
  <2>3. QED
    BY <1>6, <1>7, <1>8, <1>10, <2>1, <2>2 DEF StopInv, Stopping
<1>19. ASSUME NEW j \in Instances \ {i} PROVE Stopping(j)'
  BY <1>6, <1>7, <1>8, <1>10 DEF StopInv, Stopping, Settled
<1>20. CallerPart'
  BY <1>5, <1>10, CallerPartKept, Parts
<1>21. QED
  BY <1>9, <1>11, <1>12, <1>17, <1>18, <1>19, <1>20 DEF CallerPart, StopInv

(* A process ends; the requests that it had are dropped.  One that was     *)
(* asked to end has none.                                                  *)
LEMMA EndsStep ==
  ASSUME BrokerPart, NEW i \in Instances, NEW why \in {"stop", "signal", "crash", "bind"},
         Ends(i, why), procs[i].phase # "gone", why = "stop" => procs[i].phase = "committed"
  PROVE  BrokerPart'
<1> USE DEF BrokerPart
<1>1. /\ procs' = [procs EXCEPT ![i] = [@ EXCEPT !.phase = "gone", !.ended = why]]
      /\ ops' = Dropped(i) /\ queue' = [queue EXCEPT ![i] = <<>>]
  BY DEF Ends
<1>2. /\ procs'[i].phase = "gone" /\ procs'[i].ended = why /\ procs'[i].unsafe = procs[i].unsafe
      /\ procs'[i].fence = procs[i].fence /\ procs'[i].summary = procs[i].summary
  BY <1>1 DEF ProcType, Proc
<1>3. /\ \A j \in Instances \ {i} : procs'[j] = procs[j] /\ queue'[j] = queue[j]
      /\ queue'[i] = <<>> /\ i # 0
  BY <1>1 DEF ProcType, QueueType, Instances
<1>4. \A o \in Op : ops[o].at # i => ops'[o] = ops[o]
  BY <1>1 DEF Dropped
<1>5. \A o \in Op : ops[o].at = i =>
        /\ ops'[o].at = i /\ ops'[o].runs = ops[o].runs
        /\ ops'[o].work = IF ops[o].work \in Unsettled THEN "dropped" ELSE ops[o].work
        /\ ops'[o].thread = IF ops[o].thread = "waiting" THEN "gone" ELSE ops[o].thread
  BY <1>1 DEF Dropped, OpType, Request
<1> HIDE DEF Unsettled
<1>6. ProcType' /\ QueueType'
  <2>1. procs'[i] \in Proc
    BY <1>1 DEF ProcType, Proc
  <2>2. QED
    BY <1>1, <2>1, EmptySeq DEF ProcType, QueueType
<1>7. OpType'
  <2>1. ASSUME NEW o \in Op PROVE ops'[o] \in Request
    <3>1. CASE ops[o].at = i
      BY <1>1, <3>1 DEF Dropped, OpType, Request
    <3>2. CASE ops[o].at # i
      BY <1>4, <3>2 DEF OpType
    <3>3. QED
      BY <3>1, <3>2
  <2>2. QED
    BY <1>1, <2>1 DEF Dropped, OpType
<1>8. OpsInv'
  <2> SUFFICES ASSUME NEW o \in Op
               PROVE  /\ ops'[o].at = 0 <=> ops'[o].work = "none"
                      /\ ops'[o].at = 0 <=> ops'[o].thread = "none"
                      /\ ops'[o].work = "admitted" => ops'[o].thread = "waiting"
                      /\ ops'[o].runs <= 1
                      /\ ops'[o].work \in {"none", "admitted", "queued"} => ops'[o].runs = 0
                      /\ ops'[o].work = "dropped" => procs'[ops'[o].at].phase = "gone"
    BY DEF OpsInv
  <2>1. CASE ops[o].at = i
    BY <1>2, <1>3, <1>5, <2>1 DEF OpsInv, Unsettled
  <2>2. CASE ops[o].at # i
    <3>1. ops[o].work = "dropped" => ops[o].at \in Instances \ {i}
      BY <2>2 DEF OpsInv, OpType, Request, Instances
    <3>2. QED
      BY <1>3, <1>4, <2>2, <3>1 DEF OpsInv
  <2>3. QED
    BY <2>1, <2>2
<1>9. QueueInv'
  <2>1. Queued(i)'
    BY <1>3, EmptySeq DEF Queued
  <2>2. ASSUME NEW j \in Instances \ {i} PROVE Queued(j)'
    <3>1. \A p \in 1..Len(queue[j]) : queue[j][p] \in Op => ops'[queue[j][p]] = ops[queue[j][p]]
      BY <1>4 DEF QueueInv, Queued
    <3>2. Queued(j) /\ queue'[j] = queue[j] /\ procs'[j] = procs[j]
      BY <1>3 DEF QueueInv
    <3>3. QED
      BY <3>1, <3>2 DEF Queued
  <2>3. ASSUME NEW o \in Op, ops'[o].work = "queued"
        PROVE  ops'[o] = ops[o] /\ ops[o].at \in Instances \ {i}
    BY <1>4, <1>5, <2>3 DEF Unsettled, OpsInv, OpType, Request, Instances
  <2>5. ASSUME NEW o \in Op, ops'[o].work = "queued"
        PROVE  \E p \in 1..Len(queue'[ops'[o].at]) : queue'[ops'[o].at][p] = o
    <3>1. ops'[o] = ops[o] /\ queue'[ops[o].at] = queue[ops[o].at]
      BY <1>3, <2>3, <2>5
    <3>2. QED
      BY <2>5, <3>1 DEF QueueInv
  <2>4. QED
    BY <2>1, <2>2, <2>5 DEF QueueInv
<1>10. Stopping(i)'
  <2>1. why = "stop" => /\ ~procs[i].unsafe
                        /\ \A o \in Op : ops[o].at = i => ops[o].work \notin Unsettled
    BY DEF StopInv, Stopping, Settled
  <2>2. \A o \in Op : ops[o].at = i => ops[o].work # "dropped"
    BY DEF OpsInv
  <2>3. procs[i].summary = "safe" => Settled(i)'
    BY <1>2, <1>3, <1>4, <1>5 DEF StopInv, Stopping, Settled, Unsettled
  <2>4. \A o \in Op : ops'[o].at = i => ops'[o].thread # "waiting" /\ ops[o].at = i
    BY <1>4, <1>5
  <2>5. why = "stop" => \A o \in Op : ops'[o].at = i => ops'[o].work # "dropped"
    BY <1>5, <2>1, <2>2, <2>4
  <2>6. QED
    BY <1>2, <2>1, <2>3, <2>4, <2>5 DEF StopInv, Stopping
<1>11. ASSUME NEW j \in Instances \ {i} PROVE Stopping(j)'
  <2>1. \A o \in Op : ops'[o].at = j => ops[o].at = j /\ ops'[o] = ops[o]
    BY <1>4, <1>5
  <2>2. QED
    BY <1>3, <2>1 DEF StopInv, Stopping, Settled
<1>12. QED
  BY <1>6, <1>7, <1>8, <1>9, <1>10, <1>11 DEF StopInv

(* What is left of the processes when one ends.                            *)
LEMMA EndsLeaves ==
  ASSUME ProcType, NEW i \in Instances, NEW why, Ends(i, why)
  PROVE  /\ \A j \in Instances \ {i} : procs'[j] = procs[j]
         /\ procs'[i].phase = "gone" /\ procs'[i].ended = why
BY DEF Ends, ProcType, Proc

LEMMA ProcessEnds ==
  ASSUME BrokerInv, NEW i \in Instances,
         Exit(i) \/ BrokerCrash(i) \/ (Serve(i) /\ PortOpen)
  PROVE  BrokerInv'
<1> USE DEF BrokerInv, Types
<1>1. PICK why \in {"stop", "crash", "bind"} :
        /\ Ends(i, why) /\ Alive(i)
        /\ why = "stop" => procs[i].phase = "committed"
        /\ why = "bind" => PortOpen /\ procs[i].phase = "spawned"
  BY DEF Exit, BrokerCrash, Serve, Alive
<1>2. UNCHANGED <<callers, lock>>
  BY DEF Exit, BrokerCrash, Serve
<1>3. BrokerPart'
  BY <1>1, EndsStep DEF BrokerPart, Alive
<1>4. StartInv'
  <2> SUFFICES ASSUME \A c \in Caller : callers[c].pc # "dead" PROVE Orderly'
    BY <1>2 DEF StartInv
  <2>1. Orderly
    BY DEF StartInv
  <2>2. why # "bind"
    <3> SUFFICES ASSUME why = "bind" PROVE FALSE
      OBVIOUS
    <3>1. Listener \in Instances /\ Listening(Listener)
      BY <1>1, ListenerListens
    <3>2. Alive(Listener) /\ Alive(i) /\ Listener # i
      BY <1>1, <3>1 DEF Listening, Alive
    <3>3. QED
      BY <2>1, <3>1, <3>2 DEF Orderly
  <2>3. QED
    BY <1>1, <1>2, <2>1, <2>2, EndsLeaves DEF Orderly, Alive
<1>5. QED
  BY <1>2, <1>3, <1>4 DEF BrokerPart, CallerType, LockType, LockHeld

(* Fields of a process that the requests and queues do not depend on.      *)
LEMMA ServeStep == ASSUME BrokerInv, NEW i \in Instances, Serve(i), ~PortOpen PROVE BrokerInv'
<1> USE DEF BrokerInv, Types
<1>1. /\ procs' = [procs EXCEPT ![i].phase = "serving"] /\ procs[i].phase = "spawned"
      /\ UNCHANGED <<queue, ops, callers, lock>>
  BY DEF Serve
<1>2. /\ \A j \in Instances \ {i} : procs'[j] = procs[j]
      /\ procs'[i].phase = "serving" /\ procs'[i].fence = procs[i].fence
      /\ procs'[i].summary = procs[i].summary /\ procs'[i].unsafe = procs[i].unsafe
      /\ procs'[i].ended = procs[i].ended
  BY <1>1 DEF ProcType, Proc
<1>3. ProcType'
  BY <1>1 DEF ProcType, Proc
<1>4. OpsInv'
  <2>1. \A o \in Op : ops[o].work = "dropped" => ops[o].at \in Instances \ {i}
    BY <1>1 DEF OpsInv, OpType, Request, Instances
  <2>2. QED
    BY <1>1, <1>2, <2>1 DEF OpsInv
<1>5. QueueInv'
  BY <1>1, <1>2 DEF QueueInv, Queued
<1>6. StopInv'
  BY <1>1, <1>2 DEF StopInv, Stopping, Settled
<1>7. StartInv'
  BY <1>1, <1>2 DEF StartInv, Orderly, Alive
<1>8. QED
  BY <1>1, <1>3, <1>4, <1>5, <1>6, <1>7 DEF QueueType, OpType, CallerType, LockType, LockHeld

-----------------------------------------------------------------------------
(* Steps of the callers                                                    *)

NothingStarts ==
  \A i \in Instances :
    /\ Alive(i)' => Alive(i)
    /\ procs'[i].phase = "spawned" => procs[i].phase = "spawned"
    /\ procs'[i].ended \in {procs[i].ended, "signal"}

(* Callers go on inside their calls, and no process starts.                *)
LEMMA CallersGoOn ==
  ASSUME CallerPart, lock' = lock, CallerType',
         NothingStarts,
         \A c \in Caller :
           \/ callers'[c] = callers[c]
           \/ /\ callers[c].pc \notin {"idle", "dead"}
              /\ callers'[c].pc \in {"ask", "asked", "wait", "out"}
              /\ callers[c].pc = "start" => procs'[callers[c].target].phase # "spawned"
  PROVE  CallerPart'
<1> USE DEF CallerPart
<1>1. LockHeld' /\ LockType'
  BY DEF LockHeld, LockType
<1>2. ASSUME NEW c \in Caller, callers'[c].pc = "start" PROVE callers'[c].target \in Instances
  BY <1>2 DEF StartInv
<1>3. ASSUME \A c \in Caller : callers'[c].pc # "dead" PROVE Orderly'
  <2>1. \A c \in Caller : callers[c].pc # "dead"
    BY <1>3
  <2>2. Orderly
    BY <2>1 DEF StartInv
  <2>3. ASSUME NEW i \in Instances, procs'[i].phase = "spawned"
        PROVE  \E c \in Caller : callers'[c].pc = "start" /\ callers'[c].target = i
    <3>1. PICK c \in Caller : callers[c].pc = "start" /\ callers[c].target = i
      BY <2>2, <2>3 DEF Orderly, NothingStarts
    <3>2. callers'[c] = callers[c]
      BY <2>3, <3>1
    <3>3. QED
      BY <3>1, <3>2
  <2>4. \A c \in Caller : callers'[c].pc = "spawn" \/ (callers'[c].pc = "probe" /\ ~callers'[c].port) =>
          callers'[c] = callers[c]
    OBVIOUS
  <2>5. QED
    BY <2>2, <2>3, <2>4 DEF Orderly, NothingStarts
<1>4. QED
  BY <1>1, <1>2, <1>3 DEF StartInv

LEMMA GotoType ==
  ASSUME CallerType, NEW c \in Caller,
         NEW pc \in {"ask", "asked", "wait", "spawn", "start", "out"}, Goto(c, pc)
  PROVE  /\ CallerType'
         /\ callers'[c].pc = pc /\ callers'[c].target = callers[c].target
         /\ \A d \in Caller \ {c} : callers'[d] = callers[d]
BY DEF Goto, CallerType, Call

(* Steps that change nothing but the place of one caller.                  *)
LEMMA CallerGoesOn ==
  ASSUME BrokerInv, NEW c \in Caller, UNCHANGED <<procs, queue, ops, lock>>,
         callers[c].pc \notin {"idle", "dead"},
         \E pc \in {"ask", "asked", "wait", "out"} : Goto(c, pc),
         callers[c].pc = "start" => procs[callers[c].target].phase # "spawned"
  PROVE  BrokerInv'
<1> USE DEF BrokerInv, Types
<1>1. PICK pc \in {"ask", "asked", "wait", "out"} : Goto(c, pc)
  OBVIOUS
<1>2. CallerPart'
  BY <1>1, GotoType, CallersGoOn DEF CallerPart, Alive, NothingStarts
<1>3. BrokerPart'
  BY BrokerPartKept DEF BrokerPart
<1>4. QED
  BY <1>2, <1>3 DEF BrokerPart, CallerPart

LEMMA HealthStep == ASSUME BrokerInv, NEW c \in Caller, Health(c) PROVE BrokerInv'
<1> USE DEF BrokerInv, Types
<1>1. PICK pc \in {"ask", "wait", "out"} :
        callers' = [callers EXCEPT ![c].pc = pc, ![c].target = Listener]
  <2>1. CASE callers[c].want = "stop"
    BY <2>1 DEF Health
  <2>2. CASE callers[c].want # "stop" /\ procs[Listener].fence
    BY <2>2 DEF Health
  <2>3. CASE callers[c].want # "stop" /\ ~procs[Listener].fence
    BY <2>3 DEF Health
  <2>4. QED
    BY <2>1, <2>2, <2>3
<1>2. callers[c].pc = "probe" /\ Listener \in Instances /\ UNCHANGED <<procs, queue, ops, lock>>
  BY ListenerListens DEF Health
<1>3. callers'[c].pc = pc /\ callers'[c].target = Listener
  BY <1>1 DEF CallerType, Call
<1>9. callers'[c] \in Call
  <2>1. callers[c] \in Call /\ Listener \in 0..MaxInstance
    BY <1>2 DEF CallerType, Instances
  <2>2. QED
    BY <1>1, <2>1 DEF CallerType, Call
<1>4. callers'[c] \in Call /\ \A d \in Caller \ {c} : callers'[d] = callers[d]
  BY <1>1, <1>9 DEF CallerType
<1>5. CallerType'
  BY <1>1, <1>4 DEF CallerType
<1>6. CallerPart'
  BY <1>2, <1>3, <1>4, <1>5, CallersGoOn DEF CallerPart, Alive, NothingStarts
<1>7. BrokerPart'
  BY <1>2, BrokerPartKept DEF BrokerPart
<1>8. QED
  BY <1>6, <1>7 DEF BrokerPart, CallerPart

(* A caller is inside its call, and its lock keeps the others out.         *)
LEMMA OthersAreOut ==
  ASSUME LockHeld, NEW c \in Caller, callers[c].pc \notin {"idle", "dead"}
  PROVE  \A d \in Caller \ {c} : callers[d].pc \in {"idle", "dead"}
BY DEF LockHeld

(* The port is closed, and nobody else starts a broker: the caller will.   *)
LEMMA ToSpawn ==
  ASSUME BrokerInv, NEW c \in Caller, Goto(c, "spawn"), UNCHANGED <<procs, queue, ops, lock>>,
         callers[c].pc \in {"probe", "wait"},
         Orderly => \A i \in Instances : ~Alive(i)
  PROVE  BrokerInv'
<1> USE DEF BrokerInv, Types
<1>1. /\ CallerType' /\ callers'[c].pc = "spawn"
      /\ \A d \in Caller \ {c} : callers'[d] = callers[d]
  BY GotoType
<1>2. LockHeld'
  BY <1>1 DEF LockHeld
<1>3. StartInv'
  <2>1. ASSUME \A d \in Caller : callers'[d].pc # "dead" PROVE Orderly'
    <3>1. Orderly
      BY <1>1, <2>1 DEF StartInv
    <3>2. \A i \in Instances : ~Alive(i)
      BY <3>1
    <3>3. QED
      BY <3>1, <3>2 DEF Orderly, Alive
  <2>2. QED
    BY <1>1, <2>1 DEF StartInv
<1>4. BrokerPart'
  BY BrokerPartKept DEF BrokerPart
<1>5. QED
  BY <1>1, <1>2, <1>3, <1>4 DEF BrokerPart, LockType

LEMMA NoHealthStep == ASSUME BrokerInv, NEW c \in Caller, NoHealth(c) PROVE BrokerInv'
<1>1. UNCHANGED <<procs, queue, ops, lock>> /\ callers[c].pc = "probe"
  BY DEF NoHealth
<1>2. CASE Goto(c, "out")
  BY <1>1, <1>2, CallerGoesOn
<1>3. CASE Goto(c, "spawn") /\ ~callers[c].port
  <2>1. Orderly => \A i \in Instances : ~Alive(i)
    BY <1>1, <1>3 DEF Orderly
  <2>2. QED
    BY <1>1, <1>3, <2>1, ToSpawn
<1>4. QED
  BY <1>2, <1>3 DEF NoHealth

LEMMA WaitedStep == ASSUME BrokerInv, NEW c \in Caller, Waited(c) PROVE BrokerInv'
<1>1. UNCHANGED <<procs, queue, ops, lock>> /\ callers[c].pc = "wait" /\ ~PortOpen
  BY DEF Waited
<1>2. CASE Goto(c, "out")
  BY <1>1, <1>2, CallerGoesOn
<1>3. CASE Goto(c, "spawn")
  <2>1. \A d \in Caller : callers[d].pc # "start"
    BY <1>1, OthersAreOut DEF BrokerInv, Types
  <2>2. Orderly => \A i \in Instances : ~Alive(i)
    BY <1>1, <2>1 DEF Orderly, Alive, PortOpen, Listening
  <2>3. QED
    BY <1>1, <1>3, <2>2, ToSpawn
<1>4. QED
  BY <1>2, <1>3 DEF Waited

LEMMA InCallStep ==
  ASSUME BrokerInv, NEW c \in Caller, AskLost(c) \/ WaitFails(c) \/ Started(c)
  PROVE  BrokerInv'
<1>1. UNCHANGED <<procs, queue, ops, lock>> /\ Goto(c, "out")
  BY DEF AskLost, WaitFails, Started
<1>2. callers[c].pc \in {"asked", "wait", "start"}
  BY DEF AskLost, WaitFails, Started
<1>3. callers[c].pc = "start" => procs[callers[c].target].phase # "spawned"
  BY DEF AskLost, WaitFails, Started
<1>4. QED
  BY <1>1, <1>2, <1>3, CallerGoesOn

(* The call ends, or its process dies.                                     *)
LEMMA CallEnds ==
  ASSUME BrokerInv, NEW c \in Caller, callers[c].pc \notin {"idle", "dead"},
         NEW pc \in {"idle", "dead"}, callers[c].pc = "start" => pc = "dead",
         callers' = [callers EXCEPT ![c] = CallOver(c, pc)],
         lock' = "free", UNCHANGED <<procs, queue, ops>>
  PROVE  BrokerInv'
<1> USE DEF BrokerInv, Types
<1>1. callers'[c].pc = pc
  BY DEF CallerType, CallOver, NoCall
<1>2. \A d \in Caller \ {c} : callers'[d] = callers[d]
  BY DEF CallerType
<1>3. CallerType'
  <2>1. callers[c].calls \in 0..MaxCalls
    BY DEF Call, CallerType
  <2>2. 0 \in 0..MaxInstance
    BY BrokerAssumption
  <2>3. NoCall \in Call
    BY <2>2, BrokerAssumption DEF NoCall, Call
  <2>5. CallOver(c, pc) \in Call
    BY <2>1, <2>3 DEF CallOver, Call
  <2>4. QED
    BY <2>5 DEF CallerType
<1>4. LockHeld' /\ LockType'
  BY <1>1, <1>2, OthersAreOut, BrokerAssumption DEF LockHeld, LockType
<1>5. StartInv'
  <2>1. ASSUME \A d \in Caller : callers'[d].pc # "dead" PROVE Orderly'
    <3>1. \A d \in Caller : callers[d].pc \notin {"dead", "start"}
      BY <1>1, <1>2, <2>1, OthersAreOut
    <3>2. Orderly
      BY <3>1 DEF StartInv
    <3>3. QED
      BY <1>1, <1>2, <3>1, <3>2 DEF Orderly, Alive
  <2>2. QED
    BY <1>1, <1>2, <2>1 DEF StartInv
<1>6. BrokerPart'
  BY BrokerPartKept DEF BrokerPart
<1>7. QED
  BY <1>3, <1>4, <1>5, <1>6 DEF BrokerPart

LEMMA LeaveStep ==
  ASSUME BrokerInv, NEW c \in Caller, Return(c) \/ SpawnBound(c) \/ CallerCrash(c)
  PROVE  BrokerInv'
<1>1. CASE Return(c) \/ SpawnBound(c)
  <2>1. callers[c].pc \in {"out", "spawn"} /\ Leave(c)
    BY <1>1 DEF Return, SpawnBound
  <2>2. QED
    BY <2>1, CallEnds DEF Leave
<1>2. CASE CallerCrash(c)
  BY <1>2, CallEnds DEF CallerCrash
<1>3. QED
  BY <1>1, <1>2

(* The lock is free, so nobody is starting a broker.                       *)
LEMMA EnterStep ==
  ASSUME BrokerInv, NEW c \in Caller, NEW want \in {"ensure", "stop"}, Enter(c, want)
  PROVE  BrokerInv'
<1> USE DEF BrokerInv, Types
<1>9. callers[c] \in Call /\ callers[c].calls + 1 \in 0..MaxCalls /\ PortOpen \in BOOLEAN
  BY BrokerAssumption DEF Enter, CallerType, Call, PortOpen
<1>10. callers' = [callers EXCEPT ![c] = [callers[c] EXCEPT !.pc = "probe", !.want = want,
                                            !.port = PortOpen, !.calls = callers[c].calls + 1]]
  BY DEF Enter
<1>1. callers'[c].pc = "probe" /\ callers'[c].port = PortOpen /\ callers'[c] \in Call
  <2>1. callers'[c] = [callers[c] EXCEPT !.pc = "probe", !.want = want,
                                         !.port = PortOpen, !.calls = callers[c].calls + 1]
    BY <1>10 DEF CallerType
  <2>2. callers'[c].pc = "probe" /\ callers'[c].port = PortOpen
    BY <1>9, <2>1 DEF Call
  <2>3. callers'[c] \in Call
    BY <1>9, <2>1 DEF Call
  <2>4. QED
    BY <2>2, <2>3
<1>2. /\ \A d \in Caller \ {c} : callers'[d] = callers[d]
      /\ lock = "free" /\ lock' = c /\ UNCHANGED <<procs, queue, ops>>
  BY DEF Enter, MayEnter, CallerType
<1>3. \A d \in Caller : callers[d].pc \in {"idle", "dead"}
  BY <1>2, BrokerAssumption DEF LockHeld
<1>4. CallerType'
  BY <1>1, <1>10 DEF CallerType
<1>5. LockHeld' /\ LockType'
  BY <1>1, <1>2, <1>3 DEF LockHeld, LockType
<1>6. StartInv'
  <2>1. ASSUME \A d \in Caller : callers'[d].pc # "dead" PROVE Orderly'
    <3>1. \A d \in Caller : callers[d].pc = "idle"
      BY <1>2, <1>3, <2>1 DEF Enter, MayEnter
    <3>2. Orderly
      BY <3>1 DEF StartInv
    <3>3. ~PortOpen => \A i \in Instances : ~Alive(i)
      BY <3>1, <3>2 DEF Orderly, Alive, PortOpen, Listening
    <3>4. \A d \in Caller : callers'[d].pc \notin {"spawn", "start"}
                            /\ (callers'[d].pc = "probe" => callers'[d].port = PortOpen)
      BY <1>1, <1>2, <3>1
    <3>5. \A i \in Instances : procs[i].phase # "spawned"
      BY <3>1, <3>2 DEF Orderly
    <3>6. QED
      BY <1>2, <3>2, <3>3, <3>4, <3>5 DEF Orderly, Alive
  <2>2. QED
    BY <1>1, <1>2, <1>3, <2>1 DEF StartInv
<1>7. BrokerPart'
  BY <1>2, BrokerPartKept DEF BrokerPart
<1>8. QED
  BY <1>4, <1>5, <1>6, <1>7 DEF BrokerPart

(* Steps that move a process on, before its end; no stop waits in its      *)
(* queue, or its stop is where it was.                                     *)
LEMMA ProcessMoves ==
  ASSUME BrokerPart, NEW i \in Instances, UNCHANGED <<queue, ops>>,
         procs' \in [Instances -> Proc], \A j \in Instances \ {i} : procs'[j] = procs[j],
         procs[i].phase # "gone", procs[i].summary # "queued", Stopping(i)'
  PROVE  BrokerPart'
<1> USE DEF BrokerPart
<1>1. OpsInv'
  <2>1. \A o \in Op : ops[o].work = "dropped" => ops[o].at \in Instances \ {i}
    BY DEF OpsInv, OpType, Request, Instances
  <2>2. QED
    BY <2>1 DEF OpsInv
<1>2. \A j \in Instances : Queued(j)'
  BY DEF QueueInv, Queued
<1>3. QueueInv'
  BY <1>2 DEF QueueInv
<1>4. \A j \in Instances \ {i} : Stopping(j)'
  BY DEF StopInv, Stopping, Settled
<1>5. QED
  BY <1>1, <1>3, <1>4 DEF StopInv, ProcType, QueueType, OpType

LEMMA DecideStep == ASSUME BrokerInv, NEW i \in Instances, DecideStop(i) PROVE BrokerInv'
<1> USE DEF BrokerInv, Types
<1>1. /\ procs[i].phase = "serving" /\ procs[i].summary \in {"safe", "unsafe"}
      /\ UNCHANGED <<queue, ops, lock>>
  BY DEF DecideStop
<1>2. PICK pc \in {"wait", "out"} :
        callers' = [c \in Caller |-> IF callers[c].pc = "asked" /\ callers[c].target = i
                                     THEN [callers[c] EXCEPT !.pc = pc] ELSE callers[c]]
  BY DEF DecideStop
<1>3. \/ procs' = [procs EXCEPT ![i].phase = "committed"] /\ procs[i].summary = "safe"
      \/ procs' = [procs EXCEPT ![i] = Refused(i)]
  BY DEF DecideStop
<1>4. /\ procs' \in [Instances -> Proc] /\ \A j \in Instances \ {i} : procs'[j] = procs[j]
      /\ procs'[i].phase \in {"serving", "committed"} /\ procs'[i].ended = procs[i].ended
      /\ procs'[i].unsafe = procs[i].unsafe
      /\ \/ /\ procs'[i].phase = "committed" /\ procs[i].summary = "safe"
            /\ procs'[i].summary = "safe" /\ procs'[i].fence = procs[i].fence
         \/ procs'[i].phase = "serving" /\ procs'[i].summary = "none" /\ procs'[i].fence = FALSE
  <2>1. CASE procs' = [procs EXCEPT ![i].phase = "committed"] /\ procs[i].summary = "safe"
    <3>1. procs'[i] \in Proc
      BY <2>1 DEF ProcType, Proc
    <3>2. QED
      BY <2>1, <3>1 DEF ProcType, Proc
  <2>2. CASE procs' = [procs EXCEPT ![i] = Refused(i)]
    <3>1. procs'[i] = [procs[i] EXCEPT !.summary = "none", !.fence = FALSE]
      BY <2>2 DEF Refused, ProcType
    <3>2. /\ procs'[i] \in Proc /\ procs'[i].phase = procs[i].phase /\ procs'[i].ended = procs[i].ended
          /\ procs'[i].unsafe = procs[i].unsafe
          /\ procs'[i].summary = "none" /\ procs'[i].fence = FALSE
      BY <3>1 DEF ProcType, Proc
    <3>3. QED
      BY <1>1, <2>2, <3>2 DEF ProcType
  <2>3. QED
    BY <1>3, <2>1, <2>2
<1>5. Stopping(i)'
  BY <1>1, <1>4 DEF StopInv, Stopping, Settled
<1>6. BrokerPart'
  BY <1>1, <1>4, <1>5, ProcessMoves DEF BrokerPart
<1>7. ASSUME NEW c \in Caller
      PROVE  /\ callers'[c] \in Call
             /\ callers'[c] = callers[c] \/ (callers[c].pc = "asked" /\ callers'[c].pc \in {"wait", "out"})
  <2>1. callers[c] \in Call
    BY DEF CallerType
  <2>2. QED
    BY <1>2, <2>1 DEF Call
<1>8. CallerType'
  BY <1>2, <1>7 DEF CallerType
<1>9. CallerPart'
  <2>1. NothingStarts
    BY <1>1, <1>4 DEF Alive, NothingStarts
  <2>2. ASSUME NEW c \in Caller
        PROVE  \/ callers'[c] = callers[c]
               \/ /\ callers[c].pc \notin {"idle", "dead"}
                  /\ callers'[c].pc \in {"ask", "asked", "wait", "out"}
                  /\ callers[c].pc = "start" => procs'[callers[c].target].phase # "spawned"
    BY <1>7
  <2>3. lock' = lock /\ CallerPart
    BY <1>1 DEF CallerPart
  <2>4. QED
    BY <1>8, <2>1, <2>2, <2>3, CallersGoOn, Zenon
<1>10. QED
  BY <1>6, <1>9 DEF BrokerPart, CallerPart

(* The child is late and is ended.                                         *)
LEMMA StartTimesOutStep == ASSUME BrokerInv, NEW c \in Caller, StartTimesOut(c) PROVE BrokerInv'
<1> USE DEF BrokerInv, Types
<1> DEFINE i == callers[c].target
<1>1. /\ callers[c].pc = "start" /\ Ends(i, "signal") /\ Goto(c, "out") /\ lock' = lock
      /\ procs[i].phase # "gone"
  BY DEF StartTimesOut, LateChildEnds
<1>2. i \in Instances
  BY <1>1 DEF StartInv
<1>3. BrokerPart'
  BY <1>1, <1>2, EndsStep DEF BrokerPart
<1>4. /\ \A j \in Instances \ {i} : procs'[j] = procs[j]
      /\ procs'[i].phase = "gone" /\ procs'[i].ended = "signal"
  BY <1>1, <1>2, EndsLeaves
<1>5. CallerType' /\ callers'[c].pc = "out" /\ \A d \in Caller \ {c} : callers'[d] = callers[d]
  BY <1>1, GotoType
<1>6. CallerPart'
  <2>1. NothingStarts
    BY <1>4 DEF Alive, NothingStarts
  <2>2. QED
    BY <1>1, <1>4, <1>5, <2>1, CallersGoOn DEF CallerPart, Alive, NothingStarts
<1>7. QED
  BY <1>3, <1>6 DEF BrokerPart, CallerPart

(* The caller starts a broker: nobody else has one, or starts one.         *)
LEMMA SpawnStep == ASSUME BrokerInv, NEW c \in Caller, Spawn(c) PROVE BrokerInv'
<1> USE DEF BrokerInv, Types
<1>1. PICK i \in Instances :
        /\ procs[i].phase = "absent"
        /\ procs' = [procs EXCEPT ![i].phase = "spawned", ![i].release = Release[c]]
        /\ callers' = [callers EXCEPT ![c].pc = "start", ![c].target = i]
  BY DEF Spawn
<1>2. callers[c].pc = "spawn" /\ UNCHANGED <<queue, ops, lock>>
  BY DEF Spawn
<1>3. /\ procs'[i].phase = "spawned" /\ procs'[i].ended = procs[i].ended
      /\ procs'[i].unsafe = procs[i].unsafe /\ procs'[i].fence = procs[i].fence
      /\ procs'[i].summary = procs[i].summary
      /\ \A j \in Instances \ {i} : procs'[j] = procs[j]
  BY <1>1 DEF ProcType, Proc
<1>4. ProcType'
  <2>1. procs'[i] \in Proc
    BY <1>1 DEF ProcType, Proc
  <2>2. QED
    BY <1>1, <2>1 DEF ProcType
<1>5. OpsInv'
  <2>1. \A o \in Op : ops[o].work = "dropped" => ops[o].at \in Instances \ {i}
    BY <1>1 DEF OpsInv, OpType, Request, Instances
  <2>2. QED
    BY <1>2, <1>3, <2>1 DEF OpsInv
<1>6. QueueInv'
  <2>1. \A j \in Instances : Queued(j)'
    BY <1>2, <1>3 DEF QueueInv, Queued
  <2>2. QED
    BY <1>2, <2>1 DEF QueueInv
<1>7. StopInv'
  <2>1. Stopping(i)'
    BY <1>1, <1>2, <1>3 DEF StopInv, Stopping, Settled
  <2>2. ASSUME NEW j \in Instances \ {i} PROVE Stopping(j)'
    BY <1>2, <1>3 DEF StopInv, Stopping, Settled
  <2>3. QED
    BY <2>1, <2>2 DEF StopInv
<1>8. /\ callers'[c] \in Call /\ callers'[c].pc = "start" /\ callers'[c].target = i
      /\ \A d \in Caller \ {c} : callers'[d] = callers[d]
  <2>1. callers[c] \in Call /\ i \in 0..MaxInstance
    BY DEF CallerType, Instances
  <2>2. callers'[c] \in Call
    BY <1>1, <2>1 DEF CallerType, Call
  <2>3. QED
    BY <1>1, <2>2 DEF CallerType, Call
<1>9. CallerType' /\ LockHeld' /\ LockType'
  BY <1>1, <1>2, <1>8 DEF CallerType, LockHeld, LockType
<1>10. StartInv'
  <2>1. ASSUME \A d \in Caller : callers'[d].pc # "dead" PROVE Orderly'
    <3>1. Orderly
      BY <1>2, <1>8, <2>1 DEF StartInv
    <3>2. \A j \in Instances : ~Alive(j)
      BY <1>2, <3>1 DEF Orderly
    <3>3. \A d \in Caller \ {c} : callers'[d].pc \in {"idle", "dead"}
      BY <1>2, <1>8, OthersAreOut
    <3>4. QED
      BY <1>3, <1>8, <3>1, <3>2, <3>3 DEF Orderly, Alive
  <2>2. QED
    BY <1>8, <2>1 DEF StartInv
<1>11. QED
  BY <1>2, <1>4, <1>5, <1>6, <1>7, <1>9, <1>10 DEF QueueType, OpType

(* The broker that was probed is asked to stop: its fence goes up over no  *)
(* request that waits, and the stop goes to the end of its queue.          *)
LEMMA AskStep == ASSUME BrokerInv, NEW c \in Caller, Ask(c) PROVE BrokerInv'
<1> USE DEF BrokerInv, Types
<1>5. PICK i : i = Listener
  OBVIOUS
<1> DEFINE q == queue[i]
<1>1. callers[c].pc = "ask" /\ UNCHANGED <<ops, lock>>
  BY DEF Ask
<1>2. CASE Goto(c, "out") /\ UNCHANGED <<procs, queue>>
  BY <1>1, <1>2, CallerGoesOn
<1>3. CASE /\ PortOpen /\ MayFence(i) /\ Goto(c, "asked")
           /\ procs' = [procs EXCEPT ![i].fence = TRUE, ![i].summary = "queued"]
           /\ queue' = [queue EXCEPT ![i] = Append(q, "stop")]
  <2>1. i \in Instances /\ Listening(i)
    BY <1>3, <1>5, ListenerListens
  <2>2. ~procs[i].fence /\ \A o \in Op : ops[o].at = i => ops[o].thread # "waiting"
    BY <1>3 DEF MayFence, Active, At
  <2>3. procs[i].summary = "none" /\ procs[i].phase = "serving" /\ procs[i].ended # "stop"
    BY <2>1, <2>2 DEF StopInv, Stopping, Listening, ProcType, Proc
  <2>4. /\ procs'[i].phase = procs[i].phase /\ procs'[i].ended = procs[i].ended
        /\ procs'[i].fence = TRUE /\ procs'[i].summary = "queued"
        /\ \A j \in Instances \ {i} : procs'[j] = procs[j]
    BY <1>3, <2>1 DEF ProcType, Proc
  <2>5. ProcType'
    <3>1. procs'[i] \in Proc
      BY <1>3, <2>1 DEF ProcType, Proc
    <3>2. QED
      BY <1>3, <3>1 DEF ProcType
  <2>6. q \in Seq(Op \cup {"stop"})
    BY <2>1 DEF QueueType
  <2>7. /\ Append(q, "stop") \in Seq(Op \cup {"stop"})
        /\ Len(Append(q, "stop")) = Len(q) + 1 /\ Append(q, "stop")[Len(q) + 1] = "stop"
        /\ \A p \in 1..Len(q) : Append(q, "stop")[p] = q[p] /\ p \in 1..Len(Append(q, "stop"))
        /\ Len(q) \in Nat
    BY <2>6
  <2>8. queue'[i] = Append(q, "stop") /\ \A j \in Instances \ {i} : queue'[j] = queue[j]
    BY <1>3, <2>1 DEF QueueType
  <2>9. QueueType'
    BY <1>3, <2>7 DEF QueueType
  <2>10. \A p \in 1..Len(q) : q[p] # "stop"
    BY <2>1, <2>3 DEF QueueInv, Queued
  <2>11. OpsInv'
    <3>1. \A o \in Op : ops[o].work = "dropped" => ops[o].at \in Instances
      BY DEF OpsInv, OpType, Request, Instances
    <3>2. QED
      BY <1>1, <2>4, <3>1 DEF OpsInv
  <2>12. Queued(i)'
    <3> SUFFICES ASSUME NEW p \in 1..(Len(q) + 1)
                 PROVE  LET a == Append(q, "stop")
                        IN  /\ a[p] \in Op => ops[a[p]].work = "queued" /\ ops[a[p]].at = i
                            /\ a[p] = "stop" => p = Len(q) + 1
                            /\ \A r \in 1..(Len(q) + 1) : a[p] = a[r] => p = r
      BY <1>1, <2>4, <2>7, <2>8 DEF Queued
    <3>1. CASE p \in 1..Len(q)
      <4>1. Append(q, "stop")[p] = q[p] /\ q[p] # "stop"
        BY <2>7, <2>10, <3>1
      <4>2. q[p] \in Op => ops[q[p]].work = "queued" /\ ops[q[p]].at = i
        BY <2>1, <3>1 DEF QueueInv, Queued
      <4>3. ASSUME NEW r \in 1..(Len(q) + 1), q[p] = Append(q, "stop")[r] PROVE p = r
        <5>1. r \in 1..Len(q)
          BY <2>7, <4>1, <4>3
        <5>2. q[p] = q[r]
          BY <2>7, <4>3, <5>1
        <5>3. QED
          BY <2>1, <3>1, <5>1, <5>2 DEF QueueInv, Queued
      <4>4. QED
        BY <4>1, <4>2, <4>3
    <3>2. CASE p = Len(q) + 1
      <4>1. Append(q, "stop")[p] = "stop" /\ "stop" \notin Op
        BY <2>7, <3>2, BrokerAssumption
      <4>2. \A r \in 1..(Len(q) + 1) : Append(q, "stop")[r] = "stop" => r = p
        BY <2>7, <2>10, <3>2
      <4>3. QED
        BY <3>2, <4>1, <4>2
    <3>3. QED
      BY <2>7, <3>1, <3>2
  <2>13. QueueInv'
    <3>1. \A j \in Instances \ {i} : Queued(j)'
      BY <1>1, <2>4, <2>8 DEF QueueInv, Queued
    <3>2. ASSUME NEW o \in Op, ops'[o].work = "queued"
          PROVE  \E p \in 1..Len(queue'[ops'[o].at]) : queue'[ops'[o].at][p] = o
      <4>1. ops'[o] = ops[o] /\ ops[o].at \in Instances
        BY <1>1, <3>2 DEF OpsInv, OpType, Request, Instances
      <4>2. PICK p \in 1..Len(queue[ops[o].at]) : queue[ops[o].at][p] = o
        BY <3>2, <4>1 DEF QueueInv
      <4>3. CASE ops[o].at = i
        <5>1. p \in 1..Len(Append(q, "stop")) /\ Append(q, "stop")[p] = o
          BY <2>7, <4>2, <4>3
        <5>2. QED
          BY <2>8, <4>1, <4>3, <5>1
      <4>4. CASE ops[o].at # i
        BY <2>8, <4>1, <4>2, <4>4
      <4>5. QED
        BY <4>3, <4>4
    <3>3. QED
      BY <2>12, <3>1, <3>2 DEF QueueInv
  <2>14. StopInv'
    <3>1. Stopping(i)'
      BY <1>1, <2>2, <2>3, <2>4 DEF Stopping
    <3>2. ASSUME NEW j \in Instances \ {i} PROVE Stopping(j)'
      BY <1>1, <2>4, <2>8 DEF StopInv, Stopping, Settled
    <3>3. QED
      BY <3>1, <3>2 DEF StopInv
  <2>15. CallerType' /\ callers'[c].pc = "asked" /\ \A d \in Caller \ {c} : callers'[d] = callers[d]
    BY <1>3, GotoType
  <2>16. CallerPart'
    <3>1. NothingStarts
      BY <2>4 DEF Alive, NothingStarts
    <3>2. ASSUME NEW d \in Caller
          PROVE  \/ callers'[d] = callers[d]
                 \/ /\ callers[d].pc \notin {"idle", "dead"}
                    /\ callers'[d].pc \in {"ask", "asked", "wait", "out"}
                    /\ callers[d].pc = "start" => procs'[callers[d].target].phase # "spawned"
      BY <1>1, <2>15
    <3>3. lock' = lock /\ CallerPart /\ CallerType'
      BY <1>1, <2>15 DEF CallerPart
    <3>4. QED
      BY <3>1, <3>2, <3>3, CallersGoOn, Zenon
  <2>17. QED
    BY <1>1, <2>5, <2>9, <2>11, <2>13, <2>14, <2>16 DEF CallerPart, OpType
<1>4. QED
  BY <1>2, <1>3, <1>5 DEF Ask

-----------------------------------------------------------------------------
LEMMA BrokerStep == BrokerInv /\ [Next]_vars => BrokerInv'
<1> SUFFICES ASSUME BrokerInv, [Next]_vars PROVE BrokerInv'
  OBVIOUS
<1>1. ASSUME NEW c \in Caller, CallerNext(c) PROVE BrokerInv'
  BY <1>1, LeaveStep, NoHealthStep, HealthStep, AskStep, InCallStep, WaitedStep, SpawnStep,
     StartTimesOutStep DEF CallerNext
<1>2. ASSUME NEW i \in Instances, BrokerNext(i) \/ BrokerCrash(i) PROVE BrokerInv'
  BY <1>2, ServeStep, ProcessEnds, LoopTakesStop, LoopTakesOp, DecideStep DEF BrokerNext
<1>3. ASSUME NEW o \in Op,
             Send(o) \/ Submit(o) \/ Settle(o) \/ Unwind(o) \/ Reply(o) \/ Deadline(o)
      PROVE  BrokerInv'
  BY <1>3, SendStep, SubmitStep, OpStep
<1>4. CASE UNCHANGED vars
  BY <1>4 DEF vars, BrokerInv, Types, ProcType, QueueType, OpType, CallerType, LockType, LockHeld,
              OpsInv, QueueInv, Queued, StopInv, Stopping, Settled, StartInv, Orderly, Alive
<1>5. CASE Next
  BY <1>1, <1>2, <1>3, <1>5, EnterStep, LeaveStep DEF Next
<1>6. QED
  BY <1>4, <1>5

(* The invariant of the brokers, their requests and their callers.         *)
THEOREM BrokerHolds == Spec => []BrokerInv
BY BrokerStart, BrokerStep, PTL DEF Spec

(* Types, and that whoever is inside ensure_broker or stop_broker holds    *)
(* the lifecycle lock.                                                     *)
THEOREM BrokerTypes == Spec => []TypeOK
<1>1. BrokerInv => TypeOK
  BY TypesAreTypeOK DEF BrokerInv
<1>2. QED
  BY <1>1, BrokerHolds, PTL

(* A broker that ends because it was asked to leaves nothing behind: what  *)
(* the stop fence of http_api.py and the drained queue are for.            *)
THEOREM BrokerStopLosesNothing == Spec => []StopLosesNothing
<1>1. BrokerInv => StopLosesNothing
  BY DEF BrokerInv, StopInv, Stopping, StopLosesNothing, At
<1>2. QED
  BY <1>1, BrokerHolds, PTL

(* A request is executed at most once, whatever is lost and however often  *)
(* the broker is replaced (_no_replay).                                    *)
THEOREM BrokerExecutedOnce == Spec => []ExecutedOnce
<1>1. BrokerInv => ExecutedOnce
  BY DEF BrokerInv, OpsInv, ExecutedOnce
<1>2. QED
  BY <1>1, BrokerHolds, PTL

(* A broker that ensure_broker starts finds the port free, unless a caller *)
(* was killed while it held the lock.                                      *)
THEOREM BrokerNoCollision == Spec => []NoCollision
<1>1. BrokerInv => NoCollision
  BY DEF BrokerInv, StartInv, Orderly, NoCollision
<1>2. QED
  BY <1>1, BrokerHolds, PTL
=============================================================================

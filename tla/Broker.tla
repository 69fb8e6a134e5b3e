-------------------------------- MODULE Broker --------------------------------
(***************************************************************************)
(* The broker as a process (studio_mcp_v2/lifecycle.py, hub.py): clients   *)
(* that reuse, start and stop it under a file lock, the HTTP threads and   *)
(* their stop fence (http_api.py), and the operations that are sent to it  *)
(* (frontend.py).  A request is handled by a thread, which queues its work *)
(* on the loop and waits for it until a deadline; the loop runs what is    *)
(* queued in order.                                                        *)
(*                                                                         *)
(* What an operation does once it runs is Session's and PlayLifecycle's    *)
(* business: here it works, ends, or leaves an unknown outcome.            *)
(***************************************************************************)
EXTENDS Naturals, FiniteSets, Sequences

CONSTANTS
  Caller,       \* processes that call ensure_broker or stop_broker
  Release,      \* the release that each of them runs
  First,        \* releases of which a broker may be there already
  Op,           \* requests that are sent to the broker, each of them once
  Kinds,        \* what each may be: "call", "job" (of a client), "studio" (of an adapter)
  MaxInstance,  \* bound on the brokers ever started
  MaxCalls,     \* bound on the calls of each caller
  Faults        \* "crash", "kill", "slow", "reply"

ASSUME BrokerAssumption ==
  /\ Kinds \in [Op -> SUBSET {"call", "job", "studio"}]
  /\ Release \in [Caller -> Nat] /\ First \subseteq Nat
  /\ MaxInstance \in Nat /\ MaxCalls \in Nat
  /\ "free" \notin Caller /\ "stop" \notin Op

Instances == 1..MaxInstance

VARIABLES
  procs,     \* the broker processes
  queue,     \* what each one's loop has still to start: requests, or "stop"
  ops,       \* the requests
  callers,   \* the callers
  lock       \* the caller that holds the lifecycle lock, or "free"

vars == <<procs, queue, ops, callers, lock>>

NoProc == [phase |-> "absent", release |-> 0, fence |-> FALSE, summary |-> "none",
           unsafe |-> FALSE, ended |-> "no"]
Serving(r) == [NoProc EXCEPT !.phase = "serving", !.release = r]
NoOp == [at |-> 0, work |-> "none", thread |-> "none", told |-> "none", runs |-> 0, kind |-> "none"]
NoCall == [pc |-> "idle", want |-> "none", port |-> FALSE, target |-> 0, calls |-> 0]

(* The process that holds the port; the socket admits one.                 *)
Listening(i) == procs[i].phase \in {"serving", "committed"}
PortOpen == \E i \in Instances : Listening(i)
Listener == CHOOSE i \in Instances : Listening(i)

At(i) == {o \in Op : ops[o].at = i}
Unsettled == {"admitted", "queued", "working", "uncertain"}

-----------------------------------------------------------------------------
(* HTTP threads and the loop                                               *)

(* begin_client_operation, begin_studio_mutation: counted until the thread *)
(* has answered.                                                           *)
Active(i) == {o \in At(i) : ops[o].thread = "waiting"}

(* Mutant: only the clients' operations are counted.                       *)
MayFenceClients(i) == ~procs[i].fence /\ {o \in Active(i) : ops[o].kind # "studio"} = {}

(* begin_stop_fence                                                        *)
MayFence(i) == ~procs[i].fence /\ Active(i) = {}

(* Mutant: jobs of terminal clients are not looked at.                     *)
StopSafeButJobs(i) ==
  /\ ~procs[i].unsafe
  /\ \A o \in At(i) : ops[o].kind # "job" => ops[o].work \notin {"working", "uncertain"}

(* lifecycle_summary: no session that owes, waits or plays.                *)
StopSafe(i) ==
  /\ ~procs[i].unsafe
  /\ \A o \in At(i) : ops[o].work \notin {"working", "uncertain"}

(* Mutant: after a lost connection the request is sent again.              *)
MaySendAgain(o) == ops[o].told \in {"none", "lost"}

(* _no_replay: whatever becomes of it, a request is sent once.             *)
MaySend(o) == ops[o].told = "none" /\ ops[o].thread = "none"

(* The request reaches the listener, whose thread counts it or refuses it. *)
Send(o) ==
  /\ MaySend(o)
  /\ IF ~PortOpen THEN ops' = [ops EXCEPT ![o].told = "lost"]
     ELSE IF procs[Listener].fence THEN ops' = [ops EXCEPT ![o].told = "refused"]
     ELSE \E k \in Kinds[o] :
            ops' = [ops EXCEPT ![o] = [@ EXCEPT !.at = Listener, !.work = "admitted",
                                         !.thread = "waiting", !.told = "none", !.kind = k]]
  /\ UNCHANGED <<procs, queue, callers, lock>>

(* submit_to_loop                                                          *)
Submit(o) ==
  /\ ops[o].work = "admitted" /\ Listening(ops[o].at)
  /\ queue' = [queue EXCEPT ![ops[o].at] = Append(@, o)]
  /\ ops' = [ops EXCEPT ![o].work = "queued"]
  /\ UNCHANGED <<procs, callers, lock>>

(* The loop takes up what was queued first.  A cancelled future does not   *)
(* stop it: the task's first step was scheduled before its cancellation.   *)
LoopStep(i) ==
  /\ Listening(i) /\ queue[i] # <<>>
  /\ LET w == Head(queue[i])
     IN  IF w = "stop"
         THEN /\ procs' = [procs EXCEPT ![i].summary = IF StopSafe(i) THEN "safe" ELSE "unsafe"]
              /\ UNCHANGED ops
         ELSE /\ ops' = [ops EXCEPT ![w].runs = @ + 1,
                           ![w].work = IF ops[w].kind = "studio" THEN "done" ELSE "working"]
              /\ IF ops[w].kind = "studio"
                 THEN \E u \in BOOLEAN : procs' = [procs EXCEPT ![i].unsafe = u]
                 ELSE UNCHANGED procs
  /\ queue' = [queue EXCEPT ![i] = Tail(@)]
  /\ UNCHANGED <<callers, lock>>

(* Studio answers a call or a job, in time or late; its answer is itself a *)
(* request, which a fenced broker does not admit.                          *)
Settle(o) ==
  /\ ops[o].work \in {"working", "uncertain"}
  /\ procs[ops[o].at].phase = "serving" /\ ~procs[ops[o].at].fence
  /\ ops' = [ops EXCEPT ![o].work = "done"]
  /\ UNCHANGED <<procs, queue, callers, lock>>

(* A call that its thread gave up is cancelled where it waits; a job ends  *)
(* by its own timeout.  The outcome is unknown.                            *)
Unwind(o) ==
  /\ ops[o].work = "working" /\ Listening(ops[o].at)
  /\ ops[o].kind = "job" \/ ops[o].thread = "gone"
  /\ ops' = [ops EXCEPT ![o].work = "uncertain"]
  /\ UNCHANGED <<procs, queue, callers, lock>>

(* The thread answers: a job at once, a call when it is done.  To a client *)
(* whose own wait is over this is the reply that never came.               *)
Reply(o) ==
  /\ ops[o].thread = "waiting" /\ Listening(ops[o].at)
  /\ ops[o].work = "done" \/ (ops[o].kind = "job" /\ ops[o].work \notin {"admitted", "queued"})
  /\ ops' = [ops EXCEPT ![o].thread = "gone", ![o].told = "result"]
  /\ UNCHANGED <<procs, queue, callers, lock>>

(* submit_to_loop: the deadline passes and the future is cancelled.        *)
Deadline(o) ==
  /\ "slow" \in Faults
  /\ ops[o].thread = "waiting" /\ Listening(ops[o].at)
  /\ ops[o].work \in {"queued", "working"}
  /\ ops' = [ops EXCEPT ![o].thread = "gone", ![o].told = "timeout"]
  /\ UNCHANGED <<procs, queue, callers, lock>>

-----------------------------------------------------------------------------
(* The life of a broker process                                            *)

(* What an end of process i leaves of the requests it had.                 *)
Dropped(i) ==
  [o \in Op |-> IF ops[o].at # i THEN ops[o]
                ELSE [ops[o] EXCEPT
                        !.work = IF @ \in Unsettled THEN "dropped" ELSE @,
                        !.told = IF ops[o].thread = "waiting" THEN "lost" ELSE @,
                        !.thread = IF @ = "waiting" THEN "gone" ELSE @]]

Ends(i, why) ==
  /\ procs' = [procs EXCEPT ![i] = [@ EXCEPT !.phase = "gone", !.ended = why]]
  /\ ops' = Dropped(i)
  /\ queue' = [queue EXCEPT ![i] = <<>>]

(* _broker_main binds the port, or ends because another holds it.          *)
Serve(i) ==
  /\ procs[i].phase = "spawned"
  /\ IF PortOpen THEN Ends(i, "bind")
     ELSE /\ procs' = [procs EXCEPT ![i].phase = "serving"]
          /\ UNCHANGED <<queue, ops>>
  /\ UNCHANGED <<callers, lock>>

(* serve_hub leaves its wait: the listener closes and the process ends.    *)
Exit(i) == /\ procs[i].phase = "committed" /\ Ends(i, "stop")
           /\ UNCHANGED <<callers, lock>>

BrokerCrash(i) ==
  /\ "kill" \in Faults /\ procs[i].phase \in {"spawned", "serving", "committed"}
  /\ Ends(i, "crash") /\ UNCHANGED <<callers, lock>>

(* Mutant: a refused stop leaves the fence up.                             *)
RefusedStaysFenced(i) == [procs[i] EXCEPT !.summary = "none"]

(* cancel_stop_fence                                                       *)
Refused(i) == [procs[i] EXCEPT !.summary = "none", !.fence = FALSE]

(* The stop handler has its summary: it refuses, or answers and commits;   *)
(* an answer that cannot be written takes the fence down again.            *)
DecideStop(i) ==
  /\ procs[i].phase = "serving" /\ procs[i].summary \in {"safe", "unsafe"}
  /\ LET waits == {c \in Caller : callers[c].pc = "asked" /\ callers[c].target = i}
         After(pc) == callers' = [c \in Caller |-> IF c \in waits THEN [callers[c] EXCEPT !.pc = pc]
                                                   ELSE callers[c]]
     IN  \/ /\ procs[i].summary = "safe"
            /\ procs' = [procs EXCEPT ![i].phase = "committed"]
            /\ After("wait")
         \/ /\ procs[i].summary = "unsafe" \/ waits = {} \/ "reply" \in Faults
            /\ procs' = [procs EXCEPT ![i] = Refused(i)]
            /\ After("out")
  /\ UNCHANGED <<queue, ops, lock>>

-----------------------------------------------------------------------------
(* ensure_broker and stop_broker                                           *)

Goto(c, pc) == callers' = [callers EXCEPT ![c].pc = pc]

(* Mutant: the lock is not taken.                                          *)
MayEnterUnlocked(c) == callers[c].pc = "idle"

MayEnter(c) == callers[c].pc = "idle" /\ lock = "free"

(* The lock is taken, then the port is probed.                             *)
Enter(c, want) ==
  /\ MayEnter(c) /\ callers[c].calls < MaxCalls
  /\ lock' = c
  /\ callers' = [callers EXCEPT ![c] = [@ EXCEPT !.pc = "probe", !.want = want,
                                         !.port = PortOpen, !.calls = callers[c].calls + 1]]
  /\ UNCHANGED <<procs, queue, ops>>

CallOver(c, pc) == [NoCall EXCEPT !.pc = pc, !.calls = callers[c].calls]

(* The call ends, with or without an error, and the lock is released.      *)
Leave(c) ==
  /\ lock' = "free"
  /\ callers' = [callers EXCEPT ![c] = CallOver(c, "idle")]
  /\ UNCHANGED <<procs, queue, ops>>

Return(c) == callers[c].pc = "out" /\ Leave(c)

(* Authenticated health: the listener answers, or it does not in time.     *)
NoHealth(c) ==
  /\ callers[c].pc = "probe"
  /\ ~PortOpen \/ "slow" \in Faults
  /\ Goto(c, IF ~callers[c].port /\ callers[c].want = "ensure" THEN "spawn" ELSE "out")
  /\ UNCHANGED <<procs, queue, ops, lock>>

Health(c) ==
  /\ callers[c].pc = "probe" /\ PortOpen
  /\ LET i == Listener
         next == CASE callers[c].want = "stop" -> "ask"
                   [] callers[c].want # "stop" /\ procs[i].fence -> "wait"
                   [] OTHER -> IF procs[i].release = Release[c] THEN "out" ELSE "ask"
     IN  callers' = [callers EXCEPT ![c].pc = next, ![c].target = i]
  /\ UNCHANGED <<procs, queue, ops, lock>>

(* /v2/client/lifecycle/stop, to whoever listens now: the instance must be *)
(* the one that was probed, and nothing may be active.                     *)
Ask(c) ==
  /\ callers[c].pc = "ask"
  /\ IF PortOpen /\ Listener = callers[c].target /\ MayFence(Listener)
     THEN /\ procs' = [procs EXCEPT ![Listener].fence = TRUE, ![Listener].summary = "queued"]
          /\ queue' = [queue EXCEPT ![Listener] = Append(@, "stop")]
          /\ Goto(c, "asked")
     ELSE Goto(c, "out") /\ UNCHANGED <<procs, queue>>
  /\ UNCHANGED <<ops, lock>>

(* The reply to the stop does not come; the broker may still commit it.    *)
AskLost(c) ==
  /\ callers[c].pc = "asked"
  /\ "slow" \in Faults \/ ~Listening(callers[c].target)
  /\ Goto(c, "out")
  /\ UNCHANGED <<procs, queue, ops, lock>>

(* Mutant: the wait has no deadline.                                       *)
WaitEndsNever(c) == PortOpen /\ Listener # callers[c].target

(* _wait_until_stopped: another instance answers, or the deadline passes   *)
(* over a broker that is slow or stays.                                    *)
WaitEnds(c) == /\ PortOpen
               /\ Listener # callers[c].target \/ "slow" \in Faults \/ ~procs[Listener].fence

Waited(c) ==
  /\ callers[c].pc = "wait" /\ ~PortOpen
  /\ Goto(c, IF callers[c].want = "stop" THEN "out" ELSE "spawn")
  /\ UNCHANGED <<procs, queue, ops, lock>>

WaitFails(c) ==
  /\ callers[c].pc = "wait" /\ WaitEnds(c)
  /\ Goto(c, "out")
  /\ UNCHANGED <<procs, queue, ops, lock>>

Spawn(c) ==
  /\ callers[c].pc = "spawn"
  /\ \E i \in Instances :
       /\ procs[i].phase = "absent" /\ \A j \in 1..(i - 1) : procs[j].phase # "absent"
       /\ procs' = [procs EXCEPT ![i].phase = "spawned", ![i].release = Release[c]]
       /\ callers' = [callers EXCEPT ![c].pc = "start", ![c].target = i]
  /\ UNCHANGED <<queue, ops, lock>>

(* The bound on instances: the caller takes no further step.               *)
SpawnBound(c) ==
  /\ callers[c].pc = "spawn" /\ \A i \in Instances : procs[i].phase # "absent"
  /\ Leave(c)

(* The child serves and answers for itself, or it has ended.               *)
Started(c) ==
  /\ callers[c].pc = "start"
  /\ \/ procs[callers[c].target].phase \in {"serving", "committed"} /\ Goto(c, "out")
     \/ procs[callers[c].target].phase = "gone" /\ Goto(c, "out")
  /\ UNCHANGED <<procs, queue, ops, lock>>

(* Mutant: a child that is late is left to itself.                         *)
LateChildKept(c) == UNCHANGED <<procs, queue, ops>>

(* _stop_spawned_process                                                   *)
LateChildEnds(c) == Ends(callers[c].target, "signal")

StartTimesOut(c) ==
  /\ "slow" \in Faults /\ callers[c].pc = "start"
  /\ procs[callers[c].target].phase # "gone"
  /\ LateChildEnds(c)
  /\ Goto(c, "out") /\ UNCHANGED lock

(* A caller that crashes lets go of the lock; its child lives on.          *)
CallerCrash(c) ==
  /\ "crash" \in Faults /\ callers[c].pc \notin {"idle", "dead"}
  /\ callers' = [callers EXCEPT ![c] = CallOver(c, "dead")]
  /\ lock' = "free"
  /\ UNCHANGED <<procs, queue, ops>>

-----------------------------------------------------------------------------
(* A broker that an earlier caller started may be there.                   *)
Init ==
  /\ \E first \in {NoProc} \cup {Serving(r) : r \in First} :
       procs = [i \in Instances |-> IF i = 1 THEN first ELSE NoProc]
  /\ queue = [i \in Instances |-> <<>>]
  /\ ops = [o \in Op |-> NoOp]
  /\ callers = [c \in Caller |-> NoCall]
  /\ lock = "free"

CallerNext(c) ==
  \/ Return(c) \/ NoHealth(c) \/ Health(c) \/ Ask(c) \/ AskLost(c) \/ Waited(c) \/ WaitFails(c)
  \/ Spawn(c) \/ SpawnBound(c) \/ Started(c) \/ StartTimesOut(c)
BrokerNext(i) == Serve(i) \/ LoopStep(i) \/ DecideStop(i) \/ Exit(i)

Next ==
  \/ \E c \in Caller : \/ \E want \in {"ensure", "stop"} : Enter(c, want)
                       \/ CallerNext(c) \/ CallerCrash(c)
  \/ \E i \in Instances : BrokerNext(i) \/ BrokerCrash(i)
  \/ \E o \in Op : Send(o) \/ Submit(o) \/ Settle(o) \/ Unwind(o) \/ Reply(o) \/ Deadline(o)

Spec == Init /\ [][Next]_vars

(* Processes run; waits have deadlines.                                    *)
Fairness ==
  /\ \A c \in Caller : WF_vars(CallerNext(c))
  /\ \A i \in Instances : WF_vars(BrokerNext(i))

FairSpec == Spec /\ Fairness

-----------------------------------------------------------------------------
(* Every variable keeps its type; whoever is inside a call holds the lock.  *)
TypeOK ==
  /\ procs \in [Instances ->
       [phase : {"absent", "spawned", "serving", "committed", "gone"},
        release : {0} \cup First \cup {Release[c] : c \in Caller}, fence : BOOLEAN,
        summary : {"none", "queued", "safe", "unsafe"}, unsafe : BOOLEAN,
        ended : {"no", "stop", "signal", "crash", "bind"}]]
  /\ queue \in [Instances -> Seq(Op \cup {"stop"})]
  /\ ops \in [Op -> [at : 0..MaxInstance, thread : {"none", "waiting", "gone"}, runs : Nat,
                     kind : {"none", "call", "job", "studio"},
                     work : Unsettled \cup {"none", "done", "dropped"},
                     told : {"none", "result", "refused", "timeout", "lost"}]]
  /\ callers \in [Caller ->
       [pc : {"idle", "probe", "ask", "asked", "wait", "spawn", "start", "out", "dead"},
        want : {"none", "ensure", "stop"}, port : BOOLEAN, target : 0..MaxInstance,
        calls : 0..MaxCalls]]
  /\ lock \in {"free"} \cup Caller
  /\ \A c \in Caller : lock = c <=> callers[c].pc \notin {"idle", "dead"}

(* A broker that ends because it was asked to leaves nothing behind: no    *)
(* request waits, works or has an unknown outcome, and no Studio plays.    *)
StopLosesNothing ==
  \A i \in Instances : procs[i].ended = "stop" =>
    ~procs[i].unsafe /\ \A o \in At(i) : ops[o].work # "dropped"

(* Whatever is lost, and however often the broker is replaced, a request   *)
(* is executed at most once.                                               *)
ExecutedOnce == \A o \in Op : ops[o].runs <= 1

(* A broker that is started finds the port free, unless a caller was       *)
(* killed while it was starting one.                                       *)
NoCollision ==
  (\A c \in Caller : callers[c].pc # "dead") => \A i \in Instances : procs[i].ended # "bind"

(* Every call ends, so that nobody waits for the lock for ever.            *)
CallsEnd == \A c \in Caller : callers[c].pc # "idle" ~> callers[c].pc \in {"idle", "dead"}

(* A fence comes down, or its broker ends: no broker refuses for ever.     *)
FenceResolves == \A i \in Instances : procs[i].fence ~> (~procs[i].fence \/ procs[i].phase = "gone")

(* What a comment in submit_to_loop says: queued work does not run after   *)
(* its HTTP caller was told of a timeout.                                  *)
TimedOutNeverStarts ==
  [][\A o \in Op : ops[o].told = "timeout" => ops'[o].runs = ops[o].runs]_vars
=============================================================================

-------------------------------- MODULE Sim ---------------------------------
(***************************************************************************)
(* The deterministic runtime of detersim-sim: one priority queue of events *)
(* ordered by (time, seq), a single-threaded executor of tasks, timers,    *)
(* inboxes with their waiting receivers, and the nemesis events that       *)
(* crash, restart, skew and partition nodes.                               *)
(*                                                                         *)
(* The system under test is arbitrary: a running task may send, spawn,     *)
(* read its clock, await a message, a sleep or a join handle (with or      *)
(* without a timeout) or finish.  A draw from the entropy tape is a choice *)
(* over the values it can return.                                          *)
(***************************************************************************)
EXTENDS Integers, Sequences, FiniteSets, Connectivity

CONSTANTS
  Node,          \* node ids
  Horizon,       \* WorldConfig::horizon_ns
  MaxEvents,     \* WorldConfig::max_events
  NetDelay,      \* largest base network delay (100 ms in the code)
  DuplicateGap,  \* largest extra delay of a duplicate (10 ms in the code)
  ExtraDelays,   \* the extra delays set_extra_delay_ms is called with
  Durations,     \* the durations tasks sleep or time out with
  Ops,           \* what tasks and the test driver of this instance do
  Actions,       \* the nemesis actions of this instance
  Times,         \* the instants nemesis actions are scheduled at
  PastAllowed,   \* whether an action may be scheduled before the current time
  MaxTasks,      \* bound: tasks spawned by tasks stop at this many task ids
  MaxMsgs,       \* bound: messages sent
  MaxSleeps,     \* bound: sleeps and timeouts started
  MaxCalls,      \* bound: calls of the test driver besides add_node and run
  MaxRuns        \* bound: calls of World::run

None == -1

\* NemesisAction, without the storage faults (module PageStore).
ActionType ==
       [kind : {"crash", "restart"}, node : Node]
  \union [kind : {"skew"}, node : Node, offset : Int]
  \union [kind : {"link"}, from : Node, to : Node, up : BOOLEAN]
  \union [kind : {"block"}, from : Node, to : Node]
  \union [kind : {"partition"}, groups : Seq(SUBSET Node)]
  \union [kind : {"heal"}]

ASSUME ConstantsOK ==
  /\ {Horizon, MaxEvents, NetDelay, DuplicateGap} \subseteq Nat
  /\ ExtraDelays \subseteq Nat /\ Durations \subseteq Nat /\ Times \subseteq Nat
  /\ Actions \subseteq ActionType
  /\ PastAllowed \in BOOLEAN

VARIABLES
  now, seq, queue, dispatched,            \* Inner: clock and event queue
  tasks, nextTask, current, mode,         \* Inner: executor; mode is where run() is
  joins,                                  \* JoinSlot of every handle still held
  nodes, crashed, conn, skew, lastLocal,  \* Inner: cluster and FaultConfig
  faults,                                 \* FaultConfig: drop, duplicate, extra delay
  inbox, waiters,                         \* Inner: inboxes, recv_waiters
  timers, nextTimer,                      \* Inner: timers
  report,                                 \* the last RunReport
  calls, runs, sleeps,                    \* how much of each bound is used
  sent, epoch                             \* history: messages sent, crashes per node

eventVars   == <<now, seq, queue, dispatched>>
taskVars    == <<tasks, nextTask, joins>>
clusterVars == <<nodes, crashed, conn, skew, epoch>>
mailVars    == <<inbox, waiters>>
timerVars   == <<timers, nextTimer>>
boundVars   == <<calls, runs, sleeps>>

vars == <<eventVars, taskVars, current, mode, clusterVars, lastLocal, faults,
          mailVars, timerVars, report, boundVars, sent>>

-----------------------------------------------------------------------------
(* Events *)

PollEvent(at, s, t)       == [kind |-> "poll",  time |-> at, seq |-> s, task |-> t]
TimerEvent(at, s, i)      == [kind |-> "timer", time |-> at, seq |-> s, timer |-> i]
\* Mutant: the two ends of a message are swapped.
MsgEventSwapped(at, s, f, to, m) ==
  [kind |-> "msg", time |-> at, seq |-> s, from |-> to, to |-> f, msg |-> m]
MsgEvent(at, s, f, to, m) ==
  [kind |-> "msg", time |-> at, seq |-> s, from |-> f, to |-> to, msg |-> m]
NemesisEvent(at, s, a)    == [kind |-> "nemesis", time |-> at, seq |-> s, action |-> a]

EventType ==
       [kind : {"poll"},    time : Nat, seq : Nat, task : Nat]
  \union [kind : {"timer"},   time : Nat, seq : Nat, timer : Nat]
  \union [kind : {"msg"},     time : Nat, seq : Nat, from : Node, to : Node, msg : Nat]
  \union [kind : {"nemesis"}, time : Nat, seq : Nat, action : ActionType]

\* Mutant: the queue is in insertion order.
BeforeBySeq(e, f) == e.seq < f.seq

\* Ord for Keyed: by time, then by insertion.
Before(e, f) == e.time < f.time \/ (e.time = f.time /\ e.seq < f.seq)

\* BinaryHeap::pop
IsFirst(e) == e \in queue /\ \A f \in queue \ {e} : Before(e, f)

\* Push (push_event) one event on the queue q.
Push(q, e) == queue' = q \union {e} /\ seq' = seq + 1

\* enqueue_poll_now for each task of ts, in its order.
PollAll(q, at, ts) ==
  /\ queue' = q \union {PollEvent(at, seq + i - 1, ts[i]) : i \in DOMAIN ts}
  /\ seq' = seq + Len(ts)

-----------------------------------------------------------------------------
(* Tasks and what they wait for *)

\* The pending future of a task: recv or join (inner), raced against a sleep
\* of dur when there is one.  deadline and timer are those of SleepFuture;
\* keep says that a timed-out join handle stays with the task.
NoAwait == [inner |-> "none", child |-> None, keep |-> FALSE,
            dur |-> None, deadline |-> None, timer |-> None]

AwaitType ==
  [inner : {"none", "recv", "join"}, child : Nat \union {None}, keep : BOOLEAN,
   dur : Nat \union {None}, deadline : Nat \union {None}, timer : Nat \union {None}]

\* TaskSlot: held is FALSE while the future is taken out of its slot.
Slot(n) == [node |-> n, held |-> TRUE, await |-> NoAwait]
SlotType == [node : Node, held : BOOLEAN, await : AwaitType]

\* JoinSlot: the task that holds the handle, whether the output is there, and
\* the task to poll when it is (joiners; only the holder ever polls a handle).
JoinType == [owner : Nat, done : BOOLEAN, joiner : Nat \union {None}]

\* Inner::add_task: ids are never reused.
AddTask(n) ==
  /\ tasks' = [t \in DOMAIN tasks \union {nextTask} |->
                 IF t = nextTask THEN Slot(n) ELSE tasks[t]]
  /\ nextTask' = nextTask + 1

\* BTreeMap: the empty map, and a map without the keys of S.
EmptyMap == [x \in {} |-> x]
Without(f, S) == [x \in DOMAIN f \ S |-> f[x]]

\* Mutant: a dropped RecvFuture stays registered.
UnregisterNever(ws, t) == ws

\* unregister_recv_waiter: the list holds a task at most once.
Unregister(ws, t) ==
  IF \E i \in DOMAIN ws : ws[i] = t
  THEN LET i == CHOOSE i \in DOMAIN ws : ws[i] = t
       IN  SubSeq(ws, 1, i - 1) \o SubSeq(ws, i + 1, Len(ws))
  ELSE ws

\* register_recv_waiter
Register(ws, t) == IF \E i \in DOMAIN ws : ws[i] = t THEN ws ELSE Append(ws, t)

\* Mutant: a delivery polls one receiver only.
AwakenFirst(ws) == [i \in DOMAIN ws \intersect {1} |-> ws[i]]

\* The waiting receivers a delivery takes from recv_waiters to poll them.
Awakened(ws) == ws

AtLeast(x, y) == IF x >= y THEN x ELSE y

\* Mutant: a node can read less than it has read before.
LocalNowUnfloored(n) == AtLeast(now + skew[n], 0)

\* Inner::local_now: the skewed clock, never below what the node has read.
LocalNow(n) == AtLeast(AtLeast(now + skew[n], 0), lastLocal[n])

ReadClock(n) == lastLocal' = [lastLocal EXCEPT ![n] = LocalNow(n)]

\* Inner::global_from_local_deadline
GlobalDeadline(n, local) == AtLeast(AtLeast(local - skew[n], 0), now)

-----------------------------------------------------------------------------
(* The test driver: World's own methods, called between runs *)

\* World::add_node_factory and spawn_registered_node
AddNode(n) ==
  /\ mode = "idle" /\ n \notin nodes
  /\ nodes' = nodes \union {n}
  /\ conn' = AddToMatrix(conn, n)
  /\ AddTask(n)
  /\ Push(queue, PollEvent(now, seq, nextTask))
  /\ UNCHANGED <<now, dispatched, joins, current, mode, crashed, skew, epoch, lastLocal,
                 faults, mailVars, timerVars, report, boundVars, sent>>

Call ==
  /\ mode = "idle" /\ calls < MaxCalls
  /\ calls' = calls + 1
  /\ UNCHANGED <<mode, current, runs, sleeps, report, sent>>

\* World::schedule_nemesis
ScheduleNemesis(at, a) ==
  /\ Call
  /\ PastAllowed \/ at >= now
  /\ Push(queue, NemesisEvent(at, seq, a))
  /\ UNCHANGED <<now, dispatched, taskVars, clusterVars, lastLocal, faults, mailVars, timerVars>>

\* World::set_drop_percent, set_duplicate_percent and set_extra_delay_ms
SetFaults ==
  /\ Call
  /\ \/ "drop" \in Ops /\ faults' = [faults EXCEPT !.drop = ~@]
     \/ "duplicate" \in Ops /\ faults' = [faults EXCEPT !.duplicate = ~@]
     \/ \E x \in ExtraDelays : faults' = [faults EXCEPT !.extra = x]
  /\ UNCHANGED <<eventVars, taskVars, clusterVars, lastLocal, mailVars, timerVars>>

\* World::env_for(n) used by the driver to spawn on n, whatever n's state.
SpawnFromOutside(n) ==
  /\ Call /\ "outside" \in Ops
  /\ AddTask(n)
  /\ Push(queue, PollEvent(now, seq, nextTask))
  /\ UNCHANGED <<now, dispatched, joins, clusterVars, lastLocal, faults, mailVars, timerVars>>

-----------------------------------------------------------------------------
(* Nemesis actions, shared by the driver and by the events of the queue    *)

TasksOf(n) == {t \in DOMAIN tasks : tasks[t].node = n}

\* Mutant: messages the crashed node sent stay in flight.
LiveUnlessReceiver(e, n, live) ==
  \/ e.kind = "poll"  /\ e.task \notin TasksOf(n)
  \/ e.kind = "timer" /\ e.timer \in DOMAIN live
  \/ e.kind = "msg"   /\ n # e.to
  \/ e.kind = "nemesis"

\* event_is_live_after_crash, with the timers left after the purge.
LiveAfterCrash(e, n, live) ==
  \/ e.kind = "poll"  /\ e.task \notin TasksOf(n)
  \/ e.kind = "timer" /\ e.timer \in DOMAIN live
  \/ e.kind = "msg"   /\ n \notin {e.from, e.to}
  \/ e.kind = "nemesis"

\* Mutant: the timers of the crashed node's tasks survive.
TimersKept(n) == timers

\* The timers crash_node keeps: those that wake a task of another node.
TimersAfterCrash(n) == Without(timers, {i \in DOMAIN timers : timers[i] \in TasksOf(n)})

\* Mutant: a node that was never added can crash.
CanCrashUnchecked(n) == TRUE
CanCrash(n) == n \in nodes

\* Inner::crash_node on the queue q.  A receiver registers with its own node
\* only, so the waiter lists of the other nodes hold no task of n.
CrashNode(n, q) ==
  IF ~CanCrash(n)
  THEN queue' = q /\ UNCHANGED <<crashed, epoch, inbox, waiters, tasks, joins, timers>>
  ELSE /\ crashed' = crashed \union {n}
       /\ epoch' = [epoch EXCEPT ![n] = @ + 1]
       /\ inbox' = [inbox EXCEPT ![n] = <<>>]
       /\ waiters' = [waiters EXCEPT ![n] = <<>>]
       /\ tasks' = Without(tasks, TasksOf(n))
       /\ joins' = Without(joins, {c \in DOMAIN joins : joins[c].owner \in TasksOf(n)})
       /\ timers' = TimersAfterCrash(n)
       /\ queue' = {e \in q : LiveAfterCrash(e, n, TimersAfterCrash(n))}

\* The connectivity actions of Inner::apply_nemesis
Relink(a) ==
  \/ a.kind = "link"      /\ conn' = SetLink(conn, a.from, a.to, a.up)
  \/ a.kind = "block"     /\ conn' = Block(conn, a.from, a.to)
  \/ a.kind = "partition" /\ conn' = Partition(conn, a.groups)
  \/ a.kind = "heal"      /\ conn' = HealAll(conn)

\* Inner::apply_nemesis for everything but a restart, on the queue q.
ApplyNemesis(a, q) ==
  /\ \/ /\ a.kind = "crash"
        /\ CrashNode(a.node, q)
        /\ UNCHANGED <<conn, skew>>
     \/ /\ a.kind = "skew"
        /\ skew' = [skew EXCEPT ![a.node] = a.offset]
        /\ queue' = q
        /\ UNCHANGED <<conn, crashed, epoch, inbox, waiters, tasks, joins, timers>>
     \/ /\ Relink(a)
        /\ queue' = q
        /\ UNCHANGED <<skew, crashed, epoch, inbox, waiters, tasks, joins, timers>>
  /\ UNCHANGED <<seq, nodes, nextTask, nextTimer>>

\* World::restart_node_outcome at time at, on the queue q: only a registered,
\* crashed node gets a fresh root task, anything else is just recorded.
RestartNode(n, q, at) ==
  IF n \in nodes \intersect crashed
  THEN /\ crashed' = crashed \ {n}
       /\ AddTask(n)
       /\ Push(q, PollEvent(at, seq, nextTask))
  ELSE queue' = q /\ UNCHANGED <<crashed, tasks, nextTask, seq>>

\* World::partition, heal_all, set_clock_skew, crash_node
ApplyNow(a) ==
  /\ Call /\ "driver" \in Ops
  /\ a.kind \in {"partition", "heal", "skew", "crash"}
  /\ ApplyNemesis(a, queue)
  /\ UNCHANGED <<now, dispatched, lastLocal, faults>>

\* World::restart_node
RestartNow(a) ==
  /\ Call /\ "driver" \in Ops
  /\ a.kind = "restart"
  /\ RestartNode(a.node, queue, now)
  /\ UNCHANGED <<now, dispatched, joins, nodes, conn, skew, epoch, lastLocal, faults,
                 mailVars, timerVars>>

-----------------------------------------------------------------------------
(* World::run and pop_until_poll *)

\* World::run is called.
Run ==
  /\ mode = "idle" /\ runs < MaxRuns
  /\ runs' = runs + 1
  /\ mode' = "loop"
  /\ UNCHANGED <<eventVars, taskVars, current, clusterVars, lastLocal, faults, mailVars,
                 timerVars, report, calls, sleeps, sent>>

\* The RunReport flags; stop is the PopResult that ended the loop.
MakeReport(stop) ==
  report' = [stop       |-> stop,
             aborted    |-> dispatched >= MaxEvents \/ now' > Horizon,
             deadlocked |-> queue' = {} /\ DOMAIN tasks # {}]

\* Quiesce: no event is left.
Quiesce ==
  /\ mode = "loop" /\ queue = {}
  /\ mode' = "idle"
  /\ now' = now /\ queue' = queue
  /\ MakeReport("quiesce")
  /\ UNCHANGED <<seq, dispatched, taskVars, current, clusterVars, lastLocal, faults, mailVars,
                 timerVars, boundVars, sent>>

\* Popping e advances the clock, whatever becomes of e.
Pop(e) == mode = "loop" /\ IsFirst(e) /\ now' = e.time

Stops(e) == e.time > Horizon \/ dispatched >= MaxEvents

\* Abort: the popped event is gone.
Abort(e) ==
  /\ Pop(e) /\ Stops(e)
  /\ queue' = queue \ {e}
  /\ mode' = "idle"
  /\ MakeReport("abort")
  /\ UNCHANGED <<seq, dispatched, taskVars, current, clusterVars, lastLocal, faults, mailVars,
                 timerVars, boundVars, sent>>

\* An event that is dispatched, or silently skipped.
Dispatch(e) == Pop(e) /\ ~Stops(e) /\ dispatched' = dispatched + 1
Skip(e) == Pop(e) /\ ~Stops(e) /\ queue' = queue \ {e} /\ UNCHANGED <<dispatched, seq>>

\* TimerFire of a registered timer
FireTimer(e) ==
  /\ e.kind = "timer" /\ e.timer \in DOMAIN timers
  /\ Dispatch(e)
  /\ timers' = Without(timers, {e.timer})
  /\ Push(queue \ {e}, PollEvent(e.time, seq, timers[e.timer]))
  /\ UNCHANGED <<taskVars, current, mode, clusterVars, lastLocal, faults, mailVars, nextTimer,
                 report, boundVars, sent>>

\* TimerFire of a cancelled timer
SkipTimer(e) ==
  /\ e.kind = "timer" /\ e.timer \notin DOMAIN timers
  /\ Skip(e)
  /\ UNCHANGED <<taskVars, current, mode, clusterVars, lastLocal, faults, mailVars, timerVars,
                 report, boundVars, sent>>

\* Mutant: a message reaches a crashed node.
DeliverableUnlessCut(e) == e.to \in nodes /\ IsConnected(conn, e.from, e.to)

\* The checks of DeliverMsg before the random drop.
Deliverable(e) ==
  /\ e.to \in nodes
  /\ {e.from, e.to} \intersect crashed = {}
  /\ IsConnected(conn, e.from, e.to)

\* drop-unregistered, drop-crashed, drop-partition and drop-random
DropMsg(e) ==
  /\ e.kind = "msg"
  /\ ~Deliverable(e) \/ faults.drop
  /\ Dispatch(e)
  /\ queue' = queue \ {e}
  /\ UNCHANGED <<seq, taskVars, current, mode, clusterVars, lastLocal, faults, mailVars,
                 timerVars, report, boundVars, sent>>

\* DeliverMsg: the message joins the inbox, every waiting receiver is polled.
DeliverMsg(e) ==
  /\ e.kind = "msg" /\ Deliverable(e)
  /\ Dispatch(e)
  /\ inbox' = [inbox EXCEPT ![e.to] = Append(@, [from |-> e.from, msg |-> e.msg])]
  /\ waiters' = [waiters EXCEPT ![e.to] = <<>>]
  /\ PollAll(queue \ {e}, e.time, Awakened(waiters[e.to]))
  /\ UNCHANGED <<taskVars, current, mode, clusterVars, lastLocal, faults, timerVars,
                 report, boundVars, sent>>

\* A nemesis event other than a restart
NemesisStep(e) ==
  /\ e.kind = "nemesis"
  /\ Dispatch(e)
  /\ ApplyNemesis(e.action, queue \ {e})
  /\ UNCHANGED <<current, mode, lastLocal, faults, report, boundVars, sent>>

\* PopResult::Restart
RestartStep(e) ==
  /\ e.kind = "nemesis" /\ e.action.kind = "restart"
  /\ Dispatch(e)
  /\ RestartNode(e.action.node, queue \ {e}, e.time)
  /\ UNCHANGED <<joins, current, mode, nodes, conn, skew, epoch, lastLocal, faults, mailVars,
                 timerVars, report, boundVars, sent>>

\* PollTask that polls nothing: the task is gone, its future is, or its node is
\* down.  In the last case the future has been taken out of the slot and is lost.
SkipPoll(e) ==
  /\ e.kind = "poll"
  /\ e.task \in DOMAIN tasks => ~tasks[e.task].held \/ tasks[e.task].node \in crashed
  /\ Skip(e)
  /\ tasks' = [t \in DOMAIN tasks |->
                 IF t = e.task THEN [tasks[t] EXCEPT !.held = FALSE] ELSE tasks[t]]
  /\ UNCHANGED <<nextTask, joins, current, mode, clusterVars, lastLocal, faults, mailVars,
                 timerVars, report, boundVars, sent>>

\* PopResult::Poll: the future leaves its slot and is polled where it waits.
PollTask(e) ==
  /\ e.kind = "poll" /\ e.task \in DOMAIN tasks
  /\ tasks[e.task].held /\ tasks[e.task].node \notin crashed
  /\ Dispatch(e)
  /\ queue' = queue \ {e}
  /\ tasks' = [tasks EXCEPT ![e.task].held = FALSE]
  /\ current' = e.task
  /\ mode' = IF tasks[e.task].await = NoAwait THEN "run" ELSE "poll"
  /\ UNCHANGED <<seq, nextTask, joins, clusterVars, lastLocal, faults, mailVars, timerVars,
                 report, boundVars, sent>>

-----------------------------------------------------------------------------
(* Polling the future the current task waits for *)

Me == tasks[current]
Await == Me.await

\* inner is ready: recv finds a message, join finds the output.
InnerReady ==
  \/ Await.inner = "recv" /\ inbox[Me.node] # <<>>
  \/ Await.inner = "join" /\ joins[Await.child].done

\* The deadline of SleepFuture, computed when it is first polled.
Deadline == IF Await.deadline = None THEN LocalNow(Me.node) + Await.dur ELSE Await.deadline

SleepOver == Await.dur # None /\ LocalNow(Me.node) >= Deadline

\* The await is over: its futures are dropped, its timer is cancelled.
Resume ==
  /\ mode = "poll"
  /\ mode' = "run"
  /\ tasks' = [tasks EXCEPT ![current].await = NoAwait]
  /\ timers' = Without(timers, {Await.timer})
  /\ UNCHANGED <<eventVars, nextTask, current, clusterVars, faults, nextTimer, report,
                 boundVars, sent>>

\* The awaited handle is polled before its output is there.
JoinAwaited == joins' = [joins EXCEPT ![Await.child].joiner = current]

\* RecvFuture::poll returns the oldest message of the inbox.
TakeMessage ==
  /\ Resume
  /\ InnerReady /\ Await.inner = "recv"
  /\ inbox' = [inbox EXCEPT ![Me.node] = Tail(@)]
  /\ waiters' = [waiters EXCEPT ![Me.node] = Unregister(@, current)]
  /\ UNCHANGED <<joins, lastLocal>>

\* SimJoinHandle::poll returns the output, which is taken exactly once.
TakeOutput ==
  /\ Resume
  /\ InnerReady /\ Await.inner = "join"
  /\ joins' = Without(joins, {Await.child})
  /\ UNCHANGED <<mailVars, lastLocal>>

\* SleepFuture::poll is Ready: a sleep returns, or ClockExt::timeout gives up
\* and drops the future it raced, unless the task polled a handle it keeps.
TimeUp ==
  /\ Resume
  /\ ~InnerReady /\ SleepOver
  /\ waiters' = [waiters EXCEPT ![Me.node] = Unregister(@, current)]
  /\ \/ Await.inner # "join" /\ UNCHANGED joins
     \/ Await.inner = "join" /\ Await.keep /\ JoinAwaited
     \/ Await.inner = "join" /\ ~Await.keep /\ joins' = Without(joins, {Await.child})
  /\ ReadClock(Me.node)
  /\ UNCHANGED inbox

\* Mutant: a sleep that has registered a timer never registers another.
RearmsOnce == Await.dur # None /\ Await.timer = None

\* SleepFuture::poll registers a timer when it has none that is still armed.
Rearms == Await.dur # None /\ Await.timer \notin DOMAIN timers

\* Everything is Pending: the wakeups are registered, the future goes back to
\* its slot and control to World::run.
Park ==
  /\ mode = "poll"
  /\ ~InnerReady /\ ~SleepOver
  /\ mode' = "loop" /\ current' = None
  /\ tasks' = [tasks EXCEPT ![current] =
                 [@ EXCEPT !.held = TRUE,
                           !.await.deadline = IF Await.dur = None THEN None ELSE Deadline,
                           !.await.timer = IF Rearms THEN nextTimer ELSE Await.timer]]
  /\ waiters' = IF Await.inner = "recv"
                THEN [waiters EXCEPT ![Me.node] = Register(@, current)]
                ELSE waiters
  /\ IF Await.inner = "join" THEN JoinAwaited ELSE UNCHANGED joins
  /\ IF Rearms
     THEN /\ timers' = [i \in DOMAIN timers \union {nextTimer} |->
                          IF i = nextTimer THEN current ELSE timers[i]]
          /\ nextTimer' = nextTimer + 1
          /\ Push(queue, TimerEvent(GlobalDeadline(Me.node, Deadline), seq, nextTimer))
     ELSE UNCHANGED <<timerVars, queue, seq>>
  /\ IF Await.dur = None THEN UNCHANGED lastLocal ELSE ReadClock(Me.node)
  /\ UNCHANGED <<now, dispatched, nextTask, clusterVars, faults, inbox, report, boundVars, sent>>

-----------------------------------------------------------------------------
(* What the current task does between two awaits *)

\* SimClock::now
ReadNow ==
  /\ mode = "run" /\ "clock" \in Ops
  /\ ReadClock(Me.node)
  /\ UNCHANGED <<eventVars, taskVars, current, mode, clusterVars, faults, mailVars, timerVars,
                 report, boundVars, sent>>

\* SimNet::send, with the delay and the duplicate drawn from the tape.
Send(to) ==
  /\ mode = "run" /\ Len(sent) < MaxMsgs
  /\ sent' = Append(sent, [from |-> Me.node, to |-> to,
                           fromEpoch |-> epoch[Me.node], toEpoch |-> epoch[to]])
  /\ \E d \in 1 .. NetDelay + faults.extra :
       LET msg(at, s) == MsgEvent(at, s, Me.node, to, Len(sent'))
       IN  \/ Push(queue, msg(now + d, seq))
           \/ /\ faults.duplicate
              /\ \E x \in 1 .. DuplicateGap :
                   queue' = queue \union {msg(now + d, seq), msg(now + d + x, seq + 1)}
              /\ seq' = seq + 2
  /\ UNCHANGED <<now, dispatched, taskVars, current, mode, clusterVars, lastLocal, faults,
                 mailVars, timerVars, report, boundVars>>

\* SimEnv::spawn: the child is polled at once, the parent holds its handle.
Spawn ==
  /\ mode = "run" /\ "spawn" \in Ops /\ nextTask < MaxTasks
  /\ AddTask(Me.node)
  /\ joins' = [c \in DOMAIN joins \union {nextTask} |->
                 IF c = nextTask THEN [owner |-> current, done |-> FALSE, joiner |-> None]
                                 ELSE joins[c]]
  /\ Push(queue, PollEvent(now, seq, nextTask))
  /\ UNCHANGED <<now, dispatched, current, mode, clusterVars, lastLocal, faults, mailVars,
                 timerVars, report, boundVars, sent>>

\* The task reaches an await: its futures are polled next.
StartAwait(a) ==
  /\ mode = "run"
  /\ mode' = "poll"
  /\ tasks' = [tasks EXCEPT ![current].await = a]
  /\ sleeps' = IF a.dur = None THEN sleeps ELSE sleeps + 1
  /\ a.dur # None => sleeps < MaxSleeps
  /\ UNCHANGED <<eventVars, nextTask, joins, current, clusterVars, lastLocal, faults, mailVars,
                 timerVars, report, calls, runs, sent>>

\* SimNet::recv, alone or under ClockExt::timeout
AwaitRecv(d) ==
  /\ "recv" \in Ops
  /\ StartAwait([NoAwait EXCEPT !.inner = "recv", !.dur = d])

\* SimClock::sleep
AwaitSleep(d) == "sleep" \in Ops /\ StartAwait([NoAwait EXCEPT !.dur = d])

\* A join handle awaited, alone or under ClockExt::timeout.  Under a timeout the
\* task may lend the handle (keep) instead of giving it away.
AwaitJoin(c, d, keep) ==
  /\ c \in DOMAIN joins /\ joins[c].owner = current
  /\ StartAwait([NoAwait EXCEPT !.inner = "join", !.child = c, !.dur = d, !.keep = keep])

\* Mutant: the spawn wrapper polls nobody.
JoinersForgotten(t) == <<>>

\* The tasks waiting for the output of t, and the handles left when t is dropped.
JoinersOf(t) ==
  IF t \in DOMAIN joins /\ joins[t].joiner # None THEN <<joins[t].joiner>> ELSE <<>>

Finished(t) ==
  LET left == {c \in DOMAIN joins : joins[c].owner # t}
  IN  [c \in left |-> IF c = t THEN [joins[c] EXCEPT !.done = TRUE, !.joiner = None]
                               ELSE joins[c]]

\* The task returns: the spawn wrapper stores the output and polls its joiner,
\* the slot is removed, the handles the task held are dropped.
Finish ==
  /\ mode = "run"
  /\ mode' = "loop" /\ current' = None
  /\ tasks' = Without(tasks, {current})
  /\ joins' = Finished(current)
  /\ PollAll(queue, now, JoinersOf(current))
  /\ UNCHANGED <<now, dispatched, nextTask, clusterVars, lastLocal, faults, mailVars, timerVars,
                 report, boundVars, sent>>

-----------------------------------------------------------------------------
Init ==
  /\ now = 0 /\ seq = 0 /\ queue = {} /\ dispatched = 0
  /\ tasks = EmptyMap /\ nextTask = 0 /\ current = None /\ mode = "idle" /\ joins = EmptyMap
  /\ nodes = {} /\ crashed = {} /\ conn = EmptyMatrix
  /\ skew = [n \in Node |-> 0] /\ lastLocal = [n \in Node |-> 0]
  /\ faults = [drop |-> FALSE, duplicate |-> FALSE, extra |-> 0]
  /\ inbox = [n \in Node |-> <<>>] /\ waiters = [n \in Node |-> <<>>]
  /\ timers = EmptyMap /\ nextTimer = 0
  /\ report = [stop |-> "none", aborted |-> FALSE, deadlocked |-> FALSE]
  /\ calls = 0 /\ runs = 0 /\ sleeps = 0
  /\ sent = <<>> /\ epoch = [n \in Node |-> 0]

Driver ==
  \/ \E n \in Node : AddNode(n) \/ SpawnFromOutside(n)
  \/ \E at \in Times, a \in Actions : ScheduleNemesis(at, a)
  \/ \E a \in Actions : ApplyNow(a) \/ RestartNow(a)
  \/ SetFaults
  \/ Run

Loop ==
  \/ Quiesce
  \/ \E e \in queue :
       \/ Abort(e)
       \/ FireTimer(e) \/ SkipTimer(e)
       \/ DropMsg(e) \/ DeliverMsg(e)
       \/ NemesisStep(e) \/ RestartStep(e)
       \/ SkipPoll(e) \/ PollTask(e)

Task ==
  \/ TakeMessage \/ TakeOutput \/ TimeUp \/ Park
  \/ ReadNow
  \/ \E to \in Node : Send(to)
  \/ Spawn
  \/ \E d \in Durations \union {None} : AwaitRecv(d)
  \/ \E d \in Durations : AwaitSleep(d)
  \/ \E c \in DOMAIN joins, d \in Durations \union {None} :
       \E keep \in {FALSE, d # None} : AwaitJoin(c, d, keep)
  \/ Finish

Next == Driver \/ Loop \/ Task

Spec == Init /\ [][Next]_vars

\* A call of run() does not stop by itself: the loop goes on while it can, and
\* the code of a task between two awaits comes to an end.
FairSpec == Spec /\ WF_vars(Loop \/ Task)
-----------------------------------------------------------------------------
(* Properties *)

\* The parts of the type invariant.  Only existing tasks run, only tasks that were
\* spawned have handles, and only added nodes crash.
EventsOK == now \in Nat /\ seq \in Nat /\ queue \in SUBSET EventType /\ dispatched \in Nat

ModeOK ==
  \/ mode \in {"idle", "loop"} /\ current = None
  \/ mode \in {"run", "poll"} /\ current \in DOMAIN tasks

TasksOK ==
  /\ nextTask \in Nat
  /\ DOMAIN tasks \subseteq 0 .. nextTask - 1 /\ \A t \in DOMAIN tasks : tasks[t] \in SlotType
  /\ DOMAIN joins \subseteq 0 .. nextTask - 1 /\ \A c \in DOMAIN joins : joins[c] \in JoinType

ClusterOK ==
  /\ nodes \subseteq Node /\ crashed \subseteq nodes /\ conn \in Matrix(Node)
  /\ skew \in [Node -> Int] /\ lastLocal \in [Node -> Nat] /\ epoch \in [Node -> Nat]
  /\ faults \in [drop : BOOLEAN, duplicate : BOOLEAN, extra : Nat]

MailOK ==
  /\ inbox \in [Node -> Seq([from : Node, msg : Nat])]
  /\ waiters \in [Node -> Seq(Nat)]

TimersOK ==
  /\ nextTimer \in Nat
  /\ DOMAIN timers \subseteq 0 .. nextTimer - 1 /\ \A i \in DOMAIN timers : timers[i] \in Nat

RecordsOK ==
  /\ report \in [stop : {"none", "quiesce", "abort"}, aborted : BOOLEAN, deadlocked : BOOLEAN]
  /\ calls \in Nat /\ runs \in Nat /\ sleeps \in Nat
  /\ sent \in Seq([from : Node, to : Node, fromEpoch : Nat, toEpoch : Nat])

\* The type invariant of Inner: ids, maps and queues are well formed whatever the
\* interleaving of run(), tasks, driver and nemesis.
TypeOK ==
  /\ EventsOK /\ ModeOK /\ TasksOK /\ ClusterOK
  /\ MailOK /\ TimersOK /\ RecordsOK

\* The run has used up its horizon or its event budget: what it pops from now
\* on is thrown away.
Exhausted == dispatched >= MaxEvents \/ now > Horizon

Polled(t) == \E e \in queue : e.kind = "poll" /\ e.task = t
Armed(i)  == i \in DOMAIN timers /\ \E e \in queue : e.kind = "timer" /\ e.timer = i

\* A poll of t would get past the await it is in (or start it).
Ready(t) ==
  LET a == tasks[t].await
  IN  \/ a = NoAwait
      \/ a.inner = "recv" /\ inbox[tasks[t].node] # <<>>
      \/ a.inner = "join" /\ a.child \in DOMAIN joins /\ joins[a.child].done

\* The event order is total and nothing is left behind the clock, so that the
\* next event of a run is always determined (Keyed, push_event).
TotalOrder ==
  /\ \A e \in queue : now <= e.time /\ e.seq < seq
  /\ \A e, f \in queue : e.seq = f.seq => e = f

\* No wakeup is lost: a task that could continue is scheduled to be polled,
\* whichever receivers, timeouts, joins and crashes raced (recv_waiters, joiners).
NoLostWakeup ==
  ~Exhausted => \A t \in DOMAIN tasks : tasks[t].held /\ Ready(t) => Polled(t)

\* A sleeping task keeps an armed timer of its own or is about to be polled, also
\* after a timer fired too early because its clock was set back (SleepFuture).
SleepersWake ==
  ~Exhausted =>
    \A t \in DOMAIN tasks :
      tasks[t].held /\ tasks[t].await.dur # None
        => \/ Polled(t)
           \/ Armed(tasks[t].await.timer) /\ timers[tasks[t].await.timer] = t

\* Dropping futures leaves no ghost: every registered timer, receiver and joiner
\* belongs to a task that exists and is still waiting for just that (PRD 8.4).
NoGhosts ==
  /\ \A i \in DOMAIN timers :
       timers[i] \in DOMAIN tasks /\ tasks[timers[i]].await.timer = i
  /\ \A n \in Node : \A k \in DOMAIN waiters[n] :
       LET t == waiters[n][k]
       IN  t \in DOMAIN tasks /\ tasks[t].node = n /\ tasks[t].await.inner = "recv"
  /\ \A c \in DOMAIN joins :
       joins[c].owner \in DOMAIN tasks /\ joins[c].joiner \in {None, joins[c].owner}

\* A crashed node is dead: nothing of it runs, waits or is on its way (crash_node).
CrashedIsDown ==
  \A n \in crashed :
    /\ inbox[n] = <<>> /\ waiters[n] = <<>>
    /\ \A t \in TasksOf(n) : tasks[t].await = NoAwait /\ t # current
    /\ \A e \in queue : e.kind = "msg" => e.from # n

\* A message on its way was sent by and to the present incarnations of its two ends:
\* a crash of either takes it.  One in an inbox was sent to the incarnation that will
\* read it; its sender may have crashed since (event_is_live_after_crash).
NoStaleMessage ==
  /\ \A e \in queue : e.kind = "msg" =>
       /\ sent[e.msg].fromEpoch = epoch[e.from]
       /\ sent[e.msg].toEpoch = epoch[e.to]
  /\ \A n \in Node : \A k \in DOMAIN inbox[n] : sent[inbox[n][k].msg].toEpoch = epoch[n]

\* When a run quiesces the tasks that remain are stuck for good: each waits for a
\* message or a join that nothing left in the world can bring (RunReport::deadlocked).
QuiescentIsStuck ==
  queue = {} /\ mode \in {"idle", "loop"} /\ ~Exhausted =>
    \A t \in DOMAIN tasks : tasks[t].held => ~Ready(t) /\ tasks[t].await.dur = None

\* Logical time never goes back (SimTime, Inner::now).
TimeMonotone == [][now' >= now]_now

\* What a node reads off its clock never goes back, however its skew is set between
\* two reads and whether it crashed meanwhile (Inner::local_now, last_local).
LocalClockMonotone == [][\A n \in Node : lastLocal'[n] >= lastLocal[n]]_lastLocal

\* A task that sleeps gets past its sleep, however often it is polled too early and
\* parks again, unless it crashes or the run is cut short (SleepFuture).
Sleeping(t) == t \in DOMAIN tasks /\ tasks[t].await.dur # None
SleepersResume == \A t \in 0 .. MaxTasks : Sleeping(t) ~> ~Sleeping(t) \/ Exhausted

\* RunReport::deadlocked, documented as "runnable events are gone while tasks remain
\* parked": nobody parked then has a wakeup ahead.
DeadlockIsForever ==
  mode = "idle" /\ report.deadlocked
    => \A t \in DOMAIN tasks : tasks[t].held => tasks[t].await.dur = None

\* The network as its users see it: what was sent, the copies on their way, the inboxes.
Posted == [m \in DOMAIN sent |-> [from |-> sent[m].from, to |-> sent[m].to]]
InFlight(m) == {e \in queue : e.kind = "msg" /\ e.msg = m}
Wire == [m \in DOMAIN sent |-> Cardinality(InFlight(m))]

\* The network of the runtime is the unreliable datagram service of the Network
\* capability: every step of the scheduler is one step of Datagram, or none.
Net == INSTANCE Datagram WITH posted <- Posted, wire <- Wire, box <- inbox
ImplementsDatagram == Net!Spec
=============================================================================

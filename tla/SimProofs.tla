----------------------------- MODULE SimProofs ------------------------------
(***************************************************************************)
(* Type correctness and safety of the runtime of module Sim, for every     *)
(* value of its constants: the order of events and the clock, and the      *)
(* messages of dead incarnations.                                          *)
(***************************************************************************)
EXTENDS Sim, SequenceTheorems, TLAPS

-----------------------------------------------------------------------------
(* Lemmas about the operators *)

\* ConnectivityMatrix::partition yields a matrix over the same nodes.
LEMMA PartitionType ==
  ASSUME NEW N, NEW c \in Matrix(N), NEW groups \in Seq(SUBSET N)
  PROVE  Partition(c, groups) \in Matrix(N)
<1>1. UNION {groups[i] : i \in DOMAIN groups} \subseteq N BY LenProperties, ElementOfSeq
<1>2. c.known \subseteq N BY DEF Matrix
<1> QED BY <1>1, <1>2 DEF Partition, Matrix

\* A partial map without some keys.
LEMMA WithoutProperties ==
  ASSUME NEW f, NEW S
  PROVE  /\ DOMAIN Without(f, S) = DOMAIN f \ S
         /\ \A x \in DOMAIN f \ S : Without(f, S)[x] = f[x]
BY DEF Without

\* register_recv_waiter and unregister_recv_waiter work on lists of task ids.
LEMMA WaiterLists ==
  ASSUME NEW ws \in Seq(Nat), NEW t \in Nat
  PROVE  Register(ws, t) \in Seq(Nat) /\ Unregister(ws, t) \in Seq(Nat)
<1>1. Register(ws, t) \in Seq(Nat) BY DEF Register
<1>2. CASE \E i \in DOMAIN ws : ws[i] = t
  <2> DEFINE i == CHOOSE i \in DOMAIN ws : ws[i] = t
  <2>1. i \in 1 .. Len(ws) BY <1>2
  <2> HIDE DEF i
  <2>2. \A m, n \in 1 .. Len(ws) + 1 : n <= Len(ws) + 1 => SubSeq(ws, m, n - 1) \in Seq(Nat)
    BY ElementOfSeq, LenProperties, SubSeqProperties
  <2>4. SubSeq(ws, 1, i - 1) \in Seq(Nat) /\ SubSeq(ws, i + 1, Len(ws)) \in Seq(Nat)
    <3>1. Len(ws) \in Nat BY LenProperties
    <3> QED BY <2>1, <2>2, <3>1
  <2>3. SubSeq(ws, 1, i - 1) \o SubSeq(ws, i + 1, Len(ws)) \in Seq(Nat) BY <2>4
  <2> QED BY <1>1, <1>2, <2>3 DEF Unregister, i
<1>3. CASE ~ \E i \in DOMAIN ws : ws[i] = t BY <1>1, <1>3 DEF Unregister
<1> QED BY <1>2, <1>3

\* PollAll queues polls of tasks, at consecutive places of the order.
LEMMA PollAllType ==
  ASSUME NEW q \in SUBSET EventType, NEW at \in Nat, NEW ts \in Seq(Nat),
         seq \in Nat, PollAll(q, at, ts)
  PROVE  queue' \in SUBSET EventType /\ seq' \in Nat
<1>1. Len(ts) \in Nat /\ DOMAIN ts = 1 .. Len(ts) BY LenProperties
<1>2. \A i \in DOMAIN ts : seq + i - 1 \in Nat /\ ts[i] \in Nat BY <1>1, ElementOfSeq
<1>3. \A i \in DOMAIN ts : PollEvent(at, seq + i - 1, ts[i]) \in EventType
  BY <1>2 DEF PollEvent, EventType
<1> QED BY <1>1, <1>3 DEF PollAll

\* Inner::add_task: one more slot, under a fresh id.
LEMMA AddTaskType ==
  ASSUME NEW n \in Node, TasksOK, AddTask(n)
  PROVE  /\ nextTask' = nextTask + 1
         /\ DOMAIN tasks' = DOMAIN tasks \union {nextTask}
         /\ DOMAIN tasks' \subseteq 0 .. nextTask' - 1
         /\ \A t \in DOMAIN tasks' : tasks'[t] \in SlotType
<1>1. Slot(n) \in SlotType BY DEF Slot, SlotType, NoAwait, AwaitType, None
<1> QED BY <1>1 DEF AddTask, TasksOK

\* Inner::local_now and global_from_local_deadline return instants.
LEMMA ClockType ==
  ASSUME NEW n \in Node, EventsOK, ClusterOK, NEW local \in Nat
  PROVE  LocalNow(n) \in Nat /\ GlobalDeadline(n, local) \in Nat
<1>1. now \in Nat /\ skew[n] \in Int /\ lastLocal[n] \in Nat BY DEF EventsOK, ClusterOK
<1> QED BY <1>1 DEF LocalNow, GlobalDeadline, AtLeast

-----------------------------------------------------------------------------
(* The type invariant *)

\* Each part of the invariant depends on its own variables only.
LEMMA Frames ==
  ASSUME TypeOK
  PROVE  /\ UNCHANGED eventVars => EventsOK'
         /\ UNCHANGED <<taskVars, current, mode>> => TasksOK' /\ ModeOK'
         /\ UNCHANGED taskVars => TasksOK'
         /\ UNCHANGED <<clusterVars, lastLocal, faults>> => ClusterOK'
         /\ UNCHANGED mailVars => MailOK'
         /\ UNCHANGED timerVars => TimersOK'
         /\ UNCHANGED <<report, boundVars, sent>> => RecordsOK'
<1>1. UNCHANGED eventVars => EventsOK' BY DEF TypeOK, EventsOK, eventVars
<1>2. UNCHANGED <<taskVars, current, mode>> => ModeOK' BY DEF TypeOK, ModeOK, taskVars
<1>3. UNCHANGED taskVars => TasksOK' BY DEF TypeOK, TasksOK, taskVars
<1>4. UNCHANGED <<clusterVars, lastLocal, faults>> => ClusterOK'
  BY DEF TypeOK, ClusterOK, clusterVars
<1>5. UNCHANGED mailVars => MailOK' BY DEF TypeOK, MailOK, mailVars
<1>6. UNCHANGED timerVars => TimersOK' BY DEF TypeOK, TimersOK, timerVars
<1>7. UNCHANGED <<report, boundVars, sent>> => RecordsOK'
  BY DEF TypeOK, RecordsOK, boundVars
<1> QED BY <1>1, <1>2, <1>3, <1>4, <1>5, <1>6, <1>7

\* A nemesis action other than a restart, with the events of q left.
LEMMA ApplyNemesisType ==
  ASSUME TypeOK, NEW a \in ActionType, NEW q \in SUBSET EventType, ApplyNemesis(a, q),
         UNCHANGED <<lastLocal, faults>>
  PROVE  /\ queue' \in SUBSET EventType /\ seq' \in Nat
         /\ TasksOK' /\ ClusterOK' /\ MailOK' /\ TimersOK'
<1> USE DEF TypeOK
<1>1. seq' = seq /\ nodes' = nodes /\ nextTask' = nextTask /\ nextTimer' = nextTimer
  BY DEF ApplyNemesis
<1>2. CASE a.kind = "crash" /\ CrashNode(a.node, q) /\ UNCHANGED <<conn, skew>>
  <2>1. a.node \in Node BY <1>2 DEF ActionType
  <2>2. CASE ~CanCrash(a.node)
    BY <1>1, <1>2, <2>2 DEF CrashNode, EventsOK, TasksOK, ClusterOK, MailOK, TimersOK
  <2>3. CASE CanCrash(a.node)
    <3>1. queue' \in SUBSET EventType /\ seq' \in Nat
      BY <1>1, <1>2, <2>3 DEF CrashNode, EventsOK
    <3>2. TasksOK'
      <4>1. PICK S, D : tasks' = Without(tasks, S) /\ joins' = Without(joins, D)
        BY <1>2, <2>3 DEF CrashNode
      <4>2. nextTask' = nextTask /\ TasksOK BY <1>1
      <4> QED BY <4>1, <4>2 DEF TasksOK, Without
    <3>3. ClusterOK'
      <4>1. /\ crashed' = crashed \union {a.node} /\ a.node \in nodes
            /\ epoch' = [epoch EXCEPT ![a.node] = @ + 1]
            /\ UNCHANGED <<conn, skew, nodes, lastLocal, faults>>
        BY <1>1, <1>2, <2>3 DEF CrashNode, CanCrash
      <4> QED BY <4>1, <2>1 DEF ClusterOK
    <3>4. MailOK'
      <4>1. <<>> \in Seq([from : Node, msg : Nat]) /\ <<>> \in Seq(Nat) BY EmptySeq
      <4> QED BY <1>2, <2>1, <2>3, <4>1 DEF CrashNode, MailOK
    <3>5. TimersOK'
      <4>1. PICK S : timers' = Without(timers, S)
        BY <1>2, <2>3 DEF CrashNode, TimersAfterCrash
      <4>2. nextTimer' = nextTimer /\ TimersOK BY <1>1
      <4> QED BY <4>1, <4>2 DEF TimersOK, Without
    <3> QED BY <3>1, <3>2, <3>3, <3>4, <3>5
  <2> QED BY <2>2, <2>3
<1>3. CASE /\ a.kind = "skew" /\ skew' = [skew EXCEPT ![a.node] = a.offset] /\ queue' = q
           /\ UNCHANGED <<conn, crashed, epoch, inbox, waiters, tasks, joins, timers>>
  <2>1. a.node \in Node /\ a.offset \in Int BY <1>3 DEF ActionType
  <2>2. ClusterOK' BY <1>1, <1>3, <2>1 DEF ClusterOK
  <2> QED BY <1>1, <1>3, <2>2 DEF EventsOK, TasksOK, MailOK, TimersOK
<1>4. CASE /\ Relink(a) /\ queue' = q
           /\ UNCHANGED <<skew, crashed, epoch, inbox, waiters, tasks, joins, timers>>
  <2>1. conn' \in Matrix(Node)
    <3>1. conn \in Matrix(Node) BY DEF ClusterOK
    <3>2. CASE a.kind = "link" /\ conn' = SetLink(conn, a.from, a.to, a.up)
      <4>1. a.from \in Node /\ a.to \in Node BY <3>2 DEF ActionType
      <4> QED BY <3>1, <3>2, <4>1 DEF SetLink, Matrix
    <3>3. CASE a.kind = "block" /\ conn' = Block(conn, a.from, a.to)
      <4>1. a.from \in Node /\ a.to \in Node BY <3>3 DEF ActionType
      <4> QED BY <3>1, <3>3, <4>1 DEF Block, Matrix
    <3>4. CASE a.kind = "partition" /\ conn' = Partition(conn, a.groups)
      <4>1. a.groups \in Seq(SUBSET Node) BY <3>4 DEF ActionType
      <4> QED BY <3>1, <3>4, <4>1, PartitionType
    <3>5. CASE a.kind = "heal" /\ conn' = HealAll(conn) BY <3>1, <3>5 DEF HealAll, Matrix
    <3> QED BY <1>4, <3>2, <3>3, <3>4, <3>5 DEF Relink
  <2>2. ClusterOK' BY <1>1, <1>4, <2>1 DEF ClusterOK
  <2> QED BY <1>1, <1>4, <2>2 DEF EventsOK, TasksOK, MailOK, TimersOK
<1> QED BY <1>2, <1>3, <1>4 DEF ApplyNemesis

\* A restart, recorded or real, with the events of q left.
LEMMA RestartNodeType ==
  ASSUME TypeOK, NEW n \in Node, NEW q \in SUBSET EventType, NEW at \in Nat,
         RestartNode(n, q, at),
         UNCHANGED <<joins, nodes, conn, skew, epoch, lastLocal, faults>>
  PROVE  queue' \in SUBSET EventType /\ seq' \in Nat /\ TasksOK' /\ ClusterOK'
<1> USE DEF TypeOK
<1>1. CASE n \in nodes \intersect crashed
  <2>1. PollEvent(at, seq, nextTask) \in EventType
    BY DEF PollEvent, EventType, EventsOK, TasksOK
  <2>2. queue' \in SUBSET EventType /\ seq' \in Nat
    BY <1>1, <2>1 DEF RestartNode, Push, EventsOK
  <2>3. TasksOK'
    BY <1>1, AddTaskType DEF RestartNode, TasksOK
  <2>4. ClusterOK'
    BY <1>1 DEF RestartNode, ClusterOK
  <2> QED BY <2>2, <2>3, <2>4
<1>2. CASE n \notin nodes \intersect crashed
  BY <1>2 DEF RestartNode, EventsOK, TasksOK, ClusterOK
<1> QED BY <1>1, <1>2

\* A call of the driver counts itself and leaves the other records alone.
LEMMA CallRecords == RecordsOK /\ Call => RecordsOK'
BY DEF Call, RecordsOK

\* The driver's calls.
LEMMA DriverType == TypeOK /\ Driver => TypeOK'
<1> SUFFICES ASSUME TypeOK, Driver PROVE TypeOK' OBVIOUS
<1> USE DEF TypeOK
<1>1. ASSUME NEW n \in Node, AddNode(n) PROVE TypeOK'
  <2>1. PollEvent(now, seq, nextTask) \in EventType
    BY DEF PollEvent, EventType, EventsOK, TasksOK
  <2>2. EventsOK' BY <1>1, <2>1 DEF AddNode, Push, EventsOK
  <2>3. TasksOK' /\ ModeOK'
    <3>1. joins' = joins /\ mode' = mode /\ current' = current /\ mode = "idle" /\ AddTask(n)
      BY <1>1 DEF AddNode
    <3> QED BY <3>1, AddTaskType DEF TasksOK, ModeOK
  <2>4. ClusterOK'
    <3>1. conn' \in Matrix(Node) BY <1>1 DEF AddNode, ClusterOK, AddToMatrix, Matrix
    <3> QED BY <1>1, <3>1 DEF AddNode, ClusterOK
  <2>5. MailOK' /\ TimersOK' /\ RecordsOK' BY <1>1, Frames DEF AddNode
  <2> QED BY <2>2, <2>3, <2>4, <2>5
<1>2. ASSUME NEW n \in Node, SpawnFromOutside(n) PROVE TypeOK'
  <2>1. PollEvent(now, seq, nextTask) \in EventType
    BY DEF PollEvent, EventType, EventsOK, TasksOK
  <2>2. EventsOK' BY <1>2, <2>1 DEF SpawnFromOutside, Push, EventsOK
  <2>3. TasksOK' /\ ModeOK'
    <3>1. joins' = joins /\ mode' = mode /\ current' = current /\ mode = "idle" /\ AddTask(n)
      BY <1>2 DEF SpawnFromOutside, Call
    <3> QED BY <3>1, AddTaskType DEF TasksOK, ModeOK
  <2>4. ClusterOK' /\ MailOK' /\ TimersOK' BY <1>2, Frames DEF SpawnFromOutside
  <2>5. RecordsOK' BY <1>2, CallRecords DEF SpawnFromOutside
  <2> QED BY <2>2, <2>3, <2>4, <2>5
<1>3. ASSUME NEW at \in Times, NEW a \in Actions, ScheduleNemesis(at, a) PROVE TypeOK'
  <2>1. NemesisEvent(at, seq, a) \in EventType
    BY ConstantsOK DEF NemesisEvent, EventType, EventsOK
  <2>2. EventsOK' BY <1>3, <2>1 DEF ScheduleNemesis, Push, EventsOK
  <2>3. ModeOK' /\ TasksOK' BY <1>3, Frames DEF ScheduleNemesis, Call, ModeOK
  <2>4. ClusterOK' /\ MailOK' /\ TimersOK' BY <1>3, Frames DEF ScheduleNemesis
  <2>5. RecordsOK' BY <1>3, CallRecords DEF ScheduleNemesis
  <2> QED BY <2>2, <2>3, <2>4, <2>5
<1>4. ASSUME NEW a \in Actions, ApplyNow(a) PROVE TypeOK'
  <2>1. a \in ActionType BY ConstantsOK
  <2>2. queue \in SUBSET EventType BY DEF EventsOK
  <2>3. ApplyNemesis(a, queue) /\ UNCHANGED <<lastLocal, faults>> BY <1>4 DEF ApplyNow
  <2>4. /\ queue' \in SUBSET EventType /\ seq' \in Nat
        /\ TasksOK' /\ ClusterOK' /\ MailOK' /\ TimersOK'
    BY <2>1, <2>2, <2>3, ApplyNemesisType
  <2>5. EventsOK' BY <1>4, <2>4 DEF ApplyNow, EventsOK
  <2>6. ModeOK' BY <1>4 DEF ApplyNow, Call, ModeOK
  <2>7. RecordsOK' BY <1>4, CallRecords DEF ApplyNow
  <2> QED BY <2>4, <2>5, <2>6, <2>7
<1>5. ASSUME NEW a \in Actions, RestartNow(a) PROVE TypeOK'
  <2>1. a.node \in Node
    <3>1. a \in ActionType /\ a.kind = "restart" BY <1>5, ConstantsOK DEF RestartNow
    <3> QED BY <3>1 DEF ActionType
  <2>2. queue \in SUBSET EventType /\ now \in Nat BY DEF EventsOK
  <2>3. /\ RestartNode(a.node, queue, now)
        /\ UNCHANGED <<joins, nodes, conn, skew, epoch, lastLocal, faults>>
    BY <1>5 DEF RestartNow
  <2>4. queue' \in SUBSET EventType /\ seq' \in Nat /\ TasksOK' /\ ClusterOK'
    BY <2>1, <2>2, <2>3, RestartNodeType
  <2>5. EventsOK' BY <1>5, <2>4 DEF RestartNow, EventsOK
  <2>6. ModeOK' BY <1>5 DEF RestartNow, Call, ModeOK
  <2>7. RecordsOK' BY <1>5, CallRecords DEF RestartNow
  <2>8. MailOK' /\ TimersOK' BY <1>5, Frames DEF RestartNow
  <2> QED BY <2>4, <2>5, <2>6, <2>7, <2>8
<1>6. ASSUME SetFaults PROVE TypeOK'
  <2>1. faults' \in [drop : BOOLEAN, duplicate : BOOLEAN, extra : Nat]
    BY <1>6, ConstantsOK DEF SetFaults, ClusterOK
  <2>2. ClusterOK' BY <1>6, <2>1 DEF SetFaults, ClusterOK, clusterVars
  <2>3. EventsOK' /\ TasksOK' /\ MailOK' /\ TimersOK' BY <1>6, Frames DEF SetFaults
  <2>4. ModeOK' BY <1>6 DEF SetFaults, Call, ModeOK, taskVars
  <2>5. RecordsOK' BY <1>6, CallRecords DEF SetFaults
  <2> QED BY <2>2, <2>3, <2>4, <2>5
<1>7. ASSUME Run PROVE TypeOK'
  <2>1. EventsOK' /\ TasksOK' /\ ClusterOK' /\ MailOK' /\ TimersOK' BY <1>7, Frames DEF Run
  <2>2. ModeOK' /\ RecordsOK' BY <1>7 DEF Run, ModeOK, RecordsOK
  <2> QED BY <2>1, <2>2
<1> QED BY <1>1, <1>2, <1>3, <1>4, <1>5, <1>6, <1>7 DEF Driver

\* Popping an event only advances the clock and the dispatch count.
LEMMA PopType ==
  ASSUME EventsOK, NEW e \in queue, Pop(e)
  PROVE  e \in EventType /\ e.time \in Nat /\ now' \in Nat /\ queue \ {e} \in SUBSET EventType
<1>1. e \in EventType BY DEF EventsOK
<1>2. e.time \in Nat BY <1>1 DEF EventType
<1> QED BY <1>1, <1>2 DEF Pop, EventsOK

\* The steps of pop_until_poll.
LEMMA LoopType == TypeOK /\ Loop => TypeOK'
<1> SUFFICES ASSUME TypeOK, Loop PROVE TypeOK' OBVIOUS
<1> USE DEF TypeOK
<1>1. ASSUME Quiesce PROVE TypeOK'
  <2>1. EventsOK' /\ ModeOK' BY <1>1 DEF Quiesce, EventsOK, ModeOK
  <2>2. TasksOK' /\ ClusterOK' /\ MailOK' /\ TimersOK' BY <1>1, Frames DEF Quiesce
  <2>3. RecordsOK' BY <1>1 DEF Quiesce, MakeReport, RecordsOK, boundVars
  <2> QED BY <2>1, <2>2, <2>3
<1>2. ASSUME NEW e \in queue, Abort(e) PROVE TypeOK'
  <2>1. EventsOK' BY <1>2, PopType DEF Abort, EventsOK
  <2>2. ModeOK' BY <1>2 DEF Abort, Pop, ModeOK
  <2>3. TasksOK' /\ ClusterOK' /\ MailOK' /\ TimersOK' BY <1>2, Frames DEF Abort
  <2>4. RecordsOK' BY <1>2 DEF Abort, MakeReport, RecordsOK, boundVars
  <2> QED BY <2>1, <2>2, <2>3, <2>4
<1>3. ASSUME NEW e \in queue, FireTimer(e) PROVE TypeOK'
  <2>1. PollEvent(e.time, seq, timers[e.timer]) \in EventType
    BY <1>3, PopType DEF FireTimer, Dispatch, PollEvent, EventType, EventsOK, TimersOK
  <2>2. EventsOK' BY <1>3, <2>1, PopType DEF FireTimer, Dispatch, Push, EventsOK
  <2>3. TimersOK' BY <1>3 DEF FireTimer, Without, TimersOK
  <2>4. TasksOK' /\ ModeOK' /\ ClusterOK' /\ MailOK' /\ RecordsOK' BY <1>3, Frames DEF FireTimer
  <2> QED BY <2>2, <2>3, <2>4
<1>4. ASSUME NEW e \in queue, SkipTimer(e) PROVE TypeOK'
  <2>1. EventsOK' BY <1>4, PopType DEF SkipTimer, Skip, EventsOK
  <2>2. TasksOK' /\ ModeOK' /\ ClusterOK' /\ MailOK' /\ TimersOK' /\ RecordsOK'
    BY <1>4, Frames DEF SkipTimer
  <2> QED BY <2>1, <2>2
<1>5. ASSUME NEW e \in queue, DropMsg(e) PROVE TypeOK'
  <2>1. EventsOK' BY <1>5, PopType DEF DropMsg, Dispatch, EventsOK
  <2>2. TasksOK' /\ ModeOK' /\ ClusterOK' /\ MailOK' /\ TimersOK' /\ RecordsOK'
    BY <1>5, Frames DEF DropMsg
  <2> QED BY <2>1, <2>2
<1>6. ASSUME NEW e \in queue, DeliverMsg(e) PROVE TypeOK'
  <2>1. Dispatch(e) /\ e.kind = "msg" BY <1>6 DEF DeliverMsg
  <2>2. e \in EventType /\ e.time \in Nat /\ now' \in Nat /\ queue \ {e} \in SUBSET EventType
    BY <2>1, PopType DEF Dispatch
  <2>3. e.from \in Node /\ e.to \in Node /\ e.msg \in Nat BY <2>1, <2>2 DEF EventType
  <2>4. waiters[e.to] \in Seq(Nat) BY <2>3 DEF MailOK
  <2>5. queue' \in SUBSET EventType /\ seq' \in Nat
    BY <1>6, <2>2, <2>4, PollAllType DEF DeliverMsg, Awakened, EventsOK
  <2>6. EventsOK' BY <2>1, <2>2, <2>5 DEF Dispatch, EventsOK
  <2>7. MailOK'
    <3>1. Append(inbox[e.to], [from |-> e.from, msg |-> e.msg]) \in Seq([from : Node, msg : Nat])
      <4>1. [from |-> e.from, msg |-> e.msg] \in [from : Node, msg : Nat] BY <2>3
      <4>2. inbox[e.to] \in Seq([from : Node, msg : Nat]) BY <2>3 DEF MailOK
      <4> QED BY <4>1, <4>2, AppendProperties
    <3>2. <<>> \in Seq(Nat) OBVIOUS
    <3> QED BY <1>6, <2>3, <3>1, <3>2 DEF DeliverMsg, MailOK
  <2>8. TasksOK' /\ ModeOK' /\ ClusterOK' /\ TimersOK' /\ RecordsOK'
    BY <1>6, Frames DEF DeliverMsg
  <2> QED BY <2>6, <2>7, <2>8
<1>7. ASSUME NEW e \in queue, NemesisStep(e) PROVE TypeOK'
  <2>1. e.kind = "nemesis" /\ Dispatch(e) BY <1>7 DEF NemesisStep
  <2>2. e \in EventType /\ now' \in Nat /\ queue \ {e} \in SUBSET EventType
    BY <2>1, PopType DEF Dispatch
  <2>3. e.action \in ActionType BY <2>1, <2>2 DEF EventType
  <2>4. ApplyNemesis(e.action, queue \ {e}) /\ UNCHANGED <<lastLocal, faults>>
    BY <1>7 DEF NemesisStep
  <2>5. /\ queue' \in SUBSET EventType /\ seq' \in Nat
        /\ TasksOK' /\ ClusterOK' /\ MailOK' /\ TimersOK'
    BY <2>2, <2>3, <2>4, ApplyNemesisType
  <2>6. EventsOK' BY <2>1, <2>2, <2>5 DEF Dispatch, EventsOK
  <2>7. ModeOK' BY <1>7, <2>1 DEF NemesisStep, Dispatch, Pop, ModeOK
  <2>8. RecordsOK' BY <1>7, Frames DEF NemesisStep
  <2> QED BY <2>5, <2>6, <2>7, <2>8
<1>8. ASSUME NEW e \in queue, RestartStep(e) PROVE TypeOK'
  <2>1. e.kind = "nemesis" /\ e.action.kind = "restart" /\ Dispatch(e) BY <1>8 DEF RestartStep
  <2>2. /\ e \in EventType /\ e.time \in Nat /\ now' \in Nat
        /\ queue \ {e} \in SUBSET EventType
    BY <2>1, PopType DEF Dispatch
  <2>3. e.action \in ActionType BY <2>1, <2>2 DEF EventType
  <2>4. e.action.node \in Node BY <2>1, <2>3 DEF ActionType
  <2>5. /\ RestartNode(e.action.node, queue \ {e}, e.time)
        /\ UNCHANGED <<joins, nodes, conn, skew, epoch, lastLocal, faults>>
    BY <1>8 DEF RestartStep
  <2>6. queue' \in SUBSET EventType /\ seq' \in Nat /\ TasksOK' /\ ClusterOK'
    BY <2>2, <2>4, <2>5, RestartNodeType
  <2>7. EventsOK' BY <2>1, <2>2, <2>6 DEF Dispatch, EventsOK
  <2>8. ModeOK' BY <1>8, <2>1 DEF RestartStep, Dispatch, Pop, ModeOK
  <2>9. MailOK' /\ TimersOK' /\ RecordsOK' BY <1>8, Frames DEF RestartStep
  <2> QED BY <2>6, <2>7, <2>8, <2>9
<1>9. ASSUME NEW e \in queue, SkipPoll(e) PROVE TypeOK'
  <2>1. EventsOK' BY <1>9, PopType DEF SkipPoll, Skip, EventsOK
  <2>2. /\ DOMAIN tasks' = DOMAIN tasks
        /\ \A t \in DOMAIN tasks : tasks'[t] \in {tasks[t], [tasks[t] EXCEPT !.held = FALSE]}
    BY <1>9 DEF SkipPoll
  <2>3. \A t \in DOMAIN tasks : [tasks[t] EXCEPT !.held = FALSE] \in SlotType
    BY DEF TasksOK, SlotType
  <2>4. TasksOK' BY <1>9, <2>2, <2>3 DEF SkipPoll, TasksOK
  <2>5. ModeOK' BY <1>9, <2>2 DEF SkipPoll, ModeOK
  <2>6. ClusterOK' /\ MailOK' /\ TimersOK' /\ RecordsOK' BY <1>9, Frames DEF SkipPoll
  <2> QED BY <2>1, <2>4, <2>5, <2>6
<1>10. ASSUME NEW e \in queue, PollTask(e) PROVE TypeOK'
  <2>1. EventsOK' BY <1>10, PopType DEF PollTask, Dispatch, EventsOK
  <2>2. tasks' = [tasks EXCEPT ![e.task].held = FALSE] /\ e.task \in DOMAIN tasks
    BY <1>10 DEF PollTask
  <2>3. TasksOK'
    <3>1. nextTask' = nextTask /\ joins' = joins BY <1>10 DEF PollTask
    <3>2. /\ DOMAIN tasks' = DOMAIN tasks
          /\ \A t \in DOMAIN tasks : tasks'[t] \in {tasks[t], [tasks[t] EXCEPT !.held = FALSE]}
      BY <2>2
    <3>3. \A t \in DOMAIN tasks : [tasks[t] EXCEPT !.held = FALSE] \in SlotType
      BY DEF TasksOK, SlotType
    <3> QED BY <3>1, <3>2, <3>3 DEF TasksOK
  <2>4. ModeOK' BY <1>10, <2>2 DEF PollTask, ModeOK
  <2>5. ClusterOK' /\ MailOK' /\ TimersOK' /\ RecordsOK' BY <1>10, Frames DEF PollTask
  <2> QED BY <2>1, <2>3, <2>4, <2>5
<1> QED BY <1>1, <1>2, <1>3, <1>4, <1>5, <1>6, <1>7, <1>8, <1>9, <1>10 DEF Loop

\* The current task, its node and the future it awaits.
LEMMA MeType ==
  ASSUME TypeOK, mode \in {"run", "poll"}
  PROVE  /\ current \in DOMAIN tasks /\ current \in Nat /\ current < nextTask
         /\ Me \in SlotType /\ Me.node \in Node /\ Await \in AwaitType
         /\ (Await.dur # None => Deadline \in Nat)
<1>1. current \in DOMAIN tasks BY DEF TypeOK, ModeOK
<1>2. nextTask \in Nat /\ DOMAIN tasks \subseteq 0 .. nextTask - 1 /\ Me \in SlotType
  BY <1>1 DEF TypeOK, TasksOK, Me
<1>3. current \in Nat /\ current < nextTask BY <1>1, <1>2
<1>4. Me.node \in Node /\ Await \in AwaitType BY <1>2 DEF SlotType, Await
<1>5. ASSUME Await.dur # None PROVE Deadline \in Nat
  <2>1. LocalNow(Me.node) \in Nat BY <1>4, ClockType DEF TypeOK
  <2>2. Await.dur \in Nat /\ Await.deadline \in Nat \union {None} BY <1>4, <1>5 DEF AwaitType
  <2> QED BY <2>1, <2>2 DEF Deadline
<1> QED BY <1>1, <1>2, <1>3, <1>4, <1>5

\* Reading a node's clock records the reading.
LEMMA ReadClockType ==
  ASSUME EventsOK, ClusterOK, NEW n \in Node, ReadClock(n)
  PROVE  lastLocal' \in [Node -> Nat]
<1>1. LocalNow(n) \in Nat BY ClockType
<1> QED BY <1>1 DEF ReadClock, ClusterOK

\* Polling a handle before its output is there.
LEMMA JoinAwaitedType ==
  ASSUME TasksOK, current \in Nat, JoinAwaited
  PROVE  /\ DOMAIN joins' \subseteq 0 .. nextTask - 1
         /\ \A c \in DOMAIN joins' : joins'[c] \in JoinType
<1>1. joins' = [joins EXCEPT ![Await.child].joiner = current] BY DEF JoinAwaited
<1> HIDE DEF Await
<1> QED BY <1>1 DEF TasksOK, JoinType

\* The end of an await, which changes nothing but tasks and timers of these.
LEMMA ResumeType ==
  ASSUME TypeOK, Resume
  PROVE  /\ EventsOK' /\ ModeOK' /\ TimersOK' /\ RecordsOK'
         /\ DOMAIN tasks' \subseteq 0 .. nextTask' - 1 /\ nextTask' \in Nat
         /\ \A t \in DOMAIN tasks' : tasks'[t] \in SlotType
<1>1. EventsOK' /\ RecordsOK' BY Frames DEF Resume
<1>2. current \in DOMAIN tasks BY DEF TypeOK, ModeOK, Resume
<1>3. tasks' = [tasks EXCEPT ![current].await = NoAwait] /\ nextTask' = nextTask
  BY DEF Resume
<1>4. NoAwait \in AwaitType BY DEF NoAwait, AwaitType, None
<1>5. /\ DOMAIN tasks' \subseteq 0 .. nextTask' - 1 /\ nextTask' \in Nat
      /\ \A t \in DOMAIN tasks' : tasks'[t] \in SlotType
  BY <1>2, <1>3, <1>4 DEF TypeOK, TasksOK, SlotType
<1>6. ModeOK' BY <1>2, <1>3 DEF Resume, ModeOK
<1>7. TimersOK'
  <2>1. PICK S : timers' = Without(timers, S) /\ nextTimer' = nextTimer BY DEF Resume
  <2> QED BY <2>1 DEF Without, TypeOK, TimersOK
<1> QED BY <1>1, <1>5, <1>6, <1>7

\* The steps of a task that polls what it awaits.
LEMMA PollingType ==
  ASSUME TypeOK, TakeMessage \/ TakeOutput \/ TimeUp \/ Park
  PROVE  TypeOK'
<1> USE DEF TypeOK
<1>0. mode \in {"run", "poll"} BY DEF TakeMessage, TakeOutput, TimeUp, Park, Resume
<1>1. /\ current \in DOMAIN tasks /\ current \in Nat /\ current < nextTask
      /\ Me \in SlotType /\ Me.node \in Node /\ Await \in AwaitType
      /\ (Await.dur # None => Deadline \in Nat)
  BY <1>0, MeType
<1>2. /\ inbox[Me.node] \in Seq([from : Node, msg : Nat])
      /\ Unregister(waiters[Me.node], current) \in Seq(Nat)
      /\ Register(waiters[Me.node], current) \in Seq(Nat)
  <2>1. inbox[Me.node] \in Seq([from : Node, msg : Nat]) /\ waiters[Me.node] \in Seq(Nat)
    BY <1>1 DEF MailOK
  <2> QED BY <1>1, <2>1, WaiterLists
<1>3. ASSUME TakeMessage PROVE TypeOK'
  <2>1. Resume /\ inbox[Me.node] # <<>> BY <1>3 DEF TakeMessage, InnerReady
  <2>2. MailOK'
    <3>1. Tail(inbox[Me.node]) \in Seq([from : Node, msg : Nat])
      BY <1>2, <2>1, HeadTailProperties
    <3>2. /\ inbox' = [inbox EXCEPT ![Me.node] = Tail(@)]
          /\ waiters' = [waiters EXCEPT ![Me.node] = Unregister(@, current)]
      BY <1>3 DEF TakeMessage
    <3> QED BY <1>1, <1>2, <3>1, <3>2 DEF MailOK
  <2>3. TasksOK' BY <1>3, <2>1, ResumeType DEF TakeMessage, Resume, TasksOK
  <2>4. ClusterOK' BY <1>3, <2>1, Frames DEF TakeMessage, Resume
  <2> QED BY <2>1, <2>2, <2>3, <2>4, ResumeType
<1>4. ASSUME TakeOutput PROVE TypeOK'
  <2>1. Resume BY <1>4 DEF TakeOutput
  <2>2. TasksOK'
    <3>1. PICK S : joins' = Without(joins, S) BY <1>4 DEF TakeOutput
    <3>2. nextTask' = nextTask BY <2>1 DEF Resume
    <3> QED BY <2>1, <3>1, <3>2, ResumeType DEF Without, TasksOK
  <2>3. ClusterOK' /\ MailOK' BY <1>4, <2>1, Frames DEF TakeOutput, Resume
  <2> QED BY <2>1, <2>2, <2>3, ResumeType
<1>5. ASSUME TimeUp PROVE TypeOK'
  <2>1. Resume /\ ReadClock(Me.node) BY <1>5 DEF TimeUp
  <2>2. TasksOK'
    <3>1. /\ DOMAIN joins' \subseteq 0 .. nextTask - 1
          /\ \A c \in DOMAIN joins' : joins'[c] \in JoinType
      <4>1. CASE UNCHANGED joins BY <4>1 DEF TasksOK
      <4>2. CASE JoinAwaited BY <1>1, <4>2, JoinAwaitedType
      <4>3. CASE joins' = Without(joins, {Await.child}) BY <4>3 DEF Without, TasksOK
      <4> QED BY <1>5, <4>1, <4>2, <4>3 DEF TimeUp
    <3>2. nextTask' = nextTask BY <2>1 DEF Resume
    <3> QED BY <2>1, <3>1, <3>2, ResumeType DEF TasksOK
  <2>3. ClusterOK'
    <3>1. lastLocal' \in [Node -> Nat] BY <1>1, <2>1, ReadClockType
    <3> QED BY <2>1, <3>1 DEF Resume, ClusterOK, clusterVars
  <2>4. MailOK'
    <3>1. /\ waiters' = [waiters EXCEPT ![Me.node] = Unregister(@, current)]
          /\ inbox' = inbox
      BY <1>5 DEF TimeUp
    <3> QED BY <1>1, <1>2, <3>1 DEF MailOK
  <2> QED BY <2>1, <2>2, <2>3, <2>4, ResumeType
<1>6. ASSUME Park PROVE TypeOK'
  <2>1. TimersOK' /\ EventsOK'
    <3>1. CASE Rearms
      <4>1. GlobalDeadline(Me.node, Deadline) \in Nat
        BY <1>1, <3>1, ClockType DEF Rearms
      <4>2. TimerEvent(GlobalDeadline(Me.node, Deadline), seq, nextTimer) \in EventType
        BY <4>1 DEF TimerEvent, EventType, EventsOK, TimersOK
      <4>3. /\ timers' = [i \in DOMAIN timers \union {nextTimer} |->
                            IF i = nextTimer THEN current ELSE timers[i]]
            /\ nextTimer' = nextTimer + 1
            /\ Push(queue, TimerEvent(GlobalDeadline(Me.node, Deadline), seq, nextTimer))
            /\ UNCHANGED <<now, dispatched>>
        BY <1>6, <3>1 DEF Park
      <4>4. TimersOK' BY <1>1, <4>3 DEF TimersOK
      <4>5. EventsOK' BY <4>2, <4>3 DEF Push, EventsOK
      <4> QED BY <4>4, <4>5
    <3>2. CASE ~Rearms
      <4>1. UNCHANGED <<timerVars, queue, seq>> /\ UNCHANGED <<now, dispatched>>
        BY <1>6, <3>2 DEF Park
      <4> QED BY <4>1, Frames DEF eventVars
    <3> QED BY <3>1, <3>2
  <2>2. TasksOK'
    <3>1. /\ DOMAIN joins' \subseteq 0 .. nextTask - 1
          /\ \A c \in DOMAIN joins' : joins'[c] \in JoinType
      <4>1. CASE UNCHANGED joins BY <4>1 DEF TasksOK
      <4>2. CASE JoinAwaited BY <1>1, <4>2, JoinAwaitedType
      <4> QED BY <1>6, <4>1, <4>2 DEF Park
    <3>2. PICK dl \in Nat \union {None}, ti \in Nat \union {None} :
            tasks' = [tasks EXCEPT ![current] =
                        [@ EXCEPT !.held = TRUE, !.await.deadline = dl, !.await.timer = ti]]
      <4> DEFINE dl == IF Await.dur = None THEN None ELSE Deadline
                 ti == IF Rearms THEN nextTimer ELSE Await.timer
      <4>1. dl \in Nat \union {None} BY <1>1
      <4>2. ti \in Nat \union {None} BY <1>1 DEF AwaitType, Await, TimersOK
      <4>3. tasks' = [tasks EXCEPT ![current] =
                        [@ EXCEPT !.held = TRUE, !.await.deadline = dl, !.await.timer = ti]]
        BY <1>6 DEF Park
      <4> QED BY <4>1, <4>2, <4>3
    <3>3. nextTask' = nextTask BY <1>6 DEF Park
    <3>4. [tasks[current] EXCEPT !.held = TRUE, !.await.deadline = dl, !.await.timer = ti]
            \in SlotType
      BY <1>1 DEF SlotType, AwaitType, Me
    <3> QED BY <1>1, <3>1, <3>2, <3>3, <3>4 DEF TasksOK
  <2>3. ClusterOK'
    <3>1. lastLocal' \in [Node -> Nat]
      <4>1. CASE ReadClock(Me.node) BY <1>1, <4>1, ReadClockType
      <4>2. CASE UNCHANGED lastLocal BY <4>2 DEF ClusterOK
      <4> QED BY <1>6, <4>1, <4>2 DEF Park
    <3> QED BY <1>6, <3>1 DEF Park, ClusterOK, clusterVars
  <2>4. MailOK'
    <3>1. /\ inbox' = inbox
          /\ \/ waiters' = [waiters EXCEPT ![Me.node] = Register(@, current)]
             \/ UNCHANGED waiters
      BY <1>6 DEF Park
    <3> QED BY <1>1, <1>2, <3>1 DEF MailOK
  <2>5. ModeOK' BY <1>6 DEF Park, ModeOK
  <2>6. RecordsOK' BY <1>6, Frames DEF Park
  <2> QED BY <2>1, <2>2, <2>3, <2>4, <2>5, <2>6
<1> QED BY <1>3, <1>4, <1>5, <1>6

\* What a task awaits is one of the futures of the runtime.
LEMMA StartAwaitType ==
  ASSUME TypeOK, NEW a \in AwaitType, StartAwait(a)
  PROVE  TypeOK'
<1> USE DEF TypeOK
<1>1. current \in DOMAIN tasks BY DEF StartAwait, ModeOK
<1>2. tasks' = [tasks EXCEPT ![current].await = a] /\ UNCHANGED <<nextTask, joins>>
  BY DEF StartAwait
<1>3. TasksOK' BY <1>1, <1>2 DEF TasksOK, SlotType
<1>4. ModeOK' BY <1>1, <1>2 DEF StartAwait, ModeOK
<1>5. EventsOK' /\ ClusterOK' /\ MailOK' /\ TimersOK' BY Frames DEF StartAwait
<1>6. RecordsOK' BY DEF StartAwait, RecordsOK
<1> QED BY <1>3, <1>4, <1>5, <1>6

\* The steps of a task between two awaits.
LEMMA RunningType ==
  ASSUME TypeOK, mode = "run"
  PROVE  /\ ReadNow => TypeOK'
         /\ \A to \in Node : Send(to) => TypeOK'
         /\ Spawn => TypeOK'
         /\ \A d \in Durations \union {None} : AwaitRecv(d) => TypeOK'
         /\ \A d \in Durations : AwaitSleep(d) => TypeOK'
         /\ \A c \in DOMAIN joins, d \in Durations \union {None}, keep \in BOOLEAN :
              AwaitJoin(c, d, keep) => TypeOK'
         /\ Finish => TypeOK'
<1> USE DEF TypeOK
<1>0. /\ current \in DOMAIN tasks /\ current \in Nat /\ current < nextTask
      /\ Me \in SlotType /\ Me.node \in Node
  BY MeType
<1>1. ASSUME ReadNow PROVE TypeOK'
  <2>1. ClusterOK'
    <3>1. lastLocal' \in [Node -> Nat] BY <1>0, <1>1, ReadClockType DEF ReadNow
    <3> QED BY <1>1, <3>1 DEF ReadNow, ClusterOK, clusterVars
  <2>2. EventsOK' /\ TasksOK' /\ ModeOK' /\ MailOK' /\ TimersOK' /\ RecordsOK'
    BY <1>1, Frames DEF ReadNow
  <2> QED BY <2>1, <2>2
<1>2. ASSUME NEW to \in Node, Send(to) PROVE TypeOK'
  <2>1. RecordsOK'
    <3> DEFINE r == [from |-> Me.node, to |-> to,
                     fromEpoch |-> epoch[Me.node], toEpoch |-> epoch[to]]
    <3>1. r \in [from : Node, to : Node, fromEpoch : Nat, toEpoch : Nat] BY <1>0 DEF ClusterOK
    <3>2. sent \in Seq([from : Node, to : Node, fromEpoch : Nat, toEpoch : Nat]) BY DEF RecordsOK
    <3>3. Append(sent, r) \in Seq([from : Node, to : Node, fromEpoch : Nat, toEpoch : Nat])
      BY <3>1, <3>2, AppendProperties
    <3>4. sent' = Append(sent, r) /\ UNCHANGED <<report, boundVars>> BY <1>2 DEF Send
    <3> HIDE DEF r
    <3> QED BY <3>3, <3>4 DEF RecordsOK, boundVars
  <2>2. Len(sent') \in Nat BY <2>1, LenProperties DEF RecordsOK
  <2>3. \A at, s \in Nat : MsgEvent(at, s, Me.node, to, Len(sent')) \in EventType
    BY <1>0, <2>2 DEF MsgEvent, EventType
  <2>4. EventsOK'
    <3>1. PICK d \in 1 .. NetDelay + faults.extra :
            \/ Push(queue, MsgEvent(now + d, seq, Me.node, to, Len(sent')))
            \/ /\ \E x \in 1 .. DuplicateGap :
                   queue' = queue \union {MsgEvent(now + d, seq, Me.node, to, Len(sent')),
                                          MsgEvent(now + d + x, seq + 1, Me.node, to, Len(sent'))}
               /\ seq' = seq + 2
      BY <1>2 DEF Send
    <3>2. d \in Nat /\ now \in Nat /\ seq \in Nat /\ queue \in SUBSET EventType
      BY DEF EventsOK
    <3>3. UNCHANGED <<now, dispatched>> BY <1>2 DEF Send
    <3>4. \A x \in 1 .. DuplicateGap : now + d + x \in Nat BY <3>2
    <3>5. queue' \in SUBSET EventType /\ seq' \in Nat
      BY <2>3, <3>1, <3>2, <3>4 DEF Push
    <3> QED BY <3>3, <3>5 DEF EventsOK
  <2>5. TasksOK' /\ ModeOK' /\ ClusterOK' /\ MailOK' /\ TimersOK' BY <1>2, Frames DEF Send
  <2> QED BY <2>1, <2>4, <2>5
<1>3. ASSUME Spawn PROVE TypeOK'
  <2>1. AddTask(Me.node) BY <1>3 DEF Spawn
  <2>2. PollEvent(now, seq, nextTask) \in EventType
    BY DEF PollEvent, EventType, EventsOK, TasksOK
  <2>3. EventsOK' BY <1>3, <2>2 DEF Spawn, Push, EventsOK
  <2>4. TasksOK'
    <3>1. [owner |-> current, done |-> FALSE, joiner |-> None] \in JoinType
      BY <1>0 DEF JoinType
    <3>2. joins' = [c \in DOMAIN joins \union {nextTask} |->
                     IF c = nextTask THEN [owner |-> current, done |-> FALSE, joiner |-> None]
                                     ELSE joins[c]]
      BY <1>3 DEF Spawn
    <3>3. \A c \in DOMAIN joins' : joins'[c] \in JoinType BY <3>1, <3>2 DEF TasksOK
    <3>4. nextTask' = nextTask + 1 /\ nextTask \in Nat BY <2>1 DEF AddTask, TasksOK
    <3>5. DOMAIN joins' \subseteq 0 .. nextTask' - 1 BY <3>2, <3>4 DEF TasksOK
    <3> QED BY <1>0, <2>1, <3>3, <3>4, <3>5, AddTaskType DEF TasksOK
  <2>5. ModeOK' BY <1>0, <1>3, <2>1, AddTaskType DEF Spawn, ModeOK
  <2>6. ClusterOK' /\ MailOK' /\ TimersOK' /\ RecordsOK' BY <1>3, Frames DEF Spawn
  <2> QED BY <2>3, <2>4, <2>5, <2>6
<1>4. ASSUME NEW d \in Durations \union {None}, AwaitRecv(d) PROVE TypeOK'
  <2>1. [NoAwait EXCEPT !.inner = "recv", !.dur = d] \in AwaitType
    BY ConstantsOK DEF NoAwait, AwaitType, None
  <2> QED BY <1>4, <2>1, StartAwaitType DEF AwaitRecv
<1>5. ASSUME NEW d \in Durations, AwaitSleep(d) PROVE TypeOK'
  <2>1. [NoAwait EXCEPT !.dur = d] \in AwaitType BY ConstantsOK DEF NoAwait, AwaitType, None
  <2> QED BY <1>5, <2>1, StartAwaitType DEF AwaitSleep
<1>6. ASSUME NEW c \in DOMAIN joins, NEW d \in Durations \union {None}, NEW keep \in BOOLEAN,
             AwaitJoin(c, d, keep)
      PROVE  TypeOK'
  <2>1. c \in Nat BY DEF TasksOK
  <2>2. [NoAwait EXCEPT !.inner = "join", !.child = c, !.dur = d, !.keep = keep] \in AwaitType
    BY <2>1, ConstantsOK DEF NoAwait, AwaitType, None
  <2> QED BY <1>6, <2>2, StartAwaitType DEF AwaitJoin
<1>7. ASSUME Finish PROVE TypeOK'
  <2>1. JoinersOf(current) \in Seq(Nat) BY DEF JoinersOf, TasksOK, JoinType, None
  <2>2. EventsOK'
    <3>1. queue' \in SUBSET EventType /\ seq' \in Nat
      BY <1>7, <2>1, PollAllType DEF Finish, EventsOK
    <3> QED BY <1>7, <3>1 DEF Finish, EventsOK
  <2>3. TasksOK'
    <3>1. \A c \in DOMAIN joins : [joins[c] EXCEPT !.done = TRUE, !.joiner = None] \in JoinType
      BY DEF TasksOK, JoinType
    <3>2. joins' = Finished(current) BY <1>7 DEF Finish
    <3>3. /\ DOMAIN joins' \subseteq 0 .. nextTask - 1
          /\ \A c \in DOMAIN joins' : joins'[c] \in JoinType
      BY <3>1, <3>2 DEF Finished, TasksOK
    <3>4. tasks' = Without(tasks, {current}) /\ nextTask' = nextTask BY <1>7 DEF Finish
    <3> QED BY <3>3, <3>4 DEF Without, TasksOK
  <2>4. ModeOK' BY <1>7 DEF Finish, ModeOK
  <2>5. ClusterOK' /\ MailOK' /\ TimersOK' /\ RecordsOK' BY <1>7, Frames DEF Finish
  <2> QED BY <2>2, <2>3, <2>4, <2>5
<1> QED BY <1>1, <1>2, <1>3, <1>4, <1>5, <1>6, <1>7

\* The first state has the types.
LEMMA InitType == Init => TypeOK
<1> SUFFICES ASSUME Init PROVE TypeOK OBVIOUS
<1> USE DEF Init
<1>1. EventsOK BY DEF EventsOK
<1>2. ModeOK /\ TasksOK BY DEF ModeOK, TasksOK, EmptyMap
<1>3. ClusterOK BY DEF ClusterOK, EmptyMatrix, Matrix
<1>4. MailOK BY DEF MailOK
<1>5. TimersOK BY DEF TimersOK, EmptyMap
<1>6. RecordsOK BY DEF RecordsOK
<1> QED BY <1>1, <1>2, <1>3, <1>4, <1>5, <1>6 DEF TypeOK

\* Every step, and every stuttering step, keeps the types.
LEMMA StepType == TypeOK /\ [Next]_vars => TypeOK'
<1> SUFFICES ASSUME TypeOK, [Next]_vars PROVE TypeOK' OBVIOUS
<1>1. CASE Driver BY <1>1, DriverType
<1>2. CASE Loop BY <1>2, LoopType
<1>3. CASE TakeMessage \/ TakeOutput \/ TimeUp \/ Park BY <1>3, PollingType
<1>4. CASE Task /\ ~(TakeMessage \/ TakeOutput \/ TimeUp \/ Park)
  <2>1. mode = "run"
    BY <1>4 DEF Task, ReadNow, Send, Spawn, AwaitRecv, AwaitSleep, AwaitJoin, StartAwait, Finish
  <2>2. \A d \in Durations \union {None} : {FALSE, d # None} \subseteq BOOLEAN OBVIOUS
  <2> QED BY <1>4, <2>1, <2>2, RunningType DEF Task
<1>5. CASE UNCHANGED vars
  BY <1>5, Frames DEF TypeOK, vars
<1> QED BY <1>1, <1>2, <1>3, <1>4, <1>5 DEF Next

\* Inner stays well formed: ids are fresh, maps and queues hold what they should,
\* only existing tasks run, only added nodes are crashed.
THEOREM TypeCorrect == Spec => []TypeOK
BY InitType, StepType, PTL DEF Spec

-----------------------------------------------------------------------------
(* The event order *)

\* The order survives a step that keeps some events, none behind the clock, and
\* queues new ones at the end of the insertion order.
LEMMA OrderExtends ==
  ASSUME TypeOK, TotalOrder, NEW Kept \in SUBSET queue, NEW Added,
         queue' \subseteq Kept \union Added, seq <= seq', seq' \in Nat,
         \A e \in Kept : now' <= e.time,
         \A e \in Added : now' <= e.time /\ e.seq \in Nat /\ seq <= e.seq /\ e.seq < seq',
         \A e, f \in Added : e.seq = f.seq => e = f
  PROVE  TotalOrder'
<1>1. \A e \in queue : e.seq \in Nat /\ e.seq < seq BY DEF TypeOK, EventsOK, EventType, TotalOrder
<1>2. seq \in Nat BY DEF TypeOK, EventsOK
<1>3. \A e \in queue' : now' <= e.time /\ e.seq < seq' BY <1>1, <1>2
<1>4. ASSUME NEW e \in queue', NEW f \in queue', e.seq = f.seq PROVE e = f
  <2>1. CASE e \in Kept /\ f \in Kept BY <1>4, <2>1 DEF TotalOrder
  <2>2. CASE e \in Added /\ f \in Added BY <1>4, <2>2
  <2>3. CASE (e \in Kept /\ f \in Added) \/ (e \in Added /\ f \in Kept)
    BY <1>1, <1>2, <1>4, <2>3
  <2> QED BY <2>1, <2>2, <2>3
<1> QED BY <1>3, <1>4 DEF TotalOrder

\* One event pushed, or none.
LEMMA OrderPush ==
  ASSUME TypeOK, TotalOrder, NEW Kept \in SUBSET queue, \A e \in Kept : now' <= e.time,
         \/ queue' \subseteq Kept /\ seq' = seq
         \/ \E e : Push(Kept, e) /\ e.seq = seq /\ now' <= e.time
  PROVE  TotalOrder'
<1>1. seq \in Nat BY DEF TypeOK, EventsOK
<1>2. CASE queue' \subseteq Kept /\ seq' = seq
  <2> DEFINE Added == {}
  <2>1. /\ queue' \subseteq Kept \union Added /\ seq <= seq' /\ seq' \in Nat
        /\ \A e \in Added : now' <= e.time /\ e.seq \in Nat /\ seq <= e.seq /\ e.seq < seq'
        /\ \A e, f \in Added : e.seq = f.seq => e = f
    BY <1>1, <1>2
  <2> HIDE DEF Added
  <2> QED BY <2>1, OrderExtends
<1>3. ASSUME NEW e, Push(Kept, e), e.seq = seq, now' <= e.time PROVE TotalOrder'
  <2> DEFINE Added == {e}
  <2>1. queue' = Kept \union {e} /\ seq' = seq + 1 BY <1>3 DEF Push
  <2>2. /\ queue' \subseteq Kept \union Added /\ seq <= seq' /\ seq' \in Nat
        /\ \A f \in Added : now' <= f.time /\ f.seq \in Nat /\ seq <= f.seq /\ f.seq < seq'
        /\ \A f, g \in Added : f.seq = g.seq => f = g
    BY <1>1, <1>3, <2>1
  <2> HIDE DEF Added
  <2> QED BY <2>2, OrderExtends
<1> QED BY <1>2, <1>3

\* The polls of several tasks pushed.
LEMMA OrderPollAll ==
  ASSUME TypeOK, TotalOrder, NEW Kept \in SUBSET queue, \A e \in Kept : now' <= e.time,
         NEW at \in Nat, now' <= at, NEW ts \in Seq(Nat), PollAll(Kept, at, ts)
  PROVE  TotalOrder'
<1> DEFINE Added == {PollEvent(at, seq + i - 1, ts[i]) : i \in DOMAIN ts}
<1>1. seq \in Nat /\ Len(ts) \in Nat /\ DOMAIN ts = 1 .. Len(ts)
  BY LenProperties DEF TypeOK, EventsOK
<1>2. queue' = Kept \union Added /\ seq' = seq + Len(ts) BY DEF PollAll
<1>3. \A e \in Added : now' <= e.time /\ e.seq \in Nat /\ seq <= e.seq /\ e.seq < seq'
  BY <1>1, <1>2 DEF PollEvent
<1>4. \A e, f \in Added : e.seq = f.seq => e = f
  BY <1>1 DEF PollEvent
<1> HIDE DEF Added
<1>5. queue' \subseteq Kept \union Added /\ seq <= seq' /\ seq' \in Nat
  BY <1>1, <1>2
<1> QED BY <1>3, <1>4, <1>5, OrderExtends

\* The popped event is the earliest: the clock does not go back, and nothing that
\* stays is behind it.
LEMMA PopOrder ==
  ASSUME TypeOK, TotalOrder, NEW e \in queue, Pop(e)
  PROVE  /\ now <= now' /\ now' = e.time /\ now' \in Nat
         /\ \A f \in queue : now' <= f.time
<1>1. now' = e.time /\ IsFirst(e) BY DEF Pop
<1>2. \A f \in queue : f.time \in Nat BY DEF TypeOK, EventsOK, EventType
<1>3. \A f \in queue : e.time <= f.time BY <1>1, <1>2 DEF IsFirst, Before
<1> QED BY <1>1, <1>2, <1>3 DEF TotalOrder

\* A nemesis action queues nothing; a restart queues one poll.
LEMMA NemesisQueue ==
  ASSUME NEW a, NEW q, ApplyNemesis(a, q)
  PROVE  queue' \subseteq q /\ seq' = seq
BY DEF ApplyNemesis, CrashNode

LEMMA RestartQueue ==
  ASSUME NEW n, NEW q, NEW at, RestartNode(n, q, at)
  PROVE  \/ queue' \subseteq q /\ seq' = seq
         \/ \E e : Push(q, e) /\ e.seq = seq /\ e.time = at
<1>1. CASE n \in nodes \intersect crashed
  <2>1. Push(q, PollEvent(at, seq, nextTask)) BY <1>1 DEF RestartNode
  <2>2. /\ PollEvent(at, seq, nextTask).seq = seq /\ PollEvent(at, seq, nextTask).time = at
    BY DEF PollEvent
  <2> QED BY <2>1, <2>2
<1>2. CASE n \notin nodes \intersect crashed BY <1>2 DEF RestartNode
<1> QED BY <1>1, <1>2

\* The driver queues at the current instant or, for nemesis actions, later.
LEMMA DriverOrder ==
  ASSUME TypeOK, TotalOrder, ~PastAllowed, Driver
  PROVE  TotalOrder' /\ now' = now
<1>1. now \in Nat /\ \A e \in queue : now <= e.time BY DEF TypeOK, EventsOK, TotalOrder
<1>2. ASSUME NEW n \in Node, AddNode(n) \/ SpawnFromOutside(n) PROVE TotalOrder' /\ now' = now
  <2>1. Push(queue, PollEvent(now, seq, nextTask)) /\ now' = now
    BY <1>2 DEF AddNode, SpawnFromOutside
  <2>2. PollEvent(now, seq, nextTask).seq = seq /\ now' <= PollEvent(now, seq, nextTask).time
    BY <1>1, <2>1 DEF PollEvent
  <2> QED BY <1>1, <2>1, <2>2, OrderPush
<1>3. ASSUME NEW at \in Times, NEW a \in Actions, ScheduleNemesis(at, a)
      PROVE  TotalOrder' /\ now' = now
  <2>1. Push(queue, NemesisEvent(at, seq, a)) /\ now' = now /\ now <= at
    BY <1>1, <1>3, ConstantsOK DEF ScheduleNemesis
  <2>2. NemesisEvent(at, seq, a).seq = seq /\ now' <= NemesisEvent(at, seq, a).time
    BY <2>1 DEF NemesisEvent
  <2> QED BY <1>1, <2>1, <2>2, OrderPush
<1>4. ASSUME NEW a \in Actions, ApplyNow(a) \/ RestartNow(a) PROVE TotalOrder' /\ now' = now
  <2>1. now' = now BY <1>4 DEF ApplyNow, RestartNow
  <2>2. CASE ApplyNow(a)
    <3>1. queue' \subseteq queue /\ seq' = seq BY <2>2, NemesisQueue DEF ApplyNow
    <3> QED BY <1>1, <2>1, <3>1, OrderPush
  <2>3. CASE RestartNow(a)
    <3>1. \/ queue' \subseteq queue /\ seq' = seq
          \/ \E e : Push(queue, e) /\ e.seq = seq /\ e.time = now
      BY <2>3, RestartQueue DEF RestartNow
    <3>2. \/ queue' \subseteq queue /\ seq' = seq
          \/ \E e : Push(queue, e) /\ e.seq = seq /\ now' <= e.time
      BY <1>1, <2>1, <3>1
    <3> QED BY <1>1, <2>1, <3>2, OrderPush
  <2> QED BY <1>4, <2>2, <2>3, <2>1
<1>5. ASSUME SetFaults \/ Run PROVE TotalOrder' /\ now' = now
  <2>1. UNCHANGED eventVars BY <1>5 DEF SetFaults, Run
  <2> QED BY <2>1 DEF eventVars, TotalOrder
<1> QED BY <1>2, <1>3, <1>4, <1>5 DEF Driver

\* The loop pops the earliest event and queues at its instant.
LEMMA LoopOrder ==
  ASSUME TypeOK, TotalOrder, Loop
  PROVE  TotalOrder' /\ now <= now'
<1>0. now \in Nat /\ seq \in Nat BY DEF TypeOK, EventsOK
<1>1. CASE Quiesce BY <1>0, <1>1 DEF Quiesce, TotalOrder
<1>2. ASSUME NEW e \in queue, Pop(e),
             \/ queue' \subseteq queue \ {e} /\ seq' = seq
             \/ \E f : Push(queue \ {e}, f) /\ f.seq = seq /\ f.time = e.time
      PROVE  TotalOrder' /\ now <= now'
  <2>1. now <= now' /\ now' \in Nat /\ now' = e.time /\ \A f \in queue : now' <= f.time
    BY <1>2, PopOrder
  <2>2. \/ queue' \subseteq queue \ {e} /\ seq' = seq
        \/ \E f : Push(queue \ {e}, f) /\ f.seq = seq /\ now' <= f.time
    BY <1>2, <2>1
  <2>3. queue \ {e} \in SUBSET queue OBVIOUS
  <2> QED BY <2>1, <2>2, <2>3, OrderPush
<1>3. ASSUME NEW e \in queue,
             Abort(e) \/ SkipTimer(e) \/ DropMsg(e) \/ SkipPoll(e) \/ PollTask(e)
      PROVE  TotalOrder' /\ now <= now'
  <2>1. Pop(e) /\ queue' = queue \ {e} /\ seq' = seq
    BY <1>3 DEF Abort, SkipTimer, DropMsg, SkipPoll, PollTask, Skip, Dispatch
  <2> QED BY <1>2, <2>1
<1>4. ASSUME NEW e \in queue, FireTimer(e) PROVE TotalOrder' /\ now <= now'
  <2> DEFINE p == PollEvent(e.time, seq, timers[e.timer])
  <2>1. Pop(e) /\ Push(queue \ {e}, p) BY <1>4 DEF FireTimer, Dispatch
  <2>2. p.seq = seq /\ p.time = e.time BY DEF PollEvent
  <2> QED BY <1>2, <2>1, <2>2
<1>5. ASSUME NEW e \in queue, DeliverMsg(e) PROVE TotalOrder' /\ now <= now'
  <2>1. Pop(e) /\ PollAll(queue \ {e}, e.time, waiters[e.to]) /\ e.kind = "msg"
    BY <1>5 DEF DeliverMsg, Dispatch, Awakened
  <2>2. now <= now' /\ now' \in Nat /\ now' = e.time /\ \A f \in queue : now' <= f.time
    BY <2>1, PopOrder
  <2>3. waiters[e.to] \in Seq(Nat)
    <3>1. e.to \in Node BY <2>1 DEF TypeOK, EventsOK, EventType
    <3> QED BY <3>1 DEF TypeOK, MailOK
  <2>4. queue \ {e} \in SUBSET queue OBVIOUS
  <2> QED BY <2>1, <2>2, <2>3, <2>4, OrderPollAll
<1>6. ASSUME NEW e \in queue, NemesisStep(e) PROVE TotalOrder' /\ now <= now'
  <2>1. Pop(e) /\ ApplyNemesis(e.action, queue \ {e}) BY <1>6 DEF NemesisStep, Dispatch
  <2>2. queue' \subseteq queue \ {e} /\ seq' = seq BY <2>1, NemesisQueue
  <2> QED BY <1>2, <2>1, <2>2
<1>7. ASSUME NEW e \in queue, RestartStep(e) PROVE TotalOrder' /\ now <= now'
  <2>1. Pop(e) /\ RestartNode(e.action.node, queue \ {e}, e.time) BY <1>7 DEF RestartStep, Dispatch
  <2> QED BY <1>2, <2>1, RestartQueue
<1> QED BY <1>1, <1>3, <1>4, <1>5, <1>6, <1>7 DEF Loop

\* A task queues at the current instant or later.
LEMMA TaskOrder ==
  ASSUME TypeOK, TotalOrder, Task
  PROVE  TotalOrder' /\ now' = now
<1>0. /\ now \in Nat /\ seq \in Nat /\ faults.extra \in Nat
      /\ \A e \in queue : now <= e.time
  BY DEF TypeOK, EventsOK, ClusterOK, TotalOrder
<1>1. CASE UNCHANGED eventVars BY <1>1 DEF eventVars, TotalOrder
<1>2. CASE Park
  <2>1. now' = now BY <1>2 DEF Park
  <2>2. CASE Rearms
    <3> DEFINE e == TimerEvent(GlobalDeadline(Me.node, Deadline), seq, nextTimer)
    <3>1. Push(queue, e) BY <1>2, <2>2 DEF Park
    <3>2. Me.node \in Node /\ Deadline \in Nat BY <1>2, <2>2, MeType DEF Park, Rearms
    <3>3. now <= GlobalDeadline(Me.node, Deadline)
      <4>1. now \in Nat /\ skew[Me.node] \in Int BY <3>2 DEF TypeOK, EventsOK, ClusterOK
      <4> QED BY <3>2, <4>1 DEF GlobalDeadline, AtLeast
    <3>4. e.seq = seq /\ now' <= e.time BY <2>1, <3>3 DEF TimerEvent
    <3> HIDE DEF e
    <3> QED BY <1>0, <2>1, <3>1, <3>4, OrderPush
  <2>3. CASE ~Rearms
    <3>1. UNCHANGED <<queue, seq>> BY <1>2, <2>3 DEF Park
    <3> QED BY <2>1, <3>1 DEF TotalOrder
  <2> QED BY <2>2, <2>3
<1>3. ASSUME NEW to \in Node, Send(to) PROVE TotalOrder' /\ now' = now
  <2>1. now' = now BY <1>3 DEF Send
  <2> DEFINE msg(at, s) == MsgEvent(at, s, Me.node, to, Len(sent'))
  <2>2. PICK d \in 1 .. NetDelay + faults.extra :
          \/ Push(queue, msg(now + d, seq))
          \/ /\ \E x \in 1 .. DuplicateGap :
                 queue' = queue \union {msg(now + d, seq), msg(now + d + x, seq + 1)}
             /\ seq' = seq + 2
    BY <1>3 DEF Send
  <2>3. \A at, s : msg(at, s).time = at /\ msg(at, s).seq = s BY DEF MsgEvent
  <2> HIDE DEF msg
  <2>4. NetDelay \in Nat /\ DuplicateGap \in Nat BY ConstantsOK
  <2>5. d \in Nat /\ now <= now + d BY <1>0, <2>4
  <2>6. CASE Push(queue, msg(now + d, seq))
    BY <1>0, <2>1, <2>3, <2>5, <2>6, OrderPush
  <2>7. ASSUME NEW x \in 1 .. DuplicateGap, seq' = seq + 2,
               queue' = queue \union {msg(now + d, seq), msg(now + d + x, seq + 1)}
        PROVE  TotalOrder'
    <3> DEFINE Added == {msg(now + d, seq), msg(now + d + x, seq + 1)}
    <3>1. /\ queue' \subseteq queue \union Added /\ seq <= seq' /\ seq' \in Nat
          /\ \A e \in queue : now' <= e.time
      BY <1>0, <2>1, <2>7
    <3>2. \A e \in Added : now' <= e.time /\ e.seq \in Nat /\ seq <= e.seq /\ e.seq < seq'
      BY <1>0, <2>1, <2>3, <2>4, <2>5, <2>7
    <3>3. \A e, f \in Added : e.seq = f.seq => e = f BY <1>0, <2>3
    <3> HIDE DEF Added
    <3> QED BY <3>1, <3>2, <3>3, OrderExtends
  <2> QED BY <2>1, <2>2, <2>6, <2>7
<1>4. CASE Spawn
  <2>1. Push(queue, PollEvent(now, seq, nextTask)) /\ now' = now BY <1>4 DEF Spawn
  <2>2. PollEvent(now, seq, nextTask).seq = seq /\ now' <= PollEvent(now, seq, nextTask).time
    BY <1>0, <2>1 DEF PollEvent
  <2> QED BY <1>0, <2>1, <2>2, OrderPush
<1>5. CASE Finish
  <2>1. PollAll(queue, now, JoinersOf(current)) /\ now' = now BY <1>5 DEF Finish
  <2>2. JoinersOf(current) \in Seq(Nat) BY DEF JoinersOf, TypeOK, TasksOK, JoinType, None
  <2> QED BY <1>0, <2>1, <2>2, OrderPollAll
<1>6. CASE TakeMessage \/ TakeOutput \/ TimeUp
  BY <1>1, <1>6 DEF TakeMessage, TakeOutput, TimeUp, Resume
<1>7. CASE ReadNow BY <1>1, <1>7 DEF ReadNow
<1>8. ASSUME NEW a, StartAwait(a) PROVE UNCHANGED eventVars BY <1>8 DEF StartAwait
<1> QED BY <1>1, <1>2, <1>3, <1>4, <1>5, <1>6, <1>7, <1>8 DEF Task, AwaitRecv, AwaitSleep, AwaitJoin

\* No step puts an event behind the clock or beside another in the order.
LEMMA OrderStep ==
  ASSUME TypeOK, TotalOrder, ~PastAllowed, [Next]_vars
  PROVE  TotalOrder' /\ now' >= now
<1>1. now \in Nat BY DEF TypeOK, EventsOK
<1>2. CASE Driver BY <1>1, <1>2, DriverOrder
<1>3. CASE Loop
  <2>1. now' \in Nat BY StepType DEF TypeOK, EventsOK
  <2> QED BY <1>1, <1>3, <2>1, LoopOrder
<1>4. CASE Task BY <1>1, <1>4, TaskOrder
<1>5. CASE UNCHANGED vars BY <1>1, <1>5 DEF vars, eventVars, TotalOrder
<1> QED BY <1>2, <1>3, <1>4, <1>5 DEF Next

\* When no action is scheduled in the past, the next event of the queue is always
\* determined and never behind the clock (Keyed, push_event).
THEOREM EventOrder == ASSUME ~PastAllowed PROVE Spec => []TotalOrder
<1>1. Init => TotalOrder BY DEF Init, TotalOrder
<1>2. TypeOK /\ TotalOrder /\ [Next]_vars => TotalOrder' BY OrderStep
<1> QED BY <1>1, <1>2, TypeCorrect, PTL DEF Spec

\* Under the same assumption logical time never goes back, over any number of runs
\* (SimTime, Inner::now).
THEOREM ClockMonotone == ASSUME ~PastAllowed PROVE Spec => TimeMonotone
<1>1. TypeOK /\ TotalOrder /\ [Next]_vars => [now' >= now]_now BY OrderStep
<1> QED BY <1>1, TypeCorrect, EventOrder, PTL DEF Spec, TimeMonotone

\* A clock that is read shows at least what was read off it before.
LEMMA ReadIsLater ==
  ASSUME EventsOK, ClusterOK, NEW n, ReadClock(n), NEW m \in Node
  PROVE  lastLocal'[m] >= lastLocal[m]
<1>1. now \in Nat /\ skew[m] \in Int /\ lastLocal[m] \in Nat BY DEF EventsOK, ClusterOK
<1>2. lastLocal' = [lastLocal EXCEPT ![n] = LocalNow(n)] BY DEF ReadClock
<1>3. CASE m = n
  <2>1. lastLocal'[m] = LocalNow(m) BY <1>2, <1>3 DEF ClusterOK
  <2>2. LocalNow(m) >= lastLocal[m] BY <1>1 DEF LocalNow, AtLeast
  <2> QED BY <2>1, <2>2
<1>4. CASE m # n
  <2>1. lastLocal'[m] = lastLocal[m] BY <1>2, <1>4 DEF ClusterOK
  <2> QED BY <1>1, <2>1
<1> QED BY <1>3, <1>4

\* Only a read moves the last value read.
LEMMA LastLocalKinds == ASSUME Next PROVE UNCHANGED lastLocal \/ \E n : ReadClock(n)
<1>1. CASE Driver BY <1>1 DEF Driver, AddNode, SpawnFromOutside, ScheduleNemesis, ApplyNow, RestartNow,
                              SetFaults, Run
<1>2. CASE Loop BY <1>2 DEF Loop, Quiesce, Abort, FireTimer, SkipTimer, DropMsg, DeliverMsg, NemesisStep,
                            RestartStep, SkipPoll, PollTask
<1>3. CASE Task
  <2>1. ASSUME TakeMessage \/ TakeOutput PROVE UNCHANGED lastLocal BY <2>1 DEF TakeMessage, TakeOutput
  <2>2. ASSUME TimeUp PROVE ReadClock(Me.node) BY <2>2 DEF TimeUp
  <2>3. ASSUME Park PROVE UNCHANGED lastLocal \/ ReadClock(Me.node) BY <2>3 DEF Park
  <2>4. ASSUME ReadNow PROVE ReadClock(Me.node) BY <2>4 DEF ReadNow
  <2>5. ASSUME NEW to \in Node, Send(to) PROVE UNCHANGED lastLocal BY <2>5 DEF Send
  <2>6. ASSUME Spawn \/ Finish PROVE UNCHANGED lastLocal BY <2>6 DEF Spawn, Finish
  <2>7. ASSUME NEW a, StartAwait(a) PROVE UNCHANGED lastLocal BY <2>7 DEF StartAwait
  <2>8. ASSUME NEW d, AwaitRecv(d) \/ AwaitSleep(d) PROVE UNCHANGED lastLocal
    BY <2>7, <2>8 DEF AwaitRecv, AwaitSleep
  <2>9. ASSUME NEW c, NEW d, NEW keep, AwaitJoin(c, d, keep) PROVE UNCHANGED lastLocal
    BY <2>7, <2>9 DEF AwaitJoin
  <2> QED BY <1>3, <2>1, <2>2, <2>3, <2>4, <2>5, <2>6, <2>8, <2>9 DEF Task
<1> QED BY <1>1, <1>2, <1>3 DEF Next

\* A node never reads less off its clock than it has read before, wherever its skew
\* is moved and whatever crashes (Inner::local_now).
THEOREM LocalClockNeverBack == Spec => LocalClockMonotone
<1>1. ASSUME TypeOK, [Next]_vars, UNCHANGED lastLocal \/ \E n : ReadClock(n)
      PROVE  [\A n \in Node : lastLocal'[n] >= lastLocal[n]]_lastLocal
  BY <1>1, ReadIsLater DEF TypeOK
<1>2. [Next]_vars => UNCHANGED lastLocal \/ \E n : ReadClock(n) BY LastLocalKinds DEF vars
<1>3. TypeOK /\ [Next]_vars => [\A n \in Node : lastLocal'[n] >= lastLocal[n]]_lastLocal
  BY <1>1, <1>2
<1> QED BY <1>3, TypeCorrect, PTL DEF Spec, LocalClockMonotone

-----------------------------------------------------------------------------
(* Messages and the incarnations of their ends *)

\* What NoStaleMessage needs to be inductive: a message event or an inbox entry
\* stands for a message that was sent, between these very nodes.
FromSent(e) ==
  /\ e.msg \in DOMAIN sent
  /\ sent[e.msg].from = e.from /\ sent[e.msg].to = e.to
  /\ sent[e.msg].fromEpoch = epoch[e.from] /\ sent[e.msg].toEpoch = epoch[e.to]

FromSentTo(d, n) ==
  /\ d.msg \in DOMAIN sent
  /\ sent[d.msg].to = n /\ sent[d.msg].toEpoch = epoch[n]

Traced ==
  /\ \A e \in queue : e.kind = "msg" => FromSent(e)
  /\ \A n \in Node : \A k \in DOMAIN inbox[n] : FromSentTo(inbox[n][k], n)

\* A step that sends nothing, crashes nobody and queues no message.
LEMMA TracedKept ==
  ASSUME Traced, UNCHANGED <<sent, epoch, inbox>>,
         \A e \in queue' : e \in queue \/ e.kind # "msg"
  PROVE  Traced'
BY DEF Traced, FromSent, FromSentTo

\* A crash removes the messages of the old incarnation.
LEMMA TracedNemesis ==
  ASSUME TypeOK, Traced, NEW a \in ActionType, NEW q \in SUBSET queue, ApplyNemesis(a, q),
         UNCHANGED sent
  PROVE  Traced'
<1>1. queue' \subseteq q BY NemesisQueue
<1>2. CASE UNCHANGED <<epoch, inbox>> BY <1>1, <1>2, TracedKept
<1>3. CASE a.kind = "crash" /\ CrashNode(a.node, q) /\ CanCrash(a.node)
  <2> DEFINE n == a.node
  <2>1. n \in Node BY <1>3 DEF ActionType
  <2>2. /\ epoch' = [epoch EXCEPT ![n] = @ + 1] /\ inbox' = [inbox EXCEPT ![n] = <<>>]
        /\ \A e \in queue' : e \in queue /\ (e.kind = "msg" => n \notin {e.from, e.to})
    BY <1>3 DEF CrashNode, LiveAfterCrash
  <2> HIDE DEF n
  <2>3. \A m \in Node \ {n} : epoch'[m] = epoch[m] /\ inbox'[m] = inbox[m]
    BY <2>1, <2>2 DEF TypeOK, ClusterOK, MailOK
  <2>4. ASSUME NEW e \in queue', e.kind = "msg" PROVE FromSent(e)'
    <3>1. e \in queue /\ e.from # n /\ e.to # n BY <2>2, <2>4
    <3>2. e.from \in Node /\ e.to \in Node BY <2>4, <3>1 DEF TypeOK, EventsOK, EventType
    <3> QED BY <2>3, <2>4, <3>1, <3>2 DEF Traced, FromSent
  <2>5. ASSUME NEW m \in Node, NEW k \in DOMAIN inbox'[m] PROVE FromSentTo(inbox[m][k], m)'
    <3>1. CASE m = n
      <4>1. inbox'[m] = <<>> BY <2>1, <2>2, <3>1 DEF TypeOK, MailOK
      <4> QED BY <2>5, <4>1
    <3>2. CASE m # n BY <2>3, <2>5, <3>2 DEF Traced, FromSentTo
    <3> QED BY <3>1, <3>2
  <2> QED BY <2>4, <2>5 DEF Traced
<1> QED BY <1>2, <1>3 DEF ApplyNemesis, CrashNode

LEMMA TracedRestart ==
  ASSUME Traced, NEW n, NEW q \in SUBSET queue, NEW at, RestartNode(n, q, at),
         UNCHANGED <<sent, epoch, inbox>>
  PROVE  Traced'
<1>1. CASE n \in nodes \intersect crashed
  <2>1. queue' = q \union {PollEvent(at, seq, nextTask)} BY <1>1 DEF RestartNode, Push
  <2>2. PollEvent(at, seq, nextTask).kind # "msg" BY DEF PollEvent
  <2> QED BY <2>1, <2>2, TracedKept
<1>2. CASE n \notin nodes \intersect crashed
  <2>1. queue' = q BY <1>2 DEF RestartNode
  <2> QED BY <2>1, TracedKept
<1> QED BY <1>1, <1>2

\* A nemesis event, or one event for each of some tasks, are no messages.
LEMMA TracedPoll ==
  ASSUME Traced, NEW q \in SUBSET queue, NEW at, NEW ts, PollAll(q, at, ts)
  PROVE  \A e \in queue' : e \in queue \/ e.kind # "msg"
BY DEF PollAll, PollEvent

\* The driver.
LEMMA TracedDriver == TypeOK /\ Traced /\ Driver => Traced'
<1> SUFFICES ASSUME TypeOK, Traced, Driver PROVE Traced' OBVIOUS
<1>1. ASSUME NEW n \in Node, AddNode(n) \/ SpawnFromOutside(n) PROVE Traced'
  <2>1. UNCHANGED <<sent, epoch, inbox>>
    BY <1>1 DEF AddNode, SpawnFromOutside, Call, clusterVars, mailVars
  <2>2. \A e \in queue' : e \in queue \/ e.kind # "msg"
    BY <1>1 DEF AddNode, SpawnFromOutside, Push, PollEvent
  <2> QED BY <2>1, <2>2, TracedKept
<1>2. ASSUME NEW at \in Times, NEW a \in Actions, ScheduleNemesis(at, a) PROVE Traced'
  <2>1. UNCHANGED <<sent, epoch, inbox>>
    BY <1>2 DEF ScheduleNemesis, Call, clusterVars, mailVars
  <2>2. \A e \in queue' : e \in queue \/ e.kind # "msg"
    BY <1>2 DEF ScheduleNemesis, Push, NemesisEvent
  <2> QED BY <2>1, <2>2, TracedKept
<1>3. ASSUME NEW a \in Actions, ApplyNow(a) PROVE Traced'
  <2>1. ApplyNemesis(a, queue) /\ UNCHANGED sent /\ a \in ActionType
    BY <1>3, ConstantsOK DEF ApplyNow, Call
  <2> QED BY <2>1, TracedNemesis
<1>4. ASSUME NEW a \in Actions, RestartNow(a) PROVE Traced'
  <2>1. RestartNode(a.node, queue, now) /\ UNCHANGED <<sent, epoch, inbox>>
    BY <1>4 DEF RestartNow, Call, mailVars
  <2> QED BY <2>1, TracedRestart
<1>5. ASSUME SetFaults \/ Run PROVE Traced'
  <2>1. UNCHANGED <<sent, epoch, inbox, queue>>
    BY <1>5 DEF SetFaults, Run, Call, eventVars, clusterVars, mailVars
  <2> QED BY <2>1, TracedKept
<1> QED BY <1>1, <1>2, <1>3, <1>4, <1>5 DEF Driver

\* The loop: a delivery moves a message from the queue to the inbox.
LEMMA TracedLoop == TypeOK /\ Traced /\ Loop => Traced'
<1> SUFFICES ASSUME TypeOK, Traced, Loop PROVE Traced' OBVIOUS
<1>1. ASSUME Quiesce PROVE Traced'
  <2>1. UNCHANGED <<sent, epoch, inbox, queue>> BY <1>1 DEF Quiesce, clusterVars, mailVars
  <2> QED BY <2>1, TracedKept
<1>2. ASSUME NEW e \in queue,
             Abort(e) \/ SkipTimer(e) \/ DropMsg(e) \/ SkipPoll(e) \/ PollTask(e)
      PROVE  Traced'
  <2>1. UNCHANGED <<sent, epoch, inbox>> /\ queue' = queue \ {e}
    BY <1>2 DEF Abort, SkipTimer, DropMsg, SkipPoll, PollTask, Skip, clusterVars, mailVars
  <2> QED BY <2>1, TracedKept
<1>3. ASSUME NEW e \in queue, FireTimer(e) PROVE Traced'
  <2>1. UNCHANGED <<sent, epoch, inbox>> BY <1>3 DEF FireTimer, clusterVars, mailVars
  <2>2. \A f \in queue' : f \in queue \/ f.kind # "msg" BY <1>3 DEF FireTimer, Push, PollEvent
  <2> QED BY <2>1, <2>2, TracedKept
<1>4. ASSUME NEW e \in queue, DeliverMsg(e) PROVE Traced'
  <2>1. e.kind = "msg" /\ UNCHANGED <<sent, epoch>> /\ PollAll(queue \ {e}, e.time, waiters[e.to])
    BY <1>4 DEF DeliverMsg, Awakened, clusterVars
  <2>2. \A f \in queue' : f \in queue \/ f.kind # "msg" BY <2>1, TracedPoll
  <2>3. e.to \in Node /\ e.from \in Node BY <2>1 DEF TypeOK, EventsOK, EventType
  <2>4. FromSent(e) BY <2>1 DEF Traced
  <2> DEFINE d == [from |-> e.from, msg |-> e.msg]
  <2>5. FromSentTo(d, e.to) BY <2>4 DEF FromSent, FromSentTo
  <2>6. ASSUME NEW n \in Node, NEW k \in DOMAIN inbox'[n] PROVE FromSentTo(inbox'[n][k], n)
    <3>1. inbox' = [inbox EXCEPT ![e.to] = Append(@, d)] BY <1>4 DEF DeliverMsg
    <3>2. inbox[n] \in Seq([from : Node, msg : Nat]) BY DEF TypeOK, MailOK
    <3>3. CASE n # e.to
      <4>1. inbox'[n] = inbox[n] BY <3>1, <3>3 DEF TypeOK, MailOK
      <4> QED BY <2>6, <4>1 DEF Traced
    <3>4. CASE n = e.to
      <4>1. inbox'[n] = Append(inbox[n], d) BY <3>1, <3>4 DEF TypeOK, MailOK
      <4>2. k \in 1 .. Len(inbox[n]) + 1 BY <2>6, <3>2, <4>1
      <4>3. CASE k = Len(inbox[n]) + 1 BY <2>5, <3>2, <3>4, <4>1, <4>3
      <4>4. CASE k \in 1 .. Len(inbox[n])
        <5>1. inbox'[n][k] = inbox[n][k] /\ k \in DOMAIN inbox[n] BY <3>2, <4>1, <4>4
        <5> QED BY <5>1 DEF Traced
      <4> QED BY <3>2, <4>2, <4>3, <4>4
    <3> QED BY <3>3, <3>4
  <2> QED BY <2>1, <2>2, <2>6 DEF Traced, FromSent, FromSentTo
<1>5. ASSUME NEW e \in queue, NemesisStep(e) PROVE Traced'
  <2>1. e.kind = "nemesis" /\ ApplyNemesis(e.action, queue \ {e}) /\ UNCHANGED sent
    BY <1>5 DEF NemesisStep
  <2>2. e.action \in ActionType /\ queue \ {e} \in SUBSET queue
    BY <2>1 DEF TypeOK, EventsOK, EventType
  <2> QED BY <2>1, <2>2, TracedNemesis
<1>6. ASSUME NEW e \in queue, RestartStep(e) PROVE Traced'
  <2>1. RestartNode(e.action.node, queue \ {e}, e.time) /\ UNCHANGED <<sent, epoch, inbox>>
    BY <1>6 DEF RestartStep, mailVars
  <2>2. queue \ {e} \in SUBSET queue OBVIOUS
  <2> QED BY <2>1, <2>2, TracedRestart
<1> QED BY <1>1, <1>2, <1>3, <1>4, <1>5, <1>6 DEF Loop

\* A task: a send queues copies of a fresh message, a receive takes the oldest.
LEMMA TracedTask == TypeOK /\ Traced /\ Task => Traced'
<1> SUFFICES ASSUME TypeOK, Traced, Task PROVE Traced' OBVIOUS
<1>1. ASSUME UNCHANGED <<sent, epoch, inbox, queue>> PROVE Traced' BY <1>1, TracedKept
<1>2. ASSUME TakeMessage PROVE Traced'
  <2>1. /\ UNCHANGED <<sent, epoch, queue>> /\ inbox' = [inbox EXCEPT ![Me.node] = Tail(@)]
        /\ inbox[Me.node] # <<>>
    BY <1>2 DEF TakeMessage, Resume, InnerReady, eventVars, clusterVars
  <2>2. Me.node \in Node BY <1>2, MeType DEF TakeMessage, Resume
  <2>3. ASSUME NEW n \in Node, NEW k \in DOMAIN inbox'[n] PROVE FromSentTo(inbox'[n][k], n)
    <3>1. inbox[n] \in Seq([from : Node, msg : Nat]) BY DEF TypeOK, MailOK
    <3>2. CASE n # Me.node
      <4>1. inbox'[n] = inbox[n] BY <2>1, <3>2 DEF TypeOK, MailOK
      <4> QED BY <2>3, <4>1 DEF Traced
    <3>3. CASE n = Me.node
      <4>1. inbox'[n] = Tail(inbox[n]) /\ inbox[n] # <<>> BY <2>1, <3>3 DEF TypeOK, MailOK
      <4>2. k \in 1 .. Len(inbox[n]) - 1 /\ inbox'[n][k] = inbox[n][k + 1]
        BY <2>3, <3>1, <4>1, HeadTailProperties, LenProperties
      <4>3. k + 1 \in DOMAIN inbox[n] BY <3>1, <4>2
      <4> QED BY <4>2, <4>3 DEF Traced
    <3> QED BY <3>2, <3>3
  <2> QED BY <2>1, <2>3 DEF Traced, FromSent, FromSentTo
<1>3. ASSUME TakeOutput \/ TimeUp PROVE Traced'
  BY <1>1, <1>3 DEF TakeOutput, TimeUp, Resume, eventVars, clusterVars, mailVars
<1>4. ASSUME Park PROVE Traced'
  <2>1. UNCHANGED <<sent, epoch, inbox>> BY <1>4 DEF Park, clusterVars
  <2>2. \A e \in queue' : e \in queue \/ e.kind # "msg" BY <1>4 DEF Park, Push, TimerEvent
  <2> QED BY <2>1, <2>2, TracedKept
<1>5. ASSUME NEW to \in Node, Send(to) PROVE Traced'
  <2> DEFINE r == [from |-> Me.node, to |-> to,
                   fromEpoch |-> epoch[Me.node], toEpoch |-> epoch[to]]
  <2>1. sent' = Append(sent, r) /\ UNCHANGED <<epoch, inbox>>
    BY <1>5 DEF Send, clusterVars, mailVars
  <2>2. sent \in Seq([from : Node, to : Node, fromEpoch : Nat, toEpoch : Nat])
    BY DEF TypeOK, RecordsOK
  <2>3. /\ Len(sent') \in DOMAIN sent' /\ sent'[Len(sent')] = r
        /\ DOMAIN sent \subseteq DOMAIN sent' /\ \A m \in DOMAIN sent : sent'[m] = sent[m]
    BY <2>1, <2>2
  <2>4. \A e \in queue' : e \in queue \/ \E at, s : e = MsgEvent(at, s, Me.node, to, Len(sent'))
    BY <1>5 DEF Send, Push
  <2>5. ASSUME NEW e \in queue', e.kind = "msg" PROVE FromSent(e)'
    <3>1. CASE e \in queue BY <2>1, <2>3, <2>5, <3>1 DEF Traced, FromSent
    <3>2. ASSUME NEW at, NEW s, e = MsgEvent(at, s, Me.node, to, Len(sent')) PROVE FromSent(e)'
      <4>1. e.msg = Len(sent') /\ e.from = Me.node /\ e.to = to BY <3>2 DEF MsgEvent
      <4>2. r.from = Me.node /\ r.to = to /\ r.fromEpoch = epoch[Me.node] /\ r.toEpoch = epoch[to]
        OBVIOUS
      <4> HIDE DEF r
      <4> QED BY <2>1, <2>3, <4>1, <4>2 DEF FromSent
    <3> QED BY <2>4, <3>1, <3>2
  <2>6. ASSUME NEW n \in Node, NEW k \in DOMAIN inbox[n] PROVE FromSentTo(inbox[n][k], n)'
    BY <2>1, <2>3 DEF Traced, FromSentTo
  <2> QED BY <2>1, <2>5, <2>6 DEF Traced
<1>6. ASSUME Spawn PROVE Traced'
  <2>1. UNCHANGED <<sent, epoch, inbox>> BY <1>6 DEF Spawn, clusterVars, mailVars
  <2>2. \A e \in queue' : e \in queue \/ e.kind # "msg" BY <1>6 DEF Spawn, Push, PollEvent
  <2> QED BY <2>1, <2>2, TracedKept
<1>7. ASSUME Finish PROVE Traced'
  <2>1. UNCHANGED <<sent, epoch, inbox>> /\ PollAll(queue, now, JoinersOf(current))
    BY <1>7 DEF Finish, clusterVars, mailVars
  <2>2. \A e \in queue' : e \in queue \/ e.kind # "msg" BY <2>1, TracedPoll
  <2> QED BY <2>1, <2>2, TracedKept
<1>8. ASSUME ReadNow \/ \E a : StartAwait(a) PROVE Traced'
  BY <1>1, <1>8 DEF ReadNow, StartAwait, eventVars, clusterVars, mailVars
<1> QED
  BY <1>2, <1>3, <1>4, <1>5, <1>6, <1>7, <1>8 DEF Task, AwaitRecv, AwaitSleep, AwaitJoin

LEMMA TracedStep == ASSUME TypeOK, Traced, [Next]_vars PROVE Traced'
<1>1. ASSUME UNCHANGED vars PROVE Traced'
  BY <1>1, TracedKept DEF vars, eventVars, clusterVars, mailVars
<1> QED BY <1>1, TracedDriver, TracedLoop, TracedTask DEF Next

LEMMA TracedInit == Init => Traced
BY DEF Init, Traced

\* No message crosses an incarnation: what is in flight was sent by, and to, the nodes
\* as they live now, and what is in an inbox was sent to the node that has it as it
\* lives now (Inner::crash_node, event_is_live_after_crash).
THEOREM IncarnationsApart == Spec => []NoStaleMessage
<1>1. TypeOK /\ Traced /\ [Next]_vars => Traced' BY TracedStep
<1>2. Traced => NoStaleMessage BY DEF Traced, FromSent, FromSentTo, NoStaleMessage
<1> QED BY <1>1, <1>2, TracedInit, TypeCorrect, PTL DEF Spec
=============================================================================

------------------------------ MODULE SimTasks ------------------------------
(***************************************************************************)
(* What becomes of the tasks in the runtime of module Sim, for every value *)
(* of its constants: whatever is registered for a task goes with the       *)
(* future that registered it, a crashed node is down altogether, and no    *)
(* task that could continue is forgotten, since a step that brings what it *)
(* waits for also schedules a poll of it.                                  *)
(***************************************************************************)
EXTENDS SimProofs

-----------------------------------------------------------------------------
(* Lists of waiting receivers *)

Listed(ws) == {ws[k] : k \in DOMAIN ws}
Distinct(ws) == \A j, k \in DOMAIN ws : ws[j] = ws[k] => j = k

\* register_recv_waiter adds the task unless it is there.
LEMMA RegisterListed ==
  ASSUME NEW ws \in Seq(Nat), NEW t \in Nat, Distinct(ws)
  PROVE  Distinct(Register(ws, t)) /\ Listed(Register(ws, t)) = Listed(ws) \union {t}
<1>1. CASE \E i \in DOMAIN ws : ws[i] = t
  <2>1. Register(ws, t) = ws BY <1>1 DEF Register
  <2> QED BY <1>1, <2>1 DEF Listed
<1>2. CASE ~ \E i \in DOMAIN ws : ws[i] = t
  <2>1. Register(ws, t) = Append(ws, t) BY <1>2 DEF Register
  <2>2. /\ Len(ws) \in Nat /\ DOMAIN ws = 1 .. Len(ws)
        /\ DOMAIN Append(ws, t) = 1 .. Len(ws) + 1
        /\ Append(ws, t)[Len(ws) + 1] = t
        /\ \A k \in 1 .. Len(ws) : Append(ws, t)[k] = ws[k]
    OBVIOUS
  <2>3. Distinct(Append(ws, t)) BY <1>2, <2>2 DEF Distinct
  <2>4. Listed(Append(ws, t)) = Listed(ws) \union {t}
    <3>1. ASSUME NEW x \in Listed(Append(ws, t)) PROVE x \in Listed(ws) \union {t}
      BY <2>2 DEF Listed
    <3>2. ASSUME NEW x \in Listed(ws) PROVE x \in Listed(Append(ws, t)) BY <2>2 DEF Listed
    <3>3. t \in Listed(Append(ws, t)) BY <2>2 DEF Listed
    <3> QED BY <3>1, <3>2, <3>3
  <2> QED BY <2>1, <2>3, <2>4
<1> QED BY <1>1, <1>2

\* unregister_recv_waiter removes the task, which a list without duplicates holds
\* at most once.
LEMMA UnregisterListed ==
  ASSUME NEW ws \in Seq(Nat), NEW t \in Nat, Distinct(ws)
  PROVE  Distinct(Unregister(ws, t)) /\ Listed(Unregister(ws, t)) = Listed(ws) \ {t}
<1>1. CASE \E i \in DOMAIN ws : ws[i] = t
  <2> DEFINE i == CHOOSE i \in DOMAIN ws : ws[i] = t
             left == SubSeq(ws, 1, i - 1)
             right == SubSeq(ws, i + 1, Len(ws))
             rest == left \o right
  <2>1. i \in 1 .. Len(ws) /\ ws[i] = t /\ Len(ws) \in Nat /\ DOMAIN ws = 1 .. Len(ws)
    BY <1>1, LenProperties
  <2>2. Unregister(ws, t) = rest BY <1>1 DEF Unregister
  <2> HIDE DEF i
  <2>3. /\ left \in Seq(Nat) /\ Len(left) = i - 1
        /\ \A k \in 1 .. i - 1 : left[k] = ws[k]
    BY <2>1, SubSeqProperties
  <2>4. /\ right \in Seq(Nat) /\ Len(right) = Len(ws) - i
        /\ \A k \in 1 .. Len(ws) - i : right[k] = ws[k + i]
    <3> DEFINE m == i + 1
    <3>1. m \in Int /\ Len(ws) \in Int /\ \A k \in m .. Len(ws) : ws[k] \in Nat BY <2>1
    <3> HIDE DEF m
    <3>2. /\ SubSeq(ws, m, Len(ws)) \in Seq(Nat)
          /\ Len(SubSeq(ws, m, Len(ws))) = IF m <= Len(ws) THEN Len(ws) - m + 1 ELSE 0
          /\ \A k \in 1 .. Len(ws) - m + 1 : SubSeq(ws, m, Len(ws))[k] = ws[m + k - 1]
      BY <3>1, SubSeqProperties
    <3>3. Len(ws) - m + 1 = Len(ws) - i /\ (IF m <= Len(ws) THEN Len(ws) - m + 1 ELSE 0) = Len(ws) - i
      <4>1. Len(ws) \in Int /\ i \in Int /\ i <= Len(ws) BY <2>1
      <4> HIDE DEF right
      <4> QED BY <4>1 DEF m
    <3>4. \A k \in 1 .. Len(ws) - i : m + k - 1 = k + i BY <2>1 DEF m
    <3> QED BY <2>1, <3>2, <3>3, <3>4 DEF m
  <2> HIDE DEF left, right
  <2>5. /\ DOMAIN rest = 1 .. Len(ws) - 1
        /\ \A k \in 1 .. Len(ws) - 1 : rest[k] = IF k < i THEN ws[k] ELSE ws[k + 1]
    <3>1. /\ Len(rest) = Len(left) + Len(right) /\ rest \in Seq(Nat)
          /\ \A k \in 1 .. Len(left) + Len(right) :
               rest[k] = IF k <= Len(left) THEN left[k] ELSE right[k - Len(left)]
      BY <2>3, <2>4, ConcatProperties
    <3> HIDE DEF rest
    <3>2. Len(left) + Len(right) = Len(ws) - 1 /\ DOMAIN rest = 1 .. Len(rest)
      BY <2>1, <2>3, <2>4, <3>1
    <3>3. \A k \in 1 .. Len(ws) - 1 :
            rest[k] = IF k <= i - 1 THEN left[k] ELSE right[k - (i - 1)]
      BY <2>3, <3>1, <3>2
    <3>4. ASSUME NEW k \in 1 .. Len(ws) - 1
          PROVE  rest[k] = IF k < i THEN ws[k] ELSE ws[k + 1]
      <4>1. k \in Int /\ Len(ws) \in Int /\ i \in Int /\ 1 <= k /\ k <= Len(ws) - 1 BY <2>1
      <4>2. CASE k < i
        <5>1. k <= i - 1 /\ k \in 1 .. i - 1 BY <4>1, <4>2
        <5> QED BY <2>3, <3>3, <4>2, <5>1
      <4>3. CASE ~(k < i)
        <5>1. k - (i - 1) \in 1 .. Len(ws) - i /\ (k - (i - 1)) + i = k + 1 /\ ~(k <= i - 1)
          BY <2>1, <4>1, <4>3
        <5>2. rest[k] = right[k - (i - 1)] BY <3>3, <5>1
        <5>3. right[k - (i - 1)] = ws[(k - (i - 1)) + i] BY <2>4, <5>1
        <5> QED BY <4>3, <5>1, <5>2, <5>3
      <4> QED BY <4>2, <4>3
    <3> QED BY <3>1, <3>2, <3>4
  <2> HIDE DEF rest
  <2>6. Distinct(rest)
    <3> SUFFICES ASSUME NEW j \in 1 .. Len(ws) - 1, NEW k \in 1 .. Len(ws) - 1, rest[j] = rest[k]
                 PROVE  j = k
      BY <2>5 DEF Distinct
    <3>1. \A a, b \in 1 .. Len(ws) : ws[a] = ws[b] => a = b BY <2>1 DEF Distinct
    <3>2. ASSUME NEW k1 \in 1 .. Len(ws) - 1, NEW k2 \in 1 .. Len(ws) - 1, k1 < k2
          PROVE  rest[k1] # rest[k2]
      <4> DEFINE at(m) == IF m < i THEN m ELSE m + 1
      <4>0. Len(ws) \in Int /\ i \in Int /\ k1 \in Int /\ k2 \in Int /\ 1 <= k1 /\ k1 < k2 /\ k2 <= Len(ws) - 1
        BY <2>1, <3>2
      <4>1. at(k1) \in 1 .. Len(ws) /\ at(k2) \in 1 .. Len(ws) /\ at(k1) # at(k2)
        <5>1. CASE k1 < i /\ k2 < i BY <4>0, <5>1
        <5>2. CASE k1 < i /\ ~(k2 < i) BY <4>0, <5>2
        <5>3. CASE ~(k1 < i) BY <4>0, <5>3
        <5> QED BY <5>1, <5>2, <5>3
      <4>2. rest[k1] = ws[at(k1)] /\ rest[k2] = ws[at(k2)] BY <2>5
      <4> QED BY <3>1, <4>1, <4>2
    <3> QED BY <3>2
  <2>7. Listed(rest) = Listed(ws) \ {t}
    <3>1. ASSUME NEW k \in DOMAIN rest PROVE rest[k] \in Listed(ws) \ {t}
      <4>1. rest[k] = IF k < i THEN ws[k] ELSE ws[k + 1] BY <2>5
      <4>2. k \in 1 .. Len(ws) /\ k + 1 \in 1 .. Len(ws) BY <2>1, <2>5
      <4>3. \A j \in 1 .. Len(ws) : ws[j] \in Listed(ws) /\ (ws[j] = t => j = i)
        BY <2>1 DEF Listed, Distinct
      <4> QED BY <2>1, <4>1, <4>2, <4>3
    <3>2. ASSUME NEW k \in DOMAIN ws, ws[k] # t PROVE ws[k] \in Listed(rest)
      <4>1. CASE k < i BY <2>1, <2>5, <4>1 DEF Listed
      <4>2. CASE k > i
        <5>1. k - 1 \in 1 .. Len(ws) - 1 /\ rest[k - 1] = ws[k] BY <2>1, <2>5, <4>2
        <5> QED BY <2>5, <5>1 DEF Listed
      <4> QED BY <2>1, <3>2, <4>1, <4>2
    <3> QED BY <3>1, <3>2 DEF Listed
  <2> QED BY <2>2, <2>6, <2>7
<1>2. CASE ~ \E i \in DOMAIN ws : ws[i] = t
  <2>1. Unregister(ws, t) = ws BY <1>2 DEF Unregister
  <2> QED BY <1>2, <2>1 DEF Listed
<1> QED BY <1>1, <1>2

-----------------------------------------------------------------------------
(* What a step can do to tasks and to what is registered for them *)

\* The executor takes up no task.
Idles == mode' \in {"run", "poll"} => mode' = mode /\ current' = current

\* The step leaves a poll of task t in the queue.
GetsPolled(t) == \E e \in queue' : e.kind = "poll" /\ e.task = t

LEMMA PushPolls ==
  ASSUME NEW q, NEW at, NEW s, NEW t, Push(q, PollEvent(at, s, t)) PROVE GetsPolled(t)
<1>1. PollEvent(at, s, t) \in queue' BY DEF Push
<1>2. PollEvent(at, s, t).kind = "poll" /\ PollEvent(at, s, t).task = t BY DEF PollEvent
<1> QED BY <1>1, <1>2 DEF GetsPolled

LEMMA PollAllPolls ==
  ASSUME NEW q, NEW at, NEW ts, PollAll(q, at, ts), NEW i \in DOMAIN ts PROVE GetsPolled(ts[i])
<1> DEFINE e == PollEvent(at, seq + i - 1, ts[i])
<1>1. e \in queue' BY DEF PollAll
<1>2. e.kind = "poll" /\ e.task = ts[i] BY DEF PollEvent
<1> QED BY <1>1, <1>2 DEF GetsPolled

\* Nothing changes.
Quiet == Idles /\ UNCHANGED <<tasks, nextTask, joins, inbox, waiters, timers, nextTimer>>

\* A delivery to n polls the receivers that wait there.
Awakens(n) ==
  /\ Idles /\ UNCHANGED <<tasks, nextTask, joins, timers, nextTimer>>
  /\ \A m \in Node \ {n} : inbox'[m] = inbox[m]
  /\ waiters' = [waiters EXCEPT ![n] = <<>>]
  /\ \A t \in Listed(waiters[n]) : GetsPolled(t)

\* Timer i goes off: its task is polled.
GoesOff(i) ==
  /\ Idles /\ UNCHANGED <<tasks, nextTask, joins, inbox, waiters, nextTimer>>
  /\ i \in DOMAIN timers /\ timers' = Without(timers, {i})
  /\ GetsPolled(timers[i])

\* A task is added to n and polled; when a task spawned it, that one gets a handle.
Adds(n) ==
  /\ Idles /\ UNCHANGED <<inbox, waiters, timers, nextTimer>>
  /\ AddTask(n) /\ GetsPolled(nextTask)
  /\ \/ UNCHANGED joins
     \/ /\ mode = "run"
        /\ joins' = [c \in DOMAIN joins \union {nextTask} |->
                       IF c = nextTask THEN [owner |-> current, done |-> FALSE, joiner |-> None]
                                       ELSE joins[c]]

\* Node n crashes.
Crashes(n) ==
  /\ mode \in {"idle", "loop"} /\ UNCHANGED <<mode, current, nextTask, nextTimer>>
  /\ inbox' = [inbox EXCEPT ![n] = <<>>]
  /\ waiters' = [waiters EXCEPT ![n] = <<>>]
  /\ tasks' = Without(tasks, TasksOf(n))
  /\ joins' = Without(joins, {c \in DOMAIN joins : joins[c].owner \in TasksOf(n)})
  /\ timers' = TimersAfterCrash(n)

\* A future leaves the slot of task t, to be polled if its node is up.
LeavesSlot(t) ==
  /\ UNCHANGED <<nextTask, joins, inbox, waiters, timers, nextTimer>>
  /\ DOMAIN tasks' = DOMAIN tasks
  /\ \A u \in DOMAIN tasks :
       /\ tasks'[u].node = tasks[u].node /\ tasks'[u].await = tasks[u].await
       /\ tasks'[u].held = IF u = t THEN FALSE ELSE tasks[u].held
  /\ \/ Idles
     \/ /\ current' = t /\ t \in DOMAIN tasks /\ tasks[t].held /\ tasks[t].node \notin crashed
        /\ mode' = IF tasks[t].await = NoAwait THEN "run" ELSE "poll"

\* The current task goes to wait for what a names.
GoesWaiting(a) ==
  /\ StartAwait(a)
  /\ a.inner # "none" \/ a.dur # None
  /\ a.timer = None
  /\ a.inner = "join" => a.child \in DOMAIN joins /\ joins[a.child].owner = current

StepKinds ==
  \/ Quiet
  \/ \E n \in Node : Awakens(n) \/ Adds(n) \/ Crashes(n)
  \/ \E i \in Nat : GoesOff(i)
  \/ \E t \in Nat : LeavesSlot(t)
  \/ TakeMessage \/ TakeOutput \/ TimeUp \/ Park
  \/ \E a \in AwaitType : GoesWaiting(a)
  \/ Finish

\* A nemesis action between two polls crashes a node, or registers and drops nothing.
LEMMA NemesisKinds ==
  ASSUME NEW a \in ActionType, NEW q, ApplyNemesis(a, q),
         mode \in {"idle", "loop"}, UNCHANGED <<mode, current>>
  PROVE  Quiet \/ \E n \in Node : Crashes(n)
<1>1. CASE UNCHANGED <<tasks, joins, inbox, waiters, timers>>
  BY <1>1 DEF ApplyNemesis, Quiet, Idles
<1>2. CASE a.kind = "crash" /\ CrashNode(a.node, q) /\ CanCrash(a.node)
  <2>1. a.node \in Node BY <1>2 DEF ActionType
  <2>2. Crashes(a.node) BY <1>2 DEF ApplyNemesis, CrashNode, Crashes
  <2> QED BY <2>1, <2>2
<1> QED BY <1>1, <1>2 DEF ApplyNemesis, CrashNode

\* A restart adds a task or nothing.
LEMMA RestartKinds ==
  ASSUME NEW n \in Node, NEW q, NEW at, RestartNode(n, q, at),
         UNCHANGED <<mode, current, joins, inbox, waiters, timers, nextTimer>>
  PROVE  Quiet \/ Adds(n)
BY PushPolls DEF RestartNode, Quiet, Adds, Idles

LEMMA DriverKinds == ASSUME TypeOK, Driver PROVE StepKinds
<1>1. ASSUME NEW n \in Node, AddNode(n) \/ SpawnFromOutside(n) PROVE Adds(n)
  BY <1>1, PushPolls DEF AddNode, SpawnFromOutside, Call, Adds, Idles, mailVars, timerVars
<1>2. ASSUME SetFaults \/ Run \/ \E at \in Times, a \in Actions : ScheduleNemesis(at, a) PROVE Quiet
  BY <1>2 DEF SetFaults, Run, ScheduleNemesis, Call, Quiet, Idles, taskVars, mailVars, timerVars
<1>3. ASSUME NEW a \in Actions, ApplyNow(a) PROVE Quiet \/ \E n \in Node : Crashes(n)
  <2>1. /\ ApplyNemesis(a, queue) /\ a \in ActionType
        /\ mode \in {"idle", "loop"} /\ UNCHANGED <<mode, current>>
    BY <1>3, ConstantsOK DEF ApplyNow, Call
  <2> QED BY <2>1, NemesisKinds
<1>4. ASSUME NEW a \in Actions, RestartNow(a) PROVE Quiet \/ \E n \in Node : Adds(n)
  <2>1. a.node \in Node
    <3>1. a \in ActionType /\ a.kind = "restart" BY <1>4, ConstantsOK DEF RestartNow
    <3> QED BY <3>1 DEF ActionType
  <2>2. /\ RestartNode(a.node, queue, now)
        /\ UNCHANGED <<mode, current, joins, inbox, waiters, timers, nextTimer>>
    BY <1>4 DEF RestartNow, Call, mailVars, timerVars
  <2> QED BY <2>1, <2>2, RestartKinds
<1> QED BY <1>1, <1>2, <1>3, <1>4 DEF Driver, StepKinds

LEMMA LoopKinds == ASSUME TypeOK, Loop PROVE StepKinds
<1>1. CASE Quiesce
  <2>1. Quiet BY <1>1 DEF Quiesce, Quiet, Idles, taskVars, mailVars, timerVars
  <2> QED BY <2>1 DEF StepKinds
<1>2. ASSUME NEW e \in queue, Abort(e) \/ SkipTimer(e) \/ DropMsg(e) PROVE Quiet
  BY <1>2 DEF Abort, SkipTimer, DropMsg, Quiet, Idles, taskVars, mailVars, timerVars
<1>3. ASSUME NEW e \in queue, FireTimer(e) PROVE \E i \in Nat : GoesOff(i)
  <2>1. GoesOff(e.timer)
    BY <1>3, PushPolls DEF FireTimer, GoesOff, Idles, taskVars, mailVars
  <2>2. e.timer \in Nat BY <1>3 DEF FireTimer, TypeOK, EventsOK, EventType
  <2> QED BY <2>1, <2>2
<1>4. ASSUME NEW e \in queue, DeliverMsg(e) PROVE \E n \in Node : Awakens(n)
  <2>2. e.to \in Node BY <1>4 DEF DeliverMsg, TypeOK, EventsOK, EventType
  <2>3. \A m \in Node \ {e.to} : inbox'[m] = inbox[m] BY <1>4 DEF DeliverMsg, TypeOK, MailOK
  <2>4. \A t \in Listed(waiters[e.to]) : GetsPolled(t)
    BY <1>4, PollAllPolls DEF DeliverMsg, Awakened, Listed
  <2>1. Awakens(e.to) BY <1>4, <2>3, <2>4 DEF DeliverMsg, Awakens, Idles, taskVars, timerVars
  <2> QED BY <2>1, <2>2
<1>5. ASSUME NEW e \in queue, NemesisStep(e) PROVE Quiet \/ \E n \in Node : Crashes(n)
  <2>1. /\ e.kind = "nemesis" /\ ApplyNemesis(e.action, queue \ {e})
        /\ mode \in {"idle", "loop"} /\ UNCHANGED <<mode, current>>
    BY <1>5 DEF NemesisStep, Dispatch, Pop
  <2>2. e.action \in ActionType BY <2>1 DEF TypeOK, EventsOK, EventType
  <2> QED BY <2>1, <2>2, NemesisKinds
<1>6. ASSUME NEW e \in queue, RestartStep(e) PROVE Quiet \/ \E n \in Node : Adds(n)
  <2>1. e.action \in ActionType /\ e.action.kind = "restart"
    BY <1>6 DEF RestartStep, TypeOK, EventsOK, EventType
  <2>2. e.action.node \in Node BY <2>1 DEF ActionType
  <2>3. /\ RestartNode(e.action.node, queue \ {e}, e.time)
        /\ UNCHANGED <<mode, current, joins, inbox, waiters, timers, nextTimer>>
    BY <1>6 DEF RestartStep, mailVars, timerVars
  <2> QED BY <2>2, <2>3, RestartKinds
<1>7. ASSUME NEW e \in queue, SkipPoll(e) \/ PollTask(e) PROVE \E t \in Nat : LeavesSlot(t)
  <2>1. e.task \in Nat BY <1>7 DEF SkipPoll, PollTask, TypeOK, EventsOK, EventType
  <2>2. \A t \in DOMAIN tasks : tasks[t] \in SlotType BY DEF TypeOK, TasksOK
  <2>3. CASE SkipPoll(e)
    <3>1. tasks' = [t \in DOMAIN tasks |->
                      IF t = e.task THEN [tasks[t] EXCEPT !.held = FALSE] ELSE tasks[t]]
      BY <2>3 DEF SkipPoll
    <3>2. UNCHANGED <<nextTask, joins, inbox, waiters, timers, nextTimer>> /\ Idles
      BY <2>3 DEF SkipPoll, Idles, mailVars, timerVars
    <3>3. LeavesSlot(e.task) BY <2>2, <3>1, <3>2 DEF LeavesSlot, SlotType
    <3> QED BY <2>1, <3>3
  <2>4. CASE PollTask(e)
    <3>1. tasks' = [tasks EXCEPT ![e.task].held = FALSE] /\ e.task \in DOMAIN tasks
      BY <2>4 DEF PollTask
    <3>2. /\ UNCHANGED <<nextTask, joins, inbox, waiters, timers, nextTimer>>
          /\ current' = e.task /\ tasks[e.task].held /\ tasks[e.task].node \notin crashed
          /\ mode' = IF tasks[e.task].await = NoAwait THEN "run" ELSE "poll"
      BY <2>4 DEF PollTask, mailVars, timerVars
    <3>3. LeavesSlot(e.task) BY <2>2, <3>1, <3>2 DEF LeavesSlot, SlotType
    <3> QED BY <2>1, <3>3
  <2> QED BY <1>7, <2>3, <2>4
<1> QED BY <1>1, <1>2, <1>3, <1>4, <1>5, <1>6, <1>7 DEF Loop, StepKinds

LEMMA TaskKinds == ASSUME TypeOK, Task PROVE StepKinds
<1>1. ASSUME ReadNow \/ \E to \in Node : Send(to) PROVE Quiet
  BY <1>1 DEF ReadNow, Send, Quiet, Idles, taskVars, mailVars, timerVars
<1>2. ASSUME Spawn PROVE \E n \in Node : Adds(n)
  <2>1. Adds(Me.node) BY <1>2, PushPolls DEF Spawn, Adds, Idles, mailVars, timerVars
  <2>2. Me.node \in Node BY <1>2, MeType DEF Spawn
  <2> QED BY <2>1, <2>2
<1>3. ASSUME NEW d \in Durations \union {None}, AwaitRecv(d) PROVE \E a \in AwaitType : GoesWaiting(a)
  <2> DEFINE a == [NoAwait EXCEPT !.inner = "recv", !.dur = d]
  <2>1. a \in AwaitType /\ a.inner = "recv" /\ a.timer = None
    BY ConstantsOK DEF NoAwait, AwaitType, None
  <2>2. StartAwait(a) BY <1>3 DEF AwaitRecv
  <2> HIDE DEF a
  <2> QED BY <2>1, <2>2 DEF GoesWaiting
<1>4. ASSUME NEW d \in Durations, AwaitSleep(d) PROVE \E a \in AwaitType : GoesWaiting(a)
  <2> DEFINE a == [NoAwait EXCEPT !.dur = d]
  <2>0. d \in Nat /\ d # None BY ConstantsOK DEF None
  <2>1. a \in AwaitType /\ a.inner = "none" /\ a.timer = None /\ a.dur # None
    BY <2>0 DEF NoAwait, AwaitType
  <2>2. StartAwait(a) BY <1>4 DEF AwaitSleep
  <2> HIDE DEF a
  <2> QED BY <2>1, <2>2 DEF GoesWaiting
<1>5. ASSUME NEW c \in DOMAIN joins, NEW d \in Durations \union {None}, NEW keep \in BOOLEAN,
             AwaitJoin(c, d, keep)
      PROVE  \E a \in AwaitType : GoesWaiting(a)
  <2> DEFINE a == [NoAwait EXCEPT !.inner = "join", !.child = c, !.dur = d, !.keep = keep]
  <2>0. c \in Nat BY DEF TypeOK, TasksOK
  <2>1. a \in AwaitType /\ a.inner = "join" /\ a.timer = None /\ a.child = c
    BY <2>0, ConstantsOK DEF NoAwait, AwaitType, None
  <2>2. StartAwait(a) /\ joins[c].owner = current BY <1>5 DEF AwaitJoin
  <2> HIDE DEF a
  <2> QED BY <2>1, <2>2 DEF GoesWaiting
<1>6. \A d \in Durations \union {None} : {FALSE, d # None} \subseteq BOOLEAN OBVIOUS
<1> QED BY <1>1, <1>2, <1>3, <1>4, <1>5, <1>6 DEF Task, StepKinds

\* Every step is of one of these kinds.
LEMMA NextKinds == ASSUME TypeOK, Next PROVE StepKinds
BY DriverKinds, LoopKinds, TaskKinds DEF Next

-----------------------------------------------------------------------------
(* Nothing registered outlives its future *)

\* What NoGhosts needs to be inductive: a timer and the task that waits for it name
\* each other, and a task names no timer of the future; the receivers listed at a
\* node are its own, each once; a task that awaits a handle holds it; and a task
\* between two awaits waits for nothing.
TimersOwned ==
  /\ \A i \in DOMAIN timers : timers[i] \in DOMAIN tasks /\ tasks[timers[i]].await.timer = i
  /\ \A t \in DOMAIN tasks :
       /\ tasks[t].await.timer < nextTimer
       /\ tasks[t].await.timer \in DOMAIN timers => timers[tasks[t].await.timer] = t

ReceiversOwned ==
  \A n \in Node :
    /\ Distinct(waiters[n])
    /\ \A t \in Listed(waiters[n]) :
         t \in DOMAIN tasks /\ tasks[t].node = n /\ tasks[t].await.inner = "recv"

HandlesOwned ==
  /\ \A c \in DOMAIN joins :
       joins[c].owner \in DOMAIN tasks /\ joins[c].joiner \in {None, joins[c].owner}
  /\ \A t \in DOMAIN tasks : tasks[t].await.inner = "join" =>
       tasks[t].await.child \in DOMAIN joins /\ joins[tasks[t].await.child].owner = t

RunningFree == mode = "run" => Await = NoAwait

Owned == TimersOwned /\ ReceiversOwned /\ HandlesOwned /\ RunningFree

\* Types of what Owned speaks of.
LEMMA OwnedTypes ==
  ASSUME TypeOK
  PROVE  /\ \A t \in DOMAIN tasks :
              /\ t \in Nat /\ t < nextTask /\ tasks[t] \in SlotType
              /\ tasks[t].node \in Node /\ tasks[t].await \in AwaitType
         /\ nextTask \in Nat /\ nextTask \notin DOMAIN tasks /\ nextTask \notin DOMAIN joins
         /\ nextTimer \in Nat /\ nextTimer \notin DOMAIN timers
         /\ \A i \in DOMAIN timers : i \in Nat
         /\ None \notin DOMAIN timers /\ None \notin Nat
         /\ \A n \in Node : waiters[n] \in Seq(Nat)
         /\ waiters = [n \in Node |-> waiters[n]]
<1>1. \A t \in DOMAIN tasks : t \in Nat /\ t < nextTask /\ tasks[t] \in SlotType
  BY DEF TypeOK, TasksOK
<1>2. \A t \in DOMAIN tasks : tasks[t].node \in Node /\ tasks[t].await \in AwaitType
  BY <1>1 DEF SlotType
<1>3. nextTask \in Nat /\ nextTask \notin DOMAIN tasks /\ nextTask \notin DOMAIN joins
  BY DEF TypeOK, TasksOK
<1>4. /\ nextTimer \in Nat /\ nextTimer \notin DOMAIN timers
      /\ (\A i \in DOMAIN timers : i \in Nat) /\ None \notin DOMAIN timers /\ None \notin Nat
  BY DEF TypeOK, TimersOK, None
<1>5. (\A n \in Node : waiters[n] \in Seq(Nat)) /\ waiters = [n \in Node |-> waiters[n]]
  BY DEF TypeOK, MailOK
<1> QED BY <1>1, <1>2, <1>3, <1>4, <1>5

\* A list that is emptied.
LEMMA Emptied ==
  ASSUME TypeOK, NEW n \in Node, waiters' = [waiters EXCEPT ![n] = <<>>]
  PROVE  \A m \in Node : IF m = n THEN waiters'[m] = <<>> ELSE waiters'[m] = waiters[m]
BY DEF TypeOK, MailOK

LEMMA EmptyListed == Distinct(<<>>) /\ Listed(<<>>) = {}
BY DEF Distinct, Listed

\* Steps of the loop and the driver.
LEMMA OwnedQuiet == ASSUME Owned, Quiet PROVE Owned'
BY DEF Owned, TimersOwned, ReceiversOwned, HandlesOwned, RunningFree, Quiet, Idles, Await, Me

LEMMA OwnedAwakens == ASSUME TypeOK, Owned, NEW n \in Node, Awakens(n) PROVE Owned'
<1>1. TimersOwned' BY DEF Owned, TimersOwned, Awakens
<1>2. ReceiversOwned'
  <2>1. \A m \in Node : IF m = n THEN waiters'[m] = <<>> ELSE waiters'[m] = waiters[m]
    BY Emptied DEF Awakens
  <2> QED BY <2>1, EmptyListed DEF Owned, ReceiversOwned, Awakens
<1>3. HandlesOwned' BY DEF Owned, HandlesOwned, Awakens
<1>4. RunningFree' BY DEF Owned, RunningFree, Awakens, Idles, Await, Me
<1> QED BY <1>1, <1>2, <1>3, <1>4 DEF Owned

LEMMA OwnedGoesOff == ASSUME TypeOK, Owned, NEW i, GoesOff(i) PROVE Owned'
<1>1. TimersOwned'
  <2>1. DOMAIN timers' = DOMAIN timers \ {i} /\ \A j \in DOMAIN timers' : timers'[j] = timers[j]
    BY DEF Without, GoesOff
  <2> QED BY <2>1 DEF Owned, TimersOwned, GoesOff
<1>2. ReceiversOwned' BY DEF Owned, ReceiversOwned, GoesOff
<1>3. HandlesOwned' BY DEF Owned, HandlesOwned, GoesOff
<1>4. RunningFree' BY DEF Owned, RunningFree, GoesOff, Idles, Await, Me
<1> QED BY <1>1, <1>2, <1>3, <1>4 DEF Owned

\* A new task waits for nothing and nothing waits for it.
LEMMA OwnedAdds == ASSUME TypeOK, Owned, NEW n \in Node, Adds(n) PROVE Owned'
<1>1. /\ DOMAIN tasks' = DOMAIN tasks \union {nextTask}
      /\ tasks'[nextTask].await = NoAwait
      /\ \A t \in DOMAIN tasks : tasks'[t] = tasks[t]
  BY OwnedTypes DEF Adds, AddTask, Slot
<1>2. NoAwait.timer = None /\ NoAwait.inner = "none" BY DEF NoAwait
<1>3. TimersOwned'
  <2>1. None < nextTimer BY OwnedTypes DEF None
  <2> QED BY <1>1, <1>2, <2>1, OwnedTypes DEF Owned, TimersOwned, Adds
<1>4. ReceiversOwned' BY <1>1 DEF Owned, ReceiversOwned, Adds
<1>5. HandlesOwned'
  <2>1. CASE UNCHANGED joins BY <1>1, <1>2, <2>1 DEF Owned, HandlesOwned
  <2>2. CASE /\ mode = "run"
             /\ joins' = [c \in DOMAIN joins \union {nextTask} |->
                            IF c = nextTask THEN [owner |-> current, done |-> FALSE, joiner |-> None]
                                            ELSE joins[c]]
    <3>1. /\ DOMAIN joins' = DOMAIN joins \union {nextTask}
          /\ joins'[nextTask].owner = current /\ joins'[nextTask].joiner = None
          /\ \A c \in DOMAIN joins : joins'[c] = joins[c]
      BY <2>2, OwnedTypes
    <3>2. current \in DOMAIN tasks BY <2>2, MeType
    <3> QED BY <1>1, <1>2, <3>1, <3>2 DEF Owned, HandlesOwned
  <2> QED BY <2>1, <2>2 DEF Adds
<1>6. RunningFree'
  <2>1. mode' = "run" => mode = "run" /\ current' = current BY DEF Adds, Idles
  <2>2. mode = "run" => current \in DOMAIN tasks BY MeType
  <2> QED BY <1>1, <2>1, <2>2 DEF Owned, RunningFree, Await, Me
<1> QED BY <1>3, <1>4, <1>5, <1>6 DEF Owned

\* A crash takes the tasks of the node with all they had registered (Inner::crash_node).
LEMMA OwnedCrashes == ASSUME TypeOK, Owned, NEW n \in Node, Crashes(n) PROVE Owned'
<1>1. /\ DOMAIN tasks' = DOMAIN tasks \ TasksOf(n)
      /\ \A t \in DOMAIN tasks' : tasks'[t] = tasks[t] /\ tasks[t].node # n
  BY DEF Without, Crashes, TasksOf
<1>2. TimersOwned'
  <2>1. /\ DOMAIN timers' = {i \in DOMAIN timers : timers[i] \notin TasksOf(n)}
        /\ \A i \in DOMAIN timers' : timers'[i] = timers[i]
    BY DEF Without, Crashes, TimersAfterCrash
  <2> QED BY <1>1, <2>1 DEF Owned, TimersOwned, Crashes
<1>3. ReceiversOwned'
  <2>1. \A m \in Node : IF m = n THEN waiters'[m] = <<>> ELSE waiters'[m] = waiters[m]
    BY Emptied DEF Crashes
  <2> QED BY <1>1, <2>1, EmptyListed DEF Owned, ReceiversOwned, TasksOf
<1>4. HandlesOwned'
  <2>1. /\ DOMAIN joins' = {c \in DOMAIN joins : joins[c].owner \notin TasksOf(n)}
        /\ \A c \in DOMAIN joins' : joins'[c] = joins[c]
    BY DEF Without, Crashes
  <2> QED BY <1>1, <2>1 DEF Owned, HandlesOwned
<1>5. RunningFree' BY DEF Crashes, RunningFree
<1> QED BY <1>2, <1>3, <1>4, <1>5 DEF Owned

LEMMA OwnedLeavesSlot == ASSUME TypeOK, Owned, NEW t, LeavesSlot(t) PROVE Owned'
<1>1. TimersOwned' BY DEF Owned, TimersOwned, LeavesSlot
<1>2. ReceiversOwned'
  <2>1. waiters' = waiters /\ DOMAIN tasks' = DOMAIN tasks BY DEF LeavesSlot
  <2>2. \A u \in DOMAIN tasks : tasks'[u].node = tasks[u].node /\ tasks'[u].await = tasks[u].await
    BY DEF LeavesSlot
  <2> QED BY <2>1, <2>2 DEF Owned, ReceiversOwned
<1>3. HandlesOwned'
  <2>1. joins' = joins /\ DOMAIN tasks' = DOMAIN tasks
        /\ \A u \in DOMAIN tasks : tasks'[u].await = tasks[u].await
    BY DEF LeavesSlot
  <2>2. HandlesOwned BY DEF Owned
  <2> QED BY <2>1, <2>2 DEF HandlesOwned
<1>4. RunningFree'
  <2>1. CASE Idles
    <3>1. mode' = "run" => mode = "run" /\ current' = current /\ current \in DOMAIN tasks
      BY <2>1, MeType DEF Idles
    <3> QED BY <3>1 DEF Owned, RunningFree, LeavesSlot, Await, Me
  <2>2. CASE ~Idles BY <2>2 DEF LeavesSlot, RunningFree, Await, Me
  <2> QED BY <2>1, <2>2
<1> QED BY <1>1, <1>2, <1>3, <1>4 DEF Owned

\* A task that goes to wait has nothing registered yet.
LEMMA OwnedGoesWaiting == ASSUME TypeOK, Owned, NEW a \in AwaitType, GoesWaiting(a) PROVE Owned'
<1>1. mode = "run" /\ current \in DOMAIN tasks /\ tasks[current].await = NoAwait
  BY MeType DEF GoesWaiting, StartAwait, Owned, RunningFree, Await, Me
<1>2. UNCHANGED <<nextTask, joins, waiters, timers, nextTimer, current>> /\ mode' = "poll"
  BY DEF GoesWaiting, StartAwait, mailVars, timerVars
<1>3. /\ DOMAIN tasks' = DOMAIN tasks
      /\ \A t \in DOMAIN tasks : tasks'[t].node = tasks[t].node
                                 /\ tasks'[t].await = IF t = current THEN a ELSE tasks[t].await
  <2>1. tasks' = [tasks EXCEPT ![current].await = a] BY DEF GoesWaiting, StartAwait
  <2>2. tasks[current] \in SlotType BY <1>1, OwnedTypes
  <2> QED BY <1>1, <2>1, <2>2 DEF SlotType
<1>4. NoAwait.timer = None /\ NoAwait.inner = "none" BY DEF NoAwait
<1>5. TimersOwned'
  <2>1. \A i \in DOMAIN timers : timers[i] # current
    BY <1>1, <1>4, OwnedTypes DEF Owned, TimersOwned
  <2>2. a.timer = None /\ None < nextTimer BY OwnedTypes DEF GoesWaiting, None
  <2> QED BY <1>2, <1>3, <2>1, <2>2, OwnedTypes DEF Owned, TimersOwned
<1>6. ReceiversOwned'
  <2>1. \A n \in Node : current \notin Listed(waiters[n])
    BY <1>1, <1>4 DEF Owned, ReceiversOwned
  <2> QED BY <1>2, <1>3, <2>1 DEF Owned, ReceiversOwned
<1>7. HandlesOwned' BY <1>2, <1>3 DEF Owned, HandlesOwned, GoesWaiting
<1> QED BY <1>2, <1>5, <1>6, <1>7 DEF Owned, RunningFree

\* When an await ends its timer and its registration end with it.
LEMMA ResumeOwned ==
  ASSUME TypeOK, Owned, Resume
  PROVE  /\ TimersOwned' /\ RunningFree'
         /\ current \in DOMAIN tasks /\ Me.node \in Node
         /\ DOMAIN tasks' = DOMAIN tasks
         /\ \A t \in DOMAIN tasks : tasks'[t].node = tasks[t].node
                                    /\ tasks'[t].held = tasks[t].held
                                    /\ tasks'[t].await = IF t = current THEN NoAwait ELSE tasks[t].await
         /\ waiters' = [waiters EXCEPT ![Me.node] = Unregister(@, current)] => ReceiversOwned'
         /\ UNCHANGED waiters /\ Await.inner # "recv" => ReceiversOwned'
<1>1. /\ current \in DOMAIN tasks /\ current \in Nat /\ Me.node \in Node
      /\ Me = tasks[current] /\ Await = tasks[current].await
  BY MeType DEF Resume, Me, Await
<1>2. /\ tasks' = [tasks EXCEPT ![current].await = NoAwait]
      /\ timers' = Without(timers, {Await.timer})
      /\ UNCHANGED <<nextTask, current, nextTimer>> /\ mode' = "run"
  BY DEF Resume
<1>3. /\ DOMAIN tasks' = DOMAIN tasks
      /\ \A t \in DOMAIN tasks : tasks'[t].node = tasks[t].node
                                 /\ tasks'[t].held = tasks[t].held
                                 /\ tasks'[t].await = IF t = current THEN NoAwait ELSE tasks[t].await
  <2>1. tasks[current] \in SlotType BY <1>1, OwnedTypes
  <2> QED BY <1>1, <1>2, <2>1 DEF SlotType
<1>4. NoAwait.timer = None /\ NoAwait.inner = "none" BY DEF NoAwait
<1>5. TimersOwned'
  <2>1. DOMAIN timers' = DOMAIN timers \ {Await.timer} /\ \A i \in DOMAIN timers' : timers'[i] = timers[i]
    BY <1>2 DEF Without
  <2>2. \A i \in DOMAIN timers' : timers[i] # current BY <1>1, <2>1 DEF Owned, TimersOwned
  <2>3. None < nextTimer BY OwnedTypes DEF None
  <2>4. ASSUME NEW i \in DOMAIN timers'
        PROVE  timers'[i] \in DOMAIN tasks' /\ tasks'[timers'[i]].await.timer = i
    BY <1>3, <2>1, <2>2 DEF Owned, TimersOwned
  <2>5. ASSUME NEW t \in DOMAIN tasks'
        PROVE  /\ tasks'[t].await.timer < nextTimer'
               /\ tasks'[t].await.timer \in DOMAIN timers' => timers'[tasks'[t].await.timer] = t
    <3>1. CASE t = current
      <4>1. tasks'[t].await.timer = None BY <1>3, <1>4, <3>1
      <4>2. None \notin DOMAIN timers' BY <2>1, OwnedTypes
      <4> QED BY <1>2, <2>3, <4>1, <4>2
    <3>2. CASE t # current BY <1>2, <1>3, <2>1, <3>2 DEF Owned, TimersOwned
    <3> QED BY <3>1, <3>2
  <2> QED BY <2>4, <2>5 DEF TimersOwned
<1>6. RunningFree' BY <1>1, <1>2, <1>3 DEF RunningFree, Await, Me
<1>7. ASSUME waiters' = [waiters EXCEPT ![Me.node] = Unregister(@, current)] PROVE ReceiversOwned'
  <2> SUFFICES ASSUME NEW n \in Node
               PROVE  /\ Distinct(waiters'[n])
                      /\ \A t \in Listed(waiters'[n]) :
                           t \in DOMAIN tasks' /\ tasks'[t].node = n /\ tasks'[t].await.inner = "recv"
    BY DEF ReceiversOwned
  <2>1. waiters[n] \in Seq(Nat) /\ Distinct(waiters[n]) BY OwnedTypes DEF Owned, ReceiversOwned
  <2>2. waiters'[n] = IF n = Me.node THEN Unregister(waiters[n], current) ELSE waiters[n]
    BY <1>1, <1>7, OwnedTypes
  <2>3. Distinct(waiters'[n]) /\ Listed(waiters'[n]) = Listed(waiters[n]) \ {current}
    <3>1. CASE n = Me.node BY <1>1, <2>1, <2>2, <3>1, UnregisterListed
    <3>2. CASE n # Me.node BY <1>1, <2>1, <2>2, <3>2 DEF Owned, ReceiversOwned
    <3> QED BY <3>1, <3>2
  <2> QED BY <1>3, <2>3 DEF Owned, ReceiversOwned
<1>8. ASSUME UNCHANGED waiters, Await.inner # "recv" PROVE ReceiversOwned'
  BY <1>1, <1>3, <1>8 DEF Owned, ReceiversOwned
<1> QED BY <1>1, <1>3, <1>5, <1>6, <1>7, <1>8

\* A handle that is given up was the task's own; one that is polled stays so.
LEMMA HandleDropped ==
  ASSUME TypeOK, Owned, mode = "poll", Await.inner = "join",
         joins' = Without(joins, {Await.child}),
         DOMAIN tasks' = DOMAIN tasks,
         \A t \in DOMAIN tasks : tasks'[t].await = IF t = current THEN NoAwait ELSE tasks[t].await
  PROVE  HandlesOwned'
<1>1. current \in DOMAIN tasks /\ Await = tasks[current].await BY MeType DEF Me, Await
<1>2. joins[Await.child].owner = current BY <1>1 DEF Owned, HandlesOwned
<1>3. DOMAIN joins' = DOMAIN joins \ {Await.child} /\ \A c \in DOMAIN joins' : joins'[c] = joins[c]
  BY DEF Without
<1>4. NoAwait.inner = "none" BY DEF NoAwait
<1>5. ASSUME NEW c \in DOMAIN joins'
      PROVE  joins'[c].owner \in DOMAIN tasks' /\ joins'[c].joiner \in {None, joins'[c].owner}
  BY <1>3 DEF Owned, HandlesOwned
<1>6. ASSUME NEW t \in DOMAIN tasks', tasks'[t].await.inner = "join"
      PROVE  tasks'[t].await.child \in DOMAIN joins' /\ joins'[tasks'[t].await.child].owner = t
  <2>1. t # current /\ t \in DOMAIN tasks /\ tasks'[t].await = tasks[t].await BY <1>4, <1>6
  <2>2. tasks[t].await.child \in DOMAIN joins /\ joins[tasks[t].await.child].owner = t
    BY <1>6, <2>1 DEF Owned, HandlesOwned
  <2> QED BY <1>2, <1>3, <2>1, <2>2
<1> QED BY <1>5, <1>6 DEF HandlesOwned

LEMMA HandlePolled ==
  ASSUME TypeOK, Owned, mode = "poll", Await.inner = "join", JoinAwaited,
         DOMAIN tasks' = DOMAIN tasks,
         \A t \in DOMAIN tasks : \/ tasks'[t].await.inner # "join"
                                 \/ /\ tasks[t].await.inner = "join"
                                    /\ tasks'[t].await.child = tasks[t].await.child
  PROVE  /\ HandlesOwned'
         /\ DOMAIN joins' = DOMAIN joins
         /\ \A c \in DOMAIN joins : /\ joins'[c].owner = joins[c].owner
                                    /\ joins'[c].done = joins[c].done
                                    /\ joins'[c].joiner = IF c = Await.child THEN current
                                                          ELSE joins[c].joiner
<1>1. current \in DOMAIN tasks /\ Await = tasks[current].await BY MeType DEF Me, Await
<1>2. Await.child \in DOMAIN joins /\ joins[Await.child].owner = current
  BY <1>1 DEF Owned, HandlesOwned
<1>3. joins' = [joins EXCEPT ![Await.child].joiner = current] BY DEF JoinAwaited
<1>4. \A c \in DOMAIN joins : joins[c] \in JoinType BY DEF TypeOK, TasksOK
<1> HIDE DEF Await
<1>5. /\ DOMAIN joins' = DOMAIN joins
      /\ \A c \in DOMAIN joins : /\ joins'[c].owner = joins[c].owner
                                 /\ joins'[c].done = joins[c].done
                                 /\ joins'[c].joiner = IF c = Await.child THEN current
                                                       ELSE joins[c].joiner
  BY <1>2, <1>3, <1>4 DEF JoinType
<1>6. HandlesOwned' BY <1>2, <1>5 DEF Owned, HandlesOwned
<1> QED BY <1>5, <1>6

LEMMA OwnedResumes == ASSUME TypeOK, Owned, TakeMessage \/ TakeOutput \/ TimeUp PROVE Owned'
<1>1. Resume BY DEF TakeMessage, TakeOutput, TimeUp
<1>2. mode = "poll" BY <1>1 DEF Resume
<1>3. NoAwait.inner = "none" BY DEF NoAwait
<1>4. CASE TakeMessage
  <2>1. ReceiversOwned' BY <1>1, <1>4, ResumeOwned DEF TakeMessage
  <2>2. HandlesOwned'
    <3>1. UNCHANGED joins BY <1>4 DEF TakeMessage
    <3> QED BY <1>1, <1>3, <3>1, ResumeOwned DEF Owned, HandlesOwned
  <2> QED BY <1>1, <2>1, <2>2, ResumeOwned DEF Owned
<1>5. CASE TakeOutput
  <2>1. ReceiversOwned' BY <1>1, <1>5, ResumeOwned DEF TakeOutput, mailVars
  <2>2. HandlesOwned' BY <1>1, <1>2, <1>5, ResumeOwned, HandleDropped DEF TakeOutput
  <2> QED BY <1>1, <2>1, <2>2, ResumeOwned DEF Owned
<1>6. CASE TimeUp
  <2>1. ReceiversOwned' BY <1>1, <1>6, ResumeOwned DEF TimeUp
  <2>2. HandlesOwned'
    <3>1. CASE UNCHANGED joins BY <1>1, <1>3, <3>1, ResumeOwned DEF Owned, HandlesOwned
    <3>2. CASE Await.inner = "join" /\ JoinAwaited
      BY <1>1, <1>2, <1>3, <3>2, ResumeOwned, HandlePolled
    <3>3. CASE Await.inner = "join" /\ joins' = Without(joins, {Await.child})
      BY <1>1, <1>2, <3>3, ResumeOwned, HandleDropped
    <3> QED BY <1>6, <3>1, <3>2, <3>3 DEF TimeUp
  <2> QED BY <1>1, <2>1, <2>2, ResumeOwned DEF Owned
<1> QED BY <1>4, <1>5, <1>6

\* The slot of a task that parks: only its deadline and its timer are new.
LEMMA ParkedTask ==
  ASSUME TypeOK, Park
  PROVE  /\ DOMAIN tasks' = DOMAIN tasks
         /\ \A t \in DOMAIN tasks \ {current} : tasks'[t] = tasks[t]
         /\ tasks'[current].node = Me.node /\ tasks'[current].held = TRUE
         /\ tasks'[current].await.inner = Await.inner
         /\ tasks'[current].await.child = Await.child
         /\ tasks'[current].await.dur = Await.dur
         /\ tasks'[current].await.timer = IF Rearms THEN nextTimer ELSE Await.timer
<1>1. current \in DOMAIN tasks /\ Me \in SlotType /\ Await \in AwaitType
  BY MeType DEF Park
<1> DEFINE dl == IF Await.dur = None THEN None ELSE Deadline
           ti == IF Rearms THEN nextTimer ELSE Await.timer
<1>2. tasks' = [tasks EXCEPT ![current] =
                  [@ EXCEPT !.held = TRUE, !.await.deadline = dl, !.await.timer = ti]]
  BY DEF Park
<1> HIDE DEF dl, ti
<1>3. /\ DOMAIN tasks' = DOMAIN tasks
      /\ \A t \in DOMAIN tasks \ {current} : tasks'[t] = tasks[t]
  BY <1>2
<1>4. /\ tasks'[current].node = Me.node /\ tasks'[current].held = TRUE
      /\ tasks'[current].await = [Await EXCEPT !.deadline = dl, !.timer = ti]
  BY <1>1, <1>2 DEF SlotType, Me, Await
<1>5. \A a \in AwaitType :
        LET b == [a EXCEPT !.deadline = dl, !.timer = ti]
        IN  b.inner = a.inner /\ b.child = a.child /\ b.dur = a.dur /\ b.timer = ti
  BY DEF AwaitType
<1>6. /\ tasks'[current].await.inner = Await.inner
      /\ tasks'[current].await.child = Await.child
      /\ tasks'[current].await.dur = Await.dur
      /\ tasks'[current].await.timer = ti
  BY <1>1, <1>4, <1>5
<1> QED BY <1>3, <1>4, <1>6 DEF ti

\* A new timer is registered only for a task that has none.
LEMMA OwnedParks == ASSUME TypeOK, Owned, Park PROVE Owned'
<1>1. /\ current \in DOMAIN tasks /\ current \in Nat /\ Me.node \in Node
      /\ Me = tasks[current] /\ Await = tasks[current].await /\ Await \in AwaitType
  BY MeType DEF Park, Me, Await
<1>2. mode = "poll" /\ mode' = "loop" BY DEF Park
<1>3. /\ DOMAIN tasks' = DOMAIN tasks
      /\ \A t \in DOMAIN tasks \ {current} : tasks'[t] = tasks[t]
      /\ tasks'[current].node = Me.node
      /\ tasks'[current].await.inner = Await.inner
      /\ tasks'[current].await.child = Await.child
      /\ tasks'[current].await.timer = IF Rearms THEN nextTimer ELSE Await.timer
  BY ParkedTask
<1>4. TimersOwned'
  <2>1. CASE Rearms
    <3>1. /\ timers' = [i \in DOMAIN timers \union {nextTimer} |->
                          IF i = nextTimer THEN current ELSE timers[i]]
          /\ nextTimer' = nextTimer + 1
      BY <2>1 DEF Park
    <3>2. \A i \in DOMAIN timers : timers[i] # current
      BY <1>1, <2>1 DEF Owned, TimersOwned, Rearms
    <3>3. nextTimer \in Nat /\ nextTimer \notin DOMAIN timers BY OwnedTypes
    <3>4. ASSUME NEW i \in DOMAIN timers'
          PROVE  timers'[i] \in DOMAIN tasks' /\ tasks'[timers'[i]].await.timer = i
      BY <1>1, <1>3, <2>1, <3>1, <3>2 DEF Owned, TimersOwned
    <3>5. ASSUME NEW t \in DOMAIN tasks'
          PROVE  /\ tasks'[t].await.timer < nextTimer'
                 /\ tasks'[t].await.timer \in DOMAIN timers' => timers'[tasks'[t].await.timer] = t
      <4>1. CASE t = current BY <1>3, <2>1, <3>1, <3>3, <4>1
      <4>2. CASE t # current
        <5>1. tasks'[t].await.timer = tasks[t].await.timer /\ t \in DOMAIN tasks BY <1>3, <4>2
        <5>2. tasks[t].await.timer \in Nat \union {None} /\ tasks[t].await.timer < nextTimer
          BY <5>1, OwnedTypes DEF Owned, TimersOwned, AwaitType
        <5> QED BY <3>1, <3>3, <5>1, <5>2 DEF Owned, TimersOwned, None
      <4> QED BY <4>1, <4>2
    <3> QED BY <3>4, <3>5 DEF TimersOwned
  <2>2. CASE ~Rearms
    <3>1. UNCHANGED timerVars BY <2>2 DEF Park
    <3>2. \A t \in DOMAIN tasks : tasks'[t].await.timer = tasks[t].await.timer
      BY <1>1, <1>3, <2>2
    <3> QED BY <1>3, <3>1, <3>2 DEF Owned, TimersOwned, timerVars
  <2> QED BY <2>1, <2>2
<1>5. ReceiversOwned'
  <2> SUFFICES ASSUME NEW n \in Node
               PROVE  /\ Distinct(waiters'[n])
                      /\ \A t \in Listed(waiters'[n]) :
                           t \in DOMAIN tasks' /\ tasks'[t].node = n /\ tasks'[t].await.inner = "recv"
    BY DEF ReceiversOwned
  <2>1. waiters[n] \in Seq(Nat) /\ Distinct(waiters[n]) BY OwnedTypes DEF Owned, ReceiversOwned
  <2>2. \A t \in Listed(waiters[n]) :
          t \in DOMAIN tasks' /\ tasks'[t].node = n /\ tasks'[t].await.inner = "recv"
    BY <1>1, <1>3 DEF Owned, ReceiversOwned
  <2>3. CASE Await.inner = "recv" /\ n = Me.node
    <3>1. waiters'[n] = Register(waiters[n], current) BY <1>1, <2>3, OwnedTypes DEF Park
    <3> QED BY <1>1, <1>3, <2>1, <2>2, <2>3, <3>1, RegisterListed
  <2>4. CASE ~(Await.inner = "recv" /\ n = Me.node)
    <3>1. waiters'[n] = waiters[n] BY <1>1, <2>4, OwnedTypes DEF Park
    <3> QED BY <2>1, <2>2, <3>1
  <2> QED BY <2>3, <2>4
<1>6. HandlesOwned'
  <2>1. CASE Await.inner = "join"
    <3>1. JoinAwaited BY <2>1 DEF Park
    <3>2. \A t \in DOMAIN tasks : /\ tasks'[t].await.inner = tasks[t].await.inner
                                  /\ tasks'[t].await.child = tasks[t].await.child
      BY <1>1, <1>3
    <3> QED BY <1>2, <1>3, <2>1, <3>1, <3>2, HandlePolled
  <2>2. CASE Await.inner # "join"
    <3>1. UNCHANGED joins BY <2>2 DEF Park
    <3>2. \A t \in DOMAIN tasks : /\ tasks'[t].await.inner = tasks[t].await.inner
                                  /\ tasks'[t].await.child = tasks[t].await.child
      BY <1>1, <1>3
    <3> QED BY <1>3, <3>1, <3>2 DEF Owned, HandlesOwned
  <2> QED BY <2>1, <2>2
<1>7. RunningFree' BY <1>2 DEF RunningFree
<1> QED BY <1>4, <1>5, <1>6, <1>7 DEF Owned

\* A task that returns waits for nothing and takes its handles along.
LEMMA OwnedFinishes == ASSUME TypeOK, Owned, Finish PROVE Owned'
<1>1. mode = "run" /\ current \in DOMAIN tasks /\ tasks[current].await = NoAwait
  BY MeType DEF Finish, Owned, RunningFree, Await, Me
<1>2. NoAwait.timer = None /\ NoAwait.inner = "none" BY DEF NoAwait
<1>3. /\ DOMAIN tasks' = DOMAIN tasks \ {current} /\ \A t \in DOMAIN tasks' : tasks'[t] = tasks[t]
      /\ UNCHANGED <<timers, nextTimer, waiters>> /\ mode' = "loop"
  BY DEF Finish, Without, timerVars, mailVars
<1>4. TimersOwned'
  <2>1. \A i \in DOMAIN timers : timers[i] # current
    BY <1>1, <1>2, OwnedTypes DEF Owned, TimersOwned
  <2> QED BY <1>3, <2>1 DEF Owned, TimersOwned
<1>5. ReceiversOwned'
  <2>1. \A n \in Node : current \notin Listed(waiters[n])
    BY <1>1, <1>2 DEF Owned, ReceiversOwned
  <2> QED BY <1>3, <2>1 DEF Owned, ReceiversOwned
<1>6. HandlesOwned'
  <2>1. joins' = Finished(current) BY DEF Finish
  <2>2. /\ DOMAIN joins' = {c \in DOMAIN joins : joins[c].owner # current}
        /\ \A c \in DOMAIN joins' : /\ joins'[c].owner = joins[c].owner
                                    /\ joins'[c].joiner \in {None, joins[c].joiner}
    <3>1. \A c \in DOMAIN joins : joins[c] \in JoinType BY DEF TypeOK, TasksOK
    <3> QED BY <2>1, <3>1 DEF Finished, JoinType
  <2> QED BY <1>3, <2>2 DEF Owned, HandlesOwned
<1> QED BY <1>3, <1>4, <1>5, <1>6 DEF Owned, RunningFree

\* Every step keeps it.
LEMMA OwnedStep == ASSUME TypeOK, Owned, [Next]_vars PROVE Owned'
<1>1. CASE StepKinds
  BY <1>1, OwnedQuiet, OwnedAwakens, OwnedAdds, OwnedCrashes, OwnedGoesOff, OwnedLeavesSlot,
     OwnedResumes, OwnedParks, OwnedGoesWaiting, OwnedFinishes DEF StepKinds
<1>2. CASE UNCHANGED vars
  <2>1. Quiet BY <1>2 DEF vars, Quiet, Idles, taskVars, mailVars, timerVars
  <2> QED BY <2>1, OwnedQuiet
<1> QED BY <1>1, <1>2, NextKinds

LEMMA OwnedInit == Init => Owned
<1> SUFFICES ASSUME Init PROVE Owned OBVIOUS
<1>1. DOMAIN tasks = {} /\ DOMAIN joins = {} /\ DOMAIN timers = {} BY DEF Init, EmptyMap
<1>2. \A n \in Node : waiters[n] = <<>> BY DEF Init
<1>3. mode = "idle" BY DEF Init
<1> QED BY <1>1, <1>2, <1>3, EmptyListed
    DEF Owned, TimersOwned, ReceiversOwned, HandlesOwned, RunningFree

\* No future leaves a ghost behind: a registered timer, receiver or joiner belongs to
\* a task that exists and still waits for just that, whatever completes, times out,
\* is dropped or crashes (PRD 8.4; SleepFuture, RecvFuture and SimJoinHandle).
THEOREM NothingLeftBehind == Spec => []NoGhosts
<1>1. Owned => NoGhosts
  <2>1. \A n \in Node : \A k \in DOMAIN waiters[n] : waiters[n][k] \in Listed(waiters[n])
    BY DEF Listed
  <2> QED BY <2>1 DEF Owned, TimersOwned, ReceiversOwned, HandlesOwned, NoGhosts
<1>2. TypeOK /\ Owned /\ [Next]_vars => Owned' BY OwnedStep
<1> QED BY <1>1, <1>2, OwnedInit, TypeCorrect, PTL DEF Spec

-----------------------------------------------------------------------------
(* A crashed node is down *)

\* What a step does to the set of crashed nodes, to inboxes and to messages on their
\* way: it crashes a node and sweeps after it; or it crashes none, fills no inbox of
\* a crashed node and sends from the node of the current task only.
LEMMA CrashKinds ==
  ASSUME TypeOK, Next
  PROVE  \/ \E n \in nodes :
              /\ Crashes(n) /\ crashed' = crashed \union {n}
              /\ inbox' = [inbox EXCEPT ![n] = <<>>]
              /\ \A e \in queue' : e \in queue /\ (e.kind = "msg" => e.from # n)
         \/ /\ crashed' \subseteq crashed
            /\ \A n \in crashed : inbox[n] = <<>> => inbox'[n] = <<>>
            /\ \A e \in queue' : e.kind = "msg" => \/ e \in queue
                                                   \/ mode = "run" /\ e.from = Me.node
<1> DEFINE Sweeps(n) ==
             /\ Crashes(n) /\ crashed' = crashed \union {n}
             /\ inbox' = [inbox EXCEPT ![n] = <<>>]
             /\ \A e \in queue' : e \in queue /\ (e.kind = "msg" => e.from # n)
           Leaves ==
             /\ crashed' \subseteq crashed
             /\ \A n \in crashed : inbox[n] = <<>> => inbox'[n] = <<>>
             /\ \A e \in queue' : e.kind = "msg" => \/ e \in queue
                                                    \/ mode = "run" /\ e.from = Me.node
           Goal == (\E n \in nodes : Sweeps(n)) \/ Leaves
<1>1. ASSUME UNCHANGED <<crashed, inbox>>, \A e \in queue' : e.kind = "msg" => e \in queue
      PROVE  Leaves
  BY <1>1
<1>2. ASSUME NEW a \in ActionType, NEW q \in SUBSET queue, ApplyNemesis(a, q),
             mode \in {"idle", "loop"}, UNCHANGED <<mode, current>>
      PROVE  Goal
  <2>1. CASE UNCHANGED <<crashed, inbox>> /\ queue' = q BY <1>1, <2>1
  <2>2. CASE a.kind = "crash" /\ CrashNode(a.node, q) /\ CanCrash(a.node)
    <3> DEFINE n == a.node
    <3>1. n \in nodes BY <2>2 DEF CanCrash
    <3>2. Crashes(n) BY <1>2, <2>2 DEF ApplyNemesis, CrashNode, Crashes
    <3>3. crashed' = crashed \union {n} /\ inbox' = [inbox EXCEPT ![n] = <<>>]
      BY <2>2 DEF CrashNode
    <3>4. \A e \in queue' : e \in queue /\ (e.kind = "msg" => e.from # n)
      <4>1. queue' = {e \in q : LiveAfterCrash(e, n, TimersAfterCrash(n))}
        BY <2>2 DEF CrashNode
      <4> QED BY <4>1 DEF LiveAfterCrash
    <3> QED BY <3>1, <3>2, <3>3, <3>4
  <2> QED BY <1>2, <2>1, <2>2 DEF ApplyNemesis, CrashNode
<1>3. ASSUME NEW n, NEW q \in SUBSET queue, NEW at, RestartNode(n, q, at), UNCHANGED inbox
      PROVE  Goal
  <2>1. crashed' \subseteq crashed BY <1>3 DEF RestartNode
  <2>2. \A e \in queue' : e.kind = "msg" => e \in queue
    BY <1>3 DEF RestartNode, Push, PollEvent
  <2> QED BY <1>3, <2>1, <2>2
<1>4. CASE Driver
  <2>1. ASSUME NEW n \in Node, AddNode(n) \/ SpawnFromOutside(n) PROVE Leaves
    <3>1. UNCHANGED <<crashed, inbox>>
      BY <2>1 DEF AddNode, SpawnFromOutside, Call, clusterVars, mailVars
    <3>2. \A e \in queue' : e.kind = "msg" => e \in queue
      BY <2>1 DEF AddNode, SpawnFromOutside, Push, PollEvent
    <3> QED BY <1>1, <3>1, <3>2
  <2>2. ASSUME NEW at \in Times, NEW a \in Actions, ScheduleNemesis(at, a) PROVE Leaves
    <3>1. UNCHANGED <<crashed, inbox>> BY <2>2 DEF ScheduleNemesis, clusterVars, mailVars
    <3>2. \A e \in queue' : e.kind = "msg" => e \in queue
      BY <2>2 DEF ScheduleNemesis, Push, NemesisEvent
    <3> QED BY <1>1, <3>1, <3>2
  <2>3. ASSUME NEW a \in Actions, ApplyNow(a) PROVE Goal
    <3>1. /\ ApplyNemesis(a, queue) /\ a \in ActionType
          /\ mode \in {"idle", "loop"} /\ UNCHANGED <<mode, current>>
      BY <2>3, ConstantsOK DEF ApplyNow, Call
    <3> QED BY <1>2, <3>1
  <2>4. ASSUME NEW a \in Actions, RestartNow(a) PROVE Goal
    <3>1. RestartNode(a.node, queue, now) /\ UNCHANGED inbox
      BY <2>4 DEF RestartNow, mailVars
    <3> QED BY <1>3, <3>1
  <2>5. ASSUME SetFaults \/ Run PROVE Leaves
    <3>1. UNCHANGED <<crashed, inbox, queue>>
      BY <2>5 DEF SetFaults, Run, eventVars, clusterVars, mailVars
    <3> QED BY <1>1, <3>1
  <2> QED BY <1>4, <2>1, <2>2, <2>3, <2>4, <2>5 DEF Driver
<1>5. CASE Loop
  <2>1. CASE Quiesce
    <3>1. UNCHANGED <<crashed, inbox, queue>> BY <2>1 DEF Quiesce, clusterVars, mailVars
    <3> QED BY <1>1, <3>1
  <2>2. ASSUME NEW e \in queue,
               Abort(e) \/ SkipTimer(e) \/ DropMsg(e) \/ SkipPoll(e) \/ PollTask(e) \/ FireTimer(e)
        PROVE  Leaves
    <3>1. UNCHANGED <<crashed, inbox>>
      BY <2>2 DEF Abort, SkipTimer, DropMsg, SkipPoll, PollTask, FireTimer, clusterVars, mailVars
    <3>2. \A f \in queue' : f.kind = "msg" => f \in queue
      BY <2>2 DEF Abort, SkipTimer, DropMsg, SkipPoll, PollTask, FireTimer, Skip, Push, PollEvent
    <3> QED BY <1>1, <3>1, <3>2
  <2>3. ASSUME NEW e \in queue, DeliverMsg(e) PROVE Leaves
    <3>1. UNCHANGED crashed /\ e.to \notin crashed
      BY <2>3 DEF DeliverMsg, Deliverable, clusterVars
    <3>2. \A f \in queue' : f.kind = "msg" => f \in queue
      BY <2>3 DEF DeliverMsg, PollAll, PollEvent
    <3>3. \A n \in crashed : inbox'[n] = inbox[n]
      BY <2>3, <3>1 DEF DeliverMsg, TypeOK, MailOK, ClusterOK
    <3> QED BY <3>1, <3>2, <3>3
  <2>4. ASSUME NEW e \in queue, NemesisStep(e) PROVE Goal
    <3>1. /\ e.kind = "nemesis" /\ ApplyNemesis(e.action, queue \ {e})
          /\ mode \in {"idle", "loop"} /\ UNCHANGED <<mode, current>>
      BY <2>4 DEF NemesisStep, Dispatch, Pop
    <3>2. e.action \in ActionType /\ queue \ {e} \in SUBSET queue
      BY <3>1 DEF TypeOK, EventsOK, EventType
    <3> QED BY <1>2, <3>1, <3>2
  <2>5. ASSUME NEW e \in queue, RestartStep(e) PROVE Goal
    <3>1. RestartNode(e.action.node, queue \ {e}, e.time) /\ UNCHANGED inbox
      BY <2>5 DEF RestartStep, mailVars
    <3>2. queue \ {e} \in SUBSET queue OBVIOUS
    <3> QED BY <1>3, <3>1, <3>2
  <2> QED BY <1>5, <2>1, <2>2, <2>3, <2>4, <2>5 DEF Loop
<1>6. CASE Task
  <2>1. UNCHANGED crashed
    BY <1>6 DEF Task, TakeMessage, TakeOutput, TimeUp, Resume, Park, ReadNow, Send, Spawn, AwaitRecv,
                AwaitSleep, AwaitJoin, StartAwait, Finish, clusterVars
  <2>2. \A n \in crashed : inbox[n] = <<>> => inbox'[n] = <<>>
    <3>1. CASE TakeMessage
      <4>1. inbox' = [inbox EXCEPT ![Me.node] = Tail(@)] /\ inbox[Me.node] # <<>>
        BY <3>1 DEF TakeMessage, InnerReady
      <4> QED BY <4>1 DEF TypeOK, MailOK, ClusterOK
    <3>2. CASE ~TakeMessage
      BY <1>6, <3>2 DEF Task, TakeOutput, TimeUp, Park, ReadNow, Send, Spawn, AwaitRecv,
                AwaitSleep, AwaitJoin, StartAwait, Finish, mailVars
    <3> QED BY <3>1, <3>2
  <2>3. \A e \in queue' : e.kind = "msg" => e \in queue \/ (mode = "run" /\ e.from = Me.node)
    <3>1. CASE \E to \in Node : Send(to) BY <3>1 DEF Send, Push, MsgEvent
    <3>2. CASE Park \/ Spawn BY <3>2 DEF Park, Spawn, Push, TimerEvent, PollEvent
    <3>3. CASE Finish BY <3>3 DEF Finish, PollAll, PollEvent
    <3>4. CASE UNCHANGED queue BY <3>4
    <3> QED BY <1>6, <3>1, <3>2, <3>3, <3>4
        DEF Task, TakeMessage, TakeOutput, TimeUp, Resume, ReadNow, AwaitRecv, AwaitSleep,
            AwaitJoin, StartAwait, eventVars
  <2> QED BY <2>1, <2>2, <2>3
<1> QED BY <1>4, <1>5, <1>6 DEF Next

\* The node of a task that runs is up.
LEMMA RunsOnLiveNode ==
  ASSUME TypeOK, CrashedIsDown, mode \in {"run", "poll"}
  PROVE  current \in DOMAIN tasks /\ Me.node \notin crashed /\ Me.node \in Node
BY MeType DEF CrashedIsDown, TasksOf, Me

\* A task of a crashed node is taken up by no step that leaves the node crashed.
LEMMA DownTasks ==
  ASSUME TypeOK, TypeOK', CrashedIsDown, StepKinds, NEW n \in crashed, n \in crashed'
  PROVE  /\ waiters'[n] = <<>>
         /\ \A t \in TasksOf(n)' : tasks'[t].await = NoAwait /\ t # current'
<1> DEFINE Down == /\ waiters'[n] = <<>>
                   /\ \A t \in TasksOf(n)' : tasks'[t].await = NoAwait /\ t # current'
<1>0. /\ n \in Node /\ waiters[n] = <<>>
      /\ \A t \in TasksOf(n) : tasks[t].await = NoAwait /\ t # current
  BY DEF CrashedIsDown, TypeOK, ClusterOK
<1>1. Idles => current' \in {None, current}
  BY DEF Idles, TypeOK, ModeOK
<1>2. None \notin DOMAIN tasks /\ None \notin DOMAIN tasks' /\ nextTask \notin DOMAIN tasks
  <2>1. None \notin DOMAIN tasks' BY DEF TypeOK, TasksOK, None
  <2>2. None \notin DOMAIN tasks BY DEF TypeOK, TasksOK, None
  <2> QED BY <2>1, <2>2, OwnedTypes
<1>3. CASE Quiet BY <1>0, <1>1, <1>2, <1>3 DEF Quiet, TasksOf
<1>4. ASSUME NEW m \in Node, Awakens(m) PROVE Down
  <2>1. waiters'[n] = <<>>
    <3>1. \A k \in Node : IF k = m THEN waiters'[k] = <<>> ELSE waiters'[k] = waiters[k]
      BY <1>4, Emptied DEF Awakens
    <3> QED BY <1>0, <3>1
  <2> QED BY <1>0, <1>1, <1>2, <1>4, <2>1 DEF Awakens, TasksOf
<1>5. ASSUME NEW m \in Node, Adds(m) PROVE Down
  <2>1. /\ DOMAIN tasks' = DOMAIN tasks \union {nextTask}
        /\ tasks'[nextTask].await = NoAwait
        /\ \A t \in DOMAIN tasks : tasks'[t] = tasks[t]
        /\ waiters' = waiters
    BY <1>5, OwnedTypes DEF Adds, AddTask, Slot
  <2>2. current' # nextTask
    <3>1. current \in DOMAIN tasks \union {None} BY DEF TypeOK, ModeOK
    <3>2. nextTask # None BY <1>2, <2>1
    <3> QED BY <1>1, <1>2, <1>5, <3>1, <3>2 DEF Adds
  <2> QED BY <1>0, <1>1, <1>2, <1>5, <2>1, <2>2 DEF Adds, TasksOf
<1>6. ASSUME NEW m \in Node, Crashes(m) PROVE Down
  <2>1. waiters'[n] = <<>>
    <3>1. \A k \in Node : IF k = m THEN waiters'[k] = <<>> ELSE waiters'[k] = waiters[k]
      BY <1>6, Emptied DEF Crashes
    <3> QED BY <1>0, <3>1
  <2>2. DOMAIN tasks' \subseteq DOMAIN tasks /\ \A t \in DOMAIN tasks' : tasks'[t] = tasks[t]
    BY <1>6 DEF Crashes, Without
  <2> QED BY <1>0, <1>6, <2>1, <2>2 DEF Crashes, TasksOf
<1>7. ASSUME NEW i \in Nat, GoesOff(i) PROVE Down
  BY <1>0, <1>1, <1>2, <1>7 DEF GoesOff, TasksOf
<1>8. ASSUME NEW t \in Nat, LeavesSlot(t) PROVE Down
  <2>1. waiters' = waiters /\ DOMAIN tasks' = DOMAIN tasks BY <1>8 DEF LeavesSlot
  <2>2. \A u \in DOMAIN tasks : tasks'[u].node = tasks[u].node /\ tasks'[u].await = tasks[u].await
    BY <1>8 DEF LeavesSlot
  <2>3. current' \in {None, current} \/ (current' = t /\ tasks[t].node \notin crashed)
    BY <1>1, <1>8 DEF LeavesSlot
  <2> QED BY <1>0, <1>2, <2>1, <2>2, <2>3 DEF TasksOf
<1>9. CASE TakeMessage \/ TakeOutput \/ TimeUp \/ Park \/ Finish \/ \E a \in AwaitType : GoesWaiting(a)
  <2>1. mode \in {"run", "poll"}
    BY <1>9 DEF TakeMessage, TakeOutput, TimeUp, Resume, Park, Finish, GoesWaiting, StartAwait
  <2>2. current \in DOMAIN tasks /\ Me.node # n /\ Me.node \in Node BY <2>1, RunsOnLiveNode
  <2>3. waiters'[n] = waiters[n]
    <3>1. \/ UNCHANGED waiters
          \/ waiters' = [waiters EXCEPT ![Me.node] = Unregister(@, current)]
          \/ waiters' = [waiters EXCEPT ![Me.node] = Register(@, current)]
      BY <1>9 DEF TakeMessage, TakeOutput, TimeUp, Park, Finish, GoesWaiting, StartAwait, mailVars
    <3> QED BY <1>0, <2>2, <3>1, OwnedTypes
  <2>4. current' \in {current, None}
    BY <1>9 DEF TakeMessage, TakeOutput, TimeUp, Resume, Park, Finish, GoesWaiting, StartAwait
  <2>5. /\ DOMAIN tasks' \subseteq DOMAIN tasks
        /\ \A t \in DOMAIN tasks' \ {current} : tasks'[t] = tasks[t]
    BY <1>9, ParkedTask DEF TakeMessage, TakeOutput, TimeUp, Resume, Finish, Without,
                            GoesWaiting, StartAwait
  <2>6. current \in DOMAIN tasks' => tasks'[current].node = Me.node
    <3>1. tasks[current] \in SlotType BY <2>2, OwnedTypes
    <3>2. CASE Park BY <2>2, <3>2, ParkedTask
    <3>3. CASE Finish BY <3>3 DEF Finish, Without
    <3>4. CASE TakeMessage \/ TakeOutput \/ TimeUp \/ \E a \in AwaitType : GoesWaiting(a)
      <4>1. PICK b : tasks' = [tasks EXCEPT ![current].await = b]
        BY <3>4 DEF TakeMessage, TakeOutput, TimeUp, Resume, GoesWaiting, StartAwait
      <4> QED BY <2>2, <3>1, <4>1 DEF SlotType, Me
    <3> QED BY <1>9, <3>2, <3>3, <3>4
  <2> QED BY <1>0, <1>2, <2>2, <2>3, <2>4, <2>5, <2>6 DEF TasksOf
<1> QED BY <1>3, <1>4, <1>5, <1>6, <1>7, <1>8, <1>9 DEF StepKinds

LEMMA DownStep == ASSUME TypeOK, CrashedIsDown, [Next]_vars PROVE CrashedIsDown'
<1>1. TypeOK' BY StepType
<1>2. CASE Next
  <2> SUFFICES ASSUME NEW n \in crashed'
               PROVE  /\ inbox'[n] = <<>> /\ waiters'[n] = <<>>
                      /\ \A t \in TasksOf(n)' : tasks'[t].await = NoAwait /\ t # current'
                      /\ \A e \in queue' : e.kind = "msg" => e.from # n
    BY DEF CrashedIsDown
  <2>1. StepKinds BY <1>2, NextKinds
  <2>2. ASSUME NEW m \in nodes, Crashes(m), crashed' = crashed \union {m},
               inbox' = [inbox EXCEPT ![m] = <<>>],
               \A e \in queue' : e \in queue /\ (e.kind = "msg" => e.from # m)
        PROVE  /\ inbox'[n] = <<>> /\ waiters'[n] = <<>>
               /\ \A t \in TasksOf(n)' : tasks'[t].await = NoAwait /\ t # current'
               /\ \A e \in queue' : e.kind = "msg" => e.from # n
    <3>1. m \in Node /\ inbox \in [Node -> Seq([from : Node, msg : Nat])]
      BY DEF TypeOK, ClusterOK, MailOK
    <3>2. CASE n = m
      <4>1. inbox'[n] = <<>> BY <2>2, <3>1, <3>2
      <4>2. waiters'[n] = <<>> BY <2>2, <3>1, <3>2, Emptied DEF Crashes
      <4>3. TasksOf(n)' = {} BY <2>2, <3>2 DEF Crashes, TasksOf, Without
      <4> QED BY <2>2, <3>2, <4>1, <4>2, <4>3
    <3>3. CASE n # m
      <4>1. n \in crashed /\ n \in Node BY <2>2, <3>3 DEF TypeOK, ClusterOK
      <4>2. inbox'[n] = <<>> BY <2>2, <3>1, <3>3, <4>1 DEF CrashedIsDown
      <4>3. \A e \in queue' : e.kind = "msg" => e.from # n
        BY <2>2, <4>1 DEF CrashedIsDown
      <4> QED BY <1>1, <2>1, <4>1, <4>2, <4>3, DownTasks
    <3> QED BY <3>2, <3>3
  <2>3. CASE /\ crashed' \subseteq crashed
             /\ \A m \in crashed : inbox[m] = <<>> => inbox'[m] = <<>>
             /\ \A e \in queue' : e.kind = "msg" => \/ e \in queue
                                                    \/ mode = "run" /\ e.from = Me.node
    <3>1. n \in crashed BY <2>3
    <3>2. inbox'[n] = <<>> BY <2>3, <3>1 DEF CrashedIsDown
    <3>3. mode = "run" => Me.node # n BY <3>1, RunsOnLiveNode
    <3>4. \A e \in queue' : e.kind = "msg" => e.from # n
      BY <2>3, <3>1, <3>3 DEF CrashedIsDown
    <3> QED BY <1>1, <2>1, <3>1, <3>2, <3>4, DownTasks
  <2> QED BY <1>2, <2>2, <2>3, CrashKinds
<1>3. CASE UNCHANGED vars
  BY <1>3 DEF vars, eventVars, taskVars, clusterVars, mailVars, CrashedIsDown, TasksOf
<1> QED BY <1>2, <1>3

\* A crashed node is dead until it is restarted: no inbox, no receiver, no task of it
\* in the middle of anything, no message from it on its way (Inner::crash_node,
\* the checks of pop_until_poll).
THEOREM CrashIsComplete == Spec => []CrashedIsDown
<1>1. Init => CrashedIsDown BY DEF Init, CrashedIsDown
<1>2. TypeOK /\ CrashedIsDown /\ [Next]_vars => CrashedIsDown' BY DownStep
<1> QED BY <1>1, <1>2, TypeCorrect, PTL DEF Spec

-----------------------------------------------------------------------------
(* Nobody is forgotten *)

\* What a task that nobody is about to poll waits for has not come, and the task is
\* registered with whoever brings it: recv_waiters, joiners, timers.
Waits(t) ==
  /\ tasks[t].await # NoAwait
  /\ tasks[t].await.inner = "recv" =>
       inbox[tasks[t].node] = <<>> /\ t \in Listed(waiters[tasks[t].node])
  /\ tasks[t].await.inner = "join" =>
       ~joins[tasks[t].await.child].done /\ joins[tasks[t].await.child].joiner = t
  /\ tasks[t].await.dur # None => tasks[t].await.timer \in DOMAIN timers

\* An await that has begun names what it waits for.
AwaitsReal ==
  \A t \in DOMAIN tasks :
    \/ tasks[t].await = NoAwait
    \/ tasks[t].await.inner # "none" \/ tasks[t].await.dur # None

\* The future of the task being polled is out of its slot.
Taken == (mode \in {"run", "poll"} => ~Me.held) /\ (mode = "poll" => Await # NoAwait)

Scheduled ==
  ~Exhausted => /\ \A t \in DOMAIN tasks : tasks[t].held /\ ~Polled(t) => Waits(t)
                /\ \A i \in DOMAIN timers : Armed(i)

Woken == AwaitsReal /\ Taken /\ Scheduled

-----------------------------------------------------------------------------
(* Events *)

\* A run that has used up its horizon or its budget never recovers them.
LEMMA ExhaustedStays ==
  ASSUME TypeOK, TotalOrder, ~PastAllowed, Next, Exhausted PROVE Exhausted'
<1>1. now' >= now BY OrderStep
<1>2. /\ now \in Nat /\ now' \in Nat /\ dispatched \in Nat
      /\ MaxEvents \in Nat /\ Horizon \in Nat
  <2>1. TypeOK' BY StepType
  <2> QED BY <2>1, ConstantsOK DEF TypeOK, EventsOK
<1>3. dispatched' \in {dispatched, dispatched + 1}
  <2>1. CASE Driver
    BY <2>1 DEF Driver, AddNode, SpawnFromOutside, ScheduleNemesis, ApplyNow, RestartNow,
                SetFaults, Run, eventVars
  <2>2. CASE Loop
    BY <2>2 DEF Loop, Quiesce, Abort, FireTimer, SkipTimer, DropMsg, DeliverMsg, NemesisStep,
                RestartStep, SkipPoll, PollTask, Dispatch, Skip
  <2>3. CASE Task
    BY <2>3 DEF Task, TakeMessage, TakeOutput, TimeUp, Resume, Park, ReadNow, Send, Spawn,
                AwaitRecv, AwaitSleep, AwaitJoin, StartAwait, Finish, eventVars
  <2> QED BY <2>1, <2>2, <2>3 DEF Next
<1> QED BY <1>1, <1>2, <1>3 DEF Exhausted

\* While the run goes on, a wakeup leaves the queue only when it is used or has
\* nobody left to wake.
Moot(e) ==
  \/ e.kind = "poll"  /\ (e.task \in DOMAIN tasks' => ~tasks'[e.task].held)
  \/ e.kind = "timer" /\ e.timer \notin DOMAIN timers'
  \/ e.kind \in {"msg", "nemesis"}

LEMMA NemesisForgets ==
  ASSUME TypeOK, NEW a \in ActionType, NEW q \in SUBSET queue, ApplyNemesis(a, q), NEW e \in q
  PROVE  e \in queue' \/ Moot(e)
<1>1. CASE queue' = q BY <1>1
<1>2. CASE CanCrash(a.node) /\ CrashNode(a.node, q)
  <2> DEFINE n == a.node
  <2>1. /\ tasks' = Without(tasks, TasksOf(n)) /\ timers' = TimersAfterCrash(n)
        /\ queue' = {f \in q : LiveAfterCrash(f, n, TimersAfterCrash(n))}
    BY <1>2 DEF CrashNode
  <2>2. DOMAIN tasks' = DOMAIN tasks \ TasksOf(n) BY <2>1 DEF Without
  <2>3. e.kind \in {"poll", "timer", "msg", "nemesis"} BY DEF TypeOK, EventsOK, EventType
  <2> QED BY <2>1, <2>2, <2>3 DEF LiveAfterCrash, Moot
<1> QED BY <1>1, <1>2 DEF ApplyNemesis, CrashNode

LEMMA NothingForgotten ==
  ASSUME TypeOK, Next, ~Exhausted', NEW e \in queue
  PROVE  e \in queue' \/ Moot(e)
<1> DEFINE Goal == e \in queue' \/ Moot(e)
<1>1. CASE Driver
  <2>1. ASSUME NEW a \in Actions, ApplyNow(a) PROVE Goal
    <3>1. ApplyNemesis(a, queue) /\ a \in ActionType BY <2>1, ConstantsOK DEF ApplyNow
    <3> QED BY <3>1, NemesisForgets
  <2>2. CASE ~ \E a \in Actions : ApplyNow(a)
    BY <1>1, <2>2 DEF Driver, AddNode, SpawnFromOutside, ScheduleNemesis, RestartNow, RestartNode,
                      SetFaults, Run, Push, eventVars
  <2> QED BY <2>1, <2>2
<1>2. CASE Loop
  <2>1. CASE Quiesce BY <2>1 DEF Quiesce
  <2>2. ASSUME NEW f \in queue, Abort(f) PROVE FALSE
    BY <2>2 DEF Abort, Pop, Stops, Exhausted
  <2>3. ASSUME NEW f \in queue, FireTimer(f) PROVE Goal
    <3>1. DOMAIN timers' = DOMAIN timers \ {f.timer} BY <2>3 DEF FireTimer, Without
    <3> QED BY <2>3, <3>1 DEF FireTimer, Push, Moot
  <2>4. ASSUME NEW f \in queue, SkipTimer(f) \/ DropMsg(f) \/ DeliverMsg(f) PROVE Goal
    BY <2>4 DEF SkipTimer, DropMsg, DeliverMsg, Skip, PollAll, Moot, timerVars
  <2>5. ASSUME NEW f \in queue, NemesisStep(f) PROVE Goal
    <3>1. ApplyNemesis(f.action, queue \ {f}) /\ f.kind = "nemesis" BY <2>5 DEF NemesisStep
    <3>2. f.action \in ActionType BY <3>1 DEF TypeOK, EventsOK, EventType
    <3>3. CASE e = f BY <3>1, <3>3 DEF Moot
    <3>4. CASE e # f BY <3>1, <3>2, <3>4, NemesisForgets
    <3> QED BY <3>3, <3>4
  <2>6. ASSUME NEW f \in queue, RestartStep(f) PROVE Goal
    BY <2>6 DEF RestartStep, RestartNode, Push, Moot
  <2>7. ASSUME NEW f \in queue, SkipPoll(f) PROVE Goal
    <3>1. DOMAIN tasks' = DOMAIN tasks /\ queue' = queue \ {f} /\ f.kind = "poll"
      BY <2>7 DEF SkipPoll, Skip
    <3>2. f.task \in DOMAIN tasks => ~tasks'[f.task].held
      <4>1. f.task \in DOMAIN tasks => tasks[f.task] \in SlotType BY DEF TypeOK, TasksOK
      <4> QED BY <2>7, <4>1 DEF SkipPoll, SlotType
    <3> QED BY <3>1, <3>2 DEF Moot
  <2>8. ASSUME NEW f \in queue, PollTask(f) PROVE Goal
    <3>1. tasks[f.task] \in SlotType BY <2>8 DEF PollTask, TypeOK, TasksOK
    <3>2. queue' = queue \ {f} /\ f.kind = "poll" /\ ~tasks'[f.task].held
      BY <2>8, <3>1 DEF PollTask, SlotType
    <3> QED BY <3>2 DEF Moot
  <2> QED BY <1>2, <2>1, <2>2, <2>3, <2>4, <2>5, <2>6, <2>7, <2>8 DEF Loop
<1>3. CASE Task
  BY <1>3 DEF Task, TakeMessage, TakeOutput, TimeUp, Resume, Park, ReadNow, Send, Spawn, AwaitRecv,
              AwaitSleep, AwaitJoin, StartAwait, Finish, Push, PollAll, eventVars
<1> QED BY <1>1, <1>2, <1>3 DEF Next

-----------------------------------------------------------------------------
(* Tasks *)

\* A task in its slot is not the one being polled.
LEMMA HeldIsNotCurrent ==
  ASSUME Taken, NEW t, tasks[t].held, mode \in {"run", "poll"} PROVE t # current
BY DEF Taken, Me

\* A step leaves a task in its slot as it was, or the task is the one that parks.
LEMMA SameTask ==
  ASSUME TypeOK, Owned, Taken, StepKinds, NEW t \in DOMAIN tasks, t \in DOMAIN tasks', tasks'[t].held,
         ~(Park /\ t = current)
  PROVE  /\ tasks[t].held
         /\ tasks'[t].await = tasks[t].await /\ tasks'[t].node = tasks[t].node
<1> DEFINE Same == /\ tasks[t].held
                   /\ tasks'[t].await = tasks[t].await /\ tasks'[t].node = tasks[t].node
<1>0. t \in Nat /\ t # nextTask /\ tasks[t] \in SlotType BY OwnedTypes
<1>1. CASE Quiet BY <1>1 DEF Quiet
<1>2. ASSUME NEW n \in Node, Awakens(n) \/ Adds(n) \/ Crashes(n) PROVE Same
  BY <1>0, <1>2 DEF Awakens, Adds, AddTask, Crashes, Without
<1>3. ASSUME NEW i \in Nat, GoesOff(i) PROVE Same BY <1>3 DEF GoesOff
<1>4. ASSUME NEW u \in Nat, LeavesSlot(u) PROVE Same BY <1>4 DEF LeavesSlot
<1>5. CASE TakeMessage \/ TakeOutput \/ TimeUp
  <2>1. Resume /\ mode = "poll" BY <1>5 DEF TakeMessage, TakeOutput, TimeUp, Resume
  <2>2. tasks[t].held BY <2>1, ResumeOwned
  <2> QED BY <2>1, <2>2, HeldIsNotCurrent, ResumeOwned
<1>6. CASE Park BY <1>6, ParkedTask
<1>7. ASSUME NEW a \in AwaitType, GoesWaiting(a) PROVE Same
  <2>1. mode = "run" /\ tasks' = [tasks EXCEPT ![current].await = a]
    BY <1>7 DEF GoesWaiting, StartAwait
  <2>2. /\ tasks'[t].held = tasks[t].held /\ tasks'[t].node = tasks[t].node
        /\ t # current => tasks'[t] = tasks[t]
    BY <1>0, <2>1 DEF SlotType
  <2> QED BY <2>1, <2>2, HeldIsNotCurrent
<1>8. CASE Finish BY <1>8 DEF Finish, Without
<1> QED BY <1>1, <1>2, <1>3, <1>4, <1>5, <1>6, <1>7, <1>8 DEF StepKinds

\* What is registered for another task than the current one survives its resumption.
LEMMA TimerOfOther ==
  ASSUME TypeOK, Owned, NEW t \in DOMAIN tasks, t # current, mode = "poll", Resume,
         tasks[t].await.timer \in DOMAIN timers
  PROVE  tasks[t].await.timer \in DOMAIN timers'
<1>1. current \in DOMAIN tasks /\ Await = tasks[current].await BY MeType DEF Await, Me
<1>2. DOMAIN timers' = DOMAIN timers \ {Await.timer} BY DEF Resume, Without
<1>3. tasks[t].await.timer # Await.timer BY <1>1 DEF Owned, TimersOwned
<1> QED BY <1>2, <1>3

LEMMA ListedOther ==
  ASSUME TypeOK, Owned, NEW t, t # current, NEW n \in Node, t \in Listed(waiters[n]),
         mode \in {"run", "poll"},
         \/ UNCHANGED waiters
         \/ waiters' = [waiters EXCEPT ![Me.node] = Unregister(@, current)]
         \/ waiters' = [waiters EXCEPT ![Me.node] = Register(@, current)]
  PROVE  t \in Listed(waiters'[n])
<1>1. current \in Nat /\ Me.node \in Node BY MeType
<1>2. waiters[n] \in Seq(Nat) /\ Distinct(waiters[n]) BY OwnedTypes DEF Owned, ReceiversOwned
<1>3. waiters'[n] \in {waiters[n], Unregister(waiters[n], current), Register(waiters[n], current)}
  BY <1>1, OwnedTypes
<1> QED BY <1>1, <1>2, <1>3, UnregisterListed, RegisterListed

\* A step keeps what a task waits for away and the task registered, or polls it.
LEMMA KeptByEvents ==
  ASSUME TypeOK, Owned, NEW t \in DOMAIN tasks, t \in DOMAIN tasks', Waits(t),
         tasks'[t].await = tasks[t].await, tasks'[t].node = tasks[t].node,
         \/ Quiet
         \/ \E n \in Node : Awakens(n) \/ Adds(n) \/ Crashes(n)
         \/ \E i \in Nat : GoesOff(i)
         \/ \E u \in Nat : LeavesSlot(u)
  PROVE  Waits(t)' \/ GetsPolled(t)
<1> DEFINE Goal == Waits(t)' \/ GetsPolled(t)
           n == tasks[t].node
           a == tasks[t].await
<1>0. n \in Node /\ nextTask \notin DOMAIN joins BY OwnedTypes
<1>1. CASE Quiet \/ \E u \in Nat : LeavesSlot(u)
  <2>1. UNCHANGED <<inbox, waiters, joins, timers>> BY <1>1 DEF Quiet, LeavesSlot
  <2> QED BY <2>1 DEF Waits
<1>2. ASSUME NEW m \in Node, Awakens(m) PROVE Goal
  <2>1. \A k \in Node : IF k = m THEN waiters'[k] = <<>> ELSE waiters'[k] = waiters[k]
    BY <1>2, Emptied DEF Awakens
  <2>2. UNCHANGED <<joins, timers>> /\ \A k \in Node \ {m} : inbox'[k] = inbox[k]
    BY <1>2 DEF Awakens
  <2>3. CASE a.inner = "recv" /\ n = m BY <1>2, <2>3 DEF Waits, Awakens
  <2>4. CASE ~(a.inner = "recv" /\ n = m) BY <1>0, <2>1, <2>2, <2>4 DEF Waits
  <2> QED BY <2>3, <2>4
<1>3. ASSUME NEW m \in Node, Adds(m) PROVE Goal
  <2>1. UNCHANGED <<inbox, waiters, timers>> BY <1>3 DEF Adds
  <2>2. \A c \in DOMAIN joins : joins'[c] = joins[c]
    <3>1. CASE UNCHANGED joins BY <3>1
    <3>2. CASE ~UNCHANGED joins BY <1>0, <1>3, <3>2 DEF Adds
    <3> QED BY <3>1, <3>2
  <2>3. a.inner = "join" => a.child \in DOMAIN joins BY DEF Owned, HandlesOwned
  <2> QED BY <2>1, <2>2, <2>3 DEF Waits
<1>4. ASSUME NEW m \in Node, Crashes(m) PROVE Goal
  <2>1. \A k \in Node : IF k = m THEN waiters'[k] = <<>> ELSE waiters'[k] = waiters[k]
    BY <1>4, Emptied DEF Crashes
  <2>2. t \notin TasksOf(m) /\ n # m BY <1>4 DEF Crashes, Without, TasksOf
  <2>3. inbox'[n] = inbox[n]
    <3>1. inbox \in [Node -> Seq([from : Node, msg : Nat])] BY DEF TypeOK, MailOK
    <3> QED BY <1>0, <1>4, <2>2, <3>1 DEF Crashes
  <2>4. a.inner = "join" => joins'[a.child] = joins[a.child]
    BY <1>4, <2>2 DEF Crashes, Without, Owned, HandlesOwned
  <2>5. a.timer \in DOMAIN timers => a.timer \in DOMAIN timers'
    BY <1>4, <2>2 DEF Crashes, Without, TimersAfterCrash, Owned, TimersOwned
  <2> QED BY <1>0, <2>1, <2>2, <2>3, <2>4, <2>5 DEF Waits
<1>5. ASSUME NEW i \in Nat, GoesOff(i) PROVE Goal
  <2>1. UNCHANGED <<inbox, waiters, joins>> /\ DOMAIN timers' = DOMAIN timers \ {i}
    BY <1>5 DEF GoesOff, Without
  <2>2. CASE timers[i] = t BY <1>5, <2>2 DEF GoesOff
  <2>3. CASE timers[i] # t
    <3>1. a.timer \in DOMAIN timers => a.timer # i BY <2>3 DEF Owned, TimersOwned
    <3> QED BY <2>1, <3>1 DEF Waits
  <2> QED BY <2>2, <2>3
<1> QED BY <1>1, <1>2, <1>3, <1>4, <1>5

LEMMA KeptByTasks ==
  ASSUME TypeOK, Owned, NEW t \in DOMAIN tasks, t \in DOMAIN tasks', Waits(t), t # current,
         tasks'[t].await = tasks[t].await, tasks'[t].node = tasks[t].node,
         \/ TakeMessage \/ TakeOutput \/ TimeUp \/ Park
         \/ \E a \in AwaitType : GoesWaiting(a)
         \/ Finish
  PROVE  Waits(t)' \/ GetsPolled(t)
<1> DEFINE Goal == Waits(t)' \/ GetsPolled(t)
           n == tasks[t].node
           a == tasks[t].await
           Mailed == a.inner = "recv" => inbox'[n] = <<>> /\ t \in Listed(waiters'[n])
           Joined == a.inner = "join" => ~joins'[a.child].done /\ joins'[a.child].joiner = t
           Timed  == a.dur # None => a.timer \in DOMAIN timers'
<1>0. /\ n \in Node
      /\ a.inner = "join" => a.child \in DOMAIN joins /\ joins[a.child].owner = t
  BY OwnedTypes DEF Owned, HandlesOwned
<1>a. Mailed /\ Joined /\ Timed => Waits(t)' BY DEF Waits
<1>b. UNCHANGED joins => Joined BY DEF Waits
<1>c. UNCHANGED inbox /\ mode \in {"run", "poll"}
      /\ (\/ UNCHANGED waiters
          \/ waiters' = [waiters EXCEPT ![Me.node] = Unregister(@, current)]
          \/ waiters' = [waiters EXCEPT ![Me.node] = Register(@, current)])
        => Mailed
  BY <1>0, ListedOther DEF Waits
<1>d. mode = "poll" /\ Resume => Timed BY TimerOfOther DEF Waits
<1>e. mode = "poll" /\ Await.inner = "join"
        => Await.child \in DOMAIN joins /\ joins[Await.child].owner = current
  BY MeType DEF Owned, HandlesOwned, Await, Me
<1>1. CASE TakeMessage
  <2>1. mode = "poll" /\ Resume /\ UNCHANGED joins BY <1>1 DEF TakeMessage, Resume
  <2>2. Mailed
    <3>1. /\ Me.node \in Node /\ inbox[Me.node] # <<>>
          /\ inbox' = [inbox EXCEPT ![Me.node] = Tail(@)]
          /\ waiters' = [waiters EXCEPT ![Me.node] = Unregister(@, current)]
      BY <1>1, <2>1, MeType DEF TakeMessage, InnerReady
    <3>2. inbox \in [Node -> Seq([from : Node, msg : Nat])] BY DEF TypeOK, MailOK
    <3>3. a.inner = "recv" => n # Me.node BY <3>1 DEF Waits
    <3>4. a.inner = "recv" => inbox'[n] = <<>> BY <1>0, <3>1, <3>2, <3>3 DEF Waits
    <3>5. a.inner = "recv" => t \in Listed(waiters'[n])
      BY <1>0, <2>1, <3>1, ListedOther DEF Waits
    <3> QED BY <3>4, <3>5
  <2> QED BY <1>a, <1>b, <1>d, <2>1, <2>2
<1>2. CASE TakeOutput
  <2>1. mode = "poll" /\ Resume /\ UNCHANGED <<inbox, waiters>>
    BY <1>2 DEF TakeOutput, Resume, mailVars
  <2>2. Await.inner = "join" /\ joins' = Without(joins, {Await.child}) BY <1>2 DEF TakeOutput
  <2>3. Joined BY <1>0, <1>e, <2>1, <2>2 DEF Without, Waits
  <2> QED BY <1>a, <1>c, <1>d, <2>1, <2>3
<1>3. CASE TimeUp
  <2>1. /\ mode = "poll" /\ Resume /\ UNCHANGED inbox
        /\ waiters' = [waiters EXCEPT ![Me.node] = Unregister(@, current)]
    BY <1>3 DEF TimeUp, Resume
  <2>2. Joined
    <3>1. CASE UNCHANGED joins BY <1>b, <3>1
    <3>2. CASE Await.inner = "join" /\ JoinAwaited
      <4>1. NoAwait.inner = "none" BY DEF NoAwait
      <4> HIDE DEF Joined
      <4>2. /\ DOMAIN joins' = DOMAIN joins
            /\ \A c \in DOMAIN joins : /\ joins'[c].done = joins[c].done
                                       /\ joins'[c].joiner = IF c = Await.child THEN current
                                                             ELSE joins[c].joiner
        BY <2>1, <3>2, <4>1, ResumeOwned, HandlePolled
      <4> USE DEF Joined
      <4> QED BY <1>0, <1>e, <2>1, <3>2, <4>2 DEF Waits
    <3>3. CASE Await.inner = "join" /\ joins' = Without(joins, {Await.child})
      BY <1>0, <1>e, <2>1, <3>3 DEF Without, Waits
    <3> QED BY <1>3, <3>1, <3>2, <3>3 DEF TimeUp
  <2> QED BY <1>a, <1>c, <1>d, <2>1, <2>2
<1>4. CASE Park
  <2>1. mode = "poll" /\ UNCHANGED inbox
        /\ (waiters' = [waiters EXCEPT ![Me.node] = Register(@, current)] \/ UNCHANGED waiters)
    BY <1>4 DEF Park
  <2>2. Timed
    <3>1. DOMAIN timers \subseteq DOMAIN timers' BY <1>4 DEF Park, timerVars
    <3> QED BY <3>1 DEF Waits
  <2>3. Joined
    <3>1. CASE UNCHANGED joins BY <1>b, <3>1
    <3>2. CASE Await.inner = "join" /\ JoinAwaited
      <4>1. \A u \in DOMAIN tasks : \/ tasks'[u].await.inner # "join"
                                    \/ /\ tasks[u].await.inner = "join"
                                       /\ tasks'[u].await.child = tasks[u].await.child
        BY <1>4, ParkedTask DEF Await, Me
      <4> HIDE DEF Joined
      <4>2. /\ DOMAIN joins' = DOMAIN joins
            /\ \A c \in DOMAIN joins : /\ joins'[c].done = joins[c].done
                                       /\ joins'[c].joiner = IF c = Await.child THEN current
                                                             ELSE joins[c].joiner
        BY <1>4, <2>1, <3>2, <4>1, ParkedTask, HandlePolled
      <4> USE DEF Joined
      <4> QED BY <1>0, <1>e, <2>1, <3>2, <4>2 DEF Waits
    <3> QED BY <1>4, <3>1, <3>2 DEF Park
  <2> QED BY <1>a, <1>c, <2>1, <2>2, <2>3
<1>5. ASSUME NEW b \in AwaitType, GoesWaiting(b) PROVE Goal
  <2>1. UNCHANGED <<inbox, waiters, joins, timers>>
    BY <1>5 DEF GoesWaiting, StartAwait, mailVars, timerVars
  <2> QED BY <2>1 DEF Waits
<1>6. CASE Finish
  <2>1. UNCHANGED <<inbox, waiters, timers>> BY <1>6 DEF Finish, mailVars, timerVars
  <2>2. joins' = Finished(current) /\ PollAll(queue, now, JoinersOf(current)) BY <1>6 DEF Finish
  <2>3. CASE a.inner = "join" /\ a.child = current
    <3>1. joins[current].joiner = t /\ t # None /\ current \in DOMAIN joins
      BY <1>0, <2>3, OwnedTypes DEF Waits
    <3>2. JoinersOf(current) = <<t>> BY <3>1 DEF JoinersOf
    <3>3. 1 \in DOMAIN JoinersOf(current) /\ JoinersOf(current)[1] = t BY <3>2
    <3> QED BY <2>2, <3>3, PollAllPolls
  <2>4. CASE ~(a.inner = "join" /\ a.child = current)
    <3>1. Joined BY <1>0, <2>2, <2>4 DEF Finished, Waits
    <3>2. Mailed /\ Timed BY <2>1 DEF Waits
    <3> QED BY <1>a, <3>1, <3>2
  <2> QED BY <2>3, <2>4
<1> QED BY <1>1, <1>2, <1>3, <1>4, <1>5, <1>6

-----------------------------------------------------------------------------
(* The step *)

\* A task parks only when what it waits for has not come, and not before everyone who
\* may bring it knows of it (the Pending paths of the three futures).
LEMMA ParkedWaits ==
  ASSUME TypeOK, Owned, AwaitsReal, Taken, Park, NEW t, t = current
  PROVE  /\ Waits(t)'
         /\ \/ tasks'[t].await.inner # "none"
            \/ tasks'[t].await.dur # None
<1> DEFINE a == tasks'[current].await
<1>1. /\ current \in DOMAIN tasks /\ current \in Nat /\ mode = "poll"
      /\ Await = tasks[current].await /\ Me.node \in Node
  BY MeType DEF Park, Await, Me
<1>2. /\ a.inner = Await.inner /\ a.child = Await.child /\ a.dur = Await.dur
      /\ a.timer = IF Rearms THEN nextTimer ELSE Await.timer
      /\ tasks'[current].node = Me.node /\ DOMAIN tasks' = DOMAIN tasks
      /\ \A u \in DOMAIN tasks \ {current} : tasks'[u] = tasks[u]
  BY ParkedTask
<1>3. a.inner # "none" \/ a.dur # None
  <2>1. Await # NoAwait BY <1>1 DEF Taken
  <2> QED BY <1>1, <1>2, <2>1 DEF AwaitsReal
<1>4. a # NoAwait
  <2>1. NoAwait.inner = "none" /\ NoAwait.dur = None BY DEF NoAwait
  <2> QED BY <1>3, <2>1
<1>5. a.inner = "recv" => inbox'[Me.node] = <<>> /\ current \in Listed(waiters'[Me.node])
  <2> SUFFICES ASSUME Await.inner = "recv"
               PROVE  inbox'[Me.node] = <<>> /\ current \in Listed(waiters'[Me.node])
    BY <1>2
  <2>1. inbox'[Me.node] = <<>> BY DEF Park, InnerReady
  <2>2. waiters'[Me.node] = Register(waiters[Me.node], current) BY <1>1, OwnedTypes DEF Park
  <2>3. waiters[Me.node] \in Seq(Nat) /\ Distinct(waiters[Me.node])
    BY <1>1, OwnedTypes DEF Owned, ReceiversOwned
  <2> QED BY <1>1, <2>1, <2>2, <2>3, RegisterListed
<1>6. a.inner = "join" => ~joins'[a.child].done /\ joins'[a.child].joiner = current
  <2> SUFFICES ASSUME Await.inner = "join"
               PROVE  ~joins'[Await.child].done /\ joins'[Await.child].joiner = current
    BY <1>2
  <2>1. Await.child \in DOMAIN joins /\ ~joins[Await.child].done
    BY <1>1 DEF Park, InnerReady, Owned, HandlesOwned
  <2>2. \A u \in DOMAIN tasks : \/ tasks'[u].await.inner # "join"
                                \/ /\ tasks[u].await.inner = "join"
                                   /\ tasks'[u].await.child = tasks[u].await.child
    BY <1>1, <1>2
  <2>3. \A c \in DOMAIN joins : /\ joins'[c].done = joins[c].done
                                /\ joins'[c].joiner = IF c = Await.child THEN current
                                                      ELSE joins[c].joiner
    BY <1>1, <1>2, <2>2, HandlePolled DEF Park
  <2> QED BY <2>1, <2>3
<1>7. a.dur # None => a.timer \in DOMAIN timers' BY <1>2 DEF Park, Rearms, timerVars
<1> QED BY <1>2, <1>3, <1>4, <1>5, <1>6, <1>7 DEF Waits

LEMMA AwaitsRealStep == ASSUME TypeOK, Owned, AwaitsReal, Taken, StepKinds PROVE AwaitsReal'
<1> DEFINE Real(a) == a = NoAwait \/ a.inner # "none" \/ a.dur # None
<1> SUFFICES ASSUME NEW t \in DOMAIN tasks' PROVE Real(tasks'[t].await) BY DEF AwaitsReal
<1>0. \A u \in DOMAIN tasks : u # nextTask /\ tasks[u] \in SlotType /\ Real(tasks[u].await)
  BY OwnedTypes DEF AwaitsReal
<1>1. ASSUME t \in DOMAIN tasks, tasks'[t].await = tasks[t].await PROVE Real(tasks'[t].await)
  BY <1>0, <1>1
<1> HIDE DEF Real
<1>2. CASE Quiet BY <1>1, <1>2 DEF Quiet
<1>3. ASSUME NEW n \in Node, Awakens(n) \/ Crashes(n) PROVE Real(tasks'[t].await)
  BY <1>1, <1>3 DEF Awakens, Crashes, Without
<1>4. ASSUME NEW n \in Node, Adds(n) PROVE Real(tasks'[t].await)
  <2>1. CASE t = nextTask BY <1>4, <2>1 DEF Adds, AddTask, Slot, Real
  <2>2. CASE t # nextTask BY <1>0, <1>1, <1>4, <2>2 DEF Adds, AddTask
  <2> QED BY <2>1, <2>2
<1>5. ASSUME NEW i \in Nat, GoesOff(i) PROVE Real(tasks'[t].await) BY <1>1, <1>5 DEF GoesOff
<1>6. ASSUME NEW u \in Nat, LeavesSlot(u) PROVE Real(tasks'[t].await) BY <1>1, <1>6 DEF LeavesSlot
<1>7. CASE TakeMessage \/ TakeOutput \/ TimeUp
  <2>1. Resume BY <1>7 DEF TakeMessage, TakeOutput, TimeUp
  <2>2. CASE t = current BY <2>1, <2>2, ResumeOwned DEF Real
  <2>3. CASE t # current BY <1>1, <2>1, <2>3, ResumeOwned
  <2> QED BY <2>2, <2>3
<1>8. CASE Park
  <2>1. CASE t = current BY <1>8, <2>1, ParkedWaits DEF Real
  <2>2. CASE t # current BY <1>1, <1>8, <2>2, ParkedTask
  <2> QED BY <2>1, <2>2
<1>9. ASSUME NEW a \in AwaitType, GoesWaiting(a) PROVE Real(tasks'[t].await)
  <2>1. tasks' = [tasks EXCEPT ![current].await = a] /\ Real(a)
    BY <1>9 DEF GoesWaiting, StartAwait, Real
  <2>2. t \in DOMAIN tasks /\ tasks'[t].await = IF t = current THEN a ELSE tasks[t].await
    BY <1>0, <2>1 DEF SlotType
  <2> QED BY <1>1, <2>1, <2>2
<1>10. CASE Finish BY <1>1, <1>10 DEF Finish, Without
<1> QED BY <1>2, <1>3, <1>4, <1>5, <1>6, <1>7, <1>8, <1>9, <1>10 DEF StepKinds

LEMMA TakenStep == ASSUME TypeOK, Owned, Taken, StepKinds PROVE Taken'
<1>0. \A u \in DOMAIN tasks : u # nextTask /\ tasks[u] \in SlotType BY OwnedTypes
<1>a. mode \in {"run", "poll"} => current \in DOMAIN tasks BY MeType
<1>1. ASSUME Idles, current \in DOMAIN tasks => /\ tasks'[current].held = tasks[current].held
                                                /\ tasks'[current].await = tasks[current].await
      PROVE  Taken'
  BY <1>a, <1>1 DEF Idles, Taken, Me, Await
<1>2. CASE Quiet BY <1>1, <1>2 DEF Quiet
<1>3. ASSUME NEW n \in Node, Awakens(n) PROVE Taken' BY <1>1, <1>3 DEF Awakens
<1>4. ASSUME NEW n \in Node, Adds(n) PROVE Taken'
  BY <1>0, <1>1, <1>4 DEF Adds, AddTask
<1>5. ASSUME NEW n \in Node, Crashes(n) PROVE Taken' BY <1>5 DEF Crashes, Taken
<1>6. ASSUME NEW i \in Nat, GoesOff(i) PROVE Taken' BY <1>1, <1>6 DEF GoesOff
<1>7. ASSUME NEW u \in Nat, LeavesSlot(u) PROVE Taken'
  <2>1. CASE Idles
    <3>1. mode' \in {"run", "poll"} => /\ mode' = mode /\ current' = current
                                       /\ current \in DOMAIN tasks
      BY <1>a, <2>1 DEF Idles
    <3>2. current \in DOMAIN tasks => /\ tasks'[current].held \in {FALSE, tasks[current].held}
                                      /\ tasks'[current].await = tasks[current].await
      BY <1>7 DEF LeavesSlot
    <3> QED BY <3>1, <3>2 DEF Taken, Me, Await
  <2>2. CASE ~Idles BY <1>7, <2>2 DEF LeavesSlot, Taken, Me, Await
  <2> QED BY <2>1, <2>2
<1>8. CASE TakeMessage \/ TakeOutput \/ TimeUp
  <2>1. Resume BY <1>8 DEF TakeMessage, TakeOutput, TimeUp
  <2>2. mode = "poll" /\ mode' = "run" /\ current' = current BY <2>1 DEF Resume
  <2>3. tasks'[current].held = tasks[current].held BY <1>a, <2>1, <2>2, ResumeOwned
  <2> QED BY <2>2, <2>3 DEF Taken, Me
<1>9. CASE Park \/ Finish BY <1>9 DEF Park, Finish, Taken
<1>10. ASSUME NEW a \in AwaitType, GoesWaiting(a) PROVE Taken'
  <2>1. /\ mode = "run" /\ tasks' = [tasks EXCEPT ![current].await = a]
        /\ current' = current /\ (a.inner # "none" \/ a.dur # None)
    BY <1>10 DEF GoesWaiting, StartAwait
  <2>2. tasks'[current].held = tasks[current].held /\ tasks'[current].await = a
    BY <1>0, <1>a, <2>1 DEF SlotType
  <2>3. a # NoAwait BY <2>1 DEF NoAwait
  <2> QED BY <2>1, <2>2, <2>3 DEF Taken, Me, Await
<1> QED BY <1>2, <1>3, <1>4, <1>5, <1>6, <1>7, <1>8, <1>9, <1>10 DEF StepKinds

\* A timer is registered only by the task that parks, together with its event.
LEMMA NewTimer ==
  ASSUME TypeOK, StepKinds, NEW i \in DOMAIN timers', i \notin DOMAIN timers
  PROVE  Armed(i)'
<1>1. Park
  BY DEF StepKinds, Quiet, Awakens, Adds, Crashes, GoesOff, LeavesSlot, TakeMessage, TakeOutput,
         TimeUp, Resume, GoesWaiting, StartAwait, Finish, Without, TimersAfterCrash, timerVars
<1>2. Rearms /\ i = nextTimer BY <1>1 DEF Park, timerVars
<1> DEFINE e == TimerEvent(GlobalDeadline(Me.node, Deadline), seq, nextTimer)
<1>3. e \in queue' BY <1>1, <1>2 DEF Park, Push
<1>4. e.kind = "timer" /\ e.timer = i BY <1>2 DEF TimerEvent
<1> QED BY <1>3, <1>4 DEF Armed

\* A new task is polled.
LEMMA NewTask ==
  ASSUME TypeOK, StepKinds, NEW t \in DOMAIN tasks', t \notin DOMAIN tasks
  PROVE  GetsPolled(t)
<1>1. \E n \in Node : Adds(n)
  <2>1. Park => DOMAIN tasks' = DOMAIN tasks BY ParkedTask
  <2> QED BY <2>1
      DEF StepKinds, Quiet, Awakens, Crashes, GoesOff, LeavesSlot, TakeMessage, TakeOutput,
          TimeUp, Resume, GoesWaiting, StartAwait, Finish, Without
<1>2. t = nextTask /\ GetsPolled(nextTask) BY <1>1 DEF Adds, AddTask
<1> QED BY <1>2

LEMMA ScheduledStep ==
  ASSUME TypeOK, TotalOrder, ~PastAllowed, Owned, Woken, Next PROVE Scheduled'
<1> SUFFICES ASSUME ~Exhausted'
             PROVE  /\ \A t \in DOMAIN tasks' : tasks'[t].held /\ ~GetsPolled(t) => Waits(t)'
                    /\ \A i \in DOMAIN timers' : Armed(i)'
  BY DEF Scheduled, Polled, GetsPolled
<1>1. /\ \A t \in DOMAIN tasks : tasks[t].held /\ ~Polled(t) => Waits(t)
      /\ \A i \in DOMAIN timers : Armed(i)
  BY ExhaustedStays DEF Woken, Scheduled
<1>2. StepKinds /\ AwaitsReal /\ Taken BY NextKinds DEF Woken
<1>3. ASSUME NEW t \in DOMAIN tasks', tasks'[t].held, ~GetsPolled(t) PROVE Waits(t)'
  <2>1. t \in DOMAIN tasks BY <1>2, <1>3, NewTask
  <2>2. CASE Park /\ t = current BY <1>2, <2>2, ParkedWaits
  <2>3. CASE ~(Park /\ t = current)
    <3>1. tasks[t].held /\ tasks'[t].await = tasks[t].await /\ tasks'[t].node = tasks[t].node
      BY <1>2, <1>3, <2>1, <2>3, SameTask
    <3>2. ~Polled(t)
      <4> SUFFICES ASSUME NEW e \in queue, e.kind = "poll", e.task = t PROVE FALSE BY DEF Polled
      <4>1. ~Moot(e) BY <1>3 DEF Moot
      <4> QED BY <1>3, <4>1, NothingForgotten DEF GetsPolled
    <3>3. Waits(t) BY <1>1, <2>1, <3>1, <3>2
    <3>4. mode \in {"run", "poll"} => t # current BY <1>2, <3>1, HeldIsNotCurrent
    <3>5. CASE \/ TakeMessage \/ TakeOutput \/ TimeUp \/ Park
               \/ \E a \in AwaitType : GoesWaiting(a)
               \/ Finish
      <4>1. t # current
        BY <3>4, <3>5 DEF TakeMessage, TakeOutput, TimeUp, Resume, Park, GoesWaiting, StartAwait, Finish
      <4> QED BY <1>3, <2>1, <3>1, <3>3, <3>5, <4>1, KeptByTasks
    <3>6. CASE \/ Quiet
               \/ \E n \in Node : Awakens(n) \/ Adds(n) \/ Crashes(n)
               \/ \E i \in Nat : GoesOff(i)
               \/ \E u \in Nat : LeavesSlot(u)
      BY <1>3, <2>1, <3>1, <3>3, <3>6, KeptByEvents
    <3> QED BY <1>2, <3>5, <3>6 DEF StepKinds
  <2> QED BY <2>2, <2>3
<1>4. ASSUME NEW i \in DOMAIN timers' PROVE Armed(i)'
  <2>1. CASE i \in DOMAIN timers
    <3>1. PICK e \in queue : e.kind = "timer" /\ e.timer = i BY <1>1, <2>1 DEF Armed
    <3>2. ~Moot(e) BY <1>4, <3>1 DEF Moot
    <3>3. e \in queue' BY <3>2, NothingForgotten
    <3> QED BY <1>4, <3>1, <3>3 DEF Armed
  <2>2. CASE i \notin DOMAIN timers BY <1>2, <1>4, <2>2, NewTimer
  <2> QED BY <2>1, <2>2
<1> QED BY <1>3, <1>4

LEMMA WokenStep ==
  ASSUME TypeOK, TotalOrder, ~PastAllowed, Owned, Woken, [Next]_vars PROVE Woken'
<1>1. CASE Next
  <2>1. StepKinds BY <1>1, NextKinds
  <2> QED BY <1>1, <2>1, AwaitsRealStep, TakenStep, ScheduledStep DEF Woken
<1>2. CASE UNCHANGED vars
  <2>1. UNCHANGED <<now, queue, dispatched, tasks, current, mode, joins, inbox, waiters, timers>>
    BY <1>2 DEF vars, eventVars, taskVars, mailVars, timerVars
  <2>2. AwaitsReal' /\ Taken' BY <2>1 DEF Woken, AwaitsReal, Taken, Me, Await
  <2>3. Scheduled' BY <2>1 DEF Woken, Scheduled, Exhausted, Polled, Armed, Waits
  <2> QED BY <2>2, <2>3 DEF Woken
<1> QED BY <1>1, <1>2

LEMMA WokenInit == Init => Woken
BY DEF Init, Woken, AwaitsReal, Taken, Scheduled, EmptyMap

\* The invariant of this module holds in every run of a world that schedules nothing
\* into the past.
THEOREM AlwaysWoken == ASSUME ~PastAllowed PROVE Spec => [](TypeOK /\ Owned /\ Woken)
<1>1. TypeOK /\ TotalOrder /\ Owned /\ Woken /\ [Next]_vars => Woken' BY WokenStep
<1>2. TypeOK /\ Owned /\ [Next]_vars => Owned' BY OwnedStep
<1> QED BY <1>1, <1>2, OwnedInit, WokenInit, TypeCorrect, EventOrder, PTL DEF Spec

-----------------------------------------------------------------------------
(* What follows *)

\* No wakeup is lost: a task that could continue has a poll coming, whichever of
\* receivers, timeouts, joins and crashes raced (recv_waiters, joiners, timers).
THEOREM WakeupsAreKept == ASSUME ~PastAllowed PROVE Spec => []NoLostWakeup
<1>1. TypeOK /\ Owned /\ Woken => NoLostWakeup
  BY DEF Woken, Scheduled, Waits, Ready, NoLostWakeup
<1> QED BY <1>1, AlwaysWoken, PTL

\* A task that sleeps or has a timeout keeps an armed timer of its own, also after one
\* fired early because the clock of its node was set back (SleepFuture).
THEOREM SleepersAreWoken == ASSUME ~PastAllowed PROVE Spec => []SleepersWake
<1>1. TypeOK /\ Owned /\ Woken => SleepersWake
  BY DEF Woken, Scheduled, Waits, Owned, TimersOwned, SleepersWake
<1> QED BY <1>1, AlwaysWoken, PTL

\* The tasks left when the queue runs dry are stuck: none of them sleeps, and what each
\* waits for is not there (PopResult::Quiesce, RunReport::deadlocked).
THEOREM QuiescenceIsFinal == ASSUME ~PastAllowed PROVE Spec => []QuiescentIsStuck
<1>1. ASSUME TypeOK, Owned, Woken, queue = {}, ~Exhausted, NEW t \in DOMAIN tasks, tasks[t].held
      PROVE  ~Ready(t) /\ tasks[t].await.dur = None
  <2>1. ~Polled(t) /\ \A i : ~Armed(i) BY <1>1 DEF Polled, Armed
  <2>2. Waits(t) BY <1>1, <2>1 DEF Woken, Scheduled
  <2>3. DOMAIN timers = {} BY <1>1, <2>1 DEF Woken, Scheduled
  <2> QED BY <2>2, <2>3 DEF Waits, Ready
<1>2. TypeOK /\ Owned /\ Woken => QuiescentIsStuck BY <1>1 DEF QuiescentIsStuck
<1> QED BY <1>2, AlwaysWoken, PTL
=============================================================================

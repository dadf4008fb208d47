----------------------------- MODULE SimNetwork ------------------------------
(***************************************************************************)
(* The network of module Sim implements the unreliable datagrams of module *)
(* Datagram, for every value of its constants: every step of the scheduler *)
(* sends, loses, delivers or reads one datagram, sweeps those of a crashed *)
(* node, or leaves the network alone.                                      *)
(***************************************************************************)
EXTENDS SimProofs, FiniteSetTheorems

-----------------------------------------------------------------------------
(* What a step does to the network *)

\* The messages on their way.
Flying == {e \in queue : e.kind = "msg"}

Calm == Flying' = Flying /\ UNCHANGED <<sent, inbox>>

Loses(e) == e \in Flying /\ Flying' = Flying \ {e} /\ UNCHANGED <<sent, inbox>>

Delivers(e) ==
  /\ e \in Flying /\ Flying' = Flying \ {e}
  /\ inbox' = [inbox EXCEPT ![e.to] = Append(@, [from |-> e.from, msg |-> e.msg])]
  /\ UNCHANGED sent

Reads(n) ==
  /\ inbox[n] # <<>> /\ inbox' = [inbox EXCEPT ![n] = Tail(@)]
  /\ Flying' = Flying /\ UNCHANGED sent

\* A message leaves as one or two copies.
Sends(to) ==
  /\ mode = "run" /\ Len(sent) < MaxMsgs
  /\ sent' = Append(sent, [from |-> Me.node, to |-> to,
                           fromEpoch |-> epoch[Me.node], toEpoch |-> epoch[to]])
  /\ \E e, f : Flying' = Flying \union {e, f} /\ e.msg = Len(sent) + 1 /\ f.msg = Len(sent) + 1
  /\ UNCHANGED inbox

Sweeps(n) ==
  /\ Flying' = {e \in Flying : n \notin {e.from, e.to}}
  /\ inbox' = [inbox EXCEPT ![n] = <<>>]
  /\ UNCHANGED sent

NetKinds ==
  \/ Calm
  \/ \E e \in Flying : Loses(e) \/ Delivers(e)
  \/ \E n \in Node : Reads(n) \/ Sends(n) \/ Sweeps(n)

\* A step that queues and unqueues no message, sends none and touches no inbox.
LEMMA CalmStep ==
  ASSUME UNCHANGED <<sent, inbox>>, \A e \in queue \union queue' : e.kind = "msg" => e \in queue \intersect queue'
  PROVE  Calm
BY DEF Calm, Flying

LEMMA NemesisNet ==
  ASSUME TypeOK, NEW a \in ActionType, NEW q \in SUBSET queue, ApplyNemesis(a, q), UNCHANGED sent,
         \A e \in queue : e.kind = "msg" => e \in q
  PROVE  Calm \/ \E n \in Node : Sweeps(n)
<1>1. CASE UNCHANGED inbox /\ queue' = q BY <1>1, CalmStep
<1>2. CASE a.kind = "crash" /\ CrashNode(a.node, q) /\ CanCrash(a.node)
  <2> DEFINE n == a.node
  <2>1. n \in Node BY <1>2 DEF ActionType
  <2>2. /\ inbox' = [inbox EXCEPT ![n] = <<>>]
        /\ queue' = {e \in q : LiveAfterCrash(e, n, TimersAfterCrash(n))}
    BY <1>2 DEF CrashNode
  <2>3. Flying' = {e \in Flying : n \notin {e.from, e.to}} BY <2>2 DEF Flying, LiveAfterCrash
  <2> QED BY <2>1, <2>2, <2>3 DEF Sweeps
<1> QED BY <1>1, <1>2 DEF ApplyNemesis, CrashNode

LEMMA RestartNet ==
  ASSUME NEW n, NEW q \in SUBSET queue, NEW at, RestartNode(n, q, at), UNCHANGED <<sent, inbox>>,
         \A e \in queue : e.kind = "msg" => e \in q
  PROVE  Calm
<1>1. \A e \in queue' : e.kind = "msg" => e \in queue BY DEF RestartNode, Push, PollEvent
<1>2. q \subseteq queue' BY DEF RestartNode, Push
<1> QED BY <1>1, <1>2, CalmStep

LEMMA DriverNet == ASSUME TypeOK, Driver PROVE NetKinds
<1>1. ASSUME NEW n \in Node, AddNode(n) \/ SpawnFromOutside(n) PROVE Calm
  <2>1. UNCHANGED <<sent, inbox>> BY <1>1 DEF AddNode, SpawnFromOutside, Call, mailVars
  <2>2. Push(queue, PollEvent(now, seq, nextTask)) BY <1>1 DEF AddNode, SpawnFromOutside
  <2> QED BY <2>1, <2>2, CalmStep DEF Push, PollEvent
<1>2. ASSUME NEW at \in Times, NEW a \in Actions, ScheduleNemesis(at, a) PROVE Calm
  <2>1. UNCHANGED <<sent, inbox>> BY <1>2 DEF ScheduleNemesis, Call, mailVars
  <2> QED BY <1>2, <2>1, CalmStep DEF ScheduleNemesis, Push, NemesisEvent
<1>3. ASSUME NEW a \in Actions, ApplyNow(a) PROVE Calm \/ \E n \in Node : Sweeps(n)
  <2>1. ApplyNemesis(a, queue) /\ a \in ActionType /\ UNCHANGED sent
    BY <1>3, ConstantsOK DEF ApplyNow, Call
  <2> QED BY <2>1, NemesisNet
<1>4. ASSUME NEW a \in Actions, RestartNow(a) PROVE Calm
  <2>1. RestartNode(a.node, queue, now) /\ UNCHANGED <<sent, inbox>>
    BY <1>4 DEF RestartNow, Call, mailVars
  <2> QED BY <2>1, RestartNet
<1>5. ASSUME SetFaults \/ Run PROVE Calm
  BY <1>5, CalmStep DEF SetFaults, Run, Call, eventVars, mailVars
<1> QED BY <1>1, <1>2, <1>3, <1>4, <1>5 DEF Driver, NetKinds

LEMMA LoopNet == ASSUME TypeOK, Loop PROVE NetKinds
<1>1. CASE Quiesce
  <2>1. Calm BY <1>1, CalmStep DEF Quiesce, mailVars
  <2> QED BY <2>1 DEF NetKinds
<1>2. ASSUME NEW e \in queue, Abort(e) PROVE Calm \/ (e \in Flying /\ Loses(e))
  <2>1. UNCHANGED <<sent, inbox>> /\ queue' = queue \ {e} BY <1>2 DEF Abort, mailVars
  <2> QED BY <2>1 DEF Calm, Loses, Flying
<1>3. ASSUME NEW e \in queue, SkipTimer(e) \/ SkipPoll(e) \/ PollTask(e) \/ FireTimer(e) PROVE Calm
  <2>1. UNCHANGED <<sent, inbox>> /\ e.kind # "msg"
    BY <1>3 DEF SkipTimer, SkipPoll, PollTask, FireTimer, mailVars
  <2>2. \/ queue' = queue \ {e}
        \/ queue' = (queue \ {e}) \union {PollEvent(e.time, seq, timers[e.timer])}
    BY <1>3 DEF SkipTimer, SkipPoll, PollTask, FireTimer, Skip, Push
  <2> QED BY <2>1, <2>2, CalmStep DEF PollEvent
<1>4. ASSUME NEW e \in queue, DropMsg(e) PROVE e \in Flying /\ Loses(e)
  BY <1>4 DEF DropMsg, Loses, Flying, mailVars
<1>5. ASSUME NEW e \in queue, DeliverMsg(e) PROVE e \in Flying /\ Delivers(e)
  <2>1. Flying' = Flying \ {e} BY <1>5 DEF DeliverMsg, PollAll, PollEvent, Flying
  <2> QED BY <1>5, <2>1 DEF DeliverMsg, Delivers, Flying
<1>6. ASSUME NEW e \in queue, NemesisStep(e) PROVE Calm \/ \E n \in Node : Sweeps(n)
  <2>1. e.kind = "nemesis" /\ ApplyNemesis(e.action, queue \ {e}) /\ UNCHANGED sent
    BY <1>6 DEF NemesisStep
  <2>2. e.action \in ActionType BY <2>1 DEF TypeOK, EventsOK, EventType
  <2> QED BY <2>1, <2>2, NemesisNet
<1>7. ASSUME NEW e \in queue, RestartStep(e) PROVE Calm
  <2>1. /\ e.kind = "nemesis" /\ RestartNode(e.action.node, queue \ {e}, e.time)
        /\ UNCHANGED <<sent, inbox>>
    BY <1>7 DEF RestartStep, mailVars
  <2> QED BY <2>1, RestartNet
<1> QED BY <1>1, <1>2, <1>3, <1>4, <1>5, <1>6, <1>7 DEF Loop, NetKinds

LEMMA TaskNet == ASSUME TypeOK, Task PROVE NetKinds
<1>1. CASE TakeMessage
  <2>1. Me.node \in Node BY <1>1, MeType DEF TakeMessage, Resume
  <2>2. Reads(Me.node)
    BY <1>1 DEF TakeMessage, Resume, InnerReady, Reads, Flying, eventVars
  <2> QED BY <2>1, <2>2 DEF NetKinds
<1>2. ASSUME NEW to \in Node, Send(to) PROVE Sends(to)
  <2>1. /\ sent' = Append(sent, [from |-> Me.node, to |-> to,
                                 fromEpoch |-> epoch[Me.node], toEpoch |-> epoch[to]])
        /\ mode = "run" /\ Len(sent) < MaxMsgs /\ UNCHANGED inbox
    BY <1>2 DEF Send, mailVars
  <2>2. Len(sent') = Len(sent) + 1 BY <2>1 DEF TypeOK, RecordsOK
  <2>3. \E t1, t2, s1, s2 :
          queue' = queue \union {MsgEvent(t1, s1, Me.node, to, Len(sent')),
                                 MsgEvent(t2, s2, Me.node, to, Len(sent'))}
    BY <1>2 DEF Send, Push
  <2>4. \E e, f : /\ queue' = queue \union {e, f} /\ e.kind = "msg" /\ f.kind = "msg"
                  /\ e.msg = Len(sent) + 1 /\ f.msg = Len(sent) + 1
    <3>1. \A t, s : /\ MsgEvent(t, s, Me.node, to, Len(sent')).kind = "msg"
                    /\ MsgEvent(t, s, Me.node, to, Len(sent')).msg = Len(sent')
      BY DEF MsgEvent
    <3> QED BY <2>2, <2>3, <3>1
  <2> QED BY <2>1, <2>4 DEF Sends, Flying
<1>3. ASSUME Park \/ Spawn PROVE Calm
  <2>1. UNCHANGED <<sent, inbox>> BY <1>3 DEF Park, Spawn, mailVars
  <2> QED BY <1>3, <2>1, CalmStep DEF Park, Spawn, Push, TimerEvent, PollEvent
<1>4. ASSUME Finish PROVE Calm
  <2>1. UNCHANGED <<sent, inbox>> BY <1>4 DEF Finish, mailVars
  <2> QED BY <1>4, <2>1, CalmStep DEF Finish, PollAll, PollEvent
<1>5. ASSUME UNCHANGED <<queue, sent, inbox>> PROVE Calm BY <1>5, CalmStep
<1> QED BY <1>1, <1>2, <1>3, <1>4, <1>5
    DEF Task, NetKinds, TakeOutput, TimeUp, Resume, ReadNow, AwaitRecv, AwaitSleep, AwaitJoin,
        StartAwait, eventVars, mailVars

LEMMA StepNet == ASSUME TypeOK, [Next]_vars PROVE NetKinds
<1>1. CASE Next BY <1>1, DriverNet, LoopNet, TaskNet DEF Next
<1>2. CASE UNCHANGED vars
  <2>1. Calm BY <1>2, CalmStep DEF vars, eventVars, mailVars
  <2> QED BY <2>1 DEF NetKinds
<1> QED BY <1>1, <1>2

-----------------------------------------------------------------------------
(* The refinement *)

\* Every message on its way or in an inbox was sent, between just these nodes, and there
\* are finitely many of them.
Networked ==
  /\ IsFiniteSet(Flying)
  /\ \A e \in Flying : /\ e.msg \in DOMAIN sent
                       /\ e.from = sent[e.msg].from /\ e.to = sent[e.msg].to

LEMMA NetworkedStep == ASSUME TypeOK, Traced, Traced', Networked, NetKinds PROVE Networked'
<1>1. IsFiniteSet(Flying)'
  <2>1. ASSUME NEW e, NEW f PROVE IsFiniteSet(Flying \union {e, f})
    <3>1. Flying \union {e, f} = (Flying \union {e}) \union {f} OBVIOUS
    <3> QED BY <3>1, FS_AddElement DEF Networked
  <2>2. ASSUME Flying' \subseteq Flying PROVE IsFiniteSet(Flying')
    BY <2>2, FS_Subset DEF Networked
  <2>3. Flying' \subseteq Flying \/ \E e, f : Flying' = Flying \union {e, f}
    BY DEF NetKinds, Calm, Loses, Delivers, Reads, Sends, Sweeps
  <2>4. ASSUME NEW e, NEW f, Flying' = Flying \union {e, f} PROVE IsFiniteSet(Flying')
    BY <2>1, <2>4
  <2> QED BY <2>2, <2>3, <2>4
<1>2. \A e \in Flying' : /\ e.msg \in DOMAIN sent'
                         /\ e.from = sent'[e.msg].from /\ e.to = sent'[e.msg].to
  BY DEF Traced, FromSent, Flying
<1> QED BY <1>1, <1>2 DEF Networked

LEMMA Flights ==
  ASSUME Networked
  PROVE  /\ \A m : InFlight(m) = {e \in Flying : e.msg = m} /\ IsFiniteSet(InFlight(m))
         /\ \A m : Cardinality(InFlight(m)) \in Nat
<1>1. \A m : InFlight(m) = {e \in Flying : e.msg = m} /\ IsFiniteSet(InFlight(m))
  <2> SUFFICES ASSUME NEW m PROVE InFlight(m) = {e \in Flying : e.msg = m} /\ IsFiniteSet(InFlight(m))
    OBVIOUS
  <2>1. InFlight(m) = {e \in Flying : e.msg = m} BY DEF InFlight, Flying
  <2> QED BY <2>1, FS_Subset DEF Networked
<1> QED BY <1>1, FS_CardinalityType

LEMMA FunctionIsSeq == ASSUME NEW S, NEW n \in Nat, NEW f \in [1 .. n -> S] PROVE f \in Seq(S)
<1>1. [1 .. n -> S] \in {[1 .. k -> S] : k \in Nat} OBVIOUS
<1>2. f \in UNION {[1 .. k -> S] : k \in Nat} BY <1>1
<1> QED BY <1>2, SeqDef, Zenon

\* The type of what Net sees.
LEMMA NetTypes ==
  ASSUME TypeOK, Networked
  PROVE  /\ sent \in Seq([from : Node, to : Node, fromEpoch : Nat, toEpoch : Nat])
         /\ Len(sent) \in Nat /\ DOMAIN sent = 1 .. Len(sent)
         /\ Posted \in Seq([from : Node, to : Node]) /\ Len(Posted) = Len(sent)
         /\ DOMAIN Posted = DOMAIN sent
         /\ Wire \in Seq(Nat) /\ Len(Wire) = Len(sent) /\ DOMAIN Wire = DOMAIN sent
         /\ \A m \in DOMAIN sent : /\ Posted[m] = [from |-> sent[m].from, to |-> sent[m].to]
                                   /\ Wire[m] = Cardinality(InFlight(m))
         /\ inbox \in [Node -> Seq([from : Node, msg : Nat])]
<1>1. /\ sent \in Seq([from : Node, to : Node, fromEpoch : Nat, toEpoch : Nat])
      /\ inbox \in [Node -> Seq([from : Node, msg : Nat])]
  BY DEF TypeOK, RecordsOK, MailOK
<1>2. Len(sent) \in Nat /\ DOMAIN sent = 1 .. Len(sent) BY <1>1
<1>3. \A m \in 1 .. Len(sent) : sent[m].from \in Node /\ sent[m].to \in Node 
  <2> SUFFICES ASSUME NEW m \in 1 .. Len(sent) PROVE sent[m].from \in Node /\ sent[m].to \in Node
    OBVIOUS
  <2>1. sent[m] \in [from : Node, to : Node, fromEpoch : Nat, toEpoch : Nat]
    BY <1>1, <1>2, ElementOfSeq
  <2> QED BY <2>1
<1>4. Posted \in [1 .. Len(sent) -> [from : Node, to : Node]] BY <1>2, <1>3 DEF Posted
<1>5. Wire \in [1 .. Len(sent) -> Nat] BY <1>2, Flights DEF Wire
<1>6. Posted \in Seq([from : Node, to : Node]) /\ Wire \in Seq(Nat) BY <1>2, <1>4, <1>5, FunctionIsSeq
<1>7. DOMAIN Posted = 1 .. Len(sent) /\ DOMAIN Wire = 1 .. Len(sent) BY <1>4, <1>5
<1>8. Len(Posted) = Len(sent) /\ Len(Wire) = Len(sent) BY <1>2, <1>6, <1>7
<1> QED BY <1>1, <1>2, <1>6, <1>7, <1>8 DEF Posted, Wire

LEMMA MessageEnds ==
  ASSUME TypeOK, Networked, NEW e \in Flying
  PROVE  e.msg \in DOMAIN sent /\ Posted[e.msg].from = e.from /\ Posted[e.msg].to = e.to
<1>1. e.msg \in DOMAIN sent /\ e.from = sent[e.msg].from /\ e.to = sent[e.msg].to BY DEF Networked
<1>2. Posted[e.msg] = [from |-> sent[e.msg].from, to |-> sent[e.msg].to] BY <1>1, NetTypes
<1> QED BY <1>1, <1>2

LEMMA AppendIs ==
  ASSUME NEW S, NEW s \in Seq(S), NEW x \in S, NEW f,
         f = [i \in 1 .. Len(s) + 1 |-> f[i]],
         f[Len(s) + 1] = x, \A i \in 1 .. Len(s) : f[i] = s[i]
  PROVE  f = Append(s, x)
<1>1. Len(s) \in Nat /\ \A i \in 1 .. Len(s) : s[i] \in S BY ElementOfSeq
<1>2. /\ Append(s, x) \in Seq(S) /\ Len(Append(s, x)) = Len(s) + 1
      /\ \A i \in 1 .. Len(s) + 1 : Append(s, x)[i] = IF i = Len(s) + 1 THEN x ELSE s[i]
  OBVIOUS
<1>0. \A i \in 1 .. Len(s) + 1 : i = Len(s) + 1 \/ i \in 1 .. Len(s) BY <1>1
<1>3. \A i \in 1 .. Len(s) + 1 : f[i] \in S BY <1>0, <1>1
<1>4. f \in [1 .. Len(s) + 1 -> S] BY <1>3
<1>5. f \in Seq(S) BY <1>1, <1>4, FunctionIsSeq
<1>6. Len(f) = Len(s) + 1 BY <1>1, <1>4, <1>5
<1>7. \A i \in 1 .. Len(s) + 1 : f[i] = Append(s, x)[i] BY <1>0, <1>2
<1> QED BY <1>2, <1>5, <1>6, <1>7, SeqEqual

\* The copies of one message are fewer by one.
LEMMA OneCopyLess ==
  ASSUME TypeOK, Networked, TypeOK', Networked', UNCHANGED sent,
         NEW e \in Flying, Flying' = Flying \ {e}
  PROVE  /\ e.msg \in DOMAIN sent /\ Wire[e.msg] > 0
         /\ Wire' = [Wire EXCEPT ![e.msg] = @ - 1]
<1>1. e.msg \in DOMAIN sent BY DEF Networked
<1>2. \A m : InFlight(m) = {f \in Flying : f.msg = m} /\ IsFiniteSet(InFlight(m)) BY Flights
<1>3. \A m : InFlight(m)' = {f \in Flying' : f.msg = m} BY DEF InFlight, Flying
<1>4. /\ e \in InFlight(e.msg) /\ \A m : m = e.msg => InFlight(m)' = InFlight(m) \ {e}
      /\ \A m : m # e.msg => InFlight(m)' = InFlight(m)
  BY <1>2, <1>3
<1>5. \A m : m = e.msg => Cardinality(InFlight(m)') = Cardinality(InFlight(m)) - 1
  BY <1>2, <1>4, FS_RemoveElement
<1>6. Wire[e.msg] = Cardinality(InFlight(e.msg)) /\ Wire[e.msg] \in Nat
      /\ DOMAIN Wire = DOMAIN sent /\ Wire = [m \in DOMAIN sent |-> Wire[m]]
  BY <1>1, NetTypes, Flights DEF Wire
<1>7. Wire[e.msg] > 0
  <2>1. InFlight(e.msg) # {} BY <1>4
  <2>2. Cardinality(InFlight(e.msg)) # 0 BY <1>2, <2>1, FS_EmptySet
  <2> QED BY <1>6, <2>2
<1>8. Wire' = [m \in DOMAIN sent |-> IF m = e.msg THEN Wire[m] - 1 ELSE Wire[m]]
  <2>1. Wire' = [m \in DOMAIN sent |-> Cardinality(InFlight(m)')] BY DEF Wire
  <2>2. \A m \in DOMAIN sent :
          Cardinality(InFlight(m)') = IF m = e.msg THEN Wire[m] - 1 ELSE Wire[m]
    BY <1>4, <1>5, NetTypes
  <2> QED BY <2>1, <2>2
<1>9. [Wire EXCEPT ![e.msg] = @ - 1] = [m \in DOMAIN sent |-> IF m = e.msg THEN Wire[m] - 1 ELSE Wire[m]]
  BY <1>1, <1>6
<1> QED BY <1>1, <1>7, <1>8, <1>9

LEMMA CalmIsStutter ==
  ASSUME UNCHANGED sent, Flying' = Flying PROVE UNCHANGED <<Posted, Wire>>
<1>1. \A m : InFlight(m) = {e \in Flying : e.msg = m} /\ InFlight(m)' = {e \in Flying' : e.msg = m}
  BY DEF InFlight, Flying
<1>2. \A m : InFlight(m)' = InFlight(m) BY <1>1
<1>3. Wire' = [m \in DOMAIN sent |-> Cardinality(InFlight(m)')] BY DEF Wire
<1>4. Wire' = Wire BY <1>2, <1>3 DEF Wire
<1> QED BY <1>4 DEF Posted

LEMMA LoseRefines ==
  ASSUME TypeOK, Networked, TypeOK', Networked', NEW e \in Flying, Loses(e)
  PROVE  Net!Next
<1>1. /\ e.msg \in DOMAIN Posted /\ Wire[e.msg] > 0
      /\ Wire' = [Wire EXCEPT ![e.msg] = @ - 1]
  BY OneCopyLess, NetTypes DEF Loses
<1>2. UNCHANGED <<Posted, inbox>> BY DEF Loses, Posted
<1>3. Net!Lose(e.msg) BY <1>1, <1>2 DEF Net!Lose, Net!Take
<1> QED BY <1>1, <1>3 DEF Net!Next

LEMMA DeliverRefines ==
  ASSUME TypeOK, Networked, TypeOK', Networked', NEW e \in Flying, Delivers(e)
  PROVE  Net!Next
<1>1. /\ e.msg \in DOMAIN Posted /\ Wire[e.msg] > 0
      /\ Wire' = [Wire EXCEPT ![e.msg] = @ - 1]
  BY OneCopyLess, NetTypes DEF Delivers
<1>2. UNCHANGED Posted BY DEF Delivers, Posted
<1>3. Posted[e.msg].from = e.from /\ Posted[e.msg].to = e.to BY MessageEnds
<1>4. inbox' = [inbox EXCEPT ![Posted[e.msg].to] =
                  Append(@, [from |-> Posted[e.msg].from, msg |-> e.msg])]
  BY <1>3 DEF Delivers
<1>5. Net!Deliver(e.msg) BY <1>1, <1>2, <1>4 DEF Net!Deliver, Net!Take, Net!Addressee
<1> QED BY <1>1, <1>5 DEF Net!Next

LEMMA SweepRefines ==
  ASSUME TypeOK, Networked, NEW n \in Node, Sweeps(n)
  PROVE  Net!Next
<1>1. \A m : InFlight(m) = {e \in Flying : e.msg = m} /\ InFlight(m)' = {e \in Flying' : e.msg = m}
  BY DEF InFlight, Flying
<1>2. ASSUME NEW m \in DOMAIN sent
      PROVE  Cardinality(InFlight(m)') = IF n \in {Posted[m].from, Posted[m].to} THEN 0 ELSE Wire[m]
  <2>1. \A e \in InFlight(m) : e.from = Posted[m].from /\ e.to = Posted[m].to
    BY <1>1, MessageEnds
  <2>2. CASE n \in {Posted[m].from, Posted[m].to}
    <3>1. InFlight(m)' = {} BY <1>1, <2>1, <2>2 DEF Sweeps
    <3> QED BY <2>2, <3>1, FS_EmptySet
  <2>3. CASE n \notin {Posted[m].from, Posted[m].to}
    <3>1. InFlight(m)' = InFlight(m) BY <1>1, <2>1, <2>3 DEF Sweeps
    <3> QED BY <2>3, <3>1, NetTypes
  <2> QED BY <2>2, <2>3
<1>3. Wire' = [m \in DOMAIN Wire |-> IF n \in {Posted[m].from, Posted[m].to} THEN 0 ELSE Wire[m]]
  <2>1. Wire' = [m \in DOMAIN sent |-> Cardinality(InFlight(m)')] BY DEF Wire, Sweeps
  <2> QED BY <1>2, <2>1, NetTypes
<1>4. Net!Crash(n) BY <1>3 DEF Net!Crash, Sweeps, Posted
<1> QED BY <1>4 DEF Net!Next

LEMMA SendRefines ==
  ASSUME TypeOK, Networked, TypeOK', Networked', NEW to \in Node, Sends(to)
  PROVE  Net!Next
<1> DEFINE k == Len(sent) + 1
           here == Me.node
<1>1. here \in Node BY MeType DEF Sends
<1>2. /\ sent' = Append(sent, [from |-> here, to |-> to,
                               fromEpoch |-> epoch[here], toEpoch |-> epoch[to]])
      /\ UNCHANGED inbox /\ Len(sent) < MaxMsgs
  BY DEF Sends
<1>3. /\ Len(sent) \in Nat /\ DOMAIN sent = 1 .. Len(sent) /\ k \notin DOMAIN sent
      /\ DOMAIN sent' = 1 .. k /\ Len(sent') = k
      /\ \A m \in DOMAIN sent : sent'[m] = sent[m]
      /\ sent'[k].from = here /\ sent'[k].to = to
  BY <1>2, NetTypes
<1>4. PICK e, f : Flying' = Flying \union {e, f} /\ e.msg = k /\ f.msg = k BY DEF Sends
<1>5. \A m : InFlight(m) = {g \in Flying : g.msg = m} /\ InFlight(m)' = {g \in Flying' : g.msg = m}
  BY DEF InFlight, Flying
<1> HIDE DEF k, here
<1>6. \A m \in DOMAIN sent : InFlight(m)' = InFlight(m) BY <1>3, <1>4, <1>5
<1>7. \A m : m = k => InFlight(m)' = {e, f}
  BY <1>3, <1>4, <1>5 DEF Networked
<1>8. \A m : m = k => Cardinality(InFlight(m)') \in 1 .. 2
  <2>1. Cardinality({e, f}) = IF f \in {e} THEN 1 ELSE 2
    <3>1. IsFiniteSet({e}) /\ Cardinality({e}) = 1 BY FS_Singleton
    <3>2. {e, f} = {e} \union {f} OBVIOUS
    <3> QED BY <3>1, <3>2, FS_AddElement
  <2> QED BY <1>7, <2>1
<1>9. PICK copies \in 1 .. 2 : \A m : m = k => Cardinality(InFlight(m)') = copies BY <1>8
<1>10. Posted' = Append(Posted, [from |-> here, to |-> to])
  <2>1. Posted' = [m \in 1 .. k |-> [from |-> sent'[m].from, to |-> sent'[m].to]]
    BY <1>3 DEF Posted
  <2>2. \A m \in 1 .. Len(Posted) : Posted'[m] = Posted[m]
    <3>1. Len(Posted) = Len(sent) BY NetTypes
    <3>2. \A m \in 1 .. Len(Posted) : m \in DOMAIN sent /\ m \in 1 .. k BY <1>3, <3>1 DEF k
    <3>3. \A m \in DOMAIN sent : Posted[m] = [from |-> sent[m].from, to |-> sent[m].to]
      BY DEF Posted
    <3> QED BY <1>3, <2>1, <3>2, <3>3
  <2>3. Posted'[k] = [from |-> here, to |-> to] BY <1>3, <2>1 DEF k
  <2>4. Posted' = [m \in 1 .. k |-> Posted'[m]] BY <2>1
  <2>5. Posted \in Seq([from : Node, to : Node]) /\ k = Len(Posted) + 1 BY NetTypes DEF k
  <2> QED BY <1>1, <2>2, <2>3, <2>4, <2>5, AppendIs
<1>11. Wire' = Append(Wire, copies)
  <2>1. Wire' = [m \in 1 .. k |-> Cardinality(InFlight(m)')] BY <1>3 DEF Wire
  <2>2. \A m \in 1 .. Len(Wire) : m \in DOMAIN sent /\ m \in 1 .. k BY <1>3, NetTypes DEF k
  <2>3. \A m \in 1 .. Len(Wire) : Wire'[m] = Wire[m]
    BY <1>6, <2>1, <2>2, NetTypes
  <2>4. k \in 1 .. k BY <1>3 DEF k
  <2>5. Wire'[k] = copies BY <1>9, <2>1, <2>4
  <2>6. Wire' = [m \in 1 .. k |-> Wire'[m]] BY <2>1
  <2>7. Wire \in Seq(Nat) /\ copies \in Nat /\ k = Len(Wire) + 1 BY NetTypes DEF k
  <2> QED BY <2>3, <2>5, <2>6, <2>7, AppendIs
<1>12. Len(Posted) < MaxMsgs BY <1>2, NetTypes
<1>13. Net!Send(here, to) BY <1>2, <1>10, <1>11, <1>12 DEF Net!Send, Net!Copies
<1> QED BY <1>1, <1>13 DEF Net!Next

LEMMA NetStep ==
  ASSUME TypeOK, TypeOK', Networked, Networked', NetKinds
  PROVE  [Net!Next]_(Net!vars)
<1>1. CASE Calm BY <1>1, CalmIsStutter DEF Calm, Net!vars
<1>2. ASSUME NEW e \in Flying, Loses(e) \/ Delivers(e) PROVE Net!Next
  BY <1>2, LoseRefines, DeliverRefines
<1>3. ASSUME NEW n \in Node, Sends(n) \/ Sweeps(n) PROVE Net!Next
  BY <1>3, SendRefines, SweepRefines
<1>4. ASSUME NEW n \in Node, Reads(n) PROVE Net!Next
  <2>1. UNCHANGED <<Posted, Wire>> BY <1>4, CalmIsStutter DEF Reads
  <2>2. Net!Receive(n) BY <1>4, <2>1 DEF Reads, Net!Receive
  <2> QED BY <2>2 DEF Net!Next
<1> QED BY <1>1, <1>2, <1>3, <1>4 DEF NetKinds

LEMMA NetInit == Init => Net!Init /\ Networked
<1> SUFFICES ASSUME Init PROVE Net!Init /\ Networked OBVIOUS
<1>1. sent = <<>> /\ queue = {} /\ inbox = [n \in Node |-> <<>>] BY DEF Init
<1>2. Flying = {} BY <1>1 DEF Flying
<1>3. Networked BY <1>2, FS_EmptySet DEF Networked
<1>4. TypeOK BY InitType
<1>5. Len(sent) = 0 BY <1>1
<1>6. Posted = <<>> /\ Wire = <<>> BY <1>3, <1>4, <1>5, NetTypes
<1> QED BY <1>1, <1>3, <1>6 DEF Net!Init

\* The network of the runtime implements the unreliable datagrams of the Network
\* capability: a datagram travels as one or two copies, reaches its addressee or is
\* lost, and goes with a crash of either end (SimNet, pop_until_poll, crash_node).
THEOREM NetworkRefinement == Spec => ImplementsDatagram
<1>1. TypeOK /\ Traced /\ [Next]_vars => Traced' BY TracedStep
<1>2. TypeOK /\ [Next]_vars => TypeOK' BY StepType
<1>3. TypeOK /\ Traced /\ Networked /\ [Next]_vars => Networked'
  BY StepNet, TracedStep, NetworkedStep
<1>4. TypeOK /\ TypeOK' /\ Networked /\ Networked' /\ [Next]_vars => [Net!Next]_(Net!vars)
  BY StepNet, NetStep
<1> QED
  BY <1>1, <1>2, <1>3, <1>4, InitType, TracedInit, NetInit, PTL DEF Spec, ImplementsDatagram, Net!Spec
=============================================================================

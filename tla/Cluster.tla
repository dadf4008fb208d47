------------------------------ MODULE Cluster -------------------------------
(***************************************************************************)
(* What the reference protocols of detersim-protocols have in common: the  *)
(* node loops, each one handler per message received, on top of the        *)
(* datagram service.  A handler runs in one poll of the executor, so it    *)
(* and all it sends are one step.  Nodes 0 to 2 are the replicas; Client   *)
(* runs the workload and reports the operations it saw complete; Observer  *)
(* collects labels.                                                        *)
(*                                                                         *)
(* Every value of the protocols is 7 or 9 (Mini-Raft's x is 7), so a       *)
(* message is a kind with a value.                                         *)
(***************************************************************************)
EXTENDS Datagram, Integers

CONSTANTS
  Systems,     \* [proto, bug, cut]: a protocol, its variant, the edges that are down
  MaxDoubled,  \* bound: datagrams the network duplicates
  MaxLost      \* bound: datagrams the network loses where no edge is down

None == -1
Client == 4
Observer == 9
Replica == 0 .. 2
Value == {7, 9}

ASSUME NodesOK == Replica \union {Client, Observer} \subseteq Node

VARIABLES
  system,   \* the element of Systems that runs
  st,       \* of each node: what it waits for and the locals of its loop
  ops,      \* the operations the client reports
  labels,   \* what the observer has collected
  doubled,  \* the datagrams the network has duplicated
  lost      \* how many datagrams it has lost

local == <<st, ops, labels>>
net   == <<posted, wire, box, doubled, lost>>

Bug == system.bug
Msg(kind, value) == [kind |-> kind, value |-> value]
Plain(kind) == Msg(kind, None)

\* A loop that waits for its next message, with nothing stored.
Waiting(pc) == [pc |-> pc, value |-> None, acks |-> 0, peer |-> None]

ClusterInit ==
  /\ system \in Systems
  /\ Init
  /\ ops = <<>> /\ labels = <<>> /\ doubled = {} /\ lost = 0

-----------------------------------------------------------------------------
\* SimNet::send for every <<to, message>> of out.
Post(n, out) ==
  \E copies \in [DOMAIN out -> Copies] :
    /\ posted' = posted \o [k \in DOMAIN out |-> [from |-> n, to |-> out[k][1], body |-> out[k][2]]]
    /\ wire' = wire \o [k \in DOMAIN out |-> copies[k]]
    /\ doubled' = doubled \union {Len(posted) + k : k \in {j \in DOMAIN out : copies[j] > 1}}
    /\ Cardinality(doubled') <= MaxDoubled
    /\ UNCHANGED lost

\* The message node n receives next, and who sent it.
Body(n) == posted[Head(box[n]).msg].body
From(n) == Head(box[n]).from

\* Node n, waiting at pc, takes its next message.
Recv(n, pc) ==
  /\ st[n].pc = pc /\ box[n] # <<>>
  /\ box' = [box EXCEPT ![n] = Tail(@)]

\* Node n goes on as s, having sent out.
Become(n, s, out) == st' = [st EXCEPT ![n] = s] /\ Post(n, out)
At(n, pc) == [st[n] EXCEPT !.pc = pc]

Unreported == UNCHANGED <<system, ops, labels>>
Report(op) == ops' = Append(ops, op) /\ UNCHANGED <<system, labels>>

\* A handler with an arm for none of the messages at hand.
Ignore(n, kinds) ==
  /\ Body(n).kind \notin kinds
  /\ UNCHANGED <<st, posted, wire, doubled, lost>> /\ Unreported

\* The replication loop of a primary: it owes its client an answer.
Replicate(n, value, targets, acks, after) ==
  Become(n, [pc |-> after, value |-> value, acks |-> acks, peer |-> From(n)],
         [k \in DOMAIN targets |-> <<targets[k], Msg("replicate", value)>>])

\* Mutant: an acknowledgement ends the wait, however many are missing.
EnoughAfterOne(n) == TRUE

\* The last acknowledgement is here.
Enough(n) == st[n].acks = 1

\* wait_for_acks: any message that is not an ack is taken and forgotten.
AwaitAck(n, pc, after) ==
  /\ Recv(n, pc)
  /\ \/ Ignore(n, {"ack"})
     \/ /\ Body(n).kind = "ack" /\ Enough(n)
        /\ Become(n, [At(n, after) EXCEPT !.acks = 0], <<<<st[n].peer, Plain("ok")>>>>)
        /\ Unreported
     \/ /\ Body(n).kind = "ack" /\ ~Enough(n)
        /\ Become(n, [st[n] EXCEPT !.acks = @ - 1], <<>>)
        /\ Unreported

\* A follower: it stores and acknowledges, answers one read and stops.
Follower(n) ==
  /\ Recv(n, "follow")
  /\ \/ Ignore(n, {"replicate", "uncommitted", "get", "stop"})
     \/ /\ Unreported
        /\ LET m == Body(n)
           IN  \/ /\ m.kind = "replicate"
                  /\ Become(n, [st[n] EXCEPT !.value = m.value], <<<<From(n), Plain("ack")>>>>)
               \/ /\ m.kind = "uncommitted"
                  /\ Become(n, [st[n] EXCEPT !.value = m.value], <<>>)
               \/ /\ m.kind = "get"
                  /\ Become(n, At(n, "done"), <<<<From(n), Msg("value", st[n].value)>>>>)
               \/ m.kind = "stop" /\ Become(n, At(n, "done"), <<>>)

\* The network: nothing passes an edge that is down.
Down(m) == <<posted[m].from, posted[m].to>> \in system.cut

Arrive(m) ==
  /\ ~Down(m) /\ Deliver(m)
  /\ UNCHANGED <<system, local, doubled, lost>>

Vanish(m) ==
  /\ Lose(m)
  /\ IF Down(m) THEN UNCHANGED lost ELSE lost < MaxLost /\ lost' = lost + 1
  /\ UNCHANGED <<system, local, doubled>>
=============================================================================

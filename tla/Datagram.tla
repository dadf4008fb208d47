------------------------------ MODULE Datagram ------------------------------
(***************************************************************************)
(* What the Network capability of detersim-core promises a program:        *)
(* node-addressed, unreliable, unordered datagrams.  A datagram travels as *)
(* one copy or, when the medium duplicates it, two; each copy is lost or   *)
(* delivered once, in any order, to its addressee and nobody else; a node  *)
(* reads its mailbox in the order of arrival; and a crash destroys the     *)
(* mailbox of the node with every copy it sent or was to receive.          *)
(***************************************************************************)
EXTENDS Naturals, Sequences, FiniteSets

CONSTANTS
  Node,
  MaxMsgs  \* bound: datagrams sent

VARIABLES
  posted,  \* every datagram ever sent: who to whom
  wire,    \* how many copies of each are in flight
  box      \* the mailbox of each node

vars == <<posted, wire, box>>

Init == posted = <<>> /\ wire = <<>> /\ box = [n \in Node |-> <<>>]

\* How many copies of a datagram travel.
Copies == 1 .. 2

\* Network::send
Send(from, to) ==
  /\ Len(posted) < MaxMsgs
  /\ posted' = Append(posted, [from |-> from, to |-> to])
  /\ \E copies \in Copies : wire' = Append(wire, copies)
  /\ UNCHANGED box

\* A copy of m leaves the wire.
Take(m) == wire[m] > 0 /\ wire' = [wire EXCEPT ![m] = @ - 1]

\* The medium drops a copy of m.
Lose(m) == Take(m) /\ UNCHANGED <<posted, box>>

Addressee(m) == posted[m].to

\* The medium delivers a copy of m to its addressee.
Deliver(m) ==
  /\ Take(m)
  /\ box' = [box EXCEPT ![Addressee(m)] = Append(@, [from |-> posted[m].from, msg |-> m])]
  /\ UNCHANGED posted

\* Network::recv takes the oldest entry of the mailbox.
Receive(n) ==
  /\ box[n] # <<>>
  /\ box' = [box EXCEPT ![n] = Tail(@)]
  /\ UNCHANGED <<posted, wire>>

\* The node crashes: its mailbox and every copy from or to it are gone.
Crash(n) ==
  /\ wire' = [m \in DOMAIN wire |->
                IF n \in {posted[m].from, posted[m].to} THEN 0 ELSE wire[m]]
  /\ box' = [box EXCEPT ![n] = <<>>]
  /\ UNCHANGED posted

Next ==
  \/ \E from, to \in Node : Send(from, to)
  \/ \E m \in DOMAIN posted : Lose(m) \/ Deliver(m)
  \/ \E n \in Node : Receive(n) \/ Crash(n)

Spec == Init /\ [][Next]_vars
=============================================================================

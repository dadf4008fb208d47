---------------------------- MODULE Connectivity ----------------------------
(***************************************************************************)
(* The directed connectivity matrix of detersim-nemesis: which node may    *)
(* deliver to which.  A matrix is a record of the nodes it knows and the   *)
(* directed pairs that are blocked; a node it does not know is             *)
(* disconnected from everybody.                                            *)
(***************************************************************************)
EXTENDS Naturals, Sequences

\* ConnectivityMatrix: the matrices over the nodes of N.
Matrix(N) == [known : SUBSET N, blocked : SUBSET (N \X N)]

\* ConnectivityMatrix::new
EmptyMatrix == [known |-> {}, blocked |-> {}]

\* ConnectivityMatrix::add_node
AddToMatrix(c, n) == [c EXCEPT !.known = @ \union {n}]

\* ConnectivityMatrix::is_connected
IsConnected(c, from, to) ==
  /\ {from, to} \subseteq c.known
  /\ <<from, to>> \notin c.blocked

\* ConnectivityMatrix::block
Block(c, from, to) == [c EXCEPT !.blocked = @ \union {<<from, to>>}]

\* ConnectivityMatrix::set_link: it registers both ends, then allows or blocks.
SetLink(c, from, to, up) ==
  [known   |-> c.known \union {from, to},
   blocked |-> IF up THEN c.blocked \ {<<from, to>>}
                     ELSE c.blocked \union {<<from, to>>}]

\* ConnectivityMatrix::heal_all
HealAll(c) == [c EXCEPT !.blocked = {}]

\* group_of of ConnectivityMatrix::partition: a node listed twice belongs to
\* the last group that lists it, a node listed nowhere to the implicit group 0.
GroupOf(groups, n) ==
  LET in == {i \in DOMAIN groups : n \in groups[i]}
  IN  IF in = {} THEN 0 ELSE CHOOSE i \in in : \A j \in in : j <= i

\* ConnectivityMatrix::partition: earlier blocks are healed, the listed nodes
\* become known, and every known pair of different groups is blocked.
Partition(c, groups) ==
  LET known == c.known \union UNION {groups[i] : i \in DOMAIN groups}
  IN  [known   |-> known,
       blocked |-> {p \in known \X known :
                      GroupOf(groups, p[1]) # GroupOf(groups, p[2])}]
=============================================================================

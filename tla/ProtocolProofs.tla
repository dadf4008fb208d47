-------------------------- MODULE ProtocolProofs ---------------------------
(***************************************************************************)
(* Proofs about the reference protocols, for every set of experiments and  *)
(* every number of losses and duplicates: datagrams do not multiply, the   *)
(* correct variants acknowledge only what is replicated and report only    *)
(* legal histories, and a planted bug shows in what its client reports.    *)
(***************************************************************************)
EXTENDS Protocols, FiniteSetTheorems, SequenceTheorems, TLAPS

-----------------------------------------------------------------------------
(* The network of an experiment *)

Peer == Replica \union {Client, Observer}

\* The words of the protocols and the places where a node waits.
Kind ==
  {"put", "get", "append", "read_all", "request", "replicate", "uncommitted", "ack", "ok",
   "value", "index", "entries", "applied", "stop", "leader", "raft-bug",
   "single-leader-per-term", "applied-not-past-commit", "committed-not-lost"}
Pc ==
  {"start", "serve", "log", "follow", "boot", "lead", "first", "second", "stale", "any", "twice",
   "once", "acks", "acks-on", "acks-lead", "put7", "put9", "put", "got", "got-only", "asleep",
   "appended", "read", "asked", "again", "collect", "done"}
Message == [kind : Kind, value : Int]
Letter == [from : Node, to : Node, body : Message]
State == [pc : Pc, value : Int, acks : Int, peer : Node \union {None}]

\* What has to be answered to whom asked for it.
Owing == {"acks", "acks-on", "acks-lead", "any"}

ClusterType ==
  /\ posted \in Seq(Letter) /\ wire \in Seq(Nat) /\ Len(wire) = Len(posted)
  /\ st \in [Peer -> State]
  /\ st[0].pc \in Owing => st[0].peer \in Node

\* Where m lies in the mailbox of n.
Places(n, m) == {k \in DOMAIN box[n] : box[n][k].msg = m}

\* The copies of m that somebody may still read.
Left(m) == wire[m] + Cardinality(Places(posted[m].to, m))
Gone(m) == Left(m) = 0

Boxes ==
  /\ box \in [Node -> Seq([from : Node, msg : Nat])]
  /\ \A n \in Node : \A k \in DOMAIN box[n] :
       /\ box[n][k].msg \in DOMAIN posted
       /\ posted[box[n][k].msg].to = n /\ posted[box[n][k].msg].from = box[n][k].from

\* Only a datagram that the network duplicated has two.
Single ==
  /\ doubled \subseteq DOMAIN posted
  /\ \A m \in DOMAIN posted : Left(m) <= 2 /\ (m \notin doubled => Left(m) <= 1)

NetOK == ClusterType /\ Boxes /\ Single

-----------------------------------------------------------------------------
(* The correct variants *)

Sent(kind) == {m \in DOMAIN posted : posted[m].body.kind = kind}
Copied == \A n \in {1, 2} : st[n].value = 7

Roles ==
  IF system.proto = "kv"
  THEN /\ st[0].pc \in {"serve", "acks", "done"}
       /\ \A n \in {1, 2} : st[n].pc \in {"follow", "done"}
       /\ st[Client].pc \in {"start", "put7", "got", "done"}
  ELSE /\ st[0].pc \in {"boot", "lead", "acks-lead", "done"}
       /\ \A n \in {1, 2} : /\ st[n].pc \in {"boot", "follow", "done"}
                            /\ st[n].pc = "boot" => st[n].value # 7
       /\ st[Client].pc \in {"start", "put", "got", "done"}

\* The loop of the leader collects acknowledgements, the client awaits its first answer.
Collecting == st[0].pc \in {"acks", "acks-lead"}
Asking == st[Client].pc \in {"start", "put7", "put"}

\* Who says what to whom.
Word(d) ==
  \/ d.from = Client /\ d.to = 0 /\ d.body = Msg("put", 7)
  \/ d.from = 0 /\ d.to \in {1, 2} /\ d.body = Msg("replicate", 7)
  \/ d.from \in {1, 2} /\ d.to = 0 /\ d.body = Plain("ack")
  \/ d.from = 0 /\ d.to = Client /\ d.body = Plain("ok")
  \/ d.from = Client /\ d.to = (IF system.proto = "kv" THEN 1 ELSE 0) /\ d.body = Plain("get")
  \/ d.to = Client /\ d.body.kind = "value"
  \/ d.to \in {1, 2} /\ d.body = Plain("stop")

Said ==
  /\ \A m \in DOMAIN posted : Word(posted[m])
  /\ Collecting => st[0].peer = Client

\* Before both followers have the value, the client has no answer and an acknowledgement
\* that was counted is one of at most two, from different followers that have it.
Waited ==
  /\ Asking /\ ops = <<>> /\ st[0].pc # "done"
  /\ Sent("ok") = {} /\ Sent("get") = {} /\ Sent("value") = {}
  /\ \A r, q \in Sent("replicate") : posted[r].to = posted[q].to => r = q
  /\ \A a, b \in Sent("ack") : posted[a].from = posted[b].from => a = b
  /\ \A a \in Sent("ack") :
       /\ st[posted[a].from].value = 7
       /\ \A r \in Sent("replicate") : posted[r].to = posted[a].from => Gone(r)
  /\ IF Collecting THEN st[0].acks = 2 \/ (st[0].acks = 1 /\ \E a \in Sent("ack") : Gone(a))
                   ELSE Sent("replicate") = {} /\ Sent("ack") = {}

Round == ~Doubled({"replicate", "ack"}) => Copied \/ Waited

\* The operations of the client, and what it or its leader may still be told.
PutOp == [op |-> "put", value |-> 7]
GetOp == [op |-> "get", value |-> 7]

Told ==
  /\ Asking => ops = <<>> /\ Sent("get") = {} /\ Sent("value") = {}
  /\ st[Client].pc = "start" => Sent("put") = {}
  /\ st[Client].pc = "got" => /\ ops = <<PutOp>>
                              /\ Sent("ok") # {} /\ \A m \in Sent("ok") : Gone(m)
  /\ st[Client].pc = "done" => ops = <<PutOp, GetOp>>
  /\ \A m, k \in Sent("put") : m = k
  /\ \A m, k \in Sent("ok") : m = k
  /\ Sent("get") # {} => Sent("ok") # {}
  /\ Sent("put") = {} => Sent("ok") = {} /\ ~Collecting
  /\ \A m \in Sent("value") : posted[m].body.value = 7

\* The put is decided: the primary has stopped, the leader will not hear of it again.
Decided ==
  IF system.proto = "kv" THEN st[0].pc = "done"
  ELSE st[0].value = 7 /\ \A m \in Sent("put") : Gone(m)

Answered ==
  /\ Sent("ok") # {} => Decided /\ ~Collecting /\ st[0].pc # "boot"
  /\ st[0].pc = "acks-lead" => Decided

Reports == ~Doubled(Confusing) => Told /\ Answered

Orderly == Roles /\ Said /\ Round /\ Reports

CorrectOK == system.bug = "Correct" => Orderly

ProtocolsOK == NetOK /\ CorrectOK

-----------------------------------------------------------------------------
(* Sequences *)

LEMMA FunctionIsSeq == ASSUME NEW S, NEW n \in Nat, NEW f \in [1 .. n -> S] PROVE f \in Seq(S)
<1>1. [1 .. n -> S] \in {[1 .. k -> S] : k \in Nat} OBVIOUS
<1>2. f \in UNION {[1 .. k -> S] : k \in Nat} BY <1>1
<1> QED BY <1>2, SeqDef, Zenon

\* The entries of a mailbox for datagram m.
Entry == [from : Node, msg : Nat]
Hits(b, m) == {k \in DOMAIN b : b[k].msg = m}

LEMMA HitsFinite ==
  ASSUME NEW b \in Seq(Entry)
  PROVE  \A m : IsFiniteSet(Hits(b, m)) /\ Cardinality(Hits(b, m)) \in Nat
<1> SUFFICES ASSUME NEW m PROVE IsFiniteSet(Hits(b, m)) /\ Cardinality(Hits(b, m)) \in Nat OBVIOUS
<1>1. IsFiniteSet(1 .. Len(b)) BY LenProperties, FS_Interval
<1>2. Hits(b, m) \subseteq 1 .. Len(b) BY LenProperties DEF Hits
<1>3. IsFiniteSet(Hits(b, m)) BY <1>1, <1>2, FS_Subset
<1> QED BY <1>3, FS_CardinalityType

\* A delivery adds an entry.
LEMMA HitsAppend ==
  ASSUME NEW b \in Seq(Entry), NEW e \in Entry
  PROVE  \A m : Cardinality(Hits(Append(b, e), m)) =
                  Cardinality(Hits(b, m)) + (IF e.msg = m THEN 1 ELSE 0)
<1> SUFFICES ASSUME NEW m
             PROVE  Cardinality(Hits(Append(b, e), m)) =
                      Cardinality(Hits(b, m)) + (IF e.msg = m THEN 1 ELSE 0)
  OBVIOUS
<1>1. Len(b) \in Nat /\ DOMAIN b = 1 .. Len(b) BY LenProperties
<1>2. DOMAIN Append(b, e) = 1 .. Len(b) + 1 BY AppendProperties, LenProperties
<1>3. /\ \A i \in 1 .. Len(b) : Append(b, e)[i] = b[i]
      /\ Append(b, e)[Len(b) + 1] = e
  BY AppendProperties
<1>4. IsFiniteSet(Hits(b, m)) /\ Cardinality(Hits(b, m)) \in Nat BY HitsFinite
<1>5. \A i : i \in 1 .. Len(b) + 1 <=> i \in 1 .. Len(b) \/ i = Len(b) + 1 BY <1>1
<1>6. CASE e.msg = m
  <2>1. Hits(Append(b, e), m) = Hits(b, m) \union {Len(b) + 1}
    BY <1>1, <1>2, <1>3, <1>5, <1>6 DEF Hits
  <2>2. Len(b) + 1 \notin Hits(b, m) BY <1>1 DEF Hits
  <2>3. Cardinality(Hits(b, m) \union {Len(b) + 1}) = Cardinality(Hits(b, m)) + 1
    BY <1>4, <2>2, FS_AddElement
  <2>4. Cardinality(Hits(Append(b, e), m)) = Cardinality(Hits(b, m)) + 1 BY <2>1, <2>3, Zenon
  <2> QED BY <1>6, <2>4
<1>7. CASE e.msg # m
  <2>1. Hits(Append(b, e), m) = Hits(b, m) BY <1>1, <1>2, <1>3, <1>5, <1>7 DEF Hits
  <2> QED BY <1>4, <1>7, <2>1
<1> QED BY <1>6, <1>7

\* A receive takes the first entry.
LEMMA HitsTail ==
  ASSUME NEW b \in Seq(Entry), b # <<>>
  PROVE  /\ \A m : Cardinality(Hits(Tail(b), m)) =
                     Cardinality(Hits(b, m)) - (IF Head(b).msg = m THEN 1 ELSE 0)
         /\ Cardinality(Hits(b, Head(b).msg)) >= 1
<1>1. Len(b) \in Nat \ {0} /\ DOMAIN b = 1 .. Len(b) /\ Head(b) = b[1]
  BY LenProperties, EmptySeq
<1>2. Tail(b) \in Seq(Entry) /\ Len(Tail(b)) = Len(b) - 1 /\ DOMAIN Tail(b) = 1 .. Len(b) - 1
      /\ \A i \in 1 .. Len(b) - 1 : Tail(b)[i] = b[i + 1]
  BY HeadTailProperties, LenProperties
<1>3. \A m : IsFiniteSet(Hits(b, m)) /\ Cardinality(Hits(b, m)) \in Nat BY HitsFinite
<1>4. ASSUME NEW m
      PROVE  Cardinality(Hits(Tail(b), m)) =
               Cardinality(Hits(b, m)) - (IF Head(b).msg = m THEN 1 ELSE 0)
  <2> DEFINE S == Hits(Tail(b), m)
             T == Hits(b, m) \ {1}
             f == [k \in S |-> k + 1]
  <2>1. \A k \in S : k \in 1 .. Len(b) - 1 /\ b[k + 1].msg = m BY <1>2 DEF Hits
  <2>2. \A k \in S : k + 1 \in T BY <1>1, <2>1 DEF Hits
  <2>3. \A k \in T : k - 1 \in S /\ (k - 1) + 1 = k
    <3> SUFFICES ASSUME NEW k \in T PROVE k - 1 \in S /\ (k - 1) + 1 = k OBVIOUS
    <3>1. k \in 1 .. Len(b) /\ k # 1 /\ b[k].msg = m BY <1>1 DEF Hits
    <3>2. k - 1 \in 1 .. Len(b) - 1 /\ (k - 1) + 1 = k BY <1>1, <3>1
    <3> QED BY <1>2, <3>1, <3>2 DEF Hits
  <2>4. \A i, k \in S : i + 1 = k + 1 => i = k BY <1>1, <2>1
  <2> HIDE DEF S, T
  <2>5. f \in Bijection(S, T)
    <3>1. f \in [S -> T] BY <2>2
    <3>2. \A i, k \in S : f[i] = f[k] => i = k BY <2>4
    <3>3. \A t \in T : \E k \in S : f[k] = t
      <4> SUFFICES ASSUME NEW t \in T PROVE \E k \in S : f[k] = t OBVIOUS
      <4>1. t - 1 \in S /\ f[t - 1] = t BY <2>3
      <4> QED BY <4>1
    <3> HIDE DEF f
    <3> QED BY <3>1, <3>2, <3>3 DEF Bijection, Injection, Surjection, IsInjective
  <2>6. ExistsBijection(S, T) BY <2>5 DEF ExistsBijection
  <2>7. IsFiniteSet(S) BY <1>2, HitsFinite DEF S
  <2>8. Cardinality(T) = Cardinality(S) BY <2>6, <2>7, FS_Bijection
  <2>9. Cardinality(T) = Cardinality(Hits(b, m)) - (IF 1 \in Hits(b, m) THEN 1 ELSE 0)
    <3>1. Cardinality(Hits(b, m) \ {1}) =
            IF 1 \in Hits(b, m) THEN Cardinality(Hits(b, m)) - 1 ELSE Cardinality(Hits(b, m))
      BY <1>3, FS_RemoveElement
    <3> QED BY <1>3, <3>1 DEF T
  <2>10. 1 \in Hits(b, m) <=> Head(b).msg = m BY <1>1 DEF Hits
  <2> QED BY <2>8, <2>9, <2>10 DEF S
<1>5. Cardinality(Hits(b, Head(b).msg)) >= 1
  <2>1. 1 \in Hits(b, Head(b).msg) BY <1>1 DEF Hits
  <2>2. PICK S : S = Hits(b, Head(b).msg) OBVIOUS
  <2>3. IsFiniteSet(S) /\ Cardinality(S) \in Nat BY <1>3, <2>2
  <2>4. Cardinality(S) # 0 BY <2>1, <2>2, <2>3, FS_EmptySet
  <2> QED BY <2>2, <2>3, <2>4
<1> QED BY <1>4, <1>5

-----------------------------------------------------------------------------
(* What a step does to the datagrams *)

\* Node n has sent out, a list of letters.
Posts(n, out) ==
  /\ posted' \in Seq(Letter) /\ wire' \in Seq(Nat) /\ Len(wire') = Len(posted')
  /\ DOMAIN posted' = 1 .. Len(posted) + Len(out)
  /\ \A m \in DOMAIN posted : posted'[m] = posted[m] /\ wire'[m] = wire[m]
  /\ \A k \in DOMAIN out :
       /\ posted'[Len(posted) + k] = [from |-> n, to |-> out[k][1], body |-> out[k][2]]
       /\ wire'[Len(posted) + k] \in {1, 2}
       /\ wire'[Len(posted) + k] = 2 => Len(posted) + k \in doubled'
  /\ doubled \subseteq doubled' /\ doubled' \subseteq DOMAIN posted'

LEMMA Numbers ==
  ASSUME ClusterType
  PROVE  /\ Len(posted) \in Nat /\ DOMAIN posted = 1 .. Len(posted) /\ DOMAIN wire = DOMAIN posted
         /\ \A m \in DOMAIN posted : posted[m] \in Letter /\ wire[m] \in Nat
<1>1. posted \in Seq(Letter) /\ wire \in Seq(Nat) /\ Len(wire) = Len(posted) BY DEF ClusterType
<1>2. Len(posted) \in Nat /\ DOMAIN posted = 1 .. Len(posted) /\ DOMAIN wire = DOMAIN posted
  BY <1>1, LenProperties
<1>3. \A m \in DOMAIN posted : posted[m] \in Letter /\ wire[m] \in Nat
  BY <1>1, <1>2, ElementOfSeq
<1> QED BY <1>2, <1>3

LEMMA Posting ==
  ASSUME ClusterType, doubled \subseteq DOMAIN posted,
         NEW n \in Node, NEW out \in Seq(Node \X Message), Post(n, out)
  PROVE  Posts(n, out)
<1> DEFINE P == Len(posted)
           L == Len(out)
<1>1. P \in Nat /\ L \in Nat /\ DOMAIN posted = 1 .. P /\ DOMAIN out = 1 .. L
      /\ posted \in Seq(Letter) /\ wire \in Seq(Nat) /\ Len(wire) = P
  BY Numbers, LenProperties DEF ClusterType
<1>2. PICK copies \in [DOMAIN out -> Copies] :
        /\ posted' = posted \o [k \in DOMAIN out |-> [from |-> n, to |-> out[k][1], body |-> out[k][2]]]
        /\ wire' = wire \o [k \in DOMAIN out |-> copies[k]]
        /\ doubled' = doubled \union {Len(posted) + k : k \in {j \in DOMAIN out : copies[j] > 1}}
  BY DEF Post
<1>17. \A k \in DOMAIN out : copies[k] \in {1, 2}
  <2>1. \A c \in Copies : c \in {1, 2} BY DEF Copies
  <2> QED BY <1>2, <2>1
<1> DEFINE ls == [k \in 1 .. L |-> [from |-> n, to |-> out[k][1], body |-> out[k][2]]]
           cs == [k \in 1 .. L |-> copies[k]]
<1>3. ls \in Seq(Letter) /\ Len(ls) = L
  <2>1. \A k \in 1 .. L : out[k] \in Node \X Message BY <1>1, ElementOfSeq
  <2>2. \A k \in 1 .. L : out[k][1] \in Node /\ out[k][2] \in Message BY <2>1
  <2>3. ls \in [1 .. L -> Letter] BY <2>2 DEF Letter
  <2>4. DOMAIN ls = 1 .. L OBVIOUS
  <2> HIDE DEF ls
  <2>5. ls \in Seq(Letter) BY <1>1, <2>3, FunctionIsSeq
  <2> QED BY <1>1, <2>4, <2>5, LenProperties
<1>4. cs \in Seq(Nat) /\ Len(cs) = L /\ \A k \in 1 .. L : cs[k] \in {1, 2}
  <2>1. \A k \in 1 .. L : copies[k] \in {1, 2} BY <1>1, <1>17
  <2>2. cs \in [1 .. L -> Nat] BY <2>1
  <2>3. DOMAIN cs = 1 .. L /\ \A k \in 1 .. L : cs[k] \in {1, 2} BY <2>1
  <2> HIDE DEF cs
  <2>4. cs \in Seq(Nat) BY <1>1, <2>2, FunctionIsSeq
  <2> QED BY <1>1, <2>3, <2>4, LenProperties
<1>5. \A k \in 1 .. L : ls[k] = [from |-> n, to |-> out[k][1], body |-> out[k][2]] /\ cs[k] = copies[k]
  OBVIOUS
<1>6. posted' = posted \o ls /\ wire' = wire \o cs BY <1>1, <1>2
<1> HIDE DEF ls, cs
<1>7. posted' \in Seq(Letter) /\ Len(posted') = P + L
      /\ \A i \in 1 .. P + L : posted'[i] = IF i <= P THEN posted[i] ELSE ls[i - P]
  <2>1. /\ posted \o ls \in Seq(Letter) /\ Len(posted \o ls) = Len(posted) + Len(ls)
        /\ \A i \in 1 .. Len(posted) + Len(ls) :
             (posted \o ls)[i] = IF i <= Len(posted) THEN posted[i] ELSE ls[i - Len(posted)]
    BY <1>1, <1>3, ConcatProperties
  <2> QED BY <1>3, <1>6, <2>1
<1>8. wire' \in Seq(Nat) /\ Len(wire') = P + L
      /\ \A i \in 1 .. P + L : wire'[i] = IF i <= P THEN wire[i] ELSE cs[i - P]
  <2>1. /\ wire \o cs \in Seq(Nat) /\ Len(wire \o cs) = Len(wire) + Len(cs)
        /\ \A i \in 1 .. Len(wire) + Len(cs) :
             (wire \o cs)[i] = IF i <= Len(wire) THEN wire[i] ELSE cs[i - Len(wire)]
    <3>1. wire \in Seq(Nat) /\ cs \in Seq(Nat) BY <1>1, <1>4
    <3> QED BY <3>1, ConcatProperties, Zenon
  <2> QED BY <1>1, <1>4, <1>6, <2>1
<1> HIDE DEF P, L
<1>9. DOMAIN posted' = 1 .. P + L BY <1>7, LenProperties
<1>10. \A m \in 1 .. P : m \in 1 .. P + L /\ m <= P BY <1>1
<1>11. \A k \in 1 .. L : P + k \in 1 .. P + L /\ ~(P + k <= P) /\ (P + k) - P = k BY <1>1
<1>12. \A m \in DOMAIN posted : posted'[m] = posted[m] /\ wire'[m] = wire[m]
  <2> SUFFICES ASSUME NEW m \in 1 .. P PROVE posted'[m] = posted[m] /\ wire'[m] = wire[m] BY <1>1
  <2>1. m \in 1 .. P + L /\ m <= P BY <1>10
  <2> QED BY <1>7, <1>8, <2>1
<1>13. \A k \in DOMAIN out : posted'[P + k] = ls[k] /\ wire'[P + k] = cs[k]
  <2> SUFFICES ASSUME NEW k \in 1 .. L PROVE posted'[P + k] = ls[k] /\ wire'[P + k] = cs[k] BY <1>1
  <2>1. P + k \in 1 .. P + L /\ ~(P + k <= P) /\ (P + k) - P = k BY <1>11
  <2> QED BY <1>7, <1>8, <2>1
<1>14. \A k \in DOMAIN out : wire'[P + k] = 2 => P + k \in doubled'
  <2> SUFFICES ASSUME NEW k \in DOMAIN out, wire'[P + k] = 2 PROVE P + k \in doubled' OBVIOUS
  <2>1. copies[k] = 2 BY <1>1, <1>5, <1>13
  <2>2. k \in {j \in DOMAIN out : copies[j] > 1} BY <2>1
  <2> QED BY <1>2, <2>2 DEF P
<1>15. doubled \subseteq doubled' /\ doubled' \subseteq DOMAIN posted'
  <2>1. \A m \in doubled' : m \in doubled \/ \E k \in DOMAIN out : m = P + k BY <1>2 DEF P
  <2>2. \A m \in doubled : m \in 1 .. P + L BY <1>1, <1>10
  <2>3. \A k \in DOMAIN out : P + k \in 1 .. P + L BY <1>1, <1>11
  <2> QED BY <1>2, <1>9, <2>1, <2>2, <2>3
<1>16. /\ \A k \in DOMAIN out :
            /\ posted'[P + k] = [from |-> n, to |-> out[k][1], body |-> out[k][2]]
            /\ wire'[P + k] \in {1, 2}
  <2> SUFFICES ASSUME NEW k \in DOMAIN out
               PROVE  /\ posted'[P + k] = [from |-> n, to |-> out[k][1], body |-> out[k][2]]
                      /\ wire'[P + k] \in {1, 2}
    OBVIOUS
  <2>1. k \in 1 .. L BY <1>1
  <2>2. cs[k] \in {1, 2} BY <1>4, <2>1
  <2>3. ls[k] = [from |-> n, to |-> out[k][1], body |-> out[k][2]] BY <1>5, <2>1
  <2> QED BY <1>13, <2>2, <2>3
<1> QED BY <1>7, <1>8, <1>9, <1>12, <1>14, <1>15, <1>16 DEF Posts, P, L

\* A step that sends nothing.
LEMMA Silence ==
  ASSUME ClusterType, doubled \subseteq DOMAIN posted, UNCHANGED <<posted, wire, doubled>>, NEW n
  PROVE  Posts(n, <<>>)
<1>1. Len(<<>>) = 0 /\ DOMAIN <<>> = {} OBVIOUS
<1>2. Len(posted) + 0 = Len(posted) BY Numbers
<1>3. DOMAIN posted' = 1 .. Len(posted) + Len(<<>>) BY <1>1, <1>2, Numbers
<1> QED BY <1>1, <1>3 DEF Posts, ClusterType

\* Node n takes the first message of its mailbox.
Takes(n) == box[n] # <<>> /\ box' = [box EXCEPT ![n] = Tail(@)]
First(n) == Head(box[n]).msg

LEMMA EntryOf ==
  ASSUME NetOK, NEW n \in Node, box[n] # <<>>
  PROVE  /\ box[n] \in Seq(Entry) /\ First(n) \in DOMAIN posted /\ posted[First(n)].to = n
         /\ From(n) = posted[First(n)].from /\ Body(n) = posted[First(n)].body
         /\ From(n) \in Node /\ Body(n) \in Message
<1>1. box[n] \in Seq(Entry) BY DEF NetOK, Boxes, Entry
<1>2. 1 \in DOMAIN box[n] /\ Head(box[n]) = box[n][1] BY <1>1, LenProperties, EmptySeq
<1>3. box[n][1].msg \in DOMAIN posted /\ posted[box[n][1].msg].to = n
      /\ posted[box[n][1].msg].from = box[n][1].from
  BY <1>2 DEF NetOK, Boxes
<1>4. posted[First(n)] \in Letter BY <1>2, <1>3, Numbers DEF NetOK, First
<1>5. From(n) = posted[First(n)].from /\ Body(n) = posted[First(n)].body
  BY <1>2, <1>3 DEF First, From, Body
<1>6. posted[First(n)].from \in Node /\ posted[First(n)].body \in Message BY <1>4 DEF Letter
<1> QED BY <1>1, <1>2, <1>3, <1>5, <1>6 DEF First

LEMMA LeftIs ==
  ASSUME NetOK
  PROVE  \A m \in DOMAIN posted :
           /\ posted[m].to \in Node /\ box[posted[m].to] \in Seq(Entry)
           /\ Left(m) = wire[m] + Cardinality(Hits(box[posted[m].to], m))
           /\ Left(m) \in Nat /\ wire[m] \in Nat
           /\ Cardinality(Hits(box[posted[m].to], m)) \in Nat
<1> SUFFICES ASSUME NEW m \in DOMAIN posted
             PROVE  /\ posted[m].to \in Node /\ box[posted[m].to] \in Seq(Entry)
                    /\ Left(m) = wire[m] + Cardinality(Hits(box[posted[m].to], m))
                    /\ Left(m) \in Nat /\ wire[m] \in Nat
                    /\ Cardinality(Hits(box[posted[m].to], m)) \in Nat
  OBVIOUS
<1>1. posted[m].to \in Node /\ wire[m] \in Nat BY Numbers DEF NetOK, Letter
<1>2. box[posted[m].to] \in Seq(Entry) BY <1>1 DEF NetOK, Boxes, Entry
<1>3. Left(m) = wire[m] + Cardinality(Hits(box[posted[m].to], m)) BY DEF Left, Places, Hits
<1>4. Cardinality(Hits(box[posted[m].to], m)) \in Nat BY <1>2, HitsFinite
<1> QED BY <1>1, <1>2, <1>3, <1>4

\* A handler of node n: it takes the message of T, if any, and sends out.
LEMMA Handled ==
  ASSUME NetOK, NEW n \in Node, NEW out, Posts(n, out), Len(out) \in Nat, DOMAIN out = 1 .. Len(out),
         NEW T, (Takes(n) /\ T = {First(n)}) \/ (box' = box /\ T = {})
  PROVE  /\ Boxes'
         /\ \A m \in DOMAIN posted :
              Left(m)' = Left(m) - (IF m \in T THEN 1 ELSE 0) /\ (m \in T => Left(m) >= 1)
         /\ \A m \in DOMAIN posted' \ DOMAIN posted :
              Left(m)' \in {1, 2} /\ (m \notin doubled' => Left(m)' = 1)
<1>1. /\ box \in [Node -> Seq(Entry)]
      /\ Len(posted) \in Nat /\ DOMAIN posted = 1 .. Len(posted)
  BY Numbers DEF NetOK, Boxes, Entry
<1>2. /\ DOMAIN posted' = 1 .. Len(posted) + Len(out)
      /\ \A m \in DOMAIN posted : posted'[m] = posted[m] /\ wire'[m] = wire[m]
  BY DEF Posts
<1>3. DOMAIN posted \subseteq DOMAIN posted' BY <1>1, <1>2
<1>4. \A r \in Node : /\ box[r] \in Seq(Entry) /\ box'[r] \in Seq(Entry)
                      /\ T # {} /\ r = n => box[r] # <<>> /\ box'[r] = Tail(box[r])
                      /\ ~(T # {} /\ r = n) => box'[r] = box[r]
  <2> SUFFICES ASSUME NEW r \in Node
               PROVE  /\ box[r] \in Seq(Entry) /\ box'[r] \in Seq(Entry)
                      /\ T # {} /\ r = n => box[r] # <<>> /\ box'[r] = Tail(box[r])
                      /\ ~(T # {} /\ r = n) => box'[r] = box[r]
    OBVIOUS
  <2>1. box[r] \in Seq(Entry) BY <1>1
  <2>2. CASE Takes(n) /\ T = {First(n)} /\ r = n
    <3>1. box[r] # <<>> /\ box'[r] = Tail(box[r]) BY <1>1, <2>2 DEF Takes
    <3>2. Tail(box[r]) \in Seq(Entry) BY <2>1, <3>1, HeadTailProperties
    <3> QED BY <2>1, <2>2, <3>1, <3>2
  <2>3. CASE Takes(n) /\ T = {First(n)} /\ r # n BY <1>1, <2>1, <2>3 DEF Takes
  <2>4. CASE box' = box /\ T = {} BY <2>1, <2>4
  <2> QED BY <2>2, <2>3, <2>4
<1>5. box' \in [Node -> Seq(Entry)]
  <2>1. DOMAIN box' = Node /\ box' = [r \in Node |-> box'[r]] BY <1>1 DEF Takes
  <2> QED BY <1>4, <2>1
<1>6. \A r \in Node : \A k \in DOMAIN box'[r] : \E j \in DOMAIN box[r] : box'[r][k] = box[r][j]
  <2> SUFFICES ASSUME NEW r \in Node, NEW k \in DOMAIN box'[r]
               PROVE  \E j \in DOMAIN box[r] : box'[r][k] = box[r][j]
    OBVIOUS
  <2>1. CASE T # {} /\ r = n
    <3>1. box[r] \in Seq(Entry) /\ box[r] # <<>> /\ box'[r] = Tail(box[r]) BY <1>4, <2>1
    <3>2. /\ Len(box[r]) \in Nat \ {0} /\ DOMAIN box[r] = 1 .. Len(box[r])
          /\ Tail(box[r]) \in Seq(Entry) /\ Len(Tail(box[r])) = Len(box[r]) - 1
          /\ \A i \in 1 .. Len(Tail(box[r])) : Tail(box[r])[i] = box[r][i + 1]
      BY <3>1, HeadTailProperties, LenProperties, EmptySeq
    <3>3. DOMAIN Tail(box[r]) = 1 .. Len(box[r]) - 1 BY <3>2, LenProperties
    <3>4. k \in 1 .. Len(box[r]) - 1 /\ k + 1 \in 1 .. Len(box[r]) BY <3>1, <3>2, <3>3
    <3> QED BY <3>1, <3>2, <3>4
  <2>2. CASE ~(T # {} /\ r = n) BY <1>4, <2>2
  <2> QED BY <2>1, <2>2
<1>7. \A r \in Node : \A k \in DOMAIN box'[r] :
        /\ box'[r][k].msg \in DOMAIN posted
        /\ posted[box'[r][k].msg].to = r /\ posted[box'[r][k].msg].from = box'[r][k].from
  <2> SUFFICES ASSUME NEW r \in Node, NEW k \in DOMAIN box'[r]
               PROVE  /\ box'[r][k].msg \in DOMAIN posted
                      /\ posted[box'[r][k].msg].to = r /\ posted[box'[r][k].msg].from = box'[r][k].from
    OBVIOUS
  <2>1. PICK j \in DOMAIN box[r] : box'[r][k] = box[r][j] BY <1>6
  <2> QED BY <2>1 DEF NetOK, Boxes
<1>8. Boxes'
  <2>1. ASSUME NEW r \in Node, NEW k \in DOMAIN box'[r]
        PROVE  /\ box'[r][k].msg \in DOMAIN posted'
               /\ posted'[box'[r][k].msg].to = r /\ posted'[box'[r][k].msg].from = box'[r][k].from
    <3>1. PICK m : m = box'[r][k].msg OBVIOUS
    <3>2. m \in DOMAIN posted /\ posted[m].to = r /\ posted[m].from = box'[r][k].from
      BY <1>7, <3>1
    <3>3. m \in DOMAIN posted' /\ posted'[m] = posted[m] BY <1>2, <1>3, <3>2
    <3> QED BY <3>1, <3>2, <3>3
  <2> QED BY <1>5, <2>1 DEF Boxes, Entry
<1>9. \A m \in DOMAIN posted' : Left(m)' = wire'[m] + Cardinality(Hits(box'[posted'[m].to], m))
  BY DEF Left, Places, Hits
<1>10. ASSUME NEW m \in DOMAIN posted
       PROVE  Left(m)' = Left(m) - (IF m \in T THEN 1 ELSE 0) /\ (m \in T => Left(m) >= 1)
  <2>1. PICK r \in Node : r = posted[m].to BY LeftIs
  <2>2. /\ Left(m) = wire[m] + Cardinality(Hits(box[r], m)) /\ wire[m] \in Nat
        /\ Cardinality(Hits(box[r], m)) \in Nat
    BY <2>1, LeftIs
  <2>3. Left(m)' = wire[m] + Cardinality(Hits(box'[r], m)) BY <1>2, <1>3, <1>9, <2>1
  <2>4. CASE T # {} /\ r = n
    <3>1. box[r] \in Seq(Entry) /\ box[r] # <<>> /\ box'[r] = Tail(box[r]) /\ T = {First(n)}
      BY <1>4, <2>4
    <3>2. /\ Cardinality(Hits(Tail(box[r]), m)) =
               Cardinality(Hits(box[r], m)) - (IF Head(box[r]).msg = m THEN 1 ELSE 0)
          /\ Cardinality(Hits(box[r], Head(box[r]).msg)) >= 1
      BY <3>1, HitsTail
    <3>3. m \in T <=> Head(box[r]).msg = m BY <2>4, <3>1 DEF First
    <3>4. CASE Head(box[r]).msg = m
      <4>1. m \in T BY <3>3, <3>4
      <4>2. Left(m)' = wire[m] + (Cardinality(Hits(box[r], m)) - 1) BY <2>3, <3>1, <3>2, <3>4
      <4>3. Cardinality(Hits(box[r], m)) >= 1 BY <3>2, <3>4
      <4> QED BY <2>2, <4>1, <4>2, <4>3
    <3>5. CASE Head(box[r]).msg # m
      <4>1. m \notin T BY <3>3, <3>5
      <4>2. Left(m)' = wire[m] + (Cardinality(Hits(box[r], m)) - 0) BY <2>3, <3>1, <3>2, <3>5
      <4> QED BY <2>2, <4>1, <4>2
    <3> QED BY <3>4, <3>5
  <2>5. CASE ~(T # {} /\ r = n)
    <3>1. box'[r] = box[r] BY <1>4, <2>5
    <3>2. m \notin T
      <4>1. CASE T = {} BY <4>1
      <4>2. CASE T # {}
        <5>1. Takes(n) /\ T = {First(n)} BY <4>2
        <5>2. posted[First(n)].to = n BY <5>1, EntryOf DEF Takes
        <5> QED BY <2>1, <2>5, <4>2, <5>1, <5>2
      <4> QED BY <4>1, <4>2
    <3> QED BY <2>2, <2>3, <3>1, <3>2
  <2> QED BY <2>4, <2>5
<1>11. ASSUME NEW m \in DOMAIN posted' \ DOMAIN posted
       PROVE  Left(m)' \in {1, 2} /\ (m \notin doubled' => Left(m)' = 1)
  <2>1. m \in 1 .. Len(posted) + Len(out) /\ m \notin 1 .. Len(posted) BY <1>1, <1>2
  <2>2. PICK k \in DOMAIN out : m = Len(posted) + k
    <3>1. m - Len(posted) \in 1 .. Len(out) /\ m = Len(posted) + (m - Len(posted)) BY <1>1, <2>1
    <3> QED BY <3>1
  <2>3. /\ wire'[m] \in {1, 2} /\ (wire'[m] = 2 => m \in doubled') /\ posted'[m] \in Letter
    <3>1. posted' \in Seq(Letter) /\ m \in DOMAIN posted' BY DEF Posts
    <3>2. posted'[m] \in Letter BY <3>1, ElementOfSeq, LenProperties
    <3> QED BY <2>2, <3>2 DEF Posts
  <2>4. PICK r \in Node : r = posted'[m].to BY <2>3 DEF Letter
  <2>5. Hits(box'[r], m) = {} BY <1>7 DEF Hits
  <2>6. Cardinality(Hits(box'[r], m)) = 0 BY <2>5, FS_EmptySet
  <2>7. Left(m)' = wire'[m] + Cardinality(Hits(box'[r], m)) BY <1>9, <2>4
  <2>8. Left(m)' = wire'[m] BY <2>3, <2>6, <2>7
  <2> QED BY <2>3, <2>8
<1> QED BY <1>8, <1>10, <1>11

\* What every step does to the datagrams there are: none comes back, and what is read is
\* read once unless it was doubled.
Fades(T) ==
  /\ DOMAIN posted \subseteq DOMAIN posted' /\ doubled \subseteq doubled'
  /\ doubled \subseteq DOMAIN posted /\ doubled' \subseteq DOMAIN posted'
  /\ \A m \in DOMAIN posted : posted'[m] = posted[m] /\ (Gone(m) => Gone(m)')
  /\ T \subseteq DOMAIN posted
  /\ \A m \in T : ~Gone(m) /\ (m \notin doubled => Gone(m)')

LEMMA HandledFades ==
  ASSUME NetOK, NEW n \in Node, NEW out, Posts(n, out), Len(out) \in Nat, DOMAIN out = 1 .. Len(out),
         NEW T, (Takes(n) /\ T = {First(n)}) \/ (box' = box /\ T = {})
  PROVE  Boxes' /\ Single' /\ Fades(T)
<1>1. Boxes' BY Handled
<1>2. /\ \A m \in DOMAIN posted :
           Left(m)' = Left(m) - (IF m \in T THEN 1 ELSE 0) /\ (m \in T => Left(m) >= 1)
      /\ \A m \in DOMAIN posted' \ DOMAIN posted :
           Left(m)' \in {1, 2} /\ (m \notin doubled' => Left(m)' = 1)
  BY Handled
<1>3. \A m \in DOMAIN posted : /\ Left(m) \in Nat /\ Left(m) <= 2
                               /\ m \notin doubled => Left(m) <= 1
  BY LeftIs DEF NetOK, Single
<1>4. /\ DOMAIN posted \subseteq DOMAIN posted' /\ doubled \subseteq doubled'
      /\ doubled \subseteq DOMAIN posted /\ doubled' \subseteq DOMAIN posted'
      /\ \A m \in DOMAIN posted : posted'[m] = posted[m]
  BY Numbers DEF NetOK, Single, Posts
<1>5. T \subseteq DOMAIN posted BY EntryOf DEF Takes
<1>6. ASSUME NEW m \in DOMAIN posted
      PROVE  /\ Left(m)' <= 2 /\ (m \notin doubled => Left(m)' <= 1)
             /\ Left(m) = 0 => Left(m)' = 0
             /\ m \in T => Left(m) # 0 /\ (m \notin doubled => Left(m)' = 0)
  <2>1. CASE m \in T
    <3>1. Left(m)' = Left(m) - 1 /\ Left(m) >= 1 BY <1>2, <2>1
    <3> QED BY <1>3, <3>1
  <2>2. CASE m \notin T
    <3>1. Left(m)' = Left(m) - 0 BY <1>2, <2>2
    <3> QED BY <1>3, <2>2, <3>1
  <2> QED BY <2>1, <2>2
<1>7. Single'
  <2>1. ASSUME NEW m \in DOMAIN posted'
        PROVE  Left(m)' <= 2 /\ (m \notin doubled' => Left(m)' <= 1)
    <3>1. CASE m \in DOMAIN posted BY <1>4, <1>6, <3>1
    <3>2. CASE m \notin DOMAIN posted
      <4>1. Left(m)' \in {1, 2} /\ (m \notin doubled' => Left(m)' = 1) BY <1>2, <3>2
      <4> QED BY <4>1
    <3> QED BY <3>1, <3>2
  <2> QED BY <1>4, <2>1 DEF Single
<1>8. Fades(T)
  <2>1. \A m \in DOMAIN posted : Gone(m) => Gone(m)' BY <1>6 DEF Gone
  <2>2. \A m \in T : ~Gone(m) /\ (m \notin doubled => Gone(m)') BY <1>5, <1>6 DEF Gone
  <2> QED BY <1>4, <1>5, <2>1, <2>2 DEF Fades
<1> QED BY <1>1, <1>7, <1>8

\* The network delivers or loses a copy.
LEMMA Carried ==
  ASSUME NetOK, NEW m \in DOMAIN posted, Deliver(m) \/ Lose(m), UNCHANGED doubled
  PROVE  /\ posted' \in Seq(Letter) /\ wire' \in Seq(Nat) /\ Len(wire') = Len(posted')
         /\ Boxes' /\ Single' /\ Fades({}) /\ posted' = posted
<1>1. /\ box \in [Node -> Seq(Entry)] /\ posted \in Seq(Letter) /\ wire \in Seq(Nat)
      /\ Len(wire) = Len(posted)
      /\ Len(posted) \in Nat /\ DOMAIN posted = 1 .. Len(posted) /\ DOMAIN wire = DOMAIN posted
      /\ \A i \in DOMAIN posted : wire[i] \in Nat /\ posted[i] \in Letter
      /\ doubled \subseteq DOMAIN posted
  BY Numbers DEF NetOK, Boxes, Entry, ClusterType, Single
<1>2. posted' = posted /\ wire[m] > 0 /\ wire' = [wire EXCEPT ![m] = @ - 1]
  BY DEF Deliver, Lose, Take
<1>3. \A i \in DOMAIN posted : wire'[i] = IF i = m THEN wire[i] - 1 ELSE wire[i] BY <1>1, <1>2
<1>4. wire' \in Seq(Nat) /\ Len(wire') = Len(posted')
  <2>1. wire[m] - 1 \in Nat BY <1>1, <1>2
  <2>2. m \in 1 .. Len(wire) BY <1>1
  <2>3. PICK w : w = wire[m] - 1 OBVIOUS
  <2>4. wire' = [wire EXCEPT ![m] = w] /\ w \in Nat BY <1>2, <2>1, <2>3
  <2>5. [wire EXCEPT ![m] = w] \in Seq(Nat) /\ Len([wire EXCEPT ![m] = w]) = Len(wire)
    BY <1>1, <2>2, <2>4, ExceptSeq
  <2> QED BY <1>1, <1>2, <2>4, <2>5
<1>5. PICK e : e = [from |-> posted[m].from, msg |-> m] OBVIOUS
<1>6. PICK h \in Node : h = posted[m].to BY <1>1 DEF Letter
<1>7. e \in Entry /\ e.msg = m /\ e.from = posted[m].from
  <2>1. m \in Nat /\ posted[m].from \in Node BY <1>1 DEF Letter
  <2> QED BY <1>5, <2>1 DEF Entry
<1>8. \/ Lose(m) /\ box' = box
      \/ Deliver(m) /\ box' = [box EXCEPT ![h] = Append(@, e)]
  BY <1>5, <1>6 DEF Lose, Deliver, Addressee
<1>9. \A r \in Node :
        /\ box[r] \in Seq(Entry) /\ box'[r] \in Seq(Entry)
        /\ box'[r] = box[r] \/ (r = h /\ box'[r] = Append(box[r], e))
  <2> SUFFICES ASSUME NEW r \in Node
               PROVE  /\ box[r] \in Seq(Entry) /\ box'[r] \in Seq(Entry)
                      /\ box'[r] = box[r] \/ (r = h /\ box'[r] = Append(box[r], e))
    OBVIOUS
  <2>1. box[r] \in Seq(Entry) BY <1>1
  <2>2. Append(box[r], e) \in Seq(Entry) BY <1>7, <2>1, AppendProperties
  <2>3. CASE box' = box BY <2>1, <2>3
  <2>4. CASE box' = [box EXCEPT ![h] = Append(@, e)]
    <3>1. r = h => box'[r] = Append(box[r], e) BY <1>1, <2>4
    <3>2. r # h => box'[r] = box[r] BY <1>1, <2>4
    <3> QED BY <2>1, <2>2, <3>1, <3>2
  <2> QED BY <1>8, <2>3, <2>4
<1>10. box' \in [Node -> Seq(Entry)]
  <2>1. DOMAIN box' = Node /\ box' = [r \in Node |-> box'[r]] BY <1>1, <1>8
  <2> QED BY <1>9, <2>1
<1>11. Boxes'
  <2>1. ASSUME NEW r \in Node, NEW k \in DOMAIN box'[r]
        PROVE  /\ box'[r][k].msg \in DOMAIN posted
               /\ posted[box'[r][k].msg].to = r /\ posted[box'[r][k].msg].from = box'[r][k].from
    <3>1. CASE box'[r] = box[r] BY <3>1 DEF NetOK, Boxes
    <3>2. CASE r = h /\ box'[r] = Append(box[r], e)
      <4>1. /\ DOMAIN Append(box[r], e) = 1 .. Len(box[r]) + 1 /\ DOMAIN box[r] = 1 .. Len(box[r])
            /\ Len(box[r]) \in Nat
            /\ \A i \in 1 .. Len(box[r]) : Append(box[r], e)[i] = box[r][i]
            /\ Append(box[r], e)[Len(box[r]) + 1] = e
        BY <1>7, <1>9, AppendProperties, LenProperties
      <4>2. k \in 1 .. Len(box[r]) \/ k = Len(box[r]) + 1 BY <3>2, <4>1
      <4>3. CASE k \in 1 .. Len(box[r])
        <5>1. box'[r][k] = box[r][k] /\ k \in DOMAIN box[r] BY <3>2, <4>1, <4>3
        <5> QED BY <5>1 DEF NetOK, Boxes
      <4>4. CASE k = Len(box[r]) + 1
        <5>1. box'[r][k] = e BY <3>2, <4>1, <4>4
        <5> QED BY <1>6, <1>7, <3>2, <5>1
      <4> QED BY <4>2, <4>3, <4>4
    <3> QED BY <1>9, <3>1, <3>2
  <2> QED BY <1>2, <1>10, <2>1 DEF Boxes, Entry
<1>12. \A i \in DOMAIN posted' : Left(i)' = wire'[i] + Cardinality(Hits(box'[posted'[i].to], i))
  BY DEF Left, Places, Hits
<1>13. ASSUME NEW i \in DOMAIN posted PROVE Left(i)' \in Nat /\ Left(i)' <= Left(i)
  <2>1. PICK r \in Node : r = posted[i].to BY LeftIs
  <2>2. /\ Left(i) = wire[i] + Cardinality(Hits(box[r], i)) /\ wire[i] \in Nat
        /\ Cardinality(Hits(box[r], i)) \in Nat
    BY <2>1, LeftIs
  <2>3. Left(i)' = wire'[i] + Cardinality(Hits(box'[r], i)) BY <1>2, <1>12, <2>1
  <2>4. wire'[i] \in Nat /\ wire'[i] = IF i = m THEN wire[i] - 1 ELSE wire[i]
    BY <1>1, <1>2, <1>3, <2>2
  <2>5. CASE box'[r] = box[r] BY <2>2, <2>3, <2>4, <2>5
  <2>6. CASE r = h /\ box'[r] = Append(box[r], e)
    <3>1. Cardinality(Hits(Append(box[r], e), i)) =
            Cardinality(Hits(box[r], i)) + (IF e.msg = i THEN 1 ELSE 0)
      BY <1>7, <1>9, HitsAppend
    <3>2. Cardinality(Hits(box'[r], i)) = Cardinality(Hits(box[r], i)) + (IF i = m THEN 1 ELSE 0)
      BY <1>7, <2>6, <3>1
    <3> QED BY <2>2, <2>3, <2>4, <3>2
  <2> QED BY <1>9, <2>5, <2>6
<1>14. Single'
  <2>1. ASSUME NEW i \in DOMAIN posted PROVE Left(i)' <= 2 /\ (i \notin doubled => Left(i)' <= 1)
    <3>1. Left(i) \in Nat /\ Left(i) <= 2 /\ (i \notin doubled => Left(i) <= 1)
      BY LeftIs DEF NetOK, Single
    <3> QED BY <1>13, <3>1
  <2> QED BY <1>1, <1>2, <2>1 DEF Single
<1>15. Fades({})
  <2>1. ASSUME NEW i \in DOMAIN posted, Gone(i) PROVE Gone(i)'
    <3>1. Left(i)' \in Nat /\ Left(i)' <= 0 BY <1>13, <2>1 DEF Gone
    <3> QED BY <3>1 DEF Gone
  <2> QED BY <1>1, <1>2, <2>1 DEF Fades
<1> QED BY <1>1, <1>2, <1>4, <1>11, <1>14, <1>15

-----------------------------------------------------------------------------
(* The handlers *)

LEMMA Peers == Peer \subseteq Node /\ 0 \in Peer /\ 1 \in Peer /\ 2 \in Peer /\ Client \in Peer
               /\ Observer \in Peer /\ Replica = {0, 1, 2} /\ Client \notin {0, 1, 2}
               /\ Observer \notin {0, 1, 2, Client}
<1>1. Replica = {0, 1, 2} BY DEF Replica
<1> QED BY <1>1, NodesOK DEF Peer, Client, Observer

\* The lists of letters the handlers send.
LEMMA Lists ==
  ASSUME NEW a \in Node, NEW x \in Message, NEW b \in Node, NEW y \in Message,
         NEW c \in Node, NEW z \in Message
  PROVE  /\ <<>> \in Seq(Node \X Message) /\ Len(<<>>) = 0
         /\ <<<<a, x>>>> \in Seq(Node \X Message) /\ Len(<<<<a, x>>>>) = 1
         /\ <<<<a, x>>, <<b, y>>>> \in Seq(Node \X Message) /\ Len(<<<<a, x>>, <<b, y>>>>) = 2
         /\ <<<<a, x>>, <<b, y>>, <<c, z>>>> \in Seq(Node \X Message)
         /\ Len(<<<<a, x>>, <<b, y>>, <<c, z>>>>) = 3
<1>1. <<a, x>> \in Node \X Message /\ <<b, y>> \in Node \X Message /\ <<c, z>> \in Node \X Message
  OBVIOUS
<1> QED BY <1>1

LEMMA Words ==
  ASSUME NEW k \in Kind, NEW v \in Int
  PROVE  Msg(k, v) \in Message /\ Plain(k) \in Message /\ Msg(k, v).kind = k /\ Plain(k).kind = k
         /\ Msg(k, v).value = v /\ Plain(k) = Msg(k, None) /\ Plain(k).value = None
BY DEF Msg, Plain, Message, None

\* Node n is in a loop; At changes only where it waits.
LEMMA Stands ==
  ASSUME ClusterType, NEW n \in Peer, NEW pc \in Pc
  PROVE  /\ st[n] \in State /\ At(n, pc) \in State
         /\ At(n, pc).pc = pc /\ At(n, pc).value = st[n].value
         /\ At(n, pc).acks = st[n].acks /\ At(n, pc).peer = st[n].peer
BY DEF ClusterType, State, At

Reads(n, T) == (Takes(n) /\ T = {First(n)}) \/ (box' = box /\ T = {})

LEMMA Became ==
  ASSUME NetOK, NEW n \in Peer, NEW s \in State, NEW out \in Seq(Node \X Message),
         Become(n, s, out), NEW T, Reads(n, T),
         n = 0 /\ s.pc \in Owing => s.peer \in Node
  PROVE  /\ NetOK' /\ Fades(T) /\ Posts(n, out)
         /\ st'[n] = s /\ \A r \in Peer : r # n => st'[r] = st[r]
         /\ st \in [Peer -> State] /\ st' \in [Peer -> State]
<1>1. st \in [Peer -> State] /\ st' = [st EXCEPT ![n] = s] /\ Post(n, out)
  BY DEF NetOK, ClusterType, Become
<1>2. st' \in [Peer -> State] /\ st'[n] = s /\ \A r \in Peer : r # n => st'[r] = st[r] BY <1>1
<1>3. n \in Node BY Peers
<1>4. Posts(n, out) BY <1>1, <1>3, Posting DEF NetOK, Single
<1>5. Len(out) \in Nat /\ DOMAIN out = 1 .. Len(out) BY LenProperties
<1>6. Boxes' /\ Single' /\ Fades(T) BY <1>3, <1>4, <1>5, HandledFades DEF Reads
<1>7. st'[0].pc \in Owing => st'[0].peer \in Node BY <1>2, Peers DEF NetOK, ClusterType
<1>8. ClusterType' BY <1>2, <1>4, <1>7 DEF ClusterType, Posts
<1> QED BY <1>1, <1>2, <1>4, <1>6, <1>8 DEF NetOK

\* A message that a loop has no use for.
LEMMA Ignored ==
  ASSUME NetOK, NEW n \in Peer, UNCHANGED <<posted, wire, doubled>>, NEW T, Reads(n, T),
         st' \in [Peer -> State], st'[0].pc \in Owing => st'[0].peer \in Node
  PROVE  NetOK' /\ Fades(T) /\ posted' = posted
<1>1. n \in Node BY Peers
<1>2. Posts(n, <<>>) BY Silence DEF NetOK, Single
<1>3. Len(<<>>) = 0 /\ DOMAIN <<>> = 1 .. 0 OBVIOUS
<1>4. Boxes' /\ Single' /\ Fades(T)
  <2>1. Len(<<>>) \in Nat /\ DOMAIN <<>> = 1 .. Len(<<>>) BY <1>3
  <2> QED BY <1>1, <1>2, <2>1, HandledFades DEF Reads
<1>5. ClusterType' BY <1>2 DEF ClusterType, Posts
<1> QED BY <1>4, <1>5 DEF NetOK

\* What Recv says.
LEMMA Received ==
  ASSUME NetOK, NEW n \in Peer, NEW pc, Recv(n, pc)
  PROVE  /\ Takes(n) /\ Reads(n, {First(n)}) /\ st[n].pc = pc /\ box[n] # <<>>
         /\ From(n) \in Node /\ Body(n) \in Message /\ Body(n).kind \in Kind /\ Body(n).value \in Int
         /\ First(n) \in DOMAIN posted /\ posted[First(n)].to = n
         /\ From(n) = posted[First(n)].from /\ Body(n) = posted[First(n)].body
<1>1. Takes(n) /\ st[n].pc = pc /\ box[n] # <<>> BY DEF Recv, Takes
<1>2. Body(n) \in Message BY <1>1, Peers, EntryOf
<1> QED BY <1>1, <1>2, Peers, EntryOf DEF Reads, Message

\* The forms of a step of node n: it goes on as s and sends out, or leaves its message.
Stays == UNCHANGED <<st, posted, wire, doubled>>

LEMMA Stayed ==
  ASSUME NetOK, NEW n \in Peer, NEW T, Reads(n, T), Stays
  PROVE  NetOK' /\ Fades(T) /\ posted' = posted /\ st' = st
<1>1. st' \in [Peer -> State] /\ (st'[0].pc \in Owing => st'[0].peer \in Node)
  BY DEF Stays, NetOK, ClusterType
<1> QED BY <1>1, Ignored DEF Stays

LEMMA PrimaryNet == ASSUME NetOK, Primary PROVE NetOK'
<1>1. Recv(0, "serve") BY DEF Primary
<1> DEFINE m == Body(0)
<1>2. CASE m.kind = "put" /\ Replicates(m.value)
           /\ Replicate(0, m.value, Targets(m.value), Len(Targets(m.value)), After(m.value))
  <2>1. PICK ts : ts = Targets(m.value) OBVIOUS
  <2>2. ts \in {<<1, 2>>, <<1>>, <<2>>} BY <2>1 DEF Targets
  <2>3. ts \in Seq({1, 2}) /\ Len(ts) \in {1, 2}
    <3>1. <<1, 2>> \in Seq({1, 2}) /\ Len(<<1, 2>>) = 2 OBVIOUS
    <3>2. <<1>> \in Seq({1, 2}) /\ Len(<<1>>) = 1 OBVIOUS
    <3>3. <<2>> \in Seq({1, 2}) /\ Len(<<2>>) = 1 OBVIOUS
    <3> QED BY <2>2, <3>1, <3>2, <3>3
  <2>4. PICK s : s = [pc |-> After(m.value), value |-> m.value, acks |-> Len(ts), peer |-> From(0)]
    OBVIOUS
  <2>5. s \in State /\ s.peer \in Node
    <3>1. After(m.value) \in Pc BY DEF After, Pc
    <3>2. m.value \in Int /\ From(0) \in Node BY <1>1, Received, Peers
    <3>3. Len(ts) \in Int BY <2>3
    <3> QED BY <2>4, <3>1, <3>2, <3>3 DEF State
  <2>6. PICK out : out = [k \in DOMAIN ts |-> <<ts[k], Msg("replicate", m.value)>>] OBVIOUS
  <2>7. out \in Seq(Node \X Message)
    <3>1. Msg("replicate", m.value) \in Message
      <4>1. "replicate" \in Kind BY DEF Kind
      <4>2. m.value \in Int BY <1>1, Received, Peers
      <4> QED BY <4>1, <4>2, Words
    <3>2. DOMAIN ts = 1 .. Len(ts) /\ \A k \in DOMAIN ts : ts[k] \in Node
      BY <2>3, LenProperties, ElementOfSeq, Peers
    <3>3. out \in [1 .. Len(ts) -> Node \X Message] BY <2>6, <3>1, <3>2
    <3> QED BY <2>3, <3>3, FunctionIsSeq
  <2>8. Become(0, s, out) BY <1>2, <2>1, <2>4, <2>6 DEF Replicate
  <2>9. 0 \in Peer /\ Reads(0, {First(0)}) BY <1>1, Received, Peers
  <2> QED BY <2>5, <2>7, <2>8, <2>9, Became
<1>3. CASE Become(0, At(0, "done"),
                  <<<<1, Msg("replicate", 7)>>, <<2, Msg("replicate", 7)>>, <<From(0), Plain("ok")>>>>)
  <2>1. At(0, "done") \in State /\ At(0, "done").pc \notin Owing
    BY Stands, Peers DEF NetOK, Owing, Pc
  <2>2. /\ Msg("replicate", 7) \in Message /\ Plain("ok") \in Message /\ 1 \in Node /\ 2 \in Node
        /\ From(0) \in Node
    <3>1. "replicate" \in Kind /\ "ok" \in Kind /\ 7 \in Int BY DEF Kind
    <3> QED BY <1>1, <3>1, Received, Peers, Words
  <2>3. PICK out : out = <<<<1, Msg("replicate", 7)>>, <<2, Msg("replicate", 7)>>, <<From(0), Plain("ok")>>>>
    OBVIOUS
  <2>4. out \in Seq(Node \X Message) BY <2>2, <2>3, Lists
  <2>5. Become(0, At(0, "done"), out) BY <1>3, <2>3
  <2> QED BY <1>1, <2>1, <2>4, <2>5, Became, Received, Peers
<1>4. CASE Become(0, st[0], <<<<1, Msg("uncommitted", 7)>>>>)
  <2>1. st[0] \in State /\ (st[0].pc \in Owing => st[0].peer \in Node)
    BY Peers DEF NetOK, ClusterType
  <2>2. Msg("uncommitted", 7) \in Message /\ 1 \in Node
    <3>1. "uncommitted" \in Kind /\ 7 \in Int BY DEF Kind
    <3> QED BY <3>1, Peers, Words
  <2>3. <<<<1, Msg("uncommitted", 7)>>>> \in Seq(Node \X Message) BY <2>2, Lists
  <2>4. PICK s : s = st[0] OBVIOUS
  <2>5. PICK out : out = <<<<1, Msg("uncommitted", 7)>>>> OBVIOUS
  <2>6. Become(0, s, out) BY <1>4, <2>4, <2>5
  <2>7. Reads(0, {First(0)}) /\ 0 \in Peer BY <1>1, Received, Peers
  <2>8. s \in State /\ (s.pc \in Owing => s.peer \in Node) /\ out \in Seq(Node \X Message)
    BY <2>1, <2>3, <2>4, <2>5
  <2> QED BY <2>6, <2>7, <2>8, Became
<1>5. CASE Ignore(0, {"put"})
  <2>1. Stays BY <1>5 DEF Ignore, Stays
  <2> QED BY <1>1, <2>1, Stayed, Received, Peers
<1> QED BY <1>2, <1>3, <1>4, <1>5 DEF Primary

LEMMA AppendLogNet == ASSUME NetOK, AppendLogPrimary PROVE NetOK'
<1>1. Recv(0, "log") BY DEF AppendLogPrimary
<1>2. From(0) \in Node /\ Reads(0, {First(0)}) /\ st[0].value \in Int /\ st[0] \in State
  BY <1>1, Received, Peers DEF NetOK, ClusterType, State
<1>3. CASE Become(0, [st[0] EXCEPT !.value = @ + 2], <<<<From(0), Msg("index", st[0].value)>>>>)
  <2>1. PICK s : s = [st[0] EXCEPT !.value = @ + 2] OBVIOUS
  <2>2. PICK x : x = Msg("index", st[0].value) OBVIOUS
  <2>3. s \in State /\ s.pc = st[0].pc BY <1>2, <2>1 DEF State
  <2>4. s.pc \notin Owing BY <1>1, <2>3 DEF Recv, Owing
  <2>5. x \in Message
    <3>1. "index" \in Kind BY DEF Kind
    <3> QED BY <1>2, <2>2, <3>1, Words
  <2>6. <<<<From(0), x>>>> \in Seq(Node \X Message) BY <1>2, <2>5, Lists
  <2>7. Become(0, s, <<<<From(0), x>>>>) BY <1>3, <2>1, <2>2
  <2> QED BY <1>2, <2>3, <2>4, <2>6, <2>7, Became, Peers
<1>4. CASE Become(0, At(0, "done"), <<<<From(0), Msg("entries", st[0].value)>>>>)
  <2>1. PICK s : s = At(0, "done") OBVIOUS
  <2>2. PICK x : x = Msg("entries", st[0].value) OBVIOUS
  <2>3. s \in State /\ s.pc \notin Owing
    <3>1. "done" \in Pc BY DEF Pc
    <3> QED BY <2>1, <3>1, Stands, Peers DEF NetOK, Owing
  <2>5. x \in Message
    <3>1. "entries" \in Kind BY DEF Kind
    <3> QED BY <1>2, <2>2, <3>1, Words
  <2>6. <<<<From(0), x>>>> \in Seq(Node \X Message) BY <1>2, <2>5, Lists
  <2>7. Become(0, s, <<<<From(0), x>>>>) BY <1>4, <2>1, <2>2
  <2> QED BY <1>2, <2>3, <2>6, <2>7, Became, Peers
<1>5. CASE Ignore(0, {"append", "read_all"})
  <2>1. Stays BY <1>5 DEF Ignore, Stays
  <2> QED BY <1>2, <2>1, Stayed, Peers
<1> QED BY <1>3, <1>4, <1>5 DEF AppendLogPrimary

LEMMA AwaitAckNet ==
  ASSUME NetOK, NEW pc \in Owing, NEW after \in Pc, after \notin Owing, AwaitAck(0, pc, after)
  PROVE  NetOK'
<1>1. Recv(0, pc) BY DEF AwaitAck
<1>2. Reads(0, {First(0)}) /\ st[0].pc = pc /\ st[0].peer \in Node /\ st[0] \in State
  BY <1>1, Received, Peers DEF NetOK, ClusterType
<1>3. CASE Become(0, [At(0, after) EXCEPT !.acks = 0], <<<<st[0].peer, Plain("ok")>>>>)
  <2>1. PICK s : s = [At(0, after) EXCEPT !.acks = 0] OBVIOUS
  <2>2. s \in State /\ s.pc \notin Owing
    <3>1. At(0, after) \in State /\ At(0, after).pc = after BY Stands, Peers DEF NetOK
    <3>2. s \in State /\ s.pc = after BY <2>1, <3>1 DEF State
    <3> QED BY <3>2
  <2>3. Plain("ok") \in Message
    <3>1. "ok" \in Kind /\ 0 \in Int BY DEF Kind
    <3> QED BY <3>1, Words
  <2>4. PICK out : out = <<<<st[0].peer, Plain("ok")>>>> OBVIOUS
  <2>5. out \in Seq(Node \X Message) BY <1>2, <2>3, <2>4, Lists
  <2>6. Become(0, s, out) BY <1>3, <2>1, <2>4
  <2> QED BY <1>2, <2>2, <2>5, <2>6, Became, Peers
<1>4. CASE Become(0, [st[0] EXCEPT !.acks = @ - 1], <<>>)
  <2>1. PICK s : s = [st[0] EXCEPT !.acks = @ - 1] OBVIOUS
  <2>2. s \in State /\ s.peer = st[0].peer BY <1>2, <2>1 DEF State
  <2>3. <<>> \in Seq(Node \X Message) OBVIOUS
  <2>4. Become(0, s, <<>>) BY <1>4, <2>1
  <2> QED BY <1>2, <2>2, <2>3, <2>4, Became, Peers
<1>5. CASE Ignore(0, {"ack"})
  <2>1. Stays BY <1>5 DEF Ignore, Stays
  <2> QED BY <1>2, <2>1, Stayed, Peers
<1> QED BY <1>3, <1>4, <1>5 DEF AwaitAck

LEMMA FollowerNet == ASSUME NetOK, NEW n \in {1, 2}, Follower(n) PROVE NetOK'
<1>1. Recv(n, "follow") BY DEF Follower
<1>2. n \in Peer /\ n # 0 BY Peers
<1>3. /\ Reads(n, {First(n)}) /\ From(n) \in Node /\ Body(n).value \in Int
      /\ st[n] \in State /\ st[n].value \in Int
  BY <1>1, <1>2, Received DEF NetOK, ClusterType, State
<1> DEFINE m == Body(n)
<1>4. /\ Plain("ack") \in Message /\ Msg("value", st[n].value) \in Message
  <2>1. "ack" \in Kind /\ "value" \in Kind /\ 0 \in Int BY DEF Kind
  <2> QED BY <1>3, <2>1, Words
<1>5. /\ <<<<From(n), Plain("ack")>>>> \in Seq(Node \X Message)
      /\ <<<<From(n), Msg("value", st[n].value)>>>> \in Seq(Node \X Message)
      /\ <<>> \in Seq(Node \X Message)
  BY <1>3, <1>4, Lists
<1>6. [st[n] EXCEPT !.value = m.value] \in State BY <1>3 DEF State
<1>7. At(n, "done") \in State
  <2>1. "done" \in Pc BY DEF Pc
  <2> QED BY <1>2, <2>1, Stands DEF NetOK
<1>8. ASSUME NEW s \in State, NEW out \in Seq(Node \X Message), Become(n, s, out) PROVE NetOK'
  BY <1>2, <1>3, <1>8, Became
<1>9. CASE Ignore(n, {"replicate", "uncommitted", "get", "stop"})
  <2>1. Stays BY <1>9 DEF Ignore, Stays
  <2> QED BY <1>2, <1>3, <2>1, Stayed
<1> QED BY <1>5, <1>6, <1>7, <1>8, <1>9 DEF Follower

\* The client and the observer: nobody waits for what they owe.
LEMMA ClientGoes ==
  ASSUME NetOK, NEW pc \in Pc, NEW out \in Seq(Node \X Message),
         Become(Client, At(Client, pc), out), box' = box \/ \E at \in Pc : Recv(Client, at)
  PROVE  NetOK'
<1>1. Client \in Peer /\ Client # 0 BY Peers
<1>2. PICK s \in State : s = At(Client, pc) BY <1>1, Stands DEF NetOK
<1>3. Become(Client, s, out) BY <1>2
<1>4. CASE box' = box
  <2>1. Reads(Client, {}) BY <1>4 DEF Reads
  <2> QED BY <1>1, <1>3, <2>1, Became
<1>5. CASE \E at \in Pc : Recv(Client, at)
  <2>1. Reads(Client, {First(Client)}) BY <1>1, <1>5, Received
  <2> QED BY <1>1, <1>3, <2>1, Became
<1> QED BY <1>4, <1>5

LEMMA ClientLists ==
  ASSUME NEW a \in Node, NEW k \in Kind, NEW v \in Int
  PROVE  /\ <<<<a, Msg(k, v)>>>> \in Seq(Node \X Message)
         /\ <<<<a, Plain(k)>>>> \in Seq(Node \X Message)
         /\ <<>> \in Seq(Node \X Message)
<1>1. Msg(k, v) \in Message /\ Plain(k) \in Message BY Words
<1> QED BY <1>1, Lists

LEMMA KvClientNet ==
  ASSUME NetOK, KvStart \/ SingleKeyPut \/ SingleKeyGet \/ UncommittedWakes \/ UncommittedGet
                \/ AppendLogClient
  PROVE  NetOK'
<1>1. 0 \in Node /\ 1 \in Node /\ 2 \in Node BY Peers
<1>2. {"put", "get", "append", "read_all", "stop"} \subseteq Kind
      /\ {"put7", "put9", "got", "got-only", "asleep", "appended", "read", "done"} \subseteq Pc
  BY DEF Kind, Pc
<1>3. ASSUME NEW k \in {"put", "get", "append", "read_all", "stop"}, NEW to \in {0, 1, 2},
             NEW v \in {7, 9}, NEW pc \in Pc, Call(to, Msg(k, v), pc) \/ Call(to, Plain(k), pc),
             box' = box \/ \E at \in Pc : Recv(Client, at)
      PROVE  NetOK'
  <2>1. to \in Node /\ k \in Kind /\ v \in Int BY <1>1, <1>2
  <2>2. PICK out \in Seq(Node \X Message) : Become(Client, At(Client, pc), out)
    <3>1. CASE Call(to, Msg(k, v), pc)
      <4>1. <<<<to, Msg(k, v)>>>> \in Seq(Node \X Message) BY <2>1, ClientLists
      <4> QED BY <3>1, <4>1 DEF Call
    <3>2. CASE Call(to, Plain(k), pc)
      <4>1. <<<<to, Plain(k)>>>> \in Seq(Node \X Message) BY <2>1, ClientLists
      <4> QED BY <3>2, <4>1 DEF Call
    <3> QED BY <1>3, <3>1, <3>2
  <2> QED BY <1>3, <2>2, ClientGoes
<1>4. CASE KvStart
  <2>1. box' = box /\ (Call(0, Plain("append"), "appended") \/ Call(0, Msg("put", 7), "asleep")
                       \/ Call(0, Msg("put", 7), "put7"))
    BY <1>4 DEF KvStart
  <2> QED BY <1>2, <1>3, <2>1
<1>5. CASE SingleKeyPut
  <2>1. (Recv(Client, "put7") \/ Recv(Client, "put9"))
        /\ (Call(0, Msg("put", 9), "put9") \/ Call(1, Plain("get"), "got"))
    BY <1>5 DEF SingleKeyPut
  <2> QED BY <1>2, <1>3, <2>1
<1>6. CASE SingleKeyGet
  <2>1. PICK out : out = <<<<1, Plain("stop")>>, <<2, Plain("stop")>>>> OBVIOUS
  <2>2. Recv(Client, "got") /\ Become(Client, At(Client, "done"), out)
    BY <1>6, <2>1 DEF SingleKeyGet
  <2>3. Plain("stop") \in Message
    <3>1. "stop" \in Kind /\ 7 \in Int BY <1>2
    <3> QED BY <3>1, Words
  <2>4. out \in Seq(Node \X Message) BY <1>1, <2>1, <2>3, Lists
  <2> QED BY <1>2, <2>2, <2>4, ClientGoes
<1>7. CASE UncommittedWakes
  <2>1. box' = box /\ Call(1, Plain("get"), "got-only") BY <1>7 DEF UncommittedWakes
  <2> QED BY <1>2, <1>3, <2>1
<1>8. CASE UncommittedGet
  <2>1. Recv(Client, "got-only") /\ Become(Client, At(Client, "done"), <<>>)
    BY <1>8 DEF UncommittedGet
  <2>2. <<>> \in Seq(Node \X Message) OBVIOUS
  <2> QED BY <1>2, <2>1, <2>2, ClientGoes
<1>9. CASE AppendLogClient
  <2>1. \/ Recv(Client, "appended") /\ Call(0, Plain("read_all"), "read")
        \/ Recv(Client, "read") /\ Become(Client, At(Client, "done"), <<>>)
    BY <1>9 DEF AppendLogClient
  <2>2. CASE Recv(Client, "appended") /\ Call(0, Plain("read_all"), "read") BY <1>2, <1>3, <2>2
  <2>3. CASE Recv(Client, "read") /\ Become(Client, At(Client, "done"), <<>>)
    <3>1. <<>> \in Seq(Node \X Message) OBVIOUS
    <3> QED BY <1>2, <2>3, <3>1, ClientGoes
  <2> QED BY <2>1, <2>2, <2>3
<1> QED BY <1>4, <1>5, <1>6, <1>7, <1>8, <1>9

LEMMA KvNet == ASSUME NetOK, KvNext PROVE NetOK'
<1>1. ASSUME AwaitAck(0, "acks", "done") \/ AwaitAck(0, "acks-on", "serve") PROVE NetOK'
  <2>1. "acks" \in Owing /\ "acks-on" \in Owing /\ "done" \in Pc /\ "serve" \in Pc
        /\ "done" \notin Owing /\ "serve" \notin Owing
    BY DEF Owing, Pc
  <2> QED BY <1>1, <2>1, AwaitAckNet
<1>2. ASSUME Follower(1) \/ Follower(2) PROVE NetOK' BY <1>2, FollowerNet
<1> QED BY <1>1, <1>2, PrimaryNet, AppendLogNet, KvClientNet DEF KvNext

LEMMA WaitingIs == ASSUME NEW pc \in Pc PROVE Waiting(pc) \in State /\ Waiting(pc).pc = pc
BY DEF Waiting, State, None

\* A replica goes on where nobody is owed an answer.
LEMMA ReplicaGoes ==
  ASSUME NetOK, NEW n \in {0, 1, 2}, NEW s \in State, s.pc \notin Owing,
         NEW out \in Seq(Node \X Message), Become(n, s, out),
         box' = box \/ \E at \in Pc : Recv(n, at)
  PROVE  NetOK'
<1>1. n \in Peer BY Peers
<1>2. CASE box' = box
  <2>1. Reads(n, {}) BY <1>2 DEF Reads
  <2> QED BY <1>1, <2>1, Became
<1>3. CASE \E at \in Pc : Recv(n, at)
  <2>1. Reads(n, {First(n)}) BY <1>1, <1>3, Received
  <2> QED BY <1>1, <2>1, Became
<1> QED BY <1>2, <1>3

LEMMA DoneIs ==
  ASSUME NetOK, NEW n \in {0, 1, 2}, NEW pc \in Pc, pc \notin Owing
  PROVE  At(n, pc) \in State /\ At(n, pc).pc \notin Owing
BY Stands, Peers DEF NetOK

LEMMA BootNet == ASSUME NetOK, NEW n \in Replica, Boot(n) PROVE NetOK'
<1>1. n \in {0, 1, 2} /\ Observer \in Node BY Peers
<1>2. PICK says : says = Announced(n) OBVIOUS
<1>3. says \in Seq(Message)
  <2>1. /\ {"leader", "single-leader-per-term", "raft-bug", "applied-not-past-commit",
            "committed-not-lost"} \subseteq Kind
        /\ n \in Int
    BY <1>1 DEF Kind
  <2>2. /\ Msg("leader", n) \in Message /\ Plain("single-leader-per-term") \in Message
        /\ Plain("raft-bug") \in Message /\ Plain("applied-not-past-commit") \in Message
        /\ Plain("committed-not-lost") \in Message
    BY <2>1, Words
  <2>3. \A x, y \in Message : <<x, y>> \in Seq(Message) /\ <<x>> \in Seq(Message) /\ <<>> \in Seq(Message)
    OBVIOUS
  <2> HIDE DEF Message
  <2>4. \/ says = <<Msg("leader", n), Plain("single-leader-per-term")>>
        \/ says = <<Plain("raft-bug"), Plain("applied-not-past-commit")>>
        \/ says = <<Plain("raft-bug"), Plain("committed-not-lost")>>
        \/ says = <<Plain("raft-bug")>>
        \/ says = <<>>
    BY <1>2 DEF Announced
  <2> QED BY <2>2, <2>3, <2>4
<1>4. PICK out : out = [k \in DOMAIN says |-> <<Observer, says[k]>>] OBVIOUS
<1>5. out \in Seq(Node \X Message)
  <2>1. DOMAIN says = 1 .. Len(says) /\ Len(says) \in Nat /\ \A k \in DOMAIN says : says[k] \in Message
    BY <1>3, LenProperties, ElementOfSeq
  <2>2. out \in [1 .. Len(says) -> Node \X Message] BY <1>1, <1>4, <2>1
  <2> QED BY <2>1, <2>2, FunctionIsSeq
<1>6. Role(n) \in State /\ Role(n).pc \notin Owing
  <2>1. \A pc \in {"done", "first", "stale", "lead", "once", "follow", "twice"} :
          pc \in Pc /\ pc \notin Owing
    BY DEF Pc, Owing
  <2>2. PICK w : w = [Waiting("twice") EXCEPT !.value = 0] OBVIOUS
  <2>3. w \in State /\ w.pc = "twice"
    <3>1. "twice" \in Pc BY <2>1
    <3> QED BY <2>2, <3>1 DEF Waiting, State, None
  <2>4. \A pc \in {"done", "first", "stale", "lead", "once", "follow"} :
          Waiting(pc) \in State /\ Waiting(pc).pc = pc
    BY <2>1, WaitingIs
  <2>5. Role(n) = w \/ \E pc \in {"done", "first", "stale", "lead", "once", "follow"} : Role(n) = Waiting(pc)
    BY <2>2 DEF Role
  <2> QED BY <2>1, <2>3, <2>4, <2>5
<1>7. Become(n, Role(n), out) /\ box' = box BY <1>2, <1>4 DEF Boot
<1> QED BY <1>1, <1>5, <1>6, <1>7, ReplicaGoes

\* The farewell of a leader.
LEMMA Farewells ==
  ASSUME NEW to \in Node, NEW v \in Int PROVE Farewell(to, v) \in Seq(Node \X Message)
<1>1. "value" \in Kind /\ "stop" \in Kind BY DEF Kind
<1>2. Msg("value", v) \in Message /\ Plain("stop") \in Message BY <1>1, Words
<1>3. 1 \in Node /\ 2 \in Node BY Peers
<1> QED BY <1>2, <1>3, Lists DEF Farewell

\* The step in which a leader starts to replicate.
LEMMA ReplicateNet ==
  ASSUME NetOK, NEW v \in Int, NEW ts \in Seq({1, 2}), NEW acks \in Int, NEW after \in Pc,
         NEW at, Recv(0, at), Replicate(0, v, ts, acks, after)
  PROVE  NetOK'
<1>1. 0 \in Peer /\ 1 \in Node /\ 2 \in Node BY Peers
<1>2. Reads(0, {First(0)}) /\ From(0) \in Node BY <1>1, Received
<1>3. PICK s : s = [pc |-> after, value |-> v, acks |-> acks, peer |-> From(0)] OBVIOUS
<1>4. s \in State /\ s.peer \in Node BY <1>2, <1>3 DEF State
<1>5. PICK x : x = Msg("replicate", v) OBVIOUS
<1>6. x \in Message
  <2>1. "replicate" \in Kind BY DEF Kind
  <2> QED BY <1>5, <2>1, Words
<1>7. PICK out : out = [k \in DOMAIN ts |-> <<ts[k], x>>] OBVIOUS
<1>8. out \in Seq(Node \X Message)
  <2>1. DOMAIN ts = 1 .. Len(ts) /\ Len(ts) \in Nat /\ \A k \in DOMAIN ts : ts[k] \in Node
    BY <1>1, LenProperties, ElementOfSeq
  <2>2. out \in [1 .. Len(ts) -> Node \X Message] BY <1>6, <1>7, <2>1
  <2> QED BY <2>1, <2>2, FunctionIsSeq
<1>9. Become(0, s, out) BY <1>3, <1>5, <1>7 DEF Replicate
<1> QED BY <1>1, <1>2, <1>4, <1>8, <1>9, Became

LEMMA LeaderNet == ASSUME NetOK, Leader PROVE NetOK'
<1>1. Recv(0, "lead") BY DEF Leader
<1>2. "lead" \in Pc /\ "done" \in Pc /\ "done" \notin Owing /\ "acks-lead" \in Pc BY DEF Pc, Owing
<1>3. From(0) \in Node /\ Reads(0, {First(0)}) /\ 0 \in Peer /\ st[0].value \in Int
  BY <1>1, Received, Peers DEF NetOK, ClusterType, State
<1>4. CASE Replicate(0, 7, <<1, 2>>, 2, "acks-lead")
  <2>1. <<1, 2>> \in Seq({1, 2}) OBVIOUS
  <2>2. PICK ts : ts = <<1, 2>> OBVIOUS
  <2>3. ts \in Seq({1, 2}) BY <2>1, <2>2
  <2>4. Replicate(0, 7, ts, 2, "acks-lead") BY <1>4, <2>2
  <2> QED BY <1>1, <1>2, <2>3, <2>4, ReplicateNet
<1>5. CASE Become(0, At(0, "done"), Farewell(From(0), st[0].value))
  <2>1. Farewell(From(0), st[0].value) \in Seq(Node \X Message) BY <1>3, Farewells
  <2>2. PICK out \in Seq(Node \X Message) : out = Farewell(From(0), st[0].value) BY <2>1
  <2>3. At(0, "done") \in State /\ At(0, "done").pc \notin Owing BY <1>2, DoneIs
  <2> QED BY <1>1, <1>2, <1>5, <2>2, <2>3, ReplicaGoes
<1>6. CASE Ignore(0, {"put", "get"})
  <2>1. Stays BY <1>6 DEF Ignore, Stays
  <2> QED BY <1>3, <2>1, Stayed
<1> QED BY <1>4, <1>5, <1>6 DEF Leader

LEMMA VisibleBugNet == ASSUME NetOK, VisibleBugLeader PROVE NetOK'
<1>1. /\ "first" \in Pc /\ "second" \in Pc /\ "done" \in Pc
      /\ "second" \notin Owing /\ "done" \notin Owing
  BY DEF Pc, Owing
<1>2. Recv(0, "first") \/ Recv(0, "second") BY DEF VisibleBugLeader
<1>3. From(0) \in Node BY <1>2, Received, Peers
<1>4. CASE Recv(0, "first")
           /\ Become(0, At(0, "second"), IF Body(0).kind = "put" THEN <<<<From(0), Plain("ok")>>>> ELSE <<>>)
  <2>1. PICK out : out = IF Body(0).kind = "put" THEN <<<<From(0), Plain("ok")>>>> ELSE <<>> OBVIOUS
  <2>2. out \in Seq(Node \X Message)
    <3>1. "ok" \in Kind /\ 7 \in Int BY DEF Kind
    <3>2. <<<<From(0), Plain("ok")>>>> \in Seq(Node \X Message) /\ <<>> \in Seq(Node \X Message)
      BY <1>3, <3>1, ClientLists
    <3> QED BY <2>1, <3>2
  <2>3. At(0, "second") \in State /\ At(0, "second").pc \notin Owing BY <1>1, DoneIs
  <2> QED BY <1>1, <1>4, <2>1, <2>2, <2>3, ReplicaGoes
<1>5. CASE Recv(0, "second")
           /\ Become(0, At(0, "done"), IF Body(0).kind = "get" THEN Farewell(From(0), None) ELSE <<>>)
  <2>1. PICK out : out = IF Body(0).kind = "get" THEN Farewell(From(0), None) ELSE <<>> OBVIOUS
  <2>2. out \in Seq(Node \X Message)
    <3>1. None \in Int BY DEF None
    <3>2. Farewell(From(0), None) \in Seq(Node \X Message) /\ <<>> \in Seq(Node \X Message)
      BY <1>3, <3>1, Farewells
    <3> QED BY <2>1, <3>2
  <2>3. At(0, "done") \in State /\ At(0, "done").pc \notin Owing BY <1>1, DoneIs
  <2> QED BY <1>1, <1>5, <2>1, <2>2, <2>3, ReplicaGoes
<1> QED BY <1>4, <1>5 DEF VisibleBugLeader

LEMMA StaleReadNet == ASSUME NetOK, StaleReadLeader PROVE NetOK'
<1>1. "stale" \in Pc /\ "any" \in Pc /\ "any" \in Owing /\ "done" \in Pc /\ "done" \notin Owing
  BY DEF Pc, Owing
<1>2. At(0, "done") \in State /\ At(0, "done").pc \notin Owing BY <1>1, DoneIs
<1>3. CASE Recv(0, "stale") /\ Replicate(0, 7, <<2>>, 1, "any")
  <2>1. <<2>> \in Seq({1, 2}) OBVIOUS
  <2>2. PICK ts : ts = <<2>> OBVIOUS
  <2>3. ts \in Seq({1, 2}) BY <2>1, <2>2
  <2>4. Recv(0, "stale") /\ Replicate(0, 7, ts, 1, "any") BY <1>3, <2>2
  <2> QED BY <1>1, <2>3, <2>4, ReplicateNet
<1>4. CASE Recv(0, "stale") /\ Become(0, At(0, "done"), <<>>)
  <2>1. <<>> \in Seq(Node \X Message) OBVIOUS
  <2> QED BY <1>1, <1>2, <1>4, <2>1, ReplicaGoes
<1>5. CASE Recv(0, "any") /\ Become(0, At(0, "done"), <<<<st[0].peer, Plain("ok")>>>>)
  <2>1. st[0].peer \in Node BY <1>1, <1>5 DEF NetOK, ClusterType, Recv
  <2>2. "ok" \in Kind /\ 7 \in Int BY DEF Kind
  <2>3. PICK out : out = <<<<st[0].peer, Plain("ok")>>>> OBVIOUS
  <2>4. out \in Seq(Node \X Message) BY <2>1, <2>2, <2>3, ClientLists
  <2> QED BY <1>1, <1>2, <1>5, <2>3, <2>4, ReplicaGoes
<1> QED BY <1>3, <1>4, <1>5 DEF StaleReadLeader

LEMMA DuplicateRequestNet == ASSUME NetOK, DuplicateRequestLeader PROVE NetOK'
<1>1. "twice" \in Pc /\ "done" \in Pc /\ "twice" \notin Owing /\ "done" \notin Owing BY DEF Pc, Owing
<1>2. Recv(0, "twice") BY DEF DuplicateRequestLeader
<1>3. From(0) \in Node /\ st[0] \in State /\ st[0].value \in Int /\ st[0].acks \in Int
  BY <1>2, Received, Peers DEF NetOK, ClusterType, State
<1>4. PICK v : v = st[0].value + (IF Body(0).kind = "request" THEN 1 ELSE 0) OBVIOUS
<1>5. v \in Int BY <1>3, <1>4
<1>6. PICK pc : pc = IF st[0].acks = 1 THEN "done" ELSE "twice" OBVIOUS
<1>7. PICK s : s = [st[0] EXCEPT !.value = v, !.acks = @ + 1, !.pc = pc] OBVIOUS
<1>8. s \in State /\ s.pc \notin Owing
  <2>1. pc \in Pc /\ pc \notin Owing BY <1>1, <1>6
  <2>2. PICK a \in Int : a = st[0].acks + 1 BY <1>3
  <2>3. [st[0] EXCEPT !.value = v, !.acks = @ + 1, !.pc = pc] =
          [pc |-> pc, value |-> v, acks |-> a, peer |-> st[0].peer]
    <3>1. st[0] = [pc |-> st[0].pc, value |-> st[0].value, acks |-> st[0].acks, peer |-> st[0].peer]
      BY <1>3 DEF State
    <3>2. PICK r : r = [st[0] EXCEPT !.value = v] OBVIOUS
    <3>3. r = [pc |-> st[0].pc, value |-> v, acks |-> st[0].acks, peer |-> st[0].peer] BY <3>1, <3>2
    <3>4. PICK q : q = [r EXCEPT !.acks = @ + 1] OBVIOUS
    <3>5. q = [pc |-> st[0].pc, value |-> v, acks |-> a, peer |-> st[0].peer] BY <2>2, <3>3, <3>4
    <3>6. [q EXCEPT !.pc = pc] = [pc |-> pc, value |-> v, acks |-> a, peer |-> st[0].peer] BY <3>5
    <3>7. [st[0] EXCEPT !.value = v, !.acks = @ + 1, !.pc = pc] = [q EXCEPT !.pc = pc]
      BY <3>1, <3>2, <3>4
    <3> QED BY <3>6, <3>7
  <2>4. st[0].peer \in Node \union {None} BY <1>3 DEF State
  <2>5. s \in State /\ s.pc = pc BY <1>5, <1>7, <2>1, <2>3, <2>4 DEF State
  <2> QED BY <2>1, <2>5
<1>9. PICK out : out = IF Body(0).kind = "request" THEN <<<<From(0), Msg("applied", v)>>>> ELSE <<>>
  OBVIOUS
<1>10. out \in Seq(Node \X Message)
  <2>1. "applied" \in Kind BY DEF Kind
  <2>2. <<<<From(0), Msg("applied", v)>>>> \in Seq(Node \X Message) /\ <<>> \in Seq(Node \X Message)
    BY <1>3, <1>5, <2>1, ClientLists
  <2> QED BY <1>9, <2>2
<1>11. Become(0, s, out) BY <1>4, <1>6, <1>7, <1>9 DEF DuplicateRequestLeader
<1> QED BY <1>1, <1>2, <1>8, <1>10, <1>11, ReplicaGoes

LEMMA OneShotNet == ASSUME NetOK, NEW n \in {1, 2}, OneShot(n) PROVE NetOK'
<1>1. "once" \in Pc /\ "done" \in Pc /\ "done" \notin Owing /\ n \in Peer BY Peers DEF Pc, Owing
<1>2. Recv(n, "once") BY DEF OneShot
<1>3. From(n) \in Node BY <1>1, <1>2, Received
<1>4. /\ <<<<From(n), Msg("value", None)>>>> \in Seq(Node \X Message)
      /\ <<<<From(n), Plain("ack")>>>> \in Seq(Node \X Message) /\ <<>> \in Seq(Node \X Message)
  <2>1. "value" \in Kind /\ "ack" \in Kind /\ None \in Int BY DEF Kind, None
  <2> QED BY <1>3, <2>1, ClientLists
<1>5. PICK out \in Seq(Node \X Message) : Become(n, At(n, "done"), out)
  <2>1. PICK out : /\ \/ out = <<<<From(n), Msg("value", None)>>>>
                      \/ out = <<<<From(n), Plain("ack")>>>>
                      \/ out = <<>>
                   /\ Become(n, At(n, "done"), out)
    BY DEF OneShot
  <2> QED BY <1>4, <2>1
<1>6. At(n, "done") \in State /\ At(n, "done").pc \notin Owing BY <1>1, DoneIs
<1> QED BY <1>1, <1>2, <1>5, <1>6, ReplicaGoes

LEMMA RaftClientNet ==
  ASSUME NetOK, RaftStart \/ RaftPut \/ RaftGet \/ DuplicateRequestClient PROVE NetOK'
<1>1. {"put", "get", "request"} \subseteq Kind /\ 0 \in Node /\ 1 \in Node
      /\ {"put", "got", "asked", "again", "done"} \subseteq Pc
  BY Peers DEF Kind, Pc
<1>2. ASSUME NEW to \in {0, 1}, NEW k \in {"put", "get", "request"}, NEW pc \in Pc,
             Call(to, Msg(k, 7), pc) \/ Call(to, Plain(k), pc),
             box' = box \/ \E at \in Pc : Recv(Client, at)
      PROVE  NetOK'
  <2>1. to \in Node /\ k \in Kind /\ 7 \in Int BY <1>1
  <2>2. PICK out \in Seq(Node \X Message) : Become(Client, At(Client, pc), out)
    <3>1. <<<<to, Msg(k, 7)>>>> \in Seq(Node \X Message) /\ <<<<to, Plain(k)>>>> \in Seq(Node \X Message)
      BY <2>1, ClientLists
    <3> QED BY <1>2, <3>1 DEF Call
  <2> QED BY <1>2, <2>2, ClientGoes
<1>3. ASSUME Become(Client, At(Client, "done"), <<>>), box' = box \/ \E at \in Pc : Recv(Client, at)
      PROVE  NetOK'
  <2>1. <<>> \in Seq(Node \X Message) OBVIOUS
  <2> QED BY <1>1, <1>3, <2>1, ClientGoes
<1>4. CASE RaftStart
  <2>1. box' = box /\ (\/ Call(0, Plain("request"), "asked") \/ Call(0, Msg("put", 7), "put")
                       \/ Become(Client, At(Client, "done"), <<>>))
    BY <1>4 DEF RaftStart
  <2> QED BY <1>1, <1>2, <1>3, <2>1
<1>5. CASE RaftPut
  <2>1. Recv(Client, "put") /\ \E to \in {0, 1} : Call(to, Plain("get"), "got") BY <1>5 DEF RaftPut
  <2> QED BY <1>1, <1>2, <2>1
<1>6. CASE RaftGet
  <2>1. Recv(Client, "got") /\ Become(Client, At(Client, "done"), <<>>) BY <1>6 DEF RaftGet
  <2> QED BY <1>1, <1>3, <2>1
<1>7. CASE DuplicateRequestClient
  <2>1. \/ Recv(Client, "asked") /\ Call(0, Plain("request"), "again")
        \/ Recv(Client, "again") /\ Become(Client, At(Client, "done"), <<>>)
    BY <1>7 DEF DuplicateRequestClient
  <2> QED BY <1>1, <1>2, <1>3, <2>1
<1> QED BY <1>4, <1>5, <1>6, <1>7

LEMMA CollectNet == ASSUME NetOK, Collect PROVE NetOK'
<1>1. Recv(Observer, "collect") /\ Observer \in Peer /\ Observer # 0 /\ 0 \in Peer
  BY Peers DEF Collect
<1>2. UNCHANGED <<posted, wire, doubled>> BY DEF Collect
<1>3. PICK pc \in Pc : st' = [st EXCEPT ![Observer].pc = pc]
  <2>1. "done" \in Pc /\ "collect" \in Pc BY DEF Pc
  <2> QED BY <2>1 DEF Collect
<1>4. st \in [Peer -> State] BY DEF NetOK, ClusterType
<1>5. [st[Observer] EXCEPT !.pc = pc] \in State BY <1>1, <1>4 DEF State
<1>6. st' = [st EXCEPT ![Observer] = [st[Observer] EXCEPT !.pc = pc]] BY <1>3
<1>7. st' \in [Peer -> State] /\ st'[0] = st[0] BY <1>1, <1>4, <1>5, <1>6
<1>8. st'[0].pc \in Owing => st'[0].peer \in Node BY <1>7 DEF NetOK, ClusterType
<1> QED BY <1>1, <1>2, <1>7, <1>8, Received, Ignored

LEMMA RaftNet == ASSUME NetOK, RaftNext PROVE NetOK'
<1>1. ASSUME AwaitAck(0, "acks-lead", "lead") PROVE NetOK'
  <2>1. "acks-lead" \in Owing /\ "lead" \in Pc /\ "lead" \notin Owing BY DEF Owing, Pc
  <2> QED BY <1>1, <2>1, AwaitAckNet
<1> QED BY <1>1, LeaderNet, VisibleBugNet, StaleReadNet, DuplicateRequestNet, BootNet, FollowerNet,
           OneShotNet, RaftClientNet, CollectNet DEF RaftNext

LEMMA CarriedNet ==
  ASSUME NetOK, NEW m \in DOMAIN wire, Arrive(m) \/ Vanish(m)
  PROVE  NetOK' /\ Fades({}) /\ posted' = posted /\ st' = st /\ ops' = ops /\ system' = system
<1>1. m \in DOMAIN posted BY Numbers DEF NetOK
<1>2. (Deliver(m) \/ Lose(m)) /\ UNCHANGED doubled /\ UNCHANGED local /\ UNCHANGED system
  BY DEF Arrive, Vanish
<1>3. st' = st /\ ops' = ops BY <1>2 DEF local
<1>4. /\ posted' \in Seq(Letter) /\ wire' \in Seq(Nat) /\ Len(wire') = Len(posted')
      /\ Boxes' /\ Single' /\ Fades({}) /\ posted' = posted
  BY <1>1, <1>2, Carried
<1>5. ClusterType' BY <1>3, <1>4 DEF NetOK, ClusterType
<1> QED BY <1>2, <1>3, <1>4, <1>5 DEF NetOK

LEMMA Stutters ==
  ASSUME NetOK, UNCHANGED allVars
  PROVE  NetOK' /\ Fades({}) /\ posted' = posted /\ st' = st /\ ops' = ops /\ system' = system
<1>1. /\ posted' = posted /\ wire' = wire /\ box' = box /\ st' = st /\ ops' = ops
      /\ doubled' = doubled /\ system' = system
  BY DEF allVars, vars
<1>2. 0 \in Peer /\ Reads(0, {}) /\ Stays BY <1>1, Peers DEF Reads, Stays
<1>3. NetOK' /\ Fades({}) BY <1>2, Stayed
<1> QED BY <1>1, <1>3

LEMMA NetStep == NetOK /\ [ProtocolsNext]_allVars => NetOK'
BY KvNet, RaftNet, CarriedNet, Stutters DEF ProtocolsNext, Progress

LEMMA NetInit == ProtocolsInit => NetOK
<1> SUFFICES ASSUME ProtocolsInit PROVE NetOK OBVIOUS
<1>1. posted = <<>> /\ wire = <<>> /\ box = [n \in Node |-> <<>>] /\ doubled = {}
  BY DEF ProtocolsInit, ClusterInit, Init
<1>2. PICK reps : /\ reps = IF system.proto = "kv" THEN KvReplicas ELSE RaftReplicas
                  /\ st = [n \in Peer |-> CASE n = Client -> Waiting("start")
                                            [] n = Observer -> Waiting("collect")
                                            [] OTHER -> reps[n]]
  <2>1. st = [n \in Peer |-> CASE n = Client -> Waiting("start")
                               [] n = Observer -> Waiting("collect")
                               [] OTHER -> (IF system.proto = "kv" THEN KvReplicas ELSE RaftReplicas)[n]]
    BY DEF ProtocolsInit, Peer
  <2> QED BY <2>1
<1>3. Replica = {0, 1, 2} /\ Peer = {0, 1, 2, Client, Observer} /\ Client \notin Replica
      /\ Observer \notin Replica /\ Observer # Client
  BY Peers DEF Peer
<1>4. \A pc \in {"start", "collect", "follow", "serve", "boot", "log"} :
        pc \in Pc /\ Waiting(pc) \in State /\ Waiting(pc).pc = pc /\ pc \notin Owing
  <2>1. \A pc \in {"start", "collect", "follow", "serve", "boot", "log"} : pc \in Pc /\ pc \notin Owing
    BY DEF Pc, Owing
  <2> QED BY <2>1, WaitingIs
<1>5. PICK w : w = [Waiting("log") EXCEPT !.value = 0] OBVIOUS
<1>6. w \in State /\ w.pc = "log"
  <2>1. "log" \in Pc BY <1>4
  <2> QED BY <1>5, <2>1 DEF Waiting, State, None
<1>7. reps \in [Replica -> State] /\ reps[0].pc \notin Owing
  <2>1. CASE system.proto = "kv"
    <3>1. DOMAIN reps = Replica /\ reps = [n \in Replica |-> reps[n]] BY <1>2, <2>1 DEF KvReplicas
    <3>2. \A n \in Replica : reps[n] \in {Waiting("follow"), w, Waiting("serve")}
      BY <1>2, <1>5, <2>1 DEF KvReplicas
    <3>3. \A x \in {Waiting("follow"), w, Waiting("serve")} : x \in State /\ x.pc \notin Owing
      BY <1>4, <1>6
    <3> QED BY <1>3, <3>1, <3>2, <3>3
  <2>2. CASE system.proto # "kv"
    <3>1. reps = [n \in Replica |-> Waiting("boot")] BY <1>2, <2>2 DEF RaftReplicas
    <3> QED BY <1>3, <1>4, <3>1
  <2> QED BY <2>1, <2>2
<1>8. /\ DOMAIN st = {0, 1, 2, Client, Observer}
      /\ \A n \in Replica : st[n] = reps[n]
      /\ st[Client] = Waiting("start") /\ st[Observer] = Waiting("collect")
      /\ st = [n \in DOMAIN st |-> st[n]]
  BY <1>2, <1>3
<1>9. st \in [Peer -> State] /\ st[0].pc \notin Owing BY <1>3, <1>4, <1>7, <1>8
<1>10. ClusterType
  <2>1. <<>> \in Seq(Letter) /\ <<>> \in Seq(Nat) OBVIOUS
  <2> QED BY <1>1, <1>9, <2>1 DEF ClusterType
<1>11. Boxes
  <2>1. <<>> \in Seq([from : Node, msg : Nat]) /\ DOMAIN <<>> = {} OBVIOUS
  <2> QED BY <1>1, <2>1 DEF Boxes
<1>12. Single
  <2>1. DOMAIN posted = {} BY <1>1
  <2> QED BY <1>1, <2>1 DEF Single
<1> QED BY <1>10, <1>11, <1>12 DEF NetOK

-----------------------------------------------------------------------------
(* The steps of a correct variant *)

\* The datagrams of N are sent.
Adds(N) == DOMAIN posted' = DOMAIN posted \union N /\ N \intersect DOMAIN posted = {}

LEMMA Fresh ==
  ASSUME NetOK, NEW n, NEW out, Posts(n, out)
  PROVE  /\ Len(posted) \in Nat /\ DOMAIN posted = 1 .. Len(posted)
         /\ DOMAIN posted' = 1 .. Len(posted) + Len(out)
         /\ \A k \in DOMAIN out :
              posted'[Len(posted) + k] = [from |-> n, to |-> out[k][1], body |-> out[k][2]]
BY Numbers DEF NetOK, Posts

\* The same as one formula.
Continues(n, out) ==
  /\ Len(posted) \in Nat /\ DOMAIN posted = 1 .. Len(posted)
  /\ DOMAIN posted' = 1 .. Len(posted) + Len(out)
  /\ \A k \in DOMAIN out :
       posted'[Len(posted) + k] = [from |-> n, to |-> out[k][1], body |-> out[k][2]]

LEMMA FreshOnes == ASSUME NetOK, NEW n, NEW out, Posts(n, out) PROVE Continues(n, out)
BY Fresh DEF Continues

\* One letter alone, from what its list says of it.
Sole(out, a, x) == Len(out) = 1 /\ 1 \in DOMAIN out /\ out[1][1] = a /\ out[1][2] = x

LEMMA AddedNone == ASSUME NetOK, NEW n, Posts(n, <<>>) PROVE Adds({})
<1>1. Len(posted) \in Nat /\ DOMAIN posted = 1 .. Len(posted) /\ Len(<<>>) = 0
      /\ DOMAIN posted' = 1 .. Len(posted) + Len(<<>>)
  BY Fresh
<1> QED BY <1>1 DEF Adds

LEMMA AddedSole ==
  ASSUME NetOK, NEW n, NEW out, Posts(n, out), NEW a, NEW x, Sole(out, a, x)
  PROVE  \E p : Adds({p}) /\ posted'[p] = [from |-> n, to |-> a, body |-> x]
<1> DEFINE P == Len(posted)
<1>3. /\ P \in Nat /\ DOMAIN posted = 1 .. P /\ DOMAIN posted' = 1 .. P + Len(out)
      /\ \A k \in DOMAIN out :
           posted'[P + k] = [from |-> n, to |-> out[k][1], body |-> out[k][2]]
  BY FreshOnes DEF Continues
<1> HIDE DEF P
<1>4. /\ DOMAIN posted' = 1 .. P + 1
      /\ posted'[P + 1] = [from |-> n, to |-> a, body |-> x]
  BY <1>3 DEF Sole
<1>5. Adds({P + 1}) BY <1>3, <1>4 DEF Adds
<1> QED BY <1>4, <1>5

LEMMA AddedOne ==
  ASSUME NetOK, NEW n, NEW a, NEW x, Posts(n, <<<<a, x>>>>)
  PROVE  \E p : Adds({p}) /\ posted'[p] = [from |-> n, to |-> a, body |-> x]
<1>1. PICK out : out = <<<<a, x>>>> OBVIOUS
<1>2. Posts(n, out) BY <1>1
<1>3. Sole(out, a, x) BY <1>1 DEF Sole
<1> QED BY <1>2, <1>3, AddedSole

LEMMA AddedTwo ==
  ASSUME NetOK, NEW n, NEW out, Posts(n, out), Len(out) = 2, DOMAIN out = 1 .. 2
  PROVE  \E p, q : /\ p # q /\ Adds({p, q})
                   /\ posted'[p] = [from |-> n, to |-> out[1][1], body |-> out[1][2]]
                   /\ posted'[q] = [from |-> n, to |-> out[2][1], body |-> out[2][2]]
<1> DEFINE P == Len(posted)
<1>1. /\ P \in Nat /\ DOMAIN posted = 1 .. P /\ DOMAIN posted' = 1 .. P + 2
      /\ \A k \in {1, 2} :
           posted'[P + k] = [from |-> n, to |-> out[k][1], body |-> out[k][2]]
  <2>1. /\ P \in Nat /\ DOMAIN posted = 1 .. P /\ DOMAIN posted' = 1 .. P + Len(out)
        /\ \A k \in DOMAIN out :
             posted'[P + k] = [from |-> n, to |-> out[k][1], body |-> out[k][2]]
    BY Numbers DEF NetOK, Posts
  <2>2. \A k \in {1, 2} : k \in DOMAIN out OBVIOUS
  <2> QED BY <2>1, <2>2
<1> HIDE DEF P
<1>2. P + 1 # P + 2 /\ Adds({P + 1, P + 2}) BY <1>1 DEF Adds
<1> QED BY <1>1, <1>2

LEMMA AddedThree ==
  ASSUME NetOK, NEW n, NEW out, Posts(n, out), Len(out) = 3, DOMAIN out = 1 .. 3
  PROVE  \E p, q, r : /\ Adds({p, q, r})
                      /\ posted'[p] = [from |-> n, to |-> out[1][1], body |-> out[1][2]]
                      /\ posted'[q] = [from |-> n, to |-> out[2][1], body |-> out[2][2]]
                      /\ posted'[r] = [from |-> n, to |-> out[3][1], body |-> out[3][2]]
<1> DEFINE P == Len(posted)
<1>1. /\ P \in Nat /\ DOMAIN posted = 1 .. P /\ DOMAIN posted' = 1 .. P + 3
      /\ \A k \in {1, 2, 3} :
           posted'[P + k] = [from |-> n, to |-> out[k][1], body |-> out[k][2]]
  <2>1. /\ P \in Nat /\ DOMAIN posted = 1 .. P /\ DOMAIN posted' = 1 .. P + Len(out)
        /\ \A k \in DOMAIN out :
             posted'[P + k] = [from |-> n, to |-> out[k][1], body |-> out[k][2]]
    BY Numbers DEF NetOK, Posts
  <2>2. \A k \in {1, 2, 3} : k \in DOMAIN out OBVIOUS
  <2> QED BY <2>1, <2>2
<1> HIDE DEF P
<1>2. Adds({P + 1, P + 2, P + 3}) BY <1>1 DEF Adds
<1> QED BY <1>1, <1>2

\* What such a step leaves as it was.
LEMMA Kept ==
  ASSUME NEW N, Adds(N), NEW T, Fades(T)
  PROVE  /\ \A k : Sent(k)' = Sent(k) \union {m \in N : posted'[m].body.kind = k}
         /\ \A k : (\A m \in N : posted'[m].body.kind # k) => Sent(k)' = Sent(k)
         /\ \A k : (\A m \in N : posted'[m].body.kind = k) => Sent(k)' = Sent(k) \union N
         /\ \A m \in DOMAIN posted : posted'[m] = posted[m] /\ (Gone(m) => Gone(m)')
         /\ \A kinds : Doubled(kinds) => Doubled(kinds)'
         /\ \A m \in T : ~Gone(m)
         /\ \A kinds : ~Doubled(kinds) =>
              \A m \in T : posted[m].body.kind \in kinds => Gone(m)'
<1>1. \A m \in DOMAIN posted : posted'[m] = posted[m] /\ (Gone(m) => Gone(m)') BY DEF Fades
<1>2. \A k : Sent(k)' = Sent(k) \union {m \in N : posted'[m].body.kind = k}
  BY <1>1 DEF Adds, Sent
<1>6. \A k : (\A m \in N : posted'[m].body.kind # k) => Sent(k)' = Sent(k)
  <2> SUFFICES ASSUME NEW k, \A m \in N : posted'[m].body.kind # k PROVE Sent(k)' = Sent(k)
    OBVIOUS
  <2>1. {m \in N : posted'[m].body.kind = k} = {} OBVIOUS
  <2> QED BY <1>2, <2>1
<1>7. \A k : (\A m \in N : posted'[m].body.kind = k) => Sent(k)' = Sent(k) \union N
  <2> SUFFICES ASSUME NEW k, \A m \in N : posted'[m].body.kind = k
               PROVE  Sent(k)' = Sent(k) \union N
    OBVIOUS
  <2>1. {m \in N : posted'[m].body.kind = k} = N OBVIOUS
  <2> QED BY <1>2, <2>1
<1>3. \A kinds : Doubled(kinds) => Doubled(kinds)' BY DEF Fades, Doubled
<1>4. \A m \in T : ~Gone(m) /\ (m \notin doubled => Gone(m)') BY DEF Fades
<1>5. \A kinds : ~Doubled(kinds) =>
        \A m \in T : posted[m].body.kind \in kinds => Gone(m)'
  BY <1>4 DEF Doubled
<1> QED BY <1>1, <1>2, <1>3, <1>4, <1>5, <1>6, <1>7

\* Who says what, by its kind.
LEMMA Senders ==
  ASSUME Said
  PROVE  /\ \A m \in Sent("put") : posted[m].from = Client /\ posted[m].to = 0 /\ posted[m].body.value = 7
         /\ \A m \in Sent("replicate") : /\ posted[m].from = 0 /\ posted[m].to \in {1, 2}
                                         /\ posted[m].body.value = 7
         /\ \A m \in Sent("ack") : posted[m].from \in {1, 2} /\ posted[m].to = 0
         /\ \A m \in Sent("get") : /\ posted[m].from = Client
                                   /\ posted[m].to = (IF system.proto = "kv" THEN 1 ELSE 0)
         /\ \A m \in DOMAIN posted :
              /\ posted[m].to = Client => posted[m].body.kind \in {"ok", "value"}
              /\ posted[m].to = 0 => posted[m].body.kind \in {"put", "ack", "get"}
              /\ posted[m].to \in {1, 2} => posted[m].body.kind \in {"replicate", "get", "stop"}
BY DEF Said, Word, Sent, Msg, Plain, Client

\* A step that sends nothing and moves neither replica nor client.
LEMMA Still ==
  ASSUME Orderly, UNCHANGED <<system, posted, ops>>, NEW T, Fades(T),
         \A n \in {0, 1, 2, Client} : st'[n] = st[n]
  PROVE  Orderly'
<1>1. Adds({}) BY DEF Adds
<1>2. /\ \A k : Sent(k)' = Sent(k)
      /\ \A m \in DOMAIN posted : Gone(m) => Gone(m)'
      /\ \A kinds : Doubled(kinds) => Doubled(kinds)'
  <2>1. \A k : Sent(k)' = Sent(k) BY DEF Sent
  <2> QED BY <1>1, <2>1, Kept
<1>3. Roles' BY DEF Orderly, Roles
<1>4. Said' BY DEF Orderly, Said, Collecting, Word
<1>5. \A k : Sent(k) \subseteq DOMAIN posted BY DEF Sent
<1>6. Waited => Waited'
  <2>1. \A a \in Sent("ack") : posted[a].from \in {1, 2} BY Senders DEF Orderly
  <2> QED BY <1>2, <1>5, <2>1 DEF Waited, Asking, Collecting
<1>7. Copied => Copied' BY DEF Copied
<1>8. Round' BY <1>2, <1>6, <1>7 DEF Orderly, Round
<1>9. Told => Told' BY <1>2, <1>5 DEF Told, Asking, Collecting
<1>10. Decided => Decided' BY <1>2, <1>5 DEF Decided
<1>11. Answered => Answered' BY <1>2, <1>10 DEF Answered, Collecting
<1>12. Confusing' = Confusing BY DEF Confusing
<1>13. Reports' BY <1>2, <1>9, <1>11, <1>12 DEF Orderly, Reports
<1> QED BY <1>3, <1>4, <1>8, <1>13 DEF Orderly

\* What such a step leaves of what a variant promises: there are more datagrams and more doubled
\* ones, so what is assumed after it was assumed before.
LEMMA Grows ==
  ASSUME Orderly, system' = system, NEW N, Adds(N), NEW T, Fades(T)
  PROVE  /\ Confusing' = Confusing
         /\ ~Doubled(Confusing)' => ~Doubled(Confusing) /\ Told /\ Answered
         /\ ~Doubled({"replicate", "ack"})' =>
              ~Doubled({"replicate", "ack"}) /\ (Copied \/ Waited)
         /\ \A k : Sent(k) \subseteq DOMAIN posted
         /\ \A k : \A m \in Sent(k)' : m \in Sent(k) \/ (m \in N /\ posted'[m].body.kind = k)
         /\ \A k : \A m \in Sent(k) : m \in Sent(k)' /\ posted'[m] = posted[m]
         /\ \A m \in DOMAIN posted' : m \in DOMAIN posted \/ m \in N
<1>1. Confusing' = Confusing BY DEF Confusing
<1>2. ~Doubled(Confusing)' => ~Doubled(Confusing) BY <1>1, Kept
<1>3. ~Doubled({"replicate", "ack"})' => ~Doubled({"replicate", "ack"}) BY Kept
<1>4. \A k : Sent(k) \subseteq DOMAIN posted BY DEF Sent
<1>5. /\ \A k : \A m \in Sent(k)' : m \in Sent(k) \/ (m \in N /\ posted'[m].body.kind = k)
      /\ \A k : \A m \in Sent(k) : m \in Sent(k)' /\ posted'[m] = posted[m]
  BY <1>4, Kept
<1>6. \A m \in DOMAIN posted' : m \in DOMAIN posted \/ m \in N BY DEF Adds
<1> QED BY <1>1, <1>2, <1>3, <1>4, <1>5, <1>6 DEF Orderly, Round, Reports

\* The client sends its put.
LEMMA Asks ==
  ASSUME Orderly, UNCHANGED <<system, ops>>, st[Client].pc = "start",
         st'[Client].pc = (IF system.proto = "kv" THEN "put7" ELSE "put"),
         \A n \in {0, 1, 2} : st'[n] = st[n],
         NEW p, Adds({p}), Fades({}), posted'[p] = [from |-> Client, to |-> 0, body |-> Msg("put", 7)]
  PROVE  Orderly'
<1>1. posted'[p].body.kind = "put" BY DEF Msg
<1>2. /\ \A k \in {"replicate", "ack", "ok", "get", "value"} : Sent(k)' = Sent(k)
      /\ Sent("put")' = Sent("put") \union {p}
  <2>1. \A k : /\ (\A m \in {p} : posted'[m].body.kind # k) => Sent(k)' = Sent(k)
               /\ (\A m \in {p} : posted'[m].body.kind = k) => Sent(k)' = Sent(k) \union {p}
    BY Kept
  <2> QED BY <1>1, <2>1
<1>3. /\ \A k : Sent(k) \subseteq DOMAIN posted
      /\ \A m \in DOMAIN posted : posted'[m] = posted[m] /\ (Gone(m) => Gone(m)')
  BY Kept, Grows
<1>4. Roles' BY DEF Orderly, Roles
<1>5. Said'
  <2>1. \A m \in DOMAIN posted : Word(posted[m]) => Word(posted[m])' BY <1>3 DEF Word
  <2>2. Word(posted[p])' BY DEF Word
  <2> QED BY <1>3, <2>1, <2>2 DEF Adds, Orderly, Said, Collecting
<1>6. Waited => Waited'
  <2>1. \A a \in Sent("ack") : posted[a].from \in {1, 2} BY Senders DEF Orderly
  <2> QED BY <1>2, <1>3, <2>1 DEF Waited, Asking, Collecting
<1>7. Round' BY <1>6, Grows DEF Round, Copied
<1>8. Reports'
  <2> SUFFICES ASSUME ~Doubled(Confusing)' PROVE Told' /\ Answered' BY DEF Reports
  <2>1. Told /\ Answered BY Grows
  <2>2. Told'
    <3>1. Sent("put") = {} /\ ops = <<>> /\ Sent("get") = {} /\ Sent("value") = {}
          /\ Sent("ok") = {} /\ ~Collecting
      BY <2>1 DEF Told, Asking
    <3> QED BY <1>2, <3>1 DEF Told, Asking, Collecting
  <2>3. Sent("ok") = {} /\ ~Collecting BY <2>1 DEF Told
  <2>4. Answered' BY <1>2, <2>3 DEF Answered, Collecting
  <2> QED BY <2>2, <2>4
<1> QED BY <1>4, <1>5, <1>7, <1>8 DEF Orderly

\* The primary or the leader takes the put and sends it to both followers.
LEMMA Spreads ==
  ASSUME Orderly, UNCHANGED <<system, ops>>, st[0].pc \in {"serve", "lead"},
         st'[0] = [pc |-> IF system.proto = "kv" THEN "acks" ELSE "acks-lead", value |-> 7,
                   acks |-> 2, peer |-> Client],
         \A n \in {1, 2, Client} : st'[n] = st[n],
         NEW f \in Sent("put"), Fades({f}),
         NEW p, NEW q, p # q, Adds({p, q}),
         posted'[p] = [from |-> 0, to |-> 1, body |-> Msg("replicate", 7)],
         posted'[q] = [from |-> 0, to |-> 2, body |-> Msg("replicate", 7)]
  PROVE  Orderly'
<1>1. posted'[p].body.kind = "replicate" /\ posted'[q].body.kind = "replicate"
      /\ posted'[p].to = 1 /\ posted'[q].to = 2
  BY DEF Msg
<1>2. /\ \A k \in {"put", "ack", "ok", "get", "value"} : Sent(k)' = Sent(k)
      /\ Sent("replicate")' = Sent("replicate") \union {p, q}
  <2>1. \A k : /\ (\A m \in {p, q} : posted'[m].body.kind # k) => Sent(k)' = Sent(k)
               /\ (\A m \in {p, q} : posted'[m].body.kind = k) => Sent(k)' = Sent(k) \union {p, q}
    BY Kept
  <2> QED BY <1>1, <2>1
<1>3. /\ \A k : Sent(k) \subseteq DOMAIN posted
      /\ \A m \in DOMAIN posted : posted'[m] = posted[m] /\ (Gone(m) => Gone(m)')
      /\ ~Gone(f)
  BY Kept, Grows
<1>4. ~Collecting BY DEF Collecting
<1>5. Roles' BY DEF Orderly, Roles
<1>6. Said'
  <2>1. \A m \in DOMAIN posted : Word(posted[m]) => Word(posted[m])' BY <1>3 DEF Word
  <2>2. Word(posted[p])' /\ Word(posted[q])' BY DEF Word
  <2> QED BY <1>3, <2>1, <2>2 DEF Adds, Orderly, Said, Collecting
<1>7. Waited => Waited'
  <2> SUFFICES ASSUME Waited PROVE Waited' OBVIOUS
  <2>1. Sent("replicate") = {} /\ Sent("ack") = {} BY <1>4 DEF Waited
  <2> QED BY <1>1, <1>2, <2>1 DEF Waited, Asking, Collecting
<1>8. Round' BY <1>7, Grows DEF Round, Copied
<1>9. Reports'
  <2> SUFFICES ASSUME ~Doubled(Confusing)' PROVE Told' /\ Answered' BY DEF Reports
  <2>1. Told /\ Answered /\ ~Doubled(Confusing) BY Grows
  <2>2. Sent("ok") = {} BY <1>3, <2>1 DEF Answered, Decided, Orderly, Roles
  <2>3. Told' BY <1>2, <1>3, <1>4, <2>1, <2>2 DEF Told, Asking, Collecting
  <2>4. system.proto # "kv" => Gone(f)'
    <3>1. \A kinds : ~Doubled(kinds) => \A m \in {f} : posted[m].body.kind \in kinds => Gone(m)'
      BY Kept
    <3>2. posted[f].body.kind = "put" BY DEF Sent
    <3>3. system.proto # "kv" => posted[f].body.kind \in Confusing BY <3>2 DEF Confusing
    <3> QED BY <2>1, <3>1, <3>3
  <2>5. st'[0].pc = "acks-lead" => Decided'
    <3> SUFFICES ASSUME system.proto # "kv" PROVE Decided' OBVIOUS
    <3>1. \A m \in Sent("put")' : m = f BY <1>2, <2>1 DEF Told
    <3> QED BY <2>4, <3>1 DEF Decided
  <2>6. Answered' BY <1>2, <2>2, <2>5 DEF Answered
  <2> QED BY <2>3, <2>6
<1> QED BY <1>5, <1>6, <1>8, <1>9 DEF Orderly

\* What is said stays said.
LEMMA SaidAgain ==
  ASSUME Orderly, system' = system, NEW N, Adds(N), NEW T, Fades(T),
         \A m \in N : Word(posted[m])', Collecting' => st'[0].peer = Client
  PROVE  Said'
<1>1. \A m \in DOMAIN posted : posted'[m] = posted[m] BY Kept
<1>2. \A m \in DOMAIN posted : Word(posted[m]) => Word(posted[m])' BY <1>1 DEF Word
<1> QED BY <1>2 DEF Adds, Orderly, Said

\* An acknowledgement that is not the last is counted.
LEMMA Counts ==
  ASSUME NetOK, Orderly, UNCHANGED <<system, ops>>, Collecting, st[0].acks # 1,
         st'[0] = [st[0] EXCEPT !.acks = @ - 1],
         \A n \in {1, 2, Client} : st'[n] = st[n],
         NEW f \in Sent("ack"), Fades({f}), Adds({})
  PROVE  Orderly'
<1>1. \A k : Sent(k)' = Sent(k)
  <2>1. \A k : (\A m \in {} : posted'[m].body.kind # k) => Sent(k)' = Sent(k) BY Kept
  <2> QED BY <2>1
<1>2. /\ \A k : Sent(k) \subseteq DOMAIN posted
      /\ \A m \in DOMAIN posted : posted'[m] = posted[m] /\ (Gone(m) => Gone(m)')
  BY Kept, Grows
<1>3. st'[0].pc = st[0].pc /\ st'[0].value = st[0].value /\ st'[0].peer = st[0].peer
      /\ st'[0].acks = st[0].acks - 1
  BY Peers DEF NetOK, ClusterType, State
<1>4. Roles' BY <1>3 DEF Orderly, Roles
<1>5. Said'
  <2>1. Collecting' => st'[0].peer = Client BY <1>3 DEF Orderly, Said
  <2> QED BY <2>1, SaidAgain
<1>6. ~Doubled({"replicate", "ack"}) /\ Waited => Waited'
  <2> SUFFICES ASSUME ~Doubled({"replicate", "ack"}), Waited PROVE Waited' OBVIOUS
  <2>1. st'[0].acks = 1 BY <1>3 DEF Waited
  <2>2. Gone(f)'
    <3>1. \A kinds : ~Doubled(kinds) => \A m \in {f} : posted[m].body.kind \in kinds => Gone(m)'
      BY Kept
    <3>2. posted[f].body.kind = "ack" BY DEF Sent
    <3> QED BY <3>1, <3>2
  <2>3. \A a \in Sent("ack") : posted[a].from \in {1, 2} BY Senders DEF Orderly
  <2>4. Collecting' /\ \E a \in Sent("ack")' : Gone(a)' BY <1>1, <1>3, <2>2 DEF Collecting
  <2>5. IF Collecting' THEN st'[0].acks = 2 \/ (st'[0].acks = 1 /\ \E a \in Sent("ack")' : Gone(a)')
                       ELSE Sent("replicate")' = {} /\ Sent("ack")' = {}
    BY <2>1, <2>4
  <2> QED BY <1>1, <1>2, <1>3, <2>3, <2>5 DEF Waited, Asking
<1>7. Copied => Copied' BY DEF Copied
<1>8. Round' BY <1>6, <1>7, Grows DEF Round
<1>9. Reports'
  <2> SUFFICES ASSUME ~Doubled(Confusing)' PROVE Told' /\ Answered' BY DEF Reports
  <2>1. Told /\ Answered BY Grows
  <2>2. Told' BY <1>1, <1>2, <1>3, <2>1 DEF Told, Asking, Collecting
  <2>3. Decided => Decided' BY <1>1, <1>2, <1>3 DEF Decided
  <2>4. Answered' BY <1>1, <1>3, <2>1, <2>3 DEF Answered, Collecting
  <2> QED BY <2>2, <2>4
<1> QED BY <1>4, <1>5, <1>8, <1>9 DEF Orderly

\* The last acknowledgement is here: both followers have the value, and the client is told so.
LEMMA Answers ==
  ASSUME NetOK, Orderly, UNCHANGED <<system, ops>>, Collecting, st[0].acks = 1,
         st'[0].pc = (IF system.proto = "kv" THEN "done" ELSE "lead"), st'[0].value = st[0].value,
         \A n \in {1, 2, Client} : st'[n] = st[n],
         NEW f \in Sent("ack"), Fades({f}),
         NEW p, Adds({p}), posted'[p] = [from |-> 0, to |-> Client, body |-> Plain("ok")]
  PROVE  Orderly'
<1>1. posted'[p].body.kind = "ok" BY DEF Msg, Plain
<1>2. /\ \A k \in {"replicate", "ack", "put", "get", "value"} : Sent(k)' = Sent(k)
      /\ Sent("ok")' = Sent("ok") \union {p}
  <2>1. \A k : /\ (\A m \in {p} : posted'[m].body.kind # k) => Sent(k)' = Sent(k)
               /\ (\A m \in {p} : posted'[m].body.kind = k) => Sent(k)' = Sent(k) \union {p}
    BY Kept
  <2> QED BY <1>1, <2>1
<1>3. /\ \A k : Sent(k) \subseteq DOMAIN posted
      /\ \A m \in DOMAIN posted : posted'[m] = posted[m] /\ (Gone(m) => Gone(m)')
      /\ ~Gone(f)
  BY Kept, Grows
<1>4. ~Collecting' BY DEF Collecting
<1>5. Roles' BY DEF Orderly, Roles
<1>6. Said'
  <2>1. Word(posted[p])' BY DEF Word
  <2> QED BY <1>4, <2>1, SaidAgain
<1>7. Waited => Copied
  <2> SUFFICES ASSUME Waited PROVE Copied OBVIOUS
  <2>1. PICK a \in Sent("ack") : Gone(a) BY DEF Waited
  <2>2. posted[a].from # posted[f].from BY <1>3, <2>1 DEF Waited
  <2>3. posted[a].from \in {1, 2} /\ posted[f].from \in {1, 2} BY Senders DEF Orderly
  <2>4. st[posted[a].from].value = 7 /\ st[posted[f].from].value = 7 BY DEF Waited
  <2> QED BY <2>2, <2>3, <2>4 DEF Copied
<1>8. Round' BY <1>7, Grows DEF Round, Copied
<1>9. Reports'
  <2> SUFFICES ASSUME ~Doubled(Confusing)' PROVE Told' /\ Answered' BY DEF Reports
  <2>1. Told /\ Answered BY Grows
  <2>2. Sent("ok") = {} /\ Sent("put") # {} BY <2>1 DEF Answered, Told
  <2>3. Told' BY <1>2, <1>3, <1>4, <2>1, <2>2 DEF Told, Asking
  <2>4. Decided'
    <3>1. CASE system.proto = "kv" BY <3>1 DEF Decided
    <3>2. CASE system.proto # "kv"
      <4>1. st[0].pc = "acks-lead" BY <3>2 DEF Collecting, Orderly, Roles
      <4>2. st[0].value = 7 /\ \A m \in Sent("put") : Gone(m) BY <2>1, <3>2, <4>1 DEF Answered, Decided
      <4> QED BY <1>2, <1>3, <3>2, <4>2 DEF Decided
    <3> QED BY <3>1, <3>2
  <2>5. Answered' BY <1>4, <2>4 DEF Answered
  <2> QED BY <2>3, <2>5
<1> QED BY <1>5, <1>6, <1>8, <1>9 DEF Orderly

\* A follower stores the value and acknowledges.
LEMMA Stores ==
  ASSUME NetOK, Orderly, UNCHANGED <<system, ops>>, NEW n \in {1, 2}, st[n].pc = "follow",
         st'[n].pc = st[n].pc, st'[n].value = 7,
         \A r \in {0, 1, 2, Client} \ {n} : st'[r] = st[r],
         NEW f \in Sent("replicate"), posted[f].to = n, Fades({f}),
         NEW p, Adds({p}), posted'[p] = [from |-> n, to |-> 0, body |-> Plain("ack")]
  PROVE  Orderly'
<1>1. posted'[p].body.kind = "ack" BY DEF Msg, Plain
<1>2. /\ \A k \in {"replicate", "ok", "put", "get", "value"} : Sent(k)' = Sent(k)
      /\ Sent("ack")' = Sent("ack") \union {p}
  <2>1. \A k : /\ (\A m \in {p} : posted'[m].body.kind # k) => Sent(k)' = Sent(k)
               /\ (\A m \in {p} : posted'[m].body.kind = k) => Sent(k)' = Sent(k) \union {p}
    BY Kept
  <2> QED BY <1>1, <2>1
<1>3. /\ \A k : Sent(k) \subseteq DOMAIN posted
      /\ \A m \in DOMAIN posted : posted'[m] = posted[m] /\ (Gone(m) => Gone(m)')
      /\ ~Gone(f)
  BY Kept, Grows
<1>4. st'[0] = st[0] /\ st'[Client] = st[Client] BY DEF Client
<1>5. Roles' BY <1>4 DEF Orderly, Roles
<1>6. Said'
  <2>1. Word(posted[p])' BY DEF Word
  <2>2. Collecting' => st'[0].peer = Client BY <1>4 DEF Collecting, Orderly, Said
  <2> QED BY <2>1, <2>2, SaidAgain
<1>7. \A r \in {1, 2} : st[r].value = 7 => st'[r].value = 7 OBVIOUS
<1>8. ~Doubled({"replicate", "ack"}) /\ Waited => Waited'
  <2> SUFFICES ASSUME ~Doubled({"replicate", "ack"}), Waited PROVE Waited' OBVIOUS
  <2>1. \A a \in Sent("ack") : posted[a].from \in {1, 2} /\ posted[a].from # n
    <3>1. \A a \in Sent("ack") : posted[a].from \in {1, 2} BY Senders DEF Orderly
    <3>2. \A a \in Sent("ack") : posted[a].from = n => Gone(f) BY DEF Waited
    <3> QED BY <1>3, <3>1, <3>2
  <2>2. Gone(f)'
    <3>1. \A kinds : ~Doubled(kinds) => \A m \in {f} : posted[m].body.kind \in kinds => Gone(m)'
      BY Kept
    <3>2. posted[f].body.kind = "replicate" BY DEF Sent
    <3> QED BY <3>1, <3>2
  <2>3. \A r \in Sent("replicate") : posted[r].to = n => Gone(r)' BY <2>2 DEF Waited
  <2>4. Asking' /\ ops' = <<>> /\ st'[0].pc # "done" /\ Sent("ok")' = {} /\ Sent("get")' = {}
        /\ Sent("value")' = {}
    BY <1>2, <1>4 DEF Waited, Asking
  <2>5. \A r, q \in Sent("replicate")' : posted'[r].to = posted'[q].to => r = q
    BY <1>2, <1>3 DEF Waited
  <2>6. \A a, b \in Sent("ack")' : posted'[a].from = posted'[b].from => a = b
    BY <1>2, <1>3, <2>1 DEF Waited
  <2>7. \A a \in Sent("ack")' :
          /\ st'[posted'[a].from].value = 7
          /\ \A r \in Sent("replicate")' : posted'[r].to = posted'[a].from => Gone(r)'
    BY <1>2, <1>3, <1>7, <2>1, <2>3 DEF Waited
  <2>8. Collecting BY DEF Waited
  <2>9. st'[0].acks = 2 \/ (st'[0].acks = 1 /\ \E a \in Sent("ack")' : Gone(a)')
    BY <1>2, <1>3, <1>4, <2>8 DEF Waited
  <2>10. Collecting' BY <1>4, <2>8 DEF Collecting
  <2> QED BY <2>4, <2>5, <2>6, <2>7, <2>9, <2>10 DEF Waited
<1>9. Copied => Copied' BY <1>7 DEF Copied
<1>10. Round' BY <1>8, <1>9, Grows DEF Round
<1>11. Reports'
  <2> SUFFICES ASSUME ~Doubled(Confusing)' PROVE Told' /\ Answered' BY DEF Reports
  <2>1. Told /\ Answered BY Grows
  <2>2. Told' BY <1>2, <1>3, <1>4, <2>1 DEF Told, Asking, Collecting
  <2>3. Decided => Decided' BY <1>2, <1>3, <1>4 DEF Decided
  <2>4. Answered' BY <1>2, <1>4, <2>1, <2>3 DEF Answered, Collecting
  <2> QED BY <2>2, <2>4
<1> QED BY <1>5, <1>6, <1>10, <1>11 DEF Orderly

\* A follower answers the read and stops: the client asks when the put is acknowledged.
LEMMA Serves ==
  ASSUME Orderly, UNCHANGED <<system, ops>>, NEW n \in {1, 2},
         st'[n].pc = "done", st'[n].value = st[n].value,
         \A r \in {0, 1, 2, Client} \ {n} : st'[r] = st[r],
         NEW f \in Sent("get"), posted[f].to = n, Fades({f}),
         NEW p, Adds({p}), posted'[p] = [from |-> n, to |-> Client, body |-> Msg("value", st[n].value)]
  PROVE  Orderly'
<1>1. posted'[p].body.kind = "value" /\ posted'[p].body.value = st[n].value BY DEF Msg
<1>2. /\ \A k \in {"replicate", "ack", "ok", "put", "get"} : Sent(k)' = Sent(k)
      /\ Sent("value")' = Sent("value") \union {p}
  <2>1. \A k : /\ (\A m \in {p} : posted'[m].body.kind # k) => Sent(k)' = Sent(k)
               /\ (\A m \in {p} : posted'[m].body.kind = k) => Sent(k)' = Sent(k) \union {p}
    BY Kept
  <2> QED BY <1>1, <2>1
<1>3. /\ \A k : Sent(k) \subseteq DOMAIN posted
      /\ \A m \in DOMAIN posted : posted'[m] = posted[m] /\ (Gone(m) => Gone(m)')
  BY Kept, Grows
<1>4. st'[0] = st[0] /\ st'[Client] = st[Client] BY DEF Client
<1>5. system.proto = "kv" BY Senders DEF Orderly
<1>6. Roles' BY <1>4, <1>5 DEF Orderly, Roles
<1>7. Said'
  <2>1. Word(posted[p])' BY <1>1 DEF Word
  <2>2. Collecting' => st'[0].peer = Client BY <1>4 DEF Collecting, Orderly, Said
  <2> QED BY <2>1, <2>2, SaidAgain
<1>8. ~Waited BY DEF Waited
<1>9. Copied => Copied' BY DEF Copied
<1>10. Round' BY <1>8, <1>9, Grows DEF Round
<1>11. Reports'
  <2> SUFFICES ASSUME ~Doubled(Confusing)' PROVE Told' /\ Answered' BY DEF Reports
  <2>1. Told /\ Answered /\ ~Doubled(Confusing) BY Grows
  <2>2. ~Doubled({"replicate", "ack"}) BY <1>5, <2>1 DEF Doubled, Confusing
  <2>3. st[n].value = 7 BY <1>8, <2>2 DEF Copied, Orderly, Round
  <2>4. Told' BY <1>1, <1>2, <1>3, <1>4, <2>1, <2>3 DEF Told, Asking, Collecting
  <2>5. Decided => Decided' BY <1>2, <1>3, <1>4 DEF Decided
  <2>6. Answered' BY <1>2, <1>4, <2>1, <2>5 DEF Answered, Collecting
  <2> QED BY <2>4, <2>6
<1> QED BY <1>6, <1>7, <1>10, <1>11 DEF Orderly

\* A follower is told to stop.
LEMMA Stops ==
  ASSUME Orderly, UNCHANGED <<system, ops>>, NEW n \in {1, 2},
         st'[n].pc = "done", st'[n].value = st[n].value,
         \A r \in {0, 1, 2, Client} \ {n} : st'[r] = st[r],
         NEW T, Fades(T), Adds({})
  PROVE  Orderly'
<1>1. \A k : Sent(k)' = Sent(k)
  <2>1. \A k : (\A m \in {} : posted'[m].body.kind # k) => Sent(k)' = Sent(k) BY Kept
  <2> QED BY <2>1
<1>2. /\ \A k : Sent(k) \subseteq DOMAIN posted
      /\ \A m \in DOMAIN posted : posted'[m] = posted[m] /\ (Gone(m) => Gone(m)')
  BY Kept, Grows
<1>3. st'[0] = st[0] /\ st'[Client] = st[Client] BY DEF Client
<1>4. Roles' BY <1>3 DEF Orderly, Roles
<1>5. Said'
  <2>1. Collecting' => st'[0].peer = Client BY <1>3 DEF Collecting, Orderly, Said
  <2> QED BY <2>1, SaidAgain
<1>6. \A r \in {1, 2} : st'[r].value = st[r].value OBVIOUS
<1>7. Waited => Waited'
  <2>1. \A a \in Sent("ack") : posted[a].from \in {1, 2} BY Senders DEF Orderly
  <2> QED BY <1>1, <1>2, <1>3, <1>6, <2>1 DEF Waited, Asking, Collecting
<1>8. Copied => Copied' BY <1>6 DEF Copied
<1>9. Round' BY <1>7, <1>8, Grows DEF Round
<1>10. Reports'
  <2> SUFFICES ASSUME ~Doubled(Confusing)' PROVE Told' /\ Answered' BY DEF Reports
  <2>1. Told /\ Answered BY Grows
  <2>2. Told' BY <1>1, <1>2, <1>3, <2>1 DEF Told, Asking, Collecting
  <2>3. Decided => Decided' BY <1>1, <1>2, <1>3 DEF Decided
  <2>4. Answered' BY <1>1, <1>3, <2>1, <2>3 DEF Answered, Collecting
  <2> QED BY <2>2, <2>4
<1> QED BY <1>4, <1>5, <1>9, <1>10 DEF Orderly

\* The client hears of its put, reports it if the answer is ok, and reads.
LEMMA Hears ==
  ASSUME Orderly, UNCHANGED system, st[Client].pc = (IF system.proto = "kv" THEN "put7" ELSE "put"),
         st'[Client].pc = "got", \A r \in {0, 1, 2} : st'[r] = st[r],
         NEW f \in DOMAIN posted, posted[f].to = Client, Fades({f}),
         posted[f].body.kind = "ok" => ops' = Append(ops, PutOp),
         NEW p, Adds({p}),
         posted'[p] = [from |-> Client, to |-> IF system.proto = "kv" THEN 1 ELSE 0, body |-> Plain("get")]
  PROVE  Orderly'
<1>1. posted'[p].body.kind = "get" BY DEF Msg, Plain
<1>2. /\ \A k \in {"replicate", "ack", "ok", "put", "value"} : Sent(k)' = Sent(k)
      /\ Sent("get")' = Sent("get") \union {p}
  <2>1. \A k : /\ (\A m \in {p} : posted'[m].body.kind # k) => Sent(k)' = Sent(k)
               /\ (\A m \in {p} : posted'[m].body.kind = k) => Sent(k)' = Sent(k) \union {p}
    BY Kept
  <2> QED BY <1>1, <2>1
<1>3. /\ \A k : Sent(k) \subseteq DOMAIN posted
      /\ \A m \in DOMAIN posted : posted'[m] = posted[m] /\ (Gone(m) => Gone(m)')
  BY Kept, Grows
<1>4. Roles' BY DEF Orderly, Roles
<1>5. Said'
  <2>1. Word(posted[p])' BY DEF Word
  <2>2. Collecting' => st'[0].peer = Client BY DEF Collecting, Orderly, Said
  <2> QED BY <2>1, <2>2, SaidAgain
<1>6. f \in Sent("ok") \/ f \in Sent("value") BY Senders DEF Orderly, Sent
<1>7. ~Waited BY <1>6 DEF Waited
<1>8. Copied => Copied' BY DEF Copied
<1>9. Round' BY <1>7, <1>8, Grows DEF Round
<1>10. Reports'
  <2> SUFFICES ASSUME ~Doubled(Confusing)' PROVE Told' /\ Answered' BY DEF Reports
  <2>1. Told /\ Answered /\ ~Doubled(Confusing) BY Grows
  <2>2. Asking BY DEF Asking
  <2>3. f \in Sent("ok") /\ ops = <<>> BY <1>6, <2>1, <2>2 DEF Told
  <2>4. posted[f].body.kind = "ok" BY <2>3 DEF Sent
  <2>5. ops' = <<PutOp>> BY <2>3, <2>4
  <2>6. Gone(f)'
    <3>1. \A kinds : ~Doubled(kinds) => \A m \in {f} : posted[m].body.kind \in kinds => Gone(m)'
      BY Kept
    <3>2. posted[f].body.kind \in Confusing BY <2>4 DEF Confusing
    <3> QED BY <2>1, <3>1, <3>2
  <2>7. \A m \in Sent("ok") : Gone(m)' BY <2>1, <2>3, <2>6 DEF Told
  <2>8. Told'
    <3>1. ~Asking' BY DEF Asking
    <3> QED BY <1>2, <1>3, <2>1, <2>3, <2>5, <2>7, <3>1 DEF Told, Collecting
  <2>9. Decided => Decided' BY <1>2, <1>3 DEF Decided
  <2>10. Answered' BY <1>2, <2>1, <2>9 DEF Answered, Collecting
  <2> QED BY <2>8, <2>10
<1> QED BY <1>4, <1>5, <1>9, <1>10 DEF Orderly

\* The client hears the value it put, reports it and ends.
LEMMA Finishes ==
  ASSUME Orderly, UNCHANGED system, st[Client].pc = "got",
         st'[Client].pc = "done", \A r \in {0, 1, 2} : st'[r] = st[r],
         NEW f \in DOMAIN posted, posted[f].to = Client, Fades({f}),
         posted[f].body.kind = "value" /\ posted[f].body.value = 7 => ops' = Append(ops, GetOp),
         NEW N, Adds(N),
         \A m \in N : posted'[m].to \in {1, 2} /\ posted'[m].body = Plain("stop")
  PROVE  Orderly'
<1>1. \A m \in N : posted'[m].body.kind = "stop" BY DEF Msg, Plain
<1>2. \A k \in {"replicate", "ack", "ok", "put", "value", "get"} : Sent(k)' = Sent(k)
  <2>1. \A k : (\A m \in N : posted'[m].body.kind # k) => Sent(k)' = Sent(k) BY Kept
  <2> QED BY <1>1, <2>1
<1>3. /\ \A k : Sent(k) \subseteq DOMAIN posted
      /\ \A m \in DOMAIN posted : posted'[m] = posted[m] /\ (Gone(m) => Gone(m)')
      /\ ~Gone(f)
  BY Kept, Grows
<1>4. Roles' BY DEF Orderly, Roles
<1>5. Said'
  <2>1. \A m \in N : Word(posted[m])' BY DEF Word
  <2>2. Collecting' => st'[0].peer = Client BY DEF Collecting, Orderly, Said
  <2> QED BY <2>1, <2>2, SaidAgain
<1>6. ~Waited BY DEF Waited, Asking
<1>7. Copied => Copied' BY DEF Copied
<1>8. Round' BY <1>6, <1>7, Grows DEF Round
<1>9. Reports'
  <2> SUFFICES ASSUME ~Doubled(Confusing)' PROVE Told' /\ Answered' BY DEF Reports
  <2>1. Told /\ Answered BY Grows
  <2>2. ops = <<PutOp>> /\ f \notin Sent("ok") BY <1>3, <2>1 DEF Told
  <2>3. f \in Sent("value") BY <2>2, Senders DEF Orderly, Sent
  <2>4. posted[f].body.kind = "value" /\ posted[f].body.value = 7 BY <2>1, <2>3 DEF Told, Sent
  <2>5. ops' = <<PutOp, GetOp>> BY <2>2, <2>4
  <2>6. Told' BY <1>2, <1>3, <2>1, <2>5 DEF Told, Asking, Collecting
  <2>7. Decided => Decided' BY <1>2, <1>3 DEF Decided
  <2>8. Answered' BY <1>2, <2>1, <2>7 DEF Answered, Collecting
  <2> QED BY <2>6, <2>8
<1> QED BY <1>4, <1>5, <1>8, <1>9 DEF Orderly

\* The leader answers the read, which the client asks when its write is acknowledged.
LEMMA LeaderReads ==
  ASSUME Orderly, UNCHANGED <<system, ops>>, st[0].pc = "lead",
         st'[0].pc = "done", st'[0].value = st[0].value,
         \A r \in {1, 2, Client} : st'[r] = st[r],
         NEW f \in Sent("get"), Fades({f}),
         NEW p, NEW q, NEW r, Adds({p, q, r}),
         posted'[p] = [from |-> 0, to |-> Client, body |-> Msg("value", st[0].value)],
         posted'[q] = [from |-> 0, to |-> 1, body |-> Plain("stop")],
         posted'[r] = [from |-> 0, to |-> 2, body |-> Plain("stop")]
  PROVE  Orderly'
<1>1. /\ posted'[p].body.kind = "value" /\ posted'[p].body.value = st[0].value
      /\ posted'[q].body.kind = "stop" /\ posted'[r].body.kind = "stop"
  BY DEF Msg, Plain
<1>2. /\ \A k \in {"replicate", "ack", "ok", "put", "get"} : Sent(k)' = Sent(k)
      /\ \A m \in Sent("value")' : m \in Sent("value") \/ m = p
  <2>1. \A k : (\A m \in {p, q, r} : posted'[m].body.kind # k) => Sent(k)' = Sent(k) BY Kept
  <2>2. \A m \in Sent("value")' : m \in Sent("value") \/ (m \in {p, q, r} /\ posted'[m].body.kind = "value")
    BY Grows
  <2>3. q # p /\ r # p BY <1>1
  <2> QED BY <1>1, <2>1, <2>2, <2>3
<1>3. /\ \A k : Sent(k) \subseteq DOMAIN posted
      /\ \A m \in DOMAIN posted : posted'[m] = posted[m] /\ (Gone(m) => Gone(m)')
  BY Kept, Grows
<1>4. Roles' BY DEF Orderly, Roles
<1>5. Said'
  <2>1. \A m \in {p, q, r} : Word(posted[m])' BY <1>1 DEF Word
  <2>2. ~Collecting' BY DEF Collecting
  <2> QED BY <2>1, <2>2, SaidAgain
<1>6. ~Waited BY DEF Waited
<1>7. Copied => Copied' BY DEF Copied
<1>8. Round' BY <1>6, <1>7, Grows DEF Round
<1>9. system.proto # "kv" BY DEF Orderly, Roles
<1>10. Reports'
  <2> SUFFICES ASSUME ~Doubled(Confusing)' PROVE Told' /\ Answered' BY DEF Reports
  <2>1. Told /\ Answered BY Grows
  <2>2. ~Asking /\ Decided BY <2>1 DEF Told, Answered
  <2>3. st[0].value = 7 BY <1>9, <2>2 DEF Decided
  <2>4. ~Collecting' BY DEF Collecting
  <2>5. \A m \in Sent("value")' : posted'[m].body.value = 7
    BY <1>1, <1>2, <1>3, <2>1, <2>3 DEF Told
  <2>6. ~Asking' BY <2>2 DEF Asking
  <2>7. Told' BY <1>2, <1>3, <2>1, <2>4, <2>5, <2>6 DEF Told
  <2>8. Decided' BY <1>2, <1>3, <1>9, <2>2 DEF Decided
  <2>9. Answered' BY <2>4, <2>8 DEF Answered
  <2> QED BY <2>7, <2>9
<1> QED BY <1>4, <1>5, <1>8, <1>10 DEF Orderly

\* A replica of Mini-Raft starts.
LEMMA Starts ==
  ASSUME Orderly, UNCHANGED <<system, ops>>, NEW n \in {0, 1, 2}, st[n].pc = "boot",
         st'[n].pc = (IF n = 0 THEN "lead" ELSE "follow"),
         \A r \in {0, 1, 2, Client} \ {n} : st'[r] = st[r],
         Fades({}), Adds({})
  PROVE  Orderly'
<1>1. \A k : Sent(k)' = Sent(k)
  <2>1. \A k : (\A m \in {} : posted'[m].body.kind # k) => Sent(k)' = Sent(k) BY Kept
  <2> QED BY <2>1
<1>2. /\ \A k : Sent(k) \subseteq DOMAIN posted
      /\ \A m \in DOMAIN posted : posted'[m] = posted[m] /\ (Gone(m) => Gone(m)')
  BY Kept, Grows
<1>3. st'[Client] = st[Client] BY DEF Client
<1>4. system.proto # "kv" BY DEF Orderly, Roles
<1>5. Roles' BY <1>3, <1>4 DEF Orderly, Roles
<1>6. Said'
  <2>1. Collecting' => st'[0].peer = Client BY DEF Collecting, Orderly, Said
  <2> QED BY <2>1, SaidAgain
<1>7. \A r \in {1, 2} : st[r].value = 7 => st'[r] = st[r] BY <1>4 DEF Orderly, Roles
<1>8. Collecting' <=> Collecting BY DEF Collecting
<1>9. Collecting => st'[0] = st[0] BY DEF Collecting
<1>10. Waited => Waited'
  <2> SUFFICES ASSUME Waited PROVE Waited' OBVIOUS
  <2>1. \A a \in Sent("ack") : posted[a].from \in {1, 2} BY Senders DEF Orderly
  <2>2. st'[0].pc # "done" BY DEF Waited
  <2> QED BY <1>1, <1>2, <1>3, <1>7, <1>8, <1>9, <2>1, <2>2 DEF Waited, Asking
<1>11. Copied => Copied' BY <1>7 DEF Copied
<1>12. Round' BY <1>10, <1>11, Grows DEF Round
<1>13. Reports'
  <2> SUFFICES ASSUME ~Doubled(Confusing)' PROVE Told' /\ Answered' BY DEF Reports
  <2>1. Told /\ Answered BY Grows
  <2>2. Told' BY <1>1, <1>2, <1>3, <1>8, <2>1 DEF Told, Asking
  <2>3. Sent("ok") # {} => n # 0 /\ st'[0] = st[0] BY <2>1 DEF Answered
  <2>4. Decided /\ st'[0] = st[0] => Decided' BY <1>1, <1>2, <1>4 DEF Decided
  <2>5. st'[0].pc = "acks-lead" => st'[0] = st[0] OBVIOUS
  <2>6. Answered' BY <1>1, <1>8, <2>1, <2>3, <2>4, <2>5 DEF Answered
  <2> QED BY <2>2, <2>6
<1> QED BY <1>5, <1>6, <1>12, <1>13 DEF Orderly

-----------------------------------------------------------------------------
(* The correct variants take no other steps *)

\* A message a correct variant has no use for.
LEMMA Leaves ==
  ASSUME NetOK, Orderly, Unreported, NEW n \in Peer, NEW T, Reads(n, T), Stays
  PROVE  Orderly'
<1>1. Fades(T) /\ posted' = posted /\ st' = st BY Stayed
<1>2. system' = system /\ ops' = ops BY DEF Unreported
<1> QED BY <1>1, <1>2, Still

\* The message at hand, as a datagram.
LEMMA AtHand ==
  ASSUME NetOK, NEW n \in Peer, NEW pc, Recv(n, pc)
  PROVE  \E f : /\ f = First(n) /\ f \in Sent(Body(n).kind) /\ posted[f].to = n
                /\ posted[f].from = From(n) /\ posted[f].body = Body(n) /\ Reads(n, {f})
BY Received DEF Sent

LEMMA SpreadStep ==
  ASSUME NetOK, Orderly, Unreported, NEW pc \in {"serve", "lead"}, Recv(0, pc), Body(0).kind = "put",
         NEW after, after = (IF system.proto = "kv" THEN "acks" ELSE "acks-lead"),
         Replicate(0, 7, <<1, 2>>, 2, after)
  PROVE  Orderly'
<1>1. 0 \in Peer /\ 1 \in Node /\ 2 \in Node /\ Client \in Node BY Peers
<1>2. PICK f : f \in Sent("put") /\ posted[f].from = From(0) /\ Reads(0, {f}) BY <1>1, AtHand
<1>3. From(0) = Client BY <1>2, Senders DEF Orderly
<1>4. PICK s : s = [pc |-> after, value |-> 7, acks |-> 2, peer |-> Client] OBVIOUS
<1>5. s \in State /\ s.peer \in Node
  <2>1. after \in Pc BY DEF Pc
  <2> QED BY <1>1, <1>4, <2>1 DEF State
<1>6. PICK x : x = Msg("replicate", 7) OBVIOUS
<1>7. x \in Message
  <2>1. "replicate" \in Kind /\ 7 \in Int BY DEF Kind
  <2> QED BY <1>6, <2>1, Words
<1>8. PICK out : out = <<<<1, x>>, <<2, x>>>> OBVIOUS
<1>9. out \in Seq(Node \X Message) BY <1>1, <1>7, <1>8, Lists
<1>10. Become(0, s, out)
  <2>1. PICK ts : ts = <<1, 2>> OBVIOUS
  <2>2. [k \in DOMAIN ts |-> <<ts[k], x>>] = out BY <1>8, <2>1
  <2>3. Become(0, s, [k \in DOMAIN ts |-> <<ts[k], x>>]) BY <1>3, <1>4, <1>6, <2>1 DEF Replicate
  <2> QED BY <2>2, <2>3
<1>11. Fades({f}) /\ Posts(0, out) /\ st'[0] = s /\ \A r \in Peer : r # 0 => st'[r] = st[r]
  BY <1>1, <1>2, <1>5, <1>9, <1>10, Became
<1>12. PICK p, q : /\ p # q /\ Adds({p, q})
                   /\ posted'[p] = [from |-> 0, to |-> 1, body |-> x]
                   /\ posted'[q] = [from |-> 0, to |-> 2, body |-> x]
  <2>1. /\ Len(out) = 2 /\ DOMAIN out = 1 .. 2
        /\ out[1][1] = 1 /\ out[1][2] = x /\ out[2][1] = 2 /\ out[2][2] = x
    BY <1>8
  <2>2. PICK n : n = 0 OBVIOUS
  <2>3. Posts(n, out) BY <1>11, <2>2
  <2>4. \E p, q : /\ p # q /\ Adds({p, q})
                  /\ posted'[p] = [from |-> n, to |-> out[1][1], body |-> out[1][2]]
                  /\ posted'[q] = [from |-> n, to |-> out[2][1], body |-> out[2][2]]
    BY <2>1, <2>3, AddedTwo
  <2> QED BY <2>1, <2>2, <2>4
<1>13. \A n \in {1, 2, Client} : st'[n] = st[n] BY <1>11, Peers
<1>14. st[0].pc \in {"serve", "lead"} BY DEF Recv
<1>15. system' = system /\ ops' = ops BY DEF Unreported
<1> QED BY <1>2, <1>4, <1>6, <1>11, <1>12, <1>13, <1>14, <1>15, Spreads

LEMMA PrimaryStep ==
  ASSUME NetOK, Orderly, Bug = "Correct", system.proto = "kv", Primary PROVE Orderly'
<1>1. Recv(0, "serve") /\ Unreported /\ 0 \in Peer BY Peers DEF Primary
<1>2. PICK f : f \in Sent(Body(0).kind) /\ posted[f].body = Body(0) /\ Reads(0, {f}) BY <1>1, AtHand
<1>3. CASE /\ Body(0).kind = "put"
           /\ Replicate(0, Body(0).value, Targets(Body(0).value), Len(Targets(Body(0).value)),
                        After(Body(0).value))
  <2>1. Body(0).value = 7 BY <1>2, <1>3, Senders DEF Orderly
  <2>2. Targets(7) = <<1, 2>> /\ After(7) = "acks" BY DEF Targets, After
  <2>3. PICK l : l = Len(Targets(Body(0).value)) OBVIOUS
  <2>4. l = 2 BY <2>1, <2>2, <2>3
  <2>5. Replicate(0, 7, <<1, 2>>, 2, "acks") BY <1>3, <2>1, <2>2, <2>3, <2>4
  <2> QED BY <1>1, <1>3, <2>5, SpreadStep
<1>4. CASE Ignore(0, {"put"})
  <2>1. Stays BY <1>4 DEF Ignore, Stays
  <2> QED BY <1>1, <1>2, <2>1, Leaves
<1> QED BY <1>3, <1>4 DEF Primary

LEMMA AwaitStep ==
  ASSUME NetOK, Orderly, NEW pc \in {"acks", "acks-lead"},
         NEW after, after = (IF system.proto = "kv" THEN "done" ELSE "lead"), AwaitAck(0, pc, after)
  PROVE  Orderly'
<1>1. Recv(0, pc) /\ Unreported /\ 0 \in Peer /\ 0 \in Node /\ Client \in Node
  BY Peers DEF AwaitAck, Ignore
<1>2. PICK f : f \in Sent(Body(0).kind) /\ posted[f].body = Body(0) /\ Reads(0, {f}) BY <1>1, AtHand
<1>3. Collecting /\ st[0].peer = Client BY <1>1 DEF Recv, Collecting, Orderly, Said
<1>4. system' = system /\ ops' = ops BY <1>1 DEF Unreported
<1>5. st[0] \in State BY <1>1 DEF NetOK, ClusterType
<1>6. CASE Body(0).kind = "ack" /\ Enough(0)
           /\ Become(0, [At(0, after) EXCEPT !.acks = 0], <<<<st[0].peer, Plain("ok")>>>>)
  <2>1. after \in Pc BY DEF Pc
  <2>2. PICK s : s = [At(0, after) EXCEPT !.acks = 0] OBVIOUS
  <2>3. s \in State /\ s.pc = after /\ s.value = st[0].value /\ s.peer = Client
    <3>1. At(0, after) \in State /\ At(0, after).pc = after /\ At(0, after).value = st[0].value
          /\ At(0, after).peer = st[0].peer
      BY <1>1, <2>1, Stands DEF NetOK
    <3> QED BY <1>3, <2>2, <3>1 DEF State
  <2>4. PICK x : x = Plain("ok") OBVIOUS
  <2>5. x \in Message
    <3>1. "ok" \in Kind /\ 7 \in Int BY DEF Kind
    <3> QED BY <2>4, <3>1, Words
  <2>6. <<<<Client, x>>>> \in Seq(Node \X Message) BY <1>1, <2>5, Lists
  <2>7. Become(0, s, <<<<Client, x>>>>) BY <1>3, <1>6, <2>2, <2>4
  <2>8. Fades({f}) /\ Posts(0, <<<<Client, x>>>>) /\ st'[0] = s /\ \A r \in Peer : r # 0 => st'[r] = st[r]
    BY <1>1, <1>2, <2>3, <2>6, <2>7, Became
  <2>9. PICK p : Adds({p}) /\ posted'[p] = [from |-> 0, to |-> Client, body |-> x]
    <3>1. PICK n : n = 0 OBVIOUS
    <3>2. \E p : Adds({p}) /\ posted'[p] = [from |-> n, to |-> Client, body |-> x]
      BY <2>8, <3>1, AddedOne
    <3> QED BY <3>1, <3>2
  <2>10. \A n \in {1, 2, Client} : st'[n] = st[n] BY <2>8, Peers
  <2>11. f \in Sent("ack") /\ st[0].acks = 1 BY <1>2, <1>6 DEF Enough
  <2> QED BY <1>3, <1>4, <2>3, <2>4, <2>8, <2>9, <2>10, <2>11, Answers
<1>7. CASE Body(0).kind = "ack" /\ ~Enough(0) /\ Become(0, [st[0] EXCEPT !.acks = @ - 1], <<>>)
  <2>1. PICK s : s = [st[0] EXCEPT !.acks = @ - 1] OBVIOUS
  <2>2. s \in State /\ s.peer = st[0].peer BY <1>5, <2>1 DEF State
  <2>3. <<>> \in Seq(Node \X Message) OBVIOUS
  <2>4. Become(0, s, <<>>) BY <1>7, <2>1
  <2>5. Fades({f}) /\ Posts(0, <<>>) /\ st'[0] = s /\ \A r \in Peer : r # 0 => st'[r] = st[r]
    BY <1>1, <1>2, <1>3, <2>2, <2>3, <2>4, Became
  <2>6. Adds({}) BY <2>5, AddedNone
  <2>7. \A n \in {1, 2, Client} : st'[n] = st[n] BY <2>5, Peers
  <2>8. f \in Sent("ack") /\ st[0].acks # 1 BY <1>2, <1>7 DEF Enough
  <2> QED BY <1>3, <1>4, <2>1, <2>5, <2>6, <2>7, <2>8, Counts
<1>8. CASE Ignore(0, {"ack"})
  <2>1. Stays BY <1>8 DEF Ignore, Stays
  <2> QED BY <1>1, <1>2, <2>1, Leaves
<1> QED BY <1>6, <1>7, <1>8 DEF AwaitAck

LEMMA FollowerStep ==
  ASSUME NetOK, Orderly, NEW n \in {1, 2}, Follower(n) PROVE Orderly'
<1>1. Recv(n, "follow") /\ Unreported /\ n \in Peer /\ n # 0 /\ 0 \in Node /\ Client \in Node
      /\ 0 \in Peer
  BY Peers DEF Follower, Ignore
<1>2. PICK f : /\ f \in Sent(Body(n).kind) /\ posted[f].to = n /\ posted[f].from = From(n)
               /\ posted[f].body = Body(n) /\ Reads(n, {f})
  BY <1>1, AtHand
<1>3. system' = system /\ ops' = ops BY <1>1 DEF Unreported
<1>4. st[n] \in State /\ st[n].pc = "follow" /\ st[n].value \in Int
  BY <1>1 DEF NetOK, ClusterType, Recv, State
<1>5. ASSUME NEW s \in State, NEW out \in Seq(Node \X Message), Become(n, s, out)
      PROVE  /\ Fades({f}) /\ Posts(n, out) /\ st'[n] = s
             /\ \A r \in {0, 1, 2, Client} \ {n} : st'[r] = st[r]
  <2>1. Fades({f}) /\ Posts(n, out) /\ st'[n] = s /\ \A r \in Peer : r # n => st'[r] = st[r]
    BY <1>1, <1>2, <1>5, Became
  <2> QED BY <2>1, Peers
<1>6. PICK d \in State : d = At(n, "done") /\ d.pc = "done" /\ d.value = st[n].value
  <2>1. "done" \in Pc BY DEF Pc
  <2> QED BY <1>1, <2>1, Stands DEF NetOK
<1>7. CASE Body(n).kind = "replicate"
           /\ Become(n, [st[n] EXCEPT !.value = Body(n).value], <<<<From(n), Plain("ack")>>>>)
  <2>1. From(n) = 0 /\ Body(n).value = 7 BY <1>2, <1>7, Senders DEF Orderly
  <2>2. PICK s : s = [st[n] EXCEPT !.value = 7] OBVIOUS
  <2>3. s \in State /\ s.pc = st[n].pc /\ s.value = 7 BY <1>4, <2>2 DEF State
  <2>4. PICK x : x = Plain("ack") OBVIOUS
  <2>5. x \in Message
    <3>1. "ack" \in Kind /\ 7 \in Int BY DEF Kind
    <3> QED BY <2>4, <3>1, Words
  <2>11. PICK z : z = 0 OBVIOUS
  <2>12. z \in Node BY <1>1, <2>11
  <2>6. <<<<z, x>>>> \in Seq(Node \X Message) BY <2>5, <2>12, Lists
  <2>7. Become(n, s, <<<<z, x>>>>) BY <1>7, <2>1, <2>2, <2>4, <2>11
  <2>8. Fades({f}) /\ Posts(n, <<<<z, x>>>>) /\ st'[n] = s
        /\ \A r \in {0, 1, 2, Client} \ {n} : st'[r] = st[r]
    BY <1>5, <2>3, <2>6, <2>7
  <2>14. PICK out : out = <<<<z, x>>>> OBVIOUS
  <2>15. Posts(n, out) BY <2>8, <2>14
  <2>16. Sole(out, z, x) BY <2>14 DEF Sole
  <2>13. \E p : Adds({p}) /\ posted'[p] = [from |-> n, to |-> z, body |-> x] BY <2>15, <2>16, AddedSole
  <2>9. PICK p : Adds({p}) /\ posted'[p] = [from |-> n, to |-> 0, body |-> x] BY <2>11, <2>13
  <2>10. f \in Sent("replicate") BY <1>2, <1>7
  <2> QED BY <1>2, <1>3, <1>4, <2>3, <2>4, <2>8, <2>9, <2>10, Stores
<1>8. CASE Body(n).kind = "get"
           /\ Become(n, At(n, "done"), <<<<From(n), Msg("value", st[n].value)>>>>)
  <2>1. From(n) = Client BY <1>2, <1>8, Senders DEF Orderly
  <2>2. PICK x : x = Msg("value", st[n].value) OBVIOUS
  <2>3. x \in Message
    <3>1. "value" \in Kind BY DEF Kind
    <3> QED BY <1>4, <2>2, <3>1, Words
  <2>4. <<<<Client, x>>>> \in Seq(Node \X Message) BY <1>1, <2>3, Lists
  <2>5. Become(n, d, <<<<Client, x>>>>) BY <1>6, <1>8, <2>1, <2>2
  <2>6. Fades({f}) /\ Posts(n, <<<<Client, x>>>>) /\ st'[n] = d
        /\ \A r \in {0, 1, 2, Client} \ {n} : st'[r] = st[r]
    BY <1>5, <2>4, <2>5
  <2>7. PICK p : Adds({p}) /\ posted'[p] = [from |-> n, to |-> Client, body |-> x] BY <2>6, AddedOne
  <2>8. f \in Sent("get") BY <1>2, <1>8
  <2> QED BY <1>2, <1>3, <1>6, <2>2, <2>6, <2>7, <2>8, Serves
<1>9. CASE Become(n, At(n, "done"), <<>>)
  <2>1. <<>> \in Seq(Node \X Message) OBVIOUS
  <2>2. Become(n, d, <<>>) BY <1>6, <1>9
  <2>3. Fades({f}) /\ Posts(n, <<>>) /\ st'[n] = d
        /\ \A r \in {0, 1, 2, Client} \ {n} : st'[r] = st[r]
    BY <1>5, <2>1, <2>2
  <2>4. Adds({}) BY <2>3, AddedNone
  <2> QED BY <1>3, <1>6, <2>3, <2>4, Stops
<1>10. Body(n).kind # "uncommitted"
  <2>1. f \in DOMAIN posted BY <1>2 DEF Sent
  <2>2. posted[f].body.kind \in {"replicate", "get", "stop"} BY <1>2, <2>1, Senders DEF Orderly
  <2> QED BY <1>2, <2>2
<1>11. CASE Ignore(n, {"replicate", "uncommitted", "get", "stop"})
  <2>1. Stays BY <1>11 DEF Ignore, Stays
  <2> QED BY <1>1, <1>2, <2>1, Leaves
<1> QED BY <1>7, <1>8, <1>9, <1>10, <1>11 DEF Follower

\* The client goes on at pc.
LEMMA ClientMoves ==
  ASSUME NetOK, NEW pc \in Pc, NEW out \in Seq(Node \X Message),
         Become(Client, At(Client, pc), out), NEW T, Reads(Client, T)
  PROVE  /\ Fades(T) /\ Posts(Client, out) /\ st'[Client].pc = pc
         /\ \A r \in {0, 1, 2} : st'[r] = st[r]
<1>1. Client \in Peer /\ Client # 0 BY Peers
<1>2. PICK s \in State : s = At(Client, pc) /\ s.pc = pc BY <1>1, Stands DEF NetOK
<1>3. Become(Client, s, out) BY <1>2
<1>4. Fades(T) /\ Posts(Client, out) /\ st'[Client] = s /\ \A r \in Peer : r # Client => st'[r] = st[r]
  BY <1>1, <1>3, Became
<1> QED BY <1>2, <1>4, Peers

LEMMA ClientCalls ==
  ASSUME NetOK, NEW pc \in Pc, NEW k \in Kind, NEW v \in Int, NEW to \in Node, NEW x, x = Msg(k, v),
         Call(to, x, pc), NEW T, Reads(Client, T)
  PROVE  /\ Fades(T) /\ st'[Client].pc = pc /\ \A r \in {0, 1, 2} : st'[r] = st[r]
         /\ \E p : Adds({p}) /\ posted'[p] = [from |-> Client, to |-> to, body |-> x]
<1>1. x \in Message BY Words
<1>2. <<<<to, x>>>> \in Seq(Node \X Message) BY <1>1, Lists
<1>3. Become(Client, At(Client, pc), <<<<to, x>>>>) BY DEF Call
<1>4. Fades(T) /\ Posts(Client, <<<<to, x>>>>) /\ st'[Client].pc = pc
      /\ \A r \in {0, 1, 2} : st'[r] = st[r]
  BY <1>2, <1>3, ClientMoves
<1> QED BY <1>4, AddedOne

LEMMA StartStep ==
  ASSUME NetOK, Orderly, Unreported, box' = box, st[Client].pc = "start",
         NEW pc, pc = (IF system.proto = "kv" THEN "put7" ELSE "put"), Call(0, Msg("put", 7), pc)
  PROVE  Orderly'
<1>1. Reads(Client, {}) /\ 0 \in Node BY Peers DEF Reads
<1>2. pc \in Pc /\ "put" \in Kind /\ 7 \in Int BY DEF Pc, Kind
<1>3. PICK x : x = Msg("put", 7) OBVIOUS
<1>4. PICK z \in Node : z = 0 BY <1>1
<1>5. Call(z, x, pc) BY <1>3, <1>4
<1>6. /\ Fades({}) /\ st'[Client].pc = pc /\ \A r \in {0, 1, 2} : st'[r] = st[r]
      /\ \E p : Adds({p}) /\ posted'[p] = [from |-> Client, to |-> z, body |-> x]
  <2>1. PICK k, v : k = "put" /\ v = 7 OBVIOUS
  <2>2. k \in Kind /\ v \in Int /\ x = Msg(k, v) BY <1>2, <1>3, <2>1
  <2>3. PICK T : T = {} OBVIOUS
  <2>4. Reads(Client, T) BY <1>1, <2>3
  <2>5. /\ Fades(T) /\ st'[Client].pc = pc /\ \A r \in {0, 1, 2} : st'[r] = st[r]
        /\ \E p : Adds({p}) /\ posted'[p] = [from |-> Client, to |-> z, body |-> x]
    BY <1>2, <1>5, <2>2, <2>4, ClientCalls
  <2> QED BY <2>3, <2>5
<1>7. PICK p : Adds({p}) /\ posted'[p] = [from |-> Client, to |-> 0, body |-> x] BY <1>4, <1>6
<1>8. system' = system /\ ops' = ops BY DEF Unreported
<1> QED BY <1>3, <1>6, <1>7, <1>8, Asks

LEMMA PutStep ==
  ASSUME NetOK, Orderly, NEW pc, pc = (IF system.proto = "kv" THEN "put7" ELSE "put"),
         Recv(Client, pc), PutAnswered(7),
         NEW to, to = (IF system.proto = "kv" THEN 1 ELSE 0), Call(to, Plain("get"), "got")
  PROVE  Orderly'
<1>1. to \in Node /\ Client \in Peer BY Peers
<1>2. PICK f : /\ f \in Sent(Body(Client).kind) /\ posted[f].to = Client
               /\ posted[f].body = Body(Client) /\ Reads(Client, {f})
  BY <1>1, AtHand
<1>3. "got" \in Pc /\ "get" \in Kind /\ None \in Int BY DEF Pc, Kind, None
<1>4. PICK x : x = Plain("get") OBVIOUS
<1>5. x = Msg("get", None) /\ Call(to, x, "got") BY <1>4 DEF Plain
<1>6. /\ Fades({f}) /\ st'[Client].pc = "got" /\ \A r \in {0, 1, 2} : st'[r] = st[r]
      /\ \E p : Adds({p}) /\ posted'[p] = [from |-> Client, to |-> to, body |-> x]
  <2>1. PICK k, v, gt : k = "get" /\ v = None /\ gt = "got" OBVIOUS
  <2>2. k \in Kind /\ v \in Int /\ gt \in Pc /\ x = Msg(k, v) /\ Call(to, x, gt) BY <1>3, <1>5, <2>1
  <2>3. PICK T : T = {f} OBVIOUS
  <2>4. Reads(Client, T) BY <1>2, <2>3
  <2>5. PICK z \in Node : z = to BY <1>1
  <2>6. Call(z, x, gt) BY <2>2, <2>5
  <2>7. k \in Kind /\ v \in Int /\ gt \in Pc /\ x = Msg(k, v) BY <2>2
  <2>8. /\ Fades(T) /\ st'[Client].pc = gt /\ \A r \in {0, 1, 2} : st'[r] = st[r]
        /\ \E p : Adds({p}) /\ posted'[p] = [from |-> Client, to |-> z, body |-> x]
    BY <2>4, <2>6, <2>7, ClientCalls
  <2> QED BY <2>1, <2>3, <2>5, <2>8
<1>7. PICK p : Adds({p}) /\ posted'[p] = [from |-> Client, to |-> to, body |-> x] BY <1>6
<1>8. /\ system' = system
      /\ posted[f].body.kind = "ok" => ops' = Append(ops, PutOp)
  BY <1>2 DEF PutAnswered, Report, Unreported, PutOp
<1>9. f \in DOMAIN posted BY <1>2 DEF Sent
<1>10. st[Client].pc = (IF system.proto = "kv" THEN "put7" ELSE "put") BY DEF Recv
<1> QED BY <1>2, <1>4, <1>6, <1>7, <1>8, <1>9, <1>10, Hears

\* The last answer, whatever the client tells the followers then.
LEMMA GotStep ==
  ASSUME NetOK, Orderly, Recv(Client, "got"), UNCHANGED system,
         NEW out \in Seq(Node \X Message), Become(Client, At(Client, "done"), out),
         Body(Client).kind = "value" /\ Body(Client).value = 7 => ops' = Append(ops, GetOp),
         Posts(Client, out) => \E N : /\ Adds(N)
                                      /\ \A m \in N : /\ posted'[m].to \in {1, 2}
                                                      /\ posted'[m].body = Plain("stop")
  PROVE  Orderly'
<1>1. Client \in Peer BY Peers
<1>2. PICK f : /\ f \in Sent(Body(Client).kind) /\ posted[f].to = Client
               /\ posted[f].body = Body(Client) /\ Reads(Client, {f})
  BY <1>1, AtHand
<1>3. "done" \in Pc BY DEF Pc
<1>4. Fades({f}) /\ Posts(Client, out) /\ st'[Client].pc = "done" /\ \A r \in {0, 1, 2} : st'[r] = st[r]
  BY <1>2, <1>3, ClientMoves
<1>5. PICK N : Adds(N) /\ \A m \in N : posted'[m].to \in {1, 2} /\ posted'[m].body = Plain("stop")
  BY <1>4
<1>6. f \in DOMAIN posted BY <1>2 DEF Sent
<1>7. st[Client].pc = "got" BY DEF Recv
<1>8. posted[f].body.kind = "value" /\ posted[f].body.value = 7 => ops' = Append(ops, GetOp) BY <1>2
<1> QED BY <1>2, <1>4, <1>5, <1>6, <1>7, <1>8, Finishes

LEMMA KvGetStep == ASSUME NetOK, Orderly, SingleKeyGet PROVE Orderly'
<1>1. 1 \in Node /\ 2 \in Node /\ Client \in Node BY Peers
<1>2. PICK x : x = Plain("stop") OBVIOUS
<1>3. x \in Message
  <2>1. "stop" \in Kind /\ 7 \in Int BY DEF Kind
  <2> QED BY <1>2, <2>1, Words
<1>4. PICK out : out = <<<<1, x>>, <<2, x>>>> OBVIOUS
<1>5. out \in Seq(Node \X Message) BY <1>1, <1>3, <1>4, Lists
<1>6. Recv(Client, "got") /\ Become(Client, At(Client, "done"), out) /\ system' = system
  BY <1>2, <1>4 DEF SingleKeyGet, Report
<1>7. Body(Client).kind = "value" /\ Body(Client).value = 7 => ops' = Append(ops, GetOp)
  BY DEF SingleKeyGet, Report, Parsed, GetOp
<1>8. ASSUME Posts(Client, out)
      PROVE  \E N : Adds(N) /\ \A m \in N : posted'[m].to \in {1, 2} /\ posted'[m].body = Plain("stop")
  <2>1. /\ Len(out) = 2 /\ DOMAIN out = 1 .. 2
        /\ out[1][1] = 1 /\ out[1][2] = x /\ out[2][1] = 2 /\ out[2][2] = x
    BY <1>4
  <2>2. PICK p, q : /\ p # q /\ Adds({p, q})
                    /\ posted'[p] = [from |-> Client, to |-> out[1][1], body |-> out[1][2]]
                    /\ posted'[q] = [from |-> Client, to |-> out[2][1], body |-> out[2][2]]
    BY <1>8, <2>1, AddedTwo
  <2>3. \A m \in {p, q} : posted'[m].to \in {1, 2} /\ posted'[m].body = Plain("stop")
    BY <1>2, <2>1, <2>2
  <2> QED BY <2>2, <2>3
<1> QED BY <1>5, <1>6, <1>7, <1>8, GotStep

LEMMA RaftGetStep == ASSUME NetOK, Orderly, Bug = "Correct", RaftGet PROVE Orderly'
<1>1. PICK out : out = <<>> OBVIOUS
<1>2. out \in Seq(Node \X Message) BY <1>1
<1>3. Recv(Client, "got") /\ Become(Client, At(Client, "done"), out) /\ system' = system
  BY <1>1 DEF RaftGet, Report
<1>4. Body(Client).kind = "value" /\ Body(Client).value = 7 => ops' = Append(ops, GetOp)
  BY DEF RaftGet, Report, Parsed, GetOp, None
<1>5. ASSUME Posts(Client, out)
      PROVE  \E N : Adds(N) /\ \A m \in N : posted'[m].to \in {1, 2} /\ posted'[m].body = Plain("stop")
  <2>1. Adds({}) BY <1>1, <1>5, AddedNone
  <2> QED BY <2>1
<1> QED BY <1>2, <1>3, <1>4, <1>5, GotStep

LEMMA LeaderStep ==
  ASSUME NetOK, Orderly, Bug = "Correct", system.proto # "kv", Leader PROVE Orderly'
<1>1. Recv(0, "lead") /\ Unreported /\ 0 \in Peer BY Peers DEF Leader
<1>2. PICK f : /\ f \in Sent(Body(0).kind) /\ posted[f].from = From(0) /\ posted[f].body = Body(0)
               /\ Reads(0, {f})
  BY <1>1, AtHand
<1>3. CASE Body(0).kind = "put" /\ Replicate(0, 7, <<1, 2>>, 2, "acks-lead")
  BY <1>1, <1>3, SpreadStep
<1>4. CASE Body(0).kind = "get" /\ Become(0, At(0, "done"), Farewell(From(0), st[0].value))
  <2>1. From(0) = Client BY <1>2, <1>4, Senders DEF Orderly
  <2>2. st[0].value \in Int /\ 1 \in Node /\ 2 \in Node /\ Client \in Node
    BY Peers DEF NetOK, ClusterType, State
  <2>3. PICK x, y : x = Msg("value", st[0].value) /\ y = Plain("stop") OBVIOUS
  <2>4. x \in Message /\ y \in Message
    <3>1. "value" \in Kind /\ "stop" \in Kind BY DEF Kind
    <3> QED BY <2>2, <2>3, <3>1, Words
  <2>5. PICK out : out = <<<<Client, x>>, <<1, y>>, <<2, y>>>> OBVIOUS
  <2>6. out \in Seq(Node \X Message) BY <2>2, <2>4, <2>5, Lists
  <2>7. PICK d \in State : d = At(0, "done") /\ d.pc = "done" /\ d.value = st[0].value
    <3>1. "done" \in Pc BY DEF Pc
    <3> QED BY <1>1, <3>1, Stands DEF NetOK
  <2>8. Become(0, d, out) BY <1>4, <2>1, <2>3, <2>5, <2>7 DEF Farewell
  <2>9. "done" \notin Owing BY DEF Owing
  <2>10. Fades({f}) /\ Posts(0, out) /\ st'[0] = d /\ \A r \in Peer : r # 0 => st'[r] = st[r]
    BY <1>1, <1>2, <2>6, <2>7, <2>8, <2>9, Became
  <2>11. /\ Len(out) = 3 /\ DOMAIN out = 1 .. 3
         /\ out[1][1] = Client /\ out[1][2] = x /\ out[2][1] = 1 /\ out[2][2] = y
         /\ out[3][1] = 2 /\ out[3][2] = y
    BY <2>5
  <2>12. PICK n : n = 0 OBVIOUS
  <2>13. Posts(n, out) BY <2>10, <2>12
  <2>14. PICK p, q, r : /\ Adds({p, q, r})
                        /\ posted'[p] = [from |-> n, to |-> out[1][1], body |-> out[1][2]]
                        /\ posted'[q] = [from |-> n, to |-> out[2][1], body |-> out[2][2]]
                        /\ posted'[r] = [from |-> n, to |-> out[3][1], body |-> out[3][2]]
    BY <2>11, <2>13, AddedThree
  <2>15. /\ posted'[p] = [from |-> 0, to |-> Client, body |-> x]
         /\ posted'[q] = [from |-> 0, to |-> 1, body |-> y]
         /\ posted'[r] = [from |-> 0, to |-> 2, body |-> y]
    BY <2>11, <2>12, <2>14
  <2>16. \A s \in {1, 2, Client} : st'[s] = st[s] BY <2>10, Peers
  <2>17. f \in Sent("get") /\ st[0].pc = "lead" BY <1>1, <1>2, <1>4 DEF Recv
  <2>18. system' = system /\ ops' = ops BY <1>1 DEF Unreported
  <2> QED BY <2>3, <2>7, <2>10, <2>14, <2>15, <2>16, <2>17, <2>18, LeaderReads
<1>5. CASE Ignore(0, {"put", "get"})
  <2>1. Stays BY <1>5 DEF Ignore, Stays
  <2> QED BY <1>1, <1>2, <2>1, Leaves
<1> QED BY <1>3, <1>4, <1>5 DEF Leader

LEMMA BootStep ==
  ASSUME NetOK, Orderly, Bug = "Correct", NEW n \in {0, 1, 2}, Boot(n) PROVE Orderly'
<1>1. n \in Peer /\ st[n].pc = "boot" /\ box' = box /\ Unreported BY Peers DEF Boot
<1>2. Announced(n) = <<>> BY DEF Announced, Visible
<1>3. PICK pc \in Pc : pc = IF n = 0 THEN "lead" ELSE "follow"
  <2>1. "lead" \in Pc /\ "follow" \in Pc BY DEF Pc
  <2> QED BY <2>1
<1>4. PICK s : s = Role(n) OBVIOUS
<1>5. s = Waiting(pc) BY <1>3, <1>4 DEF Role, Visible
<1>6. s \in State /\ s.pc = pc /\ pc \notin Owing BY <1>3, <1>5, WaitingIs DEF Owing
<1>7. PICK out : out = <<>> OBVIOUS
<1>8. Become(n, s, out)
  <2>1. PICK says : says = Announced(n) OBVIOUS
  <2>2. DOMAIN says = {} BY <1>2, <2>1
  <2>3. [k \in DOMAIN says |-> <<Observer, says[k]>>] = out BY <1>7, <2>2
  <2>4. Become(n, s, [k \in DOMAIN says |-> <<Observer, says[k]>>]) BY <1>4, <2>1 DEF Boot
  <2> QED BY <2>3, <2>4
<1>9. Reads(n, {}) /\ out \in Seq(Node \X Message) BY <1>1, <1>7 DEF Reads
<1>10. Fades({}) /\ Posts(n, out) /\ st'[n] = s /\ \A r \in Peer : r # n => st'[r] = st[r]
  BY <1>1, <1>6, <1>8, <1>9, Became
<1>11. Adds({}) BY <1>7, <1>10, AddedNone
<1>12. \A r \in {0, 1, 2, Client} \ {n} : st'[r] = st[r] BY <1>10, Peers
<1>13. system' = system /\ ops' = ops BY <1>1 DEF Unreported
<1> QED BY <1>1, <1>3, <1>6, <1>10, <1>11, <1>12, <1>13, Starts

LEMMA CollectStep == ASSUME NetOK, Orderly, Collect PROVE Orderly'
<1>1. Recv(Observer, "collect") /\ Observer \in Peer BY Peers DEF Collect
<1>2. Reads(Observer, {First(Observer)}) BY <1>1, Received
<1>3. Posts(Observer, <<>>) BY Silence DEF Collect, NetOK, Single
<1>4. Fades({First(Observer)})
  <2>1. Len(<<>>) \in Nat /\ DOMAIN <<>> = 1 .. Len(<<>>) OBVIOUS
  <2>2. Observer \in Node BY Peers
  <2> QED BY <1>2, <1>3, <2>1, <2>2, HandledFades DEF Reads
<1>5. st \in [Peer -> State] BY DEF NetOK, ClusterType
<1>6. \A n \in {0, 1, 2, Client} : st'[n] = st[n] BY <1>5, Peers DEF Collect
<1>7. UNCHANGED <<system, posted, ops>> BY DEF Collect
<1> QED BY <1>4, <1>6, <1>7, Still

LEMMA KvSound == ASSUME NetOK, Orderly, Bug = "Correct", KvNext PROVE Orderly'
<1>1. system.proto = "kv" BY DEF KvNext
<1>2. st[0].pc \notin {"log", "acks-on"}
      /\ st[Client].pc \notin {"asleep", "got-only", "appended", "read", "put9"}
  BY <1>1 DEF Orderly, Roles
<1>3. CASE Primary BY <1>1, <1>3, PrimaryStep
<1>4. CASE AwaitAck(0, "acks", "done") BY <1>1, <1>4, AwaitStep
<1>5. CASE Follower(1) \/ Follower(2) BY <1>5, FollowerStep
<1>6. CASE KvStart
  <2>1. Unreported /\ box' = box /\ st[Client].pc = "start" /\ Call(0, Msg("put", 7), "put7")
    BY <1>6 DEF KvStart
  <2> QED BY <1>1, <2>1, StartStep
<1>7. CASE SingleKeyPut
  <2>1. Recv(Client, "put7") /\ PutAnswered(7) /\ Call(1, Plain("get"), "got")
    BY <1>2, <1>7 DEF SingleKeyPut, Recv
  <2> QED BY <1>1, <2>1, PutStep
<1>8. CASE SingleKeyGet BY <1>8, KvGetStep
<1>9. ~AppendLogPrimary /\ ~AwaitAck(0, "acks-on", "serve") /\ ~UncommittedWakes /\ ~UncommittedGet
      /\ ~AppendLogClient
  BY <1>2 DEF AppendLogPrimary, AwaitAck, UncommittedWakes, UncommittedGet, AppendLogClient, Recv
<1> QED BY <1>3, <1>4, <1>5, <1>6, <1>7, <1>8, <1>9 DEF KvNext

LEMMA RaftSound == ASSUME NetOK, Orderly, Bug = "Correct", RaftNext PROVE Orderly'
<1>1. system.proto # "kv" BY DEF RaftNext
<1>2. /\ st[0].pc \notin {"first", "second", "stale", "any", "twice"}
      /\ st[1].pc # "once" /\ st[2].pc # "once" /\ st[Client].pc \notin {"asked", "again"}
  BY <1>1 DEF Orderly, Roles
<1>3. CASE Leader BY <1>1, <1>3, LeaderStep
<1>4. CASE AwaitAck(0, "acks-lead", "lead") BY <1>1, <1>4, AwaitStep
<1>5. CASE \E n \in {1, 2} : Follower(n) BY <1>5, FollowerStep
<1>6. CASE \E n \in Replica : Boot(n) BY <1>6, BootStep, Peers
<1>7. CASE RaftStart
  <2>1. Unreported /\ box' = box /\ st[Client].pc = "start" /\ Call(0, Msg("put", 7), "put")
    BY <1>7 DEF RaftStart
  <2> QED BY <1>1, <2>1, StartStep
<1>8. CASE RaftPut
  <2>1. Recv(Client, "put") /\ PutAnswered(7) /\ Call(0, Plain("get"), "got") BY <1>8 DEF RaftPut
  <2> QED BY <1>1, <2>1, PutStep
<1>9. CASE RaftGet BY <1>9, RaftGetStep
<1>10. CASE Collect BY <1>10, CollectStep
<1>11. ~VisibleBugLeader /\ ~StaleReadLeader /\ ~DuplicateRequestLeader /\ ~DuplicateRequestClient
       /\ \A n \in {1, 2} : ~OneShot(n)
  BY <1>2 DEF VisibleBugLeader, StaleReadLeader, DuplicateRequestLeader, DuplicateRequestClient,
              OneShot, Recv
<1> QED BY <1>3, <1>4, <1>5, <1>6, <1>7, <1>8, <1>9, <1>10, <1>11 DEF RaftNext

\* The experiment stays the same.
LEMMA SameSystem == ASSUME [ProtocolsNext]_allVars PROVE system' = system
<1>1. CASE KvNext
  BY <1>1 DEF KvNext, Primary, AppendLogPrimary, AwaitAck, Follower, KvStart, SingleKeyPut,
              SingleKeyGet, UncommittedWakes, UncommittedGet, AppendLogClient, PutAnswered,
              Ignore, Unreported, Report
<1>2. CASE RaftNext
  BY <1>2 DEF RaftNext, Leader, AwaitAck, VisibleBugLeader, StaleReadLeader, DuplicateRequestLeader,
              Boot, Follower, OneShot, RaftStart, RaftPut, RaftGet, DuplicateRequestClient, Collect,
              PutAnswered, Ignore, Unreported, Report
<1>3. CASE \E m \in DOMAIN wire : Arrive(m) \/ Vanish(m) BY <1>3 DEF Arrive, Vanish
<1>4. CASE UNCHANGED allVars BY <1>4 DEF allVars
<1> QED BY <1>1, <1>2, <1>3, <1>4 DEF ProtocolsNext, Progress

LEMMA OrderlyStep == NetOK /\ CorrectOK /\ [ProtocolsNext]_allVars => CorrectOK'
<1> SUFFICES ASSUME NetOK, CorrectOK, [ProtocolsNext]_allVars, system'.bug = "Correct" PROVE Orderly'
  BY DEF CorrectOK
<1>1. Bug = "Correct" /\ system.bug = "Correct" BY SameSystem DEF Bug
<1>2. Orderly BY <1>1 DEF CorrectOK
<1>3. CASE \E m \in DOMAIN wire : Arrive(m) \/ Vanish(m)
  <2>1. Fades({}) /\ posted' = posted /\ st' = st /\ ops' = ops /\ system' = system
    BY <1>3, CarriedNet
  <2> QED BY <1>2, <2>1, Still
<1>4. CASE UNCHANGED allVars
  <2>1. Fades({}) /\ posted' = posted /\ st' = st /\ ops' = ops /\ system' = system
    BY <1>4, Stutters
  <2> QED BY <1>2, <2>1, Still
<1> QED BY <1>1, <1>2, <1>3, <1>4, KvSound, RaftSound DEF ProtocolsNext, Progress

LEMMA OrderlyInit == ProtocolsInit => CorrectOK
<1> SUFFICES ASSUME ProtocolsInit, system.bug = "Correct" PROVE Orderly BY DEF CorrectOK
<1>1. posted = <<>> /\ ops = <<>> /\ doubled = {} BY DEF ProtocolsInit, ClusterInit, Init
<1>2. DOMAIN posted = {} BY <1>1
<1>3. \A k : Sent(k) = {} BY <1>2 DEF Sent
<1>4. /\ st[Client] = Waiting("start")
      /\ \A n \in {0, 1, 2} : st[n] = IF system.proto = "kv" THEN KvReplicas[n] ELSE RaftReplicas[n]
  BY Peers DEF ProtocolsInit
<1>5. /\ st[Client].pc = "start"
      /\ IF system.proto = "kv"
         THEN st[0].pc = "serve" /\ \A n \in {1, 2} : st[n].pc = "follow"
         ELSE \A n \in {0, 1, 2} : st[n].pc = "boot" /\ st[n].value = None
  BY <1>4, Peers DEF KvReplicas, RaftReplicas, Waiting, Bug
<1>6. Roles BY <1>5 DEF Roles, None
<1>7. ~Collecting /\ Asking /\ st[0].pc \notin {"done", "acks-lead"} BY <1>5 DEF Collecting, Asking
<1>8. Said BY <1>2, <1>7 DEF Said
<1>9. Waited BY <1>1, <1>3, <1>7 DEF Waited
<1>10. Told BY <1>1, <1>3, <1>5, <1>7 DEF Told
<1>11. Answered BY <1>3, <1>7 DEF Answered
<1> QED BY <1>6, <1>8, <1>9, <1>10, <1>11 DEF Orderly, Round, Reports

LEMMA AlwaysOK == ProtocolsSpec => []ProtocolsOK
BY NetInit, NetStep, OrderlyInit, OrderlyStep, PTL DEF ProtocolsSpec, ProtocolsOK

\* A put that the client of the correct primary-backup store or Mini-Raft reported is on both
\* followers, whatever was lost or reordered, unless the network doubled what the replicas
\* agree with (run_primary, wait_for_acks, run_follower).
THEOREM AcknowledgedIsReplicated == ProtocolsSpec => []AckedIsReplicated
<1>1. ProtocolsOK => AckedIsReplicated
  <2> SUFFICES ASSUME ProtocolsOK, system.bug = "Correct", ~Doubled({"replicate", "ack"}),
                      NEW k \in DOMAIN ops
               PROVE  \A n \in {1, 2} : st[n].value = 7
    BY DEF AckedIsReplicated
  <2>1. Copied \/ Waited BY DEF ProtocolsOK, CorrectOK, Orderly, Round
  <2>2. ops # <<>> OBVIOUS
  <2>3. ~Waited BY <2>2 DEF Waited
  <2> QED BY <2>1, <2>3 DEF Copied
<1> QED BY <1>1, AlwaysOK, PTL

\* What the client of a correct variant reports is a legal history: it reads what it wrote,
\* unless a duplicate passes for the answer to another request (run_single_key_client,
\* run_mini_raft_kv_client).
THEOREM CorrectReportsLegally == ProtocolsSpec => []CorrectIsLegal
<1>1. ProtocolsOK => CorrectIsLegal
  <2> SUFFICES ASSUME ProtocolsOK, system.bug = "Correct", ~Doubled(Confusing) PROVE Legal
    BY DEF CorrectIsLegal
  <2>1. Told /\ Roles BY DEF ProtocolsOK, CorrectOK, Orderly, Reports
  <2>2. ops = <<>> \/ ops = <<PutOp>> \/ ops = <<PutOp, GetOp>>
    BY <2>1 DEF Told, Roles, Asking
  <2>3. /\ PutOp.op = "put" /\ PutOp.value = 7 /\ GetOp.op = "get" /\ GetOp.value = 7
    BY DEF PutOp, GetOp
  <2>4. CASE ops = <<>>
    <3>1. DOMAIN ops = {} BY <2>4
    <3> QED BY <3>1 DEF Legal
  <2>5. CASE ops = <<PutOp>>
    <3>1. \A k \in DOMAIN ops : ops[k].op = "put" BY <2>3, <2>5
    <3> QED BY <3>1 DEF Legal
  <2>6. CASE ops = <<PutOp, GetOp>>
    <3>1. /\ \A k \in DOMAIN ops : k = 1 \/ k = 2
          /\ ops[1] = PutOp /\ ops[2] = GetOp
      BY <2>6
    <3>2. Written(2) = 7
      <4>1. PICK puts : puts = {j \in 1 .. 2 - 1 : ops[j].op = "put"} OBVIOUS
      <4>2. puts = {1} BY <2>3, <3>1, <4>1
      <4>3. PICK c : c = CHOOSE j \in puts : \A i \in puts : i <= j OBVIOUS
      <4>4. c = 1 BY <4>2, <4>3
      <4>5. Written(2) = IF puts = {} THEN None ELSE ops[c].value BY <4>1, <4>3 DEF Written
      <4> QED BY <2>3, <3>1, <4>2, <4>4, <4>5
    <3>3. /\ ops[1].op = "put" /\ ops[2].op = "get" /\ ops[2].value = Written(2)
      BY <2>3, <3>1, <3>2
    <3>4. \A k \in DOMAIN ops : /\ ops[k].op = "get" => ops[k].value = Written(k)
                                /\ ops[k].op # "entries"
      BY <3>1, <3>3
    <3> QED BY <3>4 DEF Legal
  <2> QED BY <2>2, <2>4, <2>5, <2>6
<1> QED BY <1>1, AlwaysOK, PTL

-----------------------------------------------------------------------------
(* The planted bugs *)

\* No letter over an edge that is down is in a mailbox.
Apart == \A n \in Node : \A k \in DOMAIN box[n] : <<box[n][k].from, n>> \notin system.cut

\* The bugs that show in what a read of the register finds.
Misleading ==
  {"ReadFromStaleFollower", "LostUpdate", "QuorumCountOffByOne", "AckBeforeReplicate",
   "FollowerStaleRead"} \union Visible

\* What the client puts, and what a read of a correct register would find.
LastPut == [op |-> "put", value |-> 9]
Found(v) == [op |-> "get", value |-> v]
Wanted == IF Bug = "LostUpdate" THEN 9 ELSE 7
AllPuts == IF Bug = "LostUpdate" THEN <<PutOp, LastPut>> ELSE <<PutOp>>

\* No letter brings the last value to where the client reads it.
Bland(d) ==
  /\ d.from # Observer /\ (d.to = Observer => d.from = 0)
  /\ d.to = Client => d.body.kind \in {"ok", "value"}
  /\ d.body.kind = "value" => d.body.value # Wanted
  /\ d.body.kind = "replicate" => d.from = 0
  /\ d.body.kind = "replicate" /\ d.to = 1 => d.body.value # Wanted \/ <<0, 1>> \in system.cut
  /\ d.body.kind # "uncommitted"
  /\ d.body.kind = "get" => d.to # 2
  /\ d.body.kind \in {"get", "value"} => st[Client].pc \in {"got", "done"}

Astray ==
  /\ st[0].pc \in {"serve", "acks", "acks-on", "boot", "first", "second", "stale", "any", "done"}
  /\ st[0].pc \in Owing => st[0].peer # Observer
  /\ \A n \in {1, 2} : st[n].pc \in {"follow", "boot", "once", "done"}
  /\ st[Client].pc \in {"start", "put7", "put9", "put", "got", "done"}
  /\ st[1].value # Wanted

Misinformed ==
  /\ st[Client].pc \in {"start", "put7", "put"} => ops = <<>>
  /\ st[Client].pc = "put9" => Bug = "LostUpdate" /\ ops = <<PutOp>>
  /\ st[Client].pc = "got" => ops = AllPuts
  /\ st[Client].pc = "done" => \E v : v # Wanted /\ ops = Append(AllPuts, Found(v))

Misled == Astray /\ Misinformed /\ \A m \in DOMAIN posted : Bland(posted[m])

-----------------------------------------------------------------------------
(* What the steps do to the letters *)

\* Whatever letter there is was there before or is one of L.
Gains(L) ==
  \A m \in DOMAIN posted' : (m \in DOMAIN posted /\ posted'[m] = posted[m]) \/ posted'[m] \in L

\* The letters of a list that node n sends.
Letters(n, out) == {[from |-> n, to |-> out[k][1], body |-> out[k][2]] : k \in DOMAIN out}

LEMMA Gained ==
  ASSUME NetOK, NEW n, NEW out \in Seq(Node \X Message), Posts(n, out)
  PROVE  Gains(Letters(n, out))
<1> SUFFICES ASSUME NEW m \in DOMAIN posted'
             PROVE  (m \in DOMAIN posted /\ posted'[m] = posted[m]) \/ posted'[m] \in Letters(n, out)
  BY DEF Gains
<1>1. PICK P, L : P = Len(posted) /\ L = Len(out) OBVIOUS
<1>2. P \in Nat /\ L \in Nat /\ DOMAIN posted = 1 .. P /\ DOMAIN out = 1 .. L /\ DOMAIN posted' = 1 .. P + L
  BY <1>1, Fresh, LenProperties
<1>3. CASE m \in 1 .. P BY <1>2, <1>3 DEF Posts
<1>4. CASE m \notin 1 .. P
  <2>1. m - P \in 1 .. L /\ P + (m - P) = m BY <1>2, <1>4
  <2>2. posted'[P + (m - P)] = [from |-> n, to |-> out[m - P][1], body |-> out[m - P][2]]
    BY <1>1, <1>2, <2>1, Fresh
  <2> QED BY <1>2, <2>1, <2>2 DEF Letters
<1> QED BY <1>3, <1>4

\* A node goes on: the others stay, and every letter there is was there or is one it sends.
LEMMA Moved ==
  ASSUME NetOK, NEW n \in Peer, NEW s \in State, NEW out \in Seq(Node \X Message), Become(n, s, out),
         box' = box \/ \E at : Recv(n, at),
         n = 0 /\ s.pc \in Owing => s.peer \in Node
  PROVE  Gains(Letters(n, out)) /\ st'[n] = s /\ \A r \in Peer : r # n => st'[r] = st[r]
<1>1. \E T : Reads(n, T)
  <2>1. CASE box' = box
    <3>1. PICK T : T = {} OBVIOUS
    <3> QED BY <2>1, <3>1 DEF Reads
  <2>2. CASE \E at : Recv(n, at) BY <2>2, Received
  <2> QED BY <2>1, <2>2
<1>2. PICK T : Reads(n, T) BY <1>1
<1>3. Posts(n, out) /\ st'[n] = s /\ \A r \in Peer : r # n => st'[r] = st[r] BY <1>2, Became
<1> QED BY <1>3, Gained

LEMMA LetterNone == ASSUME NEW n, NEW out, out = <<>> PROVE Letters(n, out) = {}
BY DEF Letters

LEMMA LetterOne ==
  ASSUME NEW n, NEW out, NEW a, NEW x, out = <<<<a, x>>>>
  PROVE  \A d \in Letters(n, out) : d.from = n /\ d.to = a /\ d.body = x
<1>1. DOMAIN out = {1} /\ out[1][1] = a /\ out[1][2] = x OBVIOUS
<1> QED BY <1>1 DEF Letters

\* Every entry of the list is x for a, y for b or z for c.
Listed(out, a, x, b, y, c, z) ==
  \A k \in DOMAIN out : \/ out[k][1] = a /\ out[k][2] = x
                        \/ out[k][1] = b /\ out[k][2] = y
                        \/ out[k][1] = c /\ out[k][2] = z

LEMMA ListedTwo ==
  ASSUME NEW out, NEW a, NEW x, NEW b, NEW y, out = <<<<a, x>>, <<b, y>>>>
  PROVE  Listed(out, a, x, b, y, b, y)
BY DEF Listed

LEMMA ListedThree ==
  ASSUME NEW out, NEW a, NEW x, NEW b, NEW y, NEW c, NEW z, out = <<<<a, x>>, <<b, y>>, <<c, z>>>>
  PROVE  Listed(out, a, x, b, y, c, z)
BY DEF Listed

LEMMA LetterListed ==
  ASSUME NEW n, NEW out, NEW a, NEW x, NEW b, NEW y, NEW c, NEW z,
         Listed(out, a, x, b, y, c, z), NEW d \in Letters(n, out)
  PROVE  /\ d.from = n
         /\ (d.to = a /\ d.body = x) \/ (d.to = b /\ d.body = y) \/ (d.to = c /\ d.body = z)
<1>1. PICK k \in DOMAIN out : d = [from |-> n, to |-> out[k][1], body |-> out[k][2]] BY DEF Letters
<1>2. d.from = n /\ d.to = out[k][1] /\ d.body = out[k][2] BY <1>1
<1>3. \/ out[k][1] = a /\ out[k][2] = x
      \/ out[k][1] = b /\ out[k][2] = y
      \/ out[k][1] = c /\ out[k][2] = z
  BY Zenon DEF Listed
<1> QED BY <1>2, <1>3

\* What is in a mailbox came over an edge that is up.
LEMMA Reached ==
  ASSUME NetOK, Apart, NEW n \in Peer, NEW at, Recv(n, at) PROVE <<From(n), n>> \notin system.cut
<1>1. n \in Node /\ box[n] # <<>> BY Peers, Received
<1>2. box[n] \in Seq(Entry) BY <1>1, EntryOf
<1>3. 1 \in DOMAIN box[n] /\ Head(box[n]) = box[n][1] BY <1>1, <1>2, LenProperties, EmptySeq
<1> QED BY <1>1, <1>3 DEF Apart, From

LEMMA ApartTakes ==
  ASSUME NetOK, Apart, system' = system, NEW n \in Node, NEW T, Reads(n, T) PROVE Apart'
<1> SUFFICES ASSUME NEW r \in Node, NEW k \in DOMAIN box'[r]
             PROVE  <<box'[r][k].from, r>> \notin system.cut
  BY DEF Apart
<1>1. box \in [Node -> Seq(Entry)] BY DEF NetOK, Boxes, Entry
<1>2. \E j \in DOMAIN box[r] : box'[r][k] = box[r][j]
  <2>1. CASE box'[r] = box[r] BY <2>1
  <2>2. CASE box'[r] # box[r]
    <3>1. r = n /\ Takes(n) BY <1>1, <2>2 DEF Reads, Takes
    <3>2. box[r] \in Seq(Entry) /\ box[r] # <<>> /\ box'[r] = Tail(box[r]) BY <1>1, <3>1 DEF Takes
    <3>3. /\ Len(box[r]) \in Nat /\ DOMAIN box[r] = 1 .. Len(box[r])
          /\ Tail(box[r]) \in Seq(Entry) /\ Len(Tail(box[r])) = Len(box[r]) - 1
          /\ \A i \in 1 .. Len(Tail(box[r])) : Tail(box[r])[i] = box[r][i + 1]
      BY <3>2, HeadTailProperties, LenProperties
    <3>4. DOMAIN Tail(box[r]) = 1 .. Len(box[r]) - 1 BY <3>3, LenProperties
    <3>5. k \in 1 .. Len(box[r]) - 1 /\ k + 1 \in 1 .. Len(box[r]) BY <3>2, <3>3, <3>4
    <3> QED BY <3>2, <3>3, <3>5
  <2> QED BY <2>1, <2>2
<1> QED BY <1>2 DEF Apart

\* A list of one with another at its end.
LEMMA TwoOf == ASSUME NEW a, NEW b PROVE Append(<<a>>, b) = <<a, b>>
<1>1. <<a>> \in Seq({a, b}) /\ b \in {a, b} OBVIOUS
<1> DEFINE t == Append(<<a>>, b)
           u == <<a, b>>
<1>2. t \in Seq({a, b}) /\ Len(t) = 2 /\ t[1] = a /\ t[2] = b BY <1>1
<1>3. u \in Seq({a, b}) /\ Len(u) = 2 /\ u[1] = a /\ u[2] = b BY <1>1
<1> HIDE DEF t, u
<1>4. t = u BY <1>2, <1>3, SeqEqual
<1> QED BY <1>4 DEF t, u

-----------------------------------------------------------------------------
(* The bugs that show in a read *)

LEMMA Heard ==
  ASSUME NetOK, Misled, NEW n \in Peer, NEW at, Recv(n, at)
  PROVE  \E d : Bland(d) /\ d.from = From(n) /\ d.to = n /\ d.body = Body(n)
<1>1. First(n) \in DOMAIN posted /\ posted[First(n)].to = n /\ From(n) = posted[First(n)].from
      /\ Body(n) = posted[First(n)].body
  BY Received
<1> QED BY <1>1 DEF Misled

LEMMA StillWanted ==
  ASSUME system' = system PROVE Wanted' = Wanted /\ AllPuts' = AllPuts /\ Bug' = Bug
BY DEF Wanted, AllPuts, Bug

LEMMA MisledGoes ==
  ASSUME Misled, system' = system, NEW L, Gains(L), \A d \in L : Bland(d)',
         st[Client].pc \in {"got", "done"} => st'[Client].pc \in {"got", "done"},
         Astray', Misinformed'
  PROVE  Misled'
<1>1. ASSUME NEW m \in DOMAIN posted' PROVE Bland(posted[m])'
  <2>1. CASE m \in DOMAIN posted /\ posted'[m] = posted[m]
    <3>1. PICK d : d = posted[m] /\ d = posted'[m] BY <2>1
    <3>2. Bland(d) BY <2>1, <3>1 DEF Misled
    <3>3. Bland(d)' BY <3>2, StillWanted DEF Bland
    <3> QED BY <3>1, <3>3 DEF Bland
  <2>2. CASE posted'[m] \in L
    <3>1. PICK d \in L : d = posted'[m] BY <2>2
    <3>2. Bland(d)' BY <3>1
    <3> QED BY <3>1, <3>2 DEF Bland
  <2> QED BY <2>1, <2>2 DEF Gains
<1> QED BY <1>1 DEF Misled

\* A replica goes on.
LEMMA ReplicaMisled ==
  ASSUME Misled, Unreported, NEW n \in {0, 1, 2}, \A r \in Peer : r # n => st'[r] = st[r],
         NEW L, Gains(L), \A d \in L : Bland(d)',
         n = 0 => /\ st'[0].pc \in {"serve", "acks", "acks-on", "boot", "first", "second", "stale",
                                   "any", "done"}
                  /\ st'[0].pc \in Owing => st'[0].peer # Observer,
         n # 0 => st'[n].pc \in {"follow", "boot", "once", "done"},
         n = 1 => st'[1].value # Wanted
  PROVE  Misled'
<1>1. st'[Client] = st[Client] BY Peers
<1>2. system' = system /\ ops' = ops BY DEF Unreported
<1>3. Astray'
  <2>1. n = 0 \/ st'[0] = st[0] BY Peers
  <2>2. n = 1 \/ st'[1] = st[1] BY Peers
  <2>3. n = 2 \/ st'[2] = st[2] BY Peers
  <2>4. Astray BY DEF Misled
  <2>5. st'[1].value # Wanted' BY <1>2, <2>2, <2>4, StillWanted DEF Astray
  <2>6. /\ st'[0].pc \in {"serve", "acks", "acks-on", "boot", "first", "second", "stale", "any", "done"}
        /\ st'[0].pc \in Owing => st'[0].peer # Observer
    BY <2>1, <2>4 DEF Astray
  <2>7. \A r \in {1, 2} : st'[r].pc \in {"follow", "boot", "once", "done"}
    BY <2>2, <2>3, <2>4 DEF Astray
  <2> QED BY <1>1, <2>4, <2>5, <2>6, <2>7 DEF Astray
<1>4. Misinformed' BY <1>1, <1>2, StillWanted DEF Misled, Misinformed
<1> QED BY <1>1, <1>2, <1>3, <1>4, MisledGoes

\* A letter without a word that matters.
LEMMA Harmless ==
  ASSUME NEW d, NEW k, NEW v, d.body = Msg(k, v), d.from # Observer, d.to # Observer,
         k \notin {"value", "replicate", "uncommitted", "get"}, d.to = Client => k = "ok"
  PROVE  Bland(d)'
BY DEF Bland, Msg

LEMMA MisledLeaves ==
  ASSUME NetOK, Misled, Unreported, NEW n \in Peer, NEW at, Recv(n, at), Stays PROVE Misled'
<1>1. Reads(n, {First(n)}) BY Received
<1>2. posted' = posted /\ st' = st BY <1>1, Stayed
<1>3. Gains({}) BY <1>2 DEF Gains
<1>4. system' = system /\ ops' = ops BY DEF Unreported
<1>5. Astray' /\ Misinformed' BY <1>2, <1>4, StillWanted DEF Misled, Astray, Misinformed
<1> QED BY <1>2, <1>3, <1>4, <1>5, MisledGoes

\* A leader starts to replicate.
LEMMA MisledReplicates ==
  ASSUME NetOK, Misled, Unreported, NEW at, Recv(0, at), NEW v \in Int, NEW ts \in Seq({1, 2}),
         NEW acks \in Int, NEW after \in {"acks", "acks-on", "any"}, Replicate(0, v, ts, acks, after),
         \A k \in DOMAIN ts : ts[k] = 1 => v # Wanted
  PROVE  Misled'
<1>1. 0 \in Peer /\ 1 \in Node /\ 2 \in Node BY Peers
<1>2. From(0) \in Node BY <1>1, Received
<1>3. From(0) # Observer
  <2>1. \E d : Bland(d) /\ d.from = From(0) BY <1>1, Heard
  <2> QED BY <2>1 DEF Bland
<1>4. PICK s : s = [pc |-> after, value |-> v, acks |-> acks, peer |-> From(0)] OBVIOUS
<1>5. s \in State /\ s.pc = after /\ s.peer = From(0)
  <2>1. after \in Pc BY DEF Pc
  <2> QED BY <1>2, <1>4, <2>1 DEF State
<1>6. PICK x : x = Msg("replicate", v) OBVIOUS
<1>7. x \in Message /\ x.kind = "replicate" /\ x.value = v
  <2>1. "replicate" \in Kind BY DEF Kind
  <2> QED BY <1>6, <2>1, Words
<1>8. PICK out : out = [k \in DOMAIN ts |-> <<ts[k], x>>] OBVIOUS
<1>9. DOMAIN ts = 1 .. Len(ts) /\ Len(ts) \in Nat /\ \A k \in DOMAIN ts : ts[k] \in {1, 2}
  BY LenProperties, ElementOfSeq
<1>10. out \in Seq(Node \X Message)
  <2>1. out \in [1 .. Len(ts) -> Node \X Message] BY <1>1, <1>7, <1>8, <1>9
  <2> QED BY <1>9, <2>1, FunctionIsSeq
<1>11. Become(0, s, out) BY <1>4, <1>6, <1>8 DEF Replicate
<1>12. Gains(Letters(0, out)) /\ st'[0] = s /\ \A r \in Peer : r # 0 => st'[r] = st[r]
  BY <1>1, <1>2, <1>5, <1>10, <1>11, Moved
<1>13. Wanted' = Wanted BY StillWanted DEF Unreported
<1>14. ASSUME NEW d \in Letters(0, out) PROVE Bland(d)'
  <2>1. PICK k \in DOMAIN out : d = [from |-> 0, to |-> out[k][1], body |-> out[k][2]]
    BY DEF Letters
  <2>2. k \in DOMAIN ts /\ out[k] = <<ts[k], x>> BY <1>8, <2>1
  <2>3. d.from = 0 /\ d.to = ts[k] /\ d.body = x BY <2>1, <2>2
  <2>4. d.to \in {1, 2} /\ (d.to = 1 => v # Wanted) BY <1>9, <2>2, <2>3
  <2>5. d.to # Observer /\ d.to # Client /\ d.from # Observer BY <2>3, <2>4, Peers
  <2> QED BY <1>7, <1>13, <2>3, <2>4, <2>5 DEF Bland
<1> QED BY <1>3, <1>5, <1>12, <1>14, ReplicaMisled

LEMMA PrimaryMisled ==
  ASSUME NetOK, Misled, Bug \in Misleading, system.proto = "kv",
         Bug = "AckBeforeReplicate" => <<0, 1>> \in system.cut, Primary
  PROVE  Misled'
<1>1. Recv(0, "serve") /\ Unreported /\ 0 \in Peer /\ 0 \in Node /\ 1 \in Node /\ 2 \in Node
  BY Peers DEF Primary
<1>2. From(0) \in Node /\ Body(0).value \in Int BY <1>1, Received
<1>3. PICK v : v = Body(0).value OBVIOUS
<1>4. CASE Replicates(v) /\ Replicate(0, v, Targets(v), Len(Targets(v)), After(v))
  <2>1. PICK ts, after : ts = Targets(v) /\ after = After(v) OBVIOUS
  <2>2. after \in {"acks", "acks-on"} BY <2>1 DEF After
  <2>3. ts = IF Bug = "LostUpdate" /\ v = 7 THEN <<1>> ELSE <<2>>
    BY <2>1 DEF Targets, Misleading, Visible
  <2>4. ts \in Seq({1, 2}) /\ Len(ts) \in Int
    <3>1. <<1>> \in Seq({1, 2}) /\ Len(<<1>>) \in Int OBVIOUS
    <3>2. <<2>> \in Seq({1, 2}) /\ Len(<<2>>) \in Int OBVIOUS
    <3> QED BY <2>3, <3>1, <3>2
  <2>5. \A k \in DOMAIN ts : ts[k] = 1 => v # Wanted
    <3>1. CASE Bug = "LostUpdate" /\ v = 7 BY <3>1 DEF Wanted
    <3>2. CASE ~(Bug = "LostUpdate" /\ v = 7)
      <4>1. ts = <<2>> BY <2>3, <3>2
      <4>2. \A k \in DOMAIN ts : ts[k] = 2 BY <4>1
      <4> QED BY <4>2
    <3> QED BY <3>1, <3>2
  <2>6. PICK acks \in Int : acks = Len(ts) BY <2>4
  <2>7. Replicate(0, v, ts, acks, after) BY <1>4, <2>1, <2>6
  <2>8. v \in Int /\ after \in {"acks", "acks-on", "any"} BY <1>2, <1>3, <2>2
  <2> QED BY <1>1, <2>4, <2>5, <2>7, <2>8, MisledReplicates
<1>5. CASE /\ Bug = "AckBeforeReplicate"
           /\ Become(0, At(0, "done"),
                     <<<<1, Msg("replicate", 7)>>, <<2, Msg("replicate", 7)>>, <<From(0), Plain("ok")>>>>)
  <2>1. PICK x, y, z : x = Msg("replicate", 7) /\ y = Plain("ok") /\ z = From(0) OBVIOUS
  <2>2. /\ x \in Message /\ x.kind = "replicate" /\ x.value = 7 /\ y \in Message /\ y = Msg("ok", None)
        /\ z \in Node
    <3>1. "replicate" \in Kind /\ "ok" \in Kind /\ 7 \in Int BY DEF Kind
    <3> QED BY <1>2, <2>1, <3>1, Words
  <2>3. PICK out : out = <<<<1, x>>, <<2, x>>, <<z, y>>>> OBVIOUS
  <2>4. out \in Seq(Node \X Message) BY <1>1, <2>2, <2>3, Lists
  <2>5. At(0, "done") \in State /\ At(0, "done").pc = "done" /\ "done" \notin Owing
    <3>1. "done" \in Pc BY DEF Pc
    <3> QED BY <1>1, <3>1, Stands DEF NetOK, Owing
  <2>6. PICK s \in State : s = At(0, "done") /\ s.pc = "done" BY <2>5
  <2>7. Become(0, s, out) BY <1>5, <2>1, <2>3, <2>6
  <2>8. Gains(Letters(0, out)) /\ st'[0] = s /\ \A r \in Peer : r # 0 => st'[r] = st[r]
    BY <1>1, <2>4, <2>5, <2>6, <2>7, Moved
  <2>9. z # Observer
    <3>1. \E d : Bland(d) /\ d.from = From(0) BY <1>1, Heard
    <3> QED BY <2>1, <3>1 DEF Bland
  <2>10. ASSUME NEW d \in Letters(0, out) PROVE Bland(d)'
    <3>1. PICK n, a, b : n = 0 /\ a = 1 /\ b = 2 OBVIOUS
    <3>2. Listed(out, a, x, b, x, z, y) BY <2>3, <3>1, ListedThree
    <3>6. /\ d.from = n
          /\ (d.to = a /\ d.body = x) \/ (d.to = b /\ d.body = x) \/ (d.to = z /\ d.body = y)
      BY <2>10, <3>1, <3>2, LetterListed
    <3>7. (d.to \in {1, 2} /\ d.body = x) \/ (d.to = z /\ d.body = y) BY <3>1, <3>6
    <3>3. d.from = 0 BY <3>1, <3>6
    <3>4. CASE d.to \in {1, 2} /\ d.body = x
      <4>1. d.to # Observer /\ d.to # Client /\ d.from # Observer BY <3>3, <3>4, Peers
      <4>2. <<0, 1>> \in system'.cut BY <1>1, <1>5 DEF Unreported
      <4> QED BY <2>2, <3>3, <3>4, <4>1, <4>2 DEF Bland
    <3>5. CASE d.to = z /\ d.body = y
      <4>1. d.from # Observer BY <3>3, Peers
      <4> QED BY <2>2, <2>9, <3>5, <4>1, Harmless
    <3> QED BY <3>4, <3>5, <3>7
  <2> QED BY <1>1, <2>5, <2>6, <2>8, <2>10, ReplicaMisled
<1>6. ~(Bug = "FollowerAppliesUncommitted") BY DEF Misleading, Visible
<1>7. CASE Ignore(0, {"put"})
  <2>1. Stays BY <1>7 DEF Ignore, Stays
  <2> QED BY <1>1, <2>1, MisledLeaves
<1> QED BY <1>3, <1>4, <1>5, <1>6, <1>7 DEF Primary

LEMMA AwaitMisled ==
  ASSUME NetOK, Misled, NEW pc \in {"acks", "acks-on"}, NEW after \in {"done", "serve"},
         AwaitAck(0, pc, after)
  PROVE  Misled'
<1>1. Recv(0, pc) /\ Unreported /\ 0 \in Peer BY Peers DEF AwaitAck, Ignore
<1>2. st[0] \in State /\ st[0].pc = pc /\ st[0].peer \in Node /\ st[0].peer # Observer
  <2>1. st[0].pc \in Owing BY <1>1 DEF Recv, Owing
  <2> QED BY <1>1, <2>1 DEF NetOK, ClusterType, Misled, Astray, Recv
<1>3. CASE Become(0, [At(0, after) EXCEPT !.acks = 0], <<<<st[0].peer, Plain("ok")>>>>)
  <2>1. after \in Pc /\ after \notin Owing BY DEF Pc, Owing
  <2>2. PICK s : s = [At(0, after) EXCEPT !.acks = 0] OBVIOUS
  <2>3. s \in State /\ s.pc = after
    <3>1. At(0, after) \in State /\ At(0, after).pc = after BY <1>1, <2>1, Stands DEF NetOK
    <3> QED BY <2>2, <3>1 DEF State
  <2>4. PICK x, z : x = Plain("ok") /\ z = st[0].peer OBVIOUS
  <2>5. x \in Message /\ x = Msg("ok", None) /\ z \in Node /\ z # Observer
    <3>1. "ok" \in Kind /\ 7 \in Int BY DEF Kind
    <3> QED BY <1>2, <2>4, <3>1, Words
  <2>6. PICK out : out = <<<<z, x>>>> OBVIOUS
  <2>7. out \in Seq(Node \X Message) BY <2>5, <2>6, Lists
  <2>8. Become(0, s, out) BY <1>3, <2>2, <2>4, <2>6
  <2>9. Gains(Letters(0, out)) /\ st'[0] = s /\ \A r \in Peer : r # 0 => st'[r] = st[r]
    BY <1>1, <2>1, <2>3, <2>7, <2>8, Moved
  <2>10. ASSUME NEW d \in Letters(0, out) PROVE Bland(d)'
    <3>1. PICK n : n = 0 OBVIOUS
    <3>2. d \in Letters(n, out) BY <2>10, <3>1
    <3>4. d.from = n /\ d.to = z /\ d.body = x BY <2>6, <3>2, LetterOne
    <3>3. d.from # Observer /\ d.to = z /\ d.body = x BY <3>1, <3>4, Peers
    <3> QED BY <2>5, <3>3, Harmless
  <2> QED BY <1>1, <2>1, <2>3, <2>9, <2>10, ReplicaMisled
<1>4. CASE Become(0, [st[0] EXCEPT !.acks = @ - 1], <<>>)
  <2>1. PICK s : s = [st[0] EXCEPT !.acks = @ - 1] OBVIOUS
  <2>2. s \in State /\ s.pc = pc /\ s.peer = st[0].peer BY <1>2, <2>1 DEF State
  <2>3. PICK out : out = <<>> OBVIOUS
  <2>4. out \in Seq(Node \X Message) /\ Become(0, s, out) BY <1>4, <2>1, <2>3
  <2>5. Gains(Letters(0, out)) /\ st'[0] = s /\ \A r \in Peer : r # 0 => st'[r] = st[r]
    BY <1>1, <1>2, <2>2, <2>4, Moved
  <2>6. Letters(0, out) = {} BY <2>3, LetterNone
  <2> QED BY <1>1, <1>2, <2>2, <2>5, <2>6, ReplicaMisled
<1>5. CASE Ignore(0, {"ack"})
  <2>1. Stays BY <1>5 DEF Ignore, Stays
  <2> QED BY <1>1, <2>1, MisledLeaves
<1> QED BY <1>3, <1>4, <1>5 DEF AwaitAck

LEMMA FollowerMisled ==
  ASSUME NetOK, Apart, Misled, NEW n \in {1, 2}, Follower(n) PROVE Misled'
<1>1. Recv(n, "follow") /\ Unreported /\ n \in Peer /\ n # 0 /\ n # Observer /\ n # Client
  BY Peers DEF Follower, Ignore
<1>2. /\ st[n] \in State /\ st[n].pc = "follow" /\ st[n].value \in Int
      /\ From(n) \in Node /\ Body(n).value \in Int
  BY <1>1, Received DEF NetOK, ClusterType, State
<1>3. PICK f : Bland(f) /\ f.from = From(n) /\ f.to = n /\ f.body = Body(n) BY <1>1, Heard
<1>4. PICK z : z = From(n) OBVIOUS
<1>5. z \in Node /\ z # Observer BY <1>2, <1>3, <1>4 DEF Bland
<1>6. Wanted' = Wanted /\ system' = system BY <1>1, StillWanted DEF Unreported
<1>7. ASSUME NEW s \in State, NEW out \in Seq(Node \X Message), Become(n, s, out),
             s.pc \in {"follow", "done"}, n = 1 => s.value # Wanted,
             \A d \in Letters(n, out) : Bland(d)'
      PROVE  Misled'
  <2>1. Gains(Letters(n, out)) /\ st'[n] = s /\ \A r \in Peer : r # n => st'[r] = st[r]
    BY <1>1, <1>7, Moved
  <2> QED BY <1>1, <1>7, <2>1, ReplicaMisled
<1>8. n = 1 => st[n].value # Wanted BY DEF Misled, Astray
<1>9. PICK e \in State : e = At(n, "done") /\ e.pc = "done" /\ e.value = st[n].value
  <2>1. "done" \in Pc BY DEF Pc
  <2> QED BY <1>1, <2>1, Stands DEF NetOK
<1>10. CASE Body(n).kind = "replicate"
            /\ Become(n, [st[n] EXCEPT !.value = Body(n).value], <<<<From(n), Plain("ack")>>>>)
  <2>1. PICK s : s = [st[n] EXCEPT !.value = Body(n).value] OBVIOUS
  <2>2. s \in State /\ s.pc = "follow" /\ s.value = Body(n).value BY <1>2, <2>1 DEF State
  <2>3. z = 0 BY <1>3, <1>4, <1>10 DEF Bland
  <2>4. n = 1 => s.value # Wanted
    <3>1. <<z, n>> \notin system.cut BY <1>1, <1>4, Reached
    <3> QED BY <1>3, <1>10, <2>2, <2>3, <3>1 DEF Bland
  <2>5. PICK x : x = Plain("ack") OBVIOUS
  <2>6. x \in Message /\ x = Msg("ack", None)
    <3>1. "ack" \in Kind /\ 7 \in Int BY DEF Kind
    <3> QED BY <2>5, <3>1, Words
  <2>7. PICK out : out = <<<<z, x>>>> OBVIOUS
  <2>8. out \in Seq(Node \X Message) BY <1>5, <2>6, <2>7, Lists
  <2>9. Become(n, s, out) BY <1>4, <1>10, <2>1, <2>5, <2>7
  <2>10. ASSUME NEW d \in Letters(n, out) PROVE Bland(d)'
    <3>1. d.from = n /\ d.to = z /\ d.body = x BY <2>7, LetterOne
    <3>2. d.to # Client /\ d.to # Observer BY <2>3, <3>1, Peers
    <3>3. d.from # Observer BY <1>1, <3>1
    <3> QED BY <2>6, <3>1, <3>2, <3>3, Harmless
  <2> QED BY <1>7, <2>2, <2>4, <2>8, <2>9, <2>10
<1>11. Body(n).kind # "uncommitted" BY <1>3 DEF Bland
<1>12. CASE Body(n).kind = "get"
            /\ Become(n, At(n, "done"), <<<<From(n), Msg("value", st[n].value)>>>>)
  <2>1. n = 1 /\ st[Client].pc \in {"got", "done"} BY <1>3, <1>12 DEF Bland
  <2>2. PICK v : v = st[n].value OBVIOUS
  <2>3. PICK x : x = Msg("value", v) OBVIOUS
  <2>4. x \in Message /\ x.kind = "value" /\ x.value = v
    <3>1. "value" \in Kind /\ v \in Int BY <1>2, <2>2 DEF Kind
    <3> QED BY <2>3, <3>1, Words
  <2>5. PICK out : out = <<<<z, x>>>> OBVIOUS
  <2>6. out \in Seq(Node \X Message) BY <1>5, <2>4, <2>5, Lists
  <2>7. Become(n, e, out) BY <1>4, <1>9, <1>12, <2>2, <2>3, <2>5
  <2>8. st'[Client].pc \in {"got", "done"}
    <3>1. \A r \in Peer : r # n => st'[r] = st[r] BY <1>1, <2>6, <2>7, Moved
    <3> QED BY <1>1, <2>1, <3>1, Peers
  <2>9. ASSUME NEW d \in Letters(n, out) PROVE Bland(d)'
    <3>1. d.from = n /\ d.to = z /\ d.body = x BY <2>5, LetterOne
    <3> QED BY <1>1, <1>5, <1>6, <1>8, <2>1, <2>2, <2>4, <2>8, <3>1 DEF Bland
  <2> QED BY <1>7, <1>8, <1>9, <2>6, <2>7, <2>9
<1>13. CASE Become(n, At(n, "done"), <<>>)
  <2>1. PICK out : out = <<>> OBVIOUS
  <2>2. out \in Seq(Node \X Message) /\ Become(n, e, out) BY <1>9, <1>13, <2>1
  <2>3. Letters(n, out) = {} BY <2>1, LetterNone
  <2> QED BY <1>7, <1>8, <1>9, <2>2, <2>3
<1>14. CASE Ignore(n, {"replicate", "uncommitted", "get", "stop"})
  <2>1. Stays BY <1>14 DEF Ignore, Stays
  <2> QED BY <1>1, <2>1, MisledLeaves
<1> QED BY <1>10, <1>11, <1>12, <1>13, <1>14 DEF Follower

\* The client goes on: what it sends is a put to node 0, a get to node 0 or 1, or a stop.
LEMMA ClientMisled ==
  ASSUME NetOK, Misled, system' = system, NEW pc \in {"put7", "put9", "put", "got", "done"},
         NEW out \in Seq(Node \X Message), Become(Client, At(Client, pc), out),
         box' = box \/ \E at : Recv(Client, at),
         st[Client].pc \in {"got", "done"} => pc = "done",
         \A d \in Letters(Client, out) :
           \/ d.to = 0 /\ d.body.kind = "put"
           \/ pc = "got" /\ d.to \in {0, 1} /\ d.body.kind = "get"
           \/ d.to \in {1, 2} /\ d.body.kind = "stop",
         pc \in {"put7", "put"} => ops' = <<>>,
         pc = "put9" => Bug = "LostUpdate" /\ ops' = <<PutOp>>,
         pc = "got" => ops' = AllPuts,
         pc = "done" => \E v : v # Wanted /\ ops' = Append(AllPuts, Found(v))
  PROVE  Misled'
<1>1. Client \in Peer /\ Client # 0 /\ Client # 1 /\ Client # 2 /\ Client # Observer
      /\ {0, 1, 2} \subseteq Peer /\ Observer \notin {0, 1, 2}
  BY Peers
<1>2. pc \in Pc BY DEF Pc
<1>3. PICK s \in State : s = At(Client, pc) /\ s.pc = pc BY <1>1, <1>2, Stands DEF NetOK
<1>4. Become(Client, s, out) BY <1>3
<1>5. /\ Gains(Letters(Client, out)) /\ st'[Client] = s
      /\ \A r \in Peer : r # Client => st'[r] = st[r]
  BY <1>1, <1>4, Moved
<1>6. st'[Client].pc = pc /\ \A r \in {0, 1, 2} : st'[r] = st[r] BY <1>1, <1>3, <1>5
<1>7. Wanted' = Wanted /\ AllPuts' = AllPuts /\ Bug' = Bug BY StillWanted
<1>8. Astray' BY <1>6, <1>7 DEF Misled, Astray
<1>9. Misinformed' BY <1>6, <1>7 DEF Misinformed
<1>10. ASSUME NEW d \in Letters(Client, out) PROVE Bland(d)'
  <2>1. d.from = Client BY DEF Letters
  <2>2. d.to \in {0, 1, 2} /\ d.body.kind \in {"put", "get", "stop"}
        /\ (d.body.kind = "get" => pc = "got" /\ d.to # 2)
    OBVIOUS
  <2> QED BY <1>1, <1>6, <2>1, <2>2 DEF Bland
<1> QED BY <1>5, <1>6, <1>8, <1>9, <1>10, MisledGoes

LEMMA CallMisled ==
  ASSUME NetOK, Misled, system' = system, NEW pc \in {"put7", "put9", "put", "got"},
         NEW to \in {0, 1}, NEW k \in {"put", "get"}, NEW v \in Int, Call(to, Msg(k, v), pc),
         box' = box \/ \E at : Recv(Client, at),
         st[Client].pc \notin {"got", "done"},
         k = "put" => to = 0, k = "get" => pc = "got",
         pc \in {"put7", "put"} => ops' = <<>>,
         pc = "put9" => Bug = "LostUpdate" /\ ops' = <<PutOp>>,
         pc = "got" => ops' = AllPuts
  PROVE  Misled'
<1>1. PICK x : x = Msg(k, v) OBVIOUS
<1>2. x \in Message /\ x.kind = k
  <2>1. k \in Kind BY DEF Kind
  <2> QED BY <1>1, <2>1, Words
<1>3. PICK out : out = <<<<to, x>>>> OBVIOUS
<1>4. out \in Seq(Node \X Message)
  <2>1. to \in Node BY Peers
  <2> QED BY <1>2, <1>3, <2>1, Lists
<1>5. Become(Client, At(Client, pc), out) BY <1>1, <1>3 DEF Call
<1>6. ASSUME NEW d \in Letters(Client, out)
      PROVE  (d.to = 0 /\ d.body.kind = "put") \/ (pc = "got" /\ d.to \in {0, 1} /\ d.body.kind = "get")
  <2>1. d.to = to /\ d.body = x BY <1>3, LetterOne
  <2> QED BY <1>2, <2>1
<1>7. pc # "done" OBVIOUS
<1> QED BY <1>4, <1>5, <1>6, <1>7, ClientMisled

\* An answer to a put is an ok: nothing else reaches the client before it reads.
LEMMA AnswerIsOk ==
  ASSUME NetOK, Misled, NEW at, Recv(Client, at), st[Client].pc \notin {"got", "done"},
         NEW v, PutAnswered(v)
  PROVE  ops' = Append(ops, [op |-> "put", value |-> v]) /\ system' = system
<1>1. Client \in Peer BY Peers
<1>2. PICK f : Bland(f) /\ f.to = Client /\ f.body = Body(Client) BY <1>1, Heard
<1>3. Body(Client).kind = "ok" BY <1>2 DEF Bland
<1> QED BY <1>3 DEF PutAnswered, Report

LEMMA KvPutMisled == ASSUME NetOK, Misled, SingleKeyPut PROVE Misled'
<1>1. Plain("get") = Msg("get", None) /\ None \in Int BY DEF Plain, None
<1>2. CASE Recv(Client, "put7") /\ PutAnswered(7)
           /\ IF Bug = "LostUpdate" THEN Call(0, Msg("put", 9), "put9")
              ELSE Call(1, Plain("get"), "got")
  <2>1. st[Client].pc = "put7" BY <1>2 DEF Recv
  <2>2. ops' = <<PutOp>> /\ system' = system
    <3>1. ops = <<>> BY <2>1 DEF Misled, Misinformed
    <3>2. ops' = Append(ops, PutOp) /\ system' = system BY <1>2, <2>1, AnswerIsOk DEF PutOp
    <3> QED BY <3>1, <3>2
  <2>3. CASE Bug = "LostUpdate" BY <1>2, <2>1, <2>2, <2>3, CallMisled
  <2>4. CASE Bug # "LostUpdate"
    <3>1. ops' = AllPuts BY <2>2, <2>4 DEF AllPuts
    <3>2. Call(1, Msg("get", None), "got") BY <1>1, <1>2, <2>4
    <3> QED BY <1>1, <1>2, <2>1, <2>2, <3>1, <3>2, CallMisled
  <2> QED BY <2>3, <2>4
<1>3. CASE Recv(Client, "put9") /\ PutAnswered(9) /\ Call(1, Plain("get"), "got")
  <2>1. st[Client].pc = "put9" BY <1>3 DEF Recv
  <2>2. ops' = AllPuts /\ system' = system
    <3>1. ops = <<PutOp>> /\ Bug = "LostUpdate" BY <2>1 DEF Misled, Misinformed
    <3>2. ops' = Append(ops, LastPut) /\ system' = system BY <1>3, <2>1, AnswerIsOk DEF LastPut
    <3>3. Append(<<PutOp>>, LastPut) = <<PutOp, LastPut>> BY TwoOf
    <3>4. AllPuts = <<PutOp, LastPut>> BY <3>1 DEF AllPuts
    <3> QED BY <3>1, <3>2, <3>3, <3>4, Zenon
  <2>3. Call(1, Msg("get", None), "got") BY <1>1, <1>3
  <2> QED BY <1>1, <1>3, <2>1, <2>2, <2>3, CallMisled
<1> QED BY <1>2, <1>3 DEF SingleKeyPut

\* The client reads: what it is told is not the last value it put.
LEMMA ReadsAmiss ==
  ASSUME NetOK, Misled, NEW at, Recv(Client, at) PROVE Parsed(Body(Client)) # Wanted
<1>1. Client \in Peer BY Peers
<1>2. PICK f : Bland(f) /\ f.body = Body(Client) BY <1>1, Heard
<1>3. None # Wanted BY DEF None, Wanted
<1> QED BY <1>2, <1>3 DEF Bland, Parsed

LEMMA KvGetMisled == ASSUME NetOK, Misled, SingleKeyGet PROVE Misled'
<1>1. 1 \in Node /\ 2 \in Node BY Peers
<1>2. PICK x : x = Plain("stop") OBVIOUS
<1>3. x \in Message /\ x.kind = "stop"
  <2>1. "stop" \in Kind /\ 7 \in Int BY DEF Kind
  <2> QED BY <1>2, <2>1, Words
<1>4. PICK out : out = <<<<1, x>>, <<2, x>>>> OBVIOUS
<1>5. out \in Seq(Node \X Message) BY <1>1, <1>3, <1>4, Lists
<1>6. /\ Recv(Client, "got") /\ Become(Client, At(Client, "done"), out) /\ system' = system
      /\ ops' = Append(ops, Found(Parsed(Body(Client))))
  BY <1>2, <1>4 DEF SingleKeyGet, Report, Found
<1>7. st[Client].pc = "got" BY <1>6 DEF Recv
<1>8. ops = AllPuts BY <1>7 DEF Misled, Misinformed
<1>9. PICK v : v = Parsed(Body(Client)) OBVIOUS
<1>10. v # Wanted /\ ops' = Append(AllPuts, Found(v)) BY <1>6, <1>8, <1>9, ReadsAmiss
<1>11. ASSUME NEW d \in Letters(Client, out) PROVE d.to \in {1, 2} /\ d.body.kind = "stop"
  <2>1. PICK a, b : a = 1 /\ b = 2 OBVIOUS
  <2>2. Listed(out, a, x, b, x, b, x) BY <1>4, <2>1, ListedTwo
  <2>3. (d.to = a /\ d.body = x) \/ (d.to = b /\ d.body = x) BY <2>2, LetterListed
  <2> QED BY <1>3, <2>1, <2>3
<1>12. PICK pc : pc = "done" OBVIOUS
<1>13. pc \in {"put7", "put9", "put", "got", "done"} /\ Become(Client, At(Client, pc), out)
  BY <1>6, <1>12
<1> QED BY <1>5, <1>6, <1>10, <1>11, <1>12, <1>13, ClientMisled

\* A replica without a debt goes on, and what it sends is bland.
LEMMA GoesMisled ==
  ASSUME NetOK, Misled, Unreported, NEW n \in {0, 1, 2}, NEW s \in State, NEW out \in Seq(Node \X Message),
         Become(n, s, out), box' = box \/ \E at : Recv(n, at),
         n = 0 => s.pc \in {"serve", "first", "second", "stale", "done"},
         n # 0 => s.pc \in {"follow", "once", "done"},
         n = 1 => s.value # Wanted,
         \A d \in Letters(n, out) : Bland(d)'
  PROVE  Misled'
<1>1. n \in Peer BY Peers
<1>2. s.pc \notin Owing BY DEF Owing
<1>3. Gains(Letters(n, out)) /\ st'[n] = s /\ \A r \in Peer : r # n => st'[r] = st[r]
  BY <1>1, <1>2, Moved
<1> QED BY <1>1, <1>2, <1>3, ReplicaMisled

LEMMA FarewellSays ==
  ASSUME NEW n, NEW to, NEW v, NEW d \in Letters(n, Farewell(to, v))
  PROVE  /\ d.from = n
         /\ \/ d.to = to /\ d.body = Msg("value", v)
            \/ d.to \in {1, 2} /\ d.body = Plain("stop")
<1>1. PICK a, b, x, y : a = 1 /\ b = 2 /\ x = Msg("value", v) /\ y = Plain("stop") OBVIOUS
<1>2. PICK out : out = <<<<to, x>>, <<a, y>>, <<b, y>>>> OBVIOUS
<1>3. out = Farewell(to, v) BY <1>1, <1>2 DEF Farewell
<1>4. d \in Letters(n, out) BY <1>3
<1>5. Listed(out, to, x, a, y, b, y) BY <1>2, ListedThree
<1>6. d.from = n /\ ((d.to = to /\ d.body = x) \/ (d.to = a /\ d.body = y) \/ (d.to = b /\ d.body = y))
  BY <1>4, <1>5, LetterListed
<1> QED BY <1>1, <1>6

LEMMA VisibleMisled == ASSUME NetOK, Misled, VisibleBugLeader PROVE Misled'
<1>1. Unreported /\ 0 \in Peer /\ 0 \in {0, 1, 2} BY Peers DEF VisibleBugLeader
<1>2. /\ "ok" \in Kind /\ 7 \in Int /\ {"second", "done"} \subseteq Pc BY DEF Kind, Pc
<1>3. ASSUME NEW at, Recv(0, at)
      PROVE  /\ From(0) \in Node /\ From(0) # Observer
             /\ \E d : Bland(d) /\ d.from = From(0) /\ d.body = Body(0)
  <2>1. From(0) \in Node BY <1>1, <1>3, Received
  <2>2. \E d : Bland(d) /\ d.from = From(0) /\ d.body = Body(0) BY <1>1, <1>3, Heard
  <2> QED BY <2>1, <2>2 DEF Bland
<1>4. CASE /\ Recv(0, "first")
           /\ Become(0, At(0, "second"),
                     IF Body(0).kind = "put" THEN <<<<From(0), Plain("ok")>>>> ELSE <<>>)
  <2>1. PICK s \in State : s = At(0, "second") /\ s.pc = "second" BY <1>1, <1>2, Stands DEF NetOK
  <2>2. PICK x, z : x = Plain("ok") /\ z = From(0) OBVIOUS
  <2>3. x \in Message /\ x = Msg("ok", None) /\ z \in Node /\ z # Observer
    BY <1>2, <1>3, <1>4, <2>2, Words
  <2>4. PICK out : out = (IF Body(0).kind = "put" THEN <<<<z, x>>>> ELSE <<>>) OBVIOUS
  <2>5. out \in Seq(Node \X Message)
    <3>1. <<<<z, x>>>> \in Seq(Node \X Message) /\ <<>> \in Seq(Node \X Message) BY <2>3, Lists
    <3> QED BY <2>4, <3>1
  <2>6. Become(0, s, out) BY <1>4, <2>1, <2>2, <2>4
  <2>7. ASSUME NEW d \in Letters(0, out) PROVE Bland(d)'
    <3>1. out # <<>>
      <4>1. Letters(0, <<>>) = {} BY LetterNone
      <4> QED BY <2>7, <4>1
    <3>2. PICK n : n = 0 OBVIOUS
    <3>3. out = <<<<z, x>>>> BY <2>4, <3>1
    <3>4. d.from = n /\ d.to = z /\ d.body = x BY <2>7, <3>2, <3>3, LetterOne
    <3>5. d.from # Observer BY <3>2, <3>4, Peers
    <3> QED BY <2>3, <3>4, <3>5, Harmless
  <2> QED BY <1>1, <1>4, <2>1, <2>5, <2>6, <2>7, GoesMisled
<1>5. CASE /\ Recv(0, "second")
           /\ Become(0, At(0, "done"), IF Body(0).kind = "get" THEN Farewell(From(0), None) ELSE <<>>)
  <2>1. PICK s \in State : s = At(0, "done") /\ s.pc = "done" BY <1>1, <1>2, Stands DEF NetOK
  <2>2. PICK z : z = From(0) OBVIOUS
  <2>3. z \in Node /\ z # Observer BY <1>3, <1>5, <2>2
  <2>4. PICK out : out = (IF Body(0).kind = "get" THEN Farewell(z, None) ELSE <<>>) OBVIOUS
  <2>5. out \in Seq(Node \X Message)
    <3>1. None \in Int BY DEF None
    <3>2. Farewell(z, None) \in Seq(Node \X Message) BY <2>3, <3>1, Farewells
    <3>3. <<>> \in Seq(Node \X Message) OBVIOUS
    <3> QED BY <2>4, <3>2, <3>3
  <2>6. Become(0, s, out) BY <1>5, <2>1, <2>2, <2>4
  <2>7. ASSUME NEW d \in Letters(0, out) PROVE Bland(d)'
    <3>1. out # <<>>
      <4>1. Letters(0, <<>>) = {} BY LetterNone
      <4> QED BY <2>7, <4>1
    <3>2. out = Farewell(z, None) /\ Body(0).kind = "get" BY <2>4, <3>1
    <3>3. /\ d.from = 0
          /\ (d.to = z /\ d.body = Msg("value", None)) \/ (d.to \in {1, 2} /\ d.body = Plain("stop"))
      BY <2>7, <3>2, FarewellSays
    <3>4. CASE d.to \in {1, 2} /\ d.body = Plain("stop")
      <4>1. d.to # Observer /\ d.to # Client /\ d.from # Observer BY <3>3, <3>4, Peers
      <4>2. d.body = Msg("stop", None) BY <3>4 DEF Plain
      <4> QED BY <4>1, <4>2, Harmless
    <3>5. CASE d.to = z /\ d.body = Msg("value", None)
      <4>1. st[Client].pc \in {"got", "done"} BY <1>3, <1>5, <3>2 DEF Bland
      <4>2. st'[Client] = st[Client]
        <5>1. \A r \in Peer : r # 0 => st'[r] = st[r] BY <1>1, <1>5, <2>1, <2>5, <2>6, Moved DEF Owing
        <5> QED BY <5>1, Peers
      <4>3. d.body.kind = "value" /\ d.body.value = None BY <3>5 DEF Msg
      <4>4. None # Wanted' /\ 0 # Observer BY Peers DEF Wanted, None
      <4> QED BY <2>3, <3>3, <3>5, <4>1, <4>2, <4>3, <4>4 DEF Bland
    <3> QED BY <3>3, <3>4, <3>5
  <2> QED BY <1>1, <1>5, <2>1, <2>5, <2>6, <2>7, GoesMisled
<1> QED BY <1>4, <1>5 DEF VisibleBugLeader

LEMMA StaleMisled == ASSUME NetOK, Misled, StaleReadLeader PROVE Misled'
<1>1. Unreported /\ 0 \in Peer /\ 0 \in {0, 1, 2} BY Peers DEF StaleReadLeader
<1>2. PICK s \in State : s = At(0, "done") /\ s.pc = "done"
  <2>1. "done" \in Pc BY DEF Pc
  <2> QED BY <1>1, <2>1, Stands DEF NetOK
<1>3. CASE Recv(0, "stale") /\ Replicate(0, 7, <<2>>, 1, "any")
  <2>1. PICK ts, after, v, acks : ts = <<2>> /\ after = "any" /\ v = 7 /\ acks = 1 OBVIOUS
  <2>2. ts \in Seq({1, 2}) /\ \A k \in DOMAIN ts : ts[k] # 1
    <3>1. <<2>> \in Seq({1, 2}) OBVIOUS
    <3>2. \A k \in DOMAIN ts : ts[k] = 2 BY <2>1
    <3> QED BY <2>1, <3>1, <3>2
  <2>3. Replicate(0, v, ts, acks, after) BY <1>3, <2>1
  <2>4. v \in Int /\ acks \in Int /\ after \in {"acks", "acks-on", "any"} BY <2>1
  <2> QED BY <1>1, <1>3, <2>2, <2>3, <2>4, MisledReplicates
<1>4. CASE Recv(0, "stale") /\ Become(0, At(0, "done"), <<>>)
  <2>1. PICK out : out = <<>> OBVIOUS
  <2>2. out \in Seq(Node \X Message) /\ Become(0, s, out) BY <1>2, <1>4, <2>1
  <2>3. Letters(0, out) = {} BY <2>1, LetterNone
  <2> QED BY <1>1, <1>2, <1>4, <2>2, <2>3, GoesMisled
<1>5. CASE Recv(0, "any") /\ Become(0, At(0, "done"), <<<<st[0].peer, Plain("ok")>>>>)
  <2>1. st[0].peer \in Node /\ st[0].peer # Observer
    <3>1. st[0].pc \in Owing BY <1>5 DEF Recv, Owing
    <3> QED BY <3>1 DEF NetOK, ClusterType, Misled, Astray
  <2>2. PICK x, z : x = Plain("ok") /\ z = st[0].peer OBVIOUS
  <2>3. x \in Message /\ x = Msg("ok", None)
    <3>1. "ok" \in Kind /\ 7 \in Int BY DEF Kind
    <3> QED BY <2>2, <3>1, Words
  <2>4. PICK out : out = <<<<z, x>>>> OBVIOUS
  <2>5. out \in Seq(Node \X Message) BY <2>1, <2>2, <2>3, <2>4, Lists
  <2>6. Become(0, s, out) BY <1>2, <1>5, <2>2, <2>4
  <2>7. ASSUME NEW d \in Letters(0, out) PROVE Bland(d)'
    <3>1. PICK n : n = 0 OBVIOUS
    <3>2. d.from = n /\ d.to = z /\ d.body = x BY <2>4, <2>7, <3>1, LetterOne
    <3>3. d.from # Observer BY <3>1, <3>2, Peers
    <3> QED BY <2>1, <2>2, <2>3, <3>2, <3>3, Harmless
  <2> QED BY <1>1, <1>2, <1>5, <2>5, <2>6, <2>7, GoesMisled
<1> QED BY <1>3, <1>4, <1>5 DEF StaleReadLeader

LEMMA OneShotMisled == ASSUME NetOK, Misled, NEW n \in {1, 2}, OneShot(n) PROVE Misled'
<1>1. Recv(n, "once") /\ Unreported /\ n \in Peer /\ n \in {0, 1, 2} /\ n # 0 BY Peers DEF OneShot
<1>2. PICK s \in State : s = At(n, "done") /\ s.pc = "done" /\ s.value = st[n].value
  <2>1. "done" \in Pc BY DEF Pc
  <2> QED BY <1>1, <2>1, Stands DEF NetOK
<1>3. PICK z : z = From(n) OBVIOUS
<1>4. PICK f : Bland(f) /\ f.from = z /\ f.to = n /\ f.body = Body(n) BY <1>1, <1>3, Heard
<1>5. z \in Node /\ z # Observer BY <1>1, <1>3, <1>4, Received DEF Bland
<1>6. PICK x, y : x = Msg("value", None) /\ y = Plain("ack") OBVIOUS
<1>7. x \in Message /\ x.kind = "value" /\ x.value = None /\ y \in Message /\ y = Msg("ack", None)
  <2>1. "ack" \in Kind /\ "value" \in Kind /\ None \in Int BY DEF Kind, None
  <2> QED BY <1>6, <2>1, Words
<1>8. PICK out :
        /\ Become(n, s, out)
        /\ \/ out = <<>>
           \/ out = <<<<z, x>>>> /\ Body(n).kind = "get"
           \/ out = <<<<z, y>>>> /\ Body(n).kind = "replicate"
  BY <1>2, <1>3, <1>6 DEF OneShot
<1>9. out \in Seq(Node \X Message)
  <2>1. <<>> \in Seq(Node \X Message) OBVIOUS
  <2>2. <<<<z, x>>>> \in Seq(Node \X Message) /\ <<<<z, y>>>> \in Seq(Node \X Message)
    BY <1>5, <1>7, Lists
  <2> QED BY <1>8, <2>1, <2>2
<1>10. st'[Client] = st[Client]
  <2>1. \A r \in Peer : r # n => st'[r] = st[r] BY <1>1, <1>8, <1>9, Moved
  <2> QED BY <1>1, <2>1, Peers
<1>11. ASSUME NEW d \in Letters(n, out) PROVE Bland(d)'
  <2>1. CASE out = <<>>
    <3>1. Letters(n, out) = {} BY <2>1, LetterNone
    <3> QED BY <1>11, <3>1
  <2>2. CASE out = <<<<z, x>>>> /\ Body(n).kind = "get"
    <3>1. d.from = n /\ d.to = z /\ d.body = x BY <1>11, <2>2, LetterOne
    <3>2. st'[Client].pc \in {"got", "done"} BY <1>4, <1>10, <2>2 DEF Bland
    <3>3. None # Wanted' /\ n # Observer BY <1>1, Peers DEF Wanted, None
    <3> QED BY <1>5, <1>7, <3>1, <3>2, <3>3 DEF Bland
  <2>3. CASE out = <<<<z, y>>>> /\ Body(n).kind = "replicate"
    <3>1. d.from = n /\ d.to = z /\ d.body = y BY <1>11, <2>3, LetterOne
    <3>2. z = 0 BY <1>4, <2>3 DEF Bland
    <3>3. d.to # Client /\ d.to # Observer /\ d.from # Observer BY <1>1, <3>1, <3>2, Peers
    <3> QED BY <1>7, <3>1, <3>3, Harmless
  <2> QED BY <1>8, <2>1, <2>2, <2>3
<1>12. n = 1 => s.value # Wanted BY <1>2 DEF Misled, Astray
<1> QED BY <1>1, <1>2, <1>8, <1>9, <1>11, <1>12, GoesMisled

-----------------------------------------------------------------------------
(* The worlds of the experiments *)

Known == system \in KvSystems \union RaftSystems

LEMMA KnownKv ==
  ASSUME Known, system.proto = "kv"
  PROVE  /\ Bug \in {"Correct", "ReadFromStaleFollower", "LostUpdate", "DuplicateRequestReapplied",
                     "FollowerAppliesUncommitted", "QuorumCountOffByOne", "AckBeforeReplicate"}
         /\ Bug = "AckBeforeReplicate" => <<0, 1>> \in system.cut
         /\ Bug # "AckBeforeReplicate" => system.cut = {}
BY DEF Known, KvSystems, RaftSystems, System, Bug

LEMMA KnownRaft ==
  ASSUME Known, system.proto # "kv"
  PROVE  /\ Bug \in {"Correct", "FollowerStaleRead", "DuplicateClientRequest",
                     "DualLeaderUnderPartition"} \union Visible
         /\ Bug # "DualLeaderUnderPartition" => system.cut = {<<0, Observer>>}
         /\ system.proto = "raft"
BY DEF Known, KvSystems, RaftSystems, System, Bug

-----------------------------------------------------------------------------
(* The bugs that show in a read: Mini-Raft, and all their steps *)

\* Neither the letters, nor the loops, nor the client's report change.
LEMMA MisledStill ==
  ASSUME Misled, posted' = posted, ops' = ops, system' = system,
         \A r \in {0, 1, 2, Client} : st'[r] = st[r]
  PROVE  Misled'
<1>1. Gains({}) BY DEF Gains
<1>2. \A k \in {0, 1, 2} : st'[k] = st[k] OBVIOUS
<1>3. st'[Client] = st[Client] OBVIOUS
<1>4. Astray' BY <1>2, <1>3, StillWanted DEF Misled, Astray
<1>5. Misinformed' BY <1>3, StillWanted DEF Misled, Misinformed
<1> QED BY <1>1, <1>3, <1>4, <1>5, MisledGoes

\* What the labels of a node are worth.
LEMMA Announces ==
  ASSUME NEW n \in {0, 1, 2}, Bug # "DualLeaderUnderPartition", NEW k \in DOMAIN Announced(n)
  PROVE  n = 0 /\ \E w \in {"raft-bug", "applied-not-past-commit", "committed-not-lost"} :
                    Announced(n)[k] = Plain(w)
<1>1. PICK a, b, c : a = Plain("raft-bug") /\ b = Plain("applied-not-past-commit")
                     /\ c = Plain("committed-not-lost")
  OBVIOUS
<1>2. PICK says : says = Announced(n) OBVIOUS
<1>3. \/ n = 0 /\ (says = <<a, b>> \/ says = <<a, c>> \/ says = <<a>>)
      \/ says = <<>>
  BY <1>1, <1>2 DEF Announced
<1>4. k \in DOMAIN says BY <1>2
<1>5. n = 0 /\ says[k] \in {a, b, c} BY <1>3, <1>4
<1> QED BY <1>1, <1>2, <1>5

LEMMA AnnouncesWell == ASSUME NEW n \in {0, 1, 2} PROVE Announced(n) \in Seq(Message)
<1>2. PICK says : says = Announced(n) OBVIOUS
<1>3. says \in Seq(Message)
  <2>1. /\ {"leader", "single-leader-per-term", "raft-bug", "applied-not-past-commit",
            "committed-not-lost"} \subseteq Kind
        /\ n \in Int
    BY DEF Kind
  <2>2. /\ Msg("leader", n) \in Message /\ Plain("single-leader-per-term") \in Message
        /\ Plain("raft-bug") \in Message /\ Plain("applied-not-past-commit") \in Message
        /\ Plain("committed-not-lost") \in Message
    BY <2>1, Words
  <2>3. \A x, y \in Message : <<x, y>> \in Seq(Message) /\ <<x>> \in Seq(Message) /\ <<>> \in Seq(Message)
    OBVIOUS
  <2> HIDE DEF Message
  <2>4. \/ says = <<Msg("leader", n), Plain("single-leader-per-term")>>
        \/ says = <<Plain("raft-bug"), Plain("applied-not-past-commit")>>
        \/ says = <<Plain("raft-bug"), Plain("committed-not-lost")>>
        \/ says = <<Plain("raft-bug")>>
        \/ says = <<>>
    BY <1>2 DEF Announced
  <2> QED BY <2>2, <2>3, <2>4
<1> QED BY <1>2, <1>3

\* A node starts: what it tells the observer, and the loop it runs.
LEMMA Boots ==
  ASSUME NEW n \in {0, 1, 2}, Boot(n)
  PROVE  \E out \in Seq(Node \X Message) :
           /\ Become(n, Role(n), out) /\ box' = box /\ Unreported
           /\ \A d \in Letters(n, out) :
                d.from = n /\ d.to = Observer
                /\ \E k \in DOMAIN Announced(n) : d.body = Announced(n)[k]
           /\ DOMAIN out = DOMAIN Announced(n)
           /\ \A k \in DOMAIN out : out[k][1] = Observer /\ out[k][2] = Announced(n)[k]
<1>1. PICK says : says = Announced(n) OBVIOUS
<1>2. says \in Seq(Message) BY <1>1, AnnouncesWell
<1>3. PICK out : out = [k \in DOMAIN says |-> <<Observer, says[k]>>] OBVIOUS
<1>4. out \in Seq(Node \X Message)
  <2>1. DOMAIN says = 1 .. Len(says) /\ Len(says) \in Nat /\ \A k \in DOMAIN says : says[k] \in Message
    BY <1>2, LenProperties, ElementOfSeq
  <2>2. Observer \in Node BY Peers
  <2>3. out \in [1 .. Len(says) -> Node \X Message] BY <1>3, <2>1, <2>2
  <2> QED BY <2>1, <2>3, FunctionIsSeq
<1>5. Become(n, Role(n), out) /\ box' = box /\ Unreported BY <1>1, <1>3 DEF Boot
<1>6. DOMAIN out = DOMAIN says /\ \A k \in DOMAIN out : out[k][1] = Observer /\ out[k][2] = says[k]
  BY <1>3
<1>7. \A d \in Letters(n, out) :
        d.from = n /\ d.to = Observer /\ \E k \in DOMAIN says : d.body = says[k]
  <2> SUFFICES ASSUME NEW d \in Letters(n, out)
               PROVE  d.from = n /\ d.to = Observer /\ \E k \in DOMAIN says : d.body = says[k]
    OBVIOUS
  <2>1. PICK k \in DOMAIN out : d = [from |-> n, to |-> out[k][1], body |-> out[k][2]] BY DEF Letters
  <2> QED BY <1>6, <2>1
<1> QED BY <1>1, <1>4, <1>5, <1>6, <1>7

LEMMA BootMisled ==
  ASSUME NetOK, Misled, Known, system.proto # "kv", Bug \in Misleading, NEW n \in {0, 1, 2}, Boot(n)
  PROVE  Misled'
<1>1. n \in Peer /\ Unreported /\ box' = box BY Peers DEF Boot
<1>2. Bug \in Visible \union {"FollowerStaleRead"} /\ Bug # "DualLeaderUnderPartition"
  BY KnownRaft DEF Misleading, Visible
<1>3. PICK s : s = Role(n) OBVIOUS
<1>4. /\ s \in State /\ s.value = None
      /\ n = 0 => s.pc \in {"first", "stale"}
      /\ n # 0 => s.pc \in {"once", "follow"}
  <2>1. \A pc \in {"first", "stale", "once", "follow"} :
          Waiting(pc) \in State /\ Waiting(pc).pc = pc /\ Waiting(pc).value = None
    <3>1. {"first", "stale", "once", "follow"} \subseteq Pc BY DEF Pc
    <3> QED BY <3>1, WaitingIs DEF Waiting
  <2>2. n = 0 => s = Waiting("first") \/ s = Waiting("stale")
    <3>1. CASE Bug \in Visible
      <4>1. Bug \notin {"DualLeaderUnderPartition", "FollowerStaleRead", "DuplicateClientRequest", "Correct"}
        BY <3>1 DEF Visible
      <4> QED BY <1>3, <3>1, <4>1 DEF Role
    <3>2. CASE Bug \notin Visible
      <4>1. Bug = "FollowerStaleRead" BY <1>2, <3>2
      <4> QED BY <1>3, <3>2, <4>1 DEF Role
    <3> QED BY <3>1, <3>2
  <2>3. n # 0 => s = Waiting("once") \/ s = Waiting("follow") BY <1>2, <1>3 DEF Role, Visible
  <2> QED BY <2>1, <2>2, <2>3
<1>5. PICK out \in Seq(Node \X Message) :
        /\ Become(n, s, out)
        /\ \A d \in Letters(n, out) :
             d.from = n /\ d.to = Observer
             /\ \E k \in DOMAIN Announced(n) : d.body = Announced(n)[k]
  BY <1>3, Boots
<1>6. ASSUME NEW d \in Letters(n, out) PROVE Bland(d)'
  <2>1. d.from = n /\ d.to = Observer BY <1>5
  <2>2. PICK k \in DOMAIN Announced(n) : d.body = Announced(n)[k] BY <1>5
  <2>3. PICK w \in {"raft-bug", "applied-not-past-commit", "committed-not-lost"} :
          n = 0 /\ d.body = Plain(w)
    BY <1>2, <2>2, Announces
  <2>4. d.body.kind = w BY <2>3 DEF Plain, Msg
  <2>5. d.from = 0 /\ d.from # Observer /\ d.to # Client /\ d.to # 1 BY <2>1, <2>3, Peers
  <2> QED BY <2>4, <2>5 DEF Bland
<1>7. None # Wanted BY DEF None, Wanted
<1> QED BY <1>1, <1>4, <1>5, <1>6, <1>7, GoesMisled

LEMMA RaftClientMisled ==
  ASSUME NetOK, Misled, Known, system.proto # "kv", Bug \in Misleading, RaftStart \/ RaftPut
  PROVE  Misled'
<1>1. Plain("get") = Msg("get", None) /\ None \in Int BY DEF Plain, None
<1>2. Bug \notin {"DuplicateClientRequest", "DualLeaderUnderPartition", "LostUpdate"}
  BY KnownRaft DEF Misleading, Visible
<1>3. CASE RaftStart
  <2>1. /\ st[Client].pc = "start" /\ box' = box /\ Call(0, Msg("put", 7), "put")
        /\ ops' = ops /\ system' = system
    BY <1>2, <1>3 DEF RaftStart, Unreported
  <2>2. ops' = <<>> BY <2>1 DEF Misled, Misinformed
  <2> QED BY <2>1, <2>2, CallMisled
<1>4. CASE RaftPut
  <2>1. Recv(Client, "put") /\ PutAnswered(7) /\ st[Client].pc = "put" BY <1>4 DEF RaftPut, Recv
  <2>2. ops' = AllPuts /\ system' = system
    <3>1. ops = <<>> BY <2>1 DEF Misled, Misinformed
    <3>2. ops' = Append(ops, PutOp) /\ system' = system BY <2>1, AnswerIsOk DEF PutOp
    <3>3. ops' = <<PutOp>> BY <3>1, <3>2
    <3> QED BY <1>2, <3>2, <3>3 DEF AllPuts
  <2>3. PICK to \in {0, 1} : Call(to, Msg("get", None), "got")
    <3>1. Call(IF Bug = "FollowerStaleRead" THEN 1 ELSE 0, Plain("get"), "got") BY <1>4 DEF RaftPut
    <3> QED BY <1>1, <3>1
  <2> QED BY <1>1, <2>1, <2>2, <2>3, CallMisled
<1> QED BY <1>3, <1>4

LEMMA RaftGetMisled ==
  ASSUME NetOK, Misled, Known, system.proto # "kv", Bug \in Misleading, RaftGet PROVE Misled'
<1>1. Recv(Client, "got") /\ st[Client].pc = "got" BY DEF RaftGet, Recv
<1>2. Bug # "LostUpdate" BY KnownRaft DEF Visible
<1>3. ops = AllPuts /\ AllPuts = <<PutOp>> BY <1>1, <1>2 DEF Misled, Misinformed, AllPuts
<1>4. PICK out : out = <<>> OBVIOUS
<1>5. out \in Seq(Node \X Message) /\ Become(Client, At(Client, "done"), out) BY <1>4 DEF RaftGet
<1>6. ASSUME NEW d \in Letters(Client, out) PROVE FALSE
  <2>1. Letters(Client, out) = {} BY <1>4, LetterNone
  <2> QED BY <1>6, <2>1
<1>7. system' = system BY DEF RaftGet, Report
<1>8. PICK v : v # Wanted /\ ops' = Append(AllPuts, Found(v))
  <2>1. CASE Parsed(Body(Client)) = None /\ Bug # "FollowerStaleRead"
    <3>1. ops' = <<PutOp, Found(None)>> BY <2>1 DEF RaftGet, Canned, PutOp, Found
    <3>2. Append(<<PutOp>>, Found(None)) = <<PutOp, Found(None)>> BY TwoOf
    <3>3. None # Wanted BY DEF None, Wanted
    <3>4. ops' = Append(AllPuts, Found(None)) BY <1>3, <3>1, <3>2, Zenon
    <3> QED BY <3>3, <3>4
  <2>2. CASE ~(Parsed(Body(Client)) = None /\ Bug # "FollowerStaleRead")
    <3>1. PICK v : v = Parsed(Body(Client)) OBVIOUS
    <3>2. ops' = Append(ops, Found(v)) BY <2>2, <3>1 DEF RaftGet, Report, Found
    <3>3. v # Wanted BY <1>1, <3>1, ReadsAmiss
    <3> QED BY <1>3, <3>2, <3>3, Zenon
  <2> QED BY <2>1, <2>2
<1>9. PICK pc : pc = "done" OBVIOUS
<1>10. pc \in {"put7", "put9", "put", "got", "done"} /\ Become(Client, At(Client, pc), out)
  BY <1>5, <1>9
<1> QED BY <1>1, <1>5, <1>6, <1>7, <1>8, <1>9, <1>10, ClientMisled

\* The observer takes a label.
LEMMA Collects ==
  ASSUME NetOK, Collect
  PROVE  /\ Reads(Observer, {First(Observer)}) /\ UNCHANGED <<system, posted, ops>>
         /\ \A r \in {0, 1, 2, Client} : st'[r] = st[r]
<1>1. Recv(Observer, "collect") /\ Observer \in Peer BY Peers DEF Collect
<1>2. Reads(Observer, {First(Observer)}) BY <1>1, Received
<1>3. st \in [Peer -> State] BY DEF NetOK, ClusterType
<1>4. \A n \in {0, 1, 2, Client} : st'[n] = st[n] BY <1>3, Peers DEF Collect
<1> QED BY <1>2, <1>4 DEF Collect

LEMMA CollectMisled == ASSUME NetOK, Misled, Collect PROVE Misled'
BY Collects, MisledStill

LEMMA KvMisled ==
  ASSUME NetOK, Apart, Misled, Known, Bug \in Misleading, KvNext PROVE Misled'
<1>1. system.proto = "kv" BY DEF KvNext
<1>2. st[0].pc # "log" /\ st[Client].pc \notin {"asleep", "got-only", "appended", "read"}
  BY DEF Misled, Astray
<1>3. Bug = "AckBeforeReplicate" => <<0, 1>> \in system.cut BY <1>1, KnownKv
<1>4. CASE Primary BY <1>1, <1>3, <1>4, PrimaryMisled
<1>5. CASE AwaitAck(0, "acks", "done") \/ AwaitAck(0, "acks-on", "serve") BY <1>5, AwaitMisled
<1>6. CASE Follower(1) \/ Follower(2) BY <1>6, FollowerMisled
<1>7. CASE KvStart
  <2>1. Bug \notin {"DuplicateRequestReapplied", "FollowerAppliesUncommitted"} BY DEF Misleading, Visible
  <2>2. /\ st[Client].pc = "start" /\ box' = box /\ Call(0, Msg("put", 7), "put7")
        /\ ops' = ops /\ system' = system
    BY <1>7, <2>1 DEF KvStart, Unreported
  <2>3. ops' = <<>> BY <2>2 DEF Misled, Misinformed
  <2> QED BY <2>2, <2>3, CallMisled
<1>8. CASE SingleKeyPut BY <1>8, KvPutMisled
<1>9. CASE SingleKeyGet BY <1>9, KvGetMisled
<1>10. ~AppendLogPrimary /\ ~UncommittedWakes /\ ~UncommittedGet /\ ~AppendLogClient
  BY <1>2 DEF AppendLogPrimary, UncommittedWakes, UncommittedGet, AppendLogClient, Recv
<1> QED BY <1>4, <1>5, <1>6, <1>7, <1>8, <1>9, <1>10 DEF KvNext

LEMMA RaftMisled ==
  ASSUME NetOK, Apart, Misled, Known, Bug \in Misleading, RaftNext PROVE Misled'
<1>1. system.proto # "kv" BY DEF RaftNext
<1>2. st[0].pc \notin {"lead", "acks-lead", "twice"} /\ st[Client].pc \notin {"asked", "again"}
  BY DEF Misled, Astray
<1>3. CASE VisibleBugLeader BY <1>3, VisibleMisled
<1>4. CASE StaleReadLeader BY <1>4, StaleMisled
<1>5. CASE \E n \in Replica : Boot(n) BY <1>1, <1>5, BootMisled, Peers
<1>6. CASE \E n \in {1, 2} : Follower(n) \/ OneShot(n) BY <1>6, FollowerMisled, OneShotMisled
<1>7. CASE RaftStart \/ RaftPut BY <1>1, <1>7, RaftClientMisled
<1>8. CASE RaftGet BY <1>1, <1>8, RaftGetMisled
<1>9. CASE Collect BY <1>9, CollectMisled
<1>10. ~Leader /\ ~AwaitAck(0, "acks-lead", "lead") /\ ~DuplicateRequestLeader /\ ~DuplicateRequestClient
  BY <1>2 DEF Leader, AwaitAck, DuplicateRequestLeader, DuplicateRequestClient, Recv
<1> QED BY <1>3, <1>4, <1>5, <1>6, <1>7, <1>8, <1>9, <1>10 DEF RaftNext

-----------------------------------------------------------------------------
(* The request that is applied twice *)

AppendOp(x) == [op |-> "append", value |-> x]
EntriesOp(y) == [op |-> "entries", value |-> y]

Twofold(v) == \E j \in Int : v = 2 * j

\* Client and primary talk to each other alone, and the log has an even length.
Paired(d) ==
  /\ d.from \in {0, Client} /\ d.to \in {0, Client}
  /\ d.body.kind = "entries" => Twofold(d.body.value)

Logging ==
  /\ st[0].pc \in {"log", "done"} /\ Twofold(st[0].value)
  /\ \A n \in {1, 2} : st[n].pc = "follow"
  /\ st[Client].pc \in {"start", "appended", "read", "done"}

Counting ==
  /\ st[Client].pc \in {"start", "appended"} => ops = <<>>
  /\ st[Client].pc = "read" => \E x : ops = <<AppendOp(x)>>
  /\ st[Client].pc = "done" => \E x, y : y # 1 /\ ops = <<AppendOp(x), EntriesOp(y)>>

Reapplied == Logging /\ Counting /\ \A m \in DOMAIN posted : Paired(posted[m])

LEMMA ReappliedGoes ==
  ASSUME Reapplied, NEW L, Gains(L), \A d \in L : Paired(d), Logging', Counting' PROVE Reapplied'
<1>1. ASSUME NEW m \in DOMAIN posted' PROVE Paired(posted'[m]) BY <1>1 DEF Gains, Reapplied
<1> QED BY <1>1 DEF Reapplied

LEMMA ReappliedStill ==
  ASSUME Reapplied, posted' = posted, ops' = ops, \A r \in {0, 1, 2, Client} : st'[r] = st[r]
  PROVE  Reapplied'
<1>1. Gains({}) BY DEF Gains
<1>2. st'[0] = st[0] /\ st'[1] = st[1] /\ st'[2] = st[2] /\ st'[Client] = st[Client] OBVIOUS
<1>3. Logging' BY <1>2 DEF Reapplied, Logging
<1>4. Counting' BY <1>2 DEF Reapplied, Counting
<1> QED BY <1>1, <1>3, <1>4, ReappliedGoes

LEMMA HeardPaired ==
  ASSUME NetOK, Reapplied, NEW n \in Peer, NEW at, Recv(n, at)
  PROVE  From(n) \in {0, Client} /\ n \in {0, Client}
         /\ (Body(n).kind = "entries" => Twofold(Body(n).value))
<1>1. First(n) \in DOMAIN posted /\ posted[First(n)].to = n /\ From(n) = posted[First(n)].from
      /\ Body(n) = posted[First(n)].body
  BY Received
<1> QED BY <1>1 DEF Reapplied, Paired

LEMMA LogReapplied == ASSUME NetOK, Reapplied, AppendLogPrimary PROVE Reapplied'
<1>1. Recv(0, "log") /\ Unreported /\ 0 \in Peer BY Peers DEF AppendLogPrimary
<1>2. st[0] \in State /\ st[0].pc = "log" /\ st[0].value \in Int /\ From(0) \in Node
  BY <1>1, Received DEF NetOK, ClusterType, State
<1>3. PICK z : z = From(0) OBVIOUS
<1>4. z \in Node /\ z \in {0, Client} BY <1>1, <1>2, <1>3, HeardPaired
<1>5. PICK v \in Int : v = st[0].value BY <1>2
<1>6. Twofold(v) BY <1>5 DEF Reapplied, Logging
<1>7. ASSUME NEW s \in State, s.pc \in {"log", "done"}, Twofold(s.value), NEW k \in {"index", "entries"},
             Become(0, s, <<<<z, Msg(k, v)>>>>)
      PROVE  Reapplied'
  <2>1. PICK x : x = Msg(k, v) OBVIOUS
  <2>2. x \in Message /\ x.value = v
    <3>1. k \in Kind BY DEF Kind
    <3> QED BY <2>1, <3>1, Words
  <2>3. PICK out : out = <<<<z, x>>>> OBVIOUS
  <2>4. out \in Seq(Node \X Message) /\ Become(0, s, out) BY <1>4, <1>7, <2>1, <2>2, <2>3, Lists
  <2>5. Gains(Letters(0, out)) /\ st'[0] = s /\ \A r \in Peer : r # 0 => st'[r] = st[r]
    BY <1>1, <1>7, <2>4, Moved DEF Owing
  <2>6. ASSUME NEW d \in Letters(0, out) PROVE Paired(d)
    <3>1. PICK n : n = 0 OBVIOUS
    <3>2. d.from = n /\ d.to = z /\ d.body = x BY <2>3, <2>6, <3>1, LetterOne
    <3> QED BY <1>4, <1>6, <2>2, <3>1, <3>2 DEF Paired
  <2>7. st'[1] = st[1] /\ st'[2] = st[2] /\ st'[Client] = st[Client] BY <2>5, Peers
  <2>8. Logging' BY <1>7, <2>5, <2>7 DEF Reapplied, Logging
  <2>9. Counting' BY <1>1, <2>7 DEF Reapplied, Counting, Unreported
  <2> QED BY <2>5, <2>6, <2>8, <2>9, ReappliedGoes
<1>8. CASE Become(0, [st[0] EXCEPT !.value = @ + 2], <<<<From(0), Msg("index", st[0].value)>>>>)
  <2>1. PICK s : s = [st[0] EXCEPT !.value = v + 2] OBVIOUS
  <2>2. s \in State /\ s.pc = "log" /\ s.value = v + 2 BY <1>2, <2>1 DEF State
  <2>3. Twofold(v + 2)
    <3>1. PICK j \in Int : v = 2 * j BY <1>6 DEF Twofold
    <3>2. v + 2 = 2 * (j + 1) /\ j + 1 \in Int BY <3>1
    <3> QED BY <3>2 DEF Twofold
  <2>4. Become(0, s, <<<<z, Msg("index", v)>>>>) BY <1>3, <1>5, <1>8, <2>1
  <2> QED BY <1>7, <2>2, <2>3, <2>4
<1>9. CASE Become(0, At(0, "done"), <<<<From(0), Msg("entries", st[0].value)>>>>)
  <2>1. PICK s \in State : s = At(0, "done") /\ s.pc = "done" /\ s.value = v
    <3>1. "done" \in Pc BY DEF Pc
    <3> QED BY <1>1, <1>5, <3>1, Stands DEF NetOK
  <2>2. Become(0, s, <<<<z, Msg("entries", v)>>>>) BY <1>3, <1>5, <1>9, <2>1
  <2> QED BY <1>6, <1>7, <2>1, <2>2
<1>10. CASE Ignore(0, {"append", "read_all"})
  <2>1. posted' = posted /\ st' = st /\ ops' = ops BY <1>10 DEF Ignore, Unreported
  <2> QED BY <2>1, ReappliedStill
<1> QED BY <1>8, <1>9, <1>10 DEF AppendLogPrimary

\* The client goes on.
LEMMA ClientReapplied ==
  ASSUME NetOK, Reapplied, NEW pc \in {"appended", "read", "done"}, NEW out \in Seq(Node \X Message),
         Become(Client, At(Client, pc), out), box' = box \/ \E at : Recv(Client, at),
         \A d \in Letters(Client, out) : d.to = 0 /\ d.body.kind # "entries",
         pc = "appended" => ops' = <<>>,
         pc = "read" => \E x : ops' = <<AppendOp(x)>>,
         pc = "done" => \E x, y : y # 1 /\ ops' = <<AppendOp(x), EntriesOp(y)>>
  PROVE  Reapplied'
<1>1. Client \in Peer /\ Client # 0 BY Peers
<1>2. PICK s \in State : s = At(Client, pc) /\ s.pc = pc
  <2>1. pc \in Pc BY DEF Pc
  <2> QED BY <1>1, <2>1, Stands DEF NetOK
<1>3. Gains(Letters(Client, out)) /\ st'[Client] = s /\ \A r \in Peer : r # Client => st'[r] = st[r]
  BY <1>1, <1>2, Moved
<1>4. st'[0] = st[0] /\ st'[1] = st[1] /\ st'[2] = st[2] BY <1>3, Peers
<1>5. Logging' BY <1>2, <1>3, <1>4 DEF Reapplied, Logging
<1>6. Counting' BY <1>2, <1>3 DEF Counting
<1>7. \A d \in Letters(Client, out) : Paired(d) BY DEF Paired, Letters
<1> QED BY <1>3, <1>5, <1>6, <1>7, ReappliedGoes

LEMMA CallReapplied ==
  ASSUME NetOK, Reapplied, NEW pc \in {"appended", "read"}, NEW k \in {"append", "read_all"},
         Call(0, Plain(k), pc), box' = box \/ \E at : Recv(Client, at),
         pc = "appended" => ops' = <<>>,
         pc = "read" => \E x : ops' = <<AppendOp(x)>>
  PROVE  Reapplied'
<1>1. PICK x : x = Plain(k) OBVIOUS
<1>2. x \in Message /\ x.kind = k
  <2>1. k \in Kind /\ 7 \in Int BY DEF Kind
  <2> QED BY <1>1, <2>1, Words
<1>3. PICK z, out : z = 0 /\ out = <<<<z, x>>>> OBVIOUS
<1>4. out \in Seq(Node \X Message)
  <2>1. z \in Node BY <1>3, Peers
  <2> QED BY <1>2, <1>3, <2>1, Lists
<1>5. Become(Client, At(Client, pc), out) BY <1>1, <1>3 DEF Call
<1>6. ASSUME NEW d \in Letters(Client, out) PROVE d.to = 0 /\ d.body.kind # "entries"
  <2>1. d.to = z /\ d.body = x BY <1>3, LetterOne
  <2> QED BY <1>2, <1>3, <2>1
<1>7. pc \in {"appended", "read", "done"} /\ pc # "done" OBVIOUS
<1> QED BY <1>4, <1>5, <1>6, <1>7, ClientReapplied

LEMMA LogClientReapplied == ASSUME NetOK, Reapplied, AppendLogClient PROVE Reapplied'
<1>1. Client \in Peer BY Peers
<1>2. CASE Recv(Client, "appended")
  <2>1. /\ Call(0, Plain("read_all"), "read")
        /\ \E x : ops' = Append(ops, AppendOp(x))
    BY <1>2 DEF AppendLogClient, Recv, Report, AppendOp
  <2>2. ops = <<>> BY <1>2 DEF Recv, Reapplied, Counting
  <2>3. PICK x : ops' = Append(<<>>, AppendOp(x)) BY <2>1, <2>2
  <2>4. \E y : ops' = <<AppendOp(y)>>
    <3>1. PICK a : a = AppendOp(x) OBVIOUS
    <3>2. ops' = <<a>> BY <2>3, <3>1
    <3> QED BY <3>1, <3>2
  <2> QED BY <1>2, <2>1, <2>4, CallReapplied
<1>3. CASE Recv(Client, "read")
  <2>1. PICK y : y = IF Body(Client).kind = "entries" THEN Body(Client).value ELSE None OBVIOUS
  <2>2. y # 1
    <3>1. Body(Client).kind = "entries" => Twofold(Body(Client).value) BY <1>1, <1>3, HeardPaired
    <3>2. \A j \in Int : 2 * j # 1 OBVIOUS
    <3> QED BY <2>1, <3>1, <3>2 DEF Twofold, None
  <2>3. Become(Client, At(Client, "done"), <<>>) /\ ops' = Append(ops, EntriesOp(y))
    BY <1>3, <2>1 DEF AppendLogClient, Recv, Report, EntriesOp
  <2>4. PICK x : ops = <<AppendOp(x)>> BY <1>3 DEF Recv, Reapplied, Counting
  <2>5. PICK a, b : a = AppendOp(x) /\ b = EntriesOp(y) OBVIOUS
  <2>6. ops' = <<a, b>>
    <3>1. Append(<<a>>, b) = <<a, b>> BY TwoOf
    <3> QED BY <2>3, <2>4, <2>5, <3>1, Zenon
  <2>7. \E u, w : w # 1 /\ ops' = <<AppendOp(u), EntriesOp(w)>> BY <2>2, <2>5, <2>6
  <2>8. PICK out : out = <<>> OBVIOUS
  <2>9. out \in Seq(Node \X Message) /\ Become(Client, At(Client, "done"), out) BY <2>3, <2>8
  <2>10. Letters(Client, out) = {} BY <2>8, LetterNone
  <2>11. PICK pc : pc = "done" OBVIOUS
  <2>12. pc \in {"appended", "read", "done"} /\ Become(Client, At(Client, pc), out) BY <2>9, <2>11
  <2> QED BY <1>3, <2>7, <2>9, <2>10, <2>11, <2>12, ClientReapplied
<1> QED BY <1>2, <1>3 DEF AppendLogClient

LEMMA KvReapplied ==
  ASSUME NetOK, Reapplied, Bug = "DuplicateRequestReapplied", KvNext PROVE Reapplied'
<1>1. st[0].pc \notin {"serve", "acks", "acks-on"}
      /\ st[Client].pc \notin {"put7", "put9", "got", "asleep", "got-only"}
  BY DEF Reapplied, Logging
<1>2. CASE AppendLogPrimary BY <1>2, LogReapplied
<1>3. CASE KvStart
  <2>1. st[Client].pc = "start" /\ box' = box /\ Call(0, Plain("append"), "appended") /\ ops' = ops
    BY <1>3 DEF KvStart, Unreported
  <2>2. ops' = <<>> BY <2>1 DEF Reapplied, Counting
  <2> QED BY <2>1, <2>2, CallReapplied
<1>4. CASE AppendLogClient BY <1>4, LogClientReapplied
<1>5. ASSUME NEW n \in {1, 2} PROVE ~Follower(n)
  <2>1. n \in Peer /\ n \notin {0, Client} BY Peers
  <2> QED BY <2>1, HeardPaired DEF Follower
<1>6. ~Primary /\ ~AwaitAck(0, "acks", "done") /\ ~AwaitAck(0, "acks-on", "serve") /\ ~SingleKeyPut
      /\ ~SingleKeyGet /\ ~UncommittedWakes /\ ~UncommittedGet
  BY <1>1 DEF Primary, AwaitAck, SingleKeyPut, SingleKeyGet, UncommittedWakes, UncommittedGet, Recv
<1> QED BY <1>2, <1>3, <1>4, <1>5, <1>6 DEF KvNext

-----------------------------------------------------------------------------
(* What is still to be read *)

\* The step reads the letters of T and no others, and posts some.
Passes(T) ==
  /\ \A m \in DOMAIN posted :
       /\ m \in DOMAIN posted' /\ posted'[m] = posted[m] /\ (Gone(m) => Gone(m)')
       /\ ~Gone(m) /\ m \notin T => ~Gone(m)'
  /\ \A m \in DOMAIN posted' \ DOMAIN posted : ~Gone(m)'
  /\ doubled' = {} => doubled = {} /\ \A m \in T : Gone(m)'
  /\ \A m \in T : m \in DOMAIN posted /\ ~Gone(m)

LEMMA Passed ==
  ASSUME NetOK, NEW n \in Peer, NEW out \in Seq(Node \X Message), Posts(n, out), NEW T, Reads(n, T)
  PROVE  Passes(T)
<1>1. n \in Node /\ Len(out) \in Nat /\ DOMAIN out = 1 .. Len(out) BY Peers, LenProperties
<1>2. Fades(T) BY <1>1, HandledFades DEF Reads
<1>3. /\ \A m \in DOMAIN posted :
           Left(m)' = Left(m) - (IF m \in T THEN 1 ELSE 0) /\ (m \in T => Left(m) >= 1)
      /\ \A m \in DOMAIN posted' \ DOMAIN posted :
           Left(m)' \in {1, 2} /\ (m \notin doubled' => Left(m)' = 1)
  BY <1>1, Handled DEF Reads
<1>4. ASSUME NEW m \in DOMAIN posted, ~Gone(m), m \notin T PROVE ~Gone(m)'
  <2>1. Left(m) \in Nat BY LeftIs
  <2>2. Left(m)' = Left(m) - 0 BY <1>3, <1>4
  <2>3. Left(m)' = Left(m) BY <2>1, <2>2
  <2> QED BY <1>4, <2>3 DEF Gone
<1>5. ASSUME NEW m \in DOMAIN posted' \ DOMAIN posted PROVE ~Gone(m)'
  <2>1. Left(m)' \in {1, 2} BY <1>3
  <2> QED BY <2>1 DEF Gone
<1>6. doubled' = {} => doubled = {} /\ \A m \in T : Gone(m)' BY <1>2 DEF Fades
<1> QED BY <1>2, <1>4, <1>5, <1>6 DEF Passes, Fades

\* A node goes on, having read T.
LEMMA MovedOn ==
  ASSUME NetOK, NEW n \in Peer, NEW s \in State, NEW out \in Seq(Node \X Message), Become(n, s, out),
         NEW T, Reads(n, T), n = 0 /\ s.pc \in Owing => s.peer \in Node
  PROVE  /\ Passes(T) /\ Gains(Letters(n, out)) /\ Posts(n, out)
         /\ st'[n] = s /\ \A r \in Peer : r # n => st'[r] = st[r]
<1>1. Posts(n, out) /\ st'[n] = s /\ \A r \in Peer : r # n => st'[r] = st[r] BY Became
<1>2. Gains(Letters(n, out)) BY <1>1, Gained
<1>3. Passes(T) BY <1>1, Passed
<1> QED BY <1>1, <1>2, <1>3

\* A message is left as it is.
LEMMA PassedOver ==
  ASSUME NetOK, NEW n \in Peer, UNCHANGED <<posted, wire, doubled>>, NEW T, Reads(n, T)
  PROVE  Passes(T)
<1>1. PICK out : out = <<>> OBVIOUS
<1>2. Posts(n, out) BY <1>1, Silence DEF NetOK, Single
<1>3. out \in Seq(Node \X Message) BY <1>1
<1> QED BY <1>2, <1>3, Passed

\* A copy changes its place: it waits in a mailbox and no longer on the way.
LEMMA Arrived ==
  ASSUME NetOK, NEW m \in DOMAIN posted, Deliver(m), UNCHANGED doubled PROVE Passes({})
<1>1. /\ box \in [Node -> Seq(Entry)]
      /\ DOMAIN wire = DOMAIN posted
      /\ \A i \in DOMAIN posted : wire[i] \in Nat /\ posted[i] \in Letter
  BY Numbers DEF NetOK, Boxes, Entry
<1>2. posted' = posted /\ wire[m] > 0 /\ wire' = [wire EXCEPT ![m] = @ - 1] BY DEF Deliver, Take
<1>3. \A i \in DOMAIN posted : wire'[i] = IF i = m THEN wire[i] - 1 ELSE wire[i] BY <1>1, <1>2
<1>4. PICK e : e = [from |-> posted[m].from, msg |-> m] OBVIOUS
<1>5. PICK h \in Node : h = posted[m].to BY <1>1 DEF Letter
<1>6. e \in Entry /\ e.msg = m
  <2>1. m \in Nat /\ posted[m].from \in Node BY <1>1, Numbers DEF NetOK, Letter
  <2> QED BY <1>4, <2>1 DEF Entry
<1>7. box' = [box EXCEPT ![h] = Append(@, e)] BY <1>4, <1>5 DEF Deliver, Addressee
<1>8. ASSUME NEW i \in DOMAIN posted PROVE Left(i)' = Left(i)
  <2>1. PICK r \in Node : r = posted[i].to BY LeftIs
  <2>2. /\ Left(i) = wire[i] + Cardinality(Hits(box[r], i)) /\ wire[i] \in Nat
        /\ Cardinality(Hits(box[r], i)) \in Nat
    BY <2>1, LeftIs
  <2>3. Left(i)' = wire'[i] + Cardinality(Hits(box'[r], i)) BY <1>2, <2>1 DEF Left, Places, Hits
  <2>4. CASE r = h
    <3>1. box'[r] = Append(box[r], e) /\ box[r] \in Seq(Entry) BY <1>1, <1>7, <2>4
    <3>2. Cardinality(Hits(Append(box[r], e), i)) =
            Cardinality(Hits(box[r], i)) + (IF e.msg = i THEN 1 ELSE 0)
      BY <1>6, <3>1, HitsAppend
    <3>3. Cardinality(Hits(box'[r], i)) = Cardinality(Hits(box[r], i)) + (IF i = m THEN 1 ELSE 0)
      BY <1>6, <3>1, <3>2
    <3> QED BY <1>3, <2>2, <2>3, <3>3
  <2>5. CASE r # h
    <3>1. box'[r] = box[r] BY <1>1, <1>7, <2>5
    <3>2. i # m BY <1>5, <2>1, <2>5
    <3> QED BY <1>3, <2>2, <2>3, <3>1, <3>2
  <2> QED BY <2>4, <2>5
<1>9. \A i \in DOMAIN posted : Gone(i)' <=> Gone(i) BY <1>8 DEF Gone
<1> QED BY <1>2, <1>9 DEF Passes

LEMMA ApartArrives ==
  ASSUME NetOK, Apart, system' = system, NEW m \in DOMAIN posted, Deliver(m), ~Down(m) PROVE Apart'
<1> SUFFICES ASSUME NEW r \in Node, NEW k \in DOMAIN box'[r]
             PROVE  <<box'[r][k].from, r>> \notin system.cut
  BY DEF Apart
<1>1. /\ box \in [Node -> Seq(Entry)] /\ posted[m] \in Letter BY Numbers DEF NetOK, Boxes, Entry
<1>2. PICK e : e = [from |-> posted[m].from, msg |-> m] OBVIOUS
<1>3. PICK h \in Node : h = posted[m].to BY <1>1 DEF Letter
<1>4. e \in Entry /\ e.from = posted[m].from
  <2>1. m \in Nat /\ posted[m].from \in Node BY <1>1, Numbers DEF NetOK, Letter
  <2> QED BY <1>2, <2>1 DEF Entry
<1>5. box' = [box EXCEPT ![h] = Append(@, e)] BY <1>2, <1>3 DEF Deliver, Addressee
<1>6. <<e.from, h>> \notin system.cut BY <1>3, <1>4 DEF Down
<1>7. CASE r # h
  <2>1. box'[r] = box[r] BY <1>1, <1>5, <1>7
  <2> QED BY <2>1 DEF Apart
<1>8. CASE r = h
  <2>1. box'[r] = Append(box[r], e) /\ box[r] \in Seq(Entry) BY <1>1, <1>5, <1>8
  <2>2. /\ DOMAIN Append(box[r], e) = 1 .. Len(box[r]) + 1 /\ DOMAIN box[r] = 1 .. Len(box[r])
        /\ Len(box[r]) \in Nat
        /\ \A i \in 1 .. Len(box[r]) : Append(box[r], e)[i] = box[r][i]
        /\ Append(box[r], e)[Len(box[r]) + 1] = e
    BY <1>4, <2>1, AppendProperties, LenProperties
  <2>3. k \in 1 .. Len(box[r]) \/ k = Len(box[r]) + 1 BY <2>1, <2>2
  <2>4. CASE k \in 1 .. Len(box[r])
    <3>1. box'[r][k] = box[r][k] /\ k \in DOMAIN box[r] BY <2>1, <2>2, <2>4
    <3> QED BY <3>1 DEF Apart
  <2>5. CASE k = Len(box[r]) + 1
    <3>1. box'[r][k] = e BY <2>1, <2>2, <2>5
    <3> QED BY <1>6, <1>8, <3>1
  <2> QED BY <2>3, <2>4, <2>5
<1> QED BY <1>7, <1>8

\* The first letter of a list is there and not yet read.
LEMMA Sends ==
  ASSUME NetOK, NEW n, NEW out, Posts(n, out), 1 \in DOMAIN out, DOMAIN out = 1 .. Len(out),
         Len(out) \in Nat, NEW T, Passes(T), NEW a, NEW x, out[1][1] = a, out[1][2] = x
  PROVE  \E p \in DOMAIN posted' : /\ ~Gone(p)' /\ posted'[p].from = n /\ posted'[p].to = a
                                   /\ posted'[p].body = x
<1>1. PICK P : P = Len(posted) + 1 OBVIOUS
<1>2. Len(posted) \in Nat /\ DOMAIN posted = 1 .. Len(posted)
      /\ DOMAIN posted' = 1 .. Len(posted) + Len(out)
      /\ posted'[P] = [from |-> n, to |-> out[1][1], body |-> out[1][2]]
  BY <1>1, Fresh
<1>3. P \in DOMAIN posted' /\ P \notin DOMAIN posted
  <2>1. Len(out) >= 1 OBVIOUS
  <2> QED BY <1>1, <1>2, <2>1
<1>4. ~Gone(P)' BY <1>3 DEF Passes
<1> QED BY <1>2, <1>3, <1>4

-----------------------------------------------------------------------------
(* The follower that applies what is not committed *)

\* The client's put, the uncommitted value, and then the client's read and the answer to it.
Hurried(d) ==
  \/ d.to = 0 /\ d.body = Msg("put", 7)
  \/ d.to = 1 /\ d.body = Msg("uncommitted", 7)
  \/ d.from = Client /\ d.to = 1 /\ d.body = Plain("get") /\ st[Client].pc \in {"got-only", "done"}
  \/ d.to = Client /\ d.body = Msg("value", 7) /\ st[Client].pc \in {"got-only", "done"}

\* While the client sleeps the value is on its way to follower 1, unless it is there.
Coming(d) == (d.to = 0 /\ d.body = Msg("put", 7)) \/ (d.to = 1 /\ d.body = Msg("uncommitted", 7))
Afoot == \E m \in DOMAIN posted : ~Gone(m) /\ Coming(posted[m])
Awake == st[Client].pc \in {"got-only", "done"}

Sleeping ==
  /\ st[0].pc = "serve" /\ st[1].pc \in {"follow", "done"} /\ st[2].pc = "follow"
  /\ st[Client].pc \in {"start", "asleep", "got-only", "done"}
  /\ st[Client].pc = "asleep" => st[1].value = 7 \/ Afoot
  /\ Awake => st[1].value = 7
  /\ st[Client].pc # "done" => ops = <<>>
  /\ st[Client].pc = "done" => ops = <<Found(7)>>

Hasty == Sleeping /\ \A m \in DOMAIN posted : Hurried(posted[m])

LEMMA HastyGoes ==
  ASSUME Hasty, NEW L, Gains(L), \A d \in L : Hurried(d)', Awake => Awake', Sleeping' PROVE Hasty'
<1>1. ASSUME NEW m \in DOMAIN posted' PROVE Hurried(posted[m])'
  <2>1. CASE m \in DOMAIN posted /\ posted'[m] = posted[m]
    <3>1. PICK d : d = posted[m] /\ d = posted'[m] BY <2>1
    <3>2. Hurried(d) BY <2>1, <3>1 DEF Hasty
    <3>3. Hurried(d)' BY <3>2 DEF Hurried, Awake
    <3> QED BY <3>1, <3>3 DEF Hurried
  <2>2. CASE posted'[m] \in L
    <3>1. PICK d \in L : d = posted'[m] BY <2>2
    <3>2. Hurried(d)' BY <3>1
    <3> QED BY <3>1, <3>2 DEF Hurried
  <2> QED BY <2>1, <2>2 DEF Gains
<1> QED BY <1>1 DEF Hasty

LEMMA StillAfoot ==
  ASSUME Afoot, NEW T, Passes(T), \A m \in T : ~Coming(posted[m]) PROVE Afoot'
<1>1. PICK m \in DOMAIN posted : ~Gone(m) /\ Coming(posted[m]) BY DEF Afoot
<1>2. m \notin T BY <1>1
<1>3. m \in DOMAIN posted' /\ posted'[m] = posted[m] /\ ~Gone(m)' BY <1>1, <1>2 DEF Passes
<1>4. Coming(posted[m])' BY <1>1, <1>3 DEF Coming
<1> QED BY <1>3, <1>4 DEF Afoot

LEMMA HastyStill ==
  ASSUME Hasty, posted' = posted, ops' = ops, \A r \in {0, 1, 2, Client} : st'[r] = st[r], Passes({})
  PROVE  Hasty'
<1>1. Gains({}) BY DEF Gains
<1>2. st'[0] = st[0] /\ st'[1] = st[1] /\ st'[2] = st[2] /\ st'[Client] = st[Client] OBVIOUS
<1>3. Afoot => Afoot' BY StillAfoot
<1>4. Awake' <=> Awake BY <1>2 DEF Awake
<1>5. Sleeping' BY <1>2, <1>3, <1>4 DEF Hasty, Sleeping
<1> QED BY <1>1, <1>4, <1>5, HastyGoes

LEMMA HeardHurried ==
  ASSUME NetOK, Hasty, NEW n \in Peer, NEW at, Recv(n, at)
  PROVE  /\ Reads(n, {First(n)}) /\ Hurried(posted[First(n)]) /\ posted[First(n)].to = n
         /\ From(n) = posted[First(n)].from /\ Body(n) = posted[First(n)].body
         /\ From(n) \in Node
BY Received DEF Hasty

LEMMA HastyWords ==
  /\ Msg("put", 7).kind = "put" /\ Msg("put", 7).value = 7
  /\ Msg("uncommitted", 7).kind = "uncommitted" /\ Msg("uncommitted", 7).value = 7
  /\ Msg("value", 7).kind = "value" /\ Msg("value", 7).value = 7 /\ Plain("get").kind = "get"
  /\ Msg("put", 7) \in Message /\ Msg("uncommitted", 7) \in Message /\ Msg("value", 7) \in Message
  /\ Plain("get") \in Message
<1>1. {"put", "uncommitted", "value", "get"} \subseteq Kind /\ 7 \in Int BY DEF Kind
<1> QED BY <1>1, Words

LEMMA PrimaryHasty ==
  ASSUME NetOK, Hasty, Bug = "FollowerAppliesUncommitted", Primary PROVE Hasty'
<1>1. Recv(0, "serve") /\ Unreported /\ 0 \in Peer /\ 1 \in Node BY Peers DEF Primary
<1>2. Body(0) = Msg("put", 7)
  <2>1. Hurried(posted[First(0)]) /\ posted[First(0)].to = 0 /\ Body(0) = posted[First(0)].body
    BY <1>1, HeardHurried
  <2>2. 0 # Client BY Peers
  <2> QED BY <2>1, <2>2 DEF Hurried
<1>3. Become(0, st[0], <<<<1, Msg("uncommitted", 7)>>>>)
  BY <1>2, HastyWords DEF Primary, Replicates, Ignore
<1>4. PICK x, a, out : x = Msg("uncommitted", 7) /\ a = 1 /\ out = <<<<a, x>>>> OBVIOUS
<1>5. x \in Message /\ a \in Node BY <1>1, <1>4, HastyWords
<1>6. out \in Seq(Node \X Message) BY <1>4, <1>5, Lists
<1>7. st[0] \in State /\ st[0].pc = "serve" BY <1>1 DEF NetOK, ClusterType, Recv
<1>8. PICK s \in State : s = st[0] BY <1>7
<1>9. Become(0, s, out) /\ s.pc \notin Owing BY <1>3, <1>4, <1>7, <1>8 DEF Owing
<1>10. PICK T : Reads(0, T) BY <1>1, HeardHurried
<1>11. Passes(T) /\ Gains(Letters(0, out)) /\ Posts(0, out) /\ st'[0] = s
       /\ \A r \in Peer : r # 0 => st'[r] = st[r]
  BY <1>1, <1>6, <1>9, <1>10, MovedOn
<1>12. st'[0] = st[0] /\ st'[1] = st[1] /\ st'[2] = st[2] /\ st'[Client] = st[Client] BY <1>8, <1>11, Peers
<1>13. Afoot'
  <2>1. 1 \in DOMAIN out /\ DOMAIN out = 1 .. Len(out) /\ Len(out) \in Nat /\ out[1][1] = a /\ out[1][2] = x
    BY <1>4
  <2>2. PICK n : n = 0 OBVIOUS
  <2>3. Posts(n, out) BY <1>11, <2>2
  <2>4. PICK p \in DOMAIN posted' : ~Gone(p)' /\ posted'[p].to = a /\ posted'[p].body = x
    BY <1>11, <2>1, <2>3, Sends
  <2>5. Coming(posted[p])' BY <1>4, <2>4 DEF Coming
  <2> QED BY <2>4, <2>5 DEF Afoot
<1>14. Awake' <=> Awake BY <1>12 DEF Awake
<1>15. Sleeping' BY <1>1, <1>12, <1>13, <1>14 DEF Hasty, Sleeping, Unreported
<1>16. ASSUME NEW d \in Letters(0, out) PROVE Hurried(d)'
  <2>1. PICK n : n = 0 OBVIOUS
  <2>2. d.to = a /\ d.body = x BY <1>4, <1>16, <2>1, LetterOne
  <2> QED BY <1>4, <2>2 DEF Hurried
<1> QED BY <1>11, <1>14, <1>15, <1>16, HastyGoes

LEMMA FollowerHasty ==
  ASSUME NetOK, Hasty, NEW n \in {1, 2}, Follower(n) PROVE Hasty'
<1>1. Recv(n, "follow") /\ Unreported /\ n \in Peer /\ n # 0 /\ n # Client /\ Client \in Node
  BY Peers DEF Follower, Ignore
<1>2. PICK f : f = First(n) OBVIOUS
<1>3. /\ Reads(n, {f}) /\ posted[f].to = n /\ From(n) = posted[f].from /\ Body(n) = posted[f].body
      /\ Hurried(posted[f])
  BY <1>1, <1>2, HeardHurried
<1>4. \/ n = 1 /\ Body(n) = Msg("uncommitted", 7)
      \/ n = 1 /\ From(n) = Client /\ Body(n) = Plain("get") /\ Awake
  BY <1>1, <1>3 DEF Hurried, Awake
<1>5. n = 1 BY <1>4
<1>6. st[1] \in State /\ st[1].pc = "follow" BY <1>1, <1>5 DEF NetOK, ClusterType, Recv
<1>7. ASSUME NEW s \in State, s.pc \in {"follow", "done"}, s.value = 7, NEW out \in Seq(Node \X Message),
             Become(1, s, out), \A d \in Letters(1, out) : Awake /\ d.to = Client /\ d.body = Msg("value", 7)
      PROVE  Hasty'
  <2>1. 1 \in Peer /\ 1 # 0 /\ s.pc \notin Owing BY <1>7, Peers DEF Owing
  <2>2. PICK T : T = {f} OBVIOUS
  <2>3. Reads(1, T) BY <1>3, <1>5, <2>2
  <2>4. /\ Passes(T) /\ Gains(Letters(1, out)) /\ st'[1] = s /\ \A r \in Peer : r # 1 => st'[r] = st[r]
    BY <1>7, <2>1, <2>3, MovedOn
  <2>5. st'[0] = st[0] /\ st'[2] = st[2] /\ st'[Client] = st[Client] BY <2>4, Peers
  <2>6. Awake' <=> Awake BY <2>5 DEF Awake
  <2>7. Sleeping' BY <1>1, <1>7, <2>4, <2>5, <2>6 DEF Hasty, Sleeping, Unreported
  <2>8. \A d \in Letters(1, out) : Hurried(d)' BY <1>7, <2>6 DEF Hurried, Awake
  <2> QED BY <2>4, <2>6, <2>7, <2>8, HastyGoes
<1>8. CASE Body(n) = Msg("uncommitted", 7)
  <2>1. Become(n, [st[n] EXCEPT !.value = 7], <<>>) BY <1>8, HastyWords DEF Follower, Ignore
  <2>2. PICK s, out : s = [st[1] EXCEPT !.value = 7] /\ out = <<>> OBVIOUS
  <2>3. s \in State /\ s.pc = "follow" /\ s.value = 7 BY <1>6, <2>2 DEF State
  <2>4. out \in Seq(Node \X Message) /\ Become(1, s, out) BY <1>5, <2>1, <2>2
  <2>5. Letters(1, out) = {} BY <2>2, LetterNone
  <2> QED BY <1>7, <2>3, <2>4, <2>5
<1>9. CASE Body(n) = Plain("get") /\ From(n) = Client /\ Awake
  <2>1. st[1].value = 7 BY <1>9 DEF Hasty, Sleeping
  <2>2. Become(n, At(n, "done"), <<<<From(n), Msg("value", st[n].value)>>>>)
    BY <1>9, HastyWords DEF Follower, Ignore
  <2>3. PICK s \in State : s = At(n, "done") /\ s.pc = "done" /\ s.value = 7
    <3>1. "done" \in Pc BY DEF Pc
    <3> QED BY <1>1, <1>5, <2>1, <3>1, Stands DEF NetOK
  <2>4. PICK x, a, out : x = Msg("value", 7) /\ a = Client /\ out = <<<<a, x>>>> OBVIOUS
  <2>5. x \in Message /\ a \in Node BY <1>1, <2>4, HastyWords
  <2>6. out \in Seq(Node \X Message) BY <2>4, <2>5, Lists
  <2>7. Become(1, s, out) BY <1>5, <1>9, <2>1, <2>2, <2>3, <2>4
  <2>8. ASSUME NEW d \in Letters(1, out) PROVE Awake /\ d.to = Client /\ d.body = Msg("value", 7)
    <3>1. PICK k : k = 1 OBVIOUS
    <3>2. d.to = a /\ d.body = x BY <2>4, <2>8, <3>1, LetterOne
    <3> QED BY <1>9, <2>4, <3>2
  <2> QED BY <1>7, <2>3, <2>6, <2>7, <2>8
<1> QED BY <1>4, <1>8, <1>9

\* The client goes on.
LEMMA ClientHasty ==
  ASSUME NetOK, Hasty, NEW pc \in {"asleep", "got-only", "done"}, NEW out \in Seq(Node \X Message),
         Become(Client, At(Client, pc), out), box' = box \/ \E at : Recv(Client, at),
         \A d \in Letters(Client, out) :
           \/ d.to = 0 /\ d.body = Msg("put", 7)
           \/ d.to = 1 /\ d.body = Plain("get") /\ pc = "got-only",
         pc = "asleep" => (1 \in DOMAIN out /\ out[1][1] = 0 /\ out[1][2] = Msg("put", 7)),
         Awake => pc = "done",
         pc # "asleep" => st[1].value = 7,
         pc # "done" => ops' = <<>>, pc = "done" => ops' = <<Found(7)>>
  PROVE  Hasty'
<1>1. Client \in Peer /\ Client # 0 BY Peers
<1>2. PICK s \in State : s = At(Client, pc) /\ s.pc = pc
  <2>1. pc \in Pc BY DEF Pc
  <2> QED BY <1>1, <2>1, Stands DEF NetOK
<1>3. PICK T : Reads(Client, T)
  <2>1. CASE box' = box
    <3>1. PICK T : T = {} OBVIOUS
    <3> QED BY <2>1, <3>1 DEF Reads
  <2>2. CASE \E at : Recv(Client, at) BY <1>1, <2>2, Received
  <2> QED BY <2>1, <2>2
<1>4. /\ Passes(T) /\ Gains(Letters(Client, out)) /\ Posts(Client, out)
      /\ st'[Client] = s /\ \A r \in Peer : r # Client => st'[r] = st[r]
  BY <1>1, <1>2, <1>3, MovedOn
<1>5. st'[0] = st[0] /\ st'[1] = st[1] /\ st'[2] = st[2] BY <1>4, Peers
<1>6. pc = "asleep" => Afoot'
  <2> SUFFICES ASSUME pc = "asleep" PROVE Afoot' OBVIOUS
  <2>1. PICK a, x : a = 0 /\ x = Msg("put", 7) OBVIOUS
  <2>2. 1 \in DOMAIN out /\ out[1][1] = a /\ out[1][2] = x BY <2>1
  <2>3. Len(out) \in Nat /\ DOMAIN out = 1 .. Len(out) BY LenProperties
  <2>4. PICK p \in DOMAIN posted' : ~Gone(p)' /\ posted'[p].to = a /\ posted'[p].body = x
    BY <1>4, <2>2, <2>3, Sends
  <2>5. Coming(posted[p])' BY <2>1, <2>4 DEF Coming
  <2> QED BY <2>4, <2>5 DEF Afoot
<1>7. Awake' <=> pc \in {"got-only", "done"} BY <1>2, <1>4 DEF Awake
<1>8. Sleeping'
  <2>1. /\ st[0].pc = "serve" /\ st[1].pc \in {"follow", "done"} /\ st[2].pc = "follow"
    BY DEF Hasty, Sleeping
  <2> QED BY <1>2, <1>4, <1>5, <1>6, <1>7, <2>1 DEF Sleeping
<1>9. ASSUME NEW d \in Letters(Client, out) PROVE Hurried(d)'
  <2>1. d.from = Client BY DEF Letters
  <2>2. pc = "got-only" => st'[Client].pc = "got-only" BY <1>2, <1>4
  <2> QED BY <2>1, <2>2 DEF Hurried
<1> QED BY <1>4, <1>7, <1>8, <1>9, HastyGoes

LEMMA SleeperHasty == ASSUME NetOK, Hasty, UncommittedWakes PROVE Hasty'
<1>1. /\ st[Client].pc = "asleep" /\ Quiet /\ Call(1, Plain("get"), "got-only") /\ box' = box
      /\ ops' = ops
  BY DEF UncommittedWakes, Unreported
<1>2. st[1].value = 7
  <2>1. st[1].value = 7 \/ Afoot BY <1>1 DEF Hasty, Sleeping
  <2>2. ASSUME Afoot PROVE FALSE
    <3>1. PICK m \in DOMAIN posted : ~Gone(m) /\ Coming(posted[m]) BY <2>2 DEF Afoot
    <3>2. PICK r \in {0, 1, 2} : r = posted[m].to BY <3>1 DEF Coming
    <3>3. wire[m] = 0 /\ box[r] = <<>>
      <4>1. m \in DOMAIN wire BY Numbers DEF NetOK
      <4>2. r \in Replica BY Peers
      <4> QED BY <1>1, <4>1, <4>2 DEF Quiet
    <3>4. Hits(box[r], m) = {} BY <3>3 DEF Hits
    <3>5. Left(m) = wire[m] + Cardinality(Hits(box[r], m)) BY <3>2, LeftIs
    <3>6. PICK e : e = {} OBVIOUS
    <3>7. Cardinality(e) = 0 BY <3>6, FS_EmptySet
    <3>8. Left(m) = 0 BY <3>3, <3>4, <3>5, <3>6, <3>7
    <3> QED BY <3>1, <3>8 DEF Gone
  <2> QED BY <2>1, <2>2
<1>3. ops' = <<>> BY <1>1 DEF Hasty, Sleeping
<1>4. PICK x, a, out : x = Plain("get") /\ a = 1 /\ out = <<<<a, x>>>> OBVIOUS
<1>5. x \in Message /\ a \in Node BY <1>4, HastyWords, Peers
<1>6. out \in Seq(Node \X Message) BY <1>4, <1>5, Lists
<1>7. PICK pc : pc = "got-only" OBVIOUS
<1>8. Become(Client, At(Client, pc), out) BY <1>1, <1>4, <1>7 DEF Call
<1>9. ~Awake BY <1>1 DEF Awake
<1>10. ASSUME NEW d \in Letters(Client, out) PROVE d.to = 1 /\ d.body = Plain("get") /\ pc = "got-only"
  <2>1. d.to = a /\ d.body = x BY <1>4, LetterOne
  <2> QED BY <1>4, <1>7, <2>1
<1>11. pc \in {"asleep", "got-only", "done"} /\ pc # "asleep" /\ pc # "done" BY <1>7
<1> QED BY <1>1, <1>2, <1>3, <1>6, <1>8, <1>9, <1>10, <1>11, ClientHasty

LEMMA StarterHasty ==
  ASSUME NetOK, Hasty, st[Client].pc = "start", box' = box, ops' = ops, Call(0, Msg("put", 7), "asleep")
  PROVE  Hasty'
<1>3. ops' = <<>> BY DEF Hasty, Sleeping
<1>4. PICK x, a, out : x = Msg("put", 7) /\ a = 0 /\ out = <<<<a, x>>>> OBVIOUS
<1>5. x \in Message /\ a \in Node BY <1>4, HastyWords, Peers
<1>6. out \in Seq(Node \X Message) /\ 1 \in DOMAIN out /\ out[1][1] = a /\ out[1][2] = x
  BY <1>4, <1>5, Lists
<1>7. PICK pc : pc = "asleep" OBVIOUS
<1>8. Become(Client, At(Client, pc), out) BY <1>4, <1>7 DEF Call
<1>9. ~Awake BY DEF Awake
<1>10. ASSUME NEW d \in Letters(Client, out) PROVE d.to = 0 /\ d.body = Msg("put", 7)
  <2>1. d.to = a /\ d.body = x BY <1>4, LetterOne
  <2> QED BY <1>4, <2>1
<1>11. pc \in {"asleep", "got-only", "done"} /\ pc # "done" BY <1>7
<1>12. out[1][1] = 0 /\ out[1][2] = Msg("put", 7) BY <1>4, <1>6
<1> QED BY <1>3, <1>6, <1>7, <1>8, <1>9, <1>10, <1>11, <1>12, ClientHasty

LEMMA ReaderHasty == ASSUME NetOK, Hasty, UncommittedGet PROVE Hasty'
<1>1. Recv(Client, "got-only") /\ Client \in Peer /\ Client \notin {0, 1} BY Peers DEF UncommittedGet
<1>2. st[Client].pc = "got-only" /\ Awake BY <1>1 DEF Recv, Awake
<1>3. st[1].value = 7 /\ ops = <<>> BY <1>2 DEF Hasty, Sleeping
<1>4. Parsed(Body(Client)) = 7
  <2>1. /\ Hurried(posted[First(Client)]) /\ posted[First(Client)].to = Client
        /\ Body(Client) = posted[First(Client)].body
    BY <1>1, HeardHurried
  <2>2. Body(Client) = Msg("value", 7) BY <1>1, <2>1 DEF Hurried
  <2> QED BY <2>2, HastyWords DEF Parsed
<1>5. ops' = <<Found(7)>>
  <2>1. PICK a : a = Found(7) OBVIOUS
  <2>2. ops' = Append(ops, a) BY <1>4, <2>1 DEF UncommittedGet, Report, Found
  <2>3. ops' = <<a>> BY <1>3, <2>2
  <2> QED BY <2>1, <2>3
<1>6. PICK out : out = <<>> OBVIOUS
<1>7. PICK pc : pc = "done" OBVIOUS
<1>8. out \in Seq(Node \X Message) /\ Become(Client, At(Client, pc), out)
  BY <1>6, <1>7 DEF UncommittedGet
<1>9. Letters(Client, out) = {} BY <1>6, LetterNone
<1>10. pc \in {"asleep", "got-only", "done"} /\ pc # "asleep" BY <1>7
<1> QED BY <1>1, <1>3, <1>5, <1>7, <1>8, <1>9, <1>10, ClientHasty

LEMMA KvHasty ==
  ASSUME NetOK, Hasty, Bug = "FollowerAppliesUncommitted", KvNext PROVE Hasty'
<1>1. st[0].pc \notin {"log", "acks", "acks-on"}
      /\ st[Client].pc \notin {"put7", "put9", "got", "appended", "read"}
  BY DEF Hasty, Sleeping
<1>2. CASE Primary BY <1>2, PrimaryHasty
<1>3. CASE Follower(1) \/ Follower(2) BY <1>3, FollowerHasty
<1>4. CASE KvStart
  <2>1. st[Client].pc = "start" /\ box' = box /\ ops' = ops /\ Call(0, Msg("put", 7), "asleep")
    BY <1>4 DEF KvStart, Unreported
  <2> QED BY <2>1, StarterHasty
<1>5. CASE UncommittedWakes BY <1>5, SleeperHasty
<1>6. CASE UncommittedGet BY <1>6, ReaderHasty
<1>7. ~AppendLogPrimary /\ ~AwaitAck(0, "acks", "done") /\ ~AwaitAck(0, "acks-on", "serve")
      /\ ~SingleKeyPut /\ ~SingleKeyGet /\ ~AppendLogClient
  BY <1>1 DEF AppendLogPrimary, AwaitAck, SingleKeyPut, SingleKeyGet, AppendLogClient, Recv
<1> QED BY <1>2, <1>3, <1>4, <1>5, <1>6, <1>7 DEF KvNext

-----------------------------------------------------------------------------
(* The client request that is taken twice *)

\* Node 0 has taken so many requests.
TakenNone ==
  st[0].pc = "boot" \/ (st[0].pc = "twice" /\ st[0].value = 0 /\ st[0].acks = 0)
TakenOne == st[0].pc = "twice" /\ st[0].value = 1 /\ st[0].acks = 1
TakenBoth == st[0].pc = "done"

\* A letter there still is to be read is the one whose turn it is.
InTurn(d) ==
  \/ /\ d.from = Client /\ d.to = 0 /\ d.body = Plain("request")
     /\ (st[Client].pc = "asked" /\ TakenNone) \/ (st[Client].pc = "again" /\ TakenOne)
  \/ /\ d.to = Client
     /\ \/ st[Client].pc = "asked" /\ TakenOne /\ d.body = Msg("applied", 1)
        \/ st[Client].pc = "again" /\ TakenBoth /\ d.body = Msg("applied", 2)

\* The history the client reports when it was told that its request counted twice.
Double == <<[op |-> "append", value |-> 0], [op |-> "entries", value |-> 2]>>

Alternating ==
  /\ st[Client].pc \in {"start", "asked", "again", "done"}
  /\ \A n \in {1, 2} : st[n].pc \in {"boot", "follow"}
  /\ st[0].pc \in {"boot", "twice", "done"}
  /\ st[Client].pc = "start" => TakenNone
  /\ ops = IF st[Client].pc = "done" THEN Double ELSE <<>>

Turns ==
  /\ Alternating
  /\ \A m, k \in DOMAIN posted : ~Gone(m) /\ ~Gone(k) => m = k
  /\ \A m \in DOMAIN posted : ~Gone(m) => InTurn(posted[m])

LEMMA TurnsStill ==
  ASSUME Turns, posted' = posted, ops' = ops, \A r \in {0, 1, 2, Client} : st'[r] = st[r],
         \A m \in DOMAIN posted : Gone(m) => Gone(m)'
  PROVE  Turns'
<1>1. st'[0] = st[0] /\ st'[1] = st[1] /\ st'[2] = st[2] /\ st'[Client] = st[Client] OBVIOUS
<1>2. Alternating' BY <1>1 DEF Turns, Alternating, TakenNone
<1>3. ASSUME NEW d, InTurn(d) PROVE InTurn(d)'
  BY <1>1, <1>3 DEF InTurn, TakenNone, TakenOne, TakenBoth
<1>4. ASSUME NEW m \in DOMAIN posted', ~Gone(m)' PROVE m \in DOMAIN posted /\ ~Gone(m) /\ InTurn(posted[m])'
  <2>1. m \in DOMAIN posted /\ ~Gone(m) BY <1>4
  <2>2. PICK d : d = posted[m] /\ d = posted'[m] OBVIOUS
  <2>3. InTurn(d) BY <2>1, <2>2 DEF Turns
  <2>4. InTurn(d)' BY <1>3, <2>3
  <2> QED BY <2>1, <2>2, <2>4 DEF InTurn
<1>5. \A m, k \in DOMAIN posted' : ~Gone(m)' /\ ~Gone(k)' => m = k BY <1>4 DEF Turns
<1> QED BY <1>2, <1>4, <1>5 DEF Turns

\* The letter that was there has been read, if there was one.
LEMMA AllRead ==
  ASSUME Turns, NEW f, NEW T, Passes(T), T = {f}, doubled' = {}
  PROVE  \A m \in DOMAIN posted : Gone(m)'
<1>1. f \in DOMAIN posted /\ ~Gone(f) /\ Gone(f)' BY DEF Passes
<1>2. ASSUME NEW m \in DOMAIN posted PROVE Gone(m)'
  <2>1. CASE Gone(m) BY <2>1 DEF Passes
  <2>2. CASE ~Gone(m)
    <3>1. m = f BY <1>1, <2>2 DEF Turns
    <3> QED BY <1>1, <3>1
  <2> QED BY <2>1, <2>2
<1> QED BY <1>2

LEMMA NextTurn ==
  ASSUME \A m \in DOMAIN posted : Gone(m)', NEW n, NEW a, NEW x,
         NEW p, Adds({p}), posted'[p] = [from |-> n, to |-> a, body |-> x], Alternating',
         \A d : d.from = n /\ d.to = a /\ d.body = x => InTurn(d)'
  PROVE  Turns'
<1>2. \A m \in DOMAIN posted' : ~Gone(m)' => m = p BY DEF Adds
<1>3. PICK d : d = posted'[p] OBVIOUS
<1>4. d.from = n /\ d.to = a /\ d.body = x BY <1>3
<1>5. InTurn(d)' BY <1>4
<1>6. InTurn(posted[p])' BY <1>3, <1>5 DEF InTurn
<1>7. \A m \in DOMAIN posted' : ~Gone(m)' => InTurn(posted[m])' BY <1>2, <1>6, Zenon
<1>8. \A m, k \in DOMAIN posted' : ~Gone(m)' /\ ~Gone(k)' => m = k BY <1>2
<1> QED BY <1>7, <1>8 DEF Turns

LEMMA NoTurn ==
  ASSUME \A m \in DOMAIN posted : Gone(m)', Adds({}), Alternating' PROVE Turns'
<1>1. \A m \in DOMAIN posted' : Gone(m)' BY DEF Adds
<1> QED BY <1>1 DEF Turns

LEMMA HeardTurn ==
  ASSUME NetOK, Turns, NEW n \in Peer, NEW at, Recv(n, at), doubled' = {},
         NEW s \in State, NEW out \in Seq(Node \X Message), Become(n, s, out),
         n = 0 /\ s.pc \in Owing => s.peer \in Node
  PROVE  /\ \E d : InTurn(d) /\ d.from = From(n) /\ d.to = n /\ d.body = Body(n)
         /\ \A m \in DOMAIN posted : Gone(m)'
         /\ Posts(n, out) /\ st'[n] = s /\ \A r \in Peer : r # n => st'[r] = st[r]
<1>1. PICK f, T : f = First(n) /\ T = {f} OBVIOUS
<1>2. /\ Reads(n, T) /\ f \in DOMAIN posted /\ posted[f].to = n
      /\ From(n) = posted[f].from /\ Body(n) = posted[f].body
  BY <1>1, Received
<1>3. Passes(T) /\ Posts(n, out) /\ st'[n] = s /\ \A r \in Peer : r # n => st'[r] = st[r]
  BY <1>2, MovedOn
<1>4. ~Gone(f) BY <1>1, <1>3 DEF Passes
<1>5. InTurn(posted[f]) BY <1>2, <1>4 DEF Turns
<1>6. \A m \in DOMAIN posted : Gone(m)' BY <1>1, <1>3, AllRead
<1> QED BY <1>2, <1>3, <1>5, <1>6

\* Whoever reads is the leader or the client.
LEMMA ReaderInTurn ==
  ASSUME NetOK, Turns, NEW n \in Peer, NEW at, Recv(n, at)
  PROVE  n \in {0, Client} /\ \E d : InTurn(d) /\ d.from = From(n) /\ d.to = n /\ d.body = Body(n)
<1>1. PICK f, T : f = First(n) /\ T = {f} OBVIOUS
<1>2. /\ Reads(n, T) /\ f \in DOMAIN posted /\ posted[f].to = n
      /\ From(n) = posted[f].from /\ Body(n) = posted[f].body
  BY <1>1, Received
<1>3. ~Gone(f)
  <2>1. Takes(n) /\ n \in Node BY Received, Peers
  <2>2. box[n] \in Seq(Entry) /\ box[n] # <<>> BY <2>1, EntryOf DEF Takes
  <2>3. Cardinality(Hits(box[n], f)) >= 1 BY <1>1, <2>2, HitsTail DEF First
  <2>4. Left(f) = wire[f] + Cardinality(Hits(box[n], f)) /\ wire[f] \in Nat
        /\ Cardinality(Hits(box[n], f)) \in Nat
    BY <1>2, LeftIs
  <2>5. Left(f) # 0 BY <2>3, <2>4
  <2> QED BY <2>5 DEF Gone
<1>4. InTurn(posted[f]) BY <1>2, <1>3 DEF Turns
<1>5. n \in {0, Client} BY <1>2, <1>4 DEF InTurn
<1> QED BY <1>2, <1>4, <1>5

LEMMA TurnWords ==
  /\ Plain("request") \in Message /\ Plain("request").kind = "request"
  /\ Msg("applied", 1) \in Message /\ Msg("applied", 2) \in Message
  /\ Msg("applied", 1).value = 1 /\ Msg("applied", 2).value = 2
<1>1. {"request", "applied"} \subseteq Kind /\ 1 \in Int /\ 2 \in Int BY DEF Kind
<1> QED BY <1>1, Words

\* A loop with a new count of what it applied and of what it took.
Recount(o, v, a, pc) == [o EXCEPT !.value = v, !.acks = a, !.pc = pc]

LEMMA Recounted ==
  ASSUME NEW o \in State, NEW v \in Int, NEW a \in Int, NEW pc \in Pc, NEW s, s = Recount(o, v, a, pc)
  PROVE  s \in State /\ s.pc = pc /\ s.value = v /\ s.acks = a
<1>1. PICK b, c, d, p : b = o.pc /\ c = o.value /\ d = o.acks /\ p = o.peer OBVIOUS
<1>2. o = [pc |-> b, value |-> c, acks |-> d, peer |-> p] /\ p \in Node \union {None}
  BY <1>1 DEF State
<1>3. PICK r : r = [o EXCEPT !.value = v] OBVIOUS
<1>4. r = [pc |-> b, value |-> v, acks |-> d, peer |-> p] BY <1>2, <1>3
<1>5. PICK q : q = [r EXCEPT !.acks = a] OBVIOUS
<1>6. q = [pc |-> b, value |-> v, acks |-> a, peer |-> p] BY <1>4, <1>5
<1>7. [q EXCEPT !.pc = pc] = [pc |-> pc, value |-> v, acks |-> a, peer |-> p] BY <1>6
<1>8. s = [q EXCEPT !.pc = pc] BY <1>2, <1>3, <1>5 DEF Recount
<1>9. s = [pc |-> pc, value |-> v, acks |-> a, peer |-> p] BY <1>7, <1>8
<1> QED BY <1>2, <1>9 DEF State

LEMMA LeaderTurns ==
  ASSUME NetOK, Turns, DuplicateRequestLeader, doubled' = {} PROVE Turns'
<1>1. Recv(0, "twice") /\ Unreported /\ 0 \in Peer /\ 0 # Client /\ Client \in Node
  BY Peers DEF DuplicateRequestLeader
<1>2. st[0] \in State /\ st[0].pc = "twice" BY <1>1 DEF NetOK, ClusterType, Recv
<1>3. PICK e : InTurn(e) /\ e.from = From(0) /\ e.to = 0 /\ e.body = Body(0) BY <1>1, ReaderInTurn
<1>4. /\ From(0) = Client /\ Body(0) = Plain("request")
      /\ \/ st[Client].pc = "asked" /\ TakenNone
         \/ st[Client].pc = "again" /\ TakenOne
  BY <1>1, <1>3 DEF InTurn
<1>5. Body(0).kind = "request" BY <1>4, TurnWords
<1>6. ASSUME NEW s \in State, s.pc \in {"twice", "done"}, NEW x \in Message,
             Become(0, s, <<<<Client, x>>>>),
             \/ /\ st[Client].pc = "asked" /\ s.pc = "twice" /\ s.value = 1 /\ s.acks = 1
                /\ x = Msg("applied", 1)
             \/ st[Client].pc = "again" /\ s.pc = "done" /\ x = Msg("applied", 2)
      PROVE  Turns'
  <2>1. PICK out, a, n : a = Client /\ n = 0 /\ out = <<<<a, x>>>> OBVIOUS
  <2>2. out \in Seq(Node \X Message) /\ Become(0, s, out) BY <1>1, <1>6, <2>1, Lists
  <2>3. /\ \A m \in DOMAIN posted : Gone(m)'
        /\ Posts(0, out) /\ st'[0] = s /\ \A r \in Peer : r # 0 => st'[r] = st[r]
    BY <1>1, <1>6, <2>2, HeardTurn DEF Owing
  <2>4. st'[1] = st[1] /\ st'[2] = st[2] /\ st'[Client] = st[Client] BY <2>3, Peers
  <2>5. Alternating' BY <1>1, <1>6, <2>3, <2>4 DEF Turns, Alternating, Unreported
  <2>6. Sole(out, a, x) /\ Posts(n, out) BY <2>1, <2>3 DEF Sole
  <2>7. PICK p : Adds({p}) /\ posted'[p] = [from |-> n, to |-> a, body |-> x] BY <2>6, AddedSole
  <2>8. ASSUME NEW d, d.from = n /\ d.to = a /\ d.body = x PROVE InTurn(d)'
    <3>1. \/ st'[Client].pc = "asked" /\ TakenOne' /\ d.body = Msg("applied", 1)
          \/ st'[Client].pc = "again" /\ TakenBoth' /\ d.body = Msg("applied", 2)
      BY <1>6, <2>3, <2>4, <2>8 DEF TakenOne, TakenBoth
    <3> QED BY <2>1, <2>8, <3>1 DEF InTurn
  <2> QED BY <2>3, <2>5, <2>7, <2>8, NextTurn
<1>7. PICK applied : applied = st[0].value + 1 OBVIOUS
<1>8. Become(0, [st[0] EXCEPT !.value = applied, !.acks = @ + 1,
                              !.pc = IF st[0].acks = 1 THEN "done" ELSE "twice"],
             <<<<Client, Msg("applied", applied)>>>>)
  BY <1>4, <1>5, <1>7 DEF DuplicateRequestLeader
<1>9. CASE st[Client].pc = "asked" /\ TakenNone
  <2>1. st[0].value = 0 /\ st[0].acks = 0 BY <1>2, <1>9 DEF TakenNone
  <2>2. PICK s : s = [st[0] EXCEPT !.value = 1, !.acks = 1, !.pc = "twice"] OBVIOUS
  <2>3. s \in State /\ s.pc = "twice" /\ s.value = 1 /\ s.acks = 1
    <3>1. PICK v, pc : v = 1 /\ pc = "twice" OBVIOUS
    <3>2. s = [st[0] EXCEPT !.value = v, !.acks = v, !.pc = pc] BY <2>2, <3>1
    <3>3. v \in Int /\ pc \in Pc BY <3>1 DEF Pc
    <3>4. PICK o \in State : o = st[0] BY <1>2
    <3>5. s = Recount(o, v, v, pc) BY <3>2, <3>4 DEF Recount
    <3>6. s \in State /\ s.pc = pc /\ s.value = v /\ s.acks = v BY <3>3, <3>5, Recounted
    <3> QED BY <3>1, <3>6
  <2>4. applied = 1 BY <1>7, <2>1
  <2>5. Become(0, s, <<<<Client, Msg("applied", 1)>>>>) BY <1>8, <2>1, <2>2, <2>4
  <2> QED BY <1>6, <1>9, <2>3, <2>5, TurnWords
<1>10. CASE st[Client].pc = "again" /\ TakenOne
  <2>1. st[0].value = 1 /\ st[0].acks = 1 BY <1>10 DEF TakenOne
  <2>2. PICK s : s = [st[0] EXCEPT !.value = 2, !.acks = 2, !.pc = "done"] OBVIOUS
  <2>3. s \in State /\ s.pc = "done"
    <3>1. PICK v, pc : v = 2 /\ pc = "done" OBVIOUS
    <3>2. s = [st[0] EXCEPT !.value = v, !.acks = v, !.pc = pc] BY <2>2, <3>1
    <3>3. v \in Int /\ pc \in Pc BY <3>1 DEF Pc
    <3>4. PICK o \in State : o = st[0] BY <1>2
    <3>5. s = Recount(o, v, v, pc) BY <3>2, <3>4 DEF Recount
    <3>6. s \in State /\ s.pc = pc /\ s.value = v /\ s.acks = v BY <3>3, <3>5, Recounted
    <3> QED BY <3>1, <3>6
  <2>4. applied = 2 BY <1>7, <2>1
  <2>5. Become(0, s, <<<<Client, Msg("applied", 2)>>>>) BY <1>8, <2>1, <2>2, <2>4
  <2> QED BY <1>6, <1>10, <2>3, <2>5, TurnWords
<1> QED BY <1>4, <1>9, <1>10

LEMMA BootTurns ==
  ASSUME NetOK, Turns, Bug = "DuplicateClientRequest", NEW n \in {0, 1, 2}, Boot(n) PROVE Turns'
<1>1. n \in Peer /\ st[n].pc = "boot" BY Peers DEF Boot
<1>2. PICK s : s = Role(n) OBVIOUS
<1>3. /\ s \in State
      /\ n = 0 => s.pc = "twice" /\ s.value = 0 /\ s.acks = 0
      /\ n # 0 => s.pc = "follow"
  <2>1. "twice" \in Pc /\ "follow" \in Pc BY DEF Pc
  <2>2. n = 0 => s = [Waiting("twice") EXCEPT !.value = 0] BY <1>2 DEF Role, Visible
  <2>3. n # 0 => s = Waiting("follow") BY <1>2 DEF Role
  <2>4. Waiting("follow") \in State /\ Waiting("follow").pc = "follow" BY <2>1, WaitingIs
  <2>5. PICK w : w = [Waiting("twice") EXCEPT !.value = 0] OBVIOUS
  <2>6. w \in State /\ w.pc = "twice" /\ w.value = 0 /\ w.acks = 0
    BY <2>1, <2>5 DEF Waiting, State, None
  <2> QED BY <2>2, <2>3, <2>4, <2>5, <2>6
<1>4. PICK out \in Seq(Node \X Message) :
        /\ Become(n, s, out) /\ box' = box /\ Unreported
        /\ DOMAIN out = DOMAIN Announced(n)
  BY <1>2, Boots
<1>5. out = <<>>
  <2>1. PICK says : says = Announced(n) /\ says = <<>> BY DEF Announced
  <2>2. DOMAIN out = {} BY <1>4, <2>1
  <2>3. out # <<>> => Len(out) >= 1 BY EmptySeq, LenProperties
  <2>4. DOMAIN out = 1 .. Len(out) /\ Len(out) \in Nat BY LenProperties
  <2>5. ASSUME Len(out) >= 1 PROVE FALSE
    <3>1. 1 \in 1 .. Len(out) BY <2>4, <2>5
    <3> QED BY <2>2, <2>4, <3>1
  <2> QED BY <2>3, <2>5
<1>6. s.pc \notin Owing
  <2>1. s.pc \in {"twice", "follow"} BY <1>3
  <2> QED BY <2>1 DEF Owing
<1>7. Reads(n, {}) BY <1>4 DEF Reads
<1>8. Passes({}) /\ Posts(n, out) /\ st'[n] = s /\ \A r \in Peer : r # n => st'[r] = st[r]
  BY <1>1, <1>3, <1>4, <1>6, <1>7, MovedOn
<1>9. Posts(n, <<>>) BY <1>5, <1>8
<1>10. Adds({}) BY <1>9, AddedNone
<1>11. st'[Client] = st[Client] /\ \A r \in {0, 1, 2} : r # n => st'[r] = st[r] BY <1>8, Peers
<1>12. TakenNone => TakenNone'
  BY <1>1, <1>3, <1>8, <1>11 DEF TakenNone
<1>13. TakenOne => TakenOne'
  <2>1. TakenOne => n # 0 BY <1>1 DEF TakenOne
  <2> QED BY <1>11, <2>1 DEF TakenOne
<1>14. TakenBoth => TakenBoth'
  <2>1. TakenBoth => n # 0 BY <1>1 DEF TakenBoth
  <2> QED BY <1>11, <2>1 DEF TakenBoth
<1>15. Alternating'
  <2>1. \A r \in {1, 2} : st'[r].pc \in {"boot", "follow"}
    BY <1>3, <1>8, <1>11 DEF Turns, Alternating
  <2>2. st'[0].pc \in {"boot", "twice", "done"}
    BY <1>3, <1>8, <1>11 DEF Turns, Alternating
  <2> QED BY <1>4, <1>11, <1>12, <2>1, <2>2 DEF Turns, Alternating, Unreported
<1>16. ASSUME NEW m \in DOMAIN posted', ~Gone(m)' PROVE m \in DOMAIN posted /\ ~Gone(m) /\ InTurn(posted[m])'
  <2>1. m \in DOMAIN posted /\ posted'[m] = posted[m] /\ ~Gone(m) BY <1>8, <1>10, <1>16 DEF Adds, Passes
  <2>2. PICK d : d = posted[m] /\ d = posted'[m] BY <2>1
  <2>3. InTurn(d) BY <2>1, <2>2 DEF Turns
  <2>4. InTurn(d)' BY <1>11, <1>12, <1>13, <1>14, <2>3 DEF InTurn
  <2> QED BY <2>1, <2>2, <2>4 DEF InTurn
<1>17. \A m, k \in DOMAIN posted' : ~Gone(m)' /\ ~Gone(k)' => m = k BY <1>16 DEF Turns
<1> QED BY <1>15, <1>16, <1>17 DEF Turns

\* The client asks.
LEMMA AskTurns ==
  ASSUME NetOK, Turns, NEW pc \in {"asked", "again"}, Call(0, Plain("request"), pc), ops' = ops,
         st[Client].pc # "done", NEW T, Reads(Client, T), Passes(T) => \A m \in DOMAIN posted : Gone(m)',
         pc = "asked" => TakenNone, pc = "again" => TakenOne
  PROVE  Turns'
<1>1. Client \in Peer /\ Client # 0 BY Peers
<1>2. PICK s \in State : s = At(Client, pc) /\ s.pc = pc
  <2>1. pc \in Pc BY DEF Pc
  <2> QED BY <1>1, <2>1, Stands DEF NetOK
<1>3. PICK out, a, x : x = Plain("request") /\ a = 0 /\ out = <<<<a, x>>>> OBVIOUS
<1>4. out \in Seq(Node \X Message)
  <2>1. a \in Node /\ x \in Message BY <1>3, Peers, TurnWords
  <2> QED BY <1>3, <2>1, Lists
<1>5. Become(Client, s, out) BY <1>2, <1>3 DEF Call
<1>6. /\ Passes(T) /\ Posts(Client, out) /\ st'[Client] = s /\ \A r \in Peer : r # Client => st'[r] = st[r]
  BY <1>1, <1>2, <1>4, <1>5, MovedOn
<1>7. \A m \in DOMAIN posted : Gone(m)' BY <1>6
<1>8. st'[0] = st[0] /\ st'[1] = st[1] /\ st'[2] = st[2] BY <1>6, Peers
<1>9. Sole(out, a, x) BY <1>3 DEF Sole
<1>10. PICK p : Adds({p}) /\ posted'[p] = [from |-> Client, to |-> a, body |-> x]
  BY <1>6, <1>9, AddedSole
<1>11. Alternating' BY <1>2, <1>6, <1>8 DEF Turns, Alternating
<1>12. ASSUME NEW d, d.from = Client /\ d.to = a /\ d.body = x PROVE InTurn(d)'
  <2>1. TakenNone => TakenNone' BY <1>8 DEF TakenNone
  <2>2. TakenOne => TakenOne' BY <1>8 DEF TakenOne
  <2>3. st'[Client].pc = pc BY <1>2, <1>6
  <2> QED BY <1>3, <1>12, <2>1, <2>2, <2>3 DEF InTurn
<1> QED BY <1>7, <1>10, <1>11, <1>12, NextTurn

LEMMA StartTurns ==
  ASSUME NetOK, Turns, Bug = "DuplicateClientRequest", RaftStart PROVE Turns'
<1>1. /\ st[Client].pc = "start" /\ box' = box /\ ops' = ops /\ Call(0, Plain("request"), "asked")
  BY DEF RaftStart, Unreported
<1>2. TakenNone BY <1>1 DEF Turns, Alternating
<1>3. \A m \in DOMAIN posted : Gone(m)
  <2>1. ASSUME NEW d PROVE ~InTurn(d) BY <1>1 DEF InTurn
  <2> QED BY <2>1 DEF Turns
<1>4. PICK T : T = {} OBVIOUS
<1>5. Reads(Client, T) BY <1>1, <1>4 DEF Reads
<1>6. Passes(T) => \A m \in DOMAIN posted : Gone(m)' BY <1>3 DEF Passes
<1>7. PICK pc : pc = "asked" OBVIOUS
<1>8. pc \in {"asked", "again"} /\ Call(0, Plain("request"), pc) /\ pc # "again" /\ st[Client].pc # "done"
  BY <1>1, <1>7
<1> QED BY <1>1, <1>2, <1>5, <1>6, <1>8, AskTurns

LEMMA ClientTurns == ASSUME NetOK, Turns, DuplicateRequestClient, doubled' = {} PROVE Turns'
<1>1. Client \in Peer /\ Client # 0 BY Peers
<1>2. CASE Recv(Client, "asked") /\ Unreported /\ Call(0, Plain("request"), "again")
  <2>1. st[Client].pc = "asked" BY <1>2 DEF Recv
  <2>2. PICK d : InTurn(d) /\ d.to = Client BY <1>1, <1>2, ReaderInTurn
  <2>3. TakenOne BY <1>1, <2>1, <2>2 DEF InTurn
  <2>4. PICK f, T : f = First(Client) /\ T = {f} OBVIOUS
  <2>5. Reads(Client, T) BY <1>1, <1>2, <2>4, Received
  <2>6. Passes(T) => \A m \in DOMAIN posted : Gone(m)' BY <2>4, AllRead
  <2>7. PICK pc : pc = "again" OBVIOUS
  <2>8. /\ pc \in {"asked", "again"} /\ Call(0, Plain("request"), pc) /\ pc # "asked"
        /\ st[Client].pc # "done" /\ ops' = ops
    BY <1>2, <2>1, <2>7 DEF Unreported
  <2> QED BY <2>3, <2>5, <2>6, <2>8, AskTurns
<1>3. CASE /\ Recv(Client, "again")
           /\ IF Body(Client) = Msg("applied", 2)
              THEN /\ ops' = Double
                   /\ UNCHANGED <<system, labels>>
              ELSE Unreported
           /\ Become(Client, At(Client, "done"), <<>>)
  <2>1. st[Client].pc = "again" BY <1>3 DEF Recv
  <2>2. PICK d : InTurn(d) /\ d.to = Client /\ d.body = Body(Client) BY <1>1, <1>3, ReaderInTurn
  <2>3. ops' = Double BY <1>1, <1>3, <2>1, <2>2 DEF InTurn
  <2>4. PICK s \in State : s = At(Client, "done") /\ s.pc = "done"
    <3>1. "done" \in Pc BY DEF Pc
    <3> QED BY <1>1, <3>1, Stands DEF NetOK
  <2>5. PICK out : out = <<>> OBVIOUS
  <2>6. out \in Seq(Node \X Message) /\ Become(Client, s, out) BY <1>3, <2>4, <2>5
  <2>7. /\ \A m \in DOMAIN posted : Gone(m)'
        /\ Posts(Client, out) /\ st'[Client] = s /\ \A r \in Peer : r # Client => st'[r] = st[r]
    BY <1>1, <1>3, <2>6, HeardTurn
  <2>8. Adds({}) BY <2>5, <2>7, AddedNone
  <2>9. st'[0] = st[0] /\ st'[1] = st[1] /\ st'[2] = st[2] BY <2>7, Peers
  <2>10. Alternating' BY <2>3, <2>4, <2>7, <2>9 DEF Turns, Alternating
  <2> QED BY <2>7, <2>8, <2>10, NoTurn
<1> QED BY <1>2, <1>3 DEF DuplicateRequestClient, Double

LEMMA RaftTurns ==
  ASSUME NetOK, Turns, Bug = "DuplicateClientRequest", RaftNext, doubled' = {} PROVE Turns'
<1>1. /\ st[0].pc \notin {"lead", "acks-lead", "first", "second", "stale", "any"}
      /\ st[Client].pc \notin {"put", "got"} /\ \A n \in {1, 2} : st[n].pc # "once"
  BY DEF Turns, Alternating
<1>2. CASE DuplicateRequestLeader BY <1>2, LeaderTurns
<1>3. CASE \E n \in Replica : Boot(n) BY <1>3, BootTurns, Peers
<1>4. CASE RaftStart BY <1>4, StartTurns
<1>5. CASE DuplicateRequestClient BY <1>5, ClientTurns
<1>6. ASSUME NEW n \in {1, 2} PROVE ~Follower(n)
  <2>1. n \in Peer /\ n \notin {0, Client} BY Peers
  <2> QED BY <2>1, ReaderInTurn DEF Follower
<1>7. ~Collect
  <2>1. Observer \in Peer /\ Observer \notin {0, Client} BY Peers
  <2> QED BY <2>1, ReaderInTurn DEF Collect
<1>8. \A n \in {1, 2} : ~OneShot(n) BY <1>1 DEF OneShot, Recv
<1>9. ~Leader /\ ~AwaitAck(0, "acks-lead", "lead") /\ ~VisibleBugLeader /\ ~StaleReadLeader
      /\ ~RaftPut /\ ~RaftGet
  BY <1>1 DEF Leader, AwaitAck, VisibleBugLeader, StaleReadLeader, RaftPut, RaftGet, Recv
<1> QED BY <1>2, <1>3, <1>4, <1>5, <1>6, <1>7, <1>8, <1>9 DEF RaftNext

-----------------------------------------------------------------------------
(* The two leaders of one term *)

\* What node n has told the observer: two labels, once it has started.
Spoken(n) == IF st[n].pc = "boot" THEN 0 ELSE 2
Avows(n) == \E m \in DOMAIN posted : posted[m].body = Msg("leader", n)

\* Each label the observer has collected came in a letter of its own.
Collected ==
  \E R \in SUBSET DOMAIN posted :
    /\ IsFiniteSet(R) /\ Cardinality(R) = Len(labels)
    /\ \A m \in R : Gone(m) /\ \E k \in DOMAIN labels : labels[k] = posted[m].body

Twins ==
  /\ st[Client].pc \in {"start", "done"} /\ st[2].pc \in {"boot", "follow"}
  /\ \A n \in {0, 1} : st[n].pc \in {"boot", "done"} /\ (st[n].pc = "done" => Avows(n))
  /\ \A m \in DOMAIN posted : posted[m].to = Observer
  /\ Len(posted) = Spoken(0) + Spoken(1)
  /\ labels \in Seq(Message) /\ Collected
  /\ st[Observer].pc = "done" => Len(labels) = 4

\* No letter changes, and what was read stays read.
Keeps ==
  \A m \in DOMAIN posted : m \in DOMAIN posted' /\ posted'[m] = posted[m] /\ (Gone(m) => Gone(m)')

LEMMA PassesKeep == ASSUME NEW T, Passes(T) PROVE Keeps
BY DEF Passes, Keeps

LEMMA CollectedStill ==
  ASSUME Collected, labels' = labels, Keeps PROVE Collected'
<1>1. PICK R \in SUBSET DOMAIN posted :
        /\ IsFiniteSet(R) /\ Cardinality(R) = Len(labels)
        /\ \A m \in R : Gone(m) /\ \E k \in DOMAIN labels : labels[k] = posted[m].body
  BY DEF Collected
<1>2. \A m \in R : m \in DOMAIN posted' /\ posted'[m] = posted[m] /\ Gone(m)' BY <1>1 DEF Keeps
<1>3. R \in SUBSET DOMAIN posted' BY <1>2
<1>4. \A m \in R : Gone(m)' /\ \E k \in DOMAIN labels' : labels'[k] = posted'[m].body BY <1>1, <1>2
<1> QED BY <1>1, <1>3, <1>4 DEF Collected

LEMMA AvowsStill == ASSUME NEW n, Avows(n), Keeps PROVE Avows(n)'
<1>1. PICK m \in DOMAIN posted : posted[m].body = Msg("leader", n) BY DEF Avows
<1>2. m \in DOMAIN posted' /\ posted'[m] = posted[m] BY DEF Keeps
<1> QED BY <1>1, <1>2 DEF Avows

LEMMA TwinsStill ==
  ASSUME Twins, posted' = posted, labels' = labels, st' = st, Keeps PROVE Twins'
<1>1. Collected' BY CollectedStill DEF Twins
<1>2. \A n : Avows(n)' <=> Avows(n) BY DEF Avows
<1>3. \A n : Spoken(n)' = Spoken(n) BY DEF Spoken
<1>4. /\ \A n \in {0, 1} : st'[n].pc \in {"boot", "done"} /\ (st'[n].pc = "done" => Avows(n)')
  BY <1>2 DEF Twins
<1>5. Len(posted') = Spoken(0)' + Spoken(1)' BY <1>3 DEF Twins
<1> QED BY <1>1, <1>4, <1>5 DEF Twins

LEMMA LongerBy ==
  ASSUME NetOK, NEW n, NEW out, Posts(n, out), NEW c \in Nat, DOMAIN out = 1 .. c, Len(out) \in Nat,
         DOMAIN out = 1 .. Len(out)
  PROVE  Len(posted') = Len(posted) + c
<1>1. Len(posted) \in Nat /\ DOMAIN posted' = 1 .. Len(posted) + Len(out) /\ posted' \in Seq(Letter)
  BY Fresh DEF Posts
<1>2. Len(posted') \in Nat /\ DOMAIN posted' = 1 .. Len(posted') BY <1>1, LenProperties
<1>3. \A a, b \in Nat : 1 .. a = 1 .. b => a = b
  <2>1. ASSUME NEW a \in Nat, NEW b \in Nat, 1 .. a = 1 .. b, a < b PROVE FALSE
    <3>1. b \in 1 .. b /\ b \notin 1 .. a BY <2>1
    <3> QED BY <2>1, <3>1
  <2> QED BY <2>1
<1>4. Len(out) = c BY <1>3
<1>5. Len(posted) + Len(out) \in Nat BY <1>1
<1>6. Len(posted') = Len(posted) + Len(out) BY <1>1, <1>2, <1>3, <1>5
<1> QED BY <1>4, <1>6

LEMMA BootTwins ==
  ASSUME NetOK, Twins, Bug = "DualLeaderUnderPartition", NEW n \in {0, 1, 2}, Boot(n) PROVE Twins'
<1>1. n \in Peer /\ st[n].pc = "boot" BY Peers DEF Boot
<1>2. PICK s : s = Role(n) OBVIOUS
<1>3. s \in State /\ s.pc = (IF n = 2 THEN "follow" ELSE "done") /\ s.pc \notin Owing
  <2>1. {"done", "follow"} \subseteq Pc BY DEF Pc
  <2>2. n # 2 => s = Waiting("done")
    <3>1. n # 2 => n < 2 OBVIOUS
    <3> QED BY <1>2, <3>1 DEF Role, Visible
  <2>3. n = 2 => s = Waiting("follow") BY <1>2 DEF Role
  <2>4. \A pc \in {"done", "follow"} : Waiting(pc) \in State /\ Waiting(pc).pc = pc BY <2>1, WaitingIs
  <2>5. "done" \notin Owing /\ "follow" \notin Owing BY DEF Owing
  <2> QED BY <2>2, <2>3, <2>4, <2>5
<1>4. PICK out \in Seq(Node \X Message) :
        /\ Become(n, s, out) /\ box' = box /\ Unreported
        /\ DOMAIN out = DOMAIN Announced(n)
        /\ \A k \in DOMAIN out : out[k][1] = Observer /\ out[k][2] = Announced(n)[k]
  BY <1>2, Boots
<1>5. DOMAIN out = 1 .. (IF n = 2 THEN 0 ELSE 2) /\ (n # 2 => out[1][2] = Msg("leader", n))
  <2>1. CASE n = 2
    <3>1. PICK says : says = Announced(n) /\ says = <<>> BY <2>1 DEF Announced
    <3> QED BY <1>4, <2>1, <3>1
  <2>2. CASE n # 2
    <3>1. PICK a, b : a = Msg("leader", n) /\ b = Plain("single-leader-per-term") OBVIOUS
    <3>4. n < 2 BY <2>2
    <3>5. Announced(n) = <<Msg("leader", n), Plain("single-leader-per-term")>> BY <3>4 DEF Announced
    <3>2. PICK says : says = Announced(n) /\ says = <<a, b>> BY <3>1, <3>5
    <3>3. DOMAIN says = 1 .. 2 /\ says[1] = a /\ 1 \in DOMAIN says BY <3>2
    <3> QED BY <1>4, <2>2, <3>1, <3>2, <3>3
  <2> QED BY <2>1, <2>2
<1>6. Reads(n, {}) BY <1>4 DEF Reads
<1>7. /\ Passes({}) /\ Gains(Letters(n, out)) /\ Posts(n, out)
      /\ st'[n] = s /\ \A r \in Peer : r # n => st'[r] = st[r]
  BY <1>1, <1>3, <1>4, <1>6, MovedOn
<1>8. Len(out) \in Nat /\ DOMAIN out = 1 .. Len(out) BY LenProperties
<1>20. Keeps BY <1>7, PassesKeep
<1>9. PICK c \in Nat : c = IF n = 2 THEN 0 ELSE 2 OBVIOUS
<1>10. Len(posted') = Len(posted) + c
  <2>1. DOMAIN out = 1 .. c BY <1>5, <1>9
  <2> QED BY <1>7, <1>8, <2>1, LongerBy
<1>11. \A r \in {0, 1, 2, Client, Observer} : r # n => st'[r] = st[r] BY <1>7, Peers
<1>12. n # 2 => Avows(n)'
  <2> SUFFICES ASSUME n # 2 PROVE Avows(n)' OBVIOUS
  <2>1. PICK a, x : a = Observer /\ x = Msg("leader", n) OBVIOUS
  <2>2. 1 \in DOMAIN out /\ out[1][1] = a /\ out[1][2] = x BY <1>4, <1>5, <2>1
  <2>3. PICK T : T = {} OBVIOUS
  <2>4. Passes(T) BY <1>7, <2>3
  <2>5. PICK p \in DOMAIN posted' : posted'[p].body = x BY <1>7, <1>8, <2>2, <2>4, Sends
  <2> QED BY <2>1, <2>5 DEF Avows
<1>13. ASSUME NEW r \in {0, 1} PROVE st'[r].pc \in {"boot", "done"} /\ (st'[r].pc = "done" => Avows(r)')
  <2>1. CASE r = n BY <1>3, <1>7, <1>12, <2>1
  <2>2. CASE r # n
    <3>1. st'[r] = st[r] BY <1>11, <2>2
    <3>2. Avows(r) => Avows(r)' BY <1>20, AvowsStill
    <3> QED BY <3>1, <3>2 DEF Twins
  <2> QED BY <2>1, <2>2
<1>14. Spoken(0)' + Spoken(1)' = Spoken(0) + Spoken(1) + c
  <2>1. \A r \in {0, 1} : r # n => Spoken(r)' = Spoken(r) BY <1>11 DEF Spoken
  <2>2. n # 2 => Spoken(n)' = 2 /\ Spoken(n) = 0 BY <1>1, <1>3, <1>7 DEF Spoken
  <2>3. Spoken(0) \in Nat /\ Spoken(1) \in Nat BY DEF Spoken
  <2>4. CASE n = 0
    <3>1. Spoken(0)' = 2 /\ Spoken(0) = 0 /\ Spoken(1)' = Spoken(1) /\ c = 2 BY <1>9, <2>1, <2>2, <2>4
    <3> QED BY <2>3, <3>1
  <2>5. CASE n = 1
    <3>1. Spoken(1)' = 2 /\ Spoken(1) = 0 /\ Spoken(0)' = Spoken(0) /\ c = 2 BY <1>9, <2>1, <2>2, <2>5
    <3> QED BY <2>3, <3>1
  <2>6. CASE n = 2
    <3>1. Spoken(1)' = Spoken(1) /\ Spoken(0)' = Spoken(0) /\ c = 0 BY <1>9, <2>1, <2>6
    <3> QED BY <2>3, <3>1
  <2> QED BY <2>4, <2>5, <2>6
<1>15. \A m \in DOMAIN posted' : posted'[m].to = Observer
  <2>1. ASSUME NEW d \in Letters(n, out) PROVE d.to = Observer
    <3>1. PICK k \in DOMAIN out : d = [from |-> n, to |-> out[k][1], body |-> out[k][2]] BY DEF Letters
    <3> QED BY <1>4, <3>1
  <2> QED BY <1>7, <2>1 DEF Gains, Twins
<1>16. labels' = labels BY <1>4 DEF Unreported
<1>17. Collected' BY <1>16, <1>20, CollectedStill DEF Twins
<1>18. st'[2].pc \in {"boot", "follow"} /\ st'[Client] = st[Client] /\ st'[Observer] = st[Observer]
  BY <1>3, <1>7, <1>11, Peers DEF Twins
<1>19. Len(posted') = Spoken(0)' + Spoken(1)' BY <1>10, <1>14 DEF Twins
<1> QED BY <1>13, <1>15, <1>16, <1>17, <1>18, <1>19 DEF Twins

LEMMA StartTwins == ASSUME NetOK, Twins, Bug = "DualLeaderUnderPartition", RaftStart PROVE Twins'
<1>1. Client \in Peer /\ Client # 0 BY Peers
<1>2. PICK s \in State : s = At(Client, "done") /\ s.pc = "done"
  <2>1. "done" \in Pc BY DEF Pc
  <2> QED BY <1>1, <2>1, Stands DEF NetOK
<1>3. PICK out : out = <<>> OBVIOUS
<1>4. out \in Seq(Node \X Message) /\ Become(Client, s, out) /\ box' = box /\ Unreported
  BY <1>2, <1>3 DEF RaftStart
<1>5. Reads(Client, {}) BY <1>4 DEF Reads
<1>6. /\ Passes({}) /\ Gains(Letters(Client, out)) /\ Posts(Client, out)
      /\ st'[Client] = s /\ \A r \in Peer : r # Client => st'[r] = st[r]
  BY <1>1, <1>2, <1>4, <1>5, MovedOn
<1>7. Letters(Client, out) = {} BY <1>3, LetterNone
<1>17. Keeps BY <1>6, PassesKeep
<1>8. PICK c \in Nat : c = 0 OBVIOUS
<1>9. Len(posted') = Len(posted) + c
  <2>1. DOMAIN out = 1 .. c BY <1>3, <1>8
  <2>2. Len(out) \in Nat /\ DOMAIN out = 1 .. Len(out) BY <1>4, LenProperties
  <2> QED BY <1>6, <2>1, <2>2, LongerBy
<1>10. st'[0] = st[0] /\ st'[1] = st[1] /\ st'[2] = st[2] /\ st'[Observer] = st[Observer] BY <1>6, Peers
<1>11. \A r \in {0, 1} : st'[r].pc \in {"boot", "done"} /\ (st'[r].pc = "done" => Avows(r)')
  BY <1>10, <1>17, AvowsStill DEF Twins
<1>12. Spoken(0)' = Spoken(0) /\ Spoken(1)' = Spoken(1) /\ Spoken(0) \in Nat /\ Spoken(1) \in Nat
  BY <1>10 DEF Spoken
<1>13. Len(posted') = Spoken(0)' + Spoken(1)' BY <1>8, <1>9, <1>12 DEF Twins
<1>14. \A m \in DOMAIN posted' : posted'[m].to = Observer BY <1>6, <1>7 DEF Gains, Twins
<1>15. labels' = labels BY <1>4 DEF Unreported
<1>16. Collected' BY <1>15, <1>17, CollectedStill DEF Twins
<1> QED BY <1>2, <1>6, <1>10, <1>11, <1>13, <1>14, <1>15, <1>16 DEF Twins

LEMMA CollectTwins == ASSUME NetOK, Twins, Collect, doubled' = {} PROVE Twins'
<1>1. /\ Recv(Observer, "collect") /\ Observer \in Peer /\ UNCHANGED <<posted, wire, doubled>>
      /\ labels' = Append(labels, Body(Observer))
  BY Peers DEF Collect
<1>2. PICK f, T : f = First(Observer) /\ T = {f} OBVIOUS
<1>3. Reads(Observer, T) /\ f \in DOMAIN posted /\ Body(Observer) = posted[f].body
      /\ Body(Observer) \in Message
  BY <1>1, <1>2, Received
<1>4. Passes(T) BY <1>1, <1>3, PassedOver
<1>22. Keeps BY <1>4, PassesKeep
<1>5. ~Gone(f) /\ Gone(f)' BY <1>2, <1>4 DEF Passes
<1>6. labels \in Seq(Message) BY DEF Twins
<1>7. PICK b \in Message : b = Body(Observer) BY <1>3
<1>8. /\ labels' = Append(labels, b) /\ labels' \in Seq(Message) /\ Len(labels') = Len(labels) + 1
      /\ \A i \in 1 .. Len(labels) : labels'[i] = labels[i]
      /\ labels'[Len(labels) + 1] = b
      /\ Len(labels) \in Nat /\ DOMAIN labels = 1 .. Len(labels)
  BY <1>1, <1>6, <1>7, AppendProperties, LenProperties
<1>9. DOMAIN labels' = 1 .. Len(labels) + 1 BY <1>8, LenProperties
<1>10. PICK R \in SUBSET DOMAIN posted :
         /\ IsFiniteSet(R) /\ Cardinality(R) = Len(labels)
         /\ \A m \in R : Gone(m) /\ \E k \in DOMAIN labels : labels[k] = posted[m].body
  BY DEF Twins, Collected
<1>11. f \notin R BY <1>5, <1>10
<1>12. PICK Q : Q = R \union {f} OBVIOUS
<1>13. IsFiniteSet(Q) /\ Cardinality(Q) = Len(labels')
  <2>1. IsFiniteSet(Q) /\ Cardinality(Q) = IF f \in R THEN Cardinality(R) ELSE Cardinality(R) + 1
    BY <1>10, <1>12, FS_AddElement
  <2>2. Cardinality(Q) = Cardinality(R) + 1 BY <1>11, <2>1
  <2> QED BY <1>8, <1>10, <2>1, <2>2
<1>14. ASSUME NEW m \in Q PROVE Gone(m)' /\ \E k \in DOMAIN labels' : labels'[k] = posted'[m].body
  <2>1. CASE m = f
    <3>1. Len(labels) + 1 \in DOMAIN labels' BY <1>8, <1>9
    <3> QED BY <1>1, <1>3, <1>5, <1>7, <1>8, <2>1, <3>1
  <2>2. CASE m \in R
    <3>1. m \in DOMAIN posted /\ Gone(m) BY <1>10, <2>2
    <3>2. Gone(m)' BY <1>4, <3>1 DEF Passes
    <3>3. PICK k \in DOMAIN labels : labels[k] = posted[m].body BY <1>10, <2>2
    <3>4. k \in DOMAIN labels' /\ labels'[k] = labels[k] BY <1>8, <1>9
    <3> QED BY <1>1, <3>2, <3>3, <3>4
  <2> QED BY <1>12, <2>1, <2>2
<1>15. Collected'
  <2>1. Q \in SUBSET DOMAIN posted' BY <1>1, <1>3, <1>12
  <2> QED BY <1>13, <1>14, <2>1 DEF Collected
<1>16. \A r \in {0, 1, 2, Client} : st'[r] = st[r] BY Collects
<1>17. st'[0] = st[0] /\ st'[1] = st[1] /\ st'[2] = st[2] /\ st'[Client] = st[Client] BY <1>16
<1>18. st'[Observer].pc = "done" => Len(labels') = 4
  <2>1. st \in [Peer -> State] BY DEF NetOK, ClusterType
  <2>2. PICK s : s = [st[Observer] EXCEPT !.pc = IF Len(labels) = 3 THEN "done" ELSE "collect"] OBVIOUS
  <2>3. s.pc = IF Len(labels) = 3 THEN "done" ELSE "collect"
    <3>1. st[Observer] \in State BY <1>1, <2>1
    <3> QED BY <2>2, <3>1 DEF State
  <2>4. st' = [st EXCEPT ![Observer] = s] BY <2>2 DEF Collect
  <2>5. st'[Observer] = s BY <1>1, <2>1, <2>4
  <2>6. st'[Observer].pc = "done" => Len(labels) = 3 BY <2>3, <2>5
  <2>7. Len(labels) = 3 => Len(labels') = 4
    <3>1. PICK a, c : a = Len(labels) /\ c = Len(labels') /\ c = a + 1 BY <1>8
    <3> QED BY <3>1
  <2> QED BY <2>6, <2>7, Zenon
<1>19. posted' = posted BY <1>1
<1>20. \A r \in {0, 1} : st'[r].pc \in {"boot", "done"} /\ (st'[r].pc = "done" => Avows(r)')
  BY <1>17, <1>22, AvowsStill DEF Twins
<1>21. Len(posted') = Spoken(0)' + Spoken(1)' BY <1>17, <1>19 DEF Twins, Spoken
<1> QED BY <1>8, <1>15, <1>17, <1>18, <1>19, <1>20, <1>21 DEF Twins

LEMMA RaftTwins ==
  ASSUME NetOK, Twins, Bug = "DualLeaderUnderPartition", RaftNext, doubled' = {} PROVE Twins'
<1>1. ASSUME NEW n \in Peer, NEW at, Recv(n, at) PROVE n = Observer
  <2>1. First(n) \in DOMAIN posted /\ posted[First(n)].to = n BY <1>1, Received
  <2> QED BY <2>1 DEF Twins
<1>2. {0, 1, 2, Client} \subseteq Peer /\ Observer \notin {0, 1, 2, Client} BY Peers
<1>3. ASSUME NEW n \in {0, 1, 2, Client}, NEW at PROVE ~Recv(n, at) BY <1>1, <1>2
<1>4. CASE \E n \in Replica : Boot(n) BY <1>4, BootTwins, Peers
<1>5. CASE RaftStart BY <1>5, StartTwins
<1>6. CASE Collect BY <1>6, CollectTwins
<1>7. ~Leader /\ ~AwaitAck(0, "acks-lead", "lead") /\ ~VisibleBugLeader /\ ~StaleReadLeader
      /\ ~DuplicateRequestLeader /\ ~RaftPut /\ ~RaftGet /\ ~DuplicateRequestClient
  BY <1>3 DEF Leader, AwaitAck, VisibleBugLeader, StaleReadLeader, DuplicateRequestLeader, RaftPut,
              RaftGet, DuplicateRequestClient
<1>8. \A n \in {1, 2} : ~Follower(n) /\ ~OneShot(n) BY <1>3 DEF Follower, OneShot
<1> QED BY <1>4, <1>5, <1>6, <1>7, <1>8 DEF RaftNext

\* An observer that is done has seen both.
LEMMA BothSeen ==
  ASSUME NetOK, Twins, st[Observer].pc = "done"
  PROVE  \A n \in {0, 1} : \E k \in DOMAIN labels : labels[k] = Msg("leader", n)
<1>1. PICK R \in SUBSET DOMAIN posted :
        /\ IsFiniteSet(R) /\ Cardinality(R) = Len(labels)
        /\ \A m \in R : \E k \in DOMAIN labels : labels[k] = posted[m].body
  BY DEF Twins, Collected
<1>2. Cardinality(R) = 4 BY <1>1 DEF Twins
<1>3. Len(posted) \in Nat /\ DOMAIN posted = 1 .. Len(posted) BY Numbers DEF NetOK
<1>4. PICK P \in Nat : P = Len(posted) BY <1>3
<1>5. P = Spoken(0) + Spoken(1) /\ Spoken(0) \in {0, 2} /\ Spoken(1) \in {0, 2}
  BY <1>4 DEF Twins, Spoken
<1>6. P <= 4 BY <1>5
<1>7. IsFiniteSet(1 .. P) /\ Cardinality(1 .. P) = P
  <2>1. IsFiniteSet(1 .. P) /\ Cardinality(1 .. P) = IF 1 > P THEN 0 ELSE P - 1 + 1 BY FS_Interval
  <2> QED BY <2>1
<1>8. R \in SUBSET (1 .. P) BY <1>3, <1>4
<1>9. 4 <= P /\ (P = 4 => R = 1 .. P) BY <1>2, <1>7, <1>8, FS_Subset
<1>10. R = DOMAIN posted /\ Spoken(0) = 2 /\ Spoken(1) = 2 BY <1>3, <1>4, <1>5, <1>6, <1>9
<1>11. Avows(0) /\ Avows(1) BY <1>10 DEF Twins, Spoken
<1> QED BY <1>1, <1>10, <1>11 DEF Avows

-----------------------------------------------------------------------------
(* Every planted bug *)

PlantedOK ==
  /\ Known /\ Apart /\ lost \in Nat
  /\ Bug \in Misleading => Misled
  /\ Bug = "DuplicateRequestReapplied" => Reapplied
  /\ Bug = "FollowerAppliesUncommitted" /\ lost = 0 => Hasty
  /\ doubled = {} => /\ Bug = "DuplicateClientRequest" => Turns
                     /\ Bug = "DualLeaderUnderPartition" => Twins
                     /\ st[Observer].pc = "done" => Bug = "DualLeaderUnderPartition"

\* A handler reads a mailbox at most, and the network's faults are in what it sends.
LEMMA HandlersRead ==
  ASSUME NetOK, KvNext \/ RaftNext
  PROVE  (\E n \in Peer : \E at : Recv(n, at)) \/ box' = box
<1>1. {0, 1, 2, Client, Observer} \subseteq Peer BY Peers
<1>2. CASE KvNext
  BY <1>1, <1>2 DEF KvNext, Primary, AppendLogPrimary, AwaitAck, Follower, KvStart, SingleKeyPut,
                    SingleKeyGet, UncommittedWakes, UncommittedGet, AppendLogClient
<1>3. CASE RaftNext
  <2>1. CASE \E n \in Replica : Boot(n) BY <2>1 DEF Boot
  <2>2. CASE RaftStart BY <2>2 DEF RaftStart
  <2>3. CASE \E n \in {1, 2} : Follower(n) \/ OneShot(n) BY <1>1, <2>3 DEF Follower, OneShot
  <2>4. CASE ~RaftStart /\ ~(\E n \in Replica : Boot(n))
             /\ ~(\E n \in {1, 2} : Follower(n) \/ OneShot(n))
    BY <1>1, <1>3, <2>4 DEF RaftNext, Leader, AwaitAck, VisibleBugLeader, StaleReadLeader,
       DuplicateRequestLeader, RaftPut, RaftGet, DuplicateRequestClient, Collect
  <2> QED BY <2>1, <2>2, <2>3, <2>4
<1> QED BY <1>2, <1>3

LEMMA HandlersLose ==
  ASSUME KvNext \/ RaftNext PROVE lost' = lost /\ doubled \subseteq doubled'
<1>1. ASSUME NEW n, NEW s, NEW out, Become(n, s, out) PROVE lost' = lost /\ doubled \subseteq doubled'
  BY <1>1 DEF Become, Post
<1>2. ASSUME NEW n, NEW kinds, Ignore(n, kinds) PROVE lost' = lost /\ doubled \subseteq doubled'
  BY <1>2 DEF Ignore
<1>3. ASSUME NEW n, NEW m, NEW pc, Call(n, m, pc) PROVE lost' = lost /\ doubled \subseteq doubled'
  BY <1>1, <1>3 DEF Call
<1>4. ASSUME NEW n, NEW v, NEW ts, NEW a, NEW pc, Replicate(n, v, ts, a, pc)
      PROVE  lost' = lost /\ doubled \subseteq doubled'
  BY <1>1, <1>4 DEF Replicate
<1>5. ASSUME NEW n, NEW pc, NEW after, AwaitAck(n, pc, after)
      PROVE  lost' = lost /\ doubled \subseteq doubled'
  BY <1>1, <1>2, <1>5 DEF AwaitAck
<1>6. ASSUME NEW n, Follower(n) PROVE lost' = lost /\ doubled \subseteq doubled'
  BY <1>1, <1>2, <1>6 DEF Follower
<1>7. CASE KvNext
  <2>1. CASE Primary BY <1>1, <1>2, <1>4, <2>1 DEF Primary
  <2>2. CASE AppendLogPrimary BY <1>1, <1>2, <2>2 DEF AppendLogPrimary
  <2>3. CASE KvStart BY <1>3, <2>3 DEF KvStart
  <2>4. CASE SingleKeyPut BY <1>3, <2>4 DEF SingleKeyPut
  <2>5. CASE SingleKeyGet BY <1>1, <2>5 DEF SingleKeyGet
  <2>6. CASE UncommittedWakes \/ UncommittedGet BY <1>1, <1>3, <2>6 DEF UncommittedWakes, UncommittedGet
  <2>7. CASE AppendLogClient BY <1>1, <1>3, <2>7 DEF AppendLogClient
  <2> QED BY <1>5, <1>6, <1>7, <2>1, <2>2, <2>3, <2>4, <2>5, <2>6, <2>7 DEF KvNext
<1>8. CASE RaftNext
  <2>1. CASE Leader BY <1>1, <1>2, <1>4, <2>1 DEF Leader
  <2>2. CASE VisibleBugLeader BY <1>1, <2>2 DEF VisibleBugLeader
  <2>3. CASE StaleReadLeader BY <1>1, <1>4, <2>3 DEF StaleReadLeader
  <2>4. CASE DuplicateRequestLeader BY <1>1, <2>4 DEF DuplicateRequestLeader
  <2>5. CASE \E n \in Replica : Boot(n) BY <1>1, <2>5 DEF Boot
  <2>6. CASE \E n \in {1, 2} : OneShot(n) BY <1>1, <2>6 DEF OneShot
  <2>7. CASE RaftStart BY <1>1, <1>3, <2>7 DEF RaftStart
  <2>8. CASE RaftPut BY <1>3, <2>8 DEF RaftPut
  <2>9. CASE RaftGet BY <1>1, <2>9 DEF RaftGet
  <2>10. CASE DuplicateRequestClient BY <1>1, <1>3, <2>10 DEF DuplicateRequestClient
  <2>11. CASE Collect BY <2>11 DEF Collect
  <2> QED BY <1>5, <1>6, <1>8, <2>1, <2>2, <2>3, <2>4, <2>5, <2>6, <2>7, <2>8, <2>9, <2>10, <2>11
          DEF RaftNext
<1> QED BY <1>7, <1>8

LEMMA HandlersApart ==
  ASSUME NetOK, Apart, system' = system, KvNext \/ RaftNext PROVE Apart'
<1>1. CASE box' = box
  <2>1. PICK T : T = {} OBVIOUS
  <2>2. Reads(0, T) /\ 0 \in Node BY <1>1, <2>1, Peers DEF Reads
  <2> QED BY <2>2, ApartTakes
<1>2. CASE \E n \in Peer : \E at : Recv(n, at)
  <2>1. PICK n \in Peer : \E at : Recv(n, at) BY <1>2
  <2>2. PICK T : T = {First(n)} OBVIOUS
  <2>3. Reads(n, T) /\ n \in Node BY <2>1, <2>2, Received, Peers
  <2> QED BY <2>3, ApartTakes
<1> QED BY <1>1, <1>2, HandlersRead

\* Only the dual leaders are ever heard by the observer.
LEMMA Unheard ==
  ASSUME ProtocolsOK, PlantedOK, doubled = {}, Collect, system.proto = "raft"
  PROVE  Bug = "DualLeaderUnderPartition"
<1> SUFFICES ASSUME Bug # "DualLeaderUnderPartition" PROVE FALSE OBVIOUS
<1>1. NetOK /\ Apart /\ Recv(Observer, "collect") /\ Observer \in Peer /\ Observer \notin {0, 1, 2, Client}
  BY Peers DEF ProtocolsOK, PlantedOK, Collect
<1>2. system.cut = {<<0, Observer>>} /\ Bug \in {"Correct", "FollowerStaleRead", "DuplicateClientRequest"}
                                                 \union Visible
  BY KnownRaft DEF PlantedOK
<1>3. From(Observer) # 0 BY <1>1, <1>2, Reached
<1>4. CASE Bug = "Correct"
  <2>1. PICK d : Word(d) /\ d.to = Observer
    <3>1. First(Observer) \in DOMAIN posted /\ posted[First(Observer)].to = Observer BY <1>1, Received
    <3>2. Said BY <1>4 DEF ProtocolsOK, CorrectOK, Orderly, Bug
    <3> QED BY <3>1, <3>2 DEF Said
  <2> QED BY <1>1, <2>1 DEF Word
<1>5. CASE Bug = "DuplicateClientRequest"
  <2>1. Turns BY <1>5 DEF PlantedOK
  <2> QED BY <1>1, <2>1, ReaderInTurn
<1>6. CASE Bug \in {"FollowerStaleRead"} \union Visible
  <2>1. Misled BY <1>6 DEF PlantedOK, Misleading
  <2>2. PICK d : Bland(d) /\ d.from = From(Observer) /\ d.to = Observer BY <1>1, <2>1, Heard
  <2> QED BY <1>3, <2>2 DEF Bland
<1> QED BY <1>2, <1>4, <1>5, <1>6

\* No handler of the others ends the observer.
LEMMA ObserverWaits ==
  ASSUME NetOK, KvNext \/ (RaftNext /\ ~Collect) PROVE st'[Observer] = st[Observer]
<1>1. Observer \notin {0, 1, 2, Client} BY Peers
<1>2. st \in [Peer -> State] /\ Observer \in Peer BY Peers DEF NetOK, ClusterType
<1>3. ASSUME NEW n \in {0, 1, 2, Client}, NEW s, NEW out, Become(n, s, out)
      PROVE  st'[Observer] = st[Observer]
  BY <1>1, <1>2, <1>3 DEF Become
<1>4. ASSUME NEW n, NEW kinds, Ignore(n, kinds) PROVE st'[Observer] = st[Observer]
  BY <1>4 DEF Ignore
<1>5. ASSUME NEW n, NEW m, NEW pc, Call(n, m, pc) PROVE st'[Observer] = st[Observer]
  BY <1>3, <1>5 DEF Call
<1>6. ASSUME NEW n \in {0, 1, 2}, NEW v, NEW ts, NEW a, NEW pc, Replicate(n, v, ts, a, pc)
      PROVE  st'[Observer] = st[Observer]
  BY <1>3, <1>6 DEF Replicate
<1>7. ASSUME NEW pc, NEW after, AwaitAck(0, pc, after) PROVE st'[Observer] = st[Observer]
  BY <1>3, <1>4, <1>7 DEF AwaitAck
<1>8. ASSUME NEW n \in {1, 2}, Follower(n) PROVE st'[Observer] = st[Observer]
  BY <1>3, <1>4, <1>8 DEF Follower
<1>9. CASE KvNext
  <2>1. CASE Primary BY <1>3, <1>4, <1>6, <2>1 DEF Primary
  <2>2. CASE AppendLogPrimary BY <1>3, <1>4, <2>2 DEF AppendLogPrimary
  <2>3. CASE KvStart BY <1>5, <2>3 DEF KvStart
  <2>4. CASE SingleKeyPut BY <1>5, <2>4 DEF SingleKeyPut
  <2>5. CASE SingleKeyGet BY <1>3, <2>5 DEF SingleKeyGet
  <2>6. CASE UncommittedWakes \/ UncommittedGet BY <1>3, <1>5, <2>6 DEF UncommittedWakes, UncommittedGet
  <2>7. CASE AppendLogClient BY <1>3, <1>5, <2>7 DEF AppendLogClient
  <2> QED BY <1>7, <1>8, <1>9, <2>1, <2>2, <2>3, <2>4, <2>5, <2>6, <2>7 DEF KvNext
<1>10. CASE RaftNext /\ ~Collect
  <2>1. CASE Leader BY <1>3, <1>4, <1>6, <2>1 DEF Leader
  <2>2. CASE VisibleBugLeader BY <1>3, <2>2 DEF VisibleBugLeader
  <2>3. CASE StaleReadLeader BY <1>3, <1>6, <2>3 DEF StaleReadLeader
  <2>4. CASE DuplicateRequestLeader BY <1>3, <2>4 DEF DuplicateRequestLeader
  <2>5. CASE \E n \in Replica : Boot(n) BY <1>3, <2>5, Peers DEF Boot
  <2>6. CASE \E n \in {1, 2} : OneShot(n) BY <1>3, <2>6 DEF OneShot
  <2>7. CASE RaftStart BY <1>3, <1>5, <2>7 DEF RaftStart
  <2>8. CASE RaftPut BY <1>5, <2>8 DEF RaftPut
  <2>9. CASE RaftGet BY <1>3, <2>9 DEF RaftGet
  <2>10. CASE DuplicateRequestClient BY <1>3, <1>5, <2>10 DEF DuplicateRequestClient
  <2> QED BY <1>7, <1>8, <1>10, <2>1, <2>2, <2>3, <2>4, <2>5, <2>6, <2>7, <2>8, <2>9, <2>10 DEF RaftNext
<1> QED BY <1>9, <1>10

LEMMA KvPlanted ==
  ASSUME ProtocolsOK, PlantedOK, system' = system, KvNext PROVE PlantedOK'
<1>1. NetOK /\ Known /\ Apart /\ system.proto = "kv" /\ Bug' = Bug
  BY DEF ProtocolsOK, PlantedOK, KvNext, Bug
<1>2. Bug \notin {"DuplicateClientRequest", "DualLeaderUnderPartition"} BY <1>1, KnownKv
<1>3. lost' = lost /\ doubled \subseteq doubled' BY HandlersLose
<1>4. Known' /\ Apart' /\ lost' \in Nat BY <1>1, <1>3, HandlersApart DEF PlantedOK, Known
<1>5. Bug \in Misleading => Misled' BY <1>1, KvMisled DEF PlantedOK
<1>6. Bug = "DuplicateRequestReapplied" => Reapplied' BY <1>1, KvReapplied DEF PlantedOK
<1>7. Bug = "FollowerAppliesUncommitted" /\ lost' = 0 => Hasty' BY <1>1, <1>3, KvHasty DEF PlantedOK
<1>8. doubled' = {} => doubled = {} BY <1>3
<1>9. st'[Observer] = st[Observer] BY <1>1, ObserverWaits
<1>10. doubled' = {} => (st'[Observer].pc = "done" => Bug = "DualLeaderUnderPartition")
  BY <1>8, <1>9 DEF PlantedOK
<1> QED BY <1>1, <1>2, <1>4, <1>5, <1>6, <1>7, <1>10 DEF PlantedOK, Misleading, Visible

LEMMA RaftPlanted ==
  ASSUME ProtocolsOK, PlantedOK, system' = system, RaftNext PROVE PlantedOK'
<1>1. NetOK /\ Known /\ Apart /\ system.proto = "raft" /\ Bug' = Bug
  BY DEF ProtocolsOK, PlantedOK, RaftNext, Bug
<1>2. Bug \notin {"DuplicateRequestReapplied", "FollowerAppliesUncommitted"}
  BY <1>1, KnownRaft DEF Visible
<1>3. lost' = lost /\ doubled \subseteq doubled' BY HandlersLose
<1>4. Known' /\ Apart' /\ lost' \in Nat BY <1>1, <1>3, HandlersApart DEF PlantedOK, Known
<1>5. Bug \in Misleading => Misled' BY <1>1, RaftMisled DEF PlantedOK
<1>6. doubled' = {} => doubled = {} BY <1>3
<1>7. ASSUME doubled' = {}, Bug = "DuplicateClientRequest" PROVE Turns'
  <2>1. Turns BY <1>6, <1>7 DEF PlantedOK
  <2> QED BY <1>1, <1>7, <2>1, RaftTurns
<1>8. ASSUME doubled' = {}, Bug = "DualLeaderUnderPartition" PROVE Twins'
  <2>1. Twins BY <1>6, <1>8 DEF PlantedOK
  <2> QED BY <1>1, <1>8, <2>1, RaftTwins
<1>9. ASSUME doubled' = {}, st'[Observer].pc = "done" PROVE Bug = "DualLeaderUnderPartition"
  <2>1. doubled = {} BY <1>6, <1>9
  <2>2. CASE Collect BY <1>1, <2>1, <2>2, Unheard
  <2>3. CASE ~Collect
    <3>1. st'[Observer] = st[Observer] BY <1>1, <2>3, ObserverWaits
    <3> QED BY <1>9, <2>1, <3>1 DEF PlantedOK
  <2> QED BY <2>2, <2>3
<1> QED BY <1>1, <1>2, <1>4, <1>5, <1>7, <1>8, <1>9 DEF PlantedOK

\* The network delivers, loses or leaves the letters alone.
LEMMA PlantedStill ==
  ASSUME PlantedOK, posted' = posted, st' = st, ops' = ops, labels' = labels, system' = system,
         doubled' = doubled, Apart', lost' \in Nat, Keeps,
         Bug = "FollowerAppliesUncommitted" => lost' # 0 \/ (lost' = lost /\ Passes({}))
  PROVE  PlantedOK'
<1>1. \A r \in {0, 1, 2, Client} : st'[r] = st[r] OBVIOUS
<1>2. Known' /\ Bug' = Bug BY DEF PlantedOK, Known, Bug
<1>3. Bug \in Misleading => Misled' BY <1>1, MisledStill DEF PlantedOK
<1>4. Bug = "DuplicateRequestReapplied" => Reapplied' BY <1>1, ReappliedStill DEF PlantedOK
<1>5. Bug = "FollowerAppliesUncommitted" /\ lost' = 0 => Hasty'
  <2> SUFFICES ASSUME Bug = "FollowerAppliesUncommitted", lost' = 0 PROVE Hasty' OBVIOUS
  <2>1. Hasty /\ Passes({}) BY DEF PlantedOK
  <2> QED BY <1>1, <2>1, HastyStill
<1>6. ASSUME doubled = {}, Bug = "DuplicateClientRequest" PROVE Turns'
  <2>1. Turns /\ \A m \in DOMAIN posted : Gone(m) => Gone(m)' BY <1>6 DEF PlantedOK, Keeps
  <2> QED BY <1>1, <2>1, TurnsStill
<1>7. ASSUME doubled = {}, Bug = "DualLeaderUnderPartition" PROVE Twins'
  <2>1. Twins BY <1>7 DEF PlantedOK
  <2> QED BY <2>1, TwinsStill
<1>8. doubled = {} /\ st[Observer].pc = "done" => Bug = "DualLeaderUnderPartition" BY DEF PlantedOK
<1> QED BY <1>2, <1>3, <1>4, <1>5, <1>6, <1>7, <1>8 DEF PlantedOK

LEMMA NetworkPlanted ==
  ASSUME ProtocolsOK, PlantedOK, NEW m \in DOMAIN wire, Arrive(m) \/ Vanish(m) PROVE PlantedOK'
<1>1. NetOK /\ Apart /\ lost \in Nat BY DEF ProtocolsOK, PlantedOK
<1>2. m \in DOMAIN posted BY <1>1, Numbers DEF NetOK
<1>3. Fades({}) /\ posted' = posted /\ st' = st /\ ops' = ops /\ system' = system
  BY <1>1, CarriedNet
<1>4. Keeps BY <1>3 DEF Fades, Keeps
<1>5. labels' = labels /\ doubled' = doubled BY DEF Arrive, Vanish, local
<1>6. CASE Arrive(m)
  <2>1. Deliver(m) /\ ~Down(m) /\ lost' = lost BY <1>6 DEF Arrive
  <2>2. Passes({}) BY <1>1, <1>2, <1>5, <2>1, Arrived
  <2>3. Apart' BY <1>1, <1>2, <1>3, <2>1, ApartArrives
  <2> QED BY <1>1, <1>3, <1>4, <1>5, <2>1, <2>2, <2>3, PlantedStill
<1>7. CASE Vanish(m)
  <2>1. box' = box BY <1>7 DEF Vanish, Lose
  <2>2. Apart' BY <1>1, <1>3, <2>1 DEF Apart
  <2>3. Down(m) => system.cut # {} BY DEF Down
  <2>4. Bug = "FollowerAppliesUncommitted" => system.cut = {}
    <3>1. system.proto = "kv" => (Bug # "AckBeforeReplicate" => system.cut = {})
      BY KnownKv DEF PlantedOK
    <3>2. system.proto # "kv" => Bug # "FollowerAppliesUncommitted" BY KnownRaft DEF PlantedOK, Visible
    <3> QED BY <3>1, <3>2
  <2>5. IF Down(m) THEN lost' = lost ELSE lost' = lost + 1 BY <1>7 DEF Vanish
  <2>6. lost' \in Nat /\ (~Down(m) => lost' # 0) BY <1>1, <2>5
  <2>7. Bug = "FollowerAppliesUncommitted" => lost' # 0 BY <2>3, <2>4, <2>6
  <2> QED BY <1>3, <1>4, <1>5, <2>2, <2>6, <2>7, PlantedStill
<1> QED BY <1>6, <1>7

LEMMA PlantedStep == ProtocolsOK /\ PlantedOK /\ [ProtocolsNext]_allVars => PlantedOK'
<1> SUFFICES ASSUME ProtocolsOK, PlantedOK, [ProtocolsNext]_allVars PROVE PlantedOK' OBVIOUS
<1>1. system' = system BY SameSystem
<1>2. CASE KvNext BY <1>1, <1>2, KvPlanted
<1>3. CASE RaftNext BY <1>1, <1>3, RaftPlanted
<1>4. CASE \E m \in DOMAIN wire : Arrive(m) \/ Vanish(m) BY <1>4, NetworkPlanted
<1>5. CASE UNCHANGED allVars
  <2>1. NetOK BY DEF ProtocolsOK
  <2>2. /\ posted' = posted /\ wire' = wire /\ box' = box /\ st' = st /\ ops' = ops /\ labels' = labels
        /\ doubled' = doubled /\ system' = system /\ lost' = lost
    BY <1>5 DEF allVars, vars
  <2>3. 0 \in Peer /\ Reads(0, {}) BY <2>2, Peers DEF Reads
  <2>4. Passes({}) BY <2>1, <2>2, <2>3, PassedOver
  <2>5. Keeps BY <2>4, PassesKeep
  <2>6. Apart' /\ lost' \in Nat BY <2>2 DEF PlantedOK, Apart
  <2> QED BY <2>2, <2>4, <2>5, <2>6, PlantedStill
<1> QED BY <1>2, <1>3, <1>4, <1>5 DEF ProtocolsNext, Progress

LEMMA PlantedInit == ProtocolsInit => PlantedOK
<1> SUFFICES ASSUME ProtocolsInit PROVE PlantedOK OBVIOUS
<1>1. /\ posted = <<>> /\ ops = <<>> /\ labels = <<>> /\ doubled = {} /\ lost = 0
      /\ box = [n \in Node |-> <<>>] /\ system \in Systems
  BY DEF ProtocolsInit, ClusterInit, Init
<1>2. DOMAIN posted = {} /\ Len(posted) = 0 /\ Len(labels) = 0 BY <1>1
<1>3. Known BY <1>1, SystemsOK DEF Known
<1>4. Apart
  <2>1. \A n \in Node : DOMAIN box[n] = {} BY <1>1
  <2> QED BY <2>1 DEF Apart
<1>5. /\ st[Client] = Waiting("start") /\ st[Observer] = Waiting("collect")
      /\ \A n \in {0, 1, 2} : st[n] = IF system.proto = "kv" THEN KvReplicas[n] ELSE RaftReplicas[n]
  BY Peers DEF ProtocolsInit
<1>6. /\ st[Client].pc = "start" /\ st[Observer].pc = "collect"
      /\ IF system.proto = "kv"
         THEN /\ \A n \in {1, 2} : st[n].pc = "follow" /\ st[n].value = None
              /\ IF Bug = "DuplicateRequestReapplied" THEN st[0].pc = "log" /\ st[0].value = 0
                 ELSE st[0].pc = "serve"
         ELSE \A n \in {0, 1, 2} : st[n].pc = "boot" /\ st[n].value = None
  BY <1>5, Peers DEF KvReplicas, RaftReplicas, Waiting
<1>7. Bug \in Misleading => Misled
  <2> SUFFICES ASSUME Bug \in Misleading PROVE Misled OBVIOUS
  <2>1. Bug # "DuplicateRequestReapplied" BY DEF Misleading, Visible
  <2>2. None # Wanted BY DEF None, Wanted
  <2>3. Astray BY <1>6, <2>1, <2>2 DEF Astray, Owing
  <2>4. Misinformed BY <1>1, <1>6 DEF Misinformed
  <2> QED BY <1>2, <2>3, <2>4 DEF Misled
<1>8. Bug = "DuplicateRequestReapplied" => Reapplied
  <2> SUFFICES ASSUME Bug = "DuplicateRequestReapplied" PROVE Reapplied OBVIOUS
  <2>1. system.proto = "kv" BY <1>3, KnownRaft DEF Visible
  <2>2. Twofold(0)
    <3>1. 0 = 2 * 0 OBVIOUS
    <3> QED BY <3>1 DEF Twofold
  <2>3. Logging BY <1>6, <2>1, <2>2 DEF Logging
  <2>4. Counting BY <1>1, <1>6 DEF Counting
  <2> QED BY <1>2, <2>3, <2>4 DEF Reapplied
<1>9. Bug = "FollowerAppliesUncommitted" => Hasty
  <2> SUFFICES ASSUME Bug = "FollowerAppliesUncommitted" PROVE Hasty OBVIOUS
  <2>1. system.proto = "kv" BY <1>3, KnownRaft DEF Visible
  <2>2. Sleeping BY <1>1, <1>6, <2>1 DEF Sleeping, Awake
  <2> QED BY <1>2, <2>2 DEF Hasty
<1>10. Bug = "DuplicateClientRequest" => Turns
  <2> SUFFICES ASSUME Bug = "DuplicateClientRequest" PROVE Turns OBVIOUS
  <2>1. system.proto # "kv" BY <1>3, KnownKv
  <2>2. Alternating BY <1>1, <1>6, <2>1 DEF Alternating, TakenNone
  <2> QED BY <1>2, <2>2 DEF Turns
<1>11. Bug = "DualLeaderUnderPartition" => Twins
  <2> SUFFICES ASSUME Bug = "DualLeaderUnderPartition" PROVE Twins OBVIOUS
  <2>1. system.proto # "kv" BY <1>3, KnownKv
  <2>2. labels \in Seq(Message) BY <1>1
  <2>3. Collected
    <3>1. PICK R : R = {} OBVIOUS
    <3>2. IsFiniteSet(R) /\ Cardinality(R) = 0 BY <3>1, FS_EmptySet
    <3> QED BY <1>2, <3>1, <3>2 DEF Collected
  <2>4. Spoken(0) = 0 /\ Spoken(1) = 0 BY <1>6, <2>1 DEF Spoken
  <2> QED BY <1>2, <1>6, <2>1, <2>2, <2>3, <2>4 DEF Twins
<1> QED BY <1>1, <1>3, <1>4, <1>6, <1>7, <1>8, <1>9, <1>10, <1>11 DEF PlantedOK

\* After nothing but puts a read finds the last of them.
LEMMA LastWritten ==
  ASSUME NEW k \in Nat, k > 1, \A j \in 1 .. k - 1 : ops[j].op = "put"
  PROVE  Written(k) = ops[k - 1].value
<1>1. PICK puts : puts = {j \in 1 .. k - 1 : ops[j].op = "put"} OBVIOUS
<1>2. puts = 1 .. k - 1 /\ k - 1 \in puts BY <1>1
<1>3. PICK c : c = CHOOSE j \in puts : \A i \in puts : i <= j OBVIOUS
<1>4. c = k - 1
  <2>1. c \in puts /\ \A i \in puts : i <= c
    <3>1. \E j \in puts : \A i \in puts : i <= j BY <1>2
    <3> QED BY <1>3, <3>1
  <2> QED BY <1>2, <2>1
<1>5. Written(k) = IF puts = {} THEN None ELSE ops[c].value BY <1>1, <1>3 DEF Written
<1> QED BY <1>2, <1>4, <1>5

\* List u is t with c at its end.
Extends(u, t, c) ==
  Len(u) = Len(t) + 1 /\ u[Len(t) + 1] = c /\ \A i \in 1 .. Len(t) : u[i] = t[i]

LEMMA LongerByOne ==
  ASSUME NEW S, NEW t \in Seq(S), NEW c \in S PROVE Append(t, c) \in Seq(S) /\ Extends(Append(t, c), t, c)
BY AppendProperties DEF Extends

LEMMA ThirdOf ==
  ASSUME NEW S, NEW u \in Seq(S), NEW t, NEW c, Len(t) = 2, Extends(u, t, c)
  PROVE  Len(u) = 3 /\ u[1] = t[1] /\ u[2] = t[2] /\ u[3] = c
BY DEF Extends

LEMMA MisledShows == ASSUME Misled, st[Client].pc = "done" PROVE ~Legal
<1>1. PICK v : v # Wanted /\ ops = Append(AllPuts, Found(v)) BY DEF Misled, Misinformed
<1>2. PICK a, b, c : a = PutOp /\ b = LastPut /\ c = Found(v) OBVIOUS
<1>3. /\ a.op = "put" /\ a.value = 7 /\ b.op = "put" /\ b.value = 9 /\ c.op = "get" /\ c.value = v
  BY <1>2 DEF PutOp, LastPut, Found
<1>4. ASSUME NEW k \in DOMAIN ops, k \in Nat, k > 1, ops[k] = c, \A j \in 1 .. k - 1 : ops[j].op = "put",
             ops[k - 1].value = Wanted
      PROVE  ~Legal
  <2>1. Written(k) = Wanted BY <1>4, LastWritten
  <2>2. ops[k].op = "get" /\ ops[k].value # Written(k) BY <1>1, <1>3, <1>4, <2>1
  <2> QED BY <2>2 DEF Legal
<1>5. CASE Bug = "LostUpdate"
  <2>1. AllPuts = <<a, b>> /\ Wanted = 9 BY <1>2, <1>5 DEF AllPuts, Wanted
  <2>2. PICK t : t = <<a, b>> OBVIOUS
  <2>11. PICK S : S = {a, b, c} OBVIOUS
  <2>3. t \in Seq(S) /\ c \in S /\ Len(t) = 2 /\ t[1] = a /\ t[2] = b BY <2>2, <2>11
  <2>4. PICK u : u = Append(t, c) OBVIOUS
  <2>12. u \in Seq(S) /\ Extends(u, t, c) BY <2>3, <2>4, LongerByOne, Zenon
  <2>5. Len(u) = 3 /\ u[1] = a /\ u[2] = b /\ u[3] = c BY <2>3, <2>12, ThirdOf
  <2>6. ops = u BY <1>1, <1>2, <2>1, <2>2, <2>4
  <2>7. 3 \in DOMAIN ops
    <3>1. DOMAIN u = 1 .. Len(u) BY <2>12, LenProperties
    <3> QED BY <2>5, <2>6, <3>1
  <2>8. ops[1] = a /\ ops[2] = b /\ ops[3] = c BY <2>5, <2>6
  <2>9. \A j \in 1 .. 3 - 1 : ops[j].op = "put"
    <3>1. \A j \in 1 .. 3 - 1 : j = 1 \/ j = 2 OBVIOUS
    <3> QED BY <1>3, <2>8, <3>1
  <2>10. ops[3 - 1].value = Wanted BY <1>3, <2>1, <2>8
  <2> QED BY <1>4, <2>7, <2>8, <2>9, <2>10
<1>6. CASE Bug # "LostUpdate"
  <2>1. AllPuts = <<a>> /\ Wanted = 7 BY <1>2, <1>6 DEF AllPuts, Wanted
  <2>2. Append(<<a>>, c) = <<a, c>> BY TwoOf
  <2>3. ops = <<a, c>> BY <1>1, <1>2, <2>1, <2>2, Zenon
  <2>4. 2 \in DOMAIN ops /\ ops[1] = a /\ ops[2] = c BY <2>3
  <2>5. \A j \in 1 .. 2 - 1 : ops[j].op = "put"
    <3>1. \A j \in 1 .. 2 - 1 : j = 1 OBVIOUS
    <3> QED BY <1>3, <2>4, <3>1
  <2>6. ops[2 - 1].value = Wanted BY <1>3, <2>1, <2>4
  <2> QED BY <1>4, <2>4, <2>5, <2>6
<1> QED BY <1>5, <1>6

\* One append, and the log does not hold one entry.
LEMMA MiscountShows ==
  ASSUME NEW x, NEW y, y # 1, ops = <<AppendOp(x), EntriesOp(y)>> PROVE ~Legal
<1>1. PICK a, b : a = AppendOp(x) /\ b = EntriesOp(y) OBVIOUS
<1>2. a.op = "append" /\ b.op = "entries" /\ b.value = y BY <1>1 DEF AppendOp, EntriesOp
<1>3. ops = <<a, b>> BY <1>1
<1>4. 2 \in DOMAIN ops /\ ops[1] = a /\ ops[2] = b BY <1>3
<1>5. PICK S : S = {j \in 1 .. 2 - 1 : ops[j].op = "append"} OBVIOUS
<1>6. S = {1}
  <2>1. \A j : j \in 1 .. 2 - 1 <=> j = 1 OBVIOUS
  <2> QED BY <1>2, <1>4, <1>5, <2>1
<1>7. Cardinality(S) = 1 BY <1>6, FS_Singleton
<1>8. Cardinality({j \in 1 .. 2 - 1 : ops[j].op = "append"}) = 1 BY <1>5, <1>7
<1>9. SUFFICES ASSUME Legal PROVE FALSE OBVIOUS
<1>10. ops[2].op = "entries" => ops[2].value = Cardinality({j \in 1 .. 2 - 1 : ops[j].op = "append"})
  BY <1>4, <1>9 DEF Legal
<1> QED BY <1>2, <1>4, <1>8, <1>10

LEMMA HastyShows == ASSUME Hasty, st[Client].pc = "done" PROVE ~Legal
<1>1. PICK c : c = Found(7) OBVIOUS
<1>5. c.op = "get" /\ c.value = 7 BY <1>1 DEF Found
<1>2. ops = <<c>> BY <1>1 DEF Hasty, Sleeping
<1>3. 1 \in DOMAIN ops /\ ops[1] = c BY <1>2
<1>4. Written(1) = None
  <2>1. PICK puts : puts = {j \in 1 .. 1 - 1 : ops[j].op = "put"} OBVIOUS
  <2>2. puts = {} BY <2>1
  <2>3. PICK w : w = ops[CHOOSE j \in puts : \A i \in puts : i <= j].value OBVIOUS
  <2>4. Written(1) = IF puts = {} THEN None ELSE w BY <2>1, <2>3 DEF Written
  <2> QED BY <2>2, <2>4
<1>6. ops[1].op = "get" /\ ops[1].value # Written(1)
  <2>1. 7 # None BY DEF None
  <2> QED BY <1>3, <1>4, <1>5, <2>1
<1> QED BY <1>3, <1>6 DEF Legal

\* No false negatives: a client of a planted bug that comes to its end has a history that the
\* checker must refuse, unless the network doubled a datagram (or lost the uncommitted value),
\* and an observer that comes to its end has heard of both leaders of the one term
\* (run_single_key_client, run_append_log_client, run_uncommitted_follower_client,
\* run_mini_raft_kv_client, collect_protocol_events).
THEOREM PlantedBugsAreSeen == ProtocolsSpec => []PlantedBugShows
<1>1. ProtocolsOK /\ PlantedOK => PlantedBugShows
  <2> SUFFICES ASSUME ProtocolsOK, PlantedOK, doubled = {}
               PROVE  /\ Bug \in AlwaysShown /\ st[Client].pc = "done" => ~Legal
                      /\ st[Observer].pc = "done" =>
                           \A n \in {0, 1} : \E k \in DOMAIN labels : labels[k] = Msg("leader", n)
    BY DEF PlantedBugShows, Bug
  <2>1. ASSUME Bug \in AlwaysShown, st[Client].pc = "done" PROVE ~Legal
    <3>1. CASE Bug \in Misleading BY <2>1, <3>1, MisledShows DEF PlantedOK
    <3>2. CASE Bug = "DuplicateRequestReapplied"
      <4>1. Counting BY <3>2 DEF PlantedOK, Reapplied
      <4>2. PICK x, y : y # 1 /\ ops = <<AppendOp(x), EntriesOp(y)>> BY <2>1, <4>1 DEF Counting
      <4> QED BY <4>2, MiscountShows
    <3>3. CASE Bug = "DuplicateClientRequest"
      <4>1. ops = Double BY <2>1, <3>3 DEF PlantedOK, Turns, Alternating
      <4>2. PICK x, y : x = 0 /\ y = 2 OBVIOUS
      <4>3. y # 1 /\ ops = <<AppendOp(x), EntriesOp(y)>> BY <4>1, <4>2 DEF Double, AppendOp, EntriesOp
      <4> QED BY <4>3, MiscountShows
    <3>4. CASE Bug = "FollowerAppliesUncommitted" /\ lost = 0
      BY <2>1, <3>4, HastyShows DEF PlantedOK
    <3>5. Bug \in Misleading \/ Bug = "DuplicateRequestReapplied" \/ Bug = "DuplicateClientRequest"
          \/ (Bug = "FollowerAppliesUncommitted" /\ lost = 0)
      BY <2>1 DEF AlwaysShown, Misleading
    <3> QED BY <3>1, <3>2, <3>3, <3>4, <3>5
  <2>2. ASSUME st[Observer].pc = "done"
        PROVE  \A n \in {0, 1} : \E k \in DOMAIN labels : labels[k] = Msg("leader", n)
    <3>1. NetOK /\ Twins BY <2>2 DEF ProtocolsOK, PlantedOK
    <3> QED BY <2>2, <3>1, BothSeen
  <2> QED BY <2>1, <2>2
<1> QED BY <1>1, AlwaysOK, PlantedInit, PlantedStep, PTL DEF ProtocolsSpec
=============================================================================

----------------------------- MODULE Protocols ------------------------------
(***************************************************************************)
(* The recall experiments: each reference protocol, correct or with one    *)
(* planted bug, run with its client over a network that loses and          *)
(* duplicates datagrams.  They promise that a planted bug shows in what    *)
(* the client reports, and that nothing shows without one.                 *)
(***************************************************************************)
EXTENDS MiniRaft

allVars == <<vars, system, st, ops, labels, doubled, lost>>

\* The experiments, each in the world the command line builds for it.
System(proto, bug, cut) == [proto |-> proto, bug |-> bug, cut |-> cut]

KvSystems ==
  {System("kv", bug, {}) : bug \in
     {"Correct", "ReadFromStaleFollower", "LostUpdate", "DuplicateRequestReapplied",
      "FollowerAppliesUncommitted", "QuorumCountOffByOne"}}
  \union {System("kv", "AckBeforeReplicate", {<<0, 1>>})}

\* Only the dual leaders have an observer listening.
RaftSystems ==
  {System("raft", bug, {<<0, Observer>>}) : bug \in
     {"Correct", "FollowerStaleRead", "DuplicateClientRequest"} \union Visible}
  \union {System("raft", "DualLeaderUnderPartition", {})}

\* Every experiment is one of these.
ASSUME SystemsOK == Systems \subseteq KvSystems \union RaftSystems

ProtocolsInit ==
  /\ ClusterInit
  /\ st = [n \in Replica \union {Client, Observer} |->
             CASE n = Client -> Waiting("start")
               [] n = Observer -> Waiting("collect")
               [] OTHER -> IF system.proto = "kv" THEN KvReplicas[n] ELSE RaftReplicas[n]]

Progress ==
  \/ KvNext \/ RaftNext
  \/ \E m \in DOMAIN wire : Arrive(m)

ProtocolsNext == Progress \/ \E m \in DOMAIN wire : Vanish(m)

ProtocolsSpec == ProtocolsInit /\ [][ProtocolsNext]_allVars

\* The simulator runs every task that is ready and delivers what it does not drop.
FairSpec == ProtocolsSpec /\ WF_allVars(Progress)

-----------------------------------------------------------------------------
Doubled(kinds) == \E m \in doubled : posted[m].body.kind \in kinds

\* The value of the register after the operations before the k-th.
Written(k) ==
  LET puts == {j \in 1 .. k - 1 : ops[j].op = "put"}
  IN  IF puts = {} THEN None ELSE ops[CHOOSE j \in puts : \A i \in puts : i <= j].value

\* One client calls one operation after the other, so its history is legal if it
\* is so in the order in which it stands: a read finds the last write, the log
\* holds what was appended.
Legal ==
  \A k \in DOMAIN ops :
    /\ ops[k].op = "get" => ops[k].value = Written(k)
    /\ ops[k].op = "entries" =>
         ops[k].value = Cardinality({j \in 1 .. k - 1 : ops[j].op = "append"})

\* Neither acknowledgements nor answers say which request they belong to, so a
\* duplicate passes for another: an ack for a quorum of one, a second ok for the
\* answer to the read.
Confusing == IF system.proto = "kv" THEN {"replicate", "ack", "ok"} ELSE {"put", "ok"}

\* Whatever the network loses or reorders, and whatever else it duplicates, the
\* correct variants give the checker nothing to find.
CorrectIsLegal == system.bug = "Correct" /\ ~Doubled(Confusing) => Legal

\* A put the correct primary-backup store reported is on both followers.
AckedIsReplicated ==
  /\ system.bug = "Correct" /\ ~Doubled({"replicate", "ack"})
  /\ \E k \in DOMAIN ops : ops[k].op = "put"
  => \A n \in {1, 2} : st[n].value = 7

\* No false negatives.  Where a planted bug does not depend on timing, a client that
\* comes to its end has a history that gives it away (the uncommitted value must
\* have arrived), and an observer that does has seen both leaders of the term.
AlwaysShown ==
  {"ReadFromStaleFollower", "QuorumCountOffByOne", "LostUpdate", "AckBeforeReplicate",
   "DuplicateRequestReapplied", "FollowerStaleRead", "DuplicateClientRequest"}
  \union Visible
  \union (IF lost = 0 THEN {"FollowerAppliesUncommitted"} ELSE {})

PlantedBugShows ==
  doubled = {} =>
    /\ system.bug \in AlwaysShown /\ st[Client].pc = "done" => ~Legal
    /\ st[Observer].pc = "done" =>
         \A n \in {0, 1} : \E k \in DOMAIN labels : labels[k] = Msg("leader", n)

\* Without a loss or a duplicate every node of a protocol that stops its followers
\* ends: nobody waits for a message nobody will send.
AllDone == \A n \in Replica \union {Client} : st[n].pc = "done"

FaultFreeRunFinishes ==
  system.bug \in {"Correct", "ReadFromStaleFollower", "QuorumCountOffByOne", "LostUpdate",
                  "AckBeforeReplicate", "FollowerStaleRead"} \union Visible
    ~> AllDone \/ doubled # {} \/ lost > 0
=============================================================================

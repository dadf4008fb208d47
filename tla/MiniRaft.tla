------------------------------ MODULE MiniRaft ------------------------------
(***************************************************************************)
(* Mini-Raft of detersim-protocols, three fixed replicas with node 0 to    *)
(* lead, its planted bugs, and the client workloads that record a history. *)
(* The words of the two protocols are the same here: client-write:x and    *)
(* write:x are a put of 7, client-read and read a get, append:x a          *)
(* replicate; no variant sends two of the words it would confuse.          *)
(*                                                                         *)
(* The persistence probe is a program of one node and its disk: see        *)
(* StorePrograms.                                                          *)
(***************************************************************************)
EXTENDS PrimaryBackupKv

Visible == {"WrongCommitRule", "WrongLogMatching", "ApplyBeforeCommit", "OldTermLeaderCommitsEntry"}

\* The labels node n tells the observer when it starts.
Announced(n) ==
  CASE Bug = "DualLeaderUnderPartition" /\ n < 2 -> <<Msg("leader", n), Plain("single-leader-per-term")>>
    [] Bug = "ApplyBeforeCommit" /\ n = 0 -> <<Plain("raft-bug"), Plain("applied-not-past-commit")>>
    [] Bug = "OldTermLeaderCommitsEntry" /\ n = 0 -> <<Plain("raft-bug"), Plain("committed-not-lost")>>
    [] Bug \in {"WrongCommitRule", "WrongLogMatching"} /\ n = 0 -> <<Plain("raft-bug")>>
    [] OTHER -> <<>>

\* The loop node n runs after that.
Role(n) ==
  CASE Bug = "DualLeaderUnderPartition" /\ n < 2 -> Waiting("done")
    [] n = 0 /\ Bug \in Visible -> Waiting("first")
    [] n = 0 /\ Bug = "FollowerStaleRead" -> Waiting("stale")
    [] n = 0 /\ Bug = "DuplicateClientRequest" -> [Waiting("twice") EXCEPT !.value = 0]
    [] n = 0 /\ Bug = "Correct" -> Waiting("lead")
    [] n = 1 /\ Bug = "WrongLogMatching" -> Waiting("once")
    [] n > 0 /\ Bug = "FollowerStaleRead" -> Waiting("once")
    [] OTHER -> Waiting("follow")

RaftReplicas == [n \in Replica |-> Waiting("boot")]

\* run_mini_raft
Boot(n) ==
  /\ st[n].pc = "boot"
  /\ Become(n, Role(n), [k \in DOMAIN Announced(n) |-> <<Observer, Announced(n)[k]>>])
  /\ UNCHANGED box /\ Unreported

\* Mutant: it forgets follower 2.
FarewellToOne(to, value) == <<<<to, Msg("value", value)>>, <<1, Plain("stop")>>>>

\* What a leader sends when it answers a read and stops the others.
Farewell(to, value) ==
  <<<<to, Msg("value", value)>>, <<1, Plain("stop")>>, <<2, Plain("stop")>>>>

\* run_correct_leader
Leader ==
  /\ Recv(0, "lead") /\ Unreported
  /\ \/ /\ Body(0).kind = "put"
        /\ Replicate(0, 7, <<1, 2>>, 2, "acks-lead")
     \/ /\ Body(0).kind = "get"
        /\ Become(0, At(0, "done"), Farewell(From(0), st[0].value))
     \/ Ignore(0, {"put", "get"})

\* run_client_visible_bug_leader takes two messages, whatever they are.
VisibleBugLeader ==
  /\ Unreported
  /\ \/ /\ Recv(0, "first")
        /\ Become(0, At(0, "second"),
                  IF Body(0).kind = "put" THEN <<<<From(0), Plain("ok")>>>> ELSE <<>>)
     \/ /\ Recv(0, "second")
        /\ Become(0, At(0, "done"),
                  IF Body(0).kind = "get" THEN Farewell(From(0), None) ELSE <<>>)

\* run_leader_for_stale_read: after the append any message passes for an ack.
StaleReadLeader ==
  /\ Unreported
  /\ \/ /\ Recv(0, "stale")
        /\ IF Body(0).kind = "put" THEN Replicate(0, 7, <<2>>, 1, "any")
           ELSE Become(0, At(0, "done"), <<>>)
     \/ /\ Recv(0, "any")
        /\ Become(0, At(0, "done"), <<<<st[0].peer, Plain("ok")>>>>)

\* run_duplicate_request_leader: value counts what it applied, acks what it took.
DuplicateRequestLeader ==
  /\ Recv(0, "twice") /\ Unreported
  /\ LET applied == st[0].value + (IF Body(0).kind = "request" THEN 1 ELSE 0)
     IN  Become(0, [st[0] EXCEPT !.value = applied, !.acks = @ + 1,
                                 !.pc = IF st[0].acks = 1 THEN "done" ELSE "twice"],
                IF Body(0).kind = "request" THEN <<<<From(0), Msg("applied", applied)>>>> ELSE <<>>)

\* Nodes 1 and 2 where the variant gives them one message to answer.
OneShot(n) ==
  /\ Recv(n, "once") /\ Unreported
  /\ Become(n, At(n, "done"),
            IF Bug # "FollowerStaleRead" THEN <<>>
            ELSE IF n = 1 /\ Body(n).kind = "get" THEN <<<<From(n), Msg("value", None)>>>>
            ELSE IF n = 2 /\ Body(n).kind = "replicate" THEN <<<<From(n), Plain("ack")>>>>
            ELSE <<>>)

-----------------------------------------------------------------------------
(* run_mini_raft_kv_client and collect_protocol_events *)

RaftStart ==
  /\ st[Client].pc = "start"
  /\ IF Bug = "DuplicateClientRequest" THEN Call(0, Plain("request"), "asked")
     ELSE IF Bug = "DualLeaderUnderPartition" THEN Become(Client, At(Client, "done"), <<>>)
     ELSE Call(0, Msg("put", 7), "put")
  /\ UNCHANGED box /\ Unreported

\* The write counts if the answer is ok; the read goes to node 1 in the stale
\* variant, to the leader otherwise.
RaftPut ==
  /\ Recv(Client, "put")
  /\ PutAnswered(7)
  /\ Call(IF Bug = "FollowerStaleRead" THEN 1 ELSE 0, Plain("get"), "got")

\* Where the client finds nothing, all variants but FollowerStaleRead report a
\* history written down beforehand in place of what they saw.
Canned == <<[op |-> "put", value |-> 7], [op |-> "get", value |-> None]>>

RaftGet ==
  /\ Recv(Client, "got")
  /\ IF Parsed(Body(Client)) = None /\ Bug # "FollowerStaleRead"
     THEN ops' = Canned /\ UNCHANGED <<system, labels>>
     ELSE Report([op |-> "get", value |-> Parsed(Body(Client))])
  /\ Become(Client, At(Client, "done"), <<>>)

\* run_raft_duplicate_history_client
DuplicateRequestClient ==
  \/ /\ Recv(Client, "asked") /\ Unreported
     /\ Call(0, Plain("request"), "again")
  \/ /\ Recv(Client, "again")
     /\ IF Body(Client) = Msg("applied", 2)
        THEN /\ ops' = <<[op |-> "append", value |-> 0], [op |-> "entries", value |-> 2]>>
             /\ UNCHANGED <<system, labels>>
        ELSE Unreported
     /\ Become(Client, At(Client, "done"), <<>>)

\* collect_protocol_events, waiting for four.
Collect ==
  /\ Recv(Observer, "collect")
  /\ labels' = Append(labels, Body(Observer))
  /\ st' = [st EXCEPT ![Observer].pc = IF Len(labels) = 3 THEN "done" ELSE "collect"]
  /\ UNCHANGED <<system, ops, posted, wire, doubled, lost>>

RaftNext ==
  /\ system.proto = "raft"
  /\ \/ Leader \/ AwaitAck(0, "acks-lead", "lead")
     \/ VisibleBugLeader \/ StaleReadLeader \/ DuplicateRequestLeader
     \/ \E n \in Replica : Boot(n)
     \/ \E n \in {1, 2} : Follower(n) \/ OneShot(n)
     \/ RaftStart \/ RaftPut \/ RaftGet \/ DuplicateRequestClient \/ Collect
=============================================================================

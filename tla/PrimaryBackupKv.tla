-------------------------- MODULE PrimaryBackupKv ---------------------------
(***************************************************************************)
(* The primary-backup key/value store of detersim-protocols with its       *)
(* planted bugs, and the client workloads that go with them.               *)
(***************************************************************************)
EXTENDS Cluster

\* Mutants: the bugs are mended, and everything has the bug.
TargetsMended(v) == <<1, 2>>
TargetsOne(v) == <<2>>

\* The followers the primary replicates to, waiting for an acknowledgement each
\* before it answers a put, and whether it serves on.
Targets(v) ==
  IF Bug = "Correct" THEN <<1, 2>>
  ELSE IF Bug = "LostUpdate" /\ v = 7 THEN <<1>>
  ELSE <<2>>
After(v) == IF Bug = "LostUpdate" /\ v = 7 THEN "acks-on" ELSE "acks"

Replicates(v) ==
  \/ v = 7 /\ Bug \in {"Correct", "ReadFromStaleFollower", "LostUpdate", "QuorumCountOffByOne"}
  \/ v = 9 /\ Bug = "LostUpdate"

\* run_primary
Primary ==
  /\ Recv(0, "serve") /\ Unreported
  /\ LET m == Body(0)
     IN  \/ /\ m.kind = "put" /\ Replicates(m.value)
            /\ Replicate(0, m.value, Targets(m.value), Len(Targets(m.value)), After(m.value))
         \/ /\ m = Msg("put", 7) /\ Bug = "AckBeforeReplicate"
            /\ Become(0, At(0, "done"),
                      <<<<1, Msg("replicate", 7)>>, <<2, Msg("replicate", 7)>>,
                        <<From(0), Plain("ok")>>>>)
         \/ /\ m = Msg("put", 7) /\ Bug = "FollowerAppliesUncommitted"
            /\ Become(0, st[0], <<<<1, Msg("uncommitted", 7)>>>>)
         \/ Ignore(0, {"put"})

\* run_append_log_primary: a request is applied twice; value counts the entries.
AppendLogPrimary ==
  /\ Recv(0, "log") /\ Unreported
  /\ \/ /\ Body(0).kind = "append"
        /\ Become(0, [st[0] EXCEPT !.value = @ + 2], <<<<From(0), Msg("index", st[0].value)>>>>)
     \/ /\ Body(0).kind = "read_all"
        /\ Become(0, At(0, "done"), <<<<From(0), Msg("entries", st[0].value)>>>>)
     \/ Ignore(0, {"append", "read_all"})

\* run_primary_backup_kv for every node
KvReplicas ==
  [n \in Replica |->
     IF n > 0 THEN Waiting("follow")
     ELSE IF Bug = "DuplicateRequestReapplied" THEN [Waiting("log") EXCEPT !.value = 0]
     ELSE Waiting("serve")]

-----------------------------------------------------------------------------
(* run_primary_backup_kv_client *)

Call(to, m, pc) == Become(Client, At(Client, pc), <<<<to, m>>>>)

\* The first request of the workload.
KvStart ==
  /\ st[Client].pc = "start"
  /\ \/ /\ Bug = "DuplicateRequestReapplied"
        /\ Call(0, Plain("append"), "appended")
     \/ /\ Bug = "FollowerAppliesUncommitted"
        /\ Call(0, Msg("put", 7), "asleep")
     \/ /\ Bug \notin {"DuplicateRequestReapplied", "FollowerAppliesUncommitted"}
        /\ Call(0, Msg("put", 7), "put7")
  /\ UNCHANGED box /\ Unreported

\* run_single_key_client: a put counts only when the answer is ok, any answer ends it.
PutAnswered(v) ==
  IF Body(Client).kind = "ok" THEN Report([op |-> "put", value |-> v]) ELSE Unreported

SingleKeyPut ==
  \/ /\ Recv(Client, "put7") /\ PutAnswered(7)
     /\ IF Bug = "LostUpdate" THEN Call(0, Msg("put", 9), "put9")
        ELSE Call(1, Plain("get"), "got")
  \/ /\ Recv(Client, "put9") /\ PutAnswered(9)
     /\ Call(1, Plain("get"), "got")

\* What is not a number is no value.
Parsed(m) == IF m.kind = "value" THEN m.value ELSE None

SingleKeyGet ==
  /\ Recv(Client, "got")
  /\ Report([op |-> "get", value |-> Parsed(Body(Client))])
  /\ Become(Client, At(Client, "done"), <<<<1, Plain("stop")>>, <<2, Plain("stop")>>>>)

\* run_uncommitted_follower_client sleeps 250 ms, which is longer than the two hops
\* of at most 110 ms each it waits for: all that was sent has arrived or is lost.
Quiet ==
  /\ \A m \in DOMAIN wire : wire[m] = 0
  /\ \A n \in Replica : box[n] = <<>>

UncommittedWakes ==
  /\ st[Client].pc = "asleep" /\ Quiet
  /\ Call(1, Plain("get"), "got-only")
  /\ UNCHANGED box /\ Unreported

UncommittedGet ==
  /\ Recv(Client, "got-only")
  /\ Report([op |-> "get", value |-> Parsed(Body(Client))])
  /\ Become(Client, At(Client, "done"), <<>>)

\* run_append_log_client: an answer that is no index counts as index 0, and one that
\* is no list of entries as a list of something else.
AppendLogClient ==
  \/ /\ Recv(Client, "appended")
     /\ Report([op |-> "append",
                value |-> IF Body(Client).kind = "index" THEN Body(Client).value ELSE 0])
     /\ Call(0, Plain("read_all"), "read")
  \/ /\ Recv(Client, "read")
     /\ Report([op |-> "entries", value |-> IF Body(Client).kind = "entries" THEN Body(Client).value ELSE None])
     /\ Become(Client, At(Client, "done"), <<>>)

KvNext ==
  /\ system.proto = "kv"
  /\ \/ Primary \/ AppendLogPrimary
     \/ AwaitAck(0, "acks", "done") \/ AwaitAck(0, "acks-on", "serve")
     \/ Follower(1) \/ Follower(2)
     \/ KvStart \/ SingleKeyPut \/ SingleKeyGet
     \/ UncommittedWakes \/ UncommittedGet \/ AppendLogClient
=============================================================================

---------------------------- MODULE MCProtocols -----------------------------
(* The experiments the test kit and the command line run. *)
EXTENDS Protocols

AllSystems == KvSystems \union RaftSystems

AllNodes == Replica \union {Client, Observer}
=============================================================================

---------------------------- MODULE MCPageStore -----------------------------
(* Values for the constants of PageStore and StorePrograms. *)
EXTENDS StorePrograms

AllPrograms == Raft \union {"wal", "wal-unflushed", "torn-write", "free"}

SomeBlocks == {<<1>>, <<2, 3>>, <<3, 2, 1>>}
=============================================================================

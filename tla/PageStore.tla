----------------------------- MODULE PageStore ------------------------------
(***************************************************************************)
(* The simulated disk of one node (PageStore of detersim-sim), the storage *)
(* calls a program makes on it and the storage faults of the nemesis.  The *)
(* disks of different nodes share nothing.  A byte is a number below 4, a  *)
(* data block is a sequence of them; offsets count from 0 as in the code.  *)
(***************************************************************************)
EXTENDS Naturals, SequencesExt

CONSTANTS
  Offsets,   \* the offsets the program writes at
  Blocks,    \* the blocks it writes
  MaxWrites, \* bound: writes
  MaxCrashes \* bound: crashes and bit rots

Byte == 0 .. 3

ASSUME BlocksOK == Offsets \subseteq Nat /\ Blocks \subseteq Seq(Byte)

VARIABLES
  pending,   \* what the program reads
  committed, \* what a flush has made durable
  log,       \* write_log: the writes since the last flush
  up,        \* whether the node runs
  torn, lost, reorder, \* FaultConfig: the node is in torn_write_nodes, ...
  writes, crashes      \* how much of each bound is used

device == <<pending, committed, log>>
flags  == <<torn, lost, reorder>>
vars   == <<device, up, flags, writes, crashes>>

-----------------------------------------------------------------------------
\* apply_bytes: the target grows, filled with zeros, to hold the block.
ApplyBytes(target, w) ==
  LET size == w.offset + Len(w.data)
  IN  [i \in 1 .. (IF size > Len(target) THEN size ELSE Len(target)) |->
         IF i \in w.offset + 1 .. size THEN w.data[i - w.offset]
         ELSE IF i <= Len(target) THEN target[i]
         ELSE 0]

Replay(target, ws) == FoldLeft(ApplyBytes, target, ws)

\* Mutant: every block tears.
WrittenTorn(data, isTorn) == SubSeq(data, 1, (Len(data) + 1) \div 2)

\* The part of a block PageStore::write_at writes: all of it or, torn, its
\* first half rounded up.
Written(data, isTorn) ==
  IF isTorn /\ Len(data) > 1 THEN SubSeq(data, 1, (Len(data) + 1) \div 2) ELSE data

\* Storage::write_at on SimStorage
Write(offset, data) ==
  /\ up /\ writes < MaxWrites
  /\ LET w == [offset |-> offset, data |-> Written(data, torn)]
     IN  /\ pending' = ApplyBytes(pending, w)
         /\ log' = Append(log, w)
  /\ writes' = writes + 1
  /\ UNCHANGED <<committed, up, flags, crashes>>

\* Mutant: the reordered flush starts from an empty device.
ReorderedFromScratch(old, ws) == Replay(<<>>, Reverse(ws))

\* The durable contents a flush with pre_fsync_reorder makes: the logged writes
\* reach the old contents last one first.
Reordered(old, ws) == Replay(old, Reverse(ws))

\* Mutant: a flush keeps its log.
LogAfterFlushKept(ws) == ws
LogAfterFlush(ws) == <<>>

\* Storage::flush on SimStorage, PageStore::flush
Flush ==
  /\ up
  /\ IF reorder /\ Len(log) > 1
     THEN committed' = Reordered(committed, log) /\ pending' = committed'
     ELSE committed' = pending /\ UNCHANGED pending
  /\ log' = LogAfterFlush(log)
  /\ UNCHANGED <<up, flags, writes, crashes>>

\* The xor of bit rot, on a device that has a first byte.
Rot(bytes) ==
  IF bytes = <<>> THEN <<>>
  ELSE [bytes EXCEPT ![1] = IF @ % 2 = 0 THEN @ + 1 ELSE @ - 1]

\* Mutant: what was not flushed survives every crash.
SparesAll == TRUE
Spares == ~lost

\* The storage part of Inner::crash_node: unflushed data goes only when the node
\* is in lost_on_crash_nodes; its bit_rot_nodes is never filled.
Crash ==
  /\ up /\ crashes < MaxCrashes
  /\ up' = FALSE
  /\ crashes' = crashes + 1
  /\ IF Spares THEN UNCHANGED <<pending, log>> ELSE pending' = committed /\ log' = <<>>
  /\ UNCHANGED <<committed, flags, writes>>

\* World::restart_node_outcome leaves the storage alone.
Restart == ~up /\ up' = TRUE /\ UNCHANGED <<device, flags, writes, crashes>>

\* NemesisAction::BitRot, crash_recover(true): also drops what was not flushed.
BitRot ==
  /\ crashes < MaxCrashes
  /\ crashes' = crashes + 1
  /\ committed' = Rot(committed) /\ pending' = Rot(committed)
  /\ log' = <<>>
  /\ UNCHANGED <<up, flags, writes>>

\* NemesisAction::TornWrite, LostOnCrash and PreFsyncReorder: on for good.
Enable ==
  /\ \/ ~torn /\ torn' = TRUE /\ UNCHANGED <<lost, reorder>>
     \/ ~lost /\ lost' = TRUE /\ UNCHANGED <<torn, reorder>>
     \/ ~reorder /\ reorder' = TRUE /\ UNCHANGED <<torn, lost>>
  /\ UNCHANGED <<device, up, writes, crashes>>

Init ==
  /\ pending = <<>> /\ committed = <<>> /\ log = <<>>
  /\ up = TRUE
  /\ torn = FALSE /\ lost = FALSE /\ reorder = FALSE
  /\ writes = 0 /\ crashes = 0

Next ==
  \/ \E offset \in Offsets, data \in Blocks : Write(offset, data)
  \/ Flush \/ Crash \/ Restart \/ BitRot \/ Enable

Spec == Init /\ [][Next]_vars

-----------------------------------------------------------------------------
(* Properties *)

\* The log always explains the difference between what the program reads and what
\* is durable, through torn writes, crashes and reordered flushes (PageStore).
LogExplainsPending == pending = Replay(committed, log)

\* A flush that reorders is visible only through writes that overlap: otherwise what
\* is durable afterwards is what the program saw (PageStore::flush).
Touched(w) == w.offset + 1 .. w.offset + Len(w.data)
Disjoint(ws) ==
  \A i, j \in DOMAIN ws : i # j => Touched(ws[i]) \intersect Touched(ws[j]) = {}
ReorderNeedsOverlap == [][Flush /\ Disjoint(log) => committed' = pending]_vars
=============================================================================

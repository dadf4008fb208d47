--------------------------- MODULE StorePrograms ----------------------------
(***************************************************************************)
(* The programs that exercise the simulated disk: the write-ahead log of   *)
(* the built-in scenarios and of the storage experiments, with and without *)
(* a flush before the acknowledgement, the torn-write experiment, and the  *)
(* persistence probe of Mini-Raft.  Each runs in one poll when its node    *)
(* starts: on an empty device it stores its record, on another it reads    *)
(* what it recovers.  Faults come between polls, in any order and number.  *)
(***************************************************************************)
EXTENDS PageStore, Sequences

CONSTANT Programs

VARIABLES
  program,  \* the element of Programs that runs, or "free": the calls of PageStore in any order
  todo,     \* the storage calls left in the current poll
  started,  \* whether the node's task ran since the last (re)start
  records,  \* what the program recorded
  rotted, tornWrite, whole,  \* whether bit rot hit, a write was torn, a write was not
  spared, forgotten  \* whether a crash left unflushed data; how often a fault took acknowledged data

progVars == <<program, todo, started, records, rotted, tornWrite, whole, spared, forgotten>>
allVars  == <<vars, progVars>>

\* OKAY as four bytes; the term 1, the vote 0 and the entry x as a byte each.
Record == <<1, 2, 3, 1>>
Term == <<1>>
Vote == <<2>>
Entry == <<3>>

W(offset, data) == [call |-> "write", offset |-> offset, data |-> data]
F == [call |-> "flush"]
R == [call |-> "read"]

FlushedLog == <<W(0, Record), F>>

\* The experiments that plant a bug, of the program and of the device.
AckBeforeFlush == <<W(0, Record)>>

\* Mutant: the torn-write experiment forgets its flush.
TornWriteUnflushed == <<W(0, Record), R>>
TornWrite == <<W(0, Record), F, R>>

\* The calls on an empty device.
Script ==
  CASE program = "wal" -> FlushedLog
    [] program = "wal-unflushed" -> AckBeforeFlush
    [] program = "torn-write" -> TornWrite
    [] program = "raft" -> <<W(0, Term), W(1, Vote), W(2, Entry), F>>
    [] program = "raft-no-term" -> <<W(1, Vote), W(2, Entry), F>>
    [] program = "raft-no-vote" -> <<W(0, Term), W(2, Entry), F>>

Raft == {"raft", "raft-no-term", "raft-no-vote"}

ASSUME ProgramsOK == Programs \subseteq Raft \union {"wal", "wal-unflushed", "torn-write", "free"}

\* Mutant: the vote is not looked at.
DiagnosisOfTerm(bytes) ==
  IF bytes = Term \o Vote \o Entry THEN "recovered"
  ELSE IF bytes[1] # Term[1] THEN "term-not-persisted" ELSE "log-not-persisted"

\* The label of the persistence probe for the three bytes it reads, zero where
\* the device ends.
Diagnosis(bytes) ==
  IF bytes = Term \o Vote \o Entry THEN "recovered"
  ELSE IF bytes[1] # Term[1] THEN "term-not-persisted"
  ELSE IF bytes[2] # Vote[1] THEN "vote-not-persisted"
  ELSE "log-not-persisted"

ReadBack == IF pending = Record THEN "intact" ELSE "damaged"

\* What a program records that finds something on its device.
Recovered ==
  IF program \in Raft
  THEN Diagnosis([i \in 1 .. 3 |-> IF i <= Len(pending) THEN pending[i] ELSE 0])
  ELSE ReadBack

\* The program stores its record; the torn-write experiment does not look first.
Stores == pending = <<>> \/ program = "torn-write"

\* The node's task runs for the first time since the node started.
Start ==
  /\ program # "free" /\ up /\ ~started
  /\ started' = TRUE
  /\ IF Stores
     THEN todo' = Script /\ records' = records
     ELSE todo' = <<>> /\ records' = Append(records, Recovered)
  /\ UNCHANGED <<vars, program, rotted, tornWrite, whole, spared, forgotten>>

Recorded(r) == \E k \in DOMAIN records : records[k] = r

\* The next call of the poll; the log is acknowledged after the last.
Call ==
  /\ todo # <<>>
  /\ todo' = Tail(todo)
  /\ LET c == Head(todo)
     IN  \/ c.call = "write" /\ Write(c.offset, c.data)
            /\ tornWrite' = (tornWrite \/ (torn /\ Len(c.data) > 1))
            /\ whole' = (whole \/ Written(c.data, torn) = c.data)
         \/ c.call = "flush" /\ Flush /\ UNCHANGED <<tornWrite, whole>>
         \/ c.call = "read" /\ UNCHANGED <<vars, tornWrite, whole>>
  /\ records' = IF Head(todo) = R THEN Append(records, ReadBack)
                ELSE IF Len(todo) = 1 /\ program \notin Raft THEN Append(records, "ack") ELSE records
  /\ UNCHANGED <<program, started, rotted, spared, forgotten>>

\* One more loss, if what a fault discards was acknowledged.
Loss == IF log # <<>> /\ Recorded("ack") THEN forgotten + 1 ELSE forgotten

Fault ==
  /\ todo = <<>>
  /\ \/ /\ Crash
        /\ started' = FALSE /\ spared' = (spared \/ ~lost) /\ UNCHANGED rotted
        /\ forgotten' = IF lost THEN Loss ELSE forgotten
     \/ (Restart \/ Enable) /\ UNCHANGED <<started, rotted, spared, forgotten>>
     \/ /\ BitRot
        /\ rotted' = (rotted \/ committed # <<>>) /\ UNCHANGED <<started, spared>>
        /\ forgotten' = Loss
  /\ UNCHANGED <<program, todo, records, tornWrite, whole>>

FreeCall ==
  /\ program = "free"
  /\ (\E offset \in Offsets, data \in Blocks : Write(offset, data)) \/ Flush
  /\ UNCHANGED progVars

ProgramsInit ==
  /\ Init
  /\ program \in Programs
  /\ todo = <<>> /\ started = FALSE /\ records = <<>>
  /\ rotted = FALSE /\ tornWrite = FALSE /\ whole = FALSE
  /\ spared = FALSE /\ forgotten = 0

\* The signatures of the storage experiments
AckLost == Recorded("ack") /\ ~Recorded("intact")
TornRead == Recorded("damaged")

ProgramsNext == Start \/ Call \/ Fault \/ FreeCall

ProgramsSpec == ProgramsInit /\ [][ProgramsNext]_allVars

-----------------------------------------------------------------------------
Acked(k) == \E j \in 1 .. k - 1 : records[j] = "ack"

\* A log that is flushed before it is acknowledged is recovered as it was written,
\* whatever crashes and reorderings come between; torn writes and bit rot excepted
\* (wal_recovery_world, bitrot_wal_world).
AckedIsRecovered ==
  program = "wal" /\ ~rotted /\ ~tornWrite =>
    \A k \in DOMAIN records : Acked(k) => records[k] = "intact"

\* The persistence probe blames what was not persisted, and nothing when all was;
\* torn writes and reordering cannot mislead it, bit rot can
\* (run_persistence_probe).
ProbeIsRight ==
  ~rotted =>
    \A k \in DOMAIN records :
      CASE program = "raft" -> records[k] = "recovered"
        [] program = "raft-no-term" -> records[k] = "term-not-persisted"
        [] program = "raft-no-vote" -> records[k] = "vote-not-persisted"
        [] OTHER -> TRUE

\* The acknowledgements the log has made
Acks == Cardinality({k \in DOMAIN records : records[k] = "ack"})

\* The unflushed log shows its bug once for every fault that took what it had
\* acknowledged, in whatever order faults and restarts come: it acknowledges again when
\* it next runs, and for no other reason.  No fault takes anything from the log that is
\* flushed first, so that one acknowledges once (run_storage_ack_before_flush,
\* wal_recovery_world).
LossesShow ==
  /\ program = "wal-unflushed" => Acks = forgotten + IF pending = <<>> THEN 0 ELSE 1
  /\ program = "wal" => forgotten = 0 /\ Acks <= 1

\* The oracle of that experiment only asks whether a record was found again: it fires
\* from the first acknowledgement on, whether anything was lost or not, and is silent
\* only after a crash that spared the record (storage_ack_before_flush_signature).  That
\* of the torn write is exact: it fires, over any faults and restarts, unless a whole
\* record was ever stored, over which a torn one reads back whole
\* (storage_torn_write_signature).
OraclesFire ==
  records # <<>> =>
    /\ program = "wal-unflushed" /\ ~AckLost => spared
    /\ program = "torn-write" => (TornRead <=> ~whole)
=============================================================================

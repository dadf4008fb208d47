# detersim: a verification project

detersim is a deterministic simulator for distributed programs: nodes run as async tasks on a
single thread, time is simulated, the network, the clocks and the disks misbehave on command, and
every run is reproducible from a seed. Above the simulator stand the tools that make it useful: history
checkers, plans of faults, replay from a tape, a shrinker, a search over seeds, and reference protocols
with planted bugs that show the tools find what they should. The programs that people test with all this
are only as well tested as it is right. These TLA+ modules model the code as it is; TLC checks them on
small instances and TLAPS proves part of it for every value of the constants.

## The system

| component (crate, file) | state | operations | talks to |
|---|---|---|---|
| runtime (`detersim-sim/src/lib.rs`, `Inner`, `World`, `SimEnv`) | clock, event queue, task slots, timers, inboxes and their waiting receivers, join slots, crashed nodes, clock skews, fault flags | `World::run`, `pop_until_poll`, `add_node`, `schedule_nemesis`, crash and restart, `send`, `recv`, `sleep`, `timeout`, `spawn`, join | every other component runs on it; draws from the tape, applies nemesis actions, asks the connectivity matrix |
| storage (`PageStore`, same file) | pending and durable bytes, log of unflushed writes, fault flags | `write_at`, `flush`, crash, bit rot | written by tasks, hit by the nemesis |
| connectivity (`detersim-nemesis`, `ConnectivityMatrix`) | known nodes, blocked directed pairs | `add_node`, `block`, `set_link`, `heal_all`, `partition` | read at every delivery |
| nemesis plans (`detersim-nemesis`) | what each plan has left, the offers a composite holds | `next_action` of `ScriptedPlan`, `RandomLinkFault`, `RandomPartition`, `Composite` | asked by `World::schedule_nemesis_plan`, draw from the tape |
| entropy tape (`tape.rs`, `rng.rs`) | recorded or given draws, cursor | `draw`, `generate`, `replay`, `diagnostics` | every random decision of the runtime |
| scenarios (`scenarios.rs`) | programs | ping-pong, gossip, timeouts, dual leader, WAL recovery, bit rot | run on the runtime |
| streams (`detersim-net`) | next number to send and to deliver, link state, buffered frames, transcript | `send` with faults, `flush`, `into_transcript` | used by a test directly |
| protocols (`detersim-protocols`) | stored value, log or counter, acknowledgements awaited, history of the client | replica and client loops of primary-backup KV and mini Raft, each with planted bugs | over the environment traits; the client's history goes to the checkers |
| checkers (`detersim-check`) | used operations, model state, memo, steps used | linearizability and serializability search, minimisation | read histories |
| shrinker (`detersim-shrink`) | current tape, kept indices, attempts, chunk length and position | cuts of chunks and of single draws, by tiers of labels when there are labels | asks a predicate, which replays a run |
| testkit (`detersim-testkit`) | first failure, replay, outcome of a case | `run_experiment_case`, `shrink_replay_failure`, `assert_replay_identical` | runs worlds, replays and shrinks them |
| search (`detersim-search`) | coverage seen, failures, retained candidates | `run_search` with three strategies, `compare_search_strategies` | runs worlds |
| viz, cli | none of their own | rendering, argument parsing, the worlds of the experiments | read reports, call the tools |

The runtime is a loop: `World::run` pops the earliest event, ordered by `(time, seq)`. A timer
event queues a poll of its task; a message event appends to an inbox and queues a poll for each
waiting receiver; a nemesis event changes the cluster; a poll event takes a future out of its slot
and polls it. While a future is polled the task calls back into the runtime (send, spawn, sleep,
read the clock), which pushes events. Between calls of `run()` the test driver holds the `World`
and changes it directly.

What is hard to test in it, and what the properties are for (the full list, with lines, is under
`hazards` in `PROJECT.json`):

- wakeups: a message, a join output, a timer and a crash can reach a task in any order, and each
  registers and unregisters the task in its own table. A lost wakeup looks like a deadlock of the
  program under test.
- drops: `timeout` drops the future that lost. What the future registered has to go with it.
- skewed clocks: a timer is armed under one skew and fires under another.
- incarnations: a crash must end timers, waiters and messages of the old incarnation only.
- ordering: one tie in the queue, or one event behind the clock, and replay diverges.
- the end of a run: the event that meets the budget is popped and lost, and the report is computed
  afterwards.
- durability: the four storage faults combine, and reordering is defined on a log that crashes and
  torn writes also touch.
- replay: a run is its draws in order. One draw more or less, and every later decision is another one;
  a shrunk tape ends early.
- protocols: acknowledgements are counted, not attributed; whoever waits for one message throws away the
  others; a planted bug has to show whatever the order of messages.
- checkers: memo, budget and minimiser are three ways to answer wrongly without a sign of it.
- shrinking and search: a cut accepted for the wrong failure, an index list that no longer describes the
  tape, a candidate truncated too early.

## Modules

`Connectivity.tla`, the operations of `ConnectivityMatrix` as operators on a record of the known
nodes and the blocked pairs. `Partition` keeps the code's rules: earlier blocks are healed, a node
listed twice belongs to the last group, nodes listed nowhere form a group of their own.

`Sim.tla`, the runtime. One action per branch of `pop_until_poll` (`Abort`, `Quiesce`, `FireTimer`,
`SkipTimer`, `DropMsg`, `DeliverMsg`, `NemesisStep`, `RestartStep`, `SkipPoll`, `PollTask`), one per
call a task can make (`Send`, `Spawn`, `ReadNow`, `AwaitRecv`, `AwaitSleep`, `AwaitJoin`, `Finish`), one
per outcome of polling what a task awaits (`TakeMessage`, `TakeOutput`, `TimeUp`, `Park`) and one per call
of the driver (`AddNode`, `ScheduleNemesis`, `SetFaults`, `SpawnFromOutside`, `ApplyNow`, `RestartNow`,
`Run`). `mode` says where `run()` is: `idle` outside, `loop` between events, `poll` while the current
task polls what it awaits, `run` while it executes its own code.

| code | model |
|---|---|
| `queue: BinaryHeap<Reverse<Keyed>>`, `seq` | `queue`, a set of events with `time` and `seq`; `IsFirst` is the top of the heap |
| `tasks: BTreeMap<TaskId, TaskSlot>`, `TaskSlot.future` | `tasks`, a function on the live ids; `held` is FALSE while the future is out of its slot |
| the pending future of a task | `await`: `recv`, `join` or nothing, raced against a sleep when `dur` is set |
| `SleepFuture {deadline, timer}` | `await.deadline`, `await.timer`, set when the future is first polled |
| `JoinSlot`, `SimJoinHandle` | `joins`, for each handle still held: its owner, `done`, the task to poll |
| `recv_waiters`, `inboxes`, `timers` | `waiters`, `inbox`, `timers` |
| `FaultConfig.drop_percent`, `duplicate_percent` | `faults.drop`, `faults.duplicate`: whether a draw may drop or duplicate |
| draws from the entropy tape | choices over the range of the draw |
| `RunReport` | `report`: how the loop ended and the two flags |
| nothing | `sent`, `epoch`: history variables, the messages ever sent and the crashes of each node |

The program under test is arbitrary: any task may do anything the instance's `Ops` allow, in any
order. A branch that loses a race is dropped as `ClockExt::timeout` drops it, including a join
handle, unless the task only lent the handle (`keep`).

`Datagram.tla`, the abstract specification of the `Network` capability of `detersim-core`:
node-addressed datagrams of which at most two copies travel, each lost or delivered once, to the
addressee's mailbox; a crash destroys a mailbox and what was in flight from or to the node. `Sim`
implements it under the mapping `Net` (property `ImplementsDatagram`): copies in flight are the
message events of the queue, mailboxes are inboxes. Timers, tasks, clocks and partitions all map to
stuttering or to loss.

`PageStore.tla`, one simulated disk: what the program reads, what is durable, the log of unflushed
writes, the storage faults, crash and restart. Disks of different nodes share nothing, so one is
enough. Its `Reordered` folds the logged writes onto the durable bytes last one first, as the code
does.

`StorePrograms.tla`, the programs of the repository that depend on durability, on top of `PageStore`: the
write-ahead-log worlds of `scenarios.rs` and the storage experiments of the command line, with and without a
flush before the acknowledgement and with a torn write, and the persistence probe of Mini-Raft with its
forgetful variants. A program is the list of its storage calls; each call is a step, and faults fall between
the polls. `program = "free"` keeps the plain disk.

`Channel.tla` and `Stream.tla`. `Stream` is `DeterministicStream`: `Send` with any set of the faults a
caller can list for the frame (disconnect, reconnect, drop, duplicate, delay), `Flush` and
`IntoTranscript`; all of them end in `Drain`, the loop of `drain_ordered`. Numbers stand for frames.
`Channel` is what a stream promises: it delivers, in order and once, what was sent before the first loss.
`Stream` implements it under the mapping `Fifo`.

`Cluster.tla`, `PrimaryBackupKv.tla`, `MiniRaft.tla`, `Protocols.tla`, on top of `Datagram`, which is the
abstraction that `Sim` implements. A replica or client is a record in `st`: the `pc` names the `recv` it
waits at, the rest are the locals of its loop. One poll of the executor, from one `recv` to the next, is
one step, with all it sends (`Post`), because nothing else runs meanwhile. `Cluster` has what both
protocols share, with `AwaitAck` for `wait_for_acks`, `PrimaryBackupKv` the primaries and clients of
`primary_backup_kv.rs` and `client.rs` for each of its seven variants, `MiniRaft` those of `mini_raft.rs`
for each of its eight. `Protocols` picks an experiment as the command line does, with the links that
experiment cuts, and says what a client may then report. Histories are `ops`; the events the observer
collects are `labels`; `doubled` are the datagrams the network made two of. The sleep with which a client lets
the replicas go first ends, where the outcome depends on it, once nothing is under way any more (`Quiet` in
`UncommittedWakes`): it is longer than the hops it waits for.

`HistoryCheck.tla`, the linearizability search (`run_search`, `dfs`), the serializability search
(`check_serializable`, `TxnSearch`) and the minimiser, as one machine: `search` holds the frames of the
recursion, the memo and the steps used; `Accept`, `GiveUp`, `Prune`, `Expand`, `Advance` and `Backtrack`
are the branches of the recursive function in the order in which the code tests them. The four sequential
models are `ModelStep`. The definitions of linearizable and serializable, by enumeration of all orders,
are under Properties and share nothing with the search but the models.

`EntropyTape.tla`, `NemesisPlans.tla`, `TapeWorld.tla`: a tape that records or replays, the plans that draw
from it, and a run of a world reduced to its draws (plan, delay, duplicate, drop of each copy), in the
order in which `schedule_nemesis_plan`, `SimNet::send` and `pop_until_poll` make them. `Shrink.tla`
has both shrinking algorithms: `shr` holds the locals of the loops, `Candidate` is the tape under test and
`Judge` what the loops do with the answer. `Experiment.tla` is the code that calls the worlds and the
shrinker: `job.stage` says which call it waits for. `Search.tla` is `run_search` for the three strategies,
one after the other, and their comparison; of the candidates it has the set that is retained, not their
order. `Campaign.tla` composes them: one tool, one world.

| code | model |
|---|---|
| `EntropyTape {mode, cursor, log, events}` | `tape`: the input, the values drawn, their labels; the cursor is the number of draws |
| `Composite {plans, pending}` | `plans`, `pending`; `asking` is the child the loop of `next_action` is at |
| locals of `shrink_tape_with_config` and of the label-aware variant | `shr`: `current`, `kept_indices`, `attempts`, `chunk_len`, `idx`, the tier, the phase |
| locals of `run_experiment_case`, the shrink command, `SignaturePreservingShrink` | `job` |
| `RunReport` of a small world | `Report`: the draws, their labels, what the traces show |
| `SearchReport`, coverage seen | `hunt` |

The `MC` modules give values to constants. The proofs are in modules of their own: `SimProofs`, `SimTasks`
on top of it and `SimNetwork` about the runtime, `StoreProofs` about the disk and its programs, `StreamProofs`
about streams, `ProtocolProofs` about the reference protocols, `CampaignProofs` about plans, shrinking,
replay and search as `Campaign` composes them, and `HistoryProofs` about the checkers.

Operators whose comment starts with "Mutant" are plausible mistakes. They are used by no
specification; each replaces, one at a time, the definition next to it to confirm that a property
notices.

## Runs

All runs are exhaustive. `CHECK_DEADLOCK FALSE` is set where worlds do end: the driver stops
calling, and the bounds stop tasks. A check and a campaign end in a step of their own (`Done`, `Finished`),
so there deadlock is an error.

| run | instance | shows |
|---|---|---|
| `sim_crash` | 2 nodes, 2 messages, 1 timeout, 2 scheduled crashes or restarts at instants 1 or 2 | `NoGhosts`: every timer, waiter and joiner belongs to a live task waiting for just that; `CrashedIsDown`; `NoStaleMessage`: a message in flight is between the present incarnations of its ends, one in an inbox was sent to the incarnation that will read it; `ImplementsDatagram`; `TypeOK` |
| `sim_clock` | 1 node, 2 tasks, 2 sleeps of 1 or 3 under skews of -2 and 2, 2 runs; with fairness | `TotalOrder`, `SleepersWake` (a sleeper keeps an armed timer or a poll), `TimeMonotone`, `LocalClockMonotone` (what a node reads off its own clock never goes back, whatever its skew), `SleepersResume` (liveness) |
| `sim_wait` | 1 node, up to 3 tasks, 1 message, 2 sleeps or timeouts of 0 or 1, crashes | `NoLostWakeup`: a task that could continue is queued to be polled; `QuiescentIsStuck`: when the queue runs empty, what remains can never continue |
| `sim_net` | 2 nodes, every kind of nemesis action, drops, duplicates and extra delay, actions by the driver and from the queue, 2 runs with a horizon of 3 and 8 events | `ImplementsDatagram` |
| `store` | offsets 0, 1, 4; blocks of 1 to 3 bytes; 3 writes; 2 crashes or bit rots; 7 programs | `LogExplainsPending`: the log always explains what is read but not durable; `ReorderNeedsOverlap`: reordering shows only through overlapping writes; `AckedIsRecovered`: a log that is flushed before it is acknowledged is found again; `ProbeIsRight`: the probe blames the write that was forgotten; `LossesShow`: the unflushed log acknowledges again once for each fault that took what it had acknowledged, the flushed one never; `OraclesFire`: when the oracles of the two storage experiments fire, over any faults and restarts |
| `stream` | 3 frames, every set of faults for each, flushes anywhere | `ImplementsChannel`; `FinishedIsComplete`: nothing before the first loss is held back in the end; `TranscriptAccounts`: one fate and at most one delivery of each frame, in that order; `DelayIsShort`: a delayed frame leaves with the next frame on its way |
| `check` | 4563 histories of 3 or 4 operations, 4 budgets | `VerdictSound`: a verdict and its witness agree with the definition; `MemoSound`: what the memo cuts could not succeed; `SubhistoryFails`: the minimised history fails by itself; `InconclusiveMeansLowBudget`: no answer is withheld under a budget above the number of nodes there are |
| `protocols` | 15 experiments, one datagram lost and one duplicated, any order; with fairness | `CorrectIsLegal`: the correct variants never give the checker an illegal history; `AckedIsReplicated`; `PlantedBugShows`: a planted bug that depends on no timing is in the history of every client that ends; `FaultFreeRunFinishes` (liveness) |
| `campaign` | worlds of 1 to 3 nodes with up to 3 plans, draws 0 and 99, 1 or 3 seeds, budgets of 0, 3, 4 and 40 attempts, chunks from 0, 1 or 2; with fairness | `ReplayIsIdentical`, `RecallIsComplete`, `KeptDescribesMinimized`, `EveryKeptWasNeeded`, `EmittedInOrder`, `PartitionsSplit`, `RetainedAreBest`, `StrategiesAgree`, `JobEnds` (liveness) |
| `sim_deadlock`, `check_inflight`, `tape_calm` | the smallest instance that shows it, or that of the component | see Findings |

What the properties of `campaign` say: a replay built like the recorded run makes the same draws, uses up
its tape and ends the same way; then an observed failure is recalled, and the minimised tape fails the same
way. The kept indices pick the minimised tape out of the original, after every cut and also when the budget
ends in the middle of a round; after a completed pass over single draws each one left was tried alone and
refused where the tape then stood. A composite of plans in order emits in order; a partition has two
inhabited sides. Dropping candidates after every seed retains the same ones as dropping them at the end; the
strategies run the same seeds.

Why these bounds are enough to be interesting. Two nodes give every relation of sender, receiver and
crashed node. Three tasks on a node are a winner and a loser for one message, or a parent, a child
and a competitor; two sleeps are a timer that fires early and its replacement, or a timeout inside a
race. Delays of 1 keep events at the same instant frequent, which is where order matters; durations
of 0 and 1 put a deadline before, at and after a delivery. Two runs of a world are needed for
driver calls in the middle of a life. The offsets 0, 1, 4 and blocks up to 3 bytes include adjacent,
overlapping, contained and gapped writes, and blocks that tear.

Three frames of a stream are a lost one, one that is delayed behind another, and one that comes after both.
Three operations with every interleaving of their ends have every shape of overlap and order that two
pairs can have; the fourth operation, after three that overlap, is what makes the memo matter. One
datagram lost and one doubled anywhere in an experiment is what its single client and three replicas can
tell apart: a second loss only stops one more node. Draws of 0 and 99 make every percentage decision fire
and not fire, choose the first and the last of every list and delay by least and most. Three seeds are two
to retain and one to lose; budgets of 3 and 4 attempts end inside a round, 40 does not end first. Tapes have
3 to 9 draws, enough for chunks of two that succeed, fail and leave a rest.

Bounds of the model, each a constant: `MaxTasks`, `MaxMsgs`, `MaxSleeps`, `MaxCalls`, `MaxRuns` limit how
often something is started; `MaxWrites`, `MaxCrashes`, `MaxFrames`, `MaxDoubled` and `MaxLost` do so for
writes, faults of the disk, frames, duplicates and losses; `MaxActions` and `SeedCount` are arguments of the
code; `NetDelay` (100 ms in the code) and `DuplicateGap` (10 ms) are small. `Horizon` and `MaxEvents` are
configuration of the code itself.

Fairness. `FairSpec` adds weak fairness of `Loop \/ Task`: inside a call of `run()` the loop goes around as
long as it can, and the code of a task between two awaits ends. Nothing is assumed of the driver. The
`FairSpec` of `Protocols` is weak fairness of the nodes and of deliveries together: the executor runs every
task that is ready, and the event queue brings every datagram the network did not drop to its mailbox; nothing
is assumed of losses, and `FaultFreeRunFinishes` promises nothing after one. `CampaignSpec` is weak fairness
of a sequential program: what can run next runs. A task that never awaits would hang the real simulator too.
`SleepersResume` is conditional: a sleeper gets past its sleep, disappears in a crash, or the run is cut short by
horizon or budget. A poll before the time is not enough: a sleeper that is looked at early and parks again still sleeps.

`NoLostWakeup`, `SleepersWake` and `QuiescentIsStuck` are also stated for a world that is not
`Exhausted`: once the clock has passed the horizon or the budget is used, popped events are thrown
away and nothing is promised. Actions are scheduled at or after the current instant
(`PastAllowed = FALSE`).

## Findings

Three places where a run shows the code doing something else than its documentation says.

- `sim_deadlock`: the event that crosses the horizon is popped before the report looks at the queue.
  If it was the last, `deadlocked` is true although its task was only asleep.
- `check_inflight`: operations without a completion are dropped before the search
  (`detersim-check/src/lib.rs:380`). A completed read of what a write still in flight had put there makes
  the history NotLinearizable, which the repository's README calls a real failure.
- `tape_calm`: past its end a replayed tape draws 0, documented as the calm thing to do. For
  `draw_percent` 0 is below every percentage, so the run drops and duplicates from there on. A tape that
  was shrunk can fail for no other reason.

Observations from reading and modelling that no run states:

- `schedule_nemesis` accepts an instant before the current time between two runs and `pop_until_poll` sets
  the clock to it, so time goes back; `time.rs:7` calls `SimTime` monotonic. With `PastAllowed = TRUE` `Sim`
  has that behaviour, and `TimeMonotone` fails.
- `aborted` is `dispatched >= max_events` after the loop (`lib.rs:1098`). A world that ends by itself at
  exactly its last allowed event is reported as stopped by the budget.
- The `Storage` trait says only flushed data survives a crash in the simulator (`detersim-core/src/lib.rs:93`);
  unflushed data survives unless `lost_on_crash` was enabled for the node (`Crash` of `PageStore`).
- `pop_until_poll` takes a future out of its slot before it checks whether the node is crashed. A task
  spawned from outside on a crashed node is dropped at its first poll and leaves an empty slot, which
  `parked_tasks` counts until the next crash. `SkipPoll` models it.
- `predecessors` takes an operation that ends at the instant at which another begins for one before it, whoever issued
  them (`detersim-check/src/lib.rs`, `complete <= invoke`). Two operations of different processes that share
  such an instant are concurrent in the usual definition; the checker is stricter (`InstantsApart`).
- Acknowledgements carry no request, so a duplicated `replicate` or `ack` lets the correct primary
  acknowledge a write that a follower lacks, and a duplicated `ok` is taken for the answer to the next
  request. `CorrectIsLegal` and `AckedIsReplicated` name these duplicates as their exception.
- With `min_chunk_len` 0 the shrinker ends up cutting nothing, succeeds each time and uses the whole budget
  (`detersim-shrink/src/lib.rs:206`); the pass over single draws never runs.
- The oracle of the experiment that acknowledges before it flushes (`main.rs:1780`) asks for an acknowledgement and no
  intact record, not for a loss: it fires from the first acknowledgement on, with or without a crash, and is silent
  only when a crash spared the record. `OraclesFire` states what it does tell.
- A search whose budget is exactly the number of nodes it would expand can still end inconclusive: it tests the budget
  before the memo, so a node already seen counts once more (a register of 0 with a write of 1, another of 1 and a
  read of 5 that overlap: four nodes, and a budget of 4 is not enough). The transaction search tests it before
  completeness as well: one transaction and a budget of 1.
- `run_storage_fault` in the command line (`main.rs:1669`) records "storage-corruption:bitrot" whatever
  it reads, and no bit rot is scheduled.

## Proofs

`tlapm` checks the theorems below for every value of the constants: any number of nodes, tasks, writes, frames,
plans, draws, operations, any budget. Each module of proofs states the strengthening that makes its properties
inductive; where it was in doubt, TLC checked it on a run first.

### The runtime

- `TypeCorrect` (SimProofs): `TypeOK` is inductive. Its parts (`EventsOK`, `ModeOK`, `TasksOK`, `ClusterOK`,
  `MailOK`, `TimersOK`, `RecordsOK`) each concern few variables, lemma `Frames` disposes of the parts a step
  leaves alone, and one lemma per group of actions treats the rest. It says more than types: ids are below the
  next id, a task that runs exists, a crashed node was added.
- `LocalClockNeverBack` (SimProofs): `LocalClockMonotone`; the actions that read a clock are sorted from those that leave
  every clock alone (`LastLocalKinds`), and a reading is never below the one before it (`ReadIsLater`).
- `EventOrder` and `ClockMonotone` (SimProofs), assuming `~PastAllowed`: `TotalOrder` is inductive together with
  `TypeOK`. Every action removes events, or queues events at the end of the insertion order and not before the
  clock (`OrderExtends`); popping takes the earliest, so what stays is not behind the new clock (`PopOrder`). The
  interesting leaves are `GlobalDeadline`, which never lies in the past whatever the skew, and the duplicate of
  a message.
- `IncarnationsApart` (SimProofs): `NoStaleMessage` is not inductive: that a message event agrees with the epochs
  of its ends says nothing if its id could belong to another message. `Traced` adds that every message event
  and inbox entry stands for an entry of `sent` between the same nodes. A crash raises one epoch and removes
  exactly the events and the inbox that mention it.
- `NothingLeftBehind` (SimTasks): `NoGhosts` follows from `Owned`. Its additions are what makes a deregistration
  complete: a timer is known to the one task whose await names it, a waiter list has no task twice (the code
  removes one entry), a handle that is awaited belongs to the task awaiting it, and a task that executes its
  own code awaits nothing. `StepKinds` sorts the actions by what they do to these tables.
- `CrashIsComplete` (SimTasks): `CrashedIsDown`, from `Owned` and `TypeOK`: what a crash sweeps is found through
  the tasks of the node, so every entry must belong to one.
- `WakeupsAreKept`, `SleepersAreWoken`, `QuiescenceIsFinal` (SimTasks), assuming `~PastAllowed`: `Woken` adds to
  the properties that a parked task awaits something (`AwaitsReal`), that the task being polled is out of its
  slot (`Taken`), and that every queued poll, timer and waiter entry leads to a poll (`Scheduled`). An
  exhausted run stays exhausted (`ExhaustedStays`), which is why the condition may stand in front.
- `NetworkRefinement` (SimNetwork): `Spec => ImplementsDatagram`, step by step. `NetKinds` sorts the actions of `Sim`
  by what they do to messages (calm, lost, delivered, read, sent once or twice, swept by a crash);
  `Networked` says that the messages on their way are finitely many events, each the copy of a message sent.

### The disk

- `LogExplains` (StoreProofs): `StoreType /\ LogExplainsPending`: replaying the log over the durable bytes gives
  what is read. It rests on lemmas about the fold of writes; what would be an induction over the log is an
  argument by a least counterexample (`Least`), which the prover can do.
- `ReorderIsHarmless` (StoreProofs): writes that do not overlap commute, so the reversed log gives the same bytes.
- `FlushedIsRecovered`, `ProbeBlames`, `LossesAreCounted`, `OraclesTell` (StoreProofs): `ProgramState`
  says, for each program and each position in its list of calls, which bytes are pending, durable and logged. For
  the unflushed log it counts: acknowledgements are losses and what is still pending (`UnflushedState`). For the
  torn-write experiment (`TornState`) a record that was whole once stays so but for its first byte, which may rot and
  is written again before it is read; until there is one, every write was torn, and tearing is never switched off.

### Streams

- `StreamIsChannel`, `FinishedHasAll`, `DelaysEnd`, `TranscriptIsComplete` (StreamProofs): `StreamOK` computes the
  buffer from the transcript: what was sent, not delivered and not lost. `Tells` is the form of a transcript;
  the loop of `drain_ordered` is a lemma about the longest run of buffered frames.

### Protocols

The three theorems of ProtocolProofs are about `ProtocolsSpec`, so about every experiment, every order of arrival
and any number of losses and duplicates. They rest on `NetOK`, which counts the copies of a datagram that are left, in
flight or in the mailbox of its addressee: two at most, and one unless the network doubled it. `Handled` says for
every handler, in terms of what it takes and what it sends (`Posts`), which copies that leaves.

- `AcknowledgedIsReplicated`: `Round` says that both followers have the value or the put is still open (`Waited`). While
  it is, each acknowledgement comes from a follower that has the value and will not acknowledge again, since the
  only `replicate` it gets is used up, and the one the primary has counted is used up too. So the last one it
  counts is from the other follower. A duplicate would break exactly this, which is why the property excludes it.
- `CorrectReportsLegally`: `Told` says where the client is and which answers are under way: one `ok` at most, and no
  read before it; so the second answer is the value read, and by `Round` (for the follower of the store) or by
  `Answered` (for the leader of Mini-Raft, which keeps the value once the put is decided) that is the value written.

`Orderly` collects these with `Roles` (where each loop of a correct variant can be) and `Said` (who says what to
whom). There is one lemma for each thing a correct variant does (`Asks`, `Spreads`, `Counts`, `Answers`, `Stores`,
`Serves`, `Hears`, ...), shared by both protocols, and one for each action that shows which of these it is.

- `PlantedBugsAreSeen`: no false negatives. `PlantedOK` has one invariant for each way in which a planted bug shows, and
  the theorem follows from what it says of a client, or of an observer, that is done.
  - `Misled`, for the nine bugs that show in a read: no letter brings the last value to where the client reads it
    (`Bland`), so the client reports its puts and a read of something else. With `LostUpdate` that value is 9, else 7;
    with `AckBeforeReplicate` the value is sent, over the edge that is down (`Apart`: nothing in a mailbox came over
    one). It holds whatever is lost or doubled.
  - `Reapplied`, for the append log: it grows by two at a time, so it never has the one entry the history asks for.
  - `Hasty`, for the follower that applies what is not committed: while the client sleeps the value is on its way to
    follower 1 or there (`Afoot`), so once the client may wake it is there. This needs that no datagram was lost.
  - `Turns`, for the request that is taken twice: without a duplicate one letter at most is still to be read, and it is
    the one whose turn it is (`InTurn`), so the second answer says 2.
  - `Twins`, for the two leaders of one term: the labels the observer has are those of as many letters, each read once
    (`Collected`), of the at most four there are; with four it has heard of both. No other variant gets a label past
    the edge that is down (`Unheard`), where the correct one and `FollowerStaleRead` send none in the first place.

  `Moved` and `MovedOn` say of every handler what it does to the letters: `Gains` bounds those it adds, `Passes` says
  which are still to be read.

### Plans, tapes and shrinking

The theorems of CampaignProofs are about `CampaignSpec`, so about every tool that draws from the tape. The first
four come from one invariant, `CampaignOK`; `Given` and `ShrOK` are its parts for the tool and for the shrinker,
`WorldOK` the one for tape and plans.

- `PartitionsDivide`: every partition that is offered or emitted splits the live nodes in two inhabited groups, for
  every draw (`OfferOK`). It needs that no node is listed twice.
- `CompositeInOrder`, if each plan by itself emits in order (`ScriptsInOrder`): `Merged` says that what was emitted is
  not later than any offer still pending, and that no plan will offer less than it did. The child that is being
  asked is the one that may have nothing pending.
- `KeptStaysInStep`: `KeptIs` relates the current tape and the kept indices to the original; a cut takes the same
  positions out of both (`CutKeeps`).
- `MinimizedIsNeeded`: `TriedSoFar` says which single draws the last pass has behind it, in this tier and in those that
  are done, and that each of them was refused once by itself. As the property says, it was refused where the tape
  stood then; later cuts do not try it again.
- `ReplayRepeats` and `FailureIsRecalled` compare two runs that do not happen at the same time. `After` is the world as a
  function: what a world that reads a given tape does next. `WorldAlike` shows that a step of the model is that
  step, for a tape that is replayed and for every tape that continues the draws made so far (`Fits`); a run that
  generates is thereby a run that reads what it will have drawn. `Ends` says how a run that reads a tape ends, and
  there is one such end (`EndsAlike`), past the end of the tape too. `ReplayOK` then says of the first failing run
  and of the tape the shrinker stands at how a run of them ends (`FirstOK`, `ShrunkOK`), and the
  comparisons of the tools are between ends of the same tape.
- `BestAreRetained`: `Keeps` holds of any candidates with ranks of their own (`Ranked`). One that is thrown away has
  `Retain` better ones that were kept; when a new one comes, the worst of the kept and the new one goes (`Worst`), and
  whatever was worse than that stays worse than all that are left (`RetainKeeps`).
- `OrdersAgree`: each order has every seed once (`EveryOrder`), so what a strategy has counted is the failures and the
  coverage of a set of seeds (`SoFar`), in the end of all seeds; reports do not change once a seed has run.

### Histories

- `ReportIsLegal` (HistoryProofs): `PathInv` ties the frames of the recursion together: frame `k` stands at a state that
  the first `k - 1` operations of `order` reach, in real-time order. It needs no assumption.
- `VerdictIsRight`, `MemoIsSound`, `MinimalStillFails`, assuming `InstantsApart`: `MemoInv` adds that every candidate a
  frame has passed has no legal completion, and neither has a node in the memo unless a frame still has it open; an
  answer cut short by the budget promises neither. That a used-up frame has no completion needs that a minimal
  operation exists among those left, which is where operations that share an instant would interfere.
- `BudgetIsEnough`: a budget above the number of nodes withholds no answer; with exactly as many it may (Findings).
  `Work` counts. The steps of a search are its nodes in the memo, and for transactions the
  candidates tried at each: `Spent` keeps what the open frames have still to try. Each node is one the
  definition of `Nodes` lists, since its operations were put in a legal order to get there.

What a run of a model, an `apply_txn` or a filter computes is a fold over a sequence. `TxnSteps`, `RunSteps` and
`FilterSteps` are the same folds as functions of the number of steps, and `Climb` takes a fact from one step to the
next, so that no induction theorem is needed.

### Assumptions

The modules name what they assume of their constants: `ConstantsOK`, `BlocksOK`, `ProgramsOK`, `ChecksOK`, `DrawsOK`,
`JobsOK`, `HuntsOK`, `NodesOK`, `BudgetOK` and `StressOrderOK` say what kind of values they are. `SystemsOK` says that
an experiment is one of the worlds the command line builds: a bug in the protocol it belongs to, with the edges
that world has down (one replica cut off, or no observer listening).

`Campaign` assumes `OwnTapes`: a tape given to `SignaturePreservingShrink` was drawn by one seed of the world that
replays it. The function itself classifies whatever tape it is handed; of a tape from elsewhere there is no first
failure to recall. Some theorems assume something more, always in their statement:

- `~PastAllowed`: the caller schedules nothing before the current instant. With it `TimeMonotone` fails (Findings).
- `InstantsApart`: no operation ends at the instant at which another process begins one. The checkers take the two
  for ordered (Findings), so that a history with such instants can be rejected though the usual definition
  accepts it. The histories of the run `check` satisfy it, an assumption of `MCHistoryCheck`.
- `ScriptsInOrder`: the times of each plan in a composite do not decrease; of scripts in another order `Composite` promises
  no order.

### Only model-checked

- Liveness (`SleepersResume`, `FaultFreeRunFinishes`, `JobEnds`): TLAPS has no rule for fairness that its provers here can use.

Every invariant and every action property a run checks is stated by a theorem.

### Plan

What is left, in the order of what matters most to a user of the simulator.

1. Models: a program that polls two receives at once in `Sim`; the suites of testkit and search.

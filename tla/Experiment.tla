----------------------------- MODULE Experiment -----------------------------
(***************************************************************************)
(* What the test kit does with a case: run its seeds, replay the first     *)
(* failure, shrink its tape by replaying the candidates, and replay what   *)
(* is left.  "experiment" is run_experiment_case, "artifact" the command   *)
(* line's shrink with shrink_replay_failure, of a seed that is given, and  *)
(* "signature" is SignaturePreservingShrink of a generated tape.           *)
(***************************************************************************)
EXTENDS TapeWorld, Shrink, TLC

VARIABLE job  \* the tool at work: [tool, case, budget, stage, ...]

experimentVars == <<worldVars, shr, job>>

NoRun == [log |-> <<>>, labels |-> <<>>, trace |-> <<>>]

Job(tool, case, budget) ==
  [tool |-> tool, case |-> case, budget |-> budget, stage |-> "seeds", seed |-> 0,
   failures |-> 0, first |-> NoRun, target |-> "none", replay |-> <<>>, result |-> "none"]

Working == job.stage \notin {"done", "search"}

\* The harness calls the world and waits for its report.
Call(stage, conf, t) == StartWorld(conf, t) /\ job' = [job EXCEPT !.stage = stage]
CallReplay(stage, tape_log) == Call(stage, job.case.replay, Replaying(tape_log))

\* An artifact is asserted to fail, the others report that it does not.
Otherwise == IF job.tool = "artifact" THEN "panic" ELSE "not recalled"
Conclude(result) == job' = [job EXCEPT !.stage = "done", !.result = result]

\* Mutant: another failure is as good as this one.
AnyFailure(report) == Oracle(report) # "none"

\* The run fails as the first one did.
StillFails(report) == Oracle(report) = job.target

GenerateSeed ==
  /\ job.stage = "seeds" /\ job.seed < job.budget.seed_count
  /\ Call("generating", job.case.generate, Generating)
  /\ UNCHANGED shr

\* A seed has run; the first that fails is kept.
Generated ==
  /\ job.stage = "generating" /\ Over
  /\ LET fails == Oracle(Report) # "none"
         first == fails /\ job.failures = 0
     IN  job' = [job EXCEPT
           !.stage = "seeds", !.seed = @ + 1,
           !.failures = IF fails THEN @ + 1 ELSE @,
           !.first = IF first \/ job.tool = "signature" THEN Report ELSE @,
           !.target = IF first THEN Oracle(Report) ELSE @]
  /\ UNCHANGED <<worldVars, shr>>

\* All seeds have run: the first failure is replayed from its tape.
ReplayFirst ==
  /\ job.stage = "seeds" /\ job.seed = job.budget.seed_count
  /\ IF job.failures = 0 /\ job.tool # "signature"
     THEN Conclude("not recalled") /\ UNCHANGED worldVars
     ELSE CallReplay("replaying", job.first.log)
  /\ UNCHANGED shr

\* What is compared of the generated run and its replay.
Compared == [signature |-> Oracle(Report) = Oracle(job.first), trace |-> Report.trace = job.first.trace,
             consumed |-> ConsumedAll(tape), exhausted |-> Exhausted(tape)]

\* SignaturePreservingShrink keeps the signature its tape has, whatever it is.
Classified == Oracle(Report)

\* The replay goes on to the shrinker, or the failure is not recalled.
Replied ==
  /\ job.stage = "replaying" /\ Over
  /\ LET target == IF job.tool = "signature" THEN Classified ELSE job.target
         sound == CASE job.tool = "experiment" -> Compared.signature /\ Compared.trace
                    [] job.tool = "artifact" -> StillFails(Report)
                    [] job.tool = "signature" -> Classified # "none"
     IN  \* (A tape that does not fail is classified once more, to the same end.)
         IF sound
         THEN /\ job' = [job EXCEPT !.stage = "shrinking", !.target = target, !.replay = <<Compared>>]
              /\ shr' = StartShrink(job.first.log, IF job.case.labelled THEN job.first.labels ELSE <<>>, job.budget)
         ELSE /\ job' = [job EXCEPT !.stage = "done", !.replay = <<Compared>>,
                           !.result = Otherwise]
              /\ UNCHANGED shr
  /\ UNCHANGED worldVars

\* The predicate of the shrinker replays the candidate.
TryCandidate ==
  /\ job.stage = "shrinking" /\ Tries
  /\ CallReplay("trying", Candidate)
  /\ UNCHANGED shr

Tried ==
  /\ job.stage = "trying" /\ Over
  /\ Judge(StillFails(Report))
  /\ job' = [job EXCEPT !.stage = "shrinking"]
  /\ UNCHANGED worldVars

Shrinks ==
  /\ job.stage = "shrinking"
  /\ ShrinkStep
  /\ UNCHANGED <<worldVars, job>>

\* The minimised tape is replayed once more (where the original did not reproduce the
\* failure, an artifact panics before or after that).
ReplayMinimized ==
  /\ job.stage = "shrinking" /\ shr.phase = "over"
  /\ CallReplay("minimized", shr.current)
  /\ UNCHANGED shr

Minimized ==
  /\ job.stage = "minimized" /\ Over
  /\ Conclude(IF StillFails(Report) THEN "recalled" ELSE Otherwise)
  /\ UNCHANGED <<worldVars, shr>>

ExperimentStep ==
  \/ GenerateSeed \/ Generated \/ ReplayFirst \/ Replied \/ TryCandidate \/ Tried
  \/ Shrinks \/ ReplayMinimized \/ Minimized

-----------------------------------------------------------------------------
Faithful == job.case.generate = job.case.replay

\* A replay built like the generated run draws what it drew, all of it and no more,
\* and ends the same way (assert_replay_identical, run_experiment_case).
ReplayIsIdentical ==
  job.replay # <<>> /\ Faithful =>
    job.replay[1] = [signature |-> TRUE, trace |-> TRUE, consumed |-> TRUE, exhausted |-> FALSE]

\* If the replay is faithful, every observed failure is recalled, and no assertion of
\* the harness fires after it.  What is recalled was observed, and the minimised tape
\* fails as the first seed did.
RecallIsComplete ==
  job.stage = "done" =>
    /\ Faithful /\ job.failures > 0 => job.result = "recalled"
    /\ job.result = "recalled" =>
         /\ job.failures > 0
         /\ Oracle(Report) = Oracle(job.first)

\* A job ends, whatever the shrinker is configured to: the budget of attempts stops
\* even chunks of length zero.
JobEnds == Working ~> job.stage = "done"
=============================================================================

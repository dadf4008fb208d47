------------------------------- MODULE Search -------------------------------
(***************************************************************************)
(* The search over seeds of detersim-search: each strategy runs the seeds  *)
(* in its own order and keeps the best of them, and the strategies are     *)
(* compared.  A seed's generator always gives the same values, so it runs  *)
(* once and its report is recalled.                                        *)
(***************************************************************************)
EXTENDS Experiment

CONSTANTS
  SeedCount,   \* SearchBudget
  Retain,      \* retain_candidates
  StressOrder  \* the seeds by falling stress_score

ASSUME BudgetOK == SeedCount \in Nat /\ Retain \in Nat

\* A sort of the seeds has each of them once.
ASSUME StressOrderOK ==
  /\ Len(StressOrder) = SeedCount /\ ToSet(StressOrder) = 0 .. SeedCount - 1
  /\ StressOrder \in Seq(0 .. SeedCount - 1)
  /\ \A i, j \in 1 .. SeedCount : StressOrder[i] = StressOrder[j] => i = j

VARIABLE hunt  \* the search of a strategy, and the rows of those that are done

searchVars == <<experimentVars, hunt>>

Strategies == <<"Random", "CoverageGuided", "FailureDirected">>

NewSearch(strategy, reports, rows, best) ==
  [strategy |-> strategy, rank |-> 0, seen |-> {}, all |-> {}, candidates |-> {}, first |-> <<>>,
   failures |-> 0, reports |-> reports, rows |-> rows, best |-> best]
NoHunt == NewSearch(4, <<>>, <<>>, "none")

Seeds == [k \in 1 .. SeedCount |-> k - 1]
Odds  == [k \in 1 .. SeedCount \div 2 |-> 2 * k - 1]
Evens == [k \in 1 .. (SeedCount + 1) \div 2 |-> 2 * k - 2]

\* Mutant: the even seeds begin at two.
seed_order_from_two(strategy) ==
  CASE strategy = "Random" -> Seeds
    [] strategy = "CoverageGuided" -> Odds \o Tail(Evens) \o <<1>>
    [] strategy = "FailureDirected" -> StressOrder

seed_order(strategy) ==
  CASE strategy = "Random" -> Seeds
    [] strategy = "CoverageGuided" -> Odds \o Evens
    [] strategy = "FailureDirected" -> StressOrder

Strategy == Strategies[hunt.strategy]
Seed == seed_order(Strategy)[hunt.rank + 1]

\* semantic_coverage: the labels drawn, the faults applied, the fates of messages
SemanticCoverage(report) ==
  ToSet(report.labels)
  \union {report.trace[1][k].action[1] : k \in DOMAIN report.trace[1]}
  \union ToSet(report.trace[3])

\* coverage_from_run adds the labels again, and what the history says.
Coverage(report) == SemanticCoverage(report) \union ToSet(report.labels) \union {Oracle(report)}

candidate_score(report, new) ==
  Len(report.log)
  + CASE Strategy = "Random" -> 0
      [] Strategy = "CoverageGuided" -> 10 * new
      [] Strategy = "FailureDirected" -> 10 * new + IF Oracle(report) = "none" THEN 0 ELSE 1000

\* a ranks before b.
Better(a, b) == a.score > b.score \/ (a.score = b.score /\ a.rank < b.rank)

\* Mutant: the best are sorted last when the rest is cut off.
retain_worst(candidates) ==
  {c \in candidates : Cardinality({b \in candidates : Better(c, b)}) < Retain}

\* What a sort by Better leaves in the first Retain places.
retain_best(candidates) ==
  {c \in candidates : Cardinality({b \in candidates : Better(b, c)}) < Retain}

Searching == job.stage = "search" /\ hunt.strategy <= Len(Strategies)
More == hunt.rank < Len(seed_order(Strategy))

\* case.generate
SearchSeed ==
  /\ Searching /\ More /\ world.phase = "idle" /\ Seed \notin DOMAIN hunt.reports
  /\ StartWorld(job.case.generate, Generating)
  /\ UNCHANGED <<job, shr, hunt>>

SeedRan ==
  /\ Searching /\ Over
  /\ hunt' = [hunt EXCEPT !.reports =
                [seed \in DOMAIN @ \union {Seed} |-> IF seed = Seed THEN Report ELSE @[seed]]]
  /\ world' = Idle
  /\ UNCHANGED <<tape, planVars, job, shr>>

\* The body of the loop of run_search
Observe ==
  /\ Searching /\ More /\ Seed \in DOMAIN hunt.reports
  /\ LET report == hunt.reports[Seed]
         coverage == Coverage(report)
         new == Cardinality(coverage \ hunt.seen)
         fails == Oracle(report) # "none"
         candidate == [seed |-> Seed, rank |-> hunt.rank, score |-> candidate_score(report, new)]
     IN  hunt' = [hunt EXCEPT
           !.rank = @ + 1, !.seen = @ \union coverage,
           !.all = @ \union {candidate},
           !.candidates = retain_best(@ \union {candidate}),
           !.failures = IF fails THEN @ + 1 ELSE @,
           !.first = IF fails /\ @ = <<>> THEN <<hunt.rank>> ELSE @]
  /\ UNCHANGED experimentVars

\* compare_search_strategies: the row of a strategy
Row == [strategy |-> Strategy, first |-> hunt.first, failures |-> hunt.failures,
        coverage |-> hunt.seen]

\* The strategy with the earliest failure, else the one with the most coverage; the
\* first of those that tie.
Best(rows) ==
  LET found == {k \in DOMAIN rows : rows[k].first # <<>>}
      earlier(a, b) == rows[a].first[1] < rows[b].first[1]
      wider(a, b) == Cardinality(rows[a].coverage) > Cardinality(rows[b].coverage)
      bests == IF found # {} THEN {k \in found : \A j \in found : ~earlier(j, k)}
               ELSE {k \in DOMAIN rows : \A j \in DOMAIN rows : ~wider(j, k)}
  IN  rows[Min(bests)].strategy

Compare ==
  /\ Searching /\ ~More
  /\ LET rows == Append(hunt.rows, Row)
     IN  hunt' = NewSearch(hunt.strategy + 1, hunt.reports, rows, Best(rows))
  /\ job' = IF hunt.strategy = Len(Strategies) THEN [job EXCEPT !.stage = "done"] ELSE job
  /\ UNCHANGED <<worldVars, shr>>

SearchStep == SearchSeed \/ SeedRan \/ Observe \/ Compare

-----------------------------------------------------------------------------
\* The candidates kept while the seeds are run, cut down after each, are the best of
\* all that were run (retain_best).
RetainedAreBest ==
  /\ Cardinality(hunt.candidates) = Min({Retain, Cardinality(hunt.all)})
  /\ hunt.candidates \subseteq hunt.all
  /\ \A a \in hunt.candidates, b \in hunt.all \ hunt.candidates : Better(a, b)

\* The strategies only differ in their order: they run the same seeds, so they see
\* as many failures and cover as much.  Where none is found, the comparison has
\* nothing to say and names the first (compare_search_strategies).
StrategiesAgree ==
  \A a, b \in DOMAIN hunt.rows :
    /\ hunt.rows[a].failures = hunt.rows[b].failures
    /\ hunt.rows[a].coverage = hunt.rows[b].coverage
    /\ hunt.rows[a].failures = 0 /\ Len(hunt.rows) = Len(Strategies) => hunt.best = "Random"
=============================================================================

------------------------------ MODULE Campaign ------------------------------
(***************************************************************************)
(* The tools above the simulator, each with each of its cases and budgets: *)
(* experiments, artifacts, shrinks and searches, one world at a time.      *)
(***************************************************************************)
EXTENDS Search

CONSTANTS Jobs, Hunts

\* A sequence of whatever it holds.
IsSeq(s) == s \in Seq(ToSet(s))

\* The plans a case may be given: a script partitions nothing (RandomPartition does).
PlanOK(p) ==
  \/ /\ p.kind = "scripted" /\ p = Scripted(p.actions) /\ IsSeq(p.actions)
     /\ \A k \in DOMAIN p.actions : p.actions[k].time \in Nat /\ p.actions[k].action[1] # "partition"
  \/ p.kind = "link" /\ p \in [kind : {"link"}, at : Nat, candidates : {p.candidates}, used : BOOLEAN]
  \/ p \in [kind : {"partition"}, next_at : Nat, interval : Nat, remaining : Nat]

\* A world lists every live node once.
ConfOK(conf) ==
  /\ IsSeq(conf.live) /\ \A i, j \in DOMAIN conf.live : conf.live[i] = conf.live[j] => i = j
  /\ IsSeq(conf.plans) /\ \A i \in DOMAIN conf.plans : PlanOK(conf.plans[i])

JobOK(j) ==
  /\ ConfOK(j.case.generate) /\ ConfOK(j.case.replay)
  /\ j.budget \in [seed_count : Nat, max_attempts : Nat, min_chunk_len : Nat]

ASSUME DrawsOK == Draws \subseteq Nat
ASSUME JobsOK ==
  \A j \in Jobs :
    j = Job(j.tool, j.case, j.budget) /\ j.tool \in {"experiment", "artifact", "signature"} /\ JobOK(j)
ASSUME HuntsOK ==
  \A j \in Hunts : j = [Job("search", j.case, j.budget) EXCEPT !.stage = "search"] /\ JobOK(j)
\* A tape whose signature is to be kept was drawn, once, by the world that replays it.
ASSUME OwnTapes ==
  \A j \in Jobs :
    j.tool = "signature" => j.budget.seed_count = 1 /\ j.case.generate = j.case.replay

CampaignInit ==
  /\ tape = Generating /\ world = Idle
  /\ live = <<>> /\ plans = <<>> /\ pending = <<>> /\ asking = 1 /\ emitted = <<>>
  /\ shr = NoShrink
  /\ \/ job \in Jobs /\ hunt = NoHunt
     \/ job \in Hunts /\ hunt = NewSearch(1, <<>>, <<>>, "none")

Progress ==
  \/ WorldStep /\ UNCHANGED <<shr, job, hunt>>
  \/ ExperimentStep /\ UNCHANGED hunt
  \/ SearchStep

Finished == job.stage = "done" /\ UNCHANGED searchVars

CampaignNext == Progress \/ Finished

\* The tools are sequential programs: what can run next runs.
CampaignSpec == CampaignInit /\ [][CampaignNext]_searchVars /\ WF_searchVars(Progress)
=============================================================================

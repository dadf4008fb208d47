---------------------------- MODULE NemesisPlans ----------------------------
(***************************************************************************)
(* The nemesis plans and their Composite, which merges them by time, and   *)
(* World::schedule_nemesis_plan, which takes actions from it and draws     *)
(* what they need from the tape.  The cluster does not change meanwhile.   *)
(***************************************************************************)
EXTENDS EntropyTape, FiniteSets, SequencesExt

CONSTANT MaxActions  \* the actions schedule_nemesis_plan is asked for

VARIABLES
  live,       \* WorldView::live_nodes, in order
  plans,      \* the children of the composite
  pending,    \* of each child, the action it has to offer, if it was asked
  asking,     \* the child the composite asks next
  emitted     \* the actions scheduled so far: [plan, time, action]

planVars == <<live, plans, pending, asking, emitted>>

Scripted(actions) == [kind |-> "scripted", actions |-> actions]
RandomLinkFault(at, candidates) == [kind |-> "link", at |-> at, candidates |-> candidates, used |-> FALSE]
RandomPartition(start, interval, actions) ==
  [kind |-> "partition", next_at |-> start, interval |-> interval, remaining |-> actions]

\* next_action returns None.
Spent(p) ==
  \/ p.kind = "scripted" /\ p.actions = <<>>
  \/ p.kind = "link" /\ (p.used \/ p.candidates = <<>>)
  \/ p.kind = "partition" /\ (p.remaining = 0 \/ Len(live) < 2)

\* Mutant: the pivot may leave nobody on the right.
SplitAtEnd(v) == LET pivot == 1 + (v % Len(live))
                 IN  <<SubSeq(live, 1, pivot), SubSeq(live, pivot + 1, Len(live))>>

\* The two groups of a random partition.
Split(v) == LET pivot == 1 + (v % (Len(live) - 1))
            IN  <<SubSeq(live, 1, pivot), SubSeq(live, pivot + 1, Len(live))>>

\* What next_action returns, having drawn v, and the plan it leaves.
Offer(p, v) ==
  CASE p.kind = "scripted" -> Head(p.actions)
    [] p.kind = "link" -> [time |-> p.at, action |-> <<"link", p.candidates[1 + (v % Len(p.candidates))]>>]
    [] p.kind = "partition" -> [time |-> p.next_at, action |-> <<"partition", Split(v)>>]

Left(p) ==
  CASE p.kind = "scripted" -> [p EXCEPT !.actions = Tail(@)]
    [] p.kind = "link" -> [p EXCEPT !.used = TRUE]
    [] p.kind = "partition" -> [p EXCEPT !.remaining = @ - 1, !.next_at = @ + p.interval]

\* A new world with these nodes, given these plans.
NewPlans(nodes, children) ==
  /\ live' = nodes /\ plans' = children
  /\ pending' = [i \in DOMAIN children |-> <<>>]
  /\ asking' = 1 /\ emitted' = <<>>

Offering == {i \in DOMAIN pending : pending[i] # <<>>}

\* schedule_nemesis_plan is done: it has what it asked for, or the composite has nothing.
Planned ==
  \/ Len(emitted) = MaxActions
  \/ asking > Len(plans) /\ Offering = {}

\* Composite::next_action asks the children that have nothing pending.
Ask ==
  /\ ~Planned /\ asking <= Len(plans)
  /\ asking' = asking + 1
  /\ LET p == plans[asking]
     IN  IF asking \in Offering \/ Spent(p) THEN UNCHANGED <<tape, plans, pending>>
         ELSE \E d \in IF p.kind = "scripted" THEN Undrawn(tape) ELSE Draw(tape, "partition") :
                /\ tape' = d.tape
                /\ plans' = [plans EXCEPT ![asking] = Left(p)]
                /\ pending' = [pending EXCEPT ![asking] = <<Offer(p, d.value)>>]
  /\ UNCHANGED <<live, emitted>>

\* Mutant: the first child with an offer goes first.
GoesBeforeByIndex(i, j) == i <= j

\* The offer of child i goes before that of child j.
GoesBefore(i, j) ==
  \/ pending[i][1].time < pending[j][1].time
  \/ pending[i][1].time = pending[j][1].time /\ i <= j

\* ... and emits the earliest of what they offer.
Emit ==
  /\ ~Planned /\ asking > Len(plans)
  /\ \E i \in Offering :
       /\ \A j \in Offering : GoesBefore(i, j)
       /\ emitted' = Append(emitted, [plan |-> i, time |-> pending[i][1].time,
                                      action |-> pending[i][1].action])
       /\ pending' = [pending EXCEPT ![i] = <<>>]
  /\ asking' = 1
  /\ UNCHANGED <<tape, live, plans>>

-----------------------------------------------------------------------------
\* Plans whose own actions are in order of time are merged in order of time
\* (Composite looks one action ahead of every child).
EmittedInOrder ==
  \A i, j \in DOMAIN emitted : i < j => emitted[i].time <= emitted[j].time

\* Every partition divides the nodes that are up into two groups, neither empty
\* (RandomPartition).
PartitionsSplit ==
  \A i \in DOMAIN emitted :
    emitted[i].action[1] = "partition" =>
      LET groups == emitted[i].action[2]
      IN  /\ groups[1] # <<>> /\ groups[2] # <<>>
          /\ ToSet(groups[1]) \intersect ToSet(groups[2]) = {}
          /\ ToSet(groups[1]) \union ToSet(groups[2]) = ToSet(live)
=============================================================================

--------------------------- MODULE CampaignProofs ---------------------------
(***************************************************************************)
(* Proofs about the composite of nemesis plans, the shrinkers, what a      *)
(* replay repeats and what a search keeps, as the tools of Campaign use    *)
(* them.                                                                   *)
(***************************************************************************)
EXTENDS Campaign, FiniteSetTheorems, SequenceTheorems, WellFoundedInduction, TLAPS

-----------------------------------------------------------------------------
(* Sequences and minima *)

LEMMA Least ==
  ASSUME NEW T \in SUBSET Nat, T # {}
  PROVE  \E n \in T : \A m \in T : n <= m
<1> DEFINE order == OpToRel(<, Nat)
<1>1. IsWellFoundedOn(order, Nat) BY NatLessThanWellFounded
<1>2. \E n \in T : \A m \in T : ~(<<m, n>> \in order) BY <1>1, WFMin, Zenon
<1>3. PICK n \in T : \A m \in T : ~(<<m, n>> \in order) BY <1>2
<1>4. \A m, k \in Nat : m < k => <<m, k>> \in order BY Zenon DEF OpToRel
<1> HIDE DEF order
<1>5. ASSUME NEW m \in T PROVE n <= m
  <2>1. ~(m < n) BY <1>3, <1>4
  <2> QED BY <2>1
<1> QED BY <1>3, <1>5

LEMMA MinIsLeast ==
  ASSUME NEW T \in SUBSET Nat, T # {}
  PROVE  Min(T) \in T /\ \A m \in T : Min(T) <= m
BY Least DEF Min

LEMMA SeqIs == ASSUME NEW S, NEW s \in Seq(S) PROVE IsSeq(s)
<1>1. PICK n \in Nat : s \in [1 .. n -> S] BY SeqDef
<1>2. s \in [1 .. n -> ToSet(s)] BY <1>1 DEF ToSet
<1> QED BY <1>2, SeqDef DEF IsSeq

LEMMA AppendIs ==
  ASSUME NEW s, IsSeq(s), NEW e
  PROVE  /\ IsSeq(Append(s, e)) /\ DOMAIN s = 1 .. Len(s) /\ Len(s) \in Nat
         /\ DOMAIN Append(s, e) = 1 .. Len(s) + 1
         /\ \A k \in 1 .. Len(s) : Append(s, e)[k] = s[k]
         /\ Append(s, e)[Len(s) + 1] = e
<1> DEFINE S == ToSet(s) \union {e}
<1>1. s \in Seq(S) BY SeqMonotonic DEF IsSeq
<1>2. e \in S OBVIOUS
<1> HIDE DEF S
<1>3. Append(s, e) \in Seq(S) /\ Len(Append(s, e)) = Len(s) + 1
      /\ (\A k \in 1 .. Len(s) : Append(s, e)[k] = s[k]) /\ Append(s, e)[Len(s) + 1] = e
  BY <1>1, <1>2, AppendProperties
<1>4. IsSeq(Append(s, e)) BY <1>3, SeqIs
<1>5. Len(s) \in Nat /\ DOMAIN s = 1 .. Len(s) BY <1>1, LenProperties
<1>6. DOMAIN Append(s, e) = 1 .. Len(s) + 1 BY <1>3, LenProperties
<1> QED BY <1>3, <1>4, <1>5, <1>6

LEMMA TailIs ==
  ASSUME NEW s, IsSeq(s), s # <<>>
  PROVE  /\ IsSeq(Tail(s)) /\ DOMAIN s = 1 .. Len(s) /\ Len(s) \in Nat \ {0} /\ Head(s) = s[1]
         /\ DOMAIN Tail(s) = 1 .. Len(s) - 1 /\ \A k \in 1 .. Len(s) - 1 : Tail(s)[k] = s[k + 1]
<1>1. s \in Seq(ToSet(s)) BY DEF IsSeq
<1> HIDE DEF IsSeq
<1> DEFINE S == ToSet(s)
<1> HIDE DEF S
<1>2. Head(s) = s[1] /\ Tail(s) \in Seq(S) /\ Len(Tail(s)) = Len(s) - 1
      /\ \A k \in 1 .. Len(Tail(s)) : Tail(s)[k] = s[k + 1]
  BY <1>1, HeadTailProperties DEF S
<1>3. IsSeq(Tail(s)) BY <1>2, SeqIs
<1>4. Len(s) \in Nat \ {0} /\ DOMAIN s = 1 .. Len(s) BY <1>1, LenProperties, EmptySeq
<1>5. DOMAIN Tail(s) = 1 .. Len(s) - 1 BY <1>2, LenProperties
<1> QED BY <1>2, <1>3, <1>4, <1>5

LEMMA ExceptIs ==
  ASSUME NEW s, IsSeq(s), NEW k \in DOMAIN s, NEW e
  PROVE  IsSeq([s EXCEPT ![k] = e])
<1> DEFINE S == ToSet(s) \union {e}
<1>1. s \in Seq(S) BY SeqMonotonic DEF IsSeq
<1>2. e \in S OBVIOUS
<1> HIDE DEF S
<1>3. k \in 1 .. Len(s) BY <1>1, LenProperties
<1>4. [s EXCEPT ![k] = e] \in Seq(S) BY <1>1, <1>2, <1>3, ExceptSeq
<1> QED BY <1>4, SeqIs

\* What is left of a sequence after a cut.
LEMMA WithoutIs ==
  ASSUME NEW S, NEW s \in Seq(S), NEW p \in Nat \ {0}, NEW n \in Nat, p + n - 1 <= Len(s)
  PROVE  /\ Without(s, <<p, n>>) \in Seq(S)
         /\ Len(Without(s, <<p, n>>)) = Len(s) - n
         /\ \A k \in 1 .. Len(s) - n : Without(s, <<p, n>>)[k] = IF k < p THEN s[k] ELSE s[k + n]
<1> DEFINE l == SubSeq(s, 1, p - 1)
           r == SubSeq(s, p + n, Len(s))
<1>1. l \in Seq(S) /\ Len(l) = p - 1 /\ \A k \in 1 .. p - 1 : l[k] = s[k]
  OBVIOUS
<1>2. r \in Seq(S) /\ Len(r) = Len(s) - n - (p - 1) /\ \A k \in 1 .. Len(s) - n - (p - 1) : r[k] = s[k + (p + n) - 1]
  OBVIOUS
<1>3. Without(s, <<p, n>>) = l \o r BY DEF Without
<1> HIDE DEF l, r
<1>4. l \o r \in Seq(S) /\ Len(l \o r) = Len(s) - n BY <1>1, <1>2
<1>5. ASSUME NEW k \in 1 .. Len(s) - n PROVE (l \o r)[k] = IF k < p THEN s[k] ELSE s[k + n]
  <2>1. CASE k < p BY <1>1, <1>2, <2>1
  <2>2. CASE ~(k < p)
    <3>1. k - (p - 1) \in 1 .. Len(s) - n - (p - 1) BY <2>2
    <3>2. k \in 1 .. Len(l) + Len(r) /\ ~(k <= Len(l)) /\ k - Len(l) = k - (p - 1) BY <1>1, <1>2, <2>2
    <3>4. (l \o r)[k] = r[k - (p - 1)] BY <1>1, <1>2, <3>2, ConcatProperties
    <3>3. k - (p - 1) + (p + n) - 1 = k + n OBVIOUS
    <3> QED BY <1>2, <2>2, <3>1, <3>3, <3>4
  <2> QED BY <2>1, <2>2
<1> QED BY <1>3, <1>4, <1>5

-----------------------------------------------------------------------------
(* The tape *)

TapeType(t) ==
  t \in [replaying : BOOLEAN, input : Seq(Nat), log : Seq(Nat), labels : {t.labels}]

LEMMA DrawIs ==
  ASSUME NEW t, TapeType(t), NEW label, NEW d \in Draw(t, label) \union Undrawn(t)
  PROVE  TapeType(d.tape) /\ d.value \in Nat
<1>1. CASE d \in Undrawn(t) BY <1>1 DEF Undrawn
<1>2. CASE d \in Draw(t, label)
  <2>1. Replayed(t) \in Nat BY DEF Replayed, TapeType
  <2>2. PICK v \in (IF t.replaying THEN {Replayed(t)} ELSE Draws) :
          d = [value |-> v, tape |-> [t EXCEPT !.log = Append(@, v), !.labels = Append(@, label)]]
    BY <1>2 DEF Draw
  <2>3. v \in Nat BY <2>1, <2>2, DrawsOK
  <2>4. Append(t.log, v) \in Seq(Nat) BY <2>3 DEF TapeType
  <2> QED BY <2>2, <2>3, <2>4 DEF TapeType
<1> QED BY <1>1, <1>2

LEMMA StartedTape ==
  /\ TapeType(Generating)
  /\ \A input \in Seq(Nat) : TapeType(Replaying(input))
<1>1. <<>> \in Seq(Nat) OBVIOUS
<1>2. TapeType(Generating) BY <1>1 DEF TapeType, Generating
<1>3. ASSUME NEW input \in Seq(Nat) PROVE TapeType(Replaying(input))
  BY <1>1, <1>2 DEF TapeType, Generating, Replaying
<1> QED BY <1>2, <1>3

-----------------------------------------------------------------------------
(* The plans and what they offer *)

\* Two groups that share no node and have every one.
Divides(groups, nodes) ==
  /\ groups[1] # <<>> /\ groups[2] # <<>>
  /\ ToSet(groups[1]) \intersect ToSet(groups[2]) = {}
  /\ ToSet(groups[1]) \union ToSet(groups[2]) = ToSet(nodes)

OfferOK(o, nodes) ==
  o.time \in Nat /\ (o.action[1] = "partition" => Divides(o.action[2], nodes))

ListedOnce(s) == IsSeq(s) /\ \A i, j \in DOMAIN s : s[i] = s[j] => i = j

NextTime(p) ==
  CASE p.kind = "scripted" -> Head(p.actions).time
    [] p.kind = "link" -> p.at
    [] p.kind = "partition" -> p.next_at

InOrder(p) ==
  p.kind = "scripted" =>
    \A k, l \in DOMAIN p.actions : k < l => p.actions[k].time <= p.actions[l].time

LEMMA SplitDivides ==
  ASSUME ListedOnce(live), Len(live) >= 2, NEW v \in Nat
  PROVE  Divides(Split(v), live)
<1> DEFINE pivot == 1 + (v % (Len(live) - 1))
           left == SubSeq(live, 1, pivot)
           right == SubSeq(live, pivot + 1, Len(live))
           S == ToSet(live)
<1>1. live \in Seq(S) BY DEF ListedOnce, IsSeq
<1>2. Len(live) \in Nat /\ DOMAIN live = 1 .. Len(live) BY <1>1, LenProperties
<1>3. pivot \in 1 .. Len(live) - 1 BY <1>2
<1>4. Split(v) = <<left, right>> BY DEF Split
<1> HIDE DEF pivot, S
<1>5. left \in Seq(S) /\ Len(left) = pivot /\ \A k \in 1 .. pivot : left[k] = live[k]
  BY <1>1, <1>2, <1>3
<1>6. /\ right \in Seq(S) /\ Len(right) = Len(live) - pivot
      /\ \A k \in 1 .. Len(live) - pivot : right[k] = live[k + pivot]
  BY <1>1, <1>2, <1>3
<1> HIDE DEF left, right
<1>7. DOMAIN left = 1 .. pivot /\ DOMAIN right = 1 .. Len(live) - pivot
  BY <1>5, <1>6, LenProperties
<1>8. ToSet(left) = {live[k] : k \in 1 .. pivot} BY <1>5, <1>7 DEF ToSet
<1>9. ToSet(right) = {live[k] : k \in pivot + 1 .. Len(live)}
  <2>1. ASSUME NEW k \in pivot + 1 .. Len(live) PROVE live[k] \in ToSet(right)
    <3>1. k - pivot \in DOMAIN right /\ k - pivot + pivot = k BY <1>2, <1>3, <1>7
    <3>2. right[k - pivot] = live[k] BY <1>6, <1>7, <3>1
    <3> QED BY <3>1, <3>2 DEF ToSet
  <2>2. ASSUME NEW k \in DOMAIN right PROVE right[k] \in {live[m] : m \in pivot + 1 .. Len(live)}
    <3>1. k + pivot \in pivot + 1 .. Len(live) BY <1>2, <1>3, <1>7
    <3>2. right[k] = live[k + pivot] BY <1>6, <1>7
    <3> QED BY <3>1, <3>2
  <2> QED BY <2>1, <2>2 DEF ToSet
<1>10. ToSet(live) = {live[k] : k \in 1 .. Len(live)} BY <1>2 DEF ToSet
<1>11. \A k \in 1 .. pivot, m \in pivot + 1 .. Len(live) : live[k] # live[m]
  BY <1>2, <1>3 DEF ListedOnce
<1>12. 1 .. Len(live) = (1 .. pivot) \union (pivot + 1 .. Len(live)) BY <1>2, <1>3
<1>13. left # <<>> /\ right # <<>> BY <1>2, <1>3, <1>5, <1>6
<1>14. ToSet(left) \intersect ToSet(right) = {} BY <1>8, <1>9, <1>11
<1>15. ToSet(left) \union ToSet(right) = ToSet(live) BY <1>8, <1>9, <1>10, <1>12
<1> QED BY <1>4, <1>13, <1>14, <1>15 DEF Divides

\* What a plan offers next and what it keeps: a plan in order stays so, and looks
\* ahead to nothing earlier.
LEMMA OfferIs ==
  ASSUME ListedOnce(live), NEW p, PlanOK(p), ~Spent(p), NEW v \in Nat
  PROVE  /\ OfferOK(Offer(p, v), live) /\ Offer(p, v).time = NextTime(p) /\ NextTime(p) \in Nat
         /\ PlanOK(Left(p))
         /\ InOrder(p) => InOrder(Left(p)) /\ (~Spent(Left(p)) => NextTime(p) <= NextTime(Left(p)))
<1>1. CASE p.kind = "scripted"
  <2>1. /\ p = Scripted(p.actions) /\ IsSeq(p.actions) /\ p.actions # <<>>
        /\ \A k \in DOMAIN p.actions : p.actions[k].time \in Nat /\ p.actions[k].action[1] # "partition"
    BY <1>1 DEF PlanOK, Spent
  <2> DEFINE s == p.actions
  <2>2. /\ IsSeq(Tail(s)) /\ DOMAIN s = 1 .. Len(s) /\ Len(s) \in Nat \ {0} /\ Head(s) = s[1]
        /\ DOMAIN Tail(s) = 1 .. Len(s) - 1 /\ \A k \in 1 .. Len(s) - 1 : Tail(s)[k] = s[k + 1]
    BY <2>1, TailIs
  <2>3. 1 \in DOMAIN s BY <2>2
  <2>4. Offer(p, v) = s[1] /\ NextTime(p) = s[1].time BY <1>1, <2>2 DEF Offer, NextTime
  <2>5. Left(p) = Scripted(Tail(s)) BY <1>1, <2>1 DEF Left, Scripted
  <2>6. Left(p).kind = "scripted" /\ Left(p).actions = Tail(s) BY <2>5 DEF Scripted
  <2>7. \A k \in DOMAIN Tail(s) : k + 1 \in DOMAIN s /\ Tail(s)[k] = s[k + 1] BY <2>2
  <2>8. PlanOK(Left(p))
    <3>1. \A k \in DOMAIN Tail(s) : Tail(s)[k].time \in Nat /\ Tail(s)[k].action[1] # "partition"
      BY <2>1, <2>7
    <3> QED BY <2>2, <2>5, <2>6, <3>1 DEF PlanOK
  <2>9. ASSUME InOrder(p) PROVE InOrder(Left(p))
    <3>1. \A k, l \in DOMAIN s : k < l => s[k].time <= s[l].time BY <1>1, <2>9 DEF InOrder
    <3>2. \A k, l \in DOMAIN Tail(s) : k < l => k + 1 < l + 1 BY <2>2
    <3> HIDE DEF s
    <3>3. \A k, l \in DOMAIN Tail(s) : k < l => Tail(s)[k].time <= Tail(s)[l].time
      BY <2>7, <3>1, <3>2
    <3> QED BY <2>6, <3>3 DEF InOrder
  <2>10. ASSUME InOrder(p), ~Spent(Left(p)) PROVE NextTime(p) <= NextTime(Left(p))
    <3>1. Tail(s) # <<>> BY <2>6, <2>10 DEF Spent
    <3>2. Head(Tail(s)) = Tail(s)[1] /\ 1 \in DOMAIN Tail(s) BY <2>2, <3>1, TailIs
    <3>3. NextTime(Left(p)) = s[2].time /\ 2 \in DOMAIN s BY <2>6, <2>7, <3>2 DEF NextTime
    <3> QED BY <1>1, <2>3, <2>4, <2>10, <3>3 DEF InOrder
  <2>11. OfferOK(Offer(p, v), live) BY <2>1, <2>3, <2>4 DEF OfferOK
  <2>12. NextTime(p) \in Nat /\ Offer(p, v).time = NextTime(p) BY <2>1, <2>3, <2>4
  <2> QED BY <2>8, <2>9, <2>10, <2>11, <2>12
<1>2. CASE p.kind = "link"
  <2>1. p \in [kind : {"link"}, at : Nat, candidates : {p.candidates}, used : BOOLEAN]
    BY <1>2 DEF PlanOK, Scripted
  <2>2. Left(p) = [p EXCEPT !.used = TRUE] BY <1>2 DEF Left
  <2>3. Left(p).kind = "link" /\ Left(p).used = TRUE /\ Left(p).candidates = p.candidates
        /\ Left(p) \in [kind : {"link"}, at : Nat, candidates : {p.candidates}, used : BOOLEAN]
    BY <2>1, <2>2
  <2>4. Spent(Left(p)) /\ PlanOK(Left(p)) /\ InOrder(Left(p)) BY <2>3 DEF Spent, PlanOK, InOrder
  <2>5. Offer(p, v).time = p.at /\ Offer(p, v).action[1] = "link" /\ NextTime(p) = p.at
    BY <1>2 DEF Offer, NextTime
  <2> QED BY <2>1, <2>4, <2>5 DEF OfferOK
<1>3. CASE p.kind = "partition"
  <2>1. p \in [kind : {"partition"}, next_at : Nat, interval : Nat, remaining : Nat]
    BY <1>3 DEF PlanOK, Scripted
  <2>2. p.remaining # 0 /\ ~(Len(live) < 2) BY <1>3 DEF Spent
  <2>3. Len(live) \in Nat BY LenProperties DEF ListedOnce, IsSeq
  <2>4. Divides(Split(v), live) BY <2>2, <2>3, SplitDivides
  <2>5. Left(p) = [p EXCEPT !.remaining = @ - 1, !.next_at = @ + p.interval] BY <1>3 DEF Left
  <2>6. /\ Left(p) \in [kind : {"partition"}, next_at : Nat, interval : Nat, remaining : Nat]
        /\ Left(p).kind = "partition" /\ Left(p).next_at = p.next_at + p.interval
    <3>1. p.remaining - 1 \in Nat /\ p.next_at + p.interval \in Nat BY <2>1, <2>2
    <3> QED BY <2>1, <2>5, <3>1
  <2>7. PlanOK(Left(p)) /\ InOrder(Left(p)) BY <2>6 DEF PlanOK, InOrder
  <2>8. Offer(p, v).time = p.next_at /\ Offer(p, v).action = <<"partition", Split(v)>> /\ NextTime(p) = p.next_at
    BY <1>3 DEF Offer, NextTime
  <2>9. NextTime(Left(p)) = p.next_at + p.interval BY <2>6 DEF NextTime
  <2>10. NextTime(p) <= NextTime(Left(p)) BY <2>1, <2>8, <2>9
  <2>11. OfferOK(Offer(p, v), live) BY <2>1, <2>4, <2>8 DEF OfferOK
  <2> QED BY <2>1, <2>7, <2>8, <2>10, <2>11
<1> QED BY <1>1, <1>2, <1>3 DEF PlanOK

PlansOK ==
  /\ ListedOnce(live)
  /\ IsSeq(plans) /\ \A i \in DOMAIN plans : PlanOK(plans[i])
  /\ DOMAIN pending = DOMAIN plans /\ \A i \in Offering : OfferOK(pending[i][1], live)
  /\ IsSeq(emitted) /\ \A i \in DOMAIN emitted : OfferOK(emitted[i], live)
  /\ asking \in Nat \ {0}

\* The children that still have an action.
Unspent == {j \in DOMAIN plans : ~Spent(plans[j])}

\* What EmittedInOrder needs to be inductive: nothing was emitted that is later than an
\* offer or than what a plan has next, and every child was asked before one is chosen.
EmittedFirst ==
  \A i \in DOMAIN emitted :
    /\ \A j \in Offering : emitted[i].time <= pending[j][1].time
    /\ \A j \in Unspent : emitted[i].time <= NextTime(plans[j])
OfferedFirst == \A j \in Offering \intersect Unspent : pending[j][1].time <= NextTime(plans[j])
AllAsked == \A j \in Unspent : j < asking => j \in Offering
Merged ==
  /\ \A i \in DOMAIN plans : InOrder(plans[i])
  /\ EmittedFirst /\ OfferedFirst /\ AllAsked /\ EmittedInOrder

LEMMA NewPlansOK ==
  ASSUME NEW conf, ConfOK(conf), NewPlans(conf.live, conf.plans)
  PROVE  PlansOK' /\ ((\A i \in DOMAIN conf.plans : InOrder(conf.plans[i])) => Merged')
<1>1. /\ live' = conf.live /\ plans' = conf.plans /\ pending' = [i \in DOMAIN conf.plans |-> <<>>]
      /\ asking' = 1 /\ emitted' = <<>>
  BY DEF NewPlans
<1>2. Offering' = {} BY <1>1 DEF Offering
<1>3. DOMAIN emitted' = {} BY <1>1
<1>4. IsSeq(<<>>) BY SeqIs, EmptySeq
<1>5. PlansOK' BY <1>1, <1>2, <1>3, <1>4 DEF PlansOK, ConfOK, ListedOnce
<1>6. ASSUME \A i \in DOMAIN conf.plans : InOrder(conf.plans[i]) PROVE Merged'
  <2>1. \A j \in DOMAIN conf.plans : ~(j < 1)
    <3>1. \A j \in DOMAIN conf.plans : j \in Nat \ {0} BY LenProperties DEF ConfOK, IsSeq
    <3> QED BY <3>1
  <2> QED BY <1>1, <1>2, <1>3, <1>6, <2>1
      DEF Merged, EmittedFirst, OfferedFirst, AllAsked, Unspent, EmittedInOrder
<1> QED BY <1>5, <1>6

\* One more child has been asked.
LEMMA AskStep ==
  ASSUME PlansOK, TapeType(tape), Ask
  PROVE  PlansOK' /\ TapeType(tape') /\ (Merged => Merged')
<1> DEFINE p == plans[asking]
<1>1. /\ asking <= Len(plans) /\ asking' = asking + 1 /\ UNCHANGED <<live, emitted>>
  BY DEF Ask
<1>2. DOMAIN plans = 1 .. Len(plans) /\ Len(plans) \in Nat BY LenProperties DEF PlansOK, IsSeq
<1>3. CASE UNCHANGED <<tape, plans, pending>> /\ (asking \in Offering \/ Spent(p))
  <2>1. Offering' = Offering BY <1>3 DEF Offering
  <2>2. live' = live /\ plans' = plans /\ pending' = pending /\ emitted' = emitted /\ asking + 1 \in Nat \ {0}
    BY <1>1, <1>3 DEF PlansOK
  <2>3. Unspent' = Unspent BY <2>2 DEF Unspent, Spent
  <2>4. PlansOK'
    <3>1. \A i \in Offering' : OfferOK(pending'[i][1], live') BY <2>1, <2>2 DEF PlansOK
    <3>2. \A i \in DOMAIN emitted' : OfferOK(emitted'[i], live') BY <2>2 DEF PlansOK
    <3>3. asking' \in Nat \ {0} BY <1>1, <2>2
    <3>4. ListedOnce(live)' BY <2>2 DEF PlansOK, ListedOnce
    <3> QED BY <2>2, <3>1, <3>2, <3>3, <3>4 DEF PlansOK
  <2>5. ASSUME Merged PROVE Merged'
    <3>1. \A j \in Unspent : j < asking + 1 => j < asking \/ j = asking
      BY <1>2 DEF PlansOK, Unspent
    <3>2. AllAsked' BY <1>1, <1>3, <2>1, <2>3, <2>5, <3>1 DEF Merged, AllAsked, Unspent
    <3>3. EmittedFirst' BY <2>1, <2>2, <2>3, <2>5 DEF Merged, EmittedFirst
    <3>4. OfferedFirst' BY <2>1, <2>2, <2>3, <2>5 DEF Merged, OfferedFirst
    <3> QED BY <2>2, <2>5, <3>2, <3>3, <3>4 DEF Merged, EmittedInOrder
  <2> QED BY <1>3, <2>4, <2>5
<1>4. CASE ~(asking \in Offering \/ Spent(p))
  <2>1. PICK d \in (IF p.kind = "scripted" THEN Undrawn(tape) ELSE Draw(tape, "partition")) :
          /\ tape' = d.tape /\ plans' = [plans EXCEPT ![asking] = Left(p)]
          /\ pending' = [pending EXCEPT ![asking] = <<Offer(p, d.value)>>]
    BY <1>4 DEF Ask
  <2>2. TapeType(d.tape) /\ d.value \in Nat
    <3>1. d \in Draw(tape, "partition") \union Undrawn(tape) BY <2>1
    <3> HIDE DEF p
    <3> QED BY <3>1, DrawIs
  <2> DEFINE o == Offer(p, d.value)
             q == Left(p)
  <2> HIDE DEF o, q
  <2>3. asking \in DOMAIN plans BY <1>1, <1>2 DEF PlansOK
  <2>4. /\ ListedOnce(live) /\ PlanOK(p) /\ ~Spent(p) /\ asking \notin Offering
        /\ DOMAIN pending = DOMAIN plans
    BY <1>4, <2>3 DEF PlansOK
  <2> HIDE DEF p
  <2>5. /\ OfferOK(o, live) /\ o.time = NextTime(p) /\ NextTime(p) \in Nat
        /\ PlanOK(q) /\ (InOrder(p) => InOrder(q) /\ (~Spent(q) => NextTime(p) <= NextTime(q)))
    BY <2>2, <2>4, OfferIs DEF o, q
  <2> USE DEF p
  <2>6. /\ DOMAIN plans' = DOMAIN plans /\ plans'[asking] = q
        /\ \A j \in DOMAIN plans : j # asking => plans'[j] = plans[j]
    BY <2>1, <2>3 DEF q
  <2>7. /\ DOMAIN pending' = DOMAIN plans /\ pending'[asking] = <<o>>
        /\ \A j \in DOMAIN plans : j # asking => pending'[j] = pending[j]
    BY <2>1, <2>3, <2>4 DEF o
  <2>8. Offering' = Offering \union {asking} BY <2>3, <2>4, <2>7 DEF Offering
  <2>9. Unspent' \subseteq Unspent /\ (asking \in Unspent' => ~Spent(q)) /\ asking \in Unspent
    BY <1>1, <2>3, <2>4, <2>6 DEF Unspent, Spent
  <2>10. Offering \subseteq DOMAIN plans /\ Unspent \subseteq DOMAIN plans BY <2>4 DEF Offering, Unspent
  <2>11. pending'[asking][1] = o BY <2>7
  <2>12. live' = live /\ emitted' = emitted /\ asking' \in Nat \ {0} BY <1>1 DEF PlansOK
  <2>13. PlansOK'
    <3>1. \A i \in Offering' : OfferOK(pending'[i][1], live')
      BY <2>5, <2>7, <2>8, <2>10, <2>11, <2>12 DEF PlansOK
    <3>2. IsSeq(plans') BY <2>1, <2>3, ExceptIs DEF PlansOK
    <3>3. \A i \in DOMAIN plans' : PlanOK(plans'[i]) BY <2>5, <2>6 DEF PlansOK
    <3>4. ListedOnce(live)' BY <2>12 DEF PlansOK, ListedOnce
    <3>5. \A i \in DOMAIN emitted' : OfferOK(emitted'[i], live') BY <2>12 DEF PlansOK
    <3> QED BY <2>6, <2>7, <2>12, <3>1, <3>2, <3>3, <3>4, <3>5 DEF PlansOK
  <2>14. ASSUME Merged PROVE Merged'
    <3>1. InOrder(p) BY <2>3, <2>14 DEF Merged
    <3>2. \A i \in DOMAIN plans' : InOrder(plans'[i]) BY <2>5, <2>6, <2>14, <3>1 DEF Merged
    <3>3. \A i \in DOMAIN emitted : emitted[i].time <= NextTime(p) /\ emitted[i].time \in Nat
      BY <2>9, <2>14 DEF Merged, EmittedFirst, PlansOK, OfferOK
    <3>4. ~Spent(q) => NextTime(q) \in Nat
      <4>1. 0 \in Nat OBVIOUS
      <4> QED BY <2>4, <2>5, <4>1, OfferIs
    <3>5. EmittedFirst'
      <4>1. ASSUME NEW i \in DOMAIN emitted, NEW j \in Offering'
            PROVE  emitted[i].time <= pending'[j][1].time
        BY <2>5, <2>7, <2>8, <2>10, <2>11, <2>14, <3>3 DEF Merged, EmittedFirst
      <4>2. ASSUME NEW i \in DOMAIN emitted, NEW j \in Unspent'
            PROVE  emitted[i].time <= NextTime(plans'[j])
        <5>1. CASE j = asking BY <2>5, <2>6, <2>9, <3>1, <3>3, <3>4, <5>1
        <5>2. CASE j # asking
          BY <2>6, <2>9, <2>10, <2>14, <5>2 DEF Merged, EmittedFirst
        <5> QED BY <5>1, <5>2
      <4> QED BY <2>12, <4>1, <4>2 DEF EmittedFirst
    <3>6. OfferedFirst'
      <4>1. ASSUME NEW j \in Offering' \intersect Unspent'
            PROVE  pending'[j][1].time <= NextTime(plans'[j])
        <5>1. CASE j = asking BY <2>5, <2>6, <2>9, <2>11, <3>1, <5>1
        <5>2. CASE j # asking
          BY <2>6, <2>7, <2>8, <2>9, <2>10, <2>14, <5>2 DEF Merged, OfferedFirst
        <5> QED BY <5>1, <5>2
      <4> QED BY <4>1 DEF OfferedFirst
    <3>7. AllAsked'
      <4>1. \A j \in Unspent : j < asking + 1 => j < asking \/ j = asking
        BY <1>2, <2>10 DEF PlansOK
      <4> QED BY <1>1, <2>8, <2>9, <2>14, <4>1 DEF Merged, AllAsked
    <3>8. EmittedInOrder' BY <2>12, <2>14 DEF Merged, EmittedInOrder
    <3> QED BY <3>2, <3>5, <3>6, <3>7, <3>8 DEF Merged
  <2> QED BY <2>1, <2>2, <2>13, <2>14
<1> QED BY <1>3, <1>4 DEF Ask

\* The earliest offer is emitted.
LEMMA EmitStep ==
  ASSUME PlansOK, Emit
  PROVE  PlansOK' /\ (Merged => Merged')
<1>1. PICK i \in Offering :
        /\ \A j \in Offering : GoesBefore(i, j)
        /\ emitted' = Append(emitted, [plan |-> i, time |-> pending[i][1].time,
                                       action |-> pending[i][1].action])
        /\ pending' = [pending EXCEPT ![i] = <<>>]
  BY DEF Emit
<1>2. asking > Len(plans) /\ asking' = 1 /\ live' = live /\ plans' = plans BY DEF Emit
<1> DEFINE e == [plan |-> i, time |-> pending[i][1].time, action |-> pending[i][1].action]
           n == Len(emitted)
<1>3. DOMAIN plans = 1 .. Len(plans) /\ Len(plans) \in Nat /\ DOMAIN pending = DOMAIN plans
  BY LenProperties DEF PlansOK, IsSeq
<1>4. e.time = pending[i][1].time /\ e.action = pending[i][1].action OBVIOUS
<1>5. OfferOK(pending[i][1], live) /\ e.time \in Nat BY <1>1, <1>4 DEF PlansOK, OfferOK
<1>6. OfferOK(e, live) BY <1>4, <1>5 DEF OfferOK
<1> HIDE DEF e
<1>7. /\ IsSeq(emitted') /\ n \in Nat /\ DOMAIN emitted = 1 .. n /\ DOMAIN emitted' = 1 .. n + 1
      /\ \A k \in 1 .. n : emitted'[k] = emitted[k]
      /\ emitted'[n + 1] = e
  BY <1>1, AppendIs DEF PlansOK, e
<1>8. DOMAIN pending' = DOMAIN pending /\ pending'[i] = <<>>
      /\ \A j \in DOMAIN pending : j # i => pending'[j] = pending[j]
  BY <1>1 DEF Offering
<1>9. Offering' \subseteq Offering \ {i} /\ Offering \subseteq DOMAIN pending
  BY <1>8 DEF Offering
<1> HIDE DEF n
<1>10. PlansOK'
  <2>1. ListedOnce(live)' BY <1>2 DEF PlansOK, ListedOnce
  <2>2. \A j \in Offering' : OfferOK(pending'[j][1], live') BY <1>2, <1>8, <1>9 DEF PlansOK
  <2>3. \A k \in DOMAIN emitted' : OfferOK(emitted'[k], live')
    <3>1. \A k \in 1 .. n + 1 : k \in 1 .. n \/ k = n + 1 BY <1>7
    <3>2. \A k \in 1 .. n : OfferOK(emitted[k], live) BY <1>7 DEF PlansOK
    <3> QED BY <1>2, <1>6, <1>7, <3>1, <3>2
  <2> QED BY <1>2, <1>3, <1>7, <1>8, <2>1, <2>2, <2>3 DEF PlansOK
<1>11. ASSUME Merged PROVE Merged'
  <2>1. \A j \in Offering : e.time <= pending[j][1].time
    <3>1. \A j \in Offering : pending[j][1].time \in Nat BY DEF PlansOK, OfferOK
    <3> QED BY <1>1, <1>4, <1>5, <3>1 DEF GoesBefore
  <2>2. Unspent' = Unspent BY <1>2 DEF Unspent, Spent
  <2>3. Unspent \subseteq Offering
    <3>1. \A j \in DOMAIN plans : j < asking BY <1>2, <1>3 DEF PlansOK
    <3> QED BY <1>11, <3>1 DEF Merged, AllAsked, Unspent
  <2>4. \A j \in Unspent : e.time <= NextTime(plans[j])
    <3> SUFFICES ASSUME NEW j \in Unspent PROVE e.time <= NextTime(plans[j]) OBVIOUS
    <3>1. e.time <= pending[j][1].time /\ pending[j][1].time <= NextTime(plans[j])
      BY <1>11, <2>1, <2>3 DEF Merged, OfferedFirst
    <3>2. pending[j][1].time \in Nat BY <2>3 DEF PlansOK, OfferOK
    <3>3. NextTime(plans[j]) \in Nat
      <4>1. PlanOK(plans[j]) /\ ~Spent(plans[j]) BY DEF PlansOK, Unspent
      <4>2. 0 \in Nat /\ ListedOnce(live) BY DEF PlansOK
      <4> QED BY <4>1, <4>2, OfferIs
    <3> QED BY <1>5, <3>1, <3>2, <3>3
  <2>5. \A k \in 1 .. n + 1 : k \in 1 .. n \/ k = n + 1 BY <1>7
  <2>6. EmittedFirst'
    <3>1. ASSUME NEW k \in DOMAIN emitted', NEW j \in Offering'
          PROVE  emitted'[k].time <= pending'[j][1].time
      <4>1. j \in Offering /\ pending'[j] = pending[j] BY <1>8, <1>9
      <4> QED BY <1>7, <1>11, <2>1, <2>5, <4>1 DEF Merged, EmittedFirst
    <3>2. ASSUME NEW k \in DOMAIN emitted', NEW j \in Unspent'
          PROVE  emitted'[k].time <= NextTime(plans'[j])
      BY <1>2, <1>7, <1>11, <2>2, <2>4, <2>5 DEF Merged, EmittedFirst
    <3> QED BY <3>1, <3>2 DEF EmittedFirst
  <2>7. OfferedFirst'
    <3>1. ASSUME NEW j \in Offering' \intersect Unspent'
          PROVE  pending'[j][1].time <= NextTime(plans'[j])
      BY <1>2, <1>8, <1>9, <1>11, <2>2 DEF Merged, OfferedFirst
    <3> QED BY <3>1 DEF OfferedFirst
  <2>8. AllAsked'
    <3>1. \A j \in Unspent' : ~(j < 1) BY <1>2, <1>3 DEF Unspent
    <3> QED BY <1>2, <3>1 DEF AllAsked
  <2>9. EmittedInOrder'
    <3>1. ASSUME NEW k \in DOMAIN emitted', NEW l \in DOMAIN emitted', k < l
          PROVE  emitted'[k].time <= emitted'[l].time
      <4>1. k \in 1 .. n BY <1>7, <3>1
      <4>2. CASE l \in 1 .. n BY <1>7, <1>11, <3>1, <4>1, <4>2 DEF Merged, EmittedInOrder
      <4>3. CASE l = n + 1
        <5>1. emitted[k].time <= pending[i][1].time BY <1>7, <1>11, <4>1 DEF Merged, EmittedFirst
        <5> QED BY <1>4, <1>7, <4>1, <4>3, <5>1
      <4> QED BY <1>7, <2>5, <4>2, <4>3
    <3> QED BY <3>1 DEF EmittedInOrder
  <2>10. \A k \in DOMAIN plans' : InOrder(plans'[k]) BY <1>2, <1>11 DEF Merged
  <2> QED BY <2>6, <2>7, <2>8, <2>9, <2>10 DEF Merged
<1> QED BY <1>10, <1>11

-----------------------------------------------------------------------------
(* The shrinkers *)

ShrType ==
  shr \in [phase : {"original", "chunks", "tiers", "singles", "over"}, original : Seq(Nat),
           labels : {shr.labels}, config : [seed_count : Nat, max_attempts : Nat, min_chunk_len : Nat],
           current : Seq(Nat), kept : Seq(Nat), attempts : Nat, accepted : Nat, pos : Nat \ {0},
           tier : 0 .. 3, chunk : Nat, round : BOOLEAN, reproduced : BOOLEAN, refused : SUBSET Nat]

\* The kept indices, one for each draw that is left.
KeptIs(original, current, kept) ==
  /\ Len(kept) = Len(current)
  /\ \A k \in 1 .. Len(kept) : kept[k] \in 1 .. Len(original) /\ current[k] = original[kept[k]]
  /\ \A i, j \in 1 .. Len(kept) : i < j => kept[i] < kept[j]

TierOf(k) == label_tier(shr.labels[shr.kept[k]])

\* What EveryKeptWasNeeded needs to be inductive: what the pass over single draws has
\* behind it was refused by itself, in the tiers that are done and in this one.
TriedSoFar ==
  /\ shr.phase = "singles" =>
       \A k \in 1 .. Len(shr.kept) : k < shr.pos => shr.kept[k] \in shr.refused
  /\ shr.phase = "tiers" =>
       \A k \in 1 .. Len(shr.kept) :
         TierOf(k) < shr.tier \/ (TierOf(k) = shr.tier /\ k < shr.pos) => shr.kept[k] \in shr.refused
  /\ shr.phase = "over" /\ shr.reproduced =>
       \A k \in 1 .. Len(shr.kept) : shr.kept[k] \in shr.refused

ShrOK ==
  shr # NoShrink =>
    /\ ShrType /\ KeptIs(shr.original, shr.current, shr.kept)
    /\ shr.phase = "original" => shr.pos = 1 /\ shr.tier = 0
    /\ Budgeted => TriedSoFar

LEMMA TiersAre == \A label : label_tier(label) \in 0 .. 3
BY DEF label_tier

\* A cut keeps the indices in step with the draws.
LEMMA CutKeeps ==
  ASSUME NEW original \in Seq(Nat), NEW current \in Seq(Nat), NEW kept \in Seq(Nat),
         KeptIs(original, current, kept),
         NEW p \in Nat \ {0}, NEW n \in Nat, p + n - 1 <= Len(current)
  PROVE  KeptIs(original, Without(current, <<p, n>>), Without(kept, <<p, n>>))
<1> DEFINE c == Without(current, <<p, n>>)
           l == Without(kept, <<p, n>>)
<1>1. Len(kept) = Len(current) /\ Len(kept) \in Nat BY DEF KeptIs
<1>2. Len(c) = Len(current) - n /\ \A k \in 1 .. Len(current) - n : c[k] = IF k < p THEN current[k] ELSE current[k + n]
  <2>1. /\ Without(current, <<p, n>>) \in Seq(Nat)
        /\ Len(Without(current, <<p, n>>)) = Len(current) - n
        /\ \A k \in 1 .. Len(current) - n :
             Without(current, <<p, n>>)[k] = IF k < p THEN current[k] ELSE current[k + n]
    <3> HIDE DEF c, l
    <3> QED BY WithoutIs
  <2> QED BY <2>1
<1>3. Len(l) = Len(kept) - n /\ \A k \in 1 .. Len(kept) - n : l[k] = IF k < p THEN kept[k] ELSE kept[k + n]
  <2>1. p + n - 1 <= Len(kept) BY <1>1
  <2> QED BY <2>1, WithoutIs
<1> HIDE DEF c, l
<1>4. ASSUME NEW k \in 1 .. Len(kept) - n PROVE k \in 1 .. Len(kept) /\ k + n \in 1 .. Len(kept)
  BY <1>1
<1>8. \A k \in 1 .. Len(kept) : kept[k] \in 1 .. Len(original) /\ current[k] = original[kept[k]]
  BY DEF KeptIs
<1>5. ASSUME NEW k \in 1 .. Len(l) PROVE l[k] \in 1 .. Len(original) /\ c[k] = original[l[k]]
  <2>1. k \in 1 .. Len(kept) - n /\ k \in 1 .. Len(current) - n BY <1>1, <1>3
  <2>4. k \in 1 .. Len(kept) /\ k + n \in 1 .. Len(kept) BY <1>4, <2>1
  <2>2. CASE k < p
    <3>1. l[k] = kept[k] /\ c[k] = current[k] BY <1>2, <1>3, <2>1, <2>2
    <3> QED BY <1>8, <2>4, <3>1
  <2>3. CASE ~(k < p)
    <3>1. l[k] = kept[k + n] /\ c[k] = current[k + n] BY <1>2, <1>3, <2>1, <2>3
    <3> QED BY <1>8, <2>4, <3>1
  <2> QED BY <2>2, <2>3
<1>6. ASSUME NEW i \in 1 .. Len(l), NEW j \in 1 .. Len(l), i < j PROVE l[i] < l[j]
  <2>1. i \in 1 .. Len(kept) - n /\ j \in 1 .. Len(kept) - n BY <1>3
  <2>2. /\ i \in 1 .. Len(kept) /\ i + n \in 1 .. Len(kept)
        /\ j \in 1 .. Len(kept) /\ j + n \in 1 .. Len(kept)
    BY <1>4, <2>1
  <2>3. i < j + n /\ i + n < j + n BY <1>6, <2>1
  <2>4. l[i] = (IF i < p THEN kept[i] ELSE kept[i + n]) /\ l[j] = (IF j < p THEN kept[j] ELSE kept[j + n])
    BY <1>3, <2>1
  <2>5. j < p => i < p BY <1>6, <2>1
  <2> QED BY <1>6, <2>2, <2>3, <2>4, <2>5 DEF KeptIs
<1>7. Len(l) = Len(c) BY <1>1, <1>2, <1>3
<1> QED BY <1>5, <1>6, <1>7 DEF KeptIs, c, l

\* The next cut is inside the tape; of the cuts by single draws it is the first that
\* is still to be tried.
LEMMA CutIs ==
  ASSUME ShrType, KeptIs(shr.original, shr.current, shr.kept), NextCut # <<>>
  PROVE  /\ shr.phase \in {"tiers", "chunks", "singles"}
         /\ NextCut = <<NextCut[1], NextCut[2]>>
         /\ NextCut[1] \in Nat \ {0} /\ NextCut[2] \in Nat
         /\ NextCut[1] + NextCut[2] - 1 <= Len(shr.current)
         /\ shr.phase = "singles" => NextCut = <<shr.pos, 1>> /\ shr.pos \in 1 .. Len(shr.kept)
         /\ shr.phase = "tiers" =>
              /\ NextCut[2] = 1 /\ NextCut[1] \in 1 .. Len(shr.kept)
              /\ TierOf(NextCut[1]) = shr.tier
              /\ \A k \in 1 .. Len(shr.kept) : shr.pos <= k /\ k < NextCut[1] => TierOf(k) # shr.tier
<1>1. Len(shr.current) \in Nat /\ Len(shr.kept) = Len(shr.current) BY DEF ShrType, KeptIs
<1>2. shr.pos \in Nat \ {0} /\ shr.chunk \in Nat /\ shr.tier \in Nat BY DEF ShrType
<1>3. CASE shr.phase = "tiers" /\ InTier # {}
  <2>1. NextCut = <<Min(InTier), 1>> BY <1>3 DEF NextCut
  <2>2. InTier \in SUBSET Nat BY <1>1, <1>2 DEF InTier
  <2>3. Min(InTier) \in InTier /\ \A m \in InTier : Min(InTier) <= m BY <1>3, <2>2, MinIsLeast
  <2> DEFINE m == Min(InTier)
  <2> HIDE DEF m
  <2>4. m \in InTier /\ \A k \in InTier : m <= k BY <2>3 DEF m
  <2>5. m \in shr.pos .. Len(shr.current) /\ TierOf(m) = shr.tier BY <2>4 DEF InTier, TierOf
  <2>6. ASSUME NEW k \in 1 .. Len(shr.kept), shr.pos <= k, k < m PROVE TierOf(k) # shr.tier
    <3>1. k \notin InTier BY <1>1, <1>2, <2>4, <2>5, <2>6
    <3>2. k \in shr.pos .. Len(shr.current) BY <1>1, <1>2, <2>6
    <3> QED BY <3>1, <3>2 DEF InTier, TierOf
  <2>7. NextCut = <<m, 1>> BY <2>1 DEF m
  <2>8. m \in Nat \ {0} /\ m + 1 - 1 <= Len(shr.current) /\ m \in 1 .. Len(shr.kept) BY <1>1, <1>2, <2>5
  <2> QED BY <1>3, <2>5, <2>6, <2>7, <2>8
<1>4. CASE shr.phase = "chunks" /\ shr.pos + shr.chunk - 1 <= Len(shr.current)
  <2>1. NextCut = <<shr.pos, shr.chunk>> BY <1>4 DEF NextCut
  <2> QED BY <1>2, <1>4, <2>1
<1>5. CASE shr.phase = "singles" /\ shr.pos <= Len(shr.current)
  <2>1. NextCut = <<shr.pos, 1>> BY <1>5 DEF NextCut
  <2> QED BY <1>1, <1>2, <1>5, <2>1
<1> QED BY <1>3, <1>4, <1>5 DEF NextCut

LEMMA StartShrinkOK ==
  ASSUME NEW original \in Seq(Nat), NEW labels,
         NEW config \in [seed_count : Nat, max_attempts : Nat, min_chunk_len : Nat],
         shr' = StartShrink(original, labels, config)
  PROVE  ShrOK'
<1> DEFINE kept == [i \in DOMAIN original |-> i]
<1>1. DOMAIN original = 1 .. Len(original) /\ Len(original) \in Nat BY LenProperties
<1>2. kept \in [1 .. Len(original) -> Nat] BY <1>1
<1>3. kept \in Seq(Nat) /\ Len(kept) = Len(original) BY <1>1, <1>2, SeqDef
<1>4. \A k \in 1 .. Len(original) : kept[k] = k BY <1>1
<1>5. shr'.kept = kept /\ shr'.current = original /\ shr'.original = original /\ shr'.phase = "original"
      /\ shr'.pos = 1 /\ shr'.tier = 0 /\ shr'.labels = labels
  BY DEF StartShrink
<1> HIDE DEF kept
<1>6. KeptIs(shr'.original, shr'.current, shr'.kept) BY <1>3, <1>4, <1>5 DEF KeptIs
<1>7. Len(original) \div 2 \in Nat BY <1>1
<1>8. ShrType' BY <1>3, <1>7 DEF ShrType, StartShrink, kept
<1>9. TriedSoFar' BY <1>5 DEF TriedSoFar
<1> QED BY <1>5, <1>6, <1>8, <1>9 DEF ShrOK

\* The first run decides whether there is anything to shrink.
LEMMA ReproducedOK ==
  ASSUME ShrType, KeptIs(shr.original, shr.current, shr.kept), shr.phase = "original",
         shr.pos = 1, shr.tier = 0, NEW fails \in BOOLEAN, Reproduced(fails)
  PROVE  ShrOK'
<1>1. shr' = [shr EXCEPT !.attempts = 1, !.reproduced = fails,
                !.phase = IF ~fails THEN "over" ELSE Algorithm]
  BY DEF Reproduced
<1>2. Algorithm \in {"chunks", "tiers"} BY DEF Algorithm
<1>3. ShrType' BY <1>1, <1>2 DEF ShrType
<1>4. /\ shr'.original = shr.original /\ shr'.current = shr.current /\ shr'.kept = shr.kept
      /\ shr'.pos = 1 /\ shr'.tier = 0 /\ shr'.reproduced = fails
      /\ shr'.phase = IF ~fails THEN "over" ELSE Algorithm
  BY <1>1 DEF ShrType
<1>5. ASSUME shr'.phase = "tiers", NEW k \in 1 .. Len(shr'.kept)
      PROVE  ~(TierOf(k)' < shr'.tier \/ (TierOf(k)' = shr'.tier /\ k < shr'.pos))
  <2>1. label_tier(shr'.labels[shr'.kept[k]]) \in 0 .. 3 BY TiersAre
  <2>2. Len(shr'.kept) \in Nat BY <1>3 DEF ShrType
  <2>3. ~(k < 1) BY <2>2
  <2> QED BY <1>4, <2>1, <2>3 DEF TierOf
<1>6. TriedSoFar' BY <1>2, <1>4, <1>5 DEF TriedSoFar
<1> QED BY <1>2, <1>3, <1>4, <1>6 DEF ShrOK

\* The cut is kept: what stands before it is as it was, and was tried.
LEMMA AcceptedOK ==
  ASSUME ShrType, KeptIs(shr.original, shr.current, shr.kept), NextCut # <<>>, TriedSoFar,
         shr' = Accepted(NextCut)
  PROVE  ShrOK'
<1> DEFINE p == NextCut[1]
           n == NextCut[2]
           c == Without(shr.current, NextCut)
           l == Without(shr.kept, NextCut)
<1>1. /\ shr.phase \in {"tiers", "chunks", "singles"} /\ NextCut = <<p, n>>
      /\ p \in Nat \ {0} /\ n \in Nat /\ p + n - 1 <= Len(shr.current)
  BY CutIs
<1>2. /\ shr.phase = "singles" => p = shr.pos /\ n = 1
      /\ shr.phase = "tiers" =>
           /\ n = 1 /\ p \in 1 .. Len(shr.kept)
           /\ \A k \in 1 .. Len(shr.kept) : shr.pos <= k /\ k < p => TierOf(k) # shr.tier
  BY CutIs
<1>3. /\ shr.current \in Seq(Nat) /\ shr.kept \in Seq(Nat) /\ shr.original \in Seq(Nat)
      /\ Len(shr.kept) = Len(shr.current) /\ Len(shr.kept) \in Nat
  BY DEF ShrType, KeptIs
<1>4. shr' = [shr EXCEPT !.current = c, !.kept = l,
                !.attempts = @ + 1, !.accepted = @ + 1, !.round = TRUE, !.pos = p]
  BY DEF Accepted
<1> HIDE DEF p, n
<1>5. c \in Seq(Nat) BY <1>1, <1>3, WithoutIs
<1>6. /\ l \in Seq(Nat) /\ Len(l) = Len(shr.kept) - n
      /\ \A k \in 1 .. Len(shr.kept) - n : l[k] = IF k < p THEN shr.kept[k] ELSE shr.kept[k + n]
  <2>1. p + n - 1 <= Len(shr.kept) BY <1>1, <1>3
  <2>2. l = Without(shr.kept, <<p, n>>) BY <1>1
  <2> HIDE DEF l
  <2> DEFINE w == Without(shr.kept, <<p, n>>)
  <2>3. /\ w \in Seq(Nat) /\ Len(w) = Len(shr.kept) - n
        /\ \A k \in 1 .. Len(shr.kept) - n : w[k] = IF k < p THEN shr.kept[k] ELSE shr.kept[k + n]
    <3>1. p \in Nat \ {0} /\ n \in Nat BY <1>1
    <3>2. shr.kept \in Seq(Nat) BY <1>3
    <3> DEFINE k == shr.kept
    <3> HIDE DEF k
    <3>3. k \in Seq(Nat) /\ p + n - 1 <= Len(k) BY <2>1, <3>2 DEF k
    <3>4. /\ Without(k, <<p, n>>) \in Seq(Nat) /\ Len(Without(k, <<p, n>>)) = Len(k) - n
          /\ \A i \in 1 .. Len(k) - n : Without(k, <<p, n>>)[i] = IF i < p THEN k[i] ELSE k[i + n]
      BY <3>1, <3>3, WithoutIs
    <3> QED BY <3>4 DEF k
  <2> HIDE DEF w
  <2>4. l = w BY <2>2 DEF w
  <2> QED BY <2>3, <2>4
<1>7. KeptIs(shr.original, c, l) BY <1>1, <1>3, CutKeeps
<1> HIDE DEF c, l
<1>8. ShrType'
  <2>1. shr.attempts + 1 \in Nat /\ shr.accepted + 1 \in Nat BY DEF ShrType
  <2>2. PICK a, b : a = shr.attempts + 1 /\ b = shr.accepted + 1 /\ a \in Nat /\ b \in Nat BY <2>1
  <2>3. shr' = [shr EXCEPT !.current = c, !.kept = l, !.attempts = a, !.accepted = b,
                           !.round = TRUE, !.pos = p]
    BY <1>4, <2>2
  <2>4. c \in Seq(Nat) /\ l \in Seq(Nat) /\ p \in Nat \ {0} BY <1>1, <1>5, <1>6
  <2> DEFINE R == [phase : {"original", "chunks", "tiers", "singles", "over"}, original : Seq(Nat),
                   labels : {shr.labels}, config : [seed_count : Nat, max_attempts : Nat, min_chunk_len : Nat],
                   current : Seq(Nat), kept : Seq(Nat), attempts : Nat, accepted : Nat, pos : Nat \ {0},
                   tier : 0 .. 3, chunk : Nat, round : BOOLEAN, reproduced : BOOLEAN, refused : SUBSET Nat]
  <2>5. PICK s1 : s1 = [shr EXCEPT !.current = c, !.kept = l, !.attempts = a] OBVIOUS
  <2>6. shr \in R BY DEF ShrType
  <2>7. s1 \in R BY <2>2, <2>4, <2>5, <2>6
  <2>8. shr' = [s1 EXCEPT !.accepted = b, !.round = TRUE, !.pos = p] BY <2>3, <2>5, <2>6
  <2>9. shr' \in R BY <2>2, <2>4, <2>7, <2>8
  <2>10. shr'.labels = shr.labels BY <2>3, <2>6
  <2> QED BY <2>9, <2>10 DEF ShrType
<1>9. /\ shr'.original = shr.original /\ shr'.current = c /\ shr'.kept = l /\ shr'.pos = p
      /\ shr'.phase = shr.phase /\ shr'.tier = shr.tier /\ shr'.refused = shr.refused
      /\ shr'.labels = shr.labels
  BY <1>4 DEF ShrType
<1>10. CASE shr.phase = "chunks"
  <2>1. TriedSoFar' BY <1>9, <1>10 DEF TriedSoFar
  <2> QED BY <1>7, <1>8, <1>9, <1>10, <2>1 DEF ShrOK
<1>11. CASE shr.phase = "singles"
  <2>1. ASSUME NEW k \in 1 .. Len(l), k < p PROVE l[k] \in shr.refused
    <3>1. k \in 1 .. Len(shr.kept) /\ k \in 1 .. Len(shr.kept) - n /\ k < shr.pos
      <4>1. p = shr.pos /\ n = 1 BY <1>2, <1>11
      <4>2. k \in 1 .. Len(shr.kept) - 1 BY <1>6, <2>1, <4>1
      <4> QED BY <1>3, <2>1, <4>1, <4>2
    <3>2. l[k] = shr.kept[k] BY <1>6, <2>1, <3>1
    <3> QED BY <1>11, <3>1, <3>2 DEF TriedSoFar
  <2>2. TriedSoFar' BY <1>9, <1>11, <2>1 DEF TriedSoFar
  <2> QED BY <1>7, <1>8, <1>9, <1>11, <2>2 DEF ShrOK
<1>12. CASE shr.phase = "tiers"
  <2>1. shr.tier \in 0 .. 3 /\ shr.pos \in Nat BY DEF ShrType
  <2>2. ASSUME NEW k \in 1 .. Len(l),
               label_tier(shr.labels[l[k]]) < shr.tier \/ (label_tier(shr.labels[l[k]]) = shr.tier /\ k < p)
        PROVE  l[k] \in shr.refused
    <3> DEFINE m == IF k < p THEN k ELSE k + n
    <3>1. m \in 1 .. Len(shr.kept) /\ l[k] = shr.kept[m]
      <4>1. n = 1 BY <1>2, <1>12
      <4>2. k \in 1 .. Len(shr.kept) - 1 BY <1>6, <4>1
      <4>3. k \in 1 .. Len(shr.kept) /\ k + 1 \in 1 .. Len(shr.kept) BY <1>3, <4>2
      <4> QED BY <1>6, <4>1, <4>2, <4>3
    <3>2. label_tier(shr.labels[l[k]]) = TierOf(m) BY <3>1 DEF TierOf
    <3>3. CASE TierOf(m) < shr.tier BY <1>12, <3>1, <3>3 DEF TriedSoFar
    <3>4. CASE TierOf(m) = shr.tier /\ k < p
      <4>1. m = k BY <3>4
      <4>2. ~(shr.pos <= m) BY <1>2, <1>12, <3>1, <3>4, <4>1
      <4>3. m < shr.pos BY <2>1, <3>1, <4>1, <4>2
      <4> QED BY <1>12, <3>1, <3>4, <4>3 DEF TriedSoFar
    <3>5. TierOf(m) \in 0 .. 3 BY TiersAre DEF TierOf
    <3> QED BY <2>1, <2>2, <3>2, <3>3, <3>4, <3>5
  <2>3. TriedSoFar' BY <1>9, <1>12, <2>2 DEF TriedSoFar, TierOf
  <2> QED BY <1>7, <1>8, <1>9, <1>12, <2>3 DEF ShrOK
<1> QED BY <1>1, <1>10, <1>11, <1>12

\* The cut is undone: a single draw is marked as refused and passed.
LEMMA RefusedOK ==
  ASSUME ShrType, KeptIs(shr.original, shr.current, shr.kept), NextCut # <<>>, TriedSoFar,
         shr' = Refused(NextCut)
  PROVE  ShrOK'
<1> DEFINE p == NextCut[1]
           n == NextCut[2]
           more == IF n = 1 THEN {shr.kept[p]} ELSE {}
<1>1. /\ shr.phase \in {"tiers", "chunks", "singles"} /\ NextCut = <<p, n>>
      /\ p \in Nat \ {0} /\ n \in Nat /\ p + n - 1 <= Len(shr.current)
  BY CutIs
<1>2. /\ shr.phase = "singles" => p = shr.pos /\ n = 1 /\ p \in 1 .. Len(shr.kept)
      /\ shr.phase = "tiers" =>
           /\ n = 1 /\ p \in 1 .. Len(shr.kept) /\ TierOf(p) = shr.tier
           /\ \A k \in 1 .. Len(shr.kept) : shr.pos <= k /\ k < p => TierOf(k) # shr.tier
  BY CutIs
<1>3. shr.kept \in Seq(Nat) /\ Len(shr.kept) = Len(shr.current) /\ Len(shr.kept) \in Nat
  BY DEF ShrType, KeptIs
<1>4. shr' = [shr EXCEPT !.attempts = @ + 1, !.pos = p + n, !.refused = @ \union more]
  BY DEF Refused
<1> HIDE DEF p, n
<1>5. more \subseteq Nat
  <2>1. CASE n = 1
    <3>1. p \in 1 .. Len(shr.kept) BY <1>1, <1>3, <2>1
    <3>2. shr.kept[p] \in Nat BY <1>3, <3>1, ElementOfSeq
    <3> QED BY <2>1, <3>2
  <2> QED BY <2>1
<1>6. n = 1 => more = {shr.kept[p]} OBVIOUS
<1> HIDE DEF more
<1>7. ShrType'
  <2>1. shr.attempts + 1 \in Nat BY DEF ShrType
  <2>2. p + n \in Nat \ {0} BY <1>1
  <2>3. shr.refused \union more \in SUBSET Nat BY <1>5 DEF ShrType
  <2>4. PICK a, q, r : a = shr.attempts + 1 /\ q = p + n /\ r = shr.refused \union more OBVIOUS
  <2>5. a \in Nat /\ q \in Nat \ {0} /\ r \in SUBSET Nat BY <2>1, <2>2, <2>3, <2>4
  <2>6. shr' = [shr EXCEPT !.attempts = a, !.pos = q, !.refused = r] BY <1>4, <2>4
  <2> QED BY <2>5, <2>6 DEF ShrType
<1>8. /\ shr'.original = shr.original /\ shr'.current = shr.current /\ shr'.kept = shr.kept
      /\ shr'.pos = p + n /\ shr'.phase = shr.phase /\ shr'.tier = shr.tier
      /\ shr'.refused = shr.refused \union more /\ shr'.labels = shr.labels
  BY <1>4 DEF ShrType
<1>9. CASE shr.phase = "chunks"
  <2>1. TriedSoFar' BY <1>8, <1>9 DEF TriedSoFar
  <2> QED BY <1>7, <1>8, <1>9, <2>1 DEF ShrOK
<1>10. CASE shr.phase = "singles"
  <2>1. ASSUME NEW k \in 1 .. Len(shr.kept), k < p + n PROVE shr.kept[k] \in shr.refused \union more
    <3>1. k < p \/ k = p BY <1>2, <1>3, <1>10, <2>1
    <3>2. k < p => shr.kept[k] \in shr.refused BY <1>2, <1>10 DEF TriedSoFar
    <3> QED BY <1>2, <1>6, <1>10, <3>1, <3>2
  <2>2. TriedSoFar' BY <1>8, <1>10, <2>1 DEF TriedSoFar
  <2> QED BY <1>7, <1>8, <1>10, <2>2 DEF ShrOK
<1>11. CASE shr.phase = "tiers"
  <2>1. shr.pos \in Nat BY DEF ShrType
  <2>2. ASSUME NEW k \in 1 .. Len(shr.kept), TierOf(k) < shr.tier \/ (TierOf(k) = shr.tier /\ k < p + n)
        PROVE  shr.kept[k] \in shr.refused \union more
    <3>1. CASE TierOf(k) < shr.tier BY <1>11, <3>1 DEF TriedSoFar
    <3>2. CASE TierOf(k) = shr.tier /\ k < p + n
      <4>1. k < p \/ k = p BY <1>2, <1>3, <1>11, <3>2
      <4>2. CASE k = p BY <1>2, <1>6, <1>11, <4>2
      <4>3. CASE k < p
        <5>1. ~(shr.pos <= k) BY <1>2, <1>11, <3>2, <4>3
        <5>2. k < shr.pos BY <1>3, <2>1, <5>1
        <5> QED BY <1>11, <3>2, <5>2 DEF TriedSoFar
      <4> QED BY <4>1, <4>2, <4>3
    <3> QED BY <2>2, <3>1, <3>2
  <2>3. TriedSoFar' BY <1>8, <1>11, <2>2 DEF TriedSoFar, TierOf
  <2> QED BY <1>7, <1>8, <1>11, <2>3 DEF ShrOK
<1> QED BY <1>1, <1>9, <1>10, <1>11

LEMMA IdleShrink == ASSUME shr = NoShrink PROVE ~Tries /\ ~ShrinkStep /\ ~Shrinking
<1>1. shr.phase = "idle" BY DEF NoShrink
<1>2. NextCut = <<>> BY <1>1 DEF NextCut
<1> QED BY <1>1, <1>2 DEF Tries, ShrinkStep, NextTier, NextRound, LastSingle, Shrinking

LEMMA JudgeOK == ASSUME ShrOK, NEW fails \in BOOLEAN, Judge(fails) PROVE ShrOK'
<1>1. shr # NoShrink BY IdleShrink DEF Judge
<1>2. ShrType /\ KeptIs(shr.original, shr.current, shr.kept) BY <1>1 DEF ShrOK
<1>3. CASE shr.phase = "original"
  <2>1. shr.pos = 1 /\ shr.tier = 0 /\ Reproduced(fails) BY <1>1, <1>3 DEF ShrOK, Judge
  <2> QED BY <1>2, <1>3, <2>1, ReproducedOK
<1>4. CASE shr.phase # "original"
  <2>1. Budgeted /\ NextCut # <<>> BY <1>4 DEF Judge, Tries
  <2>2. TriedSoFar BY <1>1, <2>1 DEF ShrOK
  <2>3. shr' = Accepted(NextCut) \/ shr' = Refused(NextCut) BY <1>4 DEF Judge
  <2> QED BY <1>2, <2>1, <2>2, <2>3, AcceptedOK, RefusedOK
<1> QED BY <1>3, <1>4

\* A pass ends when it has tried what there is, or when the budget is used up.
LEMMA PassEnds == ASSUME ShrOK, ShrinkStep PROVE ShrOK'
<1>1. shr # NoShrink BY IdleShrink
<1>2. ShrType /\ KeptIs(shr.original, shr.current, shr.kept) BY <1>1 DEF ShrOK
<1>3. /\ shr.tier \in 0 .. 3 /\ shr.pos \in Nat \ {0} /\ shr.chunk \in Nat
      /\ Len(shr.kept) \in Nat /\ Len(shr.current) = Len(shr.kept)
  BY <1>2 DEF ShrType, KeptIs
<1>4. ASSUME NEW pos, NEW phase, NEW tier, shr'.pos = pos, shr'.phase = phase, shr'.tier = tier,
             shr'.current = shr.current, shr'.kept = shr.kept, shr'.original = shr.original,
             shr'.attempts = shr.attempts, shr'.config = shr.config, phase # "original",
             ShrType', Budgeted => TriedSoFar'
      PROVE  ShrOK'
  <2>1. Budgeted' => Budgeted BY <1>4 DEF Budgeted
  <2> QED BY <1>2, <1>4, <2>1 DEF ShrOK
<1>5. CASE NextTier
  <2>1. shr.phase = "tiers" /\ ~Tries BY <1>5 DEF NextTier
  <2>2. Budgeted => TriedSoFar /\ InTier = {} BY <1>1, <2>1 DEF ShrOK, Tries, NextCut
  <2>3. ASSUME Budgeted, NEW k \in 1 .. Len(shr.kept), TierOf(k) <= shr.tier
        PROVE  shr.kept[k] \in shr.refused
    <3>1. TierOf(k) \in 0 .. 3 BY TiersAre DEF TierOf
    <3>2. CASE TierOf(k) < shr.tier BY <2>1, <2>2, <2>3, <3>2 DEF TriedSoFar
    <3>3. CASE TierOf(k) = shr.tier
      <4>1. k \notin shr.pos .. Len(shr.current) BY <2>2, <2>3, <3>3 DEF InTier, TierOf
      <4>2. k < shr.pos BY <1>3, <4>1
      <4> QED BY <2>1, <2>2, <2>3, <3>3, <4>2 DEF TriedSoFar
    <3> QED BY <1>3, <2>3, <3>1, <3>2, <3>3
  <2>4. CASE shr.tier < 3
    <3>1. shr' = [shr EXCEPT !.tier = @ + 1, !.pos = 1] BY <1>5, <2>4 DEF NextTier
    <3>2. shr.tier + 1 \in 0 .. 3 BY <1>3, <2>4
    <3>3. ShrType'
      <4>1. 1 \in Nat \ {0} OBVIOUS
      <4> QED BY <1>2, <3>1, <3>2, <4>1 DEF ShrType
    <3>4. /\ shr'.pos = 1 /\ shr'.phase = "tiers" /\ shr'.tier = shr.tier + 1
          /\ shr'.current = shr.current /\ shr'.kept = shr.kept /\ shr'.original = shr.original
          /\ shr'.attempts = shr.attempts /\ shr'.config = shr.config
          /\ shr'.labels = shr.labels /\ shr'.refused = shr.refused
      BY <1>2, <2>1, <3>1 DEF ShrType
    <3>5. ASSUME Budgeted PROVE TriedSoFar'
      <4>1. ASSUME NEW k \in 1 .. Len(shr.kept),
                   TierOf(k) < shr.tier + 1 \/ (TierOf(k) = shr.tier + 1 /\ k < 1)
            PROVE  shr.kept[k] \in shr.refused
        <5>1. TierOf(k) \in 0 .. 3 BY TiersAre DEF TierOf
        <5>2. ~(k < 1) BY <1>3
        <5>3. TierOf(k) <= shr.tier BY <1>3, <4>1, <5>1, <5>2
        <5> QED BY <2>3, <3>5, <5>3
      <4> QED BY <3>4, <4>1 DEF TriedSoFar, TierOf
    <3> QED BY <1>4, <3>3, <3>4, <3>5
  <2>5. CASE ~(shr.tier < 3)
    <3>1. shr' = [shr EXCEPT !.phase = "over"] BY <1>5, <2>5 DEF NextTier
    <3>2. ShrType' BY <1>2, <3>1 DEF ShrType
    <3>3. /\ shr'.pos = shr.pos /\ shr'.phase = "over" /\ shr'.tier = shr.tier
          /\ shr'.current = shr.current /\ shr'.kept = shr.kept /\ shr'.original = shr.original
          /\ shr'.attempts = shr.attempts /\ shr'.config = shr.config
          /\ shr'.refused = shr.refused
      BY <1>2, <3>1 DEF ShrType
    <3>4. ASSUME Budgeted PROVE TriedSoFar'
      <4>1. ASSUME NEW k \in 1 .. Len(shr.kept) PROVE shr.kept[k] \in shr.refused
        <5>1. TierOf(k) \in 0 .. 3 BY TiersAre DEF TierOf
        <5>2. TierOf(k) <= shr.tier BY <1>3, <2>5, <5>1
        <5> QED BY <2>3, <3>4, <5>2
      <4> QED BY <3>3, <4>1 DEF TriedSoFar
    <3> QED BY <1>4, <3>2, <3>3, <3>4
  <2> QED BY <2>4, <2>5
<1>6. CASE NextRound
  <2>1. shr.phase = "chunks" BY <1>6 DEF NextRound
  <2>2. CASE shr' = [shr EXCEPT !.chunk = Halved, !.pos = 1, !.round = FALSE]
    <3>1. Halved \in Nat BY <1>3 DEF Halved
    <3>2. ShrType'
      <4>1. 1 \in Nat \ {0} /\ FALSE \in BOOLEAN OBVIOUS
      <4> QED BY <1>2, <2>2, <3>1, <4>1 DEF ShrType
    <3>3. /\ shr'.pos = 1 /\ shr'.phase = "chunks" /\ shr'.tier = shr.tier
          /\ shr'.current = shr.current /\ shr'.kept = shr.kept /\ shr'.original = shr.original
          /\ shr'.attempts = shr.attempts /\ shr'.config = shr.config
      BY <1>2, <2>1, <2>2 DEF ShrType
    <3>4. TriedSoFar' BY <3>3 DEF TriedSoFar
    <3> QED BY <1>4, <3>2, <3>3, <3>4
  <2>3. CASE shr' = [shr EXCEPT !.phase = "singles", !.pos = 1]
    <3>1. ShrType'
      <4>1. 1 \in Nat \ {0} OBVIOUS
      <4> QED BY <1>2, <2>3, <4>1 DEF ShrType
    <3>2. /\ shr'.pos = 1 /\ shr'.phase = "singles" /\ shr'.tier = shr.tier
          /\ shr'.current = shr.current /\ shr'.kept = shr.kept /\ shr'.original = shr.original
          /\ shr'.attempts = shr.attempts /\ shr'.config = shr.config
      BY <1>2, <2>3 DEF ShrType
    <3>3. \A k \in 1 .. Len(shr.kept) : ~(k < 1) BY <1>3
    <3>4. TriedSoFar' BY <3>2, <3>3 DEF TriedSoFar
    <3> QED BY <1>4, <3>1, <3>2, <3>4
  <2> QED BY <1>6, <2>2, <2>3 DEF NextRound
<1>7. CASE LastSingle
  <2>1. shr.phase = "singles" /\ ~Tries /\ shr' = [shr EXCEPT !.phase = "over"] BY <1>7 DEF LastSingle
  <2>2. ShrType' BY <1>2, <2>1 DEF ShrType
  <2>3. /\ shr'.pos = shr.pos /\ shr'.phase = "over" /\ shr'.tier = shr.tier
        /\ shr'.current = shr.current /\ shr'.kept = shr.kept /\ shr'.original = shr.original
        /\ shr'.attempts = shr.attempts /\ shr'.config = shr.config
        /\ shr'.refused = shr.refused
    BY <1>2, <2>1 DEF ShrType
  <2>4. ASSUME Budgeted PROVE TriedSoFar'
    <3>1. ~(shr.pos <= Len(shr.current)) BY <2>1, <2>4 DEF Tries, NextCut
    <3>2. \A k \in 1 .. Len(shr.kept) : k < shr.pos BY <1>3, <3>1
    <3>3. \A k \in 1 .. Len(shr.kept) : shr.kept[k] \in shr.refused
      BY <1>1, <2>1, <2>4, <3>2 DEF ShrOK, TriedSoFar
    <3> QED BY <2>3, <3>3 DEF TriedSoFar
  <2> QED BY <1>4, <2>2, <2>3, <2>4
<1> QED BY <1>5, <1>6, <1>7 DEF ShrinkStep

-----------------------------------------------------------------------------
(* The tools *)

\* The tool works on one of the jobs it may be given, and what it replays are draws.
JobFields ==
  job \in [tool : {job.tool}, case : {job.case}, budget : {job.budget}, stage : {job.stage},
           seed : {job.seed}, failures : {job.failures}, first : {job.first},
           target : {job.target}, replay : {job.replay}, result : {job.result}]
Given ==
  /\ JobFields
  /\ \E j \in Jobs \union Hunts : job.case = j.case /\ job.budget = j.budget
  /\ job.first.log \in Seq(Nat)

ScriptsInOrder ==
  \A j \in Jobs \union Hunts :
    /\ \A i \in DOMAIN j.case.generate.plans : InOrder(j.case.generate.plans[i])
    /\ \A i \in DOMAIN j.case.replay.plans : InOrder(j.case.replay.plans[i])

LEMMA GivenCase ==
  ASSUME Given
  PROVE  /\ JobOK(job)
         /\ ScriptsInOrder =>
              /\ \A i \in DOMAIN job.case.generate.plans : InOrder(job.case.generate.plans[i])
              /\ \A i \in DOMAIN job.case.replay.plans : InOrder(job.case.replay.plans[i])
<1>1. PICK j \in Jobs \union Hunts : job.case = j.case /\ job.budget = j.budget BY DEF Given
<1>2. JobOK(j) BY JobsOK, HuntsOK
<1>3. JobOK(job) BY <1>1, <1>2 DEF JobOK
<1>4. ASSUME ScriptsInOrder
      PROVE  /\ \A i \in DOMAIN job.case.generate.plans : InOrder(job.case.generate.plans[i])
             /\ \A i \in DOMAIN job.case.replay.plans : InOrder(job.case.replay.plans[i])
  BY <1>1, <1>4 DEF ScriptsInOrder
<1> QED BY <1>3, <1>4

WorldOK == TapeType(tape) /\ PlansOK
InTime == ScriptsInOrder => Merged

LEMMA StillWorld ==
  ASSUME WorldOK, UNCHANGED planVars, TapeType(tape')
  PROVE  WorldOK' /\ (InTime => InTime')
<1>1. live' = live /\ plans' = plans /\ pending' = pending /\ asking' = asking /\ emitted' = emitted
  BY DEF planVars
<1>2. Offering' = Offering BY <1>1 DEF Offering
<1>3. Unspent' = Unspent BY <1>1 DEF Unspent, Spent
<1>4. PlansOK'
  <2>1. ListedOnce(live)' BY <1>1 DEF WorldOK, PlansOK, ListedOnce
  <2>2. \A i \in Offering' : OfferOK(pending'[i][1], live') BY <1>1, <1>2 DEF WorldOK, PlansOK
  <2>3. \A i \in DOMAIN emitted' : OfferOK(emitted'[i], live') BY <1>1 DEF WorldOK, PlansOK
  <2> QED BY <1>1, <2>1, <2>2, <2>3 DEF WorldOK, PlansOK
<1>5. ASSUME Merged PROVE Merged'
  <2>1. EmittedFirst' BY <1>1, <1>2, <1>3, <1>5 DEF Merged, EmittedFirst
  <2>2. OfferedFirst' BY <1>1, <1>2, <1>3, <1>5 DEF Merged, OfferedFirst
  <2>3. AllAsked' BY <1>1, <1>2, <1>3, <1>5 DEF Merged, AllAsked
  <2>4. EmittedInOrder' BY <1>1, <1>5 DEF Merged, EmittedInOrder
  <2> QED BY <1>1, <1>5, <2>1, <2>2, <2>3, <2>4 DEF Merged
<1> QED BY <1>4, <1>5 DEF WorldOK, InTime

LEMMA StartedWorld ==
  ASSUME Given, NEW conf \in {job.case.generate, job.case.replay}, NEW t, TapeType(t),
         StartWorld(conf, t)
  PROVE  WorldOK' /\ InTime'
<1>1. ConfOK(conf) BY GivenCase DEF JobOK
<1>2. tape' = t /\ NewPlans(conf.live, conf.plans) BY DEF StartWorld
<1>3. PlansOK' /\ ((\A i \in DOMAIN conf.plans : InOrder(conf.plans[i])) => Merged')
  BY <1>1, <1>2, NewPlansOK
<1>4. ScriptsInOrder => \A i \in DOMAIN conf.plans : InOrder(conf.plans[i]) BY GivenCase
<1>5. WorldOK' BY <1>2, <1>3 DEF WorldOK
<1>6. ScriptsInOrder => Merged' BY <1>3, <1>4
<1> QED BY <1>5, <1>6 DEF InTime

\* The draws of a message and of a delivery.
LEMMA PercentIs ==
  ASSUME NEW t, TapeType(t), NEW label, NEW percent, NEW d \in DrawPercent(t, label, percent)
  PROVE  TapeType(d.tape)
<1>1. d \in Draw(t, label) \union Undrawn(t) BY DEF DrawPercent
<1> QED BY <1>1, DrawIs

LEMMA SendTape == ASSUME TapeType(tape), Send PROVE TapeType(tape')
<1> DEFINE c == world.conf
<1>1. PICK d \in Draw(tape, "net-delay") :
        \E x \in IF c.extra > 0 THEN Draw(d.tape, "extra-delay") ELSE Undrawn(d.tape) :
        \E u \in DrawPercent(x.tape, "duplicate-decision", c.duplicate) :
        \E g \in IF Fires(u, c.duplicate) THEN Draw(u.tape, "extra-delay") ELSE Undrawn(u.tape) :
          tape' = g.tape
  BY DEF Send
<1>2. TapeType(d.tape)
  <2>1. d \in Draw(tape, "net-delay") \union Undrawn(tape) OBVIOUS
  <2> QED BY <2>1, DrawIs
<1>3. PICK x \in IF c.extra > 0 THEN Draw(d.tape, "extra-delay") ELSE Undrawn(d.tape) :
        \E u \in DrawPercent(x.tape, "duplicate-decision", c.duplicate) :
        \E g \in IF Fires(u, c.duplicate) THEN Draw(u.tape, "extra-delay") ELSE Undrawn(u.tape) :
          tape' = g.tape
  BY <1>1
<1>4. TapeType(x.tape)
  <2>1. x \in Draw(d.tape, "extra-delay") \union Undrawn(d.tape) BY <1>3
  <2> QED BY <1>2, <2>1, DrawIs
<1>5. PICK u \in DrawPercent(x.tape, "duplicate-decision", c.duplicate) :
        \E g \in IF Fires(u, c.duplicate) THEN Draw(u.tape, "extra-delay") ELSE Undrawn(u.tape) :
          tape' = g.tape
  BY <1>3
<1>6. TapeType(u.tape) BY <1>4, PercentIs
<1>7. PICK g \in IF Fires(u, c.duplicate) THEN Draw(u.tape, "extra-delay") ELSE Undrawn(u.tape) :
        tape' = g.tape
  BY <1>5
<1>8. TapeType(g.tape)
  <2>1. g \in Draw(u.tape, "extra-delay") \union Undrawn(u.tape) BY <1>7
  <2> QED BY <1>6, <2>1, DrawIs
<1> QED BY <1>7, <1>8

LEMMA WorldMoves == ASSUME WorldOK, WorldStep PROVE WorldOK' /\ (InTime => InTime')
<1>1. CASE Plan
  <2>1. CASE Ask
    <3>1. PlansOK' /\ TapeType(tape') /\ (Merged => Merged') BY <2>1, AskStep DEF WorldOK
    <3> QED BY <3>1 DEF WorldOK, InTime
  <2>2. CASE Emit
    <3>1. PlansOK' /\ (Merged => Merged') BY <2>2, EmitStep DEF WorldOK
    <3>2. tape' = tape BY <2>2 DEF Emit
    <3>3. TapeType(tape') BY <3>2 DEF WorldOK
    <3> QED BY <3>1, <3>3 DEF WorldOK, InTime
  <2>3. CASE UNCHANGED <<tape, planVars>>
    <3>1. TapeType(tape') BY <2>3 DEF WorldOK
    <3> QED BY <2>3, <3>1, StillWorld
  <2> QED BY <1>1, <2>1, <2>2, <2>3 DEF Plan
<1>2. CASE Send
  <2>1. TapeType(tape') BY <1>2, SendTape DEF WorldOK
  <2>2. UNCHANGED planVars BY <1>2 DEF Send
  <2> QED BY <2>1, <2>2, StillWorld
<1>3. CASE Deliver
  <2>1. PICK d \in DrawPercent(tape, "drop-decision", world.conf.drop) : tape' = d.tape
    BY <1>3 DEF Deliver
  <2>2. TapeType(tape') BY <2>1, PercentIs DEF WorldOK
  <2>3. UNCHANGED planVars BY <1>3 DEF Deliver
  <2> QED BY <2>2, <2>3, StillWorld
<1>4. CASE Quiesce
  <2>1. UNCHANGED <<tape, planVars>> BY <1>4 DEF Quiesce
  <2>2. TapeType(tape') BY <2>1 DEF WorldOK
  <2> QED BY <2>1, <2>2, StillWorld
<1> QED BY <1>1, <1>2, <1>3, <1>4 DEF WorldStep

\* A step of the tool keeps its case and its budget.
SameJob == JobFields' /\ job'.case = job.case /\ job'.budget = job.budget /\ job'.first = job.first

LEMMA GivenStays == ASSUME Given, SameJob PROVE Given'
BY DEF Given, SameJob

LEMMA StageMoves == ASSUME Given, NEW stage, job' = [job EXCEPT !.stage = stage] PROVE Given'
<1>1. SameJob BY DEF Given, JobFields, SameJob
<1> QED BY <1>1, GivenStays

LEMMA ConcludeMoves == ASSUME Given, NEW result, Conclude(result) PROVE Given'
<1>1. SameJob BY DEF Given, JobFields, SameJob, Conclude
<1> QED BY <1>1, GivenStays

LEMMA GenerateSeedMoves ==
  ASSUME WorldOK, Given, ShrOK, GenerateSeed
  PROVE  WorldOK' /\ InTime' /\ Given' /\ UNCHANGED shr
<1>1. StartWorld(job.case.generate, Generating) /\ job' = [job EXCEPT !.stage = "generating"] /\ UNCHANGED shr
  BY DEF GenerateSeed, Call
<1>2. TapeType(Generating) BY StartedTape
<1> QED BY <1>1, <1>2, StartedWorld, StageMoves

\* A replay starts from draws.
LEMMA CallReplayMoves ==
  ASSUME WorldOK, Given, NEW stage, NEW log \in Seq(Nat), CallReplay(stage, log)
  PROVE  WorldOK' /\ InTime' /\ Given'
<1>1. StartWorld(job.case.replay, Replaying(log)) /\ job' = [job EXCEPT !.stage = stage]
  BY DEF CallReplay, Call
<1>2. TapeType(Replaying(log)) BY StartedTape
<1> QED BY <1>1, <1>2, StartedWorld, StageMoves

LEMMA WorldRests ==
  ASSUME WorldOK, UNCHANGED <<tape, planVars>>
  PROVE  WorldOK' /\ (InTime => InTime')
<1>1. TapeType(tape') BY DEF WorldOK
<1> QED BY <1>1, StillWorld

LEMMA GeneratedMoves ==
  ASSUME WorldOK, Given, ShrOK, Generated
  PROVE  WorldOK' /\ (InTime => InTime') /\ Given' /\ UNCHANGED shr
<1> DEFINE fails == Oracle(Report) # "none"
           first == fails /\ job.failures = 0
           f == IF first \/ job.tool = "signature" THEN Report ELSE job.first
           g == IF fails THEN job.failures + 1 ELSE job.failures
           h == IF first THEN Oracle(Report) ELSE job.target
<1>1. /\ job' = [job EXCEPT !.stage = "seeds", !.seed = @ + 1, !.failures = g, !.first = f, !.target = h]
      /\ UNCHANGED <<worldVars, shr>>
  BY DEF Generated
<1>2. f.log \in Seq(Nat)
  <2>1. Report.log = tape.log BY DEF Report
  <2>2. tape.log \in Seq(Nat) BY DEF WorldOK, TapeType
  <2> QED BY <2>1, <2>2 DEF Given
<1> HIDE DEF f, g, h
<1>3. JobFields' /\ job'.case = job.case /\ job'.budget = job.budget /\ job'.first = f
  BY <1>1 DEF Given, JobFields
<1>4. Given' BY <1>2, <1>3 DEF Given
<1>5. UNCHANGED <<tape, planVars>> BY <1>1 DEF worldVars
<1> QED BY <1>1, <1>4, <1>5, WorldRests

LEMMA ReplayFirstMoves ==
  ASSUME WorldOK, Given, ShrOK, ReplayFirst
  PROVE  WorldOK' /\ (InTime => InTime') /\ Given' /\ UNCHANGED shr
<1>1. CASE Conclude("not recalled") /\ UNCHANGED worldVars
  <2>1. Given' BY <1>1, ConcludeMoves
  <2>2. UNCHANGED <<tape, planVars>> BY <1>1 DEF worldVars
  <2>3. UNCHANGED shr BY DEF ReplayFirst
  <2> QED BY <2>1, <2>2, <2>3, WorldRests
<1>2. CASE CallReplay("replaying", job.first.log)
  <2>1. job.first.log \in Seq(Nat) BY DEF Given
  <2>2. UNCHANGED shr BY DEF ReplayFirst
  <2> QED BY <1>2, <2>1, <2>2, CallReplayMoves
<1> QED BY <1>1, <1>2 DEF ReplayFirst

LEMMA RepliedMoves ==
  ASSUME WorldOK, Given, ShrOK, Replied
  PROVE  WorldOK' /\ (InTime => InTime') /\ Given' /\ ShrOK'
<1>1. UNCHANGED worldVars BY DEF Replied
<1>2. UNCHANGED <<tape, planVars>> BY <1>1 DEF worldVars
<1>3. PICK target :
        \/ /\ job' = [job EXCEPT !.stage = "shrinking", !.target = target, !.replay = <<Compared>>]
           /\ shr' = StartShrink(job.first.log, IF job.case.labelled THEN job.first.labels ELSE <<>>, job.budget)
        \/ /\ job' = [job EXCEPT !.stage = "done", !.replay = <<Compared>>, !.result = Otherwise]
           /\ UNCHANGED shr
  BY DEF Replied
<1>4. Given'
  <2>1. SameJob BY <1>3 DEF Given, JobFields, SameJob
  <2> QED BY <2>1, GivenStays
<1>5. job.first.log \in Seq(Nat) /\ job.budget \in [seed_count : Nat, max_attempts : Nat, min_chunk_len : Nat]
  BY GivenCase DEF Given, JobOK
<1>6. UNCHANGED shr => ShrOK'
  BY DEF ShrOK, ShrType, Budgeted, TriedSoFar, TierOf
<1>7. ShrOK' BY <1>3, <1>5, <1>6, StartShrinkOK
<1> QED BY <1>2, <1>4, <1>7, WorldRests

LEMMA CandidateIs == ASSUME ShrOK, Tries PROVE Candidate \in Seq(Nat)
<1>1. shr # NoShrink BY IdleShrink
<1>2. ShrType /\ KeptIs(shr.original, shr.current, shr.kept) BY <1>1 DEF ShrOK
<1>3. shr.original \in Seq(Nat) /\ shr.current \in Seq(Nat) BY <1>2 DEF ShrType
<1>4. CASE shr.phase = "original" BY <1>3, <1>4 DEF Candidate
<1>5. CASE shr.phase # "original"
  <2>1. NextCut # <<>> BY <1>5 DEF Tries
  <2> DEFINE p == NextCut[1]
             n == NextCut[2]
  <2>2. NextCut = <<p, n>> /\ p \in Nat \ {0} /\ n \in Nat /\ p + n - 1 <= Len(shr.current)
    BY <1>2, <2>1, CutIs
  <2> HIDE DEF p, n
  <2>3. Without(shr.current, <<p, n>>) \in Seq(Nat) BY <1>3, <2>2, WithoutIs
  <2> QED BY <1>5, <2>2, <2>3 DEF Candidate
<1> QED BY <1>4, <1>5

LEMMA StillShrink == ASSUME ShrOK, UNCHANGED shr PROVE ShrOK'
BY DEF ShrOK, ShrType, Budgeted, TriedSoFar, TierOf

LEMMA ShrinkingMoves ==
  ASSUME WorldOK, Given, ShrOK, TryCandidate \/ Tried \/ Shrinks \/ ReplayMinimized \/ Minimized
  PROVE  WorldOK' /\ (InTime => InTime') /\ Given' /\ ShrOK'
<1>1. CASE TryCandidate
  <2>1. Candidate \in Seq(Nat) BY <1>1, CandidateIs DEF TryCandidate
  <2>2. CallReplay("trying", Candidate) /\ UNCHANGED shr BY <1>1 DEF TryCandidate
  <2> QED BY <2>1, <2>2, CallReplayMoves, StillShrink
<1>2. CASE Tried
  <2>1. /\ Judge(StillFails(Report)) /\ job' = [job EXCEPT !.stage = "shrinking"]
        /\ UNCHANGED <<tape, planVars>>
    BY <1>2 DEF Tried, worldVars
  <2>2. StillFails(Report) \in BOOLEAN BY DEF StillFails
  <2>3. ShrOK' BY <2>1, <2>2, JudgeOK
  <2> QED BY <2>1, <2>3, StageMoves, WorldRests
<1>3. CASE Shrinks
  <2>1. ShrinkStep /\ UNCHANGED job /\ UNCHANGED <<tape, planVars>> BY <1>3 DEF Shrinks, worldVars
  <2>2. SameJob BY <2>1 DEF Given, JobFields, SameJob
  <2> QED BY <2>1, <2>2, PassEnds, GivenStays, WorldRests
<1>4. CASE ReplayMinimized
  <2>1. shr.phase = "over" /\ CallReplay("minimized", shr.current) /\ UNCHANGED shr
    BY <1>4 DEF ReplayMinimized
  <2>2. shr # NoShrink BY <2>1 DEF NoShrink
  <2>3. shr.current \in Seq(Nat) BY <2>2 DEF ShrOK, ShrType
  <2> QED BY <2>1, <2>3, CallReplayMoves, StillShrink
<1>5. CASE Minimized
  <2>1. \E result : Conclude(result) BY <1>5 DEF Minimized
  <2>2. UNCHANGED shr /\ UNCHANGED <<tape, planVars>> BY <1>5 DEF Minimized, worldVars
  <2> QED BY <2>1, <2>2, ConcludeMoves, StillShrink, WorldRests
<1> QED BY <1>1, <1>2, <1>3, <1>4, <1>5

LEMMA SearchMoves ==
  ASSUME WorldOK, Given, ShrOK, SearchStep
  PROVE  WorldOK' /\ (InTime => InTime') /\ Given' /\ ShrOK'
<1>1. CASE SearchSeed
  <2>1. StartWorld(job.case.generate, Generating) /\ job' = job /\ shr' = shr BY <1>1 DEF SearchSeed
  <2>2. SameJob BY <2>1 DEF Given, JobFields, SameJob
  <2>3. TapeType(Generating) BY StartedTape
  <2> QED BY <2>1, <2>2, <2>3, StartedWorld, GivenStays, StillShrink
<1>2. CASE SeedRan
  <2>1. UNCHANGED <<tape, planVars>> /\ job' = job /\ shr' = shr BY <1>2 DEF SeedRan
  <2>2. SameJob BY <2>1 DEF Given, JobFields, SameJob
  <2> QED BY <2>1, <2>2, GivenStays, StillShrink, WorldRests
<1>3. CASE Observe
  <2>1. UNCHANGED experimentVars BY <1>3 DEF Observe
  <2>2. UNCHANGED <<tape, planVars>> /\ job' = job /\ shr' = shr
    BY <2>1, Zenon DEF experimentVars, worldVars
  <2>3. SameJob BY <2>2 DEF Given, JobFields, SameJob
  <2> QED BY <2>2, <2>3, GivenStays, StillShrink, WorldRests
<1>4. CASE Compare
  <2>1. UNCHANGED <<worldVars, shr>> /\ job' = IF hunt.strategy = Len(Strategies) THEN [job EXCEPT !.stage = "done"] ELSE job
    BY <1>4 DEF Compare
  <2>2. UNCHANGED <<tape, planVars>> /\ shr' = shr BY <2>1, Zenon DEF worldVars
  <2>3. SameJob BY <2>1 DEF Given, JobFields, SameJob
  <2> QED BY <2>2, <2>3, GivenStays, StillShrink, WorldRests
<1> QED BY <1>1, <1>2, <1>3, <1>4 DEF SearchStep

-----------------------------------------------------------------------------
(* What the tools keep *)

CampaignOK == WorldOK /\ Given /\ ShrOK

LEMMA CampaignStep ==
  ASSUME CampaignOK, [CampaignNext]_searchVars
  PROVE  CampaignOK' /\ (InTime => InTime')
<1> USE DEF CampaignOK
<1>1. CASE WorldStep /\ UNCHANGED <<shr, job, hunt>>
  <2>1. SameJob BY <1>1 DEF Given, JobFields, SameJob
  <2> QED BY <1>1, <2>1, WorldMoves, GivenStays, StillShrink
<1>2. CASE ExperimentStep
  BY <1>2, GenerateSeedMoves, GeneratedMoves, ReplayFirstMoves, RepliedMoves, ShrinkingMoves, StillShrink
     DEF ExperimentStep
<1>3. CASE SearchStep BY <1>3, SearchMoves
<1>4. CASE UNCHANGED searchVars
  <2>1. UNCHANGED <<tape, planVars>> /\ job' = job /\ shr' = shr
    BY <1>4 DEF searchVars, experimentVars, worldVars
  <2>2. SameJob BY <2>1 DEF Given, JobFields, SameJob
  <2> QED BY <2>1, <2>2, GivenStays, StillShrink, WorldRests
<1> QED BY <1>1, <1>2, <1>3, <1>4 DEF CampaignNext, Progress, Finished

LEMMA CampaignStart == CampaignInit => CampaignOK /\ InTime
<1> SUFFICES ASSUME CampaignInit PROVE CampaignOK /\ InTime OBVIOUS
<1>1. TapeType(tape) BY StartedTape DEF CampaignInit
<1>2. IsSeq(<<>>) BY SeqIs, EmptySeq
<1>3. /\ live = <<>> /\ plans = <<>> /\ pending = <<>> /\ asking = 1 /\ emitted = <<>> /\ shr = NoShrink
  BY DEF CampaignInit
<1>4. Offering = {} BY <1>3 DEF Offering
<1>5. DOMAIN <<>> = {} OBVIOUS
<1>6. PlansOK BY <1>2, <1>3, <1>4, <1>5 DEF PlansOK, ListedOnce
<1>7. Merged
  BY <1>3, <1>4, <1>5 DEF Merged, EmittedFirst, OfferedFirst, AllAsked, Unspent, EmittedInOrder
<1>8. ShrOK BY <1>3 DEF ShrOK
<1>9. Given
  <2>1. PICK j \in Jobs \union Hunts : job = j BY DEF CampaignInit
  <2>2. j = Job(j.tool, j.case, j.budget) \/ j = [Job("search", j.case, j.budget) EXCEPT !.stage = "search"]
    BY <2>1, JobsOK, HuntsOK
  <2>3. JobFields /\ job.first = NoRun BY <2>1, <2>2 DEF JobFields, Job
  <2>4. job.first.log \in Seq(Nat) BY <2>3, EmptySeq DEF NoRun
  <2> QED BY <2>1, <2>3, <2>4 DEF Given
<1> QED BY <1>1, <1>6, <1>7, <1>8, <1>9 DEF CampaignOK, WorldOK, InTime

\* The tape, the plans and the shrinker stay well formed, whichever tool runs.
THEOREM ToolsKeepState == CampaignSpec => [](CampaignOK /\ InTime)
<1>1. CampaignOK /\ InTime /\ [CampaignNext]_searchVars => (CampaignOK /\ InTime)'
  BY CampaignStep
<1> QED BY <1>1, CampaignStart, PTL DEF CampaignSpec

\* Every partition that is scheduled divides the nodes that are up into two groups, for
\* every draw and every number of nodes (RandomPartition::next_action).
THEOREM PartitionsDivide == CampaignSpec => []PartitionsSplit
<1>1. CampaignOK => PartitionsSplit
  BY DEF CampaignOK, WorldOK, PlansOK, OfferOK, Divides, PartitionsSplit
<1> QED BY <1>1, ToolsKeepState, PTL

\* A composite of plans in order emits in order, however many there are and whatever
\* their times (Composite::next_action).
THEOREM CompositeInOrder == ASSUME ScriptsInOrder PROVE CampaignSpec => []EmittedInOrder
<1>1. InTime => EmittedInOrder BY DEF InTime, Merged
<1> QED BY <1>1, ToolsKeepState, PTL

\* The kept indices pick the minimised tape out of the original, whatever was cut and
\* undone and wherever the budget ended (ShrinkReport).
THEOREM KeptStaysInStep == CampaignSpec => []KeptDescribesMinimized
<1>1. ASSUME CampaignOK, Shrinking
      PROVE  /\ shr.current = [k \in DOMAIN shr.kept |-> shr.original[shr.kept[k]]]
             /\ \A i, j \in DOMAIN shr.kept : i < j => shr.kept[i] < shr.kept[j]
  <2>1. shr # NoShrink BY <1>1, IdleShrink
  <2>2. ShrType /\ KeptIs(shr.original, shr.current, shr.kept) BY <1>1, <2>1 DEF CampaignOK, ShrOK
  <2>3. shr.current \in Seq(Nat) /\ shr.kept \in Seq(Nat) BY <2>2 DEF ShrType
  <2>4. DOMAIN shr.kept = 1 .. Len(shr.kept) BY <2>3, LenProperties
  <2>5. shr.current \in [1 .. Len(shr.kept) -> Nat] BY <2>2, <2>3, LenProperties DEF KeptIs
  <2>6. shr.current = [k \in 1 .. Len(shr.kept) |-> shr.original[shr.kept[k]]]
    BY <2>2, <2>5 DEF KeptIs
  <2> QED BY <2>2, <2>4, <2>6 DEF KeptIs
<1>2. CampaignOK => KeptDescribesMinimized BY <1>1 DEF KeptDescribesMinimized
<1> QED BY <1>2, ToolsKeepState, PTL

\* Unless the budget ran out, no draw of a minimised tape could be cut alone: both
\* shrinkers end with a pass that tried it (shrink_tape_with_config).
THEOREM MinimizedIsNeeded == CampaignSpec => []EveryKeptWasNeeded
<1>1. ASSUME CampaignOK, Shrinking, shr.phase = "over", shr.reproduced, Budgeted
      PROVE  ToSet(shr.kept) \subseteq shr.refused
  <2>1. shr # NoShrink BY <1>1, IdleShrink
  <2>2. ShrType /\ TriedSoFar BY <1>1, <2>1 DEF CampaignOK, ShrOK
  <2>3. DOMAIN shr.kept = 1 .. Len(shr.kept) BY <2>2, LenProperties DEF ShrType
  <2> QED BY <1>1, <2>2, <2>3 DEF TriedSoFar, ToSet
<1>2. CampaignOK => EveryKeptWasNeeded BY <1>1 DEF EveryKeptWasNeeded
<1> QED BY <1>2, ToolsKeepState, PTL

-----------------------------------------------------------------------------
(* The world as a function of the tape it reads *)

\* A tape that may go on to read L: a replay of L, or a generating tape that drew
\* the beginning of L.
Fits(t, L) ==
  IF t.replaying THEN t.input = L
  ELSE Len(t.log) <= Len(L) /\ \A k \in 1 .. Len(t.log) : t.log[k] = L[k]

\* The same tape, reading L.
ReadFrom(t, L) == [replaying |-> TRUE, input |-> L, log |-> t.log, labels |-> t.labels]

Reads(t, label) ==
  [value |-> Replayed(t),
   tape  |-> [replaying |-> t.replaying, input |-> t.input, log |-> Append(t.log, Replayed(t)),
              labels |-> Append(t.labels, label)]]
Skips(t) == [value |-> 100, tape |-> t]
MayDraw(c, t, label) == IF c THEN Draw(t, label) ELSE Undrawn(t)
MayRead(c, t, label) == IF c THEN Reads(t, label) ELSE Skips(t)

\* What Spent, Split and Offer say of the nodes that are up.
SpentIn(nodes, p) ==
  \/ p.kind = "scripted" /\ p.actions = <<>>
  \/ p.kind = "link" /\ (p.used \/ p.candidates = <<>>)
  \/ p.kind = "partition" /\ (p.remaining = 0 \/ Len(nodes) < 2)
OfferIn(nodes, p, v) ==
  LET pivot == 1 + (v % (Len(nodes) - 1))
  IN  CASE p.kind = "scripted" -> Head(p.actions)
        [] p.kind = "link" -> [time |-> p.at, action |-> <<"link", p.candidates[1 + (v % Len(p.candidates))]>>]
        [] p.kind = "partition" ->
             [time |-> p.next_at,
              action |-> <<"partition", <<SubSeq(nodes, 1, pivot), SubSeq(nodes, pivot + 1, Len(nodes))>>>>]

\* What the rest of a run depends on.
State(t, nodes, children, offers, turn, done, conf, phase, arrivals, fates) ==
  [tape |-> t, live |-> nodes, plans |-> children, pending |-> offers, asking |-> turn,
   emitted |-> done, conf |-> conf, phase |-> phase, arrivals |-> arrivals, fates |-> fates]

\* The current run, if it reads L, and one that starts.
View(L) ==
  State(ReadFrom(tape, L), live, plans, pending, asking, emitted,
        world.conf, world.phase, world.arrivals, world.fates)
Start(conf, L) ==
  State(Replaying(L), conf.live, conf.plans, [i \in DOMAIN conf.plans |-> <<>>], 1, <<>>,
        conf, "plan", <<>>, <<>>)

OffersOf(s) == {i \in DOMAIN s.pending : s.pending[i] # <<>>}
AllPlanned(s) == Len(s.emitted) = MaxActions \/ (s.asking > Len(s.plans) /\ OffersOf(s) = {})
Earliest(s) ==
  CHOOSE i \in OffersOf(s) : \A j \in OffersOf(s) :
    \/ s.pending[i][1].time < s.pending[j][1].time
    \/ s.pending[i][1].time = s.pending[j][1].time /\ i <= j

AfterAsk(s) ==
  LET p == s.plans[s.asking]
      d == MayRead(p.kind # "scripted", s.tape, "partition")
  IN  IF s.asking \in OffersOf(s) \/ SpentIn(s.live, p)
      THEN State(s.tape, s.live, s.plans, s.pending, s.asking + 1, s.emitted,
                 s.conf, s.phase, s.arrivals, s.fates)
      ELSE State(d.tape, s.live, [s.plans EXCEPT ![s.asking] = Left(p)],
                 [s.pending EXCEPT ![s.asking] = <<OfferIn(s.live, p, d.value)>>], s.asking + 1, s.emitted,
                 s.conf, s.phase, s.arrivals, s.fates)
AfterEmit(s) ==
  LET i == Earliest(s)
      e == s.pending[i][1]
  IN  State(s.tape, s.live, s.plans, [s.pending EXCEPT ![i] = <<>>], 1,
            Append(s.emitted, [plan |-> i, time |-> e.time, action |-> e.action]),
            s.conf, s.phase, s.arrivals, s.fates)
AfterSend(s) ==
  LET c == s.conf
      d == Reads(s.tape, "net-delay")
      x == MayRead(c.extra > 0, d.tape, "extra-delay")
      u == MayRead(c.duplicate > 0, x.tape, "duplicate-decision")
      g == MayRead(Fires(u, c.duplicate), u.tape, "extra-delay")
      at == 1 + (d.value % 100) + (x.value % (c.extra + 1))
  IN  State(g.tape, s.live, s.plans, s.pending, s.asking, s.emitted, s.conf, "deliver",
            <<at>> \o IF Fires(u, c.duplicate) THEN <<at + 1 + (g.value % 10)>> ELSE <<>>, s.fates)
AfterDeliver(s) ==
  LET d == MayRead(s.conf.drop > 0, s.tape, "drop-decision")
  IN  State(d.tape, s.live, s.plans, s.pending, s.asking, s.emitted, s.conf, s.phase, s.arrivals,
            Append(s.fates, IF Fires(d, s.conf.drop) THEN "dropped" ELSE "delivered"))
Enters(s, phase) ==
  State(s.tape, s.live, s.plans, s.pending, s.asking, s.emitted, s.conf, phase, s.arrivals, s.fates)

\* The step the world takes next.
After(s) ==
  CASE s.phase = "plan" ->
         IF AllPlanned(s) THEN Enters(s, "send")
         ELSE IF s.asking <= Len(s.plans) THEN AfterAsk(s) ELSE AfterEmit(s)
    [] s.phase = "send" -> AfterSend(s)
    [] s.phase = "deliver" ->
         IF Len(s.fates) = Len(s.arrivals) THEN Enters(s, "over") ELSE AfterDeliver(s)

WorldFields ==
  /\ world \in [conf : {world.conf}, phase : {world.phase}, arrivals : {world.arrivals},
                fates : {world.fates}, calm : {world.calm}]
  /\ Len(world.arrivals) \in Nat

\* A draw is what a replay of any tape that begins like this one reads.
LEMMA DrawAlike ==
  ASSUME NEW t, TapeType(t), NEW label, NEW c \in BOOLEAN, NEW L \in Seq(Nat),
         NEW d \in MayDraw(c, t, label), Fits(d.tape, L)
  PROVE  /\ Fits(t, L) /\ TapeType(d.tape)
         /\ MayRead(c, ReadFrom(t, L), label) = [value |-> d.value, tape |-> ReadFrom(d.tape, L)]
         /\ d.tape.replaying = t.replaying /\ d.tape.input = t.input
<1>1. TapeType(d.tape)
  <2>1. d \in Draw(t, label) \union Undrawn(t) BY DEF MayDraw
  <2> QED BY <2>1, DrawIs
<1>2. CASE ~c BY <1>1, <1>2 DEF MayDraw, MayRead, Skips, Undrawn
<1>3. CASE c
  <2>1. PICK v \in (IF t.replaying THEN {Replayed(t)} ELSE Draws) :
          d = [value |-> v, tape |-> [t EXCEPT !.log = Append(@, v), !.labels = Append(@, label)]]
    BY <1>3 DEF MayDraw, Draw
  <2>2. /\ d.value = v /\ d.tape.log = Append(t.log, v) /\ d.tape.labels = Append(t.labels, label)
        /\ d.tape.replaying = t.replaying /\ d.tape.input = t.input
    BY <2>1 DEF TapeType
  <2> DEFINE r == ReadFrom(t, L)
  <2>3. r.replaying = TRUE /\ r.input = L /\ r.log = t.log /\ r.labels = t.labels
    BY DEF ReadFrom
  <2>4. v \in Nat /\ t.log \in Seq(Nat) /\ t.replaying \in BOOLEAN /\ Len(t.log) \in Nat /\ Len(L) \in Nat
    <3>1. Replayed(t) \in Nat BY DEF Replayed, TapeType
    <3>2. v \in Nat BY <2>1, <3>1, DrawsOK
    <3> QED BY <3>2, LenProperties DEF TapeType
  <2>5. Replayed(r) = v /\ Fits(t, L)
    <3>1. CASE t.replaying
      <4>1. v = Replayed(t) /\ t.input = L BY <2>1, <2>2, <3>1 DEF Fits
      <4>2. Replayed(r) = Replayed(t) BY <2>3, <4>1 DEF Replayed
      <4> QED BY <3>1, <4>1, <4>2 DEF Fits
    <3>2. CASE ~t.replaying
      <4> DEFINE n == Len(t.log)
                 l == Append(t.log, v)
      <4>1. Len(l) = n + 1 /\ l[n + 1] = v /\ \A k \in 1 .. n : l[k] = t.log[k]
        BY <2>4, AppendProperties
      <4>2. Len(l) <= Len(L) /\ \A k \in 1 .. Len(l) : l[k] = L[k]
        BY <2>2, <3>2 DEF Fits
      <4> HIDE DEF n, l
      <4>3. n \in Nat BY <2>4 DEF n
      <4>4. n < Len(L) /\ L[n + 1] = v /\ \A k \in 1 .. n : t.log[k] = L[k]
        BY <2>4, <4>1, <4>2, <4>3
      <4>5. Replayed(r) = L[n + 1] BY <2>3, <4>4 DEF Replayed, n
      <4>6. Len(t.log) <= Len(L) BY <2>4, <4>4 DEF n
      <4> QED BY <3>2, <4>4, <4>5, <4>6 DEF Fits, n
    <3> QED BY <3>1, <3>2
  <2> HIDE DEF r
  <2>6. Reads(r, label) = [value |-> v, tape |-> ReadFrom(d.tape, L)]
    BY <2>2, <2>3, <2>5 DEF Reads, ReadFrom
  <2> QED BY <1>1, <1>3, <2>2, <2>5, <2>6 DEF MayRead, r
<1> QED BY <1>2, <1>3

LEMMA ViewIs ==
  ASSUME NEW L
  PROVE  /\ View(L).tape = ReadFrom(tape, L) /\ View(L).live = live /\ View(L).plans = plans
         /\ View(L).pending = pending /\ View(L).asking = asking /\ View(L).emitted = emitted
         /\ View(L).conf = world.conf /\ View(L).phase = world.phase
         /\ View(L).arrivals = world.arrivals /\ View(L).fates = world.fates
         /\ OffersOf(View(L)) = Offering /\ (AllPlanned(View(L)) <=> Planned)
<1>1. /\ View(L).tape = ReadFrom(tape, L) /\ View(L).live = live /\ View(L).plans = plans
      /\ View(L).pending = pending /\ View(L).asking = asking /\ View(L).emitted = emitted
      /\ View(L).conf = world.conf /\ View(L).phase = world.phase
      /\ View(L).arrivals = world.arrivals /\ View(L).fates = world.fates
  BY DEF View, State
<1>2. OffersOf(View(L)) = Offering BY <1>1 DEF OffersOf, Offering
<1> QED BY <1>1, <1>2 DEF AllPlanned, Planned

LEMMA NodesAre ==
  /\ \A p : Spent(p) <=> SpentIn(live, p)
  /\ \A p, v : Offer(p, v) = OfferIn(live, p, v)
<1>1. \A p : Spent(p) <=> SpentIn(live, p) BY DEF Spent, SpentIn
<1>2. \A p, v : Offer(p, v) = OfferIn(live, p, v) BY DEF Offer, OfferIn, Split
<1> QED BY <1>1, <1>2

\* The child with the earliest offer is the only one.
LEMMA EarliestIs ==
  ASSUME PlansOK, NEW i \in Offering, \A j \in Offering : GoesBefore(i, j), NEW L
  PROVE  Earliest(View(L)) = i
<1> DEFINE s == View(L)
           first(k) == \A j \in OffersOf(s) :
                         \/ s.pending[k][1].time < s.pending[j][1].time
                         \/ s.pending[k][1].time = s.pending[j][1].time /\ k <= j
<1>1. s.pending = pending /\ OffersOf(s) = Offering BY ViewIs
<1> HIDE DEF s
<1>2. \A j \in Offering : pending[j][1].time \in Nat /\ j \in Nat
  BY LenProperties DEF PlansOK, OfferOK, IsSeq, Offering
<1>3. first(i) BY <1>1 DEF GoesBefore
<1>4. ASSUME NEW k \in Offering, first(k) PROVE k = i
  <2>1. \/ pending[k][1].time < pending[i][1].time
        \/ pending[k][1].time = pending[i][1].time /\ k <= i
    BY <1>1, <1>4
  <2>2. \/ pending[i][1].time < pending[k][1].time
        \/ pending[i][1].time = pending[k][1].time /\ i <= k
    BY DEF GoesBefore
  <2> QED BY <1>2, <2>1, <2>2
<1>5. Earliest(s) = CHOOSE k \in Offering : first(k) BY <1>1 DEF Earliest
<1> HIDE DEF first
<1>6. Earliest(s) = i BY <1>3, <1>4, <1>5
<1> QED BY <1>6 DEF s

\* What a step shows of the run that goes on.
Alike(L) ==
  /\ Fits(tape, L) /\ View(L)' = After(View(L)) /\ world.phase # "over"
  /\ tape'.replaying = tape.replaying /\ tape'.input = tape.input

LEMMA AskAlike ==
  ASSUME WorldOK, world.phase = "plan", Ask, UNCHANGED world, NEW L \in Seq(Nat), Fits(tape', L)
  PROVE  Alike(L)
<1> DEFINE p == plans[asking]
<1>1. ~Planned /\ asking <= Len(plans) /\ asking' = asking + 1 /\ live' = live /\ emitted' = emitted
  BY DEF Ask
<1>2. PICK s : s = View(L) OBVIOUS
<1>3. /\ s.tape = ReadFrom(tape, L) /\ s.live = live /\ s.plans = plans /\ s.pending = pending
      /\ s.asking = asking /\ s.emitted = emitted /\ s.conf = world.conf /\ s.phase = "plan"
      /\ s.arrivals = world.arrivals /\ s.fates = world.fates
      /\ OffersOf(s) = Offering /\ ~AllPlanned(s)
  BY <1>1, <1>2, ViewIs
<1>4. After(s) = AfterAsk(s) BY <1>1, <1>3 DEF After
<1>5. SpentIn(live, p) <=> Spent(p) BY NodesAre
<1>6. CASE UNCHANGED <<tape, plans, pending>> /\ (asking \in Offering \/ Spent(p))
  <2>1. AfterAsk(s) = State(s.tape, s.live, s.plans, s.pending, s.asking + 1, s.emitted,
                            s.conf, s.phase, s.arrivals, s.fates)
    BY <1>3, <1>5, <1>6 DEF AfterAsk
  <2>2. View(L)' = State(ReadFrom(tape, L), live, plans, pending, asking + 1, emitted,
                         world.conf, world.phase, world.arrivals, world.fates)
    BY <1>1, <1>6 DEF View
  <2>3. View(L)' = After(s) BY <1>3, <1>4, <2>1, <2>2
  <2>4. tape' = tape BY <1>6
  <2> QED BY <1>2, <2>3, <2>4 DEF Alike
<1>7. CASE ~(asking \in Offering \/ Spent(p))
  <2>1. PICK d \in (IF p.kind = "scripted" THEN Undrawn(tape) ELSE Draw(tape, "partition")) :
          /\ tape' = d.tape /\ plans' = [plans EXCEPT ![asking] = Left(p)]
          /\ pending' = [pending EXCEPT ![asking] = <<Offer(p, d.value)>>]
    BY <1>7 DEF Ask
  <2>2. PICK c \in BOOLEAN : c = (p.kind # "scripted") OBVIOUS
  <2>3. d \in MayDraw(c, tape, "partition") BY <2>1, <2>2 DEF MayDraw
  <2>4. /\ Fits(tape, L) /\ MayRead(c, ReadFrom(tape, L), "partition") = [value |-> d.value, tape |-> ReadFrom(d.tape, L)]
        /\ d.tape.replaying = tape.replaying /\ d.tape.input = tape.input
    <3>1. Fits(d.tape, L) /\ TapeType(tape) BY <2>1 DEF WorldOK
    <3> QED BY <2>3, <3>1, DrawAlike
  <2>5. PICK r : r = MayRead(p.kind # "scripted", s.tape, "partition") OBVIOUS
  <2>6. r.value = d.value /\ r.tape = ReadFrom(d.tape, L) BY <1>3, <2>2, <2>4, <2>5
  <2>7. AfterAsk(s) = State(r.tape, s.live, [s.plans EXCEPT ![s.asking] = Left(p)],
                            [s.pending EXCEPT ![s.asking] = <<OfferIn(s.live, p, r.value)>>], s.asking + 1,
                            s.emitted, s.conf, s.phase, s.arrivals, s.fates)
    BY <1>3, <1>5, <1>7, <2>5 DEF AfterAsk
  <2>8. OfferIn(live, p, d.value) = Offer(p, d.value) BY NodesAre
  <2>9. View(L)' = State(ReadFrom(d.tape, L), live, [plans EXCEPT ![asking] = Left(p)],
                         [pending EXCEPT ![asking] = <<Offer(p, d.value)>>], asking + 1, emitted,
                         world.conf, world.phase, world.arrivals, world.fates)
    BY <1>1, <2>1 DEF View
  <2>10. View(L)' = After(s) BY <1>3, <1>4, <2>6, <2>7, <2>8, <2>9
  <2> QED BY <1>2, <2>1, <2>4, <2>10 DEF Alike
<1> QED BY <1>6, <1>7 DEF Ask

LEMMA EmitAlike ==
  ASSUME WorldOK, world.phase = "plan", Emit, UNCHANGED world, NEW L \in Seq(Nat), Fits(tape', L)
  PROVE  Alike(L)
<1>1. /\ ~Planned /\ asking > Len(plans) /\ asking' = 1
      /\ tape' = tape /\ live' = live /\ plans' = plans
  BY DEF Emit
<1>2. PICK i \in Offering :
        /\ \A j \in Offering : GoesBefore(i, j)
        /\ emitted' = Append(emitted, [plan |-> i, time |-> pending[i][1].time,
                                       action |-> pending[i][1].action])
        /\ pending' = [pending EXCEPT ![i] = <<>>]
  BY DEF Emit
<1>3. PICK s : s = View(L) OBVIOUS
<1>4. /\ s.tape = ReadFrom(tape, L) /\ s.live = live /\ s.plans = plans /\ s.pending = pending
      /\ s.asking = asking /\ s.emitted = emitted /\ s.conf = world.conf /\ s.phase = "plan"
      /\ s.arrivals = world.arrivals /\ s.fates = world.fates /\ ~AllPlanned(s)
  BY <1>1, <1>3, ViewIs
<1>5. Earliest(s) = i BY <1>2, <1>3, EarliestIs DEF WorldOK
<1>6. ~(asking <= Len(plans))
  <2>1. asking \in Nat /\ Len(plans) \in Nat BY LenProperties DEF WorldOK, PlansOK, IsSeq
  <2> QED BY <1>1, <2>1
<1>7. After(s) = AfterEmit(s) BY <1>4, <1>6 DEF After
<1>8. AfterEmit(s) =
        State(s.tape, s.live, s.plans, [s.pending EXCEPT ![i] = <<>>], 1,
              Append(s.emitted, [plan |-> i, time |-> s.pending[i][1].time, action |-> s.pending[i][1].action]),
              s.conf, s.phase, s.arrivals, s.fates)
  BY <1>5 DEF AfterEmit
<1>9. View(L)' = After(s) BY <1>1, <1>2, <1>4, <1>7, <1>8 DEF View
<1> QED BY <1>1, <1>3, <1>4, <1>9 DEF Alike

LEMMA DrawTyped ==
  ASSUME NEW t, TapeType(t), NEW c, NEW label, NEW d \in MayDraw(c, t, label)
  PROVE  TapeType(d.tape)
<1>1. d \in Draw(t, label) \union Undrawn(t) BY DEF MayDraw
<1> QED BY <1>1, DrawIs

LEMMA SendAlike ==
  ASSUME TapeType(tape), WorldFields, Send, NEW L \in Seq(Nat), Fits(tape', L)
  PROVE  Alike(L) /\ WorldFields'
<1> DEFINE c == world.conf
           at(d, x) == 1 + (d.value % 100) + (x.value % (c.extra + 1))
           sent(d, x, u, g) == <<at(d, x)>> \o IF Fires(u, c.duplicate)
                                               THEN <<at(d, x) + 1 + (g.value % 10)>> ELSE <<>>
           Sent(d, x, u, g) ==
             /\ tape' = g.tape
             /\ world' = [world EXCEPT !.phase = "deliver", !.calm = Calmly(u, c.duplicate),
                            !.arrivals = sent(d, x, u, g)]
<1>1. world.phase = "send" /\ UNCHANGED planVars BY DEF Send
<1>2. \E d \in MayDraw(TRUE, tape, "net-delay") : \E x \in MayDraw(c.extra > 0, d.tape, "extra-delay") :
      \E u \in MayDraw(c.duplicate > 0, x.tape, "duplicate-decision") :
      \E g \in MayDraw(Fires(u, c.duplicate), u.tape, "extra-delay") : Sent(d, x, u, g)
  BY Zenon DEF Send, DrawPercent, MayDraw
<1> HIDE DEF Sent
<1>3. PICK d \in MayDraw(TRUE, tape, "net-delay") : \E x \in MayDraw(c.extra > 0, d.tape, "extra-delay") :
        \E u \in MayDraw(c.duplicate > 0, x.tape, "duplicate-decision") :
        \E g \in MayDraw(Fires(u, c.duplicate), u.tape, "extra-delay") : Sent(d, x, u, g)
  BY <1>2
<1>4. PICK x \in MayDraw(c.extra > 0, d.tape, "extra-delay") :
        \E u \in MayDraw(c.duplicate > 0, x.tape, "duplicate-decision") :
        \E g \in MayDraw(Fires(u, c.duplicate), u.tape, "extra-delay") : Sent(d, x, u, g)
  BY <1>3
<1>5. PICK u \in MayDraw(c.duplicate > 0, x.tape, "duplicate-decision") :
        \E g \in MayDraw(Fires(u, c.duplicate), u.tape, "extra-delay") : Sent(d, x, u, g)
  BY <1>4
<1>6. PICK g \in MayDraw(Fires(u, c.duplicate), u.tape, "extra-delay") : Sent(d, x, u, g) BY <1>5
<1>7. TapeType(d.tape) BY DrawTyped
<1>8. TapeType(x.tape) BY <1>7, DrawTyped
<1>9. TapeType(u.tape) BY <1>8, DrawTyped
<1>10. tape' = g.tape BY <1>6 DEF Sent
<1>11. world' = [world EXCEPT !.phase = "deliver", !.calm = Calmly(u, c.duplicate), !.arrivals = sent(d, x, u, g)]
  BY <1>6 DEF Sent
<1>12. PICK delay, extra, duplicate, e, f, h :
         /\ delay = "net-delay" /\ extra = "extra-delay" /\ duplicate = "duplicate-decision"
         /\ e = (c.extra > 0) /\ f = (c.duplicate > 0) /\ h = Fires(u, c.duplicate)
  OBVIOUS
<1>13. e \in BOOLEAN /\ f \in BOOLEAN /\ h \in BOOLEAN BY <1>12 DEF Fires
<1>14. Fits(g.tape, L) BY <1>10
<1>15. /\ Fits(u.tape, L) /\ MayRead(h, ReadFrom(u.tape, L), extra) = [value |-> g.value, tape |-> ReadFrom(g.tape, L)]
       /\ g.tape.replaying = u.tape.replaying /\ g.tape.input = u.tape.input
  <2>1. g \in MayDraw(h, u.tape, extra) BY <1>12
  <2> QED BY <1>9, <1>13, <1>14, <2>1, DrawAlike
<1>16. /\ Fits(x.tape, L) /\ MayRead(f, ReadFrom(x.tape, L), duplicate) = [value |-> u.value, tape |-> ReadFrom(u.tape, L)]
       /\ u.tape.replaying = x.tape.replaying /\ u.tape.input = x.tape.input
  <2>1. u \in MayDraw(f, x.tape, duplicate) BY <1>12
  <2> QED BY <1>8, <1>13, <1>15, <2>1, DrawAlike
<1>17. /\ Fits(d.tape, L) /\ MayRead(e, ReadFrom(d.tape, L), extra) = [value |-> x.value, tape |-> ReadFrom(x.tape, L)]
       /\ x.tape.replaying = d.tape.replaying /\ x.tape.input = d.tape.input
  <2>1. x \in MayDraw(e, d.tape, extra) BY <1>12
  <2> QED BY <1>7, <1>13, <1>16, <2>1, DrawAlike
<1>18. /\ Fits(tape, L) /\ Reads(ReadFrom(tape, L), delay) = [value |-> d.value, tape |-> ReadFrom(d.tape, L)]
       /\ d.tape.replaying = tape.replaying /\ d.tape.input = tape.input
  <2>1. PICK b \in BOOLEAN : b = TRUE OBVIOUS
  <2>2. d \in MayDraw(b, tape, delay) BY <1>12, <2>1
  <2>3. /\ Fits(tape, L) /\ MayRead(b, ReadFrom(tape, L), delay) = [value |-> d.value, tape |-> ReadFrom(d.tape, L)]
        /\ d.tape.replaying = tape.replaying /\ d.tape.input = tape.input
    BY <1>17, <2>2, DrawAlike
  <2> QED BY <2>1, <2>3 DEF MayRead
<1>19. PICK s : s = View(L) OBVIOUS
<1>20. /\ s.tape = ReadFrom(tape, L) /\ s.live = live /\ s.plans = plans /\ s.pending = pending
       /\ s.asking = asking /\ s.emitted = emitted /\ s.conf = c /\ s.phase = "send"
       /\ s.arrivals = world.arrivals /\ s.fates = world.fates
  BY <1>1, <1>19, ViewIs
<1>21. After(s) = AfterSend(s) BY <1>20 DEF After
<1>22. AfterSend(s) = State(ReadFrom(g.tape, L), live, plans, pending, asking, emitted, c, "deliver",
                            sent(d, x, u, g), world.fates)
  <2> DEFINE rd == Reads(s.tape, "net-delay")
             rx == MayRead(c.extra > 0, rd.tape, "extra-delay")
             ru == MayRead(c.duplicate > 0, rx.tape, "duplicate-decision")
             rg == MayRead(Fires(ru, c.duplicate), ru.tape, "extra-delay")
  <2>1. rd.value = d.value /\ rd.tape = ReadFrom(d.tape, L) BY <1>12, <1>18, <1>20
  <2>2. rx.value = x.value /\ rx.tape = ReadFrom(x.tape, L)
    <3>1. rx = MayRead(e, ReadFrom(d.tape, L), extra) BY <1>12, <2>1
    <3> HIDE DEF rx
    <3> QED BY <1>17, <3>1
  <2>3. ru.value = u.value /\ ru.tape = ReadFrom(u.tape, L)
    <3>1. ru = MayRead(f, ReadFrom(x.tape, L), duplicate) BY <1>12, <2>2
    <3> HIDE DEF ru
    <3> QED BY <1>16, <3>1
  <2>4. Fires(ru, c.duplicate) = Fires(u, c.duplicate) BY <2>3 DEF Fires
  <2>5. rg.value = g.value /\ rg.tape = ReadFrom(g.tape, L)
    <3>1. rg = MayRead(h, ReadFrom(u.tape, L), extra) BY <1>12, <2>3, <2>4
    <3> HIDE DEF rg
    <3> QED BY <1>15, <3>1
  <2> HIDE DEF rd, rx, ru, rg
  <2>6. AfterSend(s) = State(rg.tape, s.live, s.plans, s.pending, s.asking, s.emitted, c, "deliver",
                             sent(rd, rx, ru, rg), s.fates)
    BY <1>20 DEF AfterSend, rd, rx, ru, rg
  <2>7. sent(rd, rx, ru, rg) = sent(d, x, u, g) BY <2>1, <2>2, <2>3, <2>4, <2>5
  <2> QED BY <1>20, <2>5, <2>6, <2>7
<1>23. Len(sent(d, x, u, g)) \in Nat
  <2>1. CASE Fires(u, c.duplicate)
    <3>1. PICK a, b : a = at(d, x) /\ b = at(d, x) + 1 + (g.value % 10) OBVIOUS
    <3>2. <<a>> \in Seq({a, b}) /\ <<b>> \in Seq({a, b}) /\ Len(<<a>>) = 1 /\ Len(<<b>>) = 1 OBVIOUS
    <3>3. Len(<<a>> \o <<b>>) = 2 BY <3>2, ConcatProperties
    <3>4. sent(d, x, u, g) = <<a>> \o <<b>> BY <2>1, <3>1
    <3> QED BY <3>3, <3>4
  <2>2. CASE ~Fires(u, c.duplicate)
    <3>1. sent(d, x, u, g) = <<at(d, x)>> BY <2>2
    <3> QED BY <3>1
  <2> QED BY <2>1, <2>2
<1> HIDE DEF sent
<1>24. /\ world'.conf = c /\ world'.phase = "deliver" /\ world'.arrivals = sent(d, x, u, g)
       /\ world'.fates = world.fates /\ WorldFields'
  BY <1>11, <1>23 DEF WorldFields
<1>25. View(L)' = State(ReadFrom(g.tape, L), live, plans, pending, asking, emitted, c, "deliver",
                        sent(d, x, u, g), world.fates)
  BY <1>1, <1>10, <1>24 DEF View, planVars
<1>26. View(L)' = After(View(L)) BY <1>19, <1>21, <1>22, <1>25
<1>27. tape'.replaying = tape.replaying /\ tape'.input = tape.input BY <1>10, <1>15, <1>16, <1>17, <1>18
<1> QED BY <1>1, <1>18, <1>24, <1>26, <1>27 DEF Alike

LEMMA DeliverAlike ==
  ASSUME TapeType(tape), WorldFields, Deliver, NEW L \in Seq(Nat), Fits(tape', L)
  PROVE  Alike(L) /\ WorldFields'
<1>1. /\ world.phase = "deliver" /\ Len(world.fates) < Len(world.arrivals) /\ UNCHANGED planVars
  BY DEF Deliver
<1>2. PICK c, label, drop : c = (world.conf.drop > 0) /\ label = "drop-decision" /\ drop = world.conf.drop OBVIOUS
<1>3. c \in BOOLEAN BY <1>2
<1>4. PICK d \in MayDraw(c, tape, label) :
        /\ tape' = d.tape
        /\ world' = [world EXCEPT !.calm = @ /\ Calmly(d, drop),
                       !.fates = Append(@, IF Fires(d, drop) THEN "dropped" ELSE "delivered")]
  BY <1>2, Zenon DEF Deliver, DrawPercent, MayDraw
<1>5. Fits(d.tape, L) BY <1>4
<1>6. /\ Fits(tape, L) /\ MayRead(c, ReadFrom(tape, L), label) = [value |-> d.value, tape |-> ReadFrom(d.tape, L)]
      /\ d.tape.replaying = tape.replaying /\ d.tape.input = tape.input
  BY <1>3, <1>5, DrawAlike
<1>7. PICK fates : fates = Append(world.fates, IF Fires(d, drop) THEN "dropped" ELSE "delivered") OBVIOUS
<1>8. PICK calm : calm = (world.calm /\ Calmly(d, drop)) OBVIOUS
<1>9. world' = [world EXCEPT !.calm = calm, !.fates = fates] BY <1>4, <1>7, <1>8
<1>10. /\ world'.conf = world.conf /\ world'.phase = "deliver" /\ world'.arrivals = world.arrivals
       /\ world'.fates = fates /\ WorldFields'
  BY <1>1, <1>9 DEF WorldFields
<1>11. PICK s : s = View(L) OBVIOUS
<1>12. /\ s.tape = ReadFrom(tape, L) /\ s.live = live /\ s.plans = plans /\ s.pending = pending
       /\ s.asking = asking /\ s.emitted = emitted /\ s.conf = world.conf /\ s.phase = "deliver"
       /\ s.arrivals = world.arrivals /\ s.fates = world.fates
  BY <1>1, <1>11, ViewIs
<1>13. Len(s.fates) # Len(s.arrivals) BY <1>1, <1>12 DEF WorldFields
<1>14. After(s) = AfterDeliver(s) BY <1>12, <1>13 DEF After
<1>15. PICK r : r = MayRead(s.conf.drop > 0, s.tape, "drop-decision") OBVIOUS
<1>16. r.value = d.value /\ r.tape = ReadFrom(d.tape, L)
  <2>1. r = MayRead(c, ReadFrom(tape, L), label) BY <1>2, <1>12, <1>15
  <2> QED BY <1>6, <2>1
<1>17. Fires(r, drop) = Fires(d, drop) BY <1>16 DEF Fires
<1>18. AfterDeliver(s) = State(ReadFrom(d.tape, L), live, plans, pending, asking, emitted,
                               world.conf, "deliver", world.arrivals, fates)
  BY <1>2, <1>7, <1>12, <1>15, <1>16, <1>17 DEF AfterDeliver
<1>19. View(L)' = State(ReadFrom(d.tape, L), live, plans, pending, asking, emitted,
                        world.conf, "deliver", world.arrivals, fates)
  BY <1>1, <1>4, <1>10 DEF View, planVars
<1>20. View(L)' = After(View(L)) BY <1>11, <1>14, <1>18, <1>19
<1> QED BY <1>1, <1>4, <1>6, <1>10, <1>20 DEF Alike

\* The world goes on without a draw.
LEMMA EntersAlike ==
  ASSUME WorldFields, UNCHANGED <<tape, planVars>>, NEW phase, world' = [world EXCEPT !.phase = phase],
         NEW L \in Seq(Nat), Fits(tape', L), After(View(L)) = Enters(View(L), phase), world.phase # "over"
  PROVE  Alike(L) /\ WorldFields'
<1>1. /\ world'.conf = world.conf /\ world'.phase = phase /\ world'.arrivals = world.arrivals
      /\ world'.fates = world.fates /\ WorldFields'
  BY DEF WorldFields
<1>2. View(L)' = Enters(View(L), phase)
  <2>1. View(L)' = State(ReadFrom(tape, L), live, plans, pending, asking, emitted,
                         world.conf, phase, world.arrivals, world.fates)
    BY <1>1 DEF View, planVars
  <2> QED BY <2>1, ViewIs DEF Enters
<1> QED BY <1>1, <1>2 DEF Alike

\* Every step of the world is the one that follows where it stands, on any tape that
\* fits what it draws.
LEMMA WorldAlike ==
  ASSUME WorldOK, WorldFields, WorldStep, NEW L \in Seq(Nat), Fits(tape', L)
  PROVE  Alike(L) /\ WorldFields'
<1>1. CASE Plan
  <2>1. world.phase = "plan" BY <1>1 DEF Plan
  <2>2. CASE (Ask \/ Emit) /\ UNCHANGED world
    <3>1. WorldFields' BY <2>2 DEF WorldFields
    <3> QED BY <2>1, <2>2, <3>1, AskAlike, EmitAlike
  <2>3. CASE Planned /\ world' = [world EXCEPT !.phase = "send"] /\ UNCHANGED <<tape, planVars>>
    <3>1. PICK phase : phase = "send" OBVIOUS
    <3>2. After(View(L)) = Enters(View(L), phase) BY <2>1, <2>3, <3>1, ViewIs DEF After
    <3>3. world.phase # "over" /\ world' = [world EXCEPT !.phase = phase] BY <2>1, <2>3, <3>1
    <3> QED BY <2>3, <3>2, <3>3, EntersAlike
  <2> QED BY <1>1, <2>2, <2>3 DEF Plan
<1>2. CASE Send BY <1>2, SendAlike DEF WorldOK
<1>3. CASE Deliver BY <1>3, DeliverAlike DEF WorldOK
<1>4. CASE Quiesce
  <2>1. /\ world.phase = "deliver" /\ Len(world.fates) = Len(world.arrivals)
        /\ world' = [world EXCEPT !.phase = "over"] /\ UNCHANGED <<tape, planVars>>
    BY <1>4 DEF Quiesce
  <2>2. PICK phase : phase = "over" OBVIOUS
  <2>3. After(View(L)) = Enters(View(L), phase) BY <2>1, <2>2, ViewIs DEF After
  <2>4. world.phase # "over" /\ world' = [world EXCEPT !.phase = phase] BY <2>1, <2>2
  <2> QED BY <2>1, <2>3, <2>4, EntersAlike
<1> QED BY <1>1, <1>2, <1>3, <1>4 DEF WorldStep

-----------------------------------------------------------------------------
(* Runs to their end *)

\* `run' goes from s to t, and ends nowhere before.
Leads(run, n, s, t) ==
  /\ run[1] = s /\ run[n] = t
  /\ \A i \in 1 .. n - 1 : run[i].phase # "over" /\ run[i + 1] = After(run[i])
Reaches(s, t) == \E n \in Nat \ {0} : \E run : Leads(run, n, s, t)

\* A run of a world that reads L and ends with this report.
Ends(conf, L, report) ==
  \E t : /\ Reaches(Start(conf, L), t) /\ t.phase = "over"
         /\ report = [log |-> t.tape.log, labels |-> t.tape.labels, trace |-> <<t.emitted, t.arrivals, t.fates>>]

LEMMA ReachesSelf == \A s : Reaches(s, s)
<1> SUFFICES ASSUME NEW s PROVE Reaches(s, s) OBVIOUS
<1>1. PICK run : run = [i \in {1} |-> s] OBVIOUS
<1>2. Leads(run, 1, s, s) BY <1>1 DEF Leads
<1> QED BY <1>2 DEF Reaches

LEMMA ReachesNext ==
  ASSUME NEW s, NEW t, Reaches(s, t), t.phase # "over"
  PROVE  Reaches(s, After(t))
<1>0. PICK n \in Nat \ {0} : \E run : Leads(run, n, s, t) BY DEF Reaches
<1>1. PICK run : Leads(run, n, s, t) BY <1>0
<1>2. PICK u : u = After(t) OBVIOUS
<1>3. PICK more : more = [i \in 1 .. n + 1 |-> IF i = n + 1 THEN u ELSE run[i]] OBVIOUS
<1>4. \A i \in 1 .. n : more[i] = run[i] BY <1>3
<1>5. more[n + 1] = u BY <1>3
<1>6. ASSUME NEW i \in 1 .. n PROVE more[i].phase # "over" /\ more[i + 1] = After(more[i])
  <2>1. CASE i = n BY <1>1, <1>2, <1>4, <1>5, <2>1 DEF Leads
  <2>2. CASE i # n
    <3>1. i \in 1 .. n - 1 /\ i + 1 \in 1 .. n BY <2>2
    <3> QED BY <1>1, <1>4, <3>1 DEF Leads
  <2> QED BY <2>1, <2>2
<1>7. more[1] = s BY <1>1, <1>4 DEF Leads
<1>8. Leads(more, n + 1, s, u) BY <1>5, <1>6, <1>7 DEF Leads
<1> QED BY <1>2, <1>8 DEF Reaches

\* Two runs that start alike are alike as far as both go.
LEMMA RunsAlike ==
  ASSUME NEW s, NEW t, NEW u, NEW m \in Nat \ {0}, NEW n \in Nat \ {0}, m <= n,
         NEW a, NEW b, Leads(a, m, s, t), Leads(b, n, s, u)
  PROVE  \A i \in 1 .. m : a[i] = b[i]
<1> DEFINE T == {i \in 1 .. m : a[i] # b[i]}
<1>1. SUFFICES ASSUME T # {} PROVE FALSE OBVIOUS
<1>2. T \in SUBSET Nat OBVIOUS
<1>3. PICK i \in T : \A j \in T : i <= j BY <1>1, <1>2, Least
<1>4. i \in 1 .. m /\ a[i] # b[i] BY <1>3
<1>5. i # 1 BY <1>4 DEF Leads
<1>6. i - 1 \in 1 .. m - 1 /\ i - 1 \in 1 .. n - 1 /\ i - 1 + 1 = i BY <1>4, <1>5
<1>7. a[i - 1] = b[i - 1]
  <2>1. i - 1 \notin T BY <1>3, <1>6
  <2> QED BY <1>6, <2>1
<1>8. a[i] = After(a[i - 1]) /\ b[i] = After(b[i - 1]) BY <1>6 DEF Leads
<1> QED BY <1>4, <1>7, <1>8

LEMMA OneEnd ==
  ASSUME NEW s, NEW t, NEW u, Reaches(s, t), Reaches(s, u), t.phase = "over", u.phase = "over"
  PROVE  t = u
<1>1. ASSUME NEW m \in Nat \ {0}, NEW n \in Nat \ {0}, m <= n, NEW v, NEW w, NEW a, NEW b,
             Leads(a, m, s, v), Leads(b, n, s, w), v.phase = "over"
      PROVE  v = w
  <2>1. a[m] = b[m] BY <1>1, RunsAlike
  <2>2. a[m] = v /\ b[n] = w BY <1>1 DEF Leads
  <2>3. ~(m \in 1 .. n - 1) BY <1>1, <2>1, <2>2 DEF Leads
  <2>4. m = n BY <1>1, <2>3
  <2> QED BY <2>1, <2>2, <2>4
<1>2. PICK m \in Nat \ {0} : \E a : Leads(a, m, s, t) BY DEF Reaches
<1>3. PICK a : Leads(a, m, s, t) BY <1>2
<1>4. PICK n \in Nat \ {0} : \E b : Leads(b, n, s, u) BY DEF Reaches
<1>5. PICK b : Leads(b, n, s, u) BY <1>4
<1>6. CASE m <= n BY <1>1, <1>3, <1>5, <1>6
<1>7. CASE n <= m BY <1>1, <1>3, <1>5, <1>7
<1> QED BY <1>6, <1>7

\* A tape decides how the run that reads it ends.
LEMMA EndsAlike ==
  ASSUME NEW conf, NEW L, NEW a, NEW b, Ends(conf, L, a), Ends(conf, L, b) PROVE a = b
BY OneEnd DEF Ends

\* Where a run of the world stands, whatever tape it goes on to read.
Follows(conf) == \A L \in Seq(Nat) : Fits(tape, L) => Reaches(Start(conf, L), View(L))

LEMMA TapesAre ==
  /\ Generating = [replaying |-> FALSE, input |-> <<>>, log |-> <<>>, labels |-> <<>>]
  /\ \A L : Replaying(L) = [replaying |-> TRUE, input |-> L, log |-> <<>>, labels |-> <<>>]
<1>1. PICK t : t = [replaying |-> FALSE, input |-> <<>>, log |-> <<>>, labels |-> <<>>] OBVIOUS
<1>2. Generating = t BY <1>1 DEF Generating
<1>3. ASSUME NEW L PROVE Replaying(L) = [replaying |-> TRUE, input |-> L, log |-> <<>>, labels |-> <<>>]
  <2>1. Replaying(L) = [t EXCEPT !.replaying = TRUE, !.input = L] BY <1>2 DEF Replaying
  <2>2. PICK u : u = [t EXCEPT !.replaying = TRUE] OBVIOUS
  <2>3. u = [replaying |-> TRUE, input |-> <<>>, log |-> <<>>, labels |-> <<>>] BY <1>1, <2>2
  <2>4. [t EXCEPT !.replaying = TRUE, !.input = L] = [u EXCEPT !.input = L] BY <2>2
  <2> QED BY <2>1, <2>3, <2>4
<1> QED BY <1>1, <1>2, <1>3

LEMMA StartFollows ==
  ASSUME NEW conf, NEW t, StartWorld(conf, t), NEW input, t = Generating \/ t = Replaying(input)
  PROVE  /\ Follows(conf)' /\ WorldFields' /\ world'.phase = "plan"
         /\ t = Generating => ~tape'.replaying
         /\ t = Replaying(input) => tape'.replaying /\ tape'.input = input
<1>1. tape' = t /\ NewPlans(conf.live, conf.plans) /\ world' = [Idle EXCEPT !.conf = conf, !.phase = "plan"]
  BY DEF StartWorld
<1>2. world' = [conf |-> conf, phase |-> "plan", arrivals |-> <<>>, fates |-> <<>>, calm |-> TRUE]
  BY <1>1 DEF Idle
<1>3. WorldFields' /\ world'.phase = "plan"
  <2>1. Len(<<>>) \in Nat OBVIOUS
  <2> QED BY <1>2, <2>1 DEF WorldFields
<1>4. t.log = <<>> /\ t.labels = <<>> BY TapesAre
<1>5. ASSUME NEW L PROVE View(L)' = Start(conf, L)
  <2>1. ReadFrom(t, L) = Replaying(L)
    <3>1. ReadFrom(t, L) = [replaying |-> TRUE, input |-> L, log |-> <<>>, labels |-> <<>>]
      BY <1>4 DEF ReadFrom
    <3> QED BY <3>1, TapesAre
  <2>2. View(L)' = State(ReadFrom(t, L), conf.live, conf.plans, [i \in DOMAIN conf.plans |-> <<>>], 1, <<>>,
                         conf, "plan", <<>>, <<>>)
    <3>1. /\ tape' = t /\ live' = conf.live /\ plans' = conf.plans /\ asking' = 1 /\ emitted' = <<>>
          /\ pending' = [i \in DOMAIN conf.plans |-> <<>>]
      BY <1>1 DEF NewPlans
    <3>2. world'.conf = conf /\ world'.phase = "plan" /\ world'.arrivals = <<>> /\ world'.fates = <<>>
      BY <1>2
    <3> QED BY <3>1, <3>2 DEF View
  <2> QED BY <2>1, <2>2 DEF Start
<1>6. Follows(conf)' BY <1>5, ReachesSelf DEF Follows
<1> QED BY <1>1, <1>3, <1>6, TapesAre

LEMMA FollowsOn ==
  ASSUME WorldOK, WorldFields, WorldStep, NEW conf, Follows(conf)
  PROVE  Follows(conf)'
<1> SUFFICES ASSUME NEW L \in Seq(Nat), Fits(tape', L) PROVE Reaches(Start(conf, L), View(L)')
  BY DEF Follows
<1>1. Alike(L) BY WorldAlike
<1>2. Reaches(Start(conf, L), View(L)) BY <1>1 DEF Alike, Follows
<1>3. View(L).phase # "over" BY <1>1, ViewIs DEF Alike
<1>4. Reaches(Start(conf, L), After(View(L))) BY <1>2, <1>3, ReachesNext
<1> QED BY <1>1, <1>4 DEF Alike

\* A run of the world that is over ends as its tape says.
LEMMA FollowsToEnd ==
  ASSUME WorldOK, NEW conf, Follows(conf), Over
  PROVE  /\ tape.replaying => Ends(conf, tape.input, Report)
         /\ ~tape.replaying => Ends(conf, tape.log, Report)
<1>1. ASSUME NEW L \in Seq(Nat), Fits(tape, L) PROVE Ends(conf, L, Report)
  <2>1. Reaches(Start(conf, L), View(L)) BY <1>1 DEF Follows
  <2>2. PICK t : t = View(L) OBVIOUS
  <2>3. /\ t.phase = "over" /\ t.tape = ReadFrom(tape, L)
        /\ t.emitted = emitted /\ t.arrivals = world.arrivals /\ t.fates = world.fates
    BY <2>2, ViewIs DEF Over
  <2>4. t.tape.log = tape.log /\ t.tape.labels = tape.labels BY <2>3 DEF ReadFrom
  <2>5. Report = [log |-> t.tape.log, labels |-> t.tape.labels, trace |-> <<t.emitted, t.arrivals, t.fates>>]
    BY <2>3, <2>4 DEF Report
  <2> QED BY <2>1, <2>2, <2>3, <2>5 DEF Ends
<1>2. tape.input \in Seq(Nat) /\ tape.log \in Seq(Nat) BY DEF WorldOK, TapeType
<1>3. tape.replaying => Fits(tape, tape.input) BY DEF Fits
<1>4. ~tape.replaying => Fits(tape, tape.log)
  <2>1. Len(tape.log) \in Nat BY <1>2, LenProperties
  <2> QED BY <2>1 DEF Fits
<1> QED BY <1>1, <1>2, <1>3, <1>4

-----------------------------------------------------------------------------
(* The tools and what they replay *)

Replays == {"replaying", "trying", "minimized"}
Shrinkage == {"shrinking", "trying", "minimized"}
InShrink == job.stage \in Shrinkage

ToolOK ==
  /\ job.failures \in Nat /\ job.seed \in Nat
  /\ job.tool = "signature" => Faithful /\ job.budget.seed_count = 1
  /\ job.tool \in {"experiment", "artifact", "signature", "search"}
  /\ IF job.tool = "search"
     THEN job.stage \in {"search", "done"} /\ job.failures = 0 /\ job.result = "none" /\ job.replay = <<>>
     ELSE job.stage \in {"seeds", "generating", "done"} \union Replays \union Shrinkage

\* The world runs as the tool has started it, and rests in between.
RunOK ==
  /\ WorldFields
  /\ job.stage = "generating" => ~tape.replaying /\ Follows(job.case.generate)
  /\ job.stage \in Replays => tape.replaying /\ Follows(job.case.replay)
  /\ job.stage = "replaying" => tape.input = job.first.log
  /\ job.stage = "trying" => tape.input = Candidate
  /\ job.stage = "minimized" => tape.input = shr.current
  /\ job.stage \in {"seeds", "shrinking"} \/ job.result = "recalled" => world.phase \in {"idle", "over"}

\* There is a run to replay, and it is the first that failed.
HasFirst == job.failures > 0 \/ (job.tool = "signature" /\ job.seed > 0)
FirstOK ==
  /\ HasFirst => Ends(job.case.generate, job.first.log, job.first)
  /\ job.failures > 0 => job.target = Oracle(job.first) /\ job.target # "none"
  /\ job.tool = "signature" =>
       IF job.seed = 0 THEN job.failures = 0 /\ job.stage \in {"seeds", "generating"}
       ELSE job.seed = 1 /\ job.stage # "generating" /\ (job.failures > 0 \/ Oracle(job.first) = "none")
  /\ job.stage = "replaying" => HasFirst
  /\ InShrink => job.failures > 0

\* What is left of the tape fails as the first run did, if the original does.
ShrunkOK ==
  InShrink =>
    /\ shr # NoShrink /\ shr.original = job.first.log
    /\ shr.phase = "original" => shr.current = shr.original
    /\ shr.phase # "original" /\ shr.reproduced =>
         \E report : Ends(job.case.replay, shr.current, report) /\ Oracle(report) = job.target
    /\ Faithful /\ shr.phase # "original" => shr.reproduced
    /\ job.stage = "trying" => Tries
    /\ job.stage = "minimized" => shr.phase = "over"

Recalled ==
  /\ job.stage = "done" /\ Faithful /\ job.failures > 0 => job.result = "recalled"
  /\ job.result = "recalled" =>
       job.stage = "done" /\ job.failures > 0 /\ Oracle(Report) = Oracle(job.first)

ReplayOK == ToolOK /\ RunOK /\ FirstOK /\ ShrunkOK /\ ReplayIsIdentical /\ Recalled

LEMMA TapeKeeps ==
  ASSUME WorldOK, WorldFields, WorldStep
  PROVE  tape'.replaying = tape.replaying /\ tape'.input = tape.input /\ WorldFields'
<1>1. TapeType(tape') BY WorldMoves DEF WorldOK
<1>2. PICK L : L = IF tape'.replaying THEN tape'.input ELSE tape'.log OBVIOUS
<1>3. L \in Seq(Nat) BY <1>1, <1>2 DEF TapeType
<1>4. Fits(tape', L)
  <2>1. Len(tape'.log) \in Nat BY <1>1, LenProperties DEF TapeType
  <2> QED BY <1>2, <2>1 DEF Fits
<1> QED BY <1>3, <1>4, WorldAlike DEF Alike

LEMMA SameShrink ==
  ASSUME UNCHANGED shr
  PROVE  (Tries' <=> Tries) /\ Candidate' = Candidate
<1>1. InTier' = InTier /\ Budgeted' = Budgeted BY DEF InTier, Budgeted
<1>2. NextCut' = NextCut BY <1>1 DEF NextCut
<1> QED BY <1>1, <1>2 DEF Tries, Candidate

LEMMA SameShrunk ==
  ASSUME ShrunkOK, UNCHANGED shr, job'.stage \in Shrinkage => InShrink,
         job'.first = job.first, job'.case = job.case, job'.target = job.target,
         job'.stage = "trying" => Tries, job'.stage = "minimized" => shr.phase = "over"
  PROVE  ShrunkOK'
BY SameShrink DEF ShrunkOK, InShrink, Faithful

\* The world takes a step while the tool waits for its report.
LEMMA WorldKeeps ==
  ASSUME CampaignOK, ReplayOK, WorldStep, UNCHANGED <<shr, job>>
  PROVE  ReplayOK'
<1>1. WorldOK /\ WorldFields BY DEF CampaignOK, ReplayOK, RunOK
<1>2. world.phase \notin {"idle", "over"} BY DEF WorldStep, Plan, Send, Deliver, Quiesce
<1>3. tape'.replaying = tape.replaying /\ tape'.input = tape.input /\ WorldFields' BY <1>1, TapeKeeps
<1>4. job'.stage \notin {"seeds", "shrinking"} /\ job'.result # "recalled" BY <1>2 DEF ReplayOK, RunOK
<1>5. ToolOK' BY DEF ReplayOK, ToolOK, Faithful
<1>6. FirstOK' BY DEF ReplayOK, FirstOK, HasFirst, InShrink
<1>7. ShrunkOK' BY SameShrunk DEF ReplayOK, ShrunkOK, InShrink
<1>8. RunOK'
  <2>1. ASSUME job.stage = "generating" PROVE Follows(job.case.generate)'
    <3>1. PICK conf : conf = job.case.generate OBVIOUS
    <3>2. Follows(conf) BY <2>1, <3>1 DEF ReplayOK, RunOK
    <3>3. Follows(conf)' BY <1>1, <3>2, FollowsOn
    <3> QED BY <3>1, <3>3 DEF Follows
  <2>2. ASSUME job.stage \in Replays PROVE Follows(job.case.replay)'
    <3>1. PICK conf : conf = job.case.replay OBVIOUS
    <3>2. Follows(conf) BY <2>2, <3>1 DEF ReplayOK, RunOK
    <3>3. Follows(conf)' BY <1>1, <3>2, FollowsOn
    <3> QED BY <3>1, <3>3 DEF Follows
  <2>3. Candidate' = Candidate BY SameShrink
  <2> QED BY <1>3, <1>4, <2>1, <2>2, <2>3 DEF ReplayOK, RunOK
<1>9. Recalled' BY <1>4 DEF ReplayOK, Recalled, Faithful
<1>10. ReplayIsIdentical' BY DEF ReplayOK, ReplayIsIdentical, Faithful
<1> QED BY <1>5, <1>6, <1>7, <1>8, <1>9, <1>10 DEF ReplayOK

\* The tool starts the world.
LEMMA GenerateSeedKeeps ==
  ASSUME CampaignOK, ReplayOK, GenerateSeed
  PROVE  ReplayOK'
<1>1. /\ job.stage = "seeds" /\ job.seed < job.budget.seed_count
      /\ StartWorld(job.case.generate, Generating) /\ job' = [job EXCEPT !.stage = "generating"] /\ UNCHANGED shr
  BY DEF GenerateSeed, Call
<1>2. /\ job'.stage = "generating" /\ job'.tool = job.tool /\ job'.case = job.case /\ job'.budget = job.budget
      /\ job'.seed = job.seed /\ job'.failures = job.failures /\ job'.first = job.first
      /\ job'.target = job.target /\ job'.replay = job.replay /\ job'.result = job.result
  BY <1>1 DEF CampaignOK, Given, JobFields
<1>3. PICK conf : conf = job.case.generate OBVIOUS
<1>4. Follows(conf)' /\ WorldFields' /\ ~tape'.replaying BY <1>1, <1>3, StartFollows
<1>5. ToolOK' BY <1>1, <1>2 DEF ReplayOK, ToolOK, Faithful, Shrinkage, Replays
<1>6. job.result # "recalled" BY <1>1 DEF ReplayOK, Recalled
<1>7. RunOK' BY <1>2, <1>3, <1>4, <1>6 DEF RunOK, Follows, Replays
<1>8. FirstOK'
  <2>1. job.tool = "signature" => job.seed = 0 BY <1>1 DEF ReplayOK, ToolOK, FirstOK
  <2> QED BY <1>2, <2>1 DEF ReplayOK, FirstOK, HasFirst, InShrink, Shrinkage
<1>9. ShrunkOK' BY <1>2 DEF ShrunkOK, InShrink, Shrinkage
<1>10. Recalled' BY <1>2, <1>6 DEF Recalled
<1>11. ReplayIsIdentical' BY <1>2 DEF ReplayOK, ReplayIsIdentical, Faithful
<1> QED BY <1>5, <1>7, <1>8, <1>9, <1>10, <1>11 DEF ReplayOK

\* What a replay that starts leaves alone.
LEMMA CallReplayKeeps ==
  ASSUME CampaignOK, ReplayOK, NEW stage \in Replays, NEW log, CallReplay(stage, log), UNCHANGED shr,
         job.stage \in {"seeds", "shrinking"}, job.tool # "search",
         stage = "replaying" => log = job.first.log /\ HasFirst,
         stage = "trying" => log = Candidate, stage = "minimized" => log = shr.current,
         stage # "replaying" => job.stage = "shrinking",
         stage = "trying" => Tries, stage = "minimized" => shr.phase = "over"
  PROVE  ReplayOK'
<1>1. StartWorld(job.case.replay, Replaying(log)) /\ job' = [job EXCEPT !.stage = stage]
  BY DEF CallReplay, Call
<1>2. /\ job'.stage = stage /\ job'.tool = job.tool /\ job'.case = job.case /\ job'.budget = job.budget
      /\ job'.seed = job.seed /\ job'.failures = job.failures /\ job'.first = job.first
      /\ job'.target = job.target /\ job'.replay = job.replay /\ job'.result = job.result
  BY <1>1 DEF CampaignOK, Given, JobFields
<1>3. PICK conf : conf = job.case.replay OBVIOUS
<1>4. Follows(conf)' /\ WorldFields' /\ tape'.replaying /\ tape'.input = log BY <1>1, <1>3, StartFollows
<1>5. ToolOK' BY <1>2 DEF ReplayOK, ToolOK, Faithful, Shrinkage, Replays
<1>6. job.result # "recalled" BY DEF ReplayOK, Recalled
<1>7. RunOK'
  <2>1. Candidate' = Candidate BY SameShrink
  <2> QED BY <1>2, <1>3, <1>4, <1>6, <2>1 DEF RunOK, Follows, Replays
<1>8. InShrink => job.failures > 0 BY DEF ReplayOK, FirstOK
<1>9. FirstOK'
  <2>1. job.tool = "signature" /\ job.seed = 0 => job.stage = "seeds" /\ ~HasFirst
    BY DEF ReplayOK, FirstOK, HasFirst, ToolOK
  <2>2. job'.tool = "signature" => job.seed # 0 BY <1>2, <2>1 DEF Replays
  <2> QED BY <1>2, <1>8, <2>2 DEF ReplayOK, FirstOK, HasFirst, InShrink, Shrinkage, Replays
<1>10. ShrunkOK'
  <2>1. stage \in Shrinkage => InShrink BY DEF InShrink, Shrinkage, Replays
  <2> QED BY <1>2, <2>1, SameShrunk DEF ReplayOK
<1>11. Recalled' BY <1>2, <1>6 DEF Recalled, Replays
<1>12. ReplayIsIdentical' BY <1>2 DEF ReplayOK, ReplayIsIdentical, Faithful
<1> QED BY <1>5, <1>7, <1>9, <1>10, <1>11, <1>12 DEF ReplayOK

LEMMA GeneratedKeeps ==
  ASSUME CampaignOK, ReplayOK, Generated
  PROVE  ReplayOK'
<1> DEFINE fails == Oracle(Report) # "none"
           first == fails /\ job.failures = 0
           f == IF first \/ job.tool = "signature" THEN Report ELSE job.first
           g == IF fails THEN job.failures + 1 ELSE job.failures
           h == IF first THEN Oracle(Report) ELSE job.target
<1>1. /\ job.stage = "generating" /\ Over
      /\ job' = [job EXCEPT !.stage = "seeds", !.seed = @ + 1, !.failures = g, !.first = f, !.target = h]
      /\ UNCHANGED <<worldVars, shr>>
  BY DEF Generated
<1> HIDE DEF f, g, h
<1>2. /\ job'.stage = "seeds" /\ job'.tool = job.tool /\ job'.case = job.case /\ job'.budget = job.budget
      /\ job'.seed = job.seed + 1 /\ job'.failures = g /\ job'.first = f
      /\ job'.target = h /\ job'.replay = job.replay /\ job'.result = job.result
  BY <1>1 DEF CampaignOK, Given, JobFields
<1>3. UNCHANGED <<tape, live, plans, pending, asking, emitted, world>>
  BY <1>1 DEF worldVars, planVars
<1>4. job.failures \in Nat /\ job.seed \in Nat /\ job.tool # "search" BY <1>1 DEF ReplayOK, ToolOK
<1>5. job.tool = "signature" => job.seed = 0 /\ job.failures = 0 BY <1>1 DEF ReplayOK, FirstOK
<1>6. Ends(job.case.generate, Report.log, Report)
  <2>1. PICK conf : conf = job.case.generate OBVIOUS
  <2>2. Follows(conf) /\ ~tape.replaying BY <1>1, <2>1 DEF ReplayOK, RunOK
  <2>3. Report.log = tape.log BY DEF Report
  <2>4. WorldOK BY DEF CampaignOK
  <2>5. Ends(conf, tape.log, Report) BY <1>1, <2>2, <2>4, FollowsToEnd
  <2> QED BY <2>1, <2>3, <2>5
<1>7. g \in Nat /\ (g > 0 <=> fails \/ job.failures > 0) BY <1>4 DEF g
<1>8. ToolOK' BY <1>1, <1>2, <1>4, <1>7 DEF ReplayOK, ToolOK, Faithful
<1>9. job.result # "recalled" BY <1>1 DEF ReplayOK, Recalled
<1>10. RunOK'
  <2>1. WorldFields' /\ world'.phase = "over" BY <1>1, <1>3 DEF ReplayOK, RunOK, WorldFields, Over
  <2> QED BY <1>2, <2>1 DEF RunOK, Replays
<1>11. FirstOK'
  <2>1. HasFirst' <=> fails \/ job.failures > 0 \/ job.tool = "signature"
    BY <1>2, <1>4, <1>7 DEF HasFirst
  <2>2. CASE first \/ job.tool = "signature"
    <3>1. f = Report BY <2>2 DEF f
    <3>2. HasFirst' => Ends(job'.case.generate, job'.first.log, job'.first) BY <1>2, <1>6, <3>1
    <3>3. g > 0 => h = Oracle(Report) /\ h # "none" BY <1>4, <1>5, <1>7, <2>2 DEF h
    <3>4. g > 0 \/ Oracle(Report) = "none" BY <1>7
    <3> QED BY <1>2, <1>5, <3>1, <3>2, <3>3, <3>4 DEF FirstOK, InShrink, Shrinkage
  <2>3. CASE ~(first \/ job.tool = "signature")
    <3>1. f = job.first /\ h = job.target /\ (g > 0 => job.failures > 0)
      BY <1>4, <1>7, <2>3 DEF f, h
    <3>2. HasFirst' => HasFirst BY <1>4, <2>1, <2>3 DEF HasFirst
    <3> QED BY <1>2, <2>3, <3>1, <3>2 DEF ReplayOK, FirstOK, InShrink, Shrinkage
  <2> QED BY <2>2, <2>3
<1>12. ShrunkOK' BY <1>2 DEF ShrunkOK, InShrink, Shrinkage
<1>13. Recalled' BY <1>2, <1>9 DEF Recalled
<1>14. ReplayIsIdentical' BY <1>2 DEF ReplayOK, ReplayIsIdentical, Faithful
<1> QED BY <1>8, <1>10, <1>11, <1>12, <1>13, <1>14 DEF ReplayOK

\* The tool is done, and leaves the world as it is.
LEMMA ConcludeKeeps ==
  ASSUME CampaignOK, ReplayOK, NEW result, Conclude(result), UNCHANGED <<worldVars, shr>>, job.tool # "search",
         job.stage \in {"seeds", "minimized"}, job.tool = "signature" => job.seed # 0,
         Faithful /\ job.failures > 0 => result = "recalled",
         result = "recalled" => job.failures > 0 /\ Oracle(Report) = Oracle(job.first) /\ Over
  PROVE  ReplayOK'
<1>1. job' = [job EXCEPT !.stage = "done", !.result = result] BY DEF Conclude
<1>2. /\ job'.stage = "done" /\ job'.tool = job.tool /\ job'.case = job.case /\ job'.budget = job.budget
      /\ job'.seed = job.seed /\ job'.failures = job.failures /\ job'.first = job.first
      /\ job'.target = job.target /\ job'.replay = job.replay /\ job'.result = result
  BY <1>1 DEF CampaignOK, Given, JobFields
<1>3. UNCHANGED <<tape, live, plans, pending, asking, emitted, world>>
  BY DEF worldVars, planVars
<1>4. ToolOK' BY <1>2 DEF ReplayOK, ToolOK, Faithful
<1>5. RunOK' BY <1>2, <1>3 DEF ReplayOK, RunOK, WorldFields, Replays, Over
<1>6. FirstOK' BY <1>2 DEF ReplayOK, FirstOK, HasFirst, InShrink, Shrinkage
<1>7. ShrunkOK' BY <1>2 DEF ShrunkOK, InShrink, Shrinkage
<1>8. Recalled'
  <2>1. Report' = Report BY <1>3 DEF Report
  <2>2. Faithful' = Faithful BY <1>2 DEF Faithful
  <2> QED BY <1>2, <2>1, <2>2 DEF Recalled
<1>9. ReplayIsIdentical' BY <1>2 DEF ReplayOK, ReplayIsIdentical, Faithful
<1> QED BY <1>4, <1>5, <1>6, <1>7, <1>8, <1>9 DEF ReplayOK

LEMMA ReplayFirstKeeps ==
  ASSUME CampaignOK, ReplayOK, ReplayFirst
  PROVE  ReplayOK'
<1>1. job.stage = "seeds" /\ job.seed = job.budget.seed_count /\ UNCHANGED shr BY DEF ReplayFirst
<1>2. job.tool # "search" /\ (job.tool = "signature" => job.seed = 1) /\ job.failures \in Nat
  BY <1>1 DEF ReplayOK, ToolOK
<1>3. CASE job.failures = 0 /\ job.tool # "signature"
  <2>1. PICK result : result = "not recalled" OBVIOUS
  <2>2. Conclude(result) /\ UNCHANGED worldVars BY <1>3, <2>1 DEF ReplayFirst
  <2>3. ~(job.failures > 0) /\ result # "recalled"
    <3>1. ~(job.failures > 0) BY <1>3
    <3>2. "not recalled" # "recalled" OBVIOUS
    <3> QED BY <2>1, <3>1, <3>2
  <2>4. job.stage \in {"seeds", "minimized"} /\ (job.tool = "signature" => job.seed # 0) BY <1>1, <1>2
  <2> QED BY <1>1, <1>2, <2>2, <2>3, <2>4, ConcludeKeeps
<1>4. CASE ~(job.failures = 0 /\ job.tool # "signature")
  <2>1. PICK stage, log : stage = "replaying" /\ log = job.first.log OBVIOUS
  <2>2. CallReplay(stage, log) BY <1>4, <2>1 DEF ReplayFirst
  <2>3. HasFirst BY <1>2, <1>4 DEF HasFirst
  <2> QED BY <1>1, <1>2, <2>1, <2>2, <2>3, CallReplayKeeps DEF Replays
<1> QED BY <1>3, <1>4

\* A faithful replay has ended as the first run did.
LEMMA RepliedIs ==
  ASSUME CampaignOK, ReplayOK, job.stage = "replaying", Over, Faithful
  PROVE  Report = job.first /\ Compared = [signature |-> TRUE, trace |-> TRUE, consumed |-> TRUE, exhausted |-> FALSE]
<1>1. PICK conf : conf = job.case.replay OBVIOUS
<1>2. Follows(conf) /\ tape.replaying /\ tape.input = job.first.log BY <1>1 DEF ReplayOK, RunOK, Replays
<1>3. WorldOK BY DEF CampaignOK
<1>4. Ends(conf, job.first.log, Report) BY <1>2, <1>3, FollowsToEnd
<1>5. Ends(conf, job.first.log, job.first) BY <1>1 DEF ReplayOK, FirstOK, Faithful
<1>6. Report = job.first BY <1>4, <1>5, EndsAlike
<1>7. tape.log = tape.input BY <1>2, <1>6 DEF Report
<1>8. Len(tape.log) \in Nat BY <1>3, LenProperties DEF WorldOK, TapeType
<1>9. ConsumedAll(tape) /\ ~Exhausted(tape) BY <1>7, <1>8 DEF ConsumedAll, Exhausted
<1>10. /\ (Oracle(Report) = Oracle(job.first)) = TRUE /\ (Report.trace = job.first.trace) = TRUE
       /\ ConsumedAll(tape) = TRUE /\ Exhausted(tape) = FALSE
  BY <1>6, <1>9 DEF ConsumedAll, Exhausted
<1> QED BY <1>6, <1>10, Zenon DEF Compared

LEMMA RepliedKeeps ==
  ASSUME CampaignOK, ReplayOK, Replied
  PROVE  ReplayOK'
<1>1. job.stage = "replaying" /\ Over /\ UNCHANGED worldVars BY DEF Replied
<1>2. UNCHANGED <<tape, live, plans, pending, asking, emitted, world>>
  BY <1>1 DEF worldVars, planVars
<1>3. HasFirst /\ job.result # "recalled" /\ job.failures \in Nat
  BY <1>1 DEF ReplayOK, FirstOK, Recalled, ToolOK
<1>4. job.tool \in {"experiment", "artifact", "signature"} /\ (job.tool = "signature" => Faithful)
  BY <1>1 DEF ReplayOK, ToolOK
<1>5. job.failures > 0 => job.target = Oracle(job.first) /\ job.target # "none" BY DEF ReplayOK, FirstOK
<1>6. job.tool = "signature" /\ Oracle(job.first) # "none" => job.failures > 0
  BY <1>3 DEF ReplayOK, FirstOK, HasFirst
<1>7. Faithful => Report = job.first /\ Compared = [signature |-> TRUE, trace |-> TRUE, consumed |-> TRUE, exhausted |-> FALSE]
  BY <1>1, RepliedIs
<1> DEFINE target == IF job.tool = "signature" THEN Classified ELSE job.target
           sound == CASE job.tool = "experiment" -> Compared.signature /\ Compared.trace
                      [] job.tool = "artifact" -> StillFails(Report)
                      [] job.tool = "signature" -> Classified # "none"
<1>8. IF sound
      THEN /\ job' = [job EXCEPT !.stage = "shrinking", !.target = target, !.replay = <<Compared>>]
           /\ shr' = StartShrink(job.first.log, IF job.case.labelled THEN job.first.labels ELSE <<>>, job.budget)
      ELSE /\ job' = [job EXCEPT !.stage = "done", !.replay = <<Compared>>, !.result = Otherwise]
           /\ UNCHANGED shr
  BY DEF Replied
<1>9. Faithful /\ job.failures > 0 => sound
  <2> SUFFICES ASSUME Faithful, job.failures > 0 PROVE sound OBVIOUS
  <2>1. CASE job.tool = "experiment" BY <1>7, <2>1
  <2>2. CASE job.tool = "artifact" BY <1>5, <1>7, <2>2 DEF StillFails
  <2>3. CASE job.tool = "signature" BY <1>5, <1>7, <2>3 DEF Classified
  <2> QED BY <1>4, <2>1, <2>2, <2>3
<1>10. sound => job.failures > 0 /\ target = job.target
  <2>1. job.tool # "signature" => job.failures > 0 BY <1>3 DEF HasFirst
  <2>2. CASE job.tool = "signature" /\ sound
    <3>1. Report = job.first /\ Classified # "none" BY <1>4, <1>7, <2>2
    <3>2. job.failures > 0 BY <1>6, <2>2, <3>1 DEF Classified
    <3> QED BY <1>5, <2>2, <3>1, <3>2 DEF Classified
  <2> QED BY <2>1, <2>2
<1> HIDE DEF target, sound
<1>11. PICK compared : compared = <<Compared>> OBVIOUS
<1>12. Faithful => compared # <<>> /\ compared[1] = [signature |-> TRUE, trace |-> TRUE, consumed |-> TRUE, exhausted |-> FALSE]
  BY <1>7, <1>11
<1>13. CASE sound
  <2>1. /\ job'.stage = "shrinking" /\ job'.tool = job.tool /\ job'.case = job.case /\ job'.budget = job.budget
        /\ job'.seed = job.seed /\ job'.failures = job.failures /\ job'.first = job.first
        /\ job'.target = job.target /\ job'.replay = compared /\ job'.result = job.result
    BY <1>8, <1>10, <1>11, <1>13 DEF CampaignOK, Given, JobFields
  <2>2. ToolOK' BY <1>1, <2>1 DEF ReplayOK, ToolOK, Faithful, Shrinkage, Replays
  <2>3. RunOK' BY <1>1, <1>2, <2>1 DEF ReplayOK, RunOK, WorldFields, Replays, Over
  <2>4. FirstOK' BY <1>1, <1>10, <1>13, <2>1 DEF ReplayOK, FirstOK, HasFirst, InShrink, Shrinkage
  <2>5. ShrunkOK'
    <3>1. shr'.original = job.first.log /\ shr'.current = job.first.log /\ shr'.phase = "original"
      BY <1>8, <1>13 DEF StartShrink
    <3>2. NoShrink.phase = "idle" BY DEF NoShrink
    <3>3. shr' # NoShrink BY <3>1, <3>2
    <3> QED BY <2>1, <3>1, <3>3 DEF ShrunkOK
  <2>6. Recalled' BY <1>3, <2>1 DEF Recalled
  <2>7. ReplayIsIdentical' BY <1>12, <2>1 DEF ReplayIsIdentical, Faithful
  <2> QED BY <2>2, <2>3, <2>4, <2>5, <2>6, <2>7 DEF ReplayOK
<1>14. CASE ~sound
  <2>1. Otherwise # "recalled" BY DEF Otherwise
  <2>2. PICK result : result = Otherwise OBVIOUS
  <2>3. /\ job'.stage = "done" /\ job'.tool = job.tool /\ job'.case = job.case /\ job'.budget = job.budget
        /\ job'.seed = job.seed /\ job'.failures = job.failures /\ job'.first = job.first
        /\ job'.target = job.target /\ job'.replay = compared /\ job'.result = result
    BY <1>8, <1>11, <1>14, <2>2 DEF CampaignOK, Given, JobFields
  <2>4. ToolOK' BY <1>1, <2>3 DEF ReplayOK, ToolOK, Faithful
  <2>5. RunOK' BY <1>2, <2>1, <2>2, <2>3 DEF ReplayOK, RunOK, WorldFields, Replays
  <2>6. FirstOK' BY <1>1, <2>3 DEF ReplayOK, FirstOK, HasFirst, InShrink, Shrinkage
  <2>7. ShrunkOK' BY <2>3 DEF ShrunkOK, InShrink, Shrinkage
  <2>8. Recalled' BY <1>9, <1>14, <2>1, <2>2, <2>3 DEF Recalled, Faithful
  <2>9. ReplayIsIdentical' BY <1>12, <2>3 DEF ReplayIsIdentical, Faithful
  <2> QED BY <2>4, <2>5, <2>6, <2>7, <2>8, <2>9 DEF ReplayOK
<1> QED BY <1>13, <1>14

LEMMA TryCandidateKeeps ==
  ASSUME CampaignOK, ReplayOK, TryCandidate
  PROVE  ReplayOK'
<1>1. job.stage = "shrinking" /\ Tries /\ CallReplay("trying", Candidate) /\ UNCHANGED shr BY DEF TryCandidate
<1>2. PICK stage, log : stage = "trying" /\ log = Candidate OBVIOUS
<1>3. job.tool # "search" BY <1>1 DEF ReplayOK, ToolOK
<1>4. CallReplay(stage, log) /\ stage \in Replays BY <1>1, <1>2 DEF Replays
<1> QED BY <1>1, <1>2, <1>3, <1>4, CallReplayKeeps

LEMMA ReplayMinimizedKeeps ==
  ASSUME CampaignOK, ReplayOK, ReplayMinimized
  PROVE  ReplayOK'
<1>1. job.stage = "shrinking" /\ shr.phase = "over" /\ CallReplay("minimized", shr.current) /\ UNCHANGED shr
  BY DEF ReplayMinimized
<1>2. PICK stage, log : stage = "minimized" /\ log = shr.current OBVIOUS
<1>3. job.tool # "search" BY <1>1 DEF ReplayOK, ToolOK
<1>4. CallReplay(stage, log) /\ stage \in Replays BY <1>1, <1>2 DEF Replays
<1> QED BY <1>1, <1>2, <1>3, <1>4, CallReplayKeeps

\* How a replay by the shrinker or of what it leaves has ended.
LEMMA ReplayEnds ==
  ASSUME CampaignOK, ReplayOK, job.stage \in Replays, Over
  PROVE  Ends(job.case.replay, tape.input, Report)
<1>1. PICK conf : conf = job.case.replay OBVIOUS
<1>2. Follows(conf) /\ tape.replaying BY <1>1 DEF ReplayOK, RunOK
<1>3. WorldOK BY DEF CampaignOK
<1> QED BY <1>1, <1>2, <1>3, FollowsToEnd

\* What shrinking is about does not change.
LEMMA ShrinkingKeeps ==
  ASSUME CampaignOK, ReplayOK, UNCHANGED worldVars, job' = [job EXCEPT !.stage = "shrinking"] \/ job' = job,
         job.stage = "shrinking" \/ (job.stage = "trying" /\ Over), job'.stage = "shrinking",
         shr' # NoShrink, shr'.original = shr.original,
         shr'.phase = "original" => shr'.current = shr'.original,
         shr'.phase # "original" /\ shr'.reproduced =>
           \E report : Ends(job.case.replay, shr'.current, report) /\ Oracle(report) = job.target,
         Faithful /\ shr'.phase # "original" => shr'.reproduced
  PROVE  ReplayOK'
<1>1. UNCHANGED <<tape, live, plans, pending, asking, emitted, world>> BY DEF worldVars, planVars
<1>2. /\ job'.tool = job.tool /\ job'.case = job.case /\ job'.budget = job.budget
      /\ job'.seed = job.seed /\ job'.failures = job.failures /\ job'.first = job.first
      /\ job'.target = job.target /\ job'.replay = job.replay /\ job'.result = job.result
  BY DEF CampaignOK, Given, JobFields
<1>3. InShrink /\ job.stage # "seeds" /\ job.result # "recalled" BY DEF InShrink, Shrinkage, ReplayOK, Recalled
<1>4. ToolOK' BY <1>2, <1>3 DEF ReplayOK, ToolOK, Faithful, Shrinkage, Replays
<1>5. RunOK' BY <1>1, <1>2 DEF ReplayOK, RunOK, WorldFields, Replays, Over
<1>6. FirstOK' BY <1>2, <1>3 DEF ReplayOK, FirstOK, HasFirst, InShrink, Shrinkage
<1>7. ShrunkOK' BY <1>2, <1>3 DEF ReplayOK, ShrunkOK, Faithful
<1>8. Recalled' BY <1>2, <1>3 DEF Recalled
<1>9. ReplayIsIdentical' BY <1>2 DEF ReplayOK, ReplayIsIdentical, Faithful
<1> QED BY <1>4, <1>5, <1>6, <1>7, <1>8, <1>9 DEF ReplayOK

\* The cut that is accepted was seen to fail as the first run did.
LEMMA TriedKeeps ==
  ASSUME CampaignOK, ReplayOK, Tried
  PROVE  ReplayOK'
<1>1. /\ job.stage = "trying" /\ Over /\ Judge(StillFails(Report))
      /\ job' = [job EXCEPT !.stage = "shrinking"] /\ UNCHANGED worldVars
  BY DEF Tried
<1>2. job'.stage = "shrinking" BY <1>1 DEF CampaignOK, Given, JobFields
<1>3. Tries /\ shr # NoShrink /\ shr.original = job.first.log BY <1>1 DEF ReplayOK, ShrunkOK, InShrink, Shrinkage
<1>4. ShrType BY <1>3 DEF CampaignOK, ShrOK
<1>5. Ends(job.case.replay, Candidate, Report)
  <2>1. tape.input = Candidate BY <1>1 DEF ReplayOK, RunOK
  <2> QED BY <1>1, <2>1, ReplayEnds DEF Replays
<1>6. ShrOK' BY <1>1, JudgeOK DEF CampaignOK, StillFails
<1>7. NoShrink.phase = "idle" BY DEF NoShrink
<1>8. job.failures > 0 => job.target = Oracle(job.first) BY DEF ReplayOK, FirstOK
<1>9. CASE shr.phase = "original"
  <2>1. Reproduced(StillFails(Report)) BY <1>1, <1>9 DEF Judge
  <2>2. PICK fails \in BOOLEAN : fails = StillFails(Report) BY DEF StillFails
  <2>3. PICK phase : phase = IF ~fails THEN "over" ELSE Algorithm OBVIOUS
  <2>4. shr' = [shr EXCEPT !.attempts = 1, !.reproduced = fails, !.phase = phase]
    BY <2>1, <2>2, <2>3 DEF Reproduced
  <2>5. /\ shr'.original = shr.original /\ shr'.current = shr.current /\ shr'.reproduced = fails /\ shr'.phase = phase
    BY <1>4, <2>4 DEF ShrType
  <2>6. phase \in {"over", "chunks", "tiers"} BY <2>3 DEF Algorithm
  <2>7. shr' # NoShrink BY <1>7, <2>5, <2>6
  <2>8. Candidate = shr.original /\ shr.current = shr.original
    BY <1>1, <1>9 DEF Candidate, ReplayOK, ShrunkOK, InShrink, Shrinkage
  <2>9. fails => Ends(job.case.replay, shr'.current, Report) /\ Oracle(Report) = job.target
    BY <1>5, <2>2, <2>5, <2>8 DEF StillFails
  <2>10. Faithful => fails
    <3> SUFFICES ASSUME Faithful PROVE fails OBVIOUS
    <3>1. job.failures > 0 BY <1>1 DEF ReplayOK, FirstOK, InShrink, Shrinkage
    <3>2. Ends(job.case.generate, job.first.log, job.first) BY <3>1 DEF ReplayOK, FirstOK, HasFirst
    <3>3. PICK conf : conf = job.case.replay OBVIOUS
    <3>4. Ends(conf, job.first.log, job.first) /\ Ends(conf, job.first.log, Report)
      BY <1>3, <1>5, <2>8, <3>2, <3>3 DEF Faithful
    <3>5. Report = job.first BY <3>4, EndsAlike
    <3> QED BY <1>8, <2>2, <3>1, <3>5 DEF StillFails
  <2> QED BY <1>1, <1>2, <2>5, <2>6, <2>7, <2>9, <2>10, ShrinkingKeeps
<1>10. CASE shr.phase # "original"
  <2>1. shr' = IF StillFails(Report) THEN Accepted(NextCut) ELSE Refused(NextCut) BY <1>1, <1>10 DEF Judge
  <2>2. Candidate = Without(shr.current, NextCut) BY <1>10 DEF Candidate
  <2>3. /\ shr'.original = shr.original /\ shr'.phase = shr.phase /\ shr'.reproduced = shr.reproduced
        /\ IF StillFails(Report) THEN shr'.current = Candidate ELSE shr'.current = shr.current
    BY <1>4, <2>1, <2>2 DEF ShrType, Accepted, Refused
  <2>4. shr' # NoShrink
    <3>1. shr.phase # "idle" BY <1>4 DEF ShrType
    <3> QED BY <1>7, <2>3, <3>1
  <2>5. ASSUME shr'.reproduced
        PROVE  \E report : Ends(job.case.replay, shr'.current, report) /\ Oracle(report) = job.target
    <3>1. CASE StillFails(Report) BY <1>5, <2>3, <3>1 DEF StillFails
    <3>2. CASE ~StillFails(Report)
      BY <1>1, <1>10, <2>3, <2>5, <3>2 DEF ReplayOK, ShrunkOK, InShrink, Shrinkage
    <3> QED BY <3>1, <3>2
  <2>6. Faithful => shr'.reproduced BY <1>1, <1>10, <2>3 DEF ReplayOK, ShrunkOK, InShrink, Shrinkage
  <2> QED BY <1>1, <1>2, <1>10, <2>3, <2>4, <2>5, <2>6, ShrinkingKeeps
<1> QED BY <1>9, <1>10

LEMMA ShrinksKeeps ==
  ASSUME CampaignOK, ReplayOK, Shrinks
  PROVE  ReplayOK'
<1>1. job.stage = "shrinking" /\ ShrinkStep /\ UNCHANGED <<worldVars, job>> BY DEF Shrinks
<1>2. shr # NoShrink BY <1>1 DEF ReplayOK, ShrunkOK, InShrink, Shrinkage
<1>3. ShrType BY <1>2 DEF CampaignOK, ShrOK
<1>4. /\ shr'.original = shr.original /\ shr'.current = shr.current /\ shr'.reproduced = shr.reproduced
      /\ shr.phase # "original" /\ shr'.phase \notin {"original", "idle"}
  <2>1. CASE NextTier BY <1>3, <2>1 DEF NextTier, ShrType
  <2>2. CASE NextRound BY <1>3, <2>2 DEF NextRound, ShrType
  <2>3. CASE LastSingle BY <1>3, <2>3 DEF LastSingle, ShrType
  <2> QED BY <1>1, <2>1, <2>2, <2>3 DEF ShrinkStep
<1>5. NoShrink.phase = "idle" BY DEF NoShrink
<1>6. shr' # NoShrink BY <1>4, <1>5
<1>7. shr.reproduced => \E report : Ends(job.case.replay, shr.current, report) /\ Oracle(report) = job.target
  BY <1>1, <1>4 DEF ReplayOK, ShrunkOK, InShrink, Shrinkage
<1>8. Faithful => shr.reproduced BY <1>1, <1>4 DEF ReplayOK, ShrunkOK, InShrink, Shrinkage
<1>9. UNCHANGED worldVars /\ job' = job /\ job'.stage = "shrinking" BY <1>1
<1> QED BY <1>1, <1>4, <1>6, <1>7, <1>8, <1>9, ShrinkingKeeps

\* The minimised tape fails as the first run did, as it did when the last cut was tried.
LEMMA MinimizedKeeps ==
  ASSUME CampaignOK, ReplayOK, Minimized
  PROVE  ReplayOK'
<1>1. job.stage = "minimized" /\ Over /\ UNCHANGED <<worldVars, shr>> BY DEF Minimized
<1>2. PICK result : result = IF StillFails(Report) THEN "recalled" ELSE Otherwise OBVIOUS
<1>3. Conclude(result) BY <1>2 DEF Minimized
<1>4. /\ job.failures > 0 /\ job.target = Oracle(job.first) /\ shr.phase = "over" /\ job.tool # "search"
      /\ job.tool = "signature" => job.seed # 0
  BY <1>1 DEF ReplayOK, ToolOK, FirstOK, ShrunkOK, InShrink, Shrinkage
<1>5. result = "recalled" => StillFails(Report) BY <1>2 DEF Otherwise
<1>6. result = "recalled" => Oracle(Report) = Oracle(job.first) BY <1>4, <1>5 DEF StillFails
<1>7. Faithful => result = "recalled"
  <2> SUFFICES ASSUME Faithful PROVE StillFails(Report) BY <1>2
  <2>1. PICK report : Ends(job.case.replay, shr.current, report) /\ Oracle(report) = job.target
    BY <1>1, <1>4 DEF ReplayOK, ShrunkOK, InShrink, Shrinkage
  <2>2. tape.input = shr.current BY <1>1 DEF ReplayOK, RunOK
  <2>3. Ends(job.case.replay, shr.current, Report) BY <1>1, <2>2, ReplayEnds DEF Replays
  <2>4. PICK conf, L : conf = job.case.replay /\ L = shr.current OBVIOUS
  <2>5. Ends(conf, L, report) /\ Ends(conf, L, Report) BY <2>1, <2>3, <2>4
  <2>6. Report = report BY <2>5, EndsAlike
  <2> QED BY <2>1, <2>6 DEF StillFails
<1> QED BY <1>1, <1>3, <1>4, <1>6, <1>7, ConcludeKeeps

\* A search replays nothing.
LEMMA SearchKeeps ==
  ASSUME CampaignOK, ReplayOK, job.stage = "search", WorldFields', job' = [job EXCEPT !.stage = "done"] \/ job' = job
  PROVE  ReplayOK'
<1>1. /\ job.tool = "search" /\ job.failures = 0 /\ job.result = "none" /\ job.replay = <<>>
  BY DEF ReplayOK, ToolOK, Replays, Shrinkage
<1>2. /\ job'.tool = job.tool /\ job'.case = job.case /\ job'.budget = job.budget
      /\ job'.seed = job.seed /\ job'.failures = job.failures /\ job'.first = job.first
      /\ job'.target = job.target /\ job'.replay = job.replay /\ job'.result = job.result
      /\ job'.stage \in {"search", "done"}
  BY DEF CampaignOK, Given, JobFields
<1>3. ToolOK' BY <1>1, <1>2 DEF ReplayOK, ToolOK
<1>4. RunOK' BY <1>1, <1>2 DEF RunOK, Replays
<1>5. FirstOK' BY <1>1, <1>2 DEF FirstOK, HasFirst, InShrink, Shrinkage
<1>6. ShrunkOK' BY <1>2 DEF ShrunkOK, InShrink, Shrinkage
<1>7. Recalled' BY <1>1, <1>2 DEF Recalled
<1>8. ReplayIsIdentical' BY <1>1, <1>2 DEF ReplayIsIdentical
<1> QED BY <1>3, <1>4, <1>5, <1>6, <1>7, <1>8 DEF ReplayOK

LEMMA SearchStepKeeps ==
  ASSUME CampaignOK, ReplayOK, SearchStep
  PROVE  ReplayOK'
<1>1. job.stage = "search" BY DEF SearchStep, SearchSeed, SeedRan, Observe, Compare, Searching
<1>2. WorldFields BY DEF ReplayOK, RunOK
<1>3. CASE SearchSeed
  <2>1. StartWorld(job.case.generate, Generating) /\ job' = job BY <1>3 DEF SearchSeed
  <2>2. PICK conf, t, input : conf = job.case.generate /\ t = Generating /\ input = <<>> OBVIOUS
  <2>3. WorldFields' BY <2>1, <2>2, StartFollows
  <2> QED BY <1>1, <2>1, <2>3, SearchKeeps
<1>4. CASE SeedRan
  <2>1. world' = Idle /\ job' = job BY <1>4 DEF SeedRan
  <2>2. Len(<<>>) \in Nat OBVIOUS
  <2>3. WorldFields' BY <2>1, <2>2 DEF WorldFields, Idle
  <2> QED BY <1>1, <2>1, <2>3, SearchKeeps
<1>5. CASE Observe
  <2>1. UNCHANGED experimentVars BY <1>5 DEF Observe
  <2>2. UNCHANGED world /\ job' = job BY <2>1, Zenon DEF experimentVars, worldVars
  <2>3. WorldFields' BY <1>2, <2>2 DEF WorldFields
  <2> QED BY <1>1, <2>2, <2>3, SearchKeeps
<1>6. CASE Compare
  <2>1. UNCHANGED worldVars /\ (job' = [job EXCEPT !.stage = "done"] \/ job' = job) BY <1>6 DEF Compare
  <2>2. UNCHANGED world BY <2>1, Zenon DEF worldVars
  <2>3. WorldFields' BY <1>2, <2>2 DEF WorldFields
  <2> QED BY <1>1, <2>1, <2>3, SearchKeeps
<1> QED BY <1>3, <1>4, <1>5, <1>6 DEF SearchStep

LEMMA RestKeeps ==
  ASSUME ReplayOK, UNCHANGED searchVars
  PROVE  ReplayOK'
<1>1. UNCHANGED <<tape, live, plans, pending, asking, emitted, world, shr, job>>
  BY DEF searchVars, experimentVars, worldVars, planVars
<1>2. ToolOK' BY <1>1 DEF ReplayOK, ToolOK, Faithful
<1>3. FirstOK' BY <1>1 DEF ReplayOK, FirstOK, HasFirst, InShrink
<1>4. ShrunkOK' BY <1>1, SameShrunk DEF ReplayOK, ShrunkOK, InShrink
<1>5. \A L : View(L)' = View(L) BY <1>1 DEF View
<1>6. RunOK'
  <2>1. Candidate' = Candidate BY <1>1, SameShrink
  <2>2. WorldFields' BY <1>1 DEF ReplayOK, RunOK, WorldFields
  <2>3. job.stage = "generating" => Follows(job.case.generate)' BY <1>1, <1>5 DEF ReplayOK, RunOK, Follows
  <2>4. job.stage \in Replays => Follows(job.case.replay)' BY <1>1, <1>5 DEF ReplayOK, RunOK, Follows
  <2> QED BY <1>1, <2>1, <2>2, <2>3, <2>4 DEF ReplayOK, RunOK
<1>7. Recalled'
  <2>1. Report' = Report BY <1>1 DEF Report
  <2> QED BY <1>1, <2>1 DEF ReplayOK, Recalled, Faithful
<1>8. ReplayIsIdentical' BY <1>1 DEF ReplayOK, ReplayIsIdentical, Faithful
<1> QED BY <1>2, <1>3, <1>4, <1>6, <1>7, <1>8 DEF ReplayOK

LEMMA ReplayStep ==
  ASSUME CampaignOK, ReplayOK, [CampaignNext]_searchVars
  PROVE  ReplayOK'
<1>1. CASE WorldStep /\ UNCHANGED <<shr, job, hunt>> BY <1>1, WorldKeeps
<1>2. CASE ExperimentStep
  BY <1>2, GenerateSeedKeeps, GeneratedKeeps, ReplayFirstKeeps, RepliedKeeps, TryCandidateKeeps, TriedKeeps,
     ShrinksKeeps, ReplayMinimizedKeeps, MinimizedKeeps
     DEF ExperimentStep
<1>3. CASE SearchStep BY <1>3, SearchStepKeeps
<1>4. CASE UNCHANGED searchVars BY <1>4, RestKeeps
<1> QED BY <1>1, <1>2, <1>3, <1>4 DEF CampaignNext, Progress, Finished

LEMMA ReplayStart == ASSUME CampaignInit PROVE ReplayOK
<1>1. PICK j \in Jobs \union Hunts : job = j BY DEF CampaignInit
<1>2. \/ /\ j \in Jobs /\ j = Job(j.tool, j.case, j.budget)
         /\ j.tool \in {"experiment", "artifact", "signature"}
         /\ j.tool = "signature" => j.budget.seed_count = 1 /\ j.case.generate = j.case.replay
      \/ j \in Hunts /\ j = [Job("search", j.case, j.budget) EXCEPT !.stage = "search"]
  BY JobsOK, HuntsOK, OwnTapes
<1>3. /\ job.failures = 0 /\ job.seed = 0 /\ job.result = "none" /\ job.replay = <<>>
      /\ job.tool \in {"experiment", "artifact", "signature"} => job.stage = "seeds"
      /\ job.tool = "search" => job.stage = "search"
      /\ job.tool \in {"experiment", "artifact", "signature", "search"}
      /\ job.tool = "signature" => Faithful /\ job.budget.seed_count = 1
  BY <1>1, <1>2 DEF Job, Faithful
<1>4. world.phase = "idle" /\ WorldFields
  <2>1. world = Idle BY DEF CampaignInit
  <2>2. Len(<<>>) \in Nat OBVIOUS
  <2> QED BY <2>1, <2>2 DEF WorldFields, Idle
<1>5. job.stage \in {"seeds", "search"} BY <1>3
<1>6. ToolOK BY <1>3 DEF ToolOK
<1>7. RunOK BY <1>3, <1>4, <1>5 DEF RunOK, Replays
<1>8. FirstOK BY <1>3, <1>5 DEF FirstOK, HasFirst, InShrink, Shrinkage
<1>9. ShrunkOK BY <1>5 DEF ShrunkOK, InShrink, Shrinkage
<1>10. Recalled BY <1>3, <1>5 DEF Recalled
<1>11. ReplayIsIdentical BY <1>3 DEF ReplayIsIdentical
<1> QED BY <1>6, <1>7, <1>8, <1>9, <1>10, <1>11 DEF ReplayOK

\* What the tools replay is where a run of the same tape would be.
LEMMA ReplaysFollow == CampaignSpec => []ReplayOK
<1>1. CampaignOK /\ ReplayOK /\ [CampaignNext]_searchVars => ReplayOK' BY ReplayStep
<1>2. CampaignInit => ReplayOK BY ReplayStart
<1> QED BY <1>1, <1>2, ToolsKeepState, PTL DEF CampaignSpec

\* A tape replayed by a world built like the one that drew it is drawn in full and to
\* its end, and the two runs have the same traces and the same failure, whatever the
\* world, its plans and the values drawn (assert_replay_identical, run_experiment_case).
THEOREM ReplayRepeats == CampaignSpec => []ReplayIsIdentical
<1>1. ReplayOK => ReplayIsIdentical BY DEF ReplayOK
<1> QED BY <1>1, ReplaysFollow, PTL

\* A failure that was seen is recalled from its minimised tape, whatever was cut and
\* wherever the budget ended, and what is recalled is the failure of the first seed that
\* failed (run_experiment_case, shrink_replay_failure).
THEOREM FailureIsRecalled == CampaignSpec => []RecallIsComplete
<1>1. ReplayOK => RecallIsComplete BY DEF ReplayOK, Recalled, RecallIsComplete
<1> QED BY <1>1, ReplaysFollow, PTL

-----------------------------------------------------------------------------
(* What is retained *)

\* Candidates with scores and with ranks of their own, below n.
Ranked(S, n) ==
  /\ IsFiniteSet(S)
  /\ \A c \in S : c.score \in Nat /\ c.rank \in Nat /\ c.rank < n
  /\ \A a, b \in S : a.rank = b.rank => a = b

\* What RetainedAreBest says, of any candidates.
Keeps(kept, S) ==
  /\ Cardinality(kept) = Min({Retain, Cardinality(S)})
  /\ kept \subseteq S
  /\ \A a \in kept, b \in S \ kept : Better(a, b)

LEMMA MinOfTwo ==
  ASSUME NEW a \in Nat, NEW b \in Nat PROVE Min({a, b}) = IF a <= b THEN a ELSE b
<1>1. {a, b} \in SUBSET Nat /\ {a, b} # {} OBVIOUS
<1>2. Min({a, b}) \in {a, b} /\ Min({a, b}) <= a /\ Min({a, b}) <= b BY <1>1, MinIsLeast
<1> QED BY <1>2

\* Among candidates with ranks of their own, one is worst.
LEMMA Worst ==
  ASSUME NEW S, NEW n \in Nat, Ranked(S, n), S # {}
  PROVE  \E w \in S : \A x \in S : x # w => Better(x, w)
<1>1. PICK scores : scores = {x.score : x \in S} OBVIOUS
<1>2. scores \in SUBSET Nat /\ scores # {} BY <1>1 DEF Ranked
<1>3. PICK low \in scores : \A m \in scores : low <= m BY <1>2, Least
<1>4. PICK tied : tied = {x \in S : x.score = low} OBVIOUS
<1>5. PICK ranks : ranks = {n - x.rank : x \in tied} OBVIOUS
<1>6. ranks \in SUBSET Nat /\ ranks # {} BY <1>1, <1>4, <1>5 DEF Ranked
<1>7. PICK last \in ranks : \A m \in ranks : last <= m BY <1>6, Least
<1>8. PICK w \in tied : last = n - w.rank BY <1>5
<1>9. ASSUME NEW x \in S, x # w PROVE Better(x, w)
  <2>1. x.score \in Nat /\ w.score = low /\ w \in S /\ low <= x.score /\ low \in Nat
    BY <1>1, <1>2, <1>3, <1>4 DEF Ranked
  <2>2. CASE x.score # low BY <2>1, <2>2 DEF Better
  <2>3. CASE x.score = low
    <3>1. x \in tied BY <1>4, <2>3
    <3>2. last <= n - x.rank BY <1>5, <1>7, <3>1
    <3>3. x.rank # w.rank BY <1>9, <2>1 DEF Ranked
    <3>4. x.rank \in Nat /\ w.rank \in Nat BY <2>1 DEF Ranked
    <3>5. x.rank < w.rank BY <1>8, <3>2, <3>3, <3>4
    <3> QED BY <2>1, <2>3, <3>5 DEF Better
  <2> QED BY <2>2, <2>3
<1> QED BY <1>4, <1>9

\* One candidate more, with the next rank.
LEMMA RankedNext ==
  ASSUME NEW S, NEW n \in Nat, Ranked(S, n), NEW c, c.score \in Nat, c.rank = n
  PROVE  Ranked(S \union {c}, n + 1) /\ c \notin S
<1>1. IsFiniteSet(S \union {c}) BY FS_AddElement DEF Ranked
<1>2. \A x \in S : x.rank < n /\ x.rank \in Nat BY DEF Ranked
<1>3. \A x \in S \union {c} : x.score \in Nat /\ x.rank \in Nat /\ x.rank < n + 1 BY <1>2 DEF Ranked
<1>4. \A a, b \in S \union {c} : a.rank = b.rank => a = b BY <1>2 DEF Ranked
<1> QED BY <1>1, <1>2, <1>3, <1>4 DEF Ranked

LEMMA BetterOrders ==
  ASSUME NEW S, NEW n \in Nat, Ranked(S, n)
  PROVE  /\ \A a \in S : ~Better(a, a)
         /\ \A a, b \in S : ~(Better(a, b) /\ Better(b, a))
         /\ \A a, b, c \in S : Better(a, b) /\ Better(b, c) => Better(a, c)
BY DEF Better, Ranked

\* What is kept of n candidates and the next one is what is kept of n + 1.
LEMMA RetainKeeps ==
  ASSUME NEW S, NEW n \in Nat, Ranked(S, n), NEW kept, Keeps(kept, S),
         NEW c, c.score \in Nat, c.rank = n
  PROVE  Keeps(retain_best(kept \union {c}), S \union {c})
<1>1. Ranked(S \union {c}, n + 1) /\ c \notin S BY RankedNext
<1>2. PICK T : T = kept \union {c} OBVIOUS
<1>3. kept \in SUBSET S /\ T \in SUBSET (S \union {c}) BY <1>2 DEF Keeps
<1>4. IsFiniteSet(S) /\ IsFiniteSet(S \union {c}) BY <1>1 DEF Ranked
<1>5. IsFiniteSet(kept) /\ Cardinality(kept) <= Cardinality(S) /\ (Cardinality(S) = Cardinality(kept) => S = kept)
  BY <1>3, <1>4, FS_Subset
<1>6. /\ Cardinality(S) \in Nat /\ Cardinality(kept) \in Nat /\ Retain \in Nat
      /\ Cardinality(kept) = IF Retain <= Cardinality(S) THEN Retain ELSE Cardinality(S)
  BY <1>4, <1>5, FS_CardinalityType, MinOfTwo, BudgetOK DEF Keeps
<1>7. /\ IsFiniteSet(T) /\ Cardinality(T) = Cardinality(kept) + 1
      /\ Cardinality(S \union {c}) = Cardinality(S) + 1
  BY <1>1, <1>2, <1>3, <1>4, <1>5, FS_AddElement
<1>8. \A x \in T : ~Better(x, x)
  BY <1>1, <1>3, BetterOrders
<1>9. ASSUME NEW x \in T PROVE {b \in T : Better(b, x)} \in SUBSET (T \ {x}) BY <1>8
<1>10. ASSUME NEW x \in T
       PROVE  IsFiniteSet(T \ {x}) /\ Cardinality(T \ {x}) = Cardinality(kept)
  <2>1. IsFiniteSet(T \ {x}) /\ Cardinality(T \ {x}) = IF x \in T THEN Cardinality(T) - 1 ELSE Cardinality(T)
    BY <1>7, FS_RemoveElement
  <2>2. Cardinality(T \ {x}) = Cardinality(T) - 1 BY <2>1
  <2> QED BY <1>6, <1>7, <2>1, <2>2
<1>11. CASE Cardinality(S) < Retain
  <2>1. S = kept BY <1>5, <1>6, <1>11
  <2>2. ASSUME NEW x \in T PROVE Cardinality({b \in T : Better(b, x)}) < Retain
    <3>1. PICK B : B = {b \in T : Better(b, x)} OBVIOUS
    <3>2. B \in SUBSET (T \ {x}) BY <1>9, <3>1
    <3>3. IsFiniteSet(B) /\ Cardinality(B) <= Cardinality(T \ {x}) BY <1>10, <3>2, FS_Subset
    <3>4. Cardinality(B) \in Nat BY <3>3, FS_CardinalityType
    <3>5. Cardinality(T \ {x}) < Retain BY <1>6, <1>10, <1>11
    <3>6. PICK y : y = Cardinality(T \ {x}) OBVIOUS
    <3>7. y \in Nat /\ y < Retain /\ Cardinality(B) <= y BY <1>6, <1>10, <3>3, <3>5, <3>6
    <3>8. Cardinality(B) < Retain BY <1>6, <3>4, <3>7
    <3> QED BY <3>1, <3>8
  <2>3. retain_best(T) = T BY <2>2 DEF retain_best
  <2>4. Min({Retain, Cardinality(S \union {c})}) = Cardinality(T)
    <3>1. Cardinality(S) + 1 <= Retain BY <1>6, <1>11
    <3>2. Cardinality(T) = Cardinality(S) + 1 BY <1>7, <2>1
    <3> QED BY <1>6, <1>7, <3>1, <3>2, MinOfTwo
  <2> QED BY <1>2, <2>1, <2>3, <2>4 DEF Keeps
<1>12. CASE Retain <= Cardinality(S)
  <2>1. Cardinality(kept) = Retain BY <1>6, <1>12
  <2>2. Ranked(T, n + 1) BY <1>1, <1>3, <1>7 DEF Ranked
  <2>3. PICK w \in T : \A x \in T : x # w => Better(x, w) BY <1>2, <2>2, Worst
  <2>4. {b \in T : Better(b, w)} = T \ {w} BY <1>8, <2>3
  <2>5. w \notin retain_best(T)
    BY <1>6, <1>10, <2>1, <2>4 DEF retain_best
  <2>6. ASSUME NEW x \in T, x # w PROVE Cardinality({b \in T : Better(b, x)}) < Retain
    <3>1. PICK B : B = {b \in T : Better(b, x)} OBVIOUS
    <3>2. PICK R : R = T \ {x} OBVIOUS
    <3>3. ~Better(w, x) BY <2>2, <2>3, <2>6, BetterOrders
    <3>4. B \in SUBSET (R \ {w}) BY <1>8, <3>1, <3>2, <3>3
    <3>5. IsFiniteSet(R) /\ Cardinality(R) = Retain /\ w \in R BY <1>10, <2>1, <2>6, <3>2
    <3>6. IsFiniteSet(R \ {w}) /\ Cardinality(R \ {w}) = Retain - 1 BY <3>5, FS_RemoveElement
    <3>7. IsFiniteSet(B) /\ Cardinality(B) <= Cardinality(R \ {w}) BY <3>4, <3>6, FS_Subset
    <3>8. Cardinality(B) \in Nat BY <3>7, FS_CardinalityType
    <3> QED BY <1>6, <3>1, <3>6, <3>7, <3>8
  <2>7. retain_best(T) = T \ {w} BY <2>5, <2>6 DEF retain_best
  <2>8. Cardinality(T \ {w}) = Retain BY <1>10, <2>1
  <2>9. Min({Retain, Cardinality(S \union {c})}) = Retain
    <3>1. PICK m \in Nat : m = Cardinality(S \union {c}) /\ Retain <= m BY <1>6, <1>7, <1>12
    <3>2. Min({Retain, m}) = Retain BY <1>6, <3>1, MinOfTwo
    <3> QED BY <3>1, <3>2
  <2>10. ASSUME NEW a \in T \ {w}, NEW b \in (S \union {c}) \ (T \ {w}) PROVE Better(a, b)
    <3>1. CASE b = w BY <2>3, <3>1
    <3>2. CASE b # w
      <4>1. b \in S \ kept BY <1>2, <3>2
      <4>2. CASE a \in kept BY <4>1, <4>2 DEF Keeps
      <4>3. CASE a = c
        <5>1. w \in kept BY <1>2, <2>10, <4>3
        <5>2. Better(a, w) BY <2>3, <2>10
        <5>3. Better(w, b) BY <4>1, <5>1 DEF Keeps
        <5>4. a \in S \union {c} /\ w \in S \union {c} /\ b \in S \union {c} BY <1>3, <2>10
        <5> QED BY <1>1, <5>2, <5>3, <5>4, BetterOrders
      <4> QED BY <1>2, <4>2, <4>3
    <3> QED BY <3>1, <3>2
  <2> QED BY <1>2, <1>3, <2>7, <2>8, <2>9, <2>10 DEF Keeps
<1> QED BY <1>6, <1>11, <1>12

-----------------------------------------------------------------------------
(* The orders of the seeds *)

AllSeeds == 0 .. SeedCount - 1

\* An order runs every seed once.
Orders(o) ==
  /\ Len(o) = SeedCount /\ \A k \in 1 .. SeedCount : o[k] \in AllSeeds
  /\ \A i, j \in 1 .. SeedCount : o[i] = o[j] => i = j
  /\ \A s \in AllSeeds : \E k \in 1 .. SeedCount : o[k] = s

LEMMA SeedsOrder == Orders(Seeds)
<1>1. Len(Seeds) = SeedCount BY BudgetOK DEF Seeds
<1>2. \A k \in 1 .. SeedCount : Seeds[k] = k - 1 BY DEF Seeds
<1>3. \A s \in AllSeeds : s + 1 \in 1 .. SeedCount /\ Seeds[s + 1] = s BY <1>2, BudgetOK DEF AllSeeds
<1> QED BY <1>1, <1>2, <1>3, BudgetOK DEF Orders, AllSeeds

LEMMA StressOrders == Orders(StressOrder)
<1>1. DOMAIN StressOrder = 1 .. SeedCount BY StressOrderOK, BudgetOK
<1>2. \A k \in 1 .. SeedCount : StressOrder[k] \in AllSeeds BY <1>1, StressOrderOK DEF AllSeeds
<1>3. \A s \in AllSeeds : \E k \in 1 .. SeedCount : StressOrder[k] = s
  BY <1>1, StressOrderOK DEF AllSeeds, ToSet
<1> QED BY <1>2, <1>3, StressOrderOK DEF Orders

\* The odd seeds, then the even ones.
LEMMA OddsFirst == Orders(Odds \o Evens)
<1>1. PICK a : a = SeedCount \div 2 OBVIOUS
<1>2. PICK b : b = (SeedCount + 1) \div 2 OBVIOUS
<1>3. a \in Nat /\ b \in Nat /\ a + b = SeedCount /\ (b = a \/ b = a + 1) BY <1>1, <1>2, BudgetOK
<1>4. Odds \in Seq(Nat) /\ Len(Odds) = a /\ \A k \in 1 .. a : Odds[k] = 2 * k - 1
  <2>1. PICK f : f = [k \in 1 .. a |-> 2 * k - 1] OBVIOUS
  <2>2. Odds = f BY <1>1, <2>1 DEF Odds
  <2>3. \A k \in 1 .. a : 2 * k - 1 \in Nat BY <1>3
  <2>4. f \in Seq(Nat) /\ Len(f) = a BY <1>3, <2>1, <2>3
  <2>5. \A k \in 1 .. a : f[k] = 2 * k - 1 BY <2>1
  <2> QED BY <2>2, <2>4, <2>5
<1>5. Evens \in Seq(Nat) /\ Len(Evens) = b /\ \A k \in 1 .. b : Evens[k] = 2 * k - 2
  <2>1. PICK f : f = [k \in 1 .. b |-> 2 * k - 2] OBVIOUS
  <2>2. Evens = f BY <1>2, <2>1 DEF Evens
  <2>3. \A k \in 1 .. b : 2 * k - 2 \in Nat BY <1>3
  <2>4. f \in Seq(Nat) /\ Len(f) = b BY <1>3, <2>1, <2>3
  <2>5. \A k \in 1 .. b : f[k] = 2 * k - 2 BY <2>1
  <2> QED BY <2>2, <2>4, <2>5
<1>6. PICK o : o = Odds \o Evens OBVIOUS
<1>7. /\ Len(o) = a + b
      /\ \A k \in 1 .. a + b : o[k] = IF k <= a THEN Odds[k] ELSE Evens[k - a]
  <2>1. PICK x, y : x = Odds /\ y = Evens OBVIOUS
  <2>2. x \in Seq(Nat) /\ y \in Seq(Nat) BY <1>4, <1>5, <2>1
  <2>3. /\ Len(x \o y) = Len(x) + Len(y)
        /\ \A k \in 1 .. Len(x) + Len(y) : (x \o y)[k] = IF k <= Len(x) THEN x[k] ELSE y[k - Len(x)]
    BY <2>2, ConcatProperties
  <2>4. Len(x) = a /\ Len(y) = b /\ o = x \o y BY <1>4, <1>5, <1>6, <2>1
  <2> QED BY <2>1, <2>3, <2>4
<1>8. ASSUME NEW k \in 1 .. SeedCount
      PROVE  o[k] = IF k <= a THEN 2 * k - 1 ELSE 2 * (k - a) - 2
  <2>1. k \in 1 .. a + b BY <1>3
  <2>2. CASE k <= a
    <3>1. k \in 1 .. a BY <2>1, <2>2
    <3>2. Odds[k] = 2 * k - 1 BY <1>4, <3>1
    <3>3. o[k] = Odds[k] BY <1>7, <2>1, <2>2
    <3> QED BY <2>2, <3>2, <3>3
  <2>3. CASE ~(k <= a)
    <3>1. k - a \in 1 .. b BY <1>3, <2>1, <2>3
    <3>2. Evens[k - a] = 2 * (k - a) - 2 BY <1>5, <3>1
    <3>3. o[k] = Evens[k - a] BY <1>7, <2>1, <2>3
    <3> QED BY <2>3, <3>2, <3>3
  <2> QED BY <2>2, <2>3
<1>9. ASSUME NEW k \in 1 .. SeedCount PROVE o[k] \in AllSeeds
  BY <1>3, <1>8, BudgetOK DEF AllSeeds
<1>10. ASSUME NEW i \in 1 .. SeedCount, NEW j \in 1 .. SeedCount, o[i] = o[j] PROVE i = j
  BY <1>3, <1>8, <1>10
<1>11. ASSUME NEW s \in AllSeeds PROVE \E k \in 1 .. SeedCount : o[k] = s
  <2>1. s \in Nat /\ s < SeedCount BY BudgetOK DEF AllSeeds
  <2>2. PICK h : h = s \div 2 OBVIOUS
  <2>3. h \in Nat /\ (s = 2 * h \/ s = 2 * h + 1) BY <2>1, <2>2
  <2>4. CASE s = 2 * h + 1
    <3>1. h + 1 \in 1 .. a BY <1>3, <2>1, <2>3, <2>4
    <3>2. h + 1 \in 1 .. SeedCount /\ o[h + 1] = s BY <1>3, <1>8, <2>3, <2>4, <3>1
    <3> QED BY <3>2
  <2>5. CASE s = 2 * h
    <3>1. h + 1 \in 1 .. b BY <1>3, <2>1, <2>3, <2>5
    <3>2. a + h + 1 \in 1 .. SeedCount /\ o[a + h + 1] = s BY <1>3, <1>8, <2>3, <2>5, <3>1
    <3> QED BY <3>2
  <2> QED BY <2>3, <2>4, <2>5
<1>12. Orders(o) BY <1>3, <1>7, <1>9, <1>10, <1>11 DEF Orders
<1> QED BY <1>6, <1>12

LEMMA EveryOrder == \A k \in 1 .. 3 : Orders(seed_order(Strategies[k]))
<1>1. Strategies[1] = "Random" /\ Strategies[2] = "CoverageGuided" /\ Strategies[3] = "FailureDirected"
  BY DEF Strategies
<1>2. Orders(seed_order(Strategies[1])) BY <1>1, SeedsOrder DEF seed_order
<1>3. Orders(seed_order(Strategies[2])) BY <1>1, OddsFirst DEF seed_order
<1>4. Orders(seed_order(Strategies[3])) BY <1>1, StressOrders DEF seed_order
<1> QED BY <1>2, <1>3, <1>4

-----------------------------------------------------------------------------
(* A run covers finitely much *)

LEMMA FiniteImage ==
  ASSUME NEW D, IsFiniteSet(D), NEW f, f = [k \in D |-> f[k]]
  PROVE  IsFiniteSet({f[k] : k \in D})
<1>1. PICK T : T = {f[k] : k \in D} OBVIOUS
<1>2. f \in [D -> T] BY <1>1
<1>3. f \in Surjection(D, T) BY <1>1, <1>2 DEF Surjection
<1> QED BY <1>1, <1>3, FS_Surjection

LEMMA FiniteRange == ASSUME NEW s, IsSeq(s) PROVE IsFiniteSet(DOMAIN s) /\ IsFiniteSet(ToSet(s))
<1>1. PICK T : T = ToSet(s) OBVIOUS
<1>2. s \in Seq(T) BY <1>1 DEF IsSeq
<1>3. Len(s) \in Nat /\ s \in [1 .. Len(s) -> T] /\ DOMAIN s = 1 .. Len(s) BY <1>2, LenProperties
<1>4. IsFiniteSet(DOMAIN s) BY <1>3, FS_Interval
<1>5. s = [k \in DOMAIN s |-> s[k]] BY <1>3
<1> QED BY <1>4, <1>5, FiniteImage DEF ToSet

Labelled(t) == TapeType(t) /\ IsSeq(t.labels)
Traced == IsSeq(tape.labels) /\ IsSeq(world.fates)
Covers(report) == Len(report.log) \in Nat /\ IsFiniteSet(Coverage(report))

LEMMA ReportCovers == ASSUME WorldOK, Traced PROVE Covers(Report)
<1>1. PICK r : r = Report OBVIOUS
<1>2. r.log = tape.log /\ r.labels = tape.labels /\ r.trace = <<emitted, world.arrivals, world.fates>>
  BY <1>1 DEF Report
<1>3. r.trace[1] = emitted /\ r.trace[3] = world.fates BY <1>2
<1>4. IsFiniteSet(ToSet(r.labels)) /\ IsFiniteSet(ToSet(r.trace[3])) /\ IsFiniteSet(DOMAIN r.trace[1])
  BY <1>2, <1>3, FiniteRange DEF Traced, WorldOK, PlansOK
<1>5. PICK actions : actions = [k \in DOMAIN r.trace[1] |-> r.trace[1][k].action[1]] OBVIOUS
<1>6. actions = [k \in DOMAIN r.trace[1] |-> actions[k]] BY <1>5
<1>7. IsFiniteSet({actions[k] : k \in DOMAIN r.trace[1]}) BY <1>4, <1>6, FiniteImage
<1>8. {actions[k] : k \in DOMAIN r.trace[1]} = {r.trace[1][k].action[1] : k \in DOMAIN r.trace[1]} BY <1>5
<1>9. IsFiniteSet(SemanticCoverage(r)) BY <1>4, <1>7, <1>8, FS_Union DEF SemanticCoverage
<1>10. IsFiniteSet({Oracle(r)}) BY FS_Singleton
<1>11. IsFiniteSet(Coverage(r)) BY <1>4, <1>9, <1>10, FS_Union DEF Coverage
<1>12. Len(r.log) \in Nat BY <1>2, LenProperties DEF WorldOK, TapeType
<1> QED BY <1>1, <1>11, <1>12 DEF Covers

LEMMA DrawLabels ==
  ASSUME NEW t, Labelled(t), NEW label, NEW d \in Draw(t, label) \union Undrawn(t)
  PROVE  Labelled(d.tape)
<1>1. TapeType(d.tape) BY DrawIs DEF Labelled
<1>2. CASE d \in Undrawn(t)
  <2>1. d.tape = t BY <1>2 DEF Undrawn
  <2> QED BY <2>1
<1>3. CASE d \in Draw(t, label)
  <2>1. PICK v : d = [value |-> v, tape |-> [t EXCEPT !.log = Append(@, v), !.labels = Append(@, label)]]
    BY <1>3 DEF Draw
  <2>2. d.tape.labels = Append(t.labels, label) BY <2>1 DEF Labelled, TapeType
  <2> QED BY <1>1, <2>2, AppendIs DEF Labelled
<1> QED BY <1>2, <1>3

LEMMA PercentLabels ==
  ASSUME NEW t, Labelled(t), NEW label, NEW percent, NEW d \in DrawPercent(t, label, percent)
  PROVE  Labelled(d.tape)
BY DrawLabels DEF DrawPercent

LEMMA WorldTraces == ASSUME WorldOK, WorldFields, Traced, WorldStep PROVE Traced'
<1>1. Labelled(tape) BY DEF WorldOK, Traced, Labelled
<1>2. CASE Plan
  <2>1. IsSeq(world'.fates)
    <3>1. world' = world \/ world' = [world EXCEPT !.phase = "send"] BY <1>2 DEF Plan
    <3>2. world'.fates = world.fates BY <3>1 DEF WorldFields
    <3> QED BY <3>2 DEF Traced
  <2>2. CASE tape' = tape BY <2>1, <2>2 DEF Traced
  <2>3. CASE tape' # tape
    <3>1. Ask BY <1>2, <2>3 DEF Plan, Emit
    <3>2. PICK t, d : t = tape /\ d \in Draw(t, "partition") \union Undrawn(t) /\ tape' = d.tape
      BY <2>3, <3>1 DEF Ask
    <3>3. Labelled(d.tape) BY <1>1, <3>2, DrawLabels
    <3> QED BY <2>1, <3>2, <3>3 DEF Traced, Labelled
  <2> QED BY <2>2, <2>3
<1>3. CASE Send
  <2>1. PICK c, t : c = world.conf /\ t = tape OBVIOUS
  <2>2. PICK d \in Draw(t, "net-delay") :
          \E x \in IF c.extra > 0 THEN Draw(d.tape, "extra-delay") ELSE Undrawn(d.tape) :
          \E u \in DrawPercent(x.tape, "duplicate-decision", c.duplicate) :
          \E g \in IF Fires(u, c.duplicate) THEN Draw(u.tape, "extra-delay") ELSE Undrawn(u.tape) :
            tape' = g.tape
    BY <1>3, <2>1, ZenonT(60) DEF Send
  <2>3. PICK x \in Draw(d.tape, "extra-delay") \union Undrawn(d.tape) :
          \E u \in DrawPercent(x.tape, "duplicate-decision", c.duplicate) :
          \E g \in IF Fires(u, c.duplicate) THEN Draw(u.tape, "extra-delay") ELSE Undrawn(u.tape) :
            tape' = g.tape
    BY <2>2
  <2>4. PICK u \in DrawPercent(x.tape, "duplicate-decision", c.duplicate) :
          \E g \in IF Fires(u, c.duplicate) THEN Draw(u.tape, "extra-delay") ELSE Undrawn(u.tape) :
            tape' = g.tape
    BY <2>3
  <2>5. PICK g \in Draw(u.tape, "extra-delay") \union Undrawn(u.tape) : tape' = g.tape BY <2>4
  <2>6. Labelled(d.tape) BY <1>1, <2>1, <2>2, DrawLabels
  <2>7. Labelled(x.tape) BY <2>3, <2>6, DrawLabels
  <2>8. Labelled(u.tape) BY <2>4, <2>7, PercentLabels
  <2>9. Labelled(g.tape) BY <2>5, <2>8, DrawLabels
  <2>10. world'.fates = world.fates BY <1>3 DEF Send, WorldFields
  <2> QED BY <2>5, <2>9, <2>10 DEF Traced, Labelled
<1>4. CASE Deliver
  <2>1. PICK t, p : t = tape /\ p = world.conf.drop OBVIOUS
  <2>2. PICK d \in DrawPercent(t, "drop-decision", p) :
          tape' = d.tape /\ world' = [world EXCEPT
            !.calm = @ /\ Calmly(d, p),
            !.fates = Append(@, IF Fires(d, p) THEN "dropped" ELSE "delivered")]
    BY <1>4, <2>1, Zenon DEF Deliver
  <2>3. Labelled(d.tape) BY <1>1, <2>1, <2>2, PercentLabels
  <2>4. PICK fate : fate = IF Fires(d, p) THEN "dropped" ELSE "delivered" OBVIOUS
  <2>5. world'.fates = Append(world.fates, fate) BY <2>2, <2>4 DEF WorldFields
  <2> QED BY <2>2, <2>3, <2>5, AppendIs DEF Traced, Labelled
<1>5. CASE Quiesce
  <2>1. tape' = tape /\ world'.fates = world.fates BY <1>5 DEF Quiesce, WorldFields
  <2> QED BY <2>1 DEF Traced
<1> QED BY <1>2, <1>3, <1>4, <1>5 DEF WorldStep

-----------------------------------------------------------------------------
(* What a strategy has seen *)

HuntFields ==
  hunt \in [strategy : {hunt.strategy}, rank : {hunt.rank}, seen : {hunt.seen}, all : {hunt.all},
            candidates : {hunt.candidates}, first : {hunt.first}, failures : {hunt.failures},
            reports : {hunt.reports}, rows : {hunt.rows}, best : {hunt.best}]

FailIn(reports, S) == {s \in S : Oracle(reports[s]) # "none"}
CoveredBy(reports, S) == UNION {Coverage(reports[s]) : s \in S}
FirstOf(o, n) == {o[k] : k \in 1 .. n}

\* What is counted of the seeds in S.
Counts(seen, failures, first, reports, S) ==
  /\ seen = CoveredBy(reports, S) /\ IsFiniteSet(seen) /\ failures = Cardinality(FailIn(reports, S))
  /\ first = <<>> <=> FailIn(reports, S) = {}

\* The seeds a strategy has behind it.
SoFar ==
  /\ hunt.rank \in 0 .. SeedCount
  /\ FirstOf(seed_order(Strategy), hunt.rank) \subseteq DOMAIN hunt.reports
  /\ Counts(hunt.seen, hunt.failures, hunt.first, hunt.reports, FirstOf(seed_order(Strategy), hunt.rank))

ReportsOK ==
  /\ DOMAIN hunt.reports \subseteq AllSeeds
  /\ \A s \in DOMAIN hunt.reports : Covers(hunt.reports[s])

Retained == hunt.rank \in Nat /\ Ranked(hunt.all, hunt.rank) /\ Keeps(hunt.candidates, hunt.all)

\* A row counts all seeds.
RowIs(row, reports) == Counts(row.coverage, row.failures, row.first, reports, AllSeeds)

RowsOK ==
  /\ IsSeq(hunt.rows) /\ (hunt.strategy <= 3 => Len(hunt.rows) = hunt.strategy - 1)
  /\ \A a \in DOMAIN hunt.rows : RowIs(hunt.rows[a], hunt.reports)
  /\ hunt.rows # <<>> =>
       /\ AllSeeds \subseteq DOMAIN hunt.reports /\ hunt.rows[1].strategy = "Random"
       /\ FailIn(hunt.reports, AllSeeds) = {} => hunt.best = "Random"

HuntOK ==
  /\ HuntFields /\ hunt.strategy \in 1 .. 4
  /\ ReportsOK /\ Retained /\ RowsOK /\ (hunt.strategy <= 3 => SoFar)

\* A strategy waits for the seed that is next.
Turn ==
  /\ job.stage = "search" <=> hunt.strategy <= 3
  /\ job.stage = "search" /\ world.phase # "idle" => hunt.rank < SeedCount /\ Seed \notin DOMAIN hunt.reports

SearchOK == HuntOK /\ Traced /\ Turn

LEMMA HuntRests == ASSUME HuntOK, hunt' = hunt PROVE HuntOK'
<1>1. HuntFields' BY DEF HuntOK, HuntFields
<1>2. ReportsOK' BY DEF HuntOK, ReportsOK
<1>3. Retained' BY DEF HuntOK, Retained
<1>4. RowsOK' BY DEF HuntOK, RowsOK
<1>5. hunt.strategy <= 3 => SoFar' BY DEF HuntOK, SoFar, Strategy
<1> QED BY <1>1, <1>2, <1>3, <1>4, <1>5 DEF HuntOK

LEMMA WorldSearches ==
  ASSUME WorldOK, WorldFields, SearchOK, WorldStep, UNCHANGED <<job, hunt>>
  PROVE  SearchOK'
<1>1. HuntOK' BY HuntRests DEF SearchOK
<1>2. Traced' BY WorldTraces DEF SearchOK
<1>3. world.phase # "idle" BY DEF WorldStep, Plan, Send, Deliver, Quiesce
<1>4. Turn' BY <1>3 DEF SearchOK, Turn, Seed, Strategy
<1> QED BY <1>1, <1>2, <1>4 DEF SearchOK

LEMMA StartTraces ==
  ASSUME NEW conf, NEW t, StartWorld(conf, t), IsSeq(t.labels)
  PROVE  Traced' /\ world'.phase = "plan"
<1>1. tape' = t /\ world' = [Idle EXCEPT !.conf = conf, !.phase = "plan"] BY DEF StartWorld
<1>2. PICK none : none = <<>> OBVIOUS
<1>3. IsSeq(none) BY <1>2 DEF IsSeq
<1>4. world' = [conf |-> conf, phase |-> "plan", arrivals |-> none, fates |-> none, calm |-> TRUE]
  BY <1>1, <1>2 DEF Idle
<1>5. world'.fates = none /\ world'.phase = "plan" BY <1>4
<1>6. tape'.labels = t.labels BY <1>1
<1> QED BY <1>3, <1>5, <1>6 DEF Traced

LEMMA NoLabels == IsSeq(Generating.labels) /\ \A L : IsSeq(Replaying(L).labels)
<1>1. IsSeq(<<>>) BY DEF IsSeq
<1>2. PICK t : t = Generating OBVIOUS
<1>3. t.labels = <<>> BY <1>2, TapesAre
<1>4. ASSUME NEW L PROVE IsSeq(Replaying(L).labels)
  <2>1. Replaying(L).labels = <<>> BY TapesAre
  <2> QED BY <1>1, <2>1
<1> QED BY <1>1, <1>2, <1>3, <1>4

-----------------------------------------------------------------------------
(* The steps of a search *)

LEMMA ExperimentSearches ==
  ASSUME CampaignOK, ReplayOK, SearchOK, ExperimentStep, UNCHANGED hunt
  PROVE  SearchOK'
<1>1. HuntOK' BY HuntRests DEF SearchOK
<1>2. job.stage # "search"
  BY DEF ExperimentStep, GenerateSeed, Generated, ReplayFirst, Replied, TryCandidate, Tried, Shrinks,
         ReplayMinimized, Minimized
<1>3. job'.stage # "search"
  <2> USE DEF CampaignOK, Given, JobFields
  <2>1. CASE GenerateSeed BY <2>1 DEF GenerateSeed, Call
  <2>2. CASE Generated
    <3>1. PICK fails, f, g : job' = [job EXCEPT !.stage = "seeds", !.seed = @ + 1,
                                       !.failures = fails, !.first = f, !.target = g]
      BY <2>2 DEF Generated
    <3> QED BY <3>1
  <2>3. CASE ReplayFirst BY <2>3 DEF ReplayFirst, Conclude, CallReplay, Call
  <2>4. CASE Replied
    <3>1. PICK target, compared, result :
            \/ job' = [job EXCEPT !.stage = "shrinking", !.target = target, !.replay = <<compared>>]
            \/ job' = [job EXCEPT !.stage = "done", !.replay = <<compared>>, !.result = result]
      BY <2>4 DEF Replied
    <3> QED BY <3>1
  <2>5. CASE TryCandidate BY <2>5 DEF TryCandidate, CallReplay, Call
  <2>6. CASE Tried BY <2>6 DEF Tried
  <2>7. CASE Shrinks BY <1>2, <2>7 DEF Shrinks
  <2>8. CASE ReplayMinimized BY <2>8 DEF ReplayMinimized, CallReplay, Call
  <2>9. CASE Minimized BY <2>9 DEF Minimized, Conclude
  <2> QED BY <2>1, <2>2, <2>3, <2>4, <2>5, <2>6, <2>7, <2>8, <2>9 DEF ExperimentStep
<1>4. Traced'
  <2>1. ASSUME UNCHANGED worldVars PROVE Traced' BY <2>1 DEF worldVars, SearchOK, Traced
  <2>2. ASSUME NEW stage, NEW log, CallReplay(stage, log) PROVE Traced'
    <3>1. StartWorld(job.case.replay, Replaying(log)) BY <2>2 DEF CallReplay, Call
    <3> QED BY <3>1, NoLabels, StartTraces
  <2>3. CASE GenerateSeed
    <3>1. StartWorld(job.case.generate, Generating) BY <2>3 DEF GenerateSeed, Call
    <3> QED BY <3>1, NoLabels, StartTraces
  <2>4. CASE ReplayFirst BY <2>1, <2>2, <2>4 DEF ReplayFirst
  <2>5. CASE TryCandidate BY <2>2, <2>5 DEF TryCandidate
  <2>6. CASE ReplayMinimized BY <2>2, <2>6 DEF ReplayMinimized
  <2>7. CASE Generated \/ Replied \/ Tried \/ Shrinks \/ Minimized
    BY <2>1, <2>7 DEF Generated, Replied, Tried, Shrinks, Minimized
  <2> QED BY <2>3, <2>4, <2>5, <2>6, <2>7 DEF ExperimentStep
<1>5. Turn' BY <1>2, <1>3 DEF SearchOK, Turn
<1> QED BY <1>1, <1>4, <1>5 DEF SearchOK

LEMMA SearchSeedSearches ==
  ASSUME SearchOK, SearchSeed
  PROVE  SearchOK'
<1>1. hunt' = hunt /\ job' = job BY DEF SearchSeed
<1>2. HuntOK' BY <1>1, HuntRests DEF SearchOK
<1>3. StartWorld(job.case.generate, Generating) BY DEF SearchSeed
<1>4. Traced' BY <1>3, NoLabels, StartTraces
<1>5. hunt.strategy \in 1 .. 3 /\ hunt.rank \in 0 .. SeedCount
  BY DEF SearchSeed, Searching, SearchOK, Turn, HuntOK, SoFar
<1>6. PICK o : o = seed_order(Strategy) OBVIOUS
<1>7. Len(o) = SeedCount BY <1>5, <1>6, EveryOrder DEF Orders, Strategy
<1>8. hunt.rank < SeedCount /\ Seed \notin DOMAIN hunt.reports
  BY <1>6, <1>7 DEF SearchSeed, More
<1>9. Turn' BY <1>1, <1>8 DEF SearchOK, Turn, Seed, Strategy
<1> QED BY <1>2, <1>4, <1>9 DEF SearchOK

LEMMA RestSearches == ASSUME SearchOK, UNCHANGED searchVars PROVE SearchOK'
<1>1. UNCHANGED <<tape, world, job, hunt>> BY DEF searchVars, experimentVars, worldVars
<1>2. HuntOK' BY <1>1, HuntRests DEF SearchOK
<1>3. Traced' BY <1>1 DEF SearchOK, Traced
<1>4. Turn' BY <1>1 DEF SearchOK, Turn, Seed, Strategy
<1> QED BY <1>2, <1>3, <1>4 DEF SearchOK

\* A search begins with nothing.
LEMMA NothingRetained == Ranked({}, 0) /\ Keeps({}, {})
<1>1. Cardinality({}) = 0 /\ IsFiniteSet({}) BY FS_EmptySet
<1>2. PICK m \in Nat : m = Cardinality({}) /\ m <= Retain BY <1>1, BudgetOK
<1>3. Min({Retain, m}) = m BY <1>2, BudgetOK, MinOfTwo
<1> QED BY <1>1, <1>2, <1>3 DEF Ranked, Keeps

LEMMA NothingCounted ==
  ASSUME NEW o, NEW reports
  PROVE  /\ FirstOf(o, 0) \subseteq DOMAIN reports /\ 0 \in 0 .. SeedCount
         /\ Counts({}, 0, <<>>, reports, FirstOf(o, 0))
<1>1. FirstOf(o, 0) = {} BY DEF FirstOf
<1>2. FailIn(reports, {}) = {} /\ CoveredBy(reports, {}) = {} BY DEF FailIn, CoveredBy
<1> QED BY <1>1, <1>2, FS_EmptySet, BudgetOK DEF Counts

\* A report that is added changes no count of the others.
LEMMA CountsStay ==
  ASSUME NEW r, NEW q, NEW S, \A s \in S : q[s] = r[s]
  PROVE  FailIn(q, S) = FailIn(r, S) /\ CoveredBy(q, S) = CoveredBy(r, S)
BY DEF FailIn, CoveredBy

LEMMA SeedRanSearches ==
  ASSUME WorldOK, SearchOK, SeedRan
  PROVE  SearchOK'
<1>1. PICK seed, report, r : seed = Seed /\ report = Report /\ r = hunt.reports OBVIOUS
<1>2. PICK q : q = [s \in DOMAIN r \union {seed} |-> IF s = seed THEN report ELSE r[s]] OBVIOUS
<1>3. hunt' = [hunt EXCEPT !.reports = q] /\ world' = Idle /\ tape' = tape /\ job' = job
  BY <1>1, <1>2 DEF SeedRan
<1>4. HuntFields' /\ hunt'.reports = q /\ hunt'.strategy = hunt.strategy /\ hunt'.rank = hunt.rank
      /\ hunt'.seen = hunt.seen /\ hunt'.all = hunt.all /\ hunt'.candidates = hunt.candidates
      /\ hunt'.first = hunt.first /\ hunt'.failures = hunt.failures /\ hunt'.rows = hunt.rows
  BY <1>3 DEF SearchOK, HuntOK, HuntFields
<1>5. hunt.strategy \in 1 .. 3 /\ hunt.rank < SeedCount /\ seed \notin DOMAIN r /\ hunt.rank \in 0 .. SeedCount
  BY <1>1 DEF SeedRan, Over, Searching, SearchOK, Turn, HuntOK, SoFar
<1>6. PICK o : o = seed_order(Strategy) OBVIOUS
<1>7. Orders(o) BY <1>5, <1>6, EveryOrder DEF Strategy
<1>8. seed \in AllSeeds BY <1>1, <1>5, <1>6, <1>7 DEF Seed, Orders
<1>9. DOMAIN q = DOMAIN r \union {seed} /\ q[seed] = report /\ \A s \in DOMAIN r : q[s] = r[s] BY <1>2, <1>5
<1>10. ReportsOK'
  <2>1. Covers(report) BY <1>1, ReportCovers DEF SearchOK
  <2> QED BY <1>1, <1>4, <1>8, <1>9, <2>1 DEF SearchOK, HuntOK, ReportsOK
<1>11. Retained' BY <1>4 DEF SearchOK, HuntOK, Retained
<1>12. hunt.rows = <<>> BY <1>1, <1>5, <1>8 DEF SearchOK, HuntOK, RowsOK
<1>13. RowsOK' BY <1>4, <1>12 DEF SearchOK, HuntOK, RowsOK
<1>14. seed_order(Strategy)' = o BY <1>4, <1>6 DEF Strategy
<1>15. SoFar'
  <2>1. PICK S : S = FirstOf(o, hunt.rank) OBVIOUS
  <2>2. S \subseteq DOMAIN r /\ Counts(hunt.seen, hunt.failures, hunt.first, r, S)
    BY <1>1, <1>5, <1>6, <2>1 DEF SearchOK, HuntOK, SoFar
  <2>3. Counts(hunt.seen, hunt.failures, hunt.first, q, S)
    <3>1. FailIn(q, S) = FailIn(r, S) /\ CoveredBy(q, S) = CoveredBy(r, S) BY <1>9, <2>2, CountsStay
    <3> QED BY <2>2, <3>1 DEF Counts
  <2>4. S \subseteq DOMAIN q BY <1>9, <2>2
  <2> QED BY <1>4, <1>5, <1>14, <2>1, <2>3, <2>4 DEF SoFar
<1>16. HuntOK' BY <1>4, <1>5, <1>10, <1>11, <1>13, <1>15 DEF HuntOK
<1>17. Traced'
  <2>1. PICK none : none = <<>> OBVIOUS
  <2>2. IsSeq(none) BY <2>1 DEF IsSeq
  <2>3. world'.fates = none BY <1>3, <2>1 DEF Idle
  <2> QED BY <1>3, <2>2, <2>3 DEF Traced, SearchOK
<1>18. world'.phase = "idle" BY <1>3 DEF Idle
<1>19. Turn' BY <1>3, <1>4, <1>18 DEF SearchOK, Turn
<1> QED BY <1>16, <1>17, <1>19 DEF SearchOK

\* One seed more is counted.
LEMMA CountsNext ==
  ASSUME NEW seen, NEW failures, NEW first, NEW r, NEW S, Counts(seen, failures, first, r, S),
         S \subseteq AllSeeds, NEW seed \in AllSeeds, seed \notin S, Covers(r[seed]), NEW rank
  PROVE  LET fails == Oracle(r[seed]) # "none"
         IN  Counts(seen \union Coverage(r[seed]), IF fails THEN failures + 1 ELSE failures,
                    IF fails /\ first = <<>> THEN <<rank>> ELSE first, r, S \union {seed})
<1>1. IsFiniteSet(AllSeeds) BY BudgetOK, FS_Interval DEF AllSeeds
<1>2. PICK F : F = FailIn(r, S) OBVIOUS
<1>3. F \in SUBSET AllSeeds /\ seed \notin F BY <1>2 DEF FailIn
<1>4. IsFiniteSet(F) /\ Cardinality(F) = failures BY <1>1, <1>2, <1>3, FS_Subset DEF Counts
<1>5. /\ CoveredBy(r, S \union {seed}) = seen \union Coverage(r[seed])
      /\ IsFiniteSet(seen \union Coverage(r[seed]))
  BY FS_Union DEF CoveredBy, Counts, Covers
<1>6. CASE Oracle(r[seed]) # "none"
  <2>1. FailIn(r, S \union {seed}) = F \union {seed} BY <1>2, <1>6 DEF FailIn
  <2>2. Cardinality(F \union {seed}) = failures + 1 BY <1>3, <1>4, FS_AddElement
  <2>3. <<rank>> # <<>> OBVIOUS
  <2> QED BY <1>5, <1>6, <2>1, <2>2, <2>3 DEF Counts
<1>7. CASE Oracle(r[seed]) = "none"
  <2>1. FailIn(r, S \union {seed}) = F BY <1>2, <1>7 DEF FailIn
  <2> QED BY <1>2, <1>4, <1>5, <1>7, <2>1 DEF Counts
<1> QED BY <1>6, <1>7

LEMMA ScoreIs ==
  ASSUME NEW report, Len(report.log) \in Nat, NEW new \in Nat, hunt.strategy \in 1 .. 3
  PROVE  candidate_score(report, new) \in Nat
<1>1. Strategy \in {"Random", "CoverageGuided", "FailureDirected"} BY DEF Strategy, Strategies
<1>2. PICK fails \in {0, 1000} : fails = IF Oracle(report) = "none" THEN 0 ELSE 1000 OBVIOUS
<1>3. CASE Strategy = "Random" BY <1>3 DEF candidate_score
<1>4. CASE Strategy = "CoverageGuided" BY <1>4 DEF candidate_score
<1>5. CASE Strategy = "FailureDirected" BY <1>2, <1>5 DEF candidate_score
<1> QED BY <1>1, <1>3, <1>4, <1>5

LEMMA ObserveSearches ==
  ASSUME SearchOK, Observe
  PROVE  SearchOK'
<1>1. PICK seed, r, o, n : seed = Seed /\ r = hunt.reports /\ o = seed_order(Strategy) /\ n = hunt.rank OBVIOUS
<1>2. hunt.strategy \in 1 .. 3 /\ n \in 0 .. SeedCount
  BY <1>1 DEF Observe, Searching, SearchOK, Turn, HuntOK, SoFar
<1>3. Orders(o) BY <1>1, <1>2, EveryOrder DEF Strategy
<1>4. n < SeedCount /\ seed = o[n + 1] /\ seed \in DOMAIN r
  BY <1>1, <1>3 DEF Observe, More, Seed, Orders
<1>5. n \in Nat /\ n + 1 \in 1 .. SeedCount /\ seed \in AllSeeds BY <1>2, <1>3, <1>4, BudgetOK DEF Orders
<1>6. PICK report : report = r[seed] OBVIOUS
<1>7. PICK new : new = Cardinality(Coverage(report) \ hunt.seen) OBVIOUS
<1>8. Covers(report) BY <1>1, <1>4, <1>6 DEF SearchOK, HuntOK, ReportsOK
<1>9. new \in Nat BY <1>7, <1>8, FS_Difference, FS_CardinalityType DEF Covers
<1>10. PICK c : c = [seed |-> seed, rank |-> n, score |-> candidate_score(report, new)] OBVIOUS
<1>11. c.score \in Nat /\ c.rank = n BY <1>2, <1>8, <1>9, <1>10, ScoreIs DEF Covers
<1>12. PICK seen, kept, failures, first :
         /\ seen = hunt.seen \union Coverage(report)
         /\ kept = retain_best(hunt.candidates \union {c})
         /\ failures = IF Oracle(report) # "none" THEN hunt.failures + 1 ELSE hunt.failures
         /\ first = IF Oracle(report) # "none" /\ hunt.first = <<>> THEN <<n>> ELSE hunt.first
  OBVIOUS
<1>13. hunt' = [hunt EXCEPT !.rank = @ + 1, !.seen = seen, !.all = @ \union {c}, !.candidates = kept,
                            !.failures = failures, !.first = first]
  BY <1>1, <1>6, <1>7, <1>10, <1>12 DEF Observe, SearchOK, HuntOK, HuntFields
<1>14. /\ HuntFields' /\ hunt'.reports = r /\ hunt'.strategy = hunt.strategy /\ hunt'.rank = n + 1
       /\ hunt'.seen = seen /\ hunt'.all = hunt.all \union {c} /\ hunt'.candidates = kept
       /\ hunt'.first = first /\ hunt'.failures = failures /\ hunt'.rows = hunt.rows /\ hunt'.best = hunt.best
  BY <1>1, <1>13 DEF SearchOK, HuntOK, HuntFields
<1>15. UNCHANGED <<tape, world, job>> BY DEF Observe, experimentVars, worldVars
<1>16. ReportsOK' BY <1>1, <1>14 DEF SearchOK, HuntOK, ReportsOK
<1>17. RowsOK' BY <1>1, <1>14 DEF SearchOK, HuntOK, RowsOK
<1>18. Retained'
  <2>1. Ranked(hunt.all, n) /\ Keeps(hunt.candidates, hunt.all) BY <1>1 DEF SearchOK, HuntOK, Retained
  <2>2. Ranked(hunt.all \union {c}, n + 1) BY <1>5, <1>11, <2>1, RankedNext
  <2>3. Keeps(kept, hunt.all \union {c}) BY <1>5, <1>11, <1>12, <2>1, RetainKeeps
  <2> QED BY <1>5, <1>14, <2>2, <2>3 DEF Retained
<1>19. seed_order(Strategy)' = o BY <1>1, <1>14 DEF Strategy
<1>20. SoFar'
  <2>1. PICK S : S = FirstOf(o, n) OBVIOUS
  <2>2. S \subseteq DOMAIN r /\ Counts(hunt.seen, hunt.failures, hunt.first, r, S)
    BY <1>1, <1>2, <2>1 DEF SearchOK, HuntOK, SoFar
  <2>3. S \subseteq AllSeeds BY <1>3, <1>4, <1>5, <2>1 DEF FirstOf, Orders
  <2>4. seed \notin S BY <1>3, <1>4, <1>5, <2>1 DEF FirstOf, Orders
  <2>5. FirstOf(o, n + 1) = S \union {seed} BY <1>4, <1>5, <2>1 DEF FirstOf
  <2>6. Counts(seen, failures, first, r, S \union {seed})
    <3>1. PICK a, b, d : a = hunt.seen /\ b = hunt.failures /\ d = hunt.first OBVIOUS
    <3>2. Counts(a, b, d, r, S) /\ Covers(r[seed]) BY <1>6, <1>8, <2>2, <3>1
    <3>3. Counts(a \union Coverage(r[seed]), IF Oracle(r[seed]) # "none" THEN b + 1 ELSE b,
                 IF Oracle(r[seed]) # "none" /\ d = <<>> THEN <<n>> ELSE d, r, S \union {seed})
      BY <1>5, <2>3, <2>4, <3>2, CountsNext
    <3> QED BY <1>6, <1>12, <3>1, <3>3
  <2> QED BY <1>4, <1>5, <1>14, <1>19, <2>2, <2>5, <2>6 DEF SoFar
<1>21. HuntOK' BY <1>2, <1>14, <1>16, <1>17, <1>18, <1>20 DEF HuntOK
<1>22. world.phase = "idle" BY <1>1, <1>4 DEF Observe, Searching, SearchOK, Turn
<1>23. Turn' BY <1>14, <1>15, <1>22 DEF SearchOK, Turn
<1>24. Traced' BY <1>15 DEF SearchOK, Traced
<1> QED BY <1>21, <1>23, <1>24 DEF SearchOK

\* Where no seed fails, the first strategy is the best.
LEMMA FirstIsBest ==
  ASSUME NEW rows, IsSeq(rows), rows # <<>>, NEW r, FailIn(r, AllSeeds) = {},
         \A a \in DOMAIN rows : RowIs(rows[a], r)
  PROVE  Best(rows) = rows[1].strategy
<1>1. PICK covered : covered = CoveredBy(r, AllSeeds) OBVIOUS
<1>2. \A a \in DOMAIN rows : rows[a].first = <<>> /\ rows[a].coverage = covered /\ IsFiniteSet(rows[a].coverage)
  BY <1>1 DEF RowIs, Counts
<1>3. {k \in DOMAIN rows : rows[k].first # <<>>} = {} BY <1>2
<1>4. Len(rows) \in Nat \ {0} /\ DOMAIN rows = 1 .. Len(rows) BY TailIs
<1>5. Cardinality(covered) \in Nat BY <1>2, <1>4, FS_CardinalityType
<1>6. ~(Cardinality(covered) > Cardinality(covered)) BY <1>5
<1>7. \A j, k \in DOMAIN rows : ~(Cardinality(rows[j].coverage) > Cardinality(rows[k].coverage)) BY <1>2, <1>6
<1>8. PICK bests : bests = DOMAIN rows OBVIOUS
<1>9. {k \in DOMAIN rows : \A j \in DOMAIN rows : ~(Cardinality(rows[j].coverage) > Cardinality(rows[k].coverage))} = bests
  BY <1>7, <1>8
<1>10. Best(rows) = rows[Min(bests)].strategy BY <1>3, <1>9, Zenon DEF Best
<1>11. bests \in SUBSET Nat /\ 1 \in bests /\ \A k \in bests : k >= 1 BY <1>4, <1>8
<1>12. Min(bests) \in bests /\ Min(bests) <= 1
  <2>1. bests # {} BY <1>11
  <2>2. Min(bests) \in bests /\ \A m \in bests : Min(bests) <= m BY <1>11, <2>1, MinIsLeast
  <2> QED BY <1>11, <2>2
<1>13. Min(bests) = 1
  <2>1. PICK m : m = Min(bests) OBVIOUS
  <2>2. m \in Nat /\ m >= 1 /\ m <= 1 BY <1>11, <1>12, <2>1
  <2> QED BY <2>1, <2>2
<1> QED BY <1>10, <1>13

LEMMA CompareSearches ==
  ASSUME CampaignOK, SearchOK, Compare
  PROVE  SearchOK'
<1>1. PICK r, o, k : r = hunt.reports /\ o = seed_order(Strategy) /\ k = hunt.strategy OBVIOUS
<1>2. k \in 1 .. 3 /\ hunt.rank \in 0 .. SeedCount
  BY <1>1 DEF Compare, Searching, SearchOK, Turn, HuntOK, SoFar
<1>3. Orders(o) BY <1>1, <1>2, EveryOrder DEF Strategy
<1>4. hunt.rank = SeedCount BY <1>1, <1>2, <1>3, BudgetOK DEF Compare, More, Orders
<1>5. FirstOf(o, SeedCount) = AllSeeds BY <1>3 DEF FirstOf, Orders
<1>6. AllSeeds \subseteq DOMAIN r /\ Counts(hunt.seen, hunt.failures, hunt.first, r, AllSeeds)
  BY <1>1, <1>2, <1>4, <1>5 DEF SearchOK, HuntOK, SoFar
<1>7. PICK row : row = Row OBVIOUS
<1>8. RowIs(row, r) /\ row.strategy = Strategies[k] BY <1>1, <1>6, <1>7 DEF Row, RowIs, Strategy
<1>9. PICK rows : rows = Append(hunt.rows, row) OBVIOUS
<1>10. IsSeq(hunt.rows) /\ Len(hunt.rows) = k - 1 BY <1>1, <1>2 DEF SearchOK, HuntOK, RowsOK
<1>11. /\ IsSeq(rows) /\ DOMAIN rows = 1 .. k /\ DOMAIN hunt.rows = 1 .. k - 1 /\ rows[k] = row
       /\ \A a \in 1 .. k - 1 : rows[a] = hunt.rows[a]
  BY <1>2, <1>9, <1>10, AppendIs
<1>12. Len(rows) = k /\ rows # <<>>
  <2>1. rows \in Seq(ToSet(rows)) BY <1>11 DEF IsSeq
  <2>2. DOMAIN rows = 1 .. Len(rows) /\ Len(rows) \in Nat BY <2>1, LenProperties
  <2> QED BY <1>2, <1>11, <2>2
<1>13. \A a \in DOMAIN rows : RowIs(rows[a], r) BY <1>1, <1>2, <1>8, <1>11 DEF SearchOK, HuntOK, RowsOK
<1>14. rows[1].strategy = "Random"
  <2>1. CASE k = 1 BY <1>8, <1>11, <2>1 DEF Strategies
  <2>2. CASE k # 1
    <3>1. 1 \in DOMAIN hunt.rows BY <1>2, <1>11, <2>2
    <3>2. hunt.rows # <<>> BY <1>2, <1>10, <2>2
    <3>3. hunt.rows[1].strategy = "Random" BY <3>2 DEF SearchOK, HuntOK, RowsOK
    <3> QED BY <1>2, <1>11, <2>2, <3>3
  <2> QED BY <2>1, <2>2
<1>15. PICK best : best = Best(rows) OBVIOUS
<1>16. FailIn(r, AllSeeds) = {} => best = "Random" BY <1>11, <1>12, <1>13, <1>14, <1>15, FirstIsBest
<1>17. hunt' = NewSearch(k + 1, r, rows, best) BY <1>1, <1>7, <1>9, <1>15 DEF Compare
<1>18. /\ HuntFields' /\ hunt'.strategy = k + 1 /\ hunt'.rank = 0 /\ hunt'.seen = {} /\ hunt'.all = {}
       /\ hunt'.candidates = {} /\ hunt'.first = <<>> /\ hunt'.failures = 0 /\ hunt'.reports = r
       /\ hunt'.rows = rows /\ hunt'.best = best
  BY <1>17 DEF NewSearch, HuntFields
<1>19. HuntOK'
  <2>1. ReportsOK' BY <1>1, <1>18 DEF SearchOK, HuntOK, ReportsOK
  <2>2. Retained' BY <1>18, NothingRetained DEF Retained
  <2>3. RowsOK' BY <1>6, <1>11, <1>12, <1>13, <1>14, <1>16, <1>18 DEF RowsOK
  <2>4. SoFar' BY <1>18, NothingCounted DEF SoFar
  <2> QED BY <1>2, <1>18, <2>1, <2>2, <2>3, <2>4 DEF HuntOK
<1>20. UNCHANGED <<tape, world>> /\ job' = IF k = 3 THEN [job EXCEPT !.stage = "done"] ELSE job
  BY <1>1 DEF Compare, worldVars, Strategies
<1>21. Traced' BY <1>20 DEF SearchOK, Traced
<1>22. job.stage = "search" /\ world.phase = "idle"
  BY <1>1, <1>4, BudgetOK DEF Compare, Searching, SearchOK, Turn
<1>23. job'.stage = IF k = 3 THEN "done" ELSE "search" BY <1>20, <1>22 DEF CampaignOK, Given, JobFields
<1>24. Turn' BY <1>2, <1>18, <1>20, <1>22, <1>23 DEF Turn
<1> QED BY <1>19, <1>21, <1>24 DEF SearchOK

LEMMA SearchKeepsOn ==
  ASSUME CampaignOK, ReplayOK, SearchOK, [CampaignNext]_searchVars
  PROVE  SearchOK'
<1>1. WorldOK /\ WorldFields BY DEF CampaignOK, ReplayOK, RunOK
<1>2. CASE WorldStep /\ UNCHANGED <<shr, job, hunt>> BY <1>1, <1>2, WorldSearches
<1>3. CASE ExperimentStep /\ UNCHANGED hunt BY <1>3, ExperimentSearches
<1>4. CASE SearchStep
  BY <1>1, <1>4, SearchSeedSearches, SeedRanSearches, ObserveSearches, CompareSearches DEF SearchStep
<1>5. CASE UNCHANGED searchVars BY <1>5, RestSearches
<1> QED BY <1>2, <1>3, <1>4, <1>5 DEF CampaignNext, Progress, Finished

LEMMA NewSearchOK ==
  ASSUME NEW k \in {1, 4}, hunt = NewSearch(k, <<>>, <<>>, "none") PROVE HuntOK
<1>1. PICK none : none = <<>> OBVIOUS
<1>2. IsSeq(none) /\ DOMAIN none = {} /\ Len(none) = 0 BY <1>1 DEF IsSeq
<1>3. hunt = NewSearch(k, none, none, "none") BY <1>1
<1>4. /\ HuntFields /\ hunt.strategy = k /\ hunt.rank = 0 /\ hunt.seen = {} /\ hunt.all = {}
      /\ hunt.candidates = {} /\ hunt.first = <<>> /\ hunt.failures = 0 /\ hunt.reports = none
      /\ hunt.rows = none
  BY <1>3 DEF NewSearch, HuntFields
<1>5. ReportsOK BY <1>2, <1>4 DEF ReportsOK
<1>6. Retained
  <2>1. PICK e, z : e = {} /\ z = 0 OBVIOUS
  <2>2. Ranked(e, z) /\ Keeps(e, e) /\ z \in Nat BY <2>1, NothingRetained
  <2>3. hunt.all = e /\ hunt.candidates = e /\ hunt.rank = z BY <1>4, <2>1
  <2> QED BY <2>2, <2>3 DEF Retained
<1>7. RowsOK
  <2>1. hunt.strategy \in {1, 4} /\ Len(hunt.rows) = 0 /\ IsSeq(hunt.rows) /\ DOMAIN hunt.rows = {} BY <1>2, <1>4
  <2>2. hunt.rows = <<>> BY <1>1, <1>4
  <2>3. hunt.strategy <= 3 => Len(hunt.rows) = hunt.strategy - 1 BY <2>1
  <2> QED BY <2>1, <2>2, <2>3 DEF RowsOK
<1>8. SoFar BY <1>4, NothingCounted DEF SoFar
<1> QED BY <1>4, <1>5, <1>6, <1>7, <1>8 DEF HuntOK

LEMMA SearchStart == ASSUME CampaignInit PROVE SearchOK
<1>1. PICK k \in {1, 4} : hunt = NewSearch(k, <<>>, <<>>, "none") BY DEF CampaignInit, NoHunt
<1>2. HuntOK /\ hunt.strategy = k
  <2>1. hunt.strategy = k BY <1>1 DEF NewSearch
  <2> QED BY <1>1, <2>1, NewSearchOK
<1>3. Traced
  <2>1. tape = Generating /\ world = Idle BY DEF CampaignInit
  <2>2. PICK none : none = <<>> OBVIOUS
  <2>3. IsSeq(none) BY <2>2 DEF IsSeq
  <2>4. world.fates = none BY <2>1, <2>2 DEF Idle
  <2> QED BY <2>1, <2>3, <2>4, NoLabels DEF Traced
<1>4. world.phase = "idle" BY DEF CampaignInit, Idle
<1>5. \/ job \in Jobs /\ hunt.strategy = 4
      \/ job \in Hunts /\ hunt.strategy = 1
  BY DEF CampaignInit, NoHunt, NewSearch
<1>6. Turn
  <2>1. CASE job \in Jobs /\ hunt.strategy = 4
    <3>1. job = Job(job.tool, job.case, job.budget) BY <2>1, JobsOK
    <3>2. job.stage = "seeds" BY <3>1 DEF Job
    <3> QED BY <2>1, <3>2 DEF Turn
  <2>2. CASE job \in Hunts /\ hunt.strategy = 1
    <3>1. job = [Job("search", job.case, job.budget) EXCEPT !.stage = "search"] BY <2>2, HuntsOK
    <3>2. job.stage = "search" BY <3>1 DEF Job
    <3> QED BY <1>4, <2>2, <3>2 DEF Turn
  <2> QED BY <1>5, <2>1, <2>2
<1> QED BY <1>2, <1>3, <1>6 DEF SearchOK

LEMMA SearchesKeepOn == CampaignSpec => []SearchOK
<1>1. CampaignOK /\ ReplayOK /\ SearchOK /\ [CampaignNext]_searchVars => SearchOK' BY SearchKeepsOn
<1>2. CampaignInit => SearchOK BY SearchStart
<1> QED BY <1>1, <1>2, ToolsKeepState, ReplaysFollow, PTL DEF CampaignSpec

\* Whatever the seeds score and however many are retained, cutting the candidates down
\* after every seed loses none that would be among the best at the end (retain_best).
THEOREM BestAreRetained == CampaignSpec => []RetainedAreBest
<1>1. SearchOK => RetainedAreBest BY DEF SearchOK, HuntOK, Retained, Keeps, RetainedAreBest
<1> QED BY <1>1, SearchesKeepOn, PTL

\* The strategies are compared over the same seeds, each run once, for every number of
\* seeds and every order by stress (seed_order, compare_search_strategies).
THEOREM OrdersAgree == CampaignSpec => []StrategiesAgree
<1>1. ASSUME SearchOK PROVE StrategiesAgree
  <2>1. PICK F : F = FailIn(hunt.reports, AllSeeds) OBVIOUS
  <2>2. \A a \in DOMAIN hunt.rows :
          /\ hunt.rows[a].failures = Cardinality(F)
          /\ hunt.rows[a].coverage = CoveredBy(hunt.reports, AllSeeds)
    BY <1>1, <2>1 DEF SearchOK, HuntOK, RowsOK, RowIs, Counts
  <2>3. ASSUME NEW a \in DOMAIN hunt.rows, hunt.rows[a].failures = 0 PROVE hunt.best = "Random"
    <3>1. F \in SUBSET AllSeeds BY <2>1 DEF FailIn
    <3>2. IsFiniteSet(AllSeeds) BY BudgetOK, FS_Interval DEF AllSeeds
    <3>3. IsFiniteSet(F) BY <3>1, <3>2, FS_Subset
    <3>4. F = {} BY <2>2, <2>3, <3>3, FS_EmptySet
    <3>5. hunt.rows # <<>>
      <4>1. DOMAIN <<>> = {} OBVIOUS
      <4> QED BY <2>3, <4>1
    <3> QED BY <1>1, <2>1, <3>4, <3>5 DEF SearchOK, HuntOK, RowsOK
  <2> QED BY <2>2, <2>3 DEF StrategiesAgree
<1> QED BY <1>1, SearchesKeepOn, PTL
=============================================================================

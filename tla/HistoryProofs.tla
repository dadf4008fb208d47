---------------------------- MODULE HistoryProofs ----------------------------
(***************************************************************************)
(* The history checkers are right about every history, sequential model    *)
(* and budget: an order they report is legal, a history they reject has no *)
(* legal order, and so has the sub-history they report.                    *)
(***************************************************************************)
EXTENDS HistoryCheck, FiniteSetTheorems, SequenceTheorems, TLAPS

-----------------------------------------------------------------------------
(* Functions computed step by step *)

\* A set of numbers has a least one.
LEMMA Least ==
  ASSUME NEW T \in SUBSET Nat, T # {}
  PROVE  \E n \in T : \A m \in T : n <= m
<1> DEFINE order_ == OpToRel(<, Nat)
<1>1. IsWellFoundedOn(order_, Nat) BY NatLessThanWellFounded
<1>2. \E n \in T : \A m \in T : ~(<<m, n>> \in order_) BY <1>1, WFMin, Zenon
<1>3. PICK n \in T : \A m \in T : ~(<<m, n>> \in order_) BY <1>2
<1>4. \A m, k \in Nat : m < k => <<m, k>> \in order_ BY Zenon DEF OpToRel
<1> HIDE DEF order_
<1>5. ASSUME NEW m \in T PROVE n <= m
  <2>1. ~(m < n) BY <1>3, <1>4
  <2> QED BY <2>1
<1> QED BY <1>3, <1>5

\* What holds at 0, and at n when it holds at n - 1, holds up to any number: the set
\* of numbers where it does not has no least element.
LEMMA Climb ==
  ASSUME NEW N \in Nat, NEW Bad, 0 \notin Bad,
         \A n \in 1 .. N : n \in Bad => n - 1 \in Bad
  PROVE  \A n \in 0 .. N : n \notin Bad
<1> DEFINE T == {n \in 0 .. N : n \in Bad}
<1>1. SUFFICES ASSUME T # {} PROVE FALSE OBVIOUS
<1>2. PICK n \in T : \A m \in T : n <= m
  <2>1. T \in SUBSET Nat OBVIOUS
  <2> HIDE DEF T
  <2> QED BY <1>1, <2>1, Least
<1>3. n \in 1 .. N /\ n \in Bad
  <2>1. n # 0 BY <1>2
  <2> QED BY <1>2, <2>1
<1>4. n - 1 \in Bad /\ n - 1 \in 0 .. N /\ ~(n <= n - 1) BY <1>3
<1> QED BY <1>2, <1>4

\* The functions apply_txn, a run and the filter are computed with.
TxnSteps(g, s, actions, N) == g = [n \in 0 .. N |-> IF n = 0 THEN {s} ELSE Act(g[n - 1], actions[n])]

RunSteps(g, o, from, N) ==
  g = [n \in 0 .. N |-> IF n = 0 THEN from ELSE UNION {Apply(o[n], s) : s \in g[n - 1]}]

FilterSteps(g, c, N) ==
  g = [n \in 0 .. N |-> IF n = 0 THEN <<>>
                        ELSE IF n \in Checked(c) THEN Append(g[n - 1], n) ELSE g[n - 1]]

LEMMA TxnStepsExist ==
  ASSUME NEW s, NEW actions, NEW N \in Nat
  PROVE  \E g : TxnSteps(g, s, actions, N)
<1> DEFINE Bad == {n \in 0 .. N : ~ \E g : TxnSteps(g, s, actions, n)}
<1>1. 0 \notin Bad
  <2> DEFINE g == [n \in 0 .. 0 |-> {s}]
  <2>1. g = [n \in 0 .. 0 |-> IF n = 0 THEN {s} ELSE Act(g[n - 1], actions[n])] OBVIOUS
  <2>2. TxnSteps(g, s, actions, 0) BY <2>1 DEF TxnSteps
  <2> QED BY <2>2
<1>2. ASSUME NEW m \in 1 .. N, m - 1 \notin Bad PROVE m \notin Bad
  <2>1. m - 1 \in 0 .. N OBVIOUS
  <2>2. PICK h : TxnSteps(h, s, actions, m - 1) BY <1>2, <2>1
  <2> DEFINE g == [n \in 0 .. m |-> IF n = m THEN Act(h[n - 1], actions[n]) ELSE h[n]]
  <2>3. \A n \in 0 .. m - 1 : h[n] = IF n = 0 THEN {s} ELSE Act(h[n - 1], actions[n])
    BY <2>2 DEF TxnSteps
  <2>4. ASSUME NEW n \in 0 .. m
        PROVE  g[n] = IF n = 0 THEN {s} ELSE Act(g[n - 1], actions[n])
    <3>1. CASE n = 0
      <4>1. n \in 0 .. m - 1 /\ n # m BY <3>1
      <4>2. g[n] = h[n] BY <4>1
      <4> QED BY <2>3, <3>1, <4>1, <4>2
    <3>2. CASE n # 0
      <4>1. n - 1 \in 0 .. m - 1 /\ n - 1 # m /\ n - 1 \in 0 .. m BY <3>2
      <4>2. g[n - 1] = h[n - 1] BY <4>1
      <4>3. CASE n = m BY <3>2, <4>2, <4>3
      <4>4. CASE n # m
        <5>1. n \in 0 .. m - 1 BY <4>4
        <5> QED BY <2>3, <3>2, <4>2, <4>4, <5>1
      <4> QED BY <4>3, <4>4
    <3> QED BY <3>1, <3>2
  <2>5. DOMAIN g = 0 .. m OBVIOUS
  <2>6. g = [n \in 0 .. m |-> g[n]] OBVIOUS
  <2> HIDE DEF g
  <2>7. TxnSteps(g, s, actions, m) BY <2>4, <2>6 DEF TxnSteps
  <2> QED BY <2>7
<1> HIDE DEF Bad
<1>3. \A n \in 0 .. N : n \notin Bad BY <1>1, <1>2, Climb
<1>4. N \in 0 .. N OBVIOUS
<1> QED BY <1>3, <1>4 DEF Bad

LEMMA RunStepsExist ==
  ASSUME NEW o, NEW from, NEW N \in Nat
  PROVE  \E g : RunSteps(g, o, from, N)
<1> DEFINE Bad == {n \in 0 .. N : ~ \E g : RunSteps(g, o, from, n)}
<1>1. 0 \notin Bad
  <2> DEFINE g == [n \in 0 .. 0 |-> from]
  <2>1. g = [n \in 0 .. 0 |-> IF n = 0 THEN from ELSE UNION {Apply(o[n], s) : s \in g[n - 1]}] OBVIOUS
  <2>2. RunSteps(g, o, from, 0) BY <2>1 DEF RunSteps
  <2> QED BY <2>2
<1>2. ASSUME NEW m \in 1 .. N, m - 1 \notin Bad PROVE m \notin Bad
  <2>1. m - 1 \in 0 .. N OBVIOUS
  <2>2. PICK h : RunSteps(h, o, from, m - 1) BY <1>2, <2>1
  <2> DEFINE g == [n \in 0 .. m |-> IF n = m THEN UNION {Apply(o[n], s) : s \in h[n - 1]} ELSE h[n]]
  <2>3. \A n \in 0 .. m - 1 : h[n] = IF n = 0 THEN from ELSE UNION {Apply(o[n], s) : s \in h[n - 1]}
    BY <2>2 DEF RunSteps
  <2>4. ASSUME NEW n \in 0 .. m
        PROVE  g[n] = IF n = 0 THEN from ELSE UNION {Apply(o[n], s) : s \in g[n - 1]}
    <3>1. CASE n = 0
      <4>1. n \in 0 .. m - 1 /\ n # m BY <3>1
      <4>2. g[n] = h[n] BY <4>1
      <4> QED BY <2>3, <3>1, <4>1, <4>2
    <3>2. CASE n # 0
      <4>1. n - 1 \in 0 .. m - 1 /\ n - 1 # m /\ n - 1 \in 0 .. m BY <3>2
      <4>2. g[n - 1] = h[n - 1] BY <4>1
      <4>3. CASE n = m BY <3>2, <4>2, <4>3
      <4>4. CASE n # m
        <5>1. n \in 0 .. m - 1 BY <4>4
        <5> QED BY <2>3, <3>2, <4>2, <4>4, <5>1
      <4> QED BY <4>3, <4>4
    <3> QED BY <3>1, <3>2
  <2>5. DOMAIN g = 0 .. m OBVIOUS
  <2>6. g = [n \in 0 .. m |-> g[n]] OBVIOUS
  <2> HIDE DEF g
  <2>7. RunSteps(g, o, from, m) BY <2>4, <2>6 DEF RunSteps
  <2> QED BY <2>7
<1> HIDE DEF Bad
<1>3. \A n \in 0 .. N : n \notin Bad BY <1>1, <1>2, Climb
<1>4. N \in 0 .. N OBVIOUS
<1> QED BY <1>3, <1>4 DEF Bad

LEMMA FilterStepsExist ==
  ASSUME NEW c, NEW N \in Nat
  PROVE  \E g : FilterSteps(g, c, N)
<1> DEFINE Bad == {n \in 0 .. N : ~ \E g : FilterSteps(g, c, n)}
<1>1. 0 \notin Bad
  <2> DEFINE g == [n \in 0 .. 0 |-> <<>>]
  <2>1. g = [n \in 0 .. 0 |-> IF n = 0 THEN <<>> ELSE (IF n \in Checked(c) THEN Append(g[n - 1], n) ELSE g[n - 1])] OBVIOUS
  <2>2. FilterSteps(g, c, 0) BY <2>1 DEF FilterSteps
  <2> QED BY <2>2
<1>2. ASSUME NEW m \in 1 .. N, m - 1 \notin Bad PROVE m \notin Bad
  <2>1. m - 1 \in 0 .. N OBVIOUS
  <2>2. PICK h : FilterSteps(h, c, m - 1) BY <1>2, <2>1
  <2> DEFINE g == [n \in 0 .. m |-> IF n = m THEN (IF n \in Checked(c) THEN Append(h[n - 1], n) ELSE h[n - 1]) ELSE h[n]]
  <2>3. \A n \in 0 .. m - 1 : h[n] = IF n = 0 THEN <<>> ELSE (IF n \in Checked(c) THEN Append(h[n - 1], n) ELSE h[n - 1])
    BY <2>2 DEF FilterSteps
  <2>4. ASSUME NEW n \in 0 .. m
        PROVE  g[n] = IF n = 0 THEN <<>> ELSE (IF n \in Checked(c) THEN Append(g[n - 1], n) ELSE g[n - 1])
    <3>1. CASE n = 0
      <4>1. n \in 0 .. m - 1 /\ n # m BY <3>1
      <4>2. g[n] = h[n] BY <4>1
      <4> QED BY <2>3, <3>1, <4>1, <4>2
    <3>2. CASE n # 0
      <4>1. n - 1 \in 0 .. m - 1 /\ n - 1 # m /\ n - 1 \in 0 .. m BY <3>2
      <4>2. g[n - 1] = h[n - 1] BY <4>1
      <4>3. CASE n = m BY <3>2, <4>2, <4>3
      <4>4. CASE n # m
        <5>1. n \in 0 .. m - 1 BY <4>4
        <5> QED BY <2>3, <3>2, <4>2, <4>4, <5>1
      <4> QED BY <4>3, <4>4
    <3> QED BY <3>1, <3>2
  <2>5. DOMAIN g = 0 .. m OBVIOUS
  <2>6. g = [n \in 0 .. m |-> g[n]] OBVIOUS
  <2> HIDE DEF g
  <2>7. FilterSteps(g, c, m) BY <2>4, <2>6 DEF FilterSteps
  <2> QED BY <2>7
<1> HIDE DEF Bad
<1>3. \A n \in 0 .. N : n \notin Bad BY <1>1, <1>2, Climb
<1>4. N \in 0 .. N OBVIOUS
<1> QED BY <1>3, <1>4 DEF Bad

\* What the functions do at each step.
LEMMA TxnStepsTaken ==
  ASSUME NEW txn, NEW s, Len(txn.actions) \in Nat
  PROVE  \E g : TxnSteps(g, s, txn.actions, Len(txn.actions))
                /\ ApplyTxn(txn, s) = g[Len(txn.actions)]
<1> DEFINE g == CHOOSE h : TxnSteps(h, s, txn.actions, Len(txn.actions))
<1>1. TxnSteps(g, s, txn.actions, Len(txn.actions)) BY TxnStepsExist
<1>2. ApplyTxn(txn, s) = g[Len(txn.actions)] BY Zenon DEF ApplyTxn, TxnSteps
<1> QED BY <1>1, <1>2

LEMMA RunStepsTaken ==
  ASSUME NEW o, NEW from, Len(o) \in Nat
  PROVE  \E g : RunSteps(g, o, from, Len(o)) /\ Run(o, from) = g[Len(o)]
<1> DEFINE g == CHOOSE h : RunSteps(h, o, from, Len(o))
<1>1. RunSteps(g, o, from, Len(o)) BY RunStepsExist
<1>2. Run(o, from) = g[Len(o)] BY Zenon DEF Run, RunSteps
<1> QED BY <1>1, <1>2

LEMMA FilterStepsTaken ==
  ASSUME NEW c, Len(c.history) \in Nat
  PROVE  \E g : FilterSteps(g, c, Len(c.history)) /\ Filtered(c) = g[Len(c.history)]
<1> DEFINE g == CHOOSE h : FilterSteps(h, c, Len(c.history))
<1>1. FilterSteps(g, c, Len(c.history)) BY FilterStepsExist
<1>2. Filtered(c) = g[Len(c.history)] BY Zenon DEF Filtered, FilterSteps
<1> QED BY <1>1, <1>2

\* A set with one element at most.
Single(S) == \A x, y \in S : x = y

\* A transaction leads to one state or to none.
LEMMA TxnSingle ==
  ASSUME NEW txn, NEW s, Len(txn.actions) \in Nat
  PROVE  Single(ApplyTxn(txn, s))
<1> DEFINE as == txn.actions
           N == Len(txn.actions)
<1>1. PICK g : TxnSteps(g, s, as, N) /\ ApplyTxn(txn, s) = g[N] BY TxnStepsTaken
<1>2. \A n \in 0 .. N : g[n] = IF n = 0 THEN {s} ELSE Act(g[n - 1], as[n]) BY <1>1 DEF TxnSteps
<1> DEFINE Bad == {n \in 0 .. N : ~Single(g[n])}
<1>3. 0 \notin Bad
  <2>1. 0 \in 0 .. N OBVIOUS
  <2>2. g[0] = {s} BY <1>2, <2>1
  <2> QED BY <2>2 DEF Single
<1>4. ASSUME NEW n \in 1 .. N, n - 1 \notin Bad PROVE n \notin Bad
  <2>1. n \in 0 .. N /\ n # 0 /\ n - 1 \in 0 .. N OBVIOUS
  <2>2. Single(g[n - 1]) /\ g[n] = Act(g[n - 1], as[n]) BY <1>2, <1>4, <2>1
  <2>3. ASSUME NEW S, NEW a, Single(S) PROVE Single(Act(S, a))
    BY <2>3 DEF Single, Act
  <2> QED BY <2>2, <2>3
<1> HIDE DEF Bad
<1>5. \A n \in 0 .. N : n \notin Bad BY <1>3, <1>4, Climb
<1>6. N \in 0 .. N OBVIOUS
<1>7. Single(g[N]) BY <1>5, <1>6 DEF Bad
<1> QED BY <1>1, <1>7

\* The history of a check has as many records as it has numbers for them.
LEMMA CallTypes ==
  ASSUME call \in Checks
  PROVE  /\ Len(call.history) \in Nat /\ DOMAIN call.history = 1 .. Len(call.history)
         /\ Checked(call) \subseteq 1 .. Len(call.history)
         /\ \A i \in Checked(call) : Rec(i).invoke \in Nat /\ Rec(i).complete \in Nat
         /\ call.budget \in Nat
<1>1. IsSeq(call.history) /\ call.budget \in Nat BY ChecksOK
<1>2. Len(call.history) \in Nat /\ DOMAIN call.history = 1 .. Len(call.history)
  BY <1>1, LenProperties DEF IsSeq
<1>3. Checked(call) \subseteq DOMAIN call.history BY DEF Checked
<1>4. ASSUME NEW i \in Checked(call) PROVE Rec(i).invoke \in Nat /\ Rec(i).complete \in Nat
  <2>1. Rec(i).invoke \in Nat /\ Rec(i).complete \in Nat \union {None} BY <1>3, ChecksOK DEF Rec
  <2>2. Rec(i).complete # None BY DEF Checked, IsComplete, IsCommitted, Rec
  <2> QED BY <2>1, <2>2
<1> QED BY <1>1, <1>2, <1>3, <1>4

\* So does any record.
LEMMA ApplySingle ==
  ASSUME call \in Checks, NEW i \in Checked(call), NEW s
  PROVE  Single(Apply(i, s))
<1>1. CASE Transactional
  <2>1. i \in DOMAIN call.history BY DEF Checked
  <2>2. IsSeq(Rec(i).actions) BY <1>1, <2>1, ChecksOK DEF Transactional, Rec
  <2>3. Len(Rec(i).actions) \in Nat BY <2>2, LenProperties DEF IsSeq
  <2>4. Single(ApplyTxn(Rec(i), s)) BY <2>3, TxnSingle
  <2> QED BY <1>1, <2>4 DEF Apply
<1>2. CASE ~Transactional
  <2>1. \A S, v : Single({r[1] : r \in {r \in {S} : r[2] = v}}) BY DEF Single
  <2>2. Single(OpApply(Rec(i), s)) BY <2>1 DEF OpApply
  <2> QED BY <1>2, <2>2 DEF Apply
<1> QED BY <1>1, <1>2

-----------------------------------------------------------------------------
(* Orders and the states along them *)

\* The states t along the order o, from s on.
Along(o, s, t) ==
  /\ t[0] = s
  /\ \A n \in 1 .. Len(o) : t[n] \in Apply(o[n], t[n - 1])

\* A run reaches the states that end such a sequence.
LEMMA RunReaches ==
  ASSUME NEW o, NEW s, Len(o) \in Nat
  PROVE  /\ \A t : Along(o, s, t) => t[Len(o)] \in Run(o, {s})
         /\ \A x \in Run(o, {s}) : \E t : Along(o, s, t) /\ t[Len(o)] = x
<1> DEFINE N == Len(o)
<1>1. PICK g : RunSteps(g, o, {s}, N) /\ Run(o, {s}) = g[N] BY RunStepsTaken
<1>2. \A n \in 0 .. N : g[n] = IF n = 0 THEN {s} ELSE UNION {Apply(o[n], x) : x \in g[n - 1]}
  BY <1>1 DEF RunSteps
<1>3. N \in 0 .. N OBVIOUS
<1>4. ASSUME NEW t, Along(o, s, t) PROVE t[N] \in g[N]
  <2> DEFINE Bad == {n \in 0 .. N : t[n] \notin g[n]}
  <2>1. 0 \notin Bad
    <3>1. g[0] = {s}
      <4>1. 0 \in 0 .. N OBVIOUS
      <4> QED BY <1>2, <4>1
    <3> QED BY <1>4, <3>1 DEF Along
  <2>2. ASSUME NEW n \in 1 .. N, n - 1 \notin Bad PROVE n \notin Bad
    <3>1. n \in 0 .. N /\ n # 0 /\ n - 1 \in 0 .. N OBVIOUS
    <3>2. t[n - 1] \in g[n - 1] BY <2>2, <3>1
    <3>3. t[n] \in Apply(o[n], t[n - 1]) BY <1>4 DEF Along
    <3>4. g[n] = UNION {Apply(o[n], x) : x \in g[n - 1]} BY <1>2, <3>1
    <3> QED BY <3>2, <3>3, <3>4
  <2> HIDE DEF Bad
  <2>3. \A n \in 0 .. N : n \notin Bad BY <2>1, <2>2, Climb
  <2> QED BY <1>3, <2>3 DEF Bad
<1>5. \A x \in g[N] : \E t : Along(o, s, t) /\ t[N] = x
  <2> DEFINE Upto(t, n) == t[0] = s /\ \A m \in 1 .. n : t[m] \in Apply(o[m], t[m - 1])
             Reached(n) == \A x \in g[n] : \E t : Upto(t, n) /\ t[n] = x
             Bad == {n \in 0 .. N : ~Reached(n)}
  <2>1. 0 \notin Bad
    <3>1. g[0] = {s}
      <4>1. 0 \in 0 .. N OBVIOUS
      <4> QED BY <1>2, <4>1
    <3>2. ASSUME NEW x \in g[0] PROVE \E t : Upto(t, 0) /\ t[0] = x
      <4> DEFINE t == [m \in {0} |-> s]
      <4>1. Upto(t, 0) /\ t[0] = x BY <3>1
      <4> QED BY <4>1
    <3> QED BY <3>2
  <2>2. ASSUME NEW n \in 1 .. N, n - 1 \notin Bad PROVE n \notin Bad
    <3>1. n \in 0 .. N /\ n # 0 /\ n - 1 \in 0 .. N OBVIOUS
    <3>2. Reached(n - 1) BY <2>2, <3>1
    <3>3. ASSUME NEW x \in g[n] PROVE \E t : Upto(t, n) /\ t[n] = x
      <4>1. g[n] = UNION {Apply(o[n], y) : y \in g[n - 1]} BY <1>2, <3>1
      <4>2. PICK y \in g[n - 1] : x \in Apply(o[n], y) BY <3>3, <4>1
      <4>3. PICK t : Upto(t, n - 1) /\ t[n - 1] = y BY <3>2
      <4> DEFINE u == [m \in 0 .. n |-> IF m = n THEN x ELSE t[m]]
      <4>4. u[0] = s /\ u[n] = x /\ u[n - 1] = y BY <4>3
      <4>5. ASSUME NEW m \in 1 .. n PROVE u[m] \in Apply(o[m], u[m - 1])
        <5>1. CASE m = n BY <4>2, <4>4, <5>1
        <5>2. CASE m # n
          <6>1. m \in 1 .. n - 1 /\ u[m] = t[m] /\ u[m - 1] = t[m - 1] BY <5>2
          <6> QED BY <4>3, <6>1
        <5> QED BY <5>1, <5>2
      <4> HIDE DEF u
      <4> QED BY <4>4, <4>5
    <3> QED BY <3>3
  <2> HIDE DEF Bad, Reached
  <2>3. \A n \in 0 .. N : n \notin Bad BY <2>1, <2>2, Climb
  <2>4. Reached(N) BY <1>3, <2>3 DEF Bad
  <2> QED BY <2>4 DEF Reached, Along
<1> QED BY <1>1, <1>4, <1>5

LEMMA FunctionIsSeq ==
  ASSUME NEW S, NEW n \in Nat, NEW f \in [1 .. n -> S]
  PROVE  f \in Seq(S) /\ Len(f) = n
<1>1. f = [i \in 1 .. n |-> f[i]] OBVIOUS
<1>2. \A i \in 1 .. n : f[i] \in S OBVIOUS
<1> QED BY <1>1, <1>2, IsASeq

\* No two places of a sequence have the same record.
Distinct(o) == \A i, j \in DOMAIN o : i # j => o[i] # o[j]

LEMMA LegalMeans ==
  ASSUME NEW S, IsFiniteSet(S), NEW s, NEW o
  PROVE  o \in LegalFrom(S, s) <=>
           /\ o \in [1 .. Cardinality(S) -> S] /\ Distinct(o) /\ InRealTime(o)
           /\ \E t : Along(o, s, t)
<1>1. Cardinality(S) \in Nat BY FS_CardinalityType
<1>2. o \in SetToSeqs(S) <=> o \in [1 .. Cardinality(S) -> S] /\ Distinct(o)
  BY DEF SetToSeqs, Distinct
<1>3. ASSUME o \in [1 .. Cardinality(S) -> S] PROVE Run(o, {s}) # {} <=> \E t : Along(o, s, t)
  <2>1. Len(o) \in Nat BY <1>1, <1>3, FunctionIsSeq
  <2> QED BY <2>1, RunReaches
<1> QED BY <1>2, <1>3 DEF LegalFrom

\* A distinct sequence has all elements of a set as soon as it is as long.
LEMMA AllPlaced ==
  ASSUME NEW S, IsFiniteSet(S), NEW o \in [1 .. Cardinality(S) -> S], Distinct(o)
  PROVE  \A i \in S : \E k \in 1 .. Cardinality(S) : o[k] = i
<1> DEFINE n == Cardinality(S)
<1>1. n \in Nat BY FS_CardinalityType
<1>2. IsFiniteSet(1 .. n) /\ Cardinality(1 .. n) = n BY <1>1, FS_Interval
<1>3. o \in Injection(1 .. n, S) BY DEF Injection, IsInjective, Distinct
<1>4. o \in Surjection(1 .. n, S) BY <1>2, <1>3, FS_Injection
<1> QED BY <1>4 DEF Surjection

\* The converse: one that has them all is as long.
LEMMA LengthIsSize ==
  ASSUME NEW S, NEW n \in Nat, NEW o \in [1 .. n -> S], Distinct(o),
         \A i \in S : \E k \in 1 .. n : o[k] = i
  PROVE  IsFiniteSet(S) /\ Cardinality(S) = n
<1>1. o \in Bijection(1 .. n, S)
  BY DEF Bijection, Injection, IsInjective, Surjection, Distinct
<1>2. ExistsBijection(1 .. n, S) BY <1>1 DEF ExistsBijection
<1> QED BY <1>2, FS_CountingElements, FS_NatBijection

LEMMA NothingIsLegal ==
  ASSUME NEW s
  PROVE  LegalFrom({}, s) # {}
<1>1. IsFiniteSet({}) /\ Cardinality({}) = 0 BY FS_EmptySet
<1> DEFINE o == <<>>
           t == [n \in {0} |-> s]
<1>2. o \in [1 .. 0 -> {}] OBVIOUS
<1>3. Distinct(o) /\ InRealTime(o) BY DEF Distinct, InRealTime
<1>4. Len(o) = 0 OBVIOUS
<1>5. Along(o, s, t) BY <1>4 DEF Along
<1>6. o \in LegalFrom({}, s) BY <1>1, <1>2, <1>3, <1>5, LegalMeans
<1> QED BY <1>6

\* A legal order has a first record: nothing that is left has ended before it began,
\* and the rest has a legal order from the state it leads to.
LEMMA FirstOfLegal ==
  ASSUME NEW S, IsFiniteSet(S), S # {}, NEW s, LegalFrom(S, s) # {}
  PROVE  \E i \in S : /\ \A j \in S \ {i} : ~Before(Rec(j), Rec(i))
                      /\ \E x \in Apply(i, s) : LegalFrom(S \ {i}, x) # {}
<1> DEFINE n == Cardinality(S)
<1>1. n \in Nat /\ n # 0 BY FS_CardinalityType, FS_EmptySet
<1>2. PICK o : o \in LegalFrom(S, s) OBVIOUS
<1>3. PICK t : Along(o, s, t) BY <1>2, LegalMeans
<1>4. o \in [1 .. n -> S] /\ Distinct(o) /\ InRealTime(o) BY <1>2, LegalMeans
<1>5. Len(o) = n /\ DOMAIN o = 1 .. n BY <1>1, <1>4, FunctionIsSeq
<1> DEFINE i == o[1]
           R == S \ {i}
           p == [k \in 1 .. n - 1 |-> o[k + 1]]
           u == [k \in 0 .. n - 1 |-> t[k + 1]]
<1>6. i \in S /\ t[1] \in Apply(i, s) BY <1>1, <1>3, <1>4, <1>5 DEF Along
<1>7. IsFiniteSet(R) /\ Cardinality(R) = n - 1 BY <1>6, FS_RemoveElement
<1>8. \A j \in R : ~Before(Rec(j), Rec(i))
  <2> SUFFICES ASSUME NEW j \in R PROVE ~Before(Rec(j), Rec(i)) OBVIOUS
  <2>1. PICK k \in 1 .. n : o[k] = j BY <1>4, AllPlaced
  <2>2. k # 1 /\ 1 \in 1 .. k - 1 BY <2>1, <1>1
  <2> QED BY <1>4, <1>5, <2>1, <2>2 DEF InRealTime
<1>9. LegalFrom(R, t[1]) # {}
  <2>1. n - 1 \in Nat BY <1>1
  <2>2. p \in [1 .. n - 1 -> R]
    <3>1. ASSUME NEW k \in 1 .. n - 1 PROVE o[k + 1] \in R
      <4>1. k + 1 \in 1 .. n /\ 1 \in 1 .. n /\ k + 1 # 1 BY <1>1
      <4> QED BY <1>4, <1>5, <4>1 DEF Distinct
    <3> QED BY <3>1
  <2>3. DOMAIN p = 1 .. n - 1 /\ \A k \in 1 .. n - 1 : p[k] = o[k + 1] /\ k + 1 \in 1 .. n
    BY <1>1
  <2>4. Len(p) = n - 1 BY <2>1, <2>2, FunctionIsSeq
  <2>5. \A k \in 0 .. n - 1 : u[k] = t[k + 1] OBVIOUS
  <2> HIDE DEF p, u, n
  <2>6. Distinct(p)
    <3> SUFFICES ASSUME NEW k \in 1 .. n - 1, NEW m \in 1 .. n - 1, k # m PROVE p[k] # p[m]
      BY <2>3 DEF Distinct
    <3>1. k + 1 # m + 1 OBVIOUS
    <3> QED BY <1>4, <1>5, <2>3, <3>1 DEF Distinct
  <2>7. InRealTime(p)
    <3> SUFFICES ASSUME NEW m \in 1 .. n - 1, NEW k \in 1 .. m - 1
                 PROVE  ~Before(Rec(p[m]), Rec(p[k]))
      BY <2>3 DEF InRealTime
    <3>1. k + 1 \in 1 .. (m + 1) - 1 /\ k \in 1 .. n - 1 BY <1>1
    <3> QED BY <1>4, <1>5, <2>3, <3>1 DEF InRealTime
  <2>8. Along(p, t[1], u)
    <3>1. u[0] = t[1] BY <2>1, <2>5
    <3>2. ASSUME NEW k \in 1 .. n - 1 PROVE u[k] \in Apply(p[k], u[k - 1])
      <4>1. k \in 0 .. n - 1 /\ k - 1 \in 0 .. n - 1 /\ (k - 1) + 1 = k /\ (k + 1) - 1 = k BY <1>1
      <4>2. t[k + 1] \in Apply(o[k + 1], t[k]) BY <1>3, <1>5, <2>3, <4>1 DEF Along
      <4>3. u[k] = t[k + 1] /\ u[k - 1] = t[k] BY <2>5, <4>1
      <4> QED BY <2>3, <4>2, <4>3
    <3> QED BY <2>4, <3>1, <3>2 DEF Along
  <2>9. p \in LegalFrom(R, t[1]) BY <1>7, <2>2, <2>6, <2>7, <2>8, LegalMeans
  <2> QED BY <2>9
<1> HIDE DEF i, R
<1> QED BY <1>6, <1>8, <1>9 DEF R

\* As a formula that holds in every state.
LEMMA LegalAnywhere ==
  \A S, s, o : IsFiniteSet(S) =>
    (o \in LegalFrom(S, s) <=>
       /\ o \in [1 .. Cardinality(S) -> S] /\ Distinct(o) /\ InRealTime(o)
       /\ \E t : Along(o, s, t))
BY LegalMeans

\* What is legal depends on the arguments of the check only.
LEMMA SameLaw ==
  ASSUME UNCHANGED call
  PROVE  /\ \A i, s : Apply(i, s)' = Apply(i, s)
         /\ \A i : Rec(i)' = Rec(i)
         /\ \A S, s : IsFiniteSet(S) => LegalFrom(S, s)' = LegalFrom(S, s)
<1>1. \A i : Rec(i)' = Rec(i) BY DEF Rec
<1>2. Transactional' = Transactional BY DEF Transactional
<1>3. \A op, s : OpApply(op, s)' = OpApply(op, s) BY DEF OpApply, ModelStep
<1>4. \A i, s : Apply(i, s)' = Apply(i, s) BY <1>1, <1>2, <1>3 DEF Apply, Rec
<1>5. \A o, s, t : Along(o, s, t)' <=> Along(o, s, t) BY <1>4 DEF Along
<1>6. \A o : InRealTime(o)' <=> InRealTime(o) BY <1>1 DEF InRealTime
<1>7. (\A S, s, o : IsFiniteSet(S) =>
        (o \in LegalFrom(S, s) <=>
           /\ o \in [1 .. Cardinality(S) -> S] /\ Distinct(o) /\ InRealTime(o)
           /\ \E t : Along(o, s, t)))'
  BY LegalAnywhere, PTL
<1>8. ASSUME NEW S, NEW s, IsFiniteSet(S) PROVE LegalFrom(S, s)' = LegalFrom(S, s)
  <2>1. \A o : o \in LegalFrom(S, s)' <=> o \in LegalFrom(S, s)
    BY <1>5, <1>6, <1>7, <1>8, LegalAnywhere
  <2>2. LegalFrom(S, s)' \subseteq LegalFrom(S, s) /\ LegalFrom(S, s) \subseteq LegalFrom(S, s)'
    BY <2>1
  <2> QED BY <2>2
<1> QED BY <1>1, <1>4, <1>8

-----------------------------------------------------------------------------
(* Sequences that list a set *)

\* q lists the elements of S, each once.
Listing(q, S) == q \in Seq(S) /\ Distinct(q) /\ ToSet(q) = S

LEMMA ListingIs ==
  ASSUME NEW S, NEW q, Listing(q, S)
  PROVE  /\ Len(q) \in Nat /\ DOMAIN q = 1 .. Len(q) /\ q \in [1 .. Len(q) -> S]
         /\ IsFiniteSet(S) /\ Cardinality(S) = Len(q)
         /\ \A x \in S : \E k \in 1 .. Len(q) : q[k] = x
<1>1. Len(q) \in Nat /\ DOMAIN q = 1 .. Len(q) /\ q \in [1 .. Len(q) -> S]
  BY LenProperties, ElementOfSeq DEF Listing
<1>2. \A x \in S : \E k \in 1 .. Len(q) : q[k] = x BY <1>1 DEF Listing, ToSet
<1>3. Distinct(q) BY DEF Listing
<1> QED BY <1>1, <1>2, <1>3, LengthIsSize

\* The other way round.
LEMMA ListingFrom ==
  ASSUME NEW S, NEW n \in Nat, NEW q \in [1 .. n -> S], Distinct(q),
         \A x \in S : \E k \in 1 .. n : q[k] = x
  PROVE  Listing(q, S) /\ Len(q) = n
<1>1. q \in Seq(S) /\ Len(q) = n BY FunctionIsSeq
<1>2. ToSet(q) = S BY DEF ToSet
<1> QED BY <1>1, <1>2 DEF Listing

\* Elements of a longer sequence, whatever they are.
LEMMA Appended ==
  ASSUME NEW q, IsSeq(q), NEW x
  PROVE  /\ IsSeq(Append(q, x)) /\ Len(q) \in Nat /\ Len(Append(q, x)) = Len(q) + 1
         /\ Append(q, x)[Len(q) + 1] = x /\ \A i \in 1 .. Len(q) : Append(q, x)[i] = q[i]
         /\ DOMAIN q = 1 .. Len(q) /\ DOMAIN Append(q, x) = 1 .. Len(q) + 1
<1> DEFINE T == ToSet(q) \union {x}
           r == Append(q, x)
<1>1. q \in Seq(ToSet(q)) BY DEF IsSeq
<1>2. Len(q) \in Nat /\ DOMAIN q = 1 .. Len(q) /\ \A i \in 1 .. Len(q) : q[i] \in ToSet(q)
  BY <1>1, LenProperties, ElementOfSeq
<1>3. q = [i \in 1 .. Len(q) |-> q[i]]
  <2>1. q = [i \in DOMAIN q |-> q[i]] BY <1>1
  <2> QED BY <1>2, <2>1
<1>4. q \in Seq(T)
  <2>1. \A i \in 1 .. Len(q) : q[i] \in T BY <1>2
  <2> HIDE DEF T
  <2>2. [i \in 1 .. Len(q) |-> q[i]] \in Seq(T) BY <1>2, <2>1, IsASeq
  <2> QED BY <1>3, <2>2
<1>5. x \in T OBVIOUS
<1> HIDE DEF T
<1>6. /\ r \in Seq(T) /\ Len(r) = Len(q) + 1 /\ r[Len(q) + 1] = x
      /\ \A i \in 1 .. Len(q) : r[i] = q[i]
  BY <1>4, <1>5, AppendProperties
<1> HIDE DEF r
<1>7. DOMAIN r = 1 .. Len(q) + 1 /\ r = [i \in DOMAIN r |-> r[i]]
  BY <1>6, LenProperties
<1>8. IsSeq(r)
  <2>1. \A i \in 1 .. Len(q) + 1 : r[i] \in ToSet(r) BY <1>7 DEF ToSet
  <2>2. Len(q) + 1 \in Nat BY <1>2
  <2>3. [i \in 1 .. Len(q) + 1 |-> r[i]] \in Seq(ToSet(r)) BY <2>1, <2>2, IsASeq
  <2> QED BY <1>7, <2>3 DEF IsSeq
<1> QED BY <1>2, <1>6, <1>7, <1>8 DEF r

\* A sequence without its last element.
LEMMA Fronted ==
  ASSUME NEW q, IsSeq(q), Len(q) # 0
  PROVE  /\ IsSeq(Front(q)) /\ Len(q) \in Nat /\ Len(Front(q)) = Len(q) - 1
         /\ \A i \in 1 .. Len(q) - 1 : Front(q)[i] = q[i]
         /\ DOMAIN q = 1 .. Len(q) /\ DOMAIN Front(q) = 1 .. Len(q) - 1
<1> DEFINE r == Front(q)
<1>1. q \in Seq(ToSet(q)) BY DEF IsSeq
<1>2. Len(q) \in Nat /\ DOMAIN q = 1 .. Len(q) BY <1>1, LenProperties
<1>3. Len(q) - 1 \in 0 .. Len(q) /\ 1 \in 1 .. Len(q) + 1 BY <1>2
<1>4. r \in Seq(ToSet(q)) /\ Len(r) = Len(q) - 1 /\ \A i \in 1 .. Len(q) - 1 : r[i] = q[i]
  <2>1. r = SubSeq(q, 1, Len(q) - 1) BY DEF Front
  <2> HIDE DEF r
  <2> QED BY <1>1, <1>2, <1>3, <2>1
<1> HIDE DEF r
<1>5. DOMAIN r = 1 .. Len(q) - 1 /\ r = [i \in DOMAIN r |-> r[i]] BY <1>4, LenProperties
<1>6. IsSeq(r)
  <2>1. \A i \in 1 .. Len(q) - 1 : r[i] \in ToSet(r) BY <1>5 DEF ToSet
  <2>2. Len(q) - 1 \in Nat BY <1>2
  <2>3. [i \in 1 .. Len(q) - 1 |-> r[i]] \in Seq(ToSet(r)) BY <2>1, <2>2, IsASeq
  <2> QED BY <1>5, <2>3 DEF IsSeq
<1> QED BY <1>2, <1>4, <1>5, <1>6 DEF r

\* One more element.
LEMMA AppendLists ==
  ASSUME NEW S, NEW q, Listing(q, S), NEW x, x \notin S
  PROVE  Listing(Append(q, x), S \union {x})
<1> DEFINE r == Append(q, x)
           T == S \union {x}
<1>1. Len(q) \in Nat /\ DOMAIN q = 1 .. Len(q) /\ q \in [1 .. Len(q) -> S]
      /\ \A y \in S : \E k \in 1 .. Len(q) : q[k] = y
  BY ListingIs
<1>2. IsSeq(q) BY DEF IsSeq, Listing
<1>3. /\ IsSeq(r) /\ r[Len(q) + 1] = x /\ \A i \in 1 .. Len(q) : r[i] = q[i]
      /\ DOMAIN r = 1 .. Len(q) + 1
  BY <1>2, Appended
<1> HIDE DEF r
<1>4. r \in [1 .. Len(q) + 1 -> T]
  <2>1. r = [i \in DOMAIN r |-> r[i]] BY <1>3 DEF IsSeq
  <2>2. ASSUME NEW i \in 1 .. Len(q) + 1 PROVE r[i] \in T
    <3>1. CASE i \in 1 .. Len(q) BY <1>1, <1>3, <3>1
    <3>2. CASE i = Len(q) + 1 BY <1>3, <3>2
    <3> QED BY <1>1, <3>1, <3>2
  <2> QED BY <1>3, <2>1, <2>2
<1>5. Distinct(r)
  <2> SUFFICES ASSUME NEW i \in 1 .. Len(q) + 1, NEW j \in 1 .. Len(q) + 1, i # j
               PROVE  r[i] # r[j]
    BY <1>3 DEF Distinct
  <2>1. CASE i \in 1 .. Len(q) /\ j \in 1 .. Len(q) BY <1>1, <1>3, <2>1 DEF Distinct, Listing
  <2>2. CASE i = Len(q) + 1 /\ j \in 1 .. Len(q) BY <1>1, <1>3, <2>2
  <2>3. CASE j = Len(q) + 1 /\ i \in 1 .. Len(q) BY <1>1, <1>3, <2>3
  <2> QED BY <1>1, <2>1, <2>2, <2>3
<1>6. \A y \in T : \E k \in 1 .. Len(q) + 1 : r[k] = y
  <2> SUFFICES ASSUME NEW y \in T PROVE \E k \in 1 .. Len(q) + 1 : r[k] = y OBVIOUS
  <2>1. CASE y = x
    <3>1. Len(q) + 1 \in 1 .. Len(q) + 1 BY <1>1
    <3> QED BY <1>3, <2>1, <3>1
  <2>2. CASE y \in S
    <3>1. PICK k \in 1 .. Len(q) : q[k] = y BY <1>1, <2>2
    <3>2. k \in 1 .. Len(q) + 1 BY <1>1
    <3> QED BY <1>3, <3>1, <3>2
  <2> QED BY <2>1, <2>2
<1>7. Len(q) + 1 \in Nat BY <1>1
<1> HIDE DEF T
<1>8. Listing(r, T) BY <1>4, <1>5, <1>6, <1>7, ListingFrom
<1> QED BY <1>8 DEF r, T

\* One element less.
LEMMA RemoveLists ==
  ASSUME NEW S, NEW q, Listing(q, S), NEW p \in 1 .. Len(q)
  PROVE  Listing(RemoveAt(q, p), S \ {q[p]}) /\ Len(RemoveAt(q, p)) = Len(q) - 1
<1> DEFINE a == SubSeq(q, 1, p - 1)
           b == SubSeq(q, p + 1, Len(q))
           r == RemoveAt(q, p)
           T == S \ {q[p]}
           n == Len(q) - 1
<1>1. Len(q) \in Nat /\ DOMAIN q = 1 .. Len(q) /\ q \in [1 .. Len(q) -> S] /\ q \in Seq(S)
      /\ \A y \in S : \E k \in 1 .. Len(q) : q[k] = y
  BY ListingIs DEF Listing
<1>2. a \in Seq(S) /\ Len(a) = p - 1 /\ \A i \in 1 .. p - 1 : a[i] = q[i]
  <2>1. p - 1 \in 0 .. Len(q) BY <1>1
  <2> QED BY <1>1, <2>1
<1>3. b \in Seq(S) /\ Len(b) = Len(q) - p /\ \A i \in 1 .. Len(q) - p : b[i] = q[p + i]
  <2>1. p + 1 \in 1 .. Len(q) + 1 BY <1>1
  <2>2. b \in Seq(S) /\ Len(b) = Len(q) - p BY <1>1, <2>1
  <2>3. \A i \in 1 .. Len(q) - p : b[i] = q[(p + 1) + i - 1]
    <3>1. Len(q) - (p + 1) + 1 = Len(q) - p /\ p + 1 \in Int /\ Len(q) \in Int BY <1>1
    <3>2. \A i \in p + 1 .. Len(q) : q[i] \in S BY <1>1
    <3>3. \A i \in 1 .. Len(q) - (p + 1) + 1 : b[i] = q[(p + 1) + i - 1]
      BY <3>1, <3>2, SubSeqProperties
    <3> QED BY <3>1, <3>3
  <2>4. \A i \in 1 .. Len(q) - p : (p + 1) + i - 1 = p + i OBVIOUS
  <2> QED BY <2>2, <2>3, <2>4
<1>4. r = a \o b BY DEF RemoveAt
<1> HIDE DEF a, b, r
<1>5. /\ r \in Seq(S) /\ Len(r) = n
      /\ \A i \in 1 .. n : r[i] = IF i <= p - 1 THEN a[i] ELSE b[i - (p - 1)]
  <2>1. (p - 1) + (Len(q) - p) = n BY <1>1
  <2>2. r \in Seq(S) /\ Len(r) = Len(a) + Len(b) BY <1>2, <1>3, <1>4, ConcatProperties
  <2>3. \A i \in 1 .. Len(a) + Len(b) : r[i] = IF i <= Len(a) THEN a[i] ELSE b[i - Len(a)]
    BY <1>2, <1>3, <1>4, ConcatProperties
  <2>4. Len(a) = p - 1 /\ Len(a) + Len(b) = n BY <1>2, <1>3, <2>1
  <2> HIDE DEF n
  <2> QED BY <2>2, <2>3, <2>4
<1>6. ASSUME NEW i \in 1 .. n
      PROVE  r[i] = q[IF i < p THEN i ELSE i + 1]
  <2>1. CASE i < p BY <1>1, <1>2, <1>5, <2>1
  <2>2. CASE ~(i < p)
    <3>1. i - (p - 1) \in 1 .. Len(q) - p /\ p + (i - (p - 1)) = i + 1 /\ ~(i <= p - 1)
      BY <1>1, <2>2
    <3>2. r[i] = b[i - (p - 1)] BY <1>5, <3>1
    <3>3. b[i - (p - 1)] = q[p + (i - (p - 1))] BY <1>3, <3>1
    <3> QED BY <2>2, <3>1, <3>2, <3>3
  <2> QED BY <2>1, <2>2
<1> DEFINE at(i) == IF i < p THEN i ELSE i + 1
<1>7. \A i \in 1 .. n : at(i) \in 1 .. Len(q) /\ at(i) # p /\ r[i] = q[at(i)] BY <1>1, <1>6
<1>8. \A i, j \in 1 .. n : i # j => at(i) # at(j) BY <1>1
<1>9. \A k \in 1 .. Len(q) : k # p => \E i \in 1 .. n : at(i) = k
  <2> SUFFICES ASSUME NEW k \in 1 .. Len(q), k # p PROVE \E i \in 1 .. n : at(i) = k OBVIOUS
  <2>1. CASE k < p
    <3>1. k \in 1 .. n /\ at(k) = k BY <1>1, <2>1
    <3> QED BY <3>1
  <2>2. CASE ~(k < p)
    <3>1. k - 1 \in 1 .. n /\ at(k - 1) = k BY <1>1, <2>2
    <3> QED BY <3>1
  <2> QED BY <2>1, <2>2
<1> HIDE DEF at
<1>10. \A i, j \in 1 .. Len(q) : i # j => q[i] # q[j] BY <1>1 DEF Listing, Distinct
<1>11. DOMAIN r = 1 .. n /\ n \in Nat /\ r = [i \in DOMAIN r |-> r[i]]
  <2>1. n \in Nat BY <1>1
  <2> HIDE DEF n
  <2> QED BY <1>5, <2>1, LenProperties
<1> HIDE DEF n
<1>12. r \in [1 .. n -> T]
  <2>1. \A i \in 1 .. n : r[i] \in T BY <1>1, <1>7, <1>10
  <2> QED BY <1>11, <2>1
<1>13. Distinct(r) BY <1>7, <1>8, <1>10, <1>11 DEF Distinct
<1>14. \A y \in T : \E i \in 1 .. n : r[i] = y
  <2> SUFFICES ASSUME NEW y \in T PROVE \E i \in 1 .. n : r[i] = y OBVIOUS
  <2>1. PICK k \in 1 .. Len(q) : q[k] = y BY <1>1
  <2>2. PICK i \in 1 .. n : at(i) = k BY <1>9, <2>1
  <2> QED BY <1>7, <2>1, <2>2
<1> HIDE DEF T
<1>15. Listing(r, T) BY <1>11, <1>12, <1>13, <1>14, ListingFrom
<1> QED BY <1>5, <1>15 DEF r, T, n

\* The filter keeps the positions of the records to be checked.
LEMMA FilteredLists ==
  ASSUME call \in Checks
  PROVE  Listing(Filtered(call), Checked(call))
<1> DEFINE N == Len(call.history)
           C(n) == Checked(call) \intersect (1 .. n)
<1>1. N \in Nat /\ Checked(call) \subseteq 1 .. N BY CallTypes
<1>2. PICK g : FilterSteps(g, call, N) /\ Filtered(call) = g[N] BY <1>1, FilterStepsTaken
<1>3. \A n \in 0 .. N : g[n] = IF n = 0 THEN <<>>
                               ELSE IF n \in Checked(call) THEN Append(g[n - 1], n) ELSE g[n - 1]
  BY <1>2 DEF FilterSteps
<1> DEFINE Bad == {n \in 0 .. N : ~Listing(g[n], C(n))}
<1>4. 0 \notin Bad
  <2>1. 0 \in 0 .. N BY <1>1
  <2>2. g[0] = <<>> BY <1>3, <2>1
  <2>3. C(0) = {} OBVIOUS
  <2>4. <<>> \in Seq({}) /\ DOMAIN <<>> = {} OBVIOUS
  <2>5. Listing(<<>>, {}) BY <2>4 DEF Listing, Distinct, ToSet
  <2> QED BY <2>2, <2>3, <2>5
<1>5. ASSUME NEW n \in 1 .. N, n - 1 \notin Bad PROVE n \notin Bad
  <2>1. n \in 0 .. N /\ n # 0 /\ n - 1 \in 0 .. N BY <1>1
  <2>2. Listing(g[n - 1], C(n - 1)) BY <1>5, <2>1
  <2>3. n \notin C(n - 1) BY <1>1
  <2>4. C(n) = C(n - 1) \union IF n \in Checked(call) THEN {n} ELSE {} BY <1>1
  <2> HIDE DEF C
  <2>5. CASE n \in Checked(call)
    <3>1. g[n] = Append(g[n - 1], n) BY <1>3, <2>1, <2>5
    <3>2. Listing(g[n], C(n)) BY <2>2, <2>3, <2>4, <2>5, <3>1, AppendLists
    <3> QED BY <3>2
  <2>6. CASE n \notin Checked(call)
    <3>1. g[n] = g[n - 1] BY <1>3, <2>1, <2>6
    <3>2. C(n) = C(n - 1) BY <2>4, <2>6
    <3> QED BY <2>2, <3>1, <3>2
  <2> QED BY <2>5, <2>6
<1> HIDE DEF Bad
<1>6. \A n \in 0 .. N : n \notin Bad BY <1>1, <1>4, <1>5, Climb
<1>7. N \in 0 .. N /\ C(N) = Checked(call) BY <1>1
<1>8. Listing(g[N], C(N)) BY <1>6, <1>7 DEF Bad
<1> QED BY <1>2, <1>7, <1>8

-----------------------------------------------------------------------------
(* The inductive invariant: the records searched, and the path to where the search is *)

Chosen == ToSet(Items)
Searching == mode \in {"call", "loop", "found"}

Kept ==
  /\ call \in Checks /\ pos \in Nat
  /\ IsSeq(keep) /\ Distinct(keep) /\ ToSet(keep) \subseteq Checked(call)
  /\ pos = 0 => ToSet(keep) = Checked(call)
  /\ pos > 0 /\ mode # "done" => pos <= Len(keep)
  /\ verdict = "none" <=> mode # "done"
  /\ mode \in {"call", "loop", "found", "failed", "done"}

\* The first k records of the order.
UsedAt(k) == {order[m] : m \in 1 .. k}

\* An open call of dfs: the state it got and the candidate it tries next.
Frame(k) ==
  /\ stack[k] = [state |-> stack[k].state, next |-> stack[k].next]
  /\ stack[k].next \in 1 .. Len(Items) + 1

\* The call it waits for was made for a candidate free to come next, with the state that
\* candidate leads to.
Link(k) ==
  /\ stack[k].next - 1 \in 1 .. Len(Items) /\ order[k] = Items[stack[k].next - 1]
  /\ stack[k + 1].state \in Apply(order[k], stack[k].state)
  /\ Predecessors(order[k]) \subseteq UsedAt(k - 1)

Path ==
  Searching =>
    /\ IsSeq(order) /\ Distinct(order) /\ Used \subseteq Chosen
    /\ IsSeq(stack) /\ Len(stack) = Len(order) + 1
    /\ stack[1].state = call.initial
    /\ \A k \in 1 .. Len(stack) : Frame(k)
    /\ \A k \in 1 .. Len(order) : Link(k)
    /\ mode = "call" => stack[Len(stack)].next = 1
    /\ mode = "loop" => Used # Chosen
    /\ mode = "found" => Used = Chosen

Reported == verdict = "legal" => order \in Legal(Checked(call))

PathInv == Kept /\ Path /\ Reported

LEMMA ItemsList ==
  ASSUME Kept, mode # "done"
  PROVE  /\ Listing(Items, Chosen) /\ Chosen \subseteq Checked(call) /\ Chosen \subseteq ToSet(keep)
         /\ IsFiniteSet(Chosen) /\ Cardinality(Chosen) = Len(Items) /\ Len(Items) \in Nat
         /\ Items \in [1 .. Len(Items) -> Chosen]
         /\ \A i \in Chosen : \E m \in 1 .. Len(Items) : Items[m] = i
<1>1. Listing(keep, ToSet(keep)) BY DEF Kept, IsSeq, Listing
<1>2. Listing(Items, Chosen) /\ Chosen \subseteq ToSet(keep)
  <2>1. CASE pos = 0 BY <1>1, <2>1 DEF Items, Chosen
  <2>2. CASE pos # 0
    <3>1. pos \in 1 .. Len(keep) BY <1>1, <2>2, ListingIs DEF Kept
    <3>2. Listing(RemoveAt(keep, pos), ToSet(keep) \ {keep[pos]}) BY <1>1, <3>1, RemoveLists
    <3>3. Items = RemoveAt(keep, pos) BY <2>2 DEF Items
    <3>4. Chosen = ToSet(keep) \ {keep[pos]} BY <3>2, <3>3 DEF Listing, Chosen
    <3> QED BY <3>2, <3>3, <3>4
  <2> QED BY <2>1, <2>2
<1> QED BY <1>2, ListingIs DEF Kept

\* While the arguments of a search stay, so does what is legal in it.
LEMMA SearchLaw ==
  ASSUME Kept, mode # "done", UNCHANGED <<call, keep, pos>>
  PROVE  /\ Items' = Items /\ Chosen' = Chosen /\ Len(Items)' = Len(Items)
         /\ \A i, s : Apply(i, s)' = Apply(i, s)
         /\ \A i : Predecessors(i)' = Predecessors(i)
         /\ \A S, s : IsFiniteSet(S) => LegalFrom(S, s)' = LegalFrom(S, s)
         /\ Checked(call)' = Checked(call) /\ Legal(Checked(call))' = Legal(Checked(call))
         /\ Legal(ToSet(keep))' = Legal(ToSet(keep))
<1>1. Items' = Items BY DEF Items
<1>2. Chosen' = Chosen /\ Len(Items)' = Len(Items) BY <1>1 DEF Chosen
<1>3. \A i : Rec(i)' = Rec(i) BY SameLaw
<1>4. \A i : Predecessors(i)' = Predecessors(i) BY <1>1, <1>3 DEF Predecessors
<1>5. \A S, s : IsFiniteSet(S) => LegalFrom(S, s)' = LegalFrom(S, s) BY SameLaw
<1>6. \A i, s : Apply(i, s)' = Apply(i, s) BY SameLaw
<1>7. Checked(call)' = Checked(call) OBVIOUS
<1>8. IsFiniteSet(Checked(call)) /\ IsFiniteSet(ToSet(keep))
  <2>1. Len(call.history) \in Nat /\ Checked(call) \subseteq 1 .. Len(call.history)
    BY CallTypes DEF Kept
  <2>2. IsFiniteSet(1 .. Len(call.history)) BY <2>1, FS_Interval
  <2>3. IsFiniteSet(Checked(call)) BY <2>1, <2>2, FS_Subset
  <2> QED BY <2>3, FS_Subset DEF Kept
<1>9. Legal(Checked(call))' = Legal(Checked(call)) BY <1>5, <1>8 DEF Legal
<1>10. Legal(ToSet(keep))' = Legal(ToSet(keep)) BY <1>5, <1>8 DEF Legal
<1> QED BY <1>1, <1>2, <1>4, <1>5, <1>6, <1>7, <1>9, <1>10

LEMMA PathFacts ==
  ASSUME Path, Searching
  PROVE  /\ Len(order) \in Nat /\ DOMAIN order = 1 .. Len(order) /\ DOMAIN stack = 1 .. Len(order) + 1
         /\ Len(stack) = Len(order) + 1 /\ Last(stack) = stack[Len(order) + 1]
         /\ Used = UsedAt(Len(order)) /\ \A k \in 1 .. Len(order) : order[k] \in Used
         /\ \A k \in 1 .. Len(order) : UsedAt(k) = UsedAt(k - 1) \union {order[k]}
         /\ \A k \in 1 .. Len(order) : order[k] \notin UsedAt(k - 1)
         /\ IsFiniteSet(Used) /\ Cardinality(Used) = Len(order)
<1>1. IsSeq(order) /\ Distinct(order) /\ IsSeq(stack) /\ Len(stack) = Len(order) + 1 BY DEF Path
<1>2. Listing(order, Used) BY <1>1 DEF Listing, IsSeq, Used
<1>3. /\ Len(order) \in Nat /\ DOMAIN order = 1 .. Len(order)
      /\ IsFiniteSet(Used) /\ Cardinality(Used) = Len(order)
  BY <1>2, ListingIs
<1>4. DOMAIN stack = 1 .. Len(order) + 1 BY <1>1, LenProperties DEF IsSeq
<1>5. Used = UsedAt(Len(order)) /\ \A k \in 1 .. Len(order) : order[k] \in Used
  BY <1>3 DEF Used, UsedAt, ToSet
<1>6. ASSUME NEW k \in 1 .. Len(order)
      PROVE  UsedAt(k) = UsedAt(k - 1) \union {order[k]} /\ order[k] \notin UsedAt(k - 1)
  <2>1. 1 .. k = (1 .. k - 1) \union {k} BY <1>3
  <2>2. UsedAt(k) = UsedAt(k - 1) \union {order[k]} BY <2>1 DEF UsedAt
  <2>3. \A m \in 1 .. k - 1 : m # k /\ m \in 1 .. Len(order) BY <1>3
  <2>4. order[k] \notin UsedAt(k - 1) BY <1>1, <1>3, <2>3 DEF UsedAt, Distinct
  <2> QED BY <2>2, <2>4
<1> QED BY <1>1, <1>3, <1>4, <1>5, <1>6 DEF Last

-----------------------------------------------------------------------------
(* Steps of the search *)

\* What the prefix of the order and a call keep when both stay.
LEMMA SamePrefix ==
  ASSUME NEW n \in Nat, \A m \in 1 .. n : order'[m] = order[m]
  PROVE  \A k \in 0 .. n : UsedAt(k)' = UsedAt(k)
<1> SUFFICES ASSUME NEW k \in 0 .. n PROVE UsedAt(k)' = UsedAt(k) OBVIOUS
<1>1. \A m \in 1 .. k : order'[m] = order[m] OBVIOUS
<1> QED BY <1>1 DEF UsedAt

LEMMA SameLinks ==
  ASSUME Kept, mode # "done", UNCHANGED <<call, keep, pos>>,
         NEW n \in Nat, \A m \in 1 .. n : order'[m] = order[m],
         \A k \in 1 .. n + 1 : stack'[k].state = stack[k].state
  PROVE  /\ \A k \in 1 .. n + 1 : stack'[k] = stack[k] /\ Frame(k) => Frame(k)'
         /\ \A k \in 1 .. n : stack'[k] = stack[k] /\ Link(k) => Link(k)'
<1>1. /\ Items' = Items /\ Len(Items)' = Len(Items)
      /\ \A i, s : Apply(i, s)' = Apply(i, s)
      /\ \A i : Predecessors(i)' = Predecessors(i)
  BY SearchLaw
<1>2. \A k \in 0 .. n : UsedAt(k)' = UsedAt(k) BY SamePrefix
<1>3. ASSUME NEW k \in 1 .. n + 1, stack'[k] = stack[k], Frame(k) PROVE Frame(k)'
  BY <1>1, <1>3 DEF Frame
<1>4. ASSUME NEW k \in 1 .. n, stack'[k] = stack[k], Link(k) PROVE Link(k)'
  <2>1. k \in 1 .. n + 1 /\ k + 1 \in 1 .. n + 1 /\ k - 1 \in 0 .. n OBVIOUS
  <2>2. order'[k] = order[k] /\ stack'[k + 1].state = stack[k + 1].state /\ UsedAt(k - 1)' = UsedAt(k - 1)
    BY <1>2, <2>1
  <2> QED BY <1>1, <1>4, <2>2 DEF Link
<1> QED BY <1>3, <1>4

\* A call of dfs that answers false.
LEMMA Returned ==
  ASSUME Path, mode \in {"call", "loop"}, ReturnFalse
  PROVE  /\ mode' = IF Len(order) = 0 THEN "failed" ELSE "loop"
         /\ Len(order) # 0 =>
              /\ IsSeq(order)' /\ IsSeq(stack)' /\ Len(order') = Len(order) - 1
              /\ Len(stack') = Len(order)
              /\ \A m \in 1 .. Len(order) - 1 : order'[m] = order[m]
              /\ \A m \in 1 .. Len(order) : stack'[m] = stack[m]
<1>1. /\ Len(order) \in Nat /\ DOMAIN order = 1 .. Len(order) /\ Len(stack) = Len(order) + 1
      /\ IsSeq(order) /\ IsSeq(stack)
  BY PathFacts DEF Searching, Path
<1>2. mode' = IF Len(order) = 0 THEN "failed" ELSE "loop" BY <1>1 DEF ReturnFalse
<1>3. ASSUME Len(order) # 0
      PROVE  /\ IsSeq(order') /\ IsSeq(stack') /\ Len(order') = Len(order) - 1
             /\ Len(stack') = Len(order)
             /\ \A m \in 1 .. Len(order) - 1 : order'[m] = order[m]
             /\ \A m \in 1 .. Len(order) : stack'[m] = stack[m]
  <2>1. order # <<>> BY <1>3
  <2>2. order' = Front(order) /\ stack' = Front(stack) BY <2>1 DEF ReturnFalse
  <2>3. Len(stack) # 0 /\ Len(stack) - 1 = Len(order) BY <1>1
  <2>4. /\ IsSeq(Front(order)) /\ Len(Front(order)) = Len(order) - 1
        /\ \A i \in 1 .. Len(order) - 1 : Front(order)[i] = order[i]
    BY <1>1, <1>3, Fronted
  <2>5. /\ IsSeq(Front(stack)) /\ Len(Front(stack)) = Len(stack) - 1
        /\ \A i \in 1 .. Len(stack) - 1 : Front(stack)[i] = stack[i]
    BY <1>1, <2>3, Fronted
  <2> QED BY <2>2, <2>3, <2>4, <2>5
<1>4. IsSeq(order') <=> IsSeq(order)' BY DEF IsSeq
<1>5. IsSeq(stack') <=> IsSeq(stack)' BY DEF IsSeq
<1> QED BY <1>2, <1>3, <1>4, <1>5

LEMMA PathReturns ==
  ASSUME Kept, Path, mode \in {"call", "loop"}, UNCHANGED <<call, keep, pos>>, ReturnFalse
  PROVE  Path'
<1>1. CASE Len(order) = 0
  <2>1. mode' = "failed" BY <1>1, Returned
  <2> QED BY <2>1 DEF Path, Searching
<1>2. CASE Len(order) # 0
  <2> DEFINE n == Len(order) - 1
  <2>1. /\ mode' = "loop" /\ IsSeq(order)' /\ IsSeq(stack)' /\ Len(order') = n /\ Len(stack') = n + 1
        /\ \A m \in 1 .. n : order'[m] = order[m]
        /\ \A m \in 1 .. n + 1 : stack'[m] = stack[m]
    BY <1>2, Returned, PathFacts DEF Searching
  <2>2. n \in Nat /\ n + 1 = Len(order) /\ Len(stack) = n + 2 BY <1>2, PathFacts DEF Searching
  <2>3. DOMAIN order = 1 .. n + 1 BY <2>2, PathFacts DEF Searching
  <2>4. /\ Distinct(order) /\ Used \subseteq Chosen /\ stack[1].state = call.initial
        /\ \A k \in 1 .. n + 2 : Frame(k)
        /\ \A k \in 1 .. n + 1 : Link(k)
    BY <2>2 DEF Path, Searching
  <2>5. \A k \in 1 .. n + 1 : order[k] \in Used BY <2>2, PathFacts DEF Searching
  <2>6. Chosen' = Chosen BY SearchLaw
  <2> HIDE DEF n
  <2>7. DOMAIN order' = 1 .. n BY <2>1, <2>2, LenProperties DEF IsSeq
  <2>8. Distinct(order') BY <2>1, <2>2, <2>3, <2>4, <2>7 DEF Distinct
  <2>9. Distinct(order)' BY <2>8 DEF Distinct
  <2>10. Used' \subseteq Used /\ order[n + 1] \notin Used'
    <3>1. Used' = {order[m] : m \in 1 .. n} BY <2>1, <2>7 DEF Used, ToSet
    <3>2. \A m \in 1 .. n : m \in 1 .. n + 1 /\ n + 1 \in 1 .. n + 1 /\ m # n + 1 BY <2>2
    <3> QED BY <2>3, <2>4, <2>5, <3>1, <3>2 DEF Distinct
  <2>11. n + 1 \in 1 .. n + 1 /\ 1 \in 1 .. n + 1 BY <2>2
  <2>12. Used' \subseteq Chosen' /\ Used' # Chosen' BY <2>4, <2>5, <2>6, <2>10, <2>11
  <2>13. \A k \in 1 .. n + 1 : Frame(k)'
    <3>1. \A k \in 1 .. n + 1 : k \in 1 .. n + 2 BY <2>2
    <3> QED BY <2>1, <2>2, <2>4, <3>1, SameLinks
  <2>14. \A k \in 1 .. n : Link(k)'
    <3>1. \A k \in 1 .. n : k \in 1 .. n + 1 BY <2>2
    <3> QED BY <2>1, <2>2, <2>4, <3>1, SameLinks
  <2>15. stack'[1].state = call'.initial BY <2>1, <2>4, <2>11
  <2> QED BY <2>1, <2>9, <2>12, <2>13, <2>14, <2>15 DEF Path
<1> QED BY <1>1, <1>2

\* As long as the items, the order has them all.
LEMMA CompleteMeans ==
  ASSUME Kept, Path, Searching, mode # "done"
  PROVE  Complete <=> Used = Chosen
<1>1. /\ IsFiniteSet(Used) /\ Cardinality(Used) = Len(order) /\ Used \subseteq Chosen
  BY PathFacts DEF Path
<1>2. IsFiniteSet(Chosen) /\ Cardinality(Chosen) = Len(Items) BY ItemsList
<1>3. Cardinality(Used) = Cardinality(Chosen) => Used = Chosen BY <1>1, <1>2, FS_Subset
<1> QED BY <1>1, <1>2, <1>3 DEF Complete

LEMMA CallOutcome ==
  /\ Called("accept") => Complete
  /\ Called("expand") => ~Complete /\ ~Seen
  /\ Called("prune") => ~Complete /\ Seen
  /\ \A x : Called(x) => mode = "call"
BY DEF Called, TxnCall, LinCall

\* Nothing moves: the call accepts, or goes on to try candidates.
LEMMA PathStays ==
  ASSUME Kept, Path, mode = "call", UNCHANGED <<call, keep, pos, order, stack>>,
         \/ mode' = "found" /\ Used = Chosen
         \/ mode' = "loop" /\ Used # Chosen
  PROVE  Path'
<1> DEFINE n == Len(order)
<1>1. n \in Nat /\ Len(stack) = n + 1 BY PathFacts DEF Searching
<1>2. /\ IsSeq(order) /\ Distinct(order) /\ Used \subseteq Chosen /\ IsSeq(stack)
      /\ stack[1].state = call.initial
      /\ \A k \in 1 .. n + 1 : Frame(k)
      /\ \A k \in 1 .. n : Link(k)
  BY <1>1 DEF Path, Searching
<1>3. Chosen' = Chosen /\ Used' = Used BY SearchLaw DEF Used
<1>4. Len(order') = n /\ Len(stack') = n + 1 BY <1>1
<1> HIDE DEF n
<1>5. \A k \in 1 .. n + 1 : Frame(k)' BY <1>1, <1>2, SameLinks
<1>6. \A k \in 1 .. n : Link(k)'
  <2>1. \A k \in 1 .. n : k \in 1 .. n + 1 BY <1>1
  <2> QED BY <1>1, <1>2, <2>1, SameLinks
<1>7. IsSeq(order)' /\ Distinct(order)' /\ IsSeq(stack)' BY <1>2 DEF IsSeq, Distinct
<1> QED BY <1>1, <1>2, <1>3, <1>4, <1>5, <1>6, <1>7 DEF Path

\* What a step that tries a candidate does: none of those before k may come next.
Tries(k) ==
  /\ k \in 1 .. Len(Items) /\ Last(stack).next <= k
  /\ Items[k] \in Chosen /\ Items[k] \notin Used /\ Predecessors(Items[k]) \subseteq Used
  /\ \A m \in Last(stack).next .. k - 1 :
       ~(Items[m] \notin Used /\ Predecessors(Items[m]) \subseteq Used)

Waiting(k) == [stack EXCEPT ![Len(stack)].next = k + 1]

LEMMA AdvanceTries ==
  ASSUME Kept, Path, Advance
  PROVE  \E k : /\ Tries(k)
                /\ \/ /\ Apply(Items[k], Last(stack).state) = {}
                      /\ stack' = Waiting(k) /\ order' = order /\ mode' = "loop"
                   \/ \E s \in Apply(Items[k], Last(stack).state) :
                        /\ stack' = Append(Waiting(k), [state |-> s, next |-> 1])
                        /\ order' = Append(order, Items[k]) /\ mode' = "call"
<1>1. mode = "loop" /\ Candidates # {} BY DEF Advance
<1>2. Len(Items) \in Nat /\ Items \in [1 .. Len(Items) -> Chosen] BY <1>1, ItemsList
<1>3. Last(stack).next \in 1 .. Len(Items) + 1
  <2>1. Len(order) \in Nat /\ Len(stack) = Len(order) + 1 /\ Last(stack) = stack[Len(order) + 1]
    BY <1>1, PathFacts DEF Searching
  <2>2. \A k \in 1 .. Len(stack) : Frame(k) BY <1>1 DEF Path, Searching
  <2>3. Frame(Len(order) + 1) BY <2>1, <2>2
  <2> QED BY <2>1, <2>3 DEF Frame
<1> DEFINE k == Min(Candidates)
<1>4. Candidates \in SUBSET Nat BY <1>2, <1>3 DEF Candidates
<1>5. k \in Candidates /\ \A m \in Candidates : k <= m
  <2>1. \E x \in Candidates : \A m \in Candidates : x <= m BY <1>1, <1>4, Least
  <2> QED BY <2>1 DEF Min
<1>6. Tries(k)
  <2> HIDE DEF k
  <2>1. /\ k \in Last(stack).next .. Len(Items) /\ Items[k] \notin Used
        /\ Predecessors(Items[k]) \subseteq Used
    BY <1>5 DEF Candidates
  <2>2. k \in 1 .. Len(Items) /\ Last(stack).next <= k BY <1>2, <1>3, <2>1
  <2>3. ASSUME NEW m \in Last(stack).next .. k - 1
        PROVE  ~(Items[m] \notin Used /\ Predecessors(Items[m]) \subseteq Used)
    <3>1. m \in Last(stack).next .. Len(Items) /\ ~(k <= m) BY <1>2, <1>3, <2>2
    <3>2. m \notin Candidates BY <1>5, <3>1
    <3> QED BY <3>1, <3>2 DEF Candidates
  <2> QED BY <1>2, <2>1, <2>2, <2>3 DEF Tries
<1>7. \/ /\ Apply(Items[k], Last(stack).state) = {}
         /\ stack' = Waiting(k) /\ order' = order /\ mode' = "loop"
      \/ \E s \in Apply(Items[k], Last(stack).state) :
           /\ stack' = Append(Waiting(k), [state |-> s, next |-> 1])
           /\ order' = Append(order, Items[k]) /\ mode' = "call"
  BY <1>1, Zenon DEF Advance, Waiting
<1> QED BY <1>6, <1>7

\* The stack with its last call one candidate further.
LEMMA WaitingIs ==
  ASSUME Kept, Path, mode = "loop", NEW k, Tries(k)
  PROVE  LET n == Len(order) w == Waiting(k)
         IN  /\ n \in Nat /\ Len(stack) = n + 1 /\ Last(stack) = stack[n + 1]
             /\ IsSeq(w) /\ Len(w) = n + 1 /\ DOMAIN w = 1 .. n + 1
             /\ \A m \in 1 .. n : w[m] = stack[m]
             /\ w[n + 1] = [state |-> stack[n + 1].state, next |-> k + 1]
             /\ stack[n + 1].next \in 1 .. k /\ k \in 1 .. Len(Items)
<1> DEFINE n == Len(order)
           w == Waiting(k)
<1>1. /\ n \in Nat /\ Len(stack) = n + 1 /\ DOMAIN stack = 1 .. n + 1 /\ IsSeq(stack)
      /\ Last(stack) = stack[n + 1]
  BY PathFacts DEF Searching, Path
<1>2. n + 1 \in 1 .. n + 1 BY <1>1
<1>3. Frame(n + 1) BY <1>1, <1>2 DEF Path, Searching
<1>4. Len(Items) \in Nat BY ItemsList
<1>5. stack[n + 1].next \in 1 .. k /\ k \in 1 .. Len(Items) BY <1>1, <1>3, <1>4 DEF Frame, Tries
<1>6. w = [m \in 1 .. n + 1 |-> IF m = n + 1 THEN [stack[m] EXCEPT !.next = k + 1] ELSE stack[m]]
  BY <1>1, <1>2 DEF Waiting, IsSeq
<1>7. [stack[n + 1] EXCEPT !.next = k + 1] = [state |-> stack[n + 1].state, next |-> k + 1]
  BY <1>3 DEF Frame
<1>8. /\ DOMAIN w = 1 .. n + 1 /\ \A m \in 1 .. n : w[m] = stack[m]
      /\ w[n + 1] = [state |-> stack[n + 1].state, next |-> k + 1]
  <2>1. \A m \in 1 .. n : m \in 1 .. n + 1 /\ m # n + 1 BY <1>1
  <2> HIDE DEF w
  <2> QED BY <1>2, <1>6, <1>7, <2>1
<1>9. IsSeq(w) /\ Len(w) = n + 1
  <2>1. w \in [1 .. n + 1 -> ToSet(w)] BY <1>6, <1>8 DEF ToSet
  <2>2. n + 1 \in Nat BY <1>1
  <2> HIDE DEF w
  <2>3. w \in Seq(ToSet(w)) /\ Len(w) = n + 1 BY <2>1, <2>2, FunctionIsSeq
  <2> QED BY <2>3 DEF IsSeq
<1> HIDE DEF w, n
<1> QED BY <1>1, <1>5, <1>8, <1>9 DEF w, n

LEMMA PathAdvances ==
  ASSUME Kept, Path, Advance, UNCHANGED <<call, keep, pos>>
  PROVE  Path'
<1>0. PICK n : n = Len(order) OBVIOUS
<1>1. mode = "loop" BY DEF Advance
<1>2. PICK k : /\ Tries(k)
               /\ \/ /\ Apply(Items[k], Last(stack).state) = {}
                     /\ stack' = Waiting(k) /\ order' = order /\ mode' = "loop"
                  \/ \E s \in Apply(Items[k], Last(stack).state) :
                       /\ stack' = Append(Waiting(k), [state |-> s, next |-> 1])
                       /\ order' = Append(order, Items[k]) /\ mode' = "call"
  BY AdvanceTries
<1> DEFINE w == Waiting(k)
<1>3. /\ n \in Nat /\ Len(stack) = n + 1 /\ Last(stack) = stack[n + 1]
      /\ IsSeq(w) /\ Len(w) = n + 1 /\ DOMAIN w = 1 .. n + 1
      /\ \A m \in 1 .. n : w[m] = stack[m]
      /\ w[n + 1] = [state |-> stack[n + 1].state, next |-> k + 1]
      /\ stack[n + 1].next \in 1 .. k /\ k \in 1 .. Len(Items)
  BY <1>0, <1>1, <1>2, WaitingIs
<1>4. /\ IsSeq(order) /\ Distinct(order) /\ Used \subseteq Chosen /\ Used # Chosen
      /\ stack[1].state = call.initial
      /\ \A m \in 1 .. n + 1 : Frame(m)
      /\ \A m \in 1 .. n : Link(m)
  BY <1>0, <1>1, <1>3 DEF Path, Searching
<1>5. /\ Items' = Items /\ Chosen' = Chosen /\ Len(Items)' = Len(Items) /\ Len(Items) \in Nat
      /\ \A i, s : Apply(i, s)' = Apply(i, s)
      /\ \A i : Predecessors(i)' = Predecessors(i)
  BY <1>1, SearchLaw, ItemsList
<1>6. DOMAIN order = 1 .. n /\ Used = UsedAt(n) BY <1>0, <1>1, PathFacts DEF Searching
<1> HIDE DEF w
<1>7. CASE stack' = w /\ order' = order /\ mode' = "loop"
  <2>1. \A m \in 1 .. n + 1 : stack'[m].state = stack[m].state
    <3>1. \A m \in 1 .. n + 1 : m \in 1 .. n \/ m = n + 1 BY <1>3
    <3> QED BY <1>3, <1>7, <3>1
  <2>2. \A m \in 1 .. n + 1 : Frame(m)'
    <3> SUFFICES ASSUME NEW m \in 1 .. n + 1 PROVE Frame(m)' OBVIOUS
    <3>1. CASE m = n + 1
      <4>1. stack'[m] = [state |-> stack[n + 1].state, next |-> k + 1] BY <1>3, <1>7, <3>1
      <4>2. k + 1 \in 1 .. Len(Items) + 1 BY <1>3, <1>5
      <4> QED BY <1>5, <4>1, <4>2 DEF Frame
    <3>2. CASE m \in 1 .. n
      <4>1. stack'[m] = stack[m] /\ Frame(m) BY <1>3, <1>4, <1>7, <3>2
      <4> QED BY <1>1, <1>3, <1>7, <2>1, <4>1, SameLinks
    <3> QED BY <1>3, <3>1, <3>2
  <2>3. \A m \in 1 .. n : Link(m)'
    <3>1. \A m \in 1 .. n : stack'[m] = stack[m] BY <1>3, <1>7
    <3> QED BY <1>1, <1>3, <1>4, <1>7, <2>1, <3>1, SameLinks
  <2>4. IsSeq(order)' /\ Distinct(order)' /\ IsSeq(stack)' /\ Used' = Used
    BY <1>3, <1>4, <1>7 DEF IsSeq, Distinct, Used
  <2>5. Len(order') = n /\ Len(stack') = n + 1 /\ stack'[1].state = call'.initial
    <3>1. 1 \in 1 .. n + 1 BY <1>3
    <3> QED BY <1>0, <1>3, <1>4, <1>7, <2>1, <3>1
  <2> QED BY <1>4, <1>5, <1>7, <2>2, <2>3, <2>4, <2>5 DEF Path
<1>8. CASE \E s \in Apply(Items[k], Last(stack).state) :
             /\ stack' = Append(w, [state |-> s, next |-> 1])
             /\ order' = Append(order, Items[k]) /\ mode' = "call"
  <2>0. PICK i : i = Items[k] OBVIOUS
  <2>1. PICK s : /\ s \in Apply(i, stack[n + 1].state)
                 /\ stack' = Append(w, [state |-> s, next |-> 1])
                 /\ order' = Append(order, i) /\ mode' = "call"
    BY <1>3, <1>8, <2>0
  <2>2. /\ IsSeq(stack') /\ Len(stack') = n + 2
        /\ stack'[n + 2] = [state |-> s, next |-> 1]
        /\ \A m \in 1 .. n + 1 : stack'[m] = w[m]
    <3>1. (n + 1) + 1 = n + 2 BY <1>3
    <3> QED BY <1>3, <2>1, <3>1, Appended
  <2>3. /\ IsSeq(order') /\ Len(order') = n + 1 /\ DOMAIN order' = 1 .. n + 1
        /\ order'[n + 1] = i /\ \A m \in 1 .. n : order'[m] = order[m]
    BY <1>0, <1>4, <2>1, Appended
  <2>4. i \in Chosen /\ i \notin Used /\ Predecessors(i) \subseteq Used BY <1>2, <2>0 DEF Tries
  <2>5. \A m \in 1 .. n : order[m] \in Used BY <1>6 DEF Used, ToSet
  <2>6. Distinct(order)'
    <3>1. Distinct(order')
      <4> SUFFICES ASSUME NEW a \in 1 .. n + 1, NEW b \in 1 .. n + 1, a # b
                   PROVE  order'[a] # order'[b]
        BY <2>3 DEF Distinct
      <4>1. CASE a \in 1 .. n /\ b \in 1 .. n BY <1>4, <1>6, <2>3, <4>1 DEF Distinct
      <4>2. CASE a = n + 1 /\ b \in 1 .. n BY <2>3, <2>4, <2>5, <4>2
      <4>3. CASE b = n + 1 /\ a \in 1 .. n BY <2>3, <2>4, <2>5, <4>3
      <4> QED BY <1>3, <4>1, <4>2, <4>3
    <3> QED BY <3>1 DEF Distinct
  <2>7. Used' \subseteq Chosen'
    <3>1. Used' = {order'[m] : m \in 1 .. n + 1} BY <2>3 DEF Used, ToSet
    <3>2. \A m \in 1 .. n + 1 : m \in 1 .. n \/ m = n + 1 BY <1>3
    <3> QED BY <1>4, <1>5, <2>3, <2>4, <2>5, <3>1, <3>2
  <2>8. \A m \in 1 .. n + 1 : stack'[m].state = stack[m].state
    <3>1. \A m \in 1 .. n + 1 : m \in 1 .. n \/ m = n + 1 BY <1>3
    <3>2. n + 1 \in 1 .. n + 1 BY <1>3
    <3> QED BY <1>3, <2>2, <3>1, <3>2
  <2>9. \A m \in 1 .. n : stack'[m] = stack[m]
    <3>1. \A m \in 1 .. n : m \in 1 .. n + 1 BY <1>3
    <3> QED BY <1>3, <2>2, <3>1
  <2>10. stack'[n + 1] = [state |-> stack[n + 1].state, next |-> k + 1]
    <3>1. n + 1 \in 1 .. n + 1 BY <1>3
    <3> QED BY <1>3, <2>2, <3>1
  <2>11. \A m \in 1 .. n + 2 : Frame(m)'
    <3> SUFFICES ASSUME NEW m \in 1 .. n + 2 PROVE Frame(m)' OBVIOUS
    <3>1. CASE m = n + 2
      <4>1. 1 \in 1 .. Len(Items) + 1 BY <1>5
      <4> QED BY <1>5, <2>2, <3>1, <4>1 DEF Frame
    <3>2. CASE m = n + 1
      <4>1. k + 1 \in 1 .. Len(Items) + 1 BY <1>3, <1>5
      <4> QED BY <1>5, <2>10, <3>2, <4>1 DEF Frame
    <3>3. CASE m \in 1 .. n
      <4>1. m \in 1 .. n + 1 /\ stack'[m] = stack[m] /\ Frame(m) BY <1>3, <1>4, <2>9, <3>3
      <4> QED BY <1>1, <1>3, <2>3, <2>8, <4>1, SameLinks
    <3> QED BY <1>3, <3>1, <3>2, <3>3
  <2>12. \A m \in 1 .. n + 1 : Link(m)'
    <3> SUFFICES ASSUME NEW m \in 1 .. n + 1 PROVE Link(m)' OBVIOUS
    <3>1. CASE m = n + 1
      <4>1. UsedAt(n)' = UsedAt(n)
        <5>1. n \in 0 .. n BY <1>3
        <5> QED BY <1>3, <2>3, <5>1, SamePrefix
      <4>2. stack'[m].next - 1 = k /\ order'[m] = i /\ stack'[m + 1].state = s /\ m - 1 = n
            /\ stack'[m].state = stack[n + 1].state
        <5>1. m + 1 = n + 2 /\ m - 1 = n /\ (k + 1) - 1 = k BY <1>3, <3>1
        <5> QED BY <2>2, <2>3, <2>10, <3>1, <5>1
      <4>3. i = Items'[k] BY <1>5, <2>0
      <4>4. s \in Apply(order[m], stack[m].state)'
        <5>1. PICK q : q = stack[n + 1].state OBVIOUS
        <5>2. order'[m] = i /\ stack'[m].state = q BY <4>2, <5>1
        <5>3. Apply(i, q)' = Apply(i, q) BY <1>5
        <5>4. Apply(order[m], stack[m].state)' = Apply(i, q) BY <5>2, <5>3
        <5> QED BY <2>1, <5>1, <5>4
      <4>5. Predecessors(order[m])' = Predecessors(i) BY <1>5, <4>2
      <4> QED BY <1>3, <1>5, <1>6, <2>4, <4>1, <4>2, <4>3, <4>4, <4>5 DEF Link
    <3>2. CASE m \in 1 .. n BY <1>1, <1>3, <1>4, <2>3, <2>8, <2>9, <3>2, SameLinks
    <3> QED BY <1>3, <3>1, <3>2
  <2>13. stack'[1].state = call'.initial
    <3>1. 1 \in 1 .. n + 1 BY <1>3
    <3> QED BY <1>4, <2>8, <3>1
  <2>14. IsSeq(order)' /\ IsSeq(stack)' BY <2>2, <2>3 DEF IsSeq
  <2>15. stack'[Len(stack')].next = 1 BY <2>2
  <2>16. Len(stack') = Len(order') + 1 BY <1>3, <2>2, <2>3
  <2> QED BY <2>1, <2>2, <2>3, <2>6, <2>7, <2>11, <2>12, <2>13, <2>14, <2>15, <2>16 DEF Path
<1>9. Len(stack) = n + 1 BY <1>3
<1> QED BY <1>2, <1>7, <1>8 DEF w

-----------------------------------------------------------------------------
(* An order that is reported is legal *)

SearchStep == Accept \/ GiveUp \/ Prune \/ Expand \/ LinTry \/ TxnTry \/ Backtrack

LEMMA SearchSteps ==
  ASSUME SearchStep
  PROVE  /\ UNCHANGED <<call, keep, pos, verdict>>
         /\ mode \in {"call", "loop"} /\ mode' \in {"call", "loop", "found", "failed"}
<1>1. CASE Accept BY <1>1, CallOutcome DEF Accept, Args
<1>2. CASE GiveUp BY <1>2, CallOutcome DEF GiveUp, Args, ReturnFalse
<1>3. CASE Prune BY <1>3, CallOutcome DEF Prune, Args, ReturnFalse
<1>4. CASE Expand BY <1>4, CallOutcome DEF Expand, Args
<1>5. ASSUME Advance
      PROVE  /\ UNCHANGED <<call, keep, pos, verdict>>
             /\ mode = "loop" /\ mode' \in {"call", "loop"}
  <2>1. UNCHANGED <<call, keep, pos, verdict>> /\ mode = "loop" BY <1>5, Zenon DEF Advance, Args
  <2>2. mode' = mode \/ mode' = "call" BY <1>5, Zenon DEF Advance
  <2> QED BY <2>1, <2>2
<1>6. CASE LinTry BY <1>5, <1>6 DEF LinTry
<1>7. CASE TxnTry BY <1>5, <1>7 DEF TxnTry
<1>8. CASE Backtrack BY <1>8 DEF Backtrack, Args, ReturnFalse
<1> QED BY <1>1, <1>2, <1>3, <1>4, <1>6, <1>7, <1>8 DEF SearchStep

LEMMA PathSearches ==
  ASSUME Kept, Path, SearchStep
  PROVE  Path'
<1>1. UNCHANGED <<call, keep, pos>> /\ mode \in {"call", "loop"} /\ mode # "done" BY SearchSteps
<1>2. CASE Accept
  <2>1. mode = "call" /\ Complete /\ mode' = "found" /\ UNCHANGED <<order, stack>>
    BY <1>2, CallOutcome DEF Accept
  <2>2. Used = Chosen BY <2>1, CompleteMeans DEF Searching
  <2> QED BY <1>1, <2>1, <2>2, PathStays
<1>3. CASE Expand
  <2>1. mode = "call" /\ ~Complete /\ mode' = "loop" /\ UNCHANGED <<order, stack>>
    BY <1>3, CallOutcome DEF Expand
  <2>2. Used # Chosen BY <2>1, CompleteMeans DEF Searching
  <2> QED BY <1>1, <2>1, <2>2, PathStays
<1>4. CASE LinTry \/ TxnTry
  <2>1. Advance BY <1>4 DEF LinTry, TxnTry
  <2> QED BY <1>1, <2>1, PathAdvances
<1>5. CASE GiveUp \/ Prune \/ Backtrack
  <2>1. ReturnFalse BY <1>5 DEF GiveUp, Prune, Backtrack
  <2> QED BY <1>1, <2>1, PathReturns
<1> QED BY <1>2, <1>3, <1>4, <1>5 DEF SearchStep

\* The path of a search is a legal order of its records, and leads to the state it is in.
LEMMA PathIsLegal ==
  ASSUME Kept, Path, Searching
  PROVE  order \in Legal(Used) /\ Last(stack).state \in Run(order, {call.initial})
<1> DEFINE n == Len(order)
           t == [k \in 0 .. n |-> stack[k + 1].state]
<1>1. /\ n \in Nat /\ DOMAIN order = 1 .. n /\ Cardinality(Used) = n /\ IsFiniteSet(Used)
      /\ Last(stack) = stack[n + 1]
      /\ \A k \in 1 .. n : order[k] \in Used
  BY PathFacts
<1>2. /\ Used \subseteq Chosen /\ Distinct(order) /\ IsSeq(order)
      /\ stack[1].state = call.initial
      /\ \A k \in 1 .. n : Link(k)
  BY DEF Path
<1>3. Chosen \subseteq Checked(call) /\ call \in Checks BY ItemsList DEF Searching, Kept
<1>4. order \in [1 .. n -> Used]
  <2>1. order = [k \in 1 .. n |-> order[k]] BY <1>1, <1>2 DEF IsSeq
  <2> HIDE DEF n
  <2> QED BY <1>1, <2>1
<1>5. InRealTime(order)
  <2> SUFFICES ASSUME NEW j \in 1 .. n, NEW i \in 1 .. j - 1, Before(Rec(order[j]), Rec(order[i]))
               PROVE  FALSE
    BY <1>1 DEF InRealTime
  <2>1. i \in 1 .. n /\ i # j BY <1>1
  <2>2. order[j] \in Chosen /\ order[i] \in Chosen /\ order[i] # order[j]
    BY <1>1, <1>2, <2>1 DEF Distinct
  <2>3. Rec(order[j]).complete \in Nat /\ Rec(order[i]).invoke \in Nat
    BY <1>3, <2>2, CallTypes
  <2>4. Rec(order[j]).complete <= Rec(order[i]).invoke BY <2>3 DEF Before
  <2>5. order[j] \in Predecessors(order[i]) BY <2>2, <2>4 DEF Predecessors, Chosen
  <2>6. order[j] \in UsedAt(i - 1) BY <1>2, <2>1, <2>5 DEF Link
  <2>7. PICK m \in 1 .. i - 1 : order[j] = order[m] BY <2>6 DEF UsedAt
  <2>8. m \in 1 .. n /\ m # j BY <1>1, <2>1
  <2> QED BY <1>1, <1>2, <2>7, <2>8 DEF Distinct
<1>6. Along(order, call.initial, t)
  <2>1. t[0] = call.initial
    <3>1. 0 \in 0 .. n /\ 0 + 1 = 1 BY <1>1
    <3> HIDE DEF n
    <3> QED BY <1>2, <3>1
  <2>2. ASSUME NEW k \in 1 .. n PROVE t[k] \in Apply(order[k], t[k - 1])
    <3>1. k \in 0 .. n /\ k - 1 \in 0 .. n /\ (k - 1) + 1 = k BY <1>1
    <3>2. stack[k + 1].state \in Apply(order[k], stack[k].state) BY <1>2 DEF Link
    <3> HIDE DEF n
    <3>3. t[k] = stack[k + 1].state /\ t[k - 1] = stack[k].state BY <3>1
    <3> QED BY <3>2, <3>3
  <2> HIDE DEF t
  <2> QED BY <2>1, <2>2 DEF Along
<1>7. t[n] = Last(stack).state
  <2>1. n \in 0 .. n BY <1>1
  <2> HIDE DEF n
  <2> QED BY <1>1, <2>1
<1> HIDE DEF t
<1>8. Last(stack).state \in Run(order, {call.initial}) BY <1>1, <1>6, <1>7, RunReaches
<1>9. order \in LegalFrom(Used, call.initial)
  <2>1. order \in [1 .. Cardinality(Used) -> Used] BY <1>1, <1>4
  <2> QED BY <1>1, <1>2, <1>5, <1>6, <2>1, LegalMeans
<1> QED BY <1>8, <1>9 DEF Legal

\* So is that of an accepted search, of all of them.
LEMMA FoundIsLegal ==
  ASSUME Kept, Path, mode = "found", pos = 0
  PROVE  order \in Legal(Checked(call))
<1>1. Used = Chosen BY DEF Path, Searching
<1>2. Chosen = Checked(call) BY DEF Chosen, Items, Kept
<1> QED BY <1>1, <1>2, PathIsLegal DEF Searching

\* As formulas that hold in every state.
LEMMA ItemsCounted == Kept /\ mode # "done" => Len(Items) \in Nat
BY ItemsList

LEMMA ItemsCountedNext == Kept' /\ mode' # "done" => Len(Items)' \in Nat
<1>1. (Kept /\ mode # "done" => Len(Items) \in Nat)' BY ItemsCounted, PTL
<1> QED BY <1>1

\* A search that begins.
LEMMA StartsPath ==
  ASSUME order = <<>>, stack = <<[state |-> call.initial, next |-> 1]>>, Len(Items) \in Nat,
         mode = "call"
  PROVE  Path
<1> DEFINE first == [state |-> call.initial, next |-> 1]
<1>1. IsSeq(<<>>) /\ Distinct(<<>>) /\ ToSet(<<>>) = {} /\ Len(<<>>) = 0
  BY DEF IsSeq, Distinct, ToSet
<1>2. <<first>> \in Seq({first}) /\ ToSet(<<first>>) = {first} /\ Len(<<first>>) = 1
      /\ <<first>>[1] = first
  BY DEF ToSet
<1>3. IsSeq(<<first>>) BY <1>2 DEF IsSeq
<1>4. first.next = 1 /\ first.state = call.initial /\ first = [state |-> first.state, next |-> first.next]
  OBVIOUS
<1> HIDE DEF first
<1>5. stack = <<first>> BY DEF first
<1>6. Frame(1) BY <1>2, <1>4, <1>5 DEF Frame
<1>7. Len(order) = 0 /\ Len(stack) = 1 BY <1>1, <1>2, <1>5
<1> QED BY <1>1, <1>2, <1>3, <1>4, <1>5, <1>6, <1>7 DEF Path, Used

LEMMA FirstPath ==
  (order = <<>> /\ stack = <<[state |-> call.initial, next |-> 1]>> /\ Len(Items) \in Nat
   /\ mode = "call" => Path)
BY StartsPath

LEMMA FirstPathNext ==
  order' = <<>> /\ stack' = <<[state |-> call'.initial, next |-> 1]>> /\ Len(Items)' \in Nat
  /\ mode' = "call" => Path'
<1>1. (order = <<>> /\ stack = <<[state |-> call.initial, next |-> 1]>> /\ Len(Items) \in Nat
       /\ mode = "call" => Path)'
  BY FirstPath, PTL
<1> QED BY <1>1

\* A minimiser's next search, or its end.
LEMMA KeptNext ==
  ASSUME call \in Checks, NEW kept, NEW p, p \in Nat, p # 0, IsSeq(kept), Distinct(kept),
         ToSet(kept) \subseteq Checked(call), MinimizeNext(kept, p), verdict = "none"
  PROVE  Kept' /\ Path' /\ verdict' # "legal" /\ UNCHANGED call
<1>1. call' = call /\ keep' = kept /\ pos' = p BY DEF MinimizeNext
<1>2. IsSeq(keep)' /\ Distinct(keep)' /\ (ToSet(keep) \subseteq Checked(call))'
  BY <1>1 DEF IsSeq, Distinct
<1>3. CASE p <= Len(kept) /\ Len(kept) > 1
  <2>1. /\ order' = <<>> /\ stack' = <<[state |-> call.initial, next |-> 1]>> /\ mode' = "call"
        /\ verdict' = verdict
    BY <1>3 DEF MinimizeNext, Start
  <2>2. Kept' BY <1>1, <1>2, <1>3, <2>1 DEF Kept
  <2>3. Len(Items)' \in Nat BY <2>1, <2>2, ItemsCountedNext
  <2>4. Path' BY <1>1, <2>1, <2>3, FirstPathNext
  <2> QED BY <1>1, <2>1, <2>2, <2>4
<1>4. CASE ~(p <= Len(kept) /\ Len(kept) > 1)
  <2>1. mode' = "done" /\ verdict' = "illegal" BY <1>4 DEF MinimizeNext, Answer
  <2>2. Kept' BY <1>1, <1>2, <2>1 DEF Kept
  <2>3. Path' BY <2>1 DEF Path, Searching
  <2> QED BY <1>1, <2>1, <2>2, <2>3
<1> QED BY <1>3, <1>4

LEMMA CallFinite ==
  ASSUME call \in Checks
  PROVE  IsFiniteSet(Checked(call))
<1>1. Len(call.history) \in Nat /\ Checked(call) \subseteq 1 .. Len(call.history) BY CallTypes
<1>2. IsFiniteSet(1 .. Len(call.history)) BY <1>1, FS_Interval
<1> QED BY <1>1, <1>2, FS_Subset

LEMMA CheckedLaw ==
  ASSUME call \in Checks, UNCHANGED call
  PROVE  /\ IsFiniteSet(Checked(call)) /\ Checked(call)' = Checked(call)
         /\ \A S : IsFiniteSet(S) => Legal(S)' = Legal(S)
<1>3. IsFiniteSet(Checked(call)) BY CallFinite
<1>4. \A S, s : IsFiniteSet(S) => LegalFrom(S, s)' = LegalFrom(S, s) BY SameLaw
<1>5. \A S : IsFiniteSet(S) => Legal(S)' = Legal(S) BY <1>4 DEF Legal
<1> QED BY <1>3, <1>5

LEMMA PathInit == Init => PathInv
<1> SUFFICES ASSUME Init PROVE PathInv OBVIOUS
<1>1. call \in Checks /\ keep = Filtered(call) /\ pos = 0 BY DEF Init
<1>2. Listing(keep, Checked(call)) BY <1>1, FilteredLists
<1>3. IsSeq(keep) /\ Distinct(keep) /\ ToSet(keep) = Checked(call) BY <1>2 DEF Listing, IsSeq
<1>4. Kept BY <1>1, <1>3 DEF Init, Kept
<1>5. Path
  <2>1. Len(Items) \in Nat BY <1>4, ItemsList DEF Init
  <2> QED BY <2>1, FirstPath DEF Init
<1>6. Reported BY DEF Init, Reported
<1> QED BY <1>4, <1>5, <1>6 DEF PathInv

\* The first search has ended, or one of the minimiser's has.
LEMMA Concluded ==
  ASSUME PathInv, LinConclude \/ TxnConclude \/ Minimize
  PROVE  \/ /\ verdict' \in {"inconclusive", "legal", "illegal"} /\ mode' = "done"
            /\ UNCHANGED <<call, keep, pos, order>>
            /\ verdict' = "legal" => pos = 0 /\ mode = "found" /\ ~inconclusive
            /\ verdict' = "illegal" => pos = 0 /\ mode = "failed" /\ ~inconclusive
         \/ /\ pos = 0 /\ mode = "failed" /\ ~inconclusive /\ MinimizeNext(keep, 1)
         \/ /\ pos > 0 /\ mode = "failed" /\ ~inconclusive /\ MinimizeNext(Items, pos)
         \/ /\ pos > 0 /\ mode \in {"found", "failed"} /\ MinimizeNext(keep, pos + 1)
<1>1. CASE LinConclude
  <2>1. pos = 0 /\ mode \in {"found", "failed"} BY <1>1 DEF LinConclude, FirstEnded
  <2>2. \/ Answer("inconclusive") /\ UNCHANGED <<call, keep, pos>>
        \/ ~inconclusive /\ mode = "found" /\ Answer("legal") /\ UNCHANGED <<call, keep, pos>>
        \/ ~inconclusive /\ mode = "failed" /\ MinimizeNext(keep, 1)
    BY <1>1 DEF LinConclude
  <2> QED BY <2>1, <2>2 DEF Answer
<1>2. CASE TxnConclude BY <1>2 DEF TxnConclude, FirstEnded, Answer
<1>3. CASE Minimize BY <1>3 DEF Minimize, StillFails
<1> QED BY <1>1, <1>2, <1>3

LEMMA PathMoves ==
  ASSUME PathInv, Next
  PROVE  PathInv'
<1>1. Kept /\ Path /\ Reported /\ call \in Checks BY DEF PathInv, Kept
<1>2. CASE SearchStep
  <2>1. /\ UNCHANGED <<call, keep, pos, verdict>>
        /\ mode \in {"call", "loop"} /\ mode' \in {"call", "loop", "found", "failed"}
    BY <1>2, SearchSteps
  <2>2. Kept' BY <1>1, <2>1 DEF Kept, IsSeq, Distinct
  <2>3. Path' BY <1>1, <1>2, PathSearches
  <2>4. Reported' BY <1>1, <2>1 DEF Kept, Reported
  <2> QED BY <2>2, <2>3, <2>4 DEF PathInv
<1>3. CASE LinConclude \/ TxnConclude \/ Minimize
  <2>0. verdict = "none" /\ mode # "done"
    <3>1. mode # "done" BY <1>3 DEF LinConclude, TxnConclude, Minimize, FirstEnded
    <3> QED BY <1>1, <3>1 DEF Kept
  <2>1. CASE /\ verdict' \in {"inconclusive", "legal", "illegal"} /\ mode' = "done"
             /\ UNCHANGED <<call, keep, pos, order>>
             /\ verdict' = "legal" => pos = 0 /\ mode = "found" /\ ~inconclusive
    <3>1. Kept' BY <1>1, <2>1 DEF Kept, IsSeq, Distinct
    <3>2. Path' BY <2>1 DEF Path, Searching
    <3>3. Reported'
      <4> SUFFICES ASSUME verdict' = "legal" PROVE order' \in Legal(Checked(call))'
        BY DEF Reported
      <4>1. order \in Legal(Checked(call)) BY <1>1, <2>1, FoundIsLegal
      <4>2. Legal(Checked(call))' = Legal(Checked(call)) BY <1>1, <2>0, <2>1, SearchLaw
      <4> QED BY <2>1, <4>1, <4>2
    <3> QED BY <3>1, <3>2, <3>3 DEF PathInv
  <2>2. ASSUME NEW kept, NEW p, p \in Nat, p # 0, IsSeq(kept), Distinct(kept),
               ToSet(kept) \subseteq Checked(call), MinimizeNext(kept, p)
        PROVE  PathInv'
    <3>1. Kept' /\ Path' /\ verdict' # "legal" BY <1>1, <2>0, <2>2, KeptNext
    <3> QED BY <3>1 DEF PathInv, Reported
  <2>3. IsSeq(keep) /\ Distinct(keep) /\ ToSet(keep) \subseteq Checked(call) BY <1>1 DEF Kept
  <2>4. IsSeq(Items) /\ Distinct(Items) /\ ToSet(Items) \subseteq Checked(call)
    <3>1. Listing(Items, Chosen) /\ Chosen \subseteq Checked(call) BY <1>1, <2>0, ItemsList
    <3> QED BY <3>1 DEF Listing, Chosen, IsSeq
  <2>5. CASE MinimizeNext(keep, 1) BY <2>2, <2>3, <2>5
  <2>6. CASE pos > 0 /\ MinimizeNext(Items, pos) BY <1>1, <2>2, <2>4, <2>6 DEF Kept
  <2>7. CASE pos > 0 /\ MinimizeNext(keep, pos + 1)
    <3>1. pos + 1 \in Nat /\ pos + 1 # 0 BY <1>1, <2>7 DEF Kept
    <3> QED BY <2>2, <2>3, <2>7, <3>1
  <2> QED BY <1>3, <2>1, <2>5, <2>6, <2>7, Concluded
<1>4. CASE Done
  <2>1. UNCHANGED <<call, keep, pos, order, stack, mode, verdict>> /\ mode = "done"
    BY <1>4 DEF Done, vars, search
  <2>2. Kept' BY <1>1, <2>1 DEF Kept, IsSeq, Distinct
  <2>3. Path' BY <2>1 DEF Path, Searching
  <2>4. Reported'
    <3>1. Legal(Checked(call))' = Legal(Checked(call))
      <4>1. IsFiniteSet(Checked(call)) /\ \A S : IsFiniteSet(S) => Legal(S)' = Legal(S)
        BY <1>1, <2>1, CheckedLaw
      <4>2. Checked(call)' = Checked(call) BY <2>1
      <4>3. PICK S : S = Checked(call) OBVIOUS
      <4> QED BY <4>1, <4>2, <4>3
    <3> QED BY <1>1, <2>1, <3>1 DEF Reported
  <2> QED BY <2>2, <2>3, <2>4 DEF PathInv
<1> QED BY <1>2, <1>3, <1>4 DEF Next, SearchStep

LEMMA PathStutters ==
  ASSUME PathInv, UNCHANGED vars
  PROVE  PathInv'
<1>1. UNCHANGED <<call, keep, pos, order, stack, mode, verdict>> BY DEF vars, search
<1>2. Kept /\ Path /\ Reported /\ call \in Checks BY DEF PathInv, Kept
<1>3. Kept' BY <1>1, <1>2 DEF Kept, IsSeq, Distinct
<1>4. Reported'
  <2>1. IsFiniteSet(Checked(call)) /\ \A S : IsFiniteSet(S) => Legal(S)' = Legal(S)
    BY <1>1, <1>2, CheckedLaw
  <2>2. Checked(call)' = Checked(call) BY <1>1
  <2>3. PICK S : S = Checked(call) OBVIOUS
  <2>4. Legal(Checked(call))' = Legal(Checked(call)) BY <2>1, <2>2, <2>3
  <2> QED BY <1>1, <1>2, <2>4 DEF Reported
<1>5. Path'
  <2>1. CASE mode = "done" BY <1>1, <2>1 DEF Path, Searching
  <2>2. CASE mode # "done" /\ ~Searching BY <1>1, <2>2 DEF Path, Searching
  <2>3. CASE Searching
    <3>1. mode # "done" BY <2>3 DEF Searching
    <3>2. Chosen' = Chosen /\ Used' = Used BY <1>1, <1>2, <3>1, SearchLaw DEF Used
    <3>3. PICK n \in Nat : n = Len(order) /\ Len(stack) = n + 1 BY <1>2, <2>3, PathFacts
    <3>4. \A k \in 1 .. n + 1 : Frame(k)'
      <4>1. \A k \in 1 .. n + 1 : Frame(k) BY <1>2, <2>3, <3>3 DEF Path
      <4> QED BY <1>1, <1>2, <3>1, <3>3, <4>1, SameLinks
    <3>5. \A k \in 1 .. n : Link(k)'
      <4>1. \A k \in 1 .. n : Link(k) BY <1>2, <2>3, <3>3 DEF Path
      <4> QED BY <1>1, <1>2, <3>1, <3>3, <4>1, SameLinks
    <3>6. IsSeq(order)' /\ Distinct(order)' /\ IsSeq(stack)'
      BY <1>1, <1>2, <2>3 DEF Path, IsSeq, Distinct
    <3> QED BY <1>1, <1>2, <2>3, <3>2, <3>3, <3>4, <3>5, <3>6 DEF Path, Searching
  <2> QED BY <2>1, <2>2, <2>3
<1> QED BY <1>3, <1>4, <1>5 DEF PathInv

LEMMA PathHolds == Spec => []PathInv
<1>1. PathInv /\ [Next]_vars => PathInv' BY PathMoves, PathStutters
<1> QED BY <1>1, PathInit, PTL DEF Spec

\* An order that check_linearizable or check_serializable reports is a legal sequential
\* order of the completed operations, in real-time order, whatever the budget.
THEOREM ReportIsLegal == Spec => [](verdict = "legal" => order \in Legal(Checked(call)))
<1>1. PathInv => (verdict = "legal" => order \in Legal(Checked(call))) BY DEF PathInv, Reported
<1> QED BY <1>1, PathHolds, PTL

-----------------------------------------------------------------------------
(* A history that is rejected has no legal order *)

\* No legal order of the records left goes on from this node.
Hopeless(used, s) == LegalFrom(Chosen \ used, s) = {}

\* The candidate is not free to come next, or nothing is legal after it.
Tried(k, m) ==
  (Items[m] \notin UsedAt(k - 1) /\ Predecessors(Items[m]) \subseteq UsedAt(k - 1)) =>
    \A x \in Apply(Items[m], stack[k].state) : Hopeless(UsedAt(k - 1) \union {Items[m]}, x)

\* The candidates a call of dfs is done with: not the one whose answer it waits for.
Passed(k) == {m \in 1 .. stack[k].next - 1 : k = Len(stack) \/ m < stack[k].next - 1}

Node(k) == [used |-> UsedAt(k - 1), state |-> stack[k].state]

\* The calls that have put their node in the memo.
Entered == IF mode = "loop" THEN 1 .. Len(order) + 1 ELSE 1 .. Len(order)

Memo ==
  (mode \in {"call", "loop"} /\ ~inconclusive) =>
    /\ \A k \in 1 .. Len(order) + 1 : \A m \in Passed(k) : Tried(k, m)
    /\ \A e \in seen : (\E k \in Entered : e = Node(k)) \/ Hopeless(e.used, e.state)

Failures ==
  /\ mode = "failed" /\ ~inconclusive => Hopeless({}, call.initial)
  /\ pos > 0 \/ verdict = "illegal" => Legal(Checked(call)) = {} /\ Legal(ToSet(keep)) = {}

MemoInv == PathInv /\ Memo /\ Failures

LEMMA HopelessSame ==
  ASSUME Kept, mode # "done", UNCHANGED <<call, keep, pos>>
  PROVE  \A U, s : Hopeless(U, s)' <=> Hopeless(U, s)
<1>1. Chosen' = Chosen /\ \A S, s : IsFiniteSet(S) => LegalFrom(S, s)' = LegalFrom(S, s) BY SearchLaw
<1>2. IsFiniteSet(Chosen) BY ItemsList
<1> SUFFICES ASSUME NEW U, NEW s PROVE Hopeless(U, s)' <=> Hopeless(U, s) OBVIOUS
<1>3. PICK S : S = Chosen \ U OBVIOUS
<1>4. IsFiniteSet(S) BY <1>2, <1>3, FS_Subset
<1>5. LegalFrom(S, s)' = LegalFrom(S, s) BY <1>1, <1>4
<1> QED BY <1>1, <1>3, <1>5 DEF Hopeless

\* What is known of a candidate stays while the calls below it stay.
LEMMA TriedSame ==
  ASSUME Kept, mode # "done", UNCHANGED <<call, keep, pos>>,
         NEW n \in Nat, \A m \in 1 .. n : order'[m] = order[m],
         \A k \in 1 .. n + 1 : stack'[k].state = stack[k].state
  PROVE  \A k \in 1 .. n + 1 : Node(k)' = Node(k) /\ \A m : Tried(k, m)' <=> Tried(k, m)
<1> SUFFICES ASSUME NEW k \in 1 .. n + 1
             PROVE  Node(k)' = Node(k) /\ \A m : Tried(k, m)' <=> Tried(k, m)
  OBVIOUS
<1>1. UsedAt(k - 1)' = UsedAt(k - 1)
  <2>1. k - 1 \in 0 .. n OBVIOUS
  <2> QED BY <2>1, SamePrefix
<1>2. stack'[k].state = stack[k].state OBVIOUS
<1>3. /\ Items' = Items /\ \A i, s : Apply(i, s)' = Apply(i, s)
      /\ \A i : Predecessors(i)' = Predecessors(i)
  BY SearchLaw
<1>4. \A U, s : Hopeless(U, s)' <=> Hopeless(U, s) BY HopelessSame
<1>5. Node(k)' = Node(k) BY <1>1, <1>2 DEF Node
<1>6. ASSUME NEW m PROVE Tried(k, m)' <=> Tried(k, m)
  <2>1. PICK i, U, s : i = Items[m] /\ U = UsedAt(k - 1) /\ s = stack[k].state OBVIOUS
  <2>2. Items'[m] = i /\ UsedAt(k - 1)' = U /\ stack'[k].state = s BY <1>1, <1>2, <1>3, <2>1
  <2>3. Tried(k, m) <=> ((i \notin U /\ Predecessors(i) \subseteq U) =>
                           \A x \in Apply(i, s) : Hopeless(U \union {i}, x))
    BY <2>1 DEF Tried
  <2>4. Tried(k, m)' <=> ((i \notin U /\ Predecessors(i)' \subseteq U) =>
                            \A x \in Apply(i, s)' : Hopeless(U \union {i}, x)')
    BY <2>2 DEF Tried
  <2> QED BY <1>3, <1>4, <2>3, <2>4
<1> QED BY <1>5, <1>6

\* A call of dfs at a hopeless node answers false.
LEMMA MemoReturns ==
  ASSUME Kept, Path, Memo, mode \in {"call", "loop"}, ~inconclusive,
         UNCHANGED <<call, keep, pos, seen>>, ReturnFalse, Hopeless(Used, Last(stack).state)
  PROVE  Memo' /\ (mode' = "failed" => Hopeless({}, call.initial)')
<1>1. PICK n : n = Len(order) OBVIOUS
<1>2. /\ n \in Nat /\ Len(stack) = n + 1 /\ Last(stack) = stack[n + 1] /\ Used = UsedAt(n)
      /\ \A k \in 1 .. n : UsedAt(k) = UsedAt(k - 1) \union {order[k]}
  BY <1>1, PathFacts DEF Searching
<1>3. stack[1].state = call.initial /\ \A k \in 1 .. n : Link(k) BY <1>1 DEF Path, Searching
<1>4. \A U, s : Hopeless(U, s)' <=> Hopeless(U, s) BY HopelessSame
<1>5. /\ \A k \in 1 .. n + 1 : \A m \in Passed(k) : Tried(k, m)
      /\ \A e \in seen : (\E k \in 1 .. n + 1 : e = Node(k)) \/ Hopeless(e.used, e.state)
  <2>1. Entered \subseteq 1 .. n + 1 BY <1>1, <1>2 DEF Entered
  <2> QED BY <1>1, <2>1 DEF Memo
<1>6. CASE n = 0
  <2>1. mode' = "failed" BY <1>1, <1>6, Returned
  <2>2. UsedAt(0) = {} /\ n + 1 = 1 BY <1>6 DEF UsedAt
  <2>3. Hopeless({}, call.initial) BY <1>2, <1>3, <1>6, <2>2
  <2>4. PICK s : s = call.initial /\ s = call'.initial OBVIOUS
  <2>5. Hopeless({}, s)' BY <1>4, <2>3, <2>4
  <2>6. Hopeless({}, call.initial)' BY <2>4, <2>5
  <2> QED BY <2>1, <2>6 DEF Memo
<1>7. CASE n # 0
  <2>1. /\ mode' = "loop" /\ Len(order') = n - 1 /\ Len(stack') = n
        /\ \A m \in 1 .. n - 1 : order'[m] = order[m]
        /\ \A m \in 1 .. n : stack'[m] = stack[m]
    BY <1>1, <1>7, Returned
  <2>2. n - 1 \in Nat /\ (n - 1) + 1 = n BY <1>2, <1>7
  <2>3. \A k \in 1 .. n : Node(k)' = Node(k) /\ \A m : Tried(k, m)' <=> Tried(k, m)
    BY <2>1, <2>2, TriedSame
  <2>4. Tried(n, stack[n].next - 1)
    <3>1. n \in 1 .. n BY <1>2, <1>7
    <3>2. PICK m : m = stack[n].next - 1 OBVIOUS
    <3>3. /\ order[n] = Items[m] /\ m \in 1 .. Len(Items)
          /\ stack[n + 1].state \in Apply(Items[m], stack[n].state)
      BY <1>3, <3>1, <3>2 DEF Link
    <3>4. Items[m] \in Checked(call) BY <3>3, ItemsList
    <3>5. Single(Apply(Items[m], stack[n].state)) BY <3>4, ApplySingle DEF Kept
    <3>6. \A x \in Apply(Items[m], stack[n].state) : x = stack[n + 1].state
      BY <3>3, <3>5 DEF Single
    <3>7. UsedAt(n - 1) \union {Items[m]} = Used BY <1>2, <3>1, <3>3
    <3> QED BY <1>2, <3>2, <3>6, <3>7 DEF Tried
  <2>5. ASSUME NEW k \in 1 .. n, NEW m \in Passed(k)' PROVE Tried(k, m)'
    <3>1. m \in 1 .. stack[k].next - 1 /\ (k = n \/ m < stack[k].next - 1)
      BY <2>1 DEF Passed
    <3>2. Tried(k, m)
      <4>1. CASE k = n /\ m = stack[k].next - 1 BY <2>4, <4>1
      <4>2. CASE m < stack[k].next - 1
        <5>1. m \in Passed(k) /\ k \in 1 .. n + 1 BY <1>2, <3>1, <4>2 DEF Passed
        <5> QED BY <1>5, <5>1
      <4>3. CASE k = n /\ m # stack[k].next - 1
        <5>1. n \in 1 .. n BY <1>2, <1>7
        <5>2. stack[n].next - 1 \in 1 .. Len(Items) /\ Len(Items) \in Nat
          BY <1>3, <5>1, ItemsList DEF Link
        <5>3. m < stack[k].next - 1 BY <3>1, <4>3, <5>2
        <5> QED BY <4>2, <5>3
      <4> QED BY <3>1, <4>1, <4>2, <4>3
    <3> QED BY <2>3, <3>2
  <2>6. ASSUME NEW e \in seen
        PROVE  (\E k \in 1 .. n : e = Node(k)') \/ Hopeless(e.used, e.state)'
    <3>1. CASE \E k \in 1 .. n + 1 : e = Node(k)
      <4>1. PICK k \in 1 .. n + 1 : e = Node(k) BY <3>1
      <4>2. CASE k = n + 1
        <5>1. e.used = Used /\ e.state = Last(stack).state
          <6>1. k - 1 = n BY <1>2, <4>2
          <6> QED BY <1>2, <4>1, <4>2, <6>1 DEF Node
        <5>2. Hopeless(e.used, e.state) BY <5>1
        <5> QED BY <1>4, <5>2
      <4>3. CASE k # n + 1
        <5>1. k \in 1 .. n BY <1>2, <4>3
        <5> QED BY <2>3, <4>1, <5>1
      <4> QED BY <4>2, <4>3
    <3>2. CASE Hopeless(e.used, e.state) BY <1>4, <3>2
    <3> QED BY <1>5, <3>1, <3>2
  <2>7. Entered' = 1 .. n /\ Len(order)' + 1 = n BY <1>2, <2>1 DEF Entered
  <2>8. \A k \in 1 .. Len(order)' + 1 : \A m \in Passed(k)' : Tried(k, m)' BY <2>5, <2>7
  <2>9. \A e \in seen' : (\E k \in Entered' : e = Node(k)') \/ Hopeless(e.used, e.state)'
    BY <2>6, <2>7
  <2> QED BY <2>1, <2>8, <2>9 DEF Memo
<1> QED BY <1>6, <1>7

\* The node of the call that runs now.
LEMMA HereIs ==
  ASSUME Path, mode \in {"call", "loop"}
  PROVE  NodeHere = Node(Len(order) + 1)
<1>1. /\ Len(order) \in Nat /\ Last(stack) = stack[Len(order) + 1] /\ Used = UsedAt(Len(order))
  BY PathFacts DEF Searching
<1>2. (Len(order) + 1) - 1 = Len(order) BY <1>1
<1> QED BY <1>1, <1>2 DEF NodeHere, Node

\* A node the memo has is not that of an open call: it was found hopeless.
LEMMA SeenIsHopeless ==
  ASSUME Kept, Path, Memo, mode = "call", ~inconclusive, Seen
  PROVE  Hopeless(Used, Last(stack).state)
<1>1. PICK e \in seen : e = NodeHere BY DEF Seen
<1>2. e.used = Used /\ e.state = Last(stack).state BY <1>1 DEF NodeHere
<1>3. ASSUME NEW k \in 1 .. Len(order), e = Node(k) PROVE FALSE
  <2>1. UsedAt(k - 1) = Used BY <1>2, <1>3 DEF Node
  <2>2. order[k] \in Used /\ order[k] \notin UsedAt(k - 1) BY PathFacts DEF Searching
  <2> QED BY <2>1, <2>2
<1>4. (\E k \in 1 .. Len(order) : e = Node(k)) \/ Hopeless(e.used, e.state)
  BY DEF Memo, Entered
<1> QED BY <1>2, <1>3, <1>4

\* A call of dfs that is through with its candidates is at a hopeless node.
LEMMA NoneIsHopeless ==
  ASSUME InstantsApart, Kept, Path, Memo, mode = "loop", ~inconclusive, Candidates = {}
  PROVE  Hopeless(Used, Last(stack).state)
<1>1. PICK n : n = Len(order) OBVIOUS
<1>2. n \in Nat /\ Len(stack) = n + 1 /\ Last(stack) = stack[n + 1] /\ Used = UsedAt(n)
  BY <1>1, PathFacts DEF Searching
<1>3. Used \subseteq Chosen /\ Used # Chosen /\ stack[n + 1].next \in 1 .. Len(Items) + 1
  <2>1. n + 1 \in 1 .. Len(stack) BY <1>2
  <2>2. Frame(n + 1) BY <2>1 DEF Path, Searching
  <2> QED BY <2>2 DEF Path, Searching, Frame
<1>4. /\ IsFiniteSet(Chosen) /\ Chosen \subseteq Checked(call) /\ Len(Items) \in Nat
      /\ \A i \in Chosen : \E m \in 1 .. Len(Items) : Items[m] = i
  BY ItemsList
<1>5. PICK s : s = stack[n + 1].state OBVIOUS
<1>6. SUFFICES ASSUME LegalFrom(Chosen \ Used, s) # {} PROVE FALSE BY <1>2, <1>5 DEF Hopeless
<1>7. PICK R : R = Chosen \ Used OBVIOUS
<1>8. IsFiniteSet(R) /\ R # {} /\ LegalFrom(R, s) # {} BY <1>3, <1>4, <1>6, <1>7, FS_Subset
<1>9. PICK i \in R : /\ \A j \in R \ {i} : ~Before(Rec(j), Rec(i))
                     /\ \E x \in Apply(i, s) : LegalFrom(R \ {i}, x) # {}
  BY <1>8, FirstOfLegal
<1>10. Predecessors(i) \subseteq Used
  <2> SUFFICES ASSUME NEW j \in Predecessors(i), j \notin Used PROVE FALSE OBVIOUS
  <2>1. j \in Chosen /\ j # i /\ Rec(j).complete <= Rec(i).invoke BY DEF Predecessors, Chosen
  <2>2. j \in R \ {i} /\ i \in Chosen BY <1>7, <2>1
  <2>3. ~Before(Rec(j), Rec(i)) BY <1>9, <2>2
  <2>4. Rec(j).complete \in Nat /\ Rec(i).invoke \in Nat BY <1>4, <2>1, <2>2, CallTypes DEF Kept
  <2>5. Rec(j).complete = Rec(i).invoke /\ Rec(j).process # Rec(i).process
    BY <2>1, <2>3, <2>4 DEF Before
  <2>6. call \in Checks /\ i \in Checked(call) /\ j \in Checked(call) BY <1>4, <2>1, <2>2 DEF Kept
  <2> QED BY <2>5, <2>6 DEF InstantsApart, Rec
<1>11. PICK m \in 1 .. Len(Items) : Items[m] = i BY <1>4, <1>7
<1>12. i \notin Used BY <1>7
<1>13. m < stack[n + 1].next
  <2>1. m \notin Last(stack).next .. Len(Items)
    <3>1. m \notin Candidates OBVIOUS
    <3> QED BY <1>10, <1>11, <1>12, <3>1 DEF Candidates
  <2> QED BY <1>2, <1>3, <1>4, <2>1
<1>14. m \in Passed(n + 1) /\ n + 1 \in 1 .. n + 1 /\ (n + 1) - 1 = n
  BY <1>2, <1>3, <1>13 DEF Passed
<1>15. Tried(n + 1, m) BY <1>1, <1>14 DEF Memo
<1>16. \A x \in Apply(i, s) : Hopeless(Used \union {i}, x)
  BY <1>2, <1>5, <1>10, <1>11, <1>12, <1>14, <1>15 DEF Tried
<1>17. \A x \in Apply(i, s) : LegalFrom(R \ {i}, x) = {}
  <2>1. Chosen \ (Used \union {i}) = R \ {i} BY <1>7
  <2> QED BY <1>16, <2>1 DEF Hopeless
<1> QED BY <1>9, <1>17

\* The call enters its node in the memo.
LEMMA MemoExpands ==
  ASSUME Kept, Path, Memo, Expand
  PROVE  Memo'
<1>1. /\ UNCHANGED <<call, keep, pos, order, stack, inconclusive>> /\ mode = "call"
      /\ mode' = "loop" /\ seen' = seen \union {NodeHere}
  BY CallOutcome DEF Expand, Args, Remember
<1>2. SUFFICES ASSUME ~inconclusive PROVE Memo' BY <1>1 DEF Memo
<1>3. PICK n \in Nat : n = Len(order) BY <1>1, PathFacts DEF Searching
<1>4. \A k \in 1 .. n + 1 : Node(k)' = Node(k) /\ \A m : Tried(k, m)' <=> Tried(k, m)
  BY <1>1, TriedSame
<1>5. \A k : Passed(k)' = Passed(k) BY <1>1 DEF Passed
<1>6. \A U, s : Hopeless(U, s)' <=> Hopeless(U, s) BY <1>1, HopelessSame
<1>7. \A k \in 1 .. n + 1 : \A m \in Passed(k)' : Tried(k, m)'
  BY <1>1, <1>2, <1>3, <1>4, <1>5 DEF Memo
<1>8. NodeHere = Node(n + 1) BY <1>1, <1>3, HereIs
<1>9. \A e \in seen' : (\E k \in 1 .. n + 1 : e = Node(k)') \/ Hopeless(e.used, e.state)'
  <2> SUFFICES ASSUME NEW e \in seen'
               PROVE  (\E k \in 1 .. n + 1 : e = Node(k)') \/ Hopeless(e.used, e.state)'
    OBVIOUS
  <2>1. CASE e = NodeHere
    <3>1. n + 1 \in 1 .. n + 1 OBVIOUS
    <3> QED BY <1>4, <1>8, <2>1, <3>1
  <2>2. CASE e \in seen
    <3>1. (\E k \in 1 .. n : e = Node(k)) \/ Hopeless(e.used, e.state)
      BY <1>1, <1>2, <1>3, <2>2 DEF Memo, Entered
    <3>2. \A k \in 1 .. n : k \in 1 .. n + 1 OBVIOUS
    <3> QED BY <1>4, <1>6, <3>1, <3>2
  <2> QED BY <1>1, <2>1, <2>2
<1>10. Entered' = 1 .. n + 1 /\ Len(order)' + 1 = n + 1 BY <1>1, <1>3 DEF Entered
<1> QED BY <1>7, <1>9, <1>10 DEF Memo

\* The candidates before the one that is tried may not come next.
LEMMA MemoAdvances ==
  ASSUME Kept, Path, Memo, Advance, UNCHANGED <<call, keep, pos, seen, inconclusive>>
  PROVE  Memo'
<1>1. mode = "loop" BY DEF Advance
<1>2. PICK n : n = Len(order) OBVIOUS
<1>3. PICK k : /\ Tries(k)
               /\ \/ /\ Apply(Items[k], Last(stack).state) = {}
                     /\ stack' = Waiting(k) /\ order' = order /\ mode' = "loop"
                  \/ \E s \in Apply(Items[k], Last(stack).state) :
                       /\ stack' = Append(Waiting(k), [state |-> s, next |-> 1])
                       /\ order' = Append(order, Items[k]) /\ mode' = "call"
  BY AdvanceTries
<1> DEFINE w == Waiting(k)
<1>4. /\ n \in Nat /\ Len(stack) = n + 1 /\ Last(stack) = stack[n + 1]
      /\ IsSeq(w) /\ Len(w) = n + 1 /\ DOMAIN w = 1 .. n + 1
      /\ \A m \in 1 .. n : w[m] = stack[m]
      /\ w[n + 1] = [state |-> stack[n + 1].state, next |-> k + 1]
      /\ stack[n + 1].next \in 1 .. k /\ k \in 1 .. Len(Items)
  BY <1>1, <1>2, <1>3, WaitingIs
<1> HIDE DEF w
<1>5. SUFFICES ASSUME ~inconclusive PROVE Memo' BY DEF Memo
<1>6. /\ \A j \in 1 .. n + 1 : \A m \in Passed(j) : Tried(j, m)
      /\ \A e \in seen : (\E j \in 1 .. n + 1 : e = Node(j)) \/ Hopeless(e.used, e.state)
  BY <1>1, <1>2, <1>5 DEF Memo, Entered
<1>7. UsedAt(n) = Used /\ (n + 1) - 1 = n BY <1>1, <1>2, <1>4, PathFacts DEF Searching
<1>8. \A U, s : Hopeless(U, s)' <=> Hopeless(U, s) BY <1>1, HopelessSame
\* What is known of the candidates up to k.
<1>9. ASSUME NEW m \in 1 .. k - 1 PROVE Tried(n + 1, m)
  <2>1. CASE m < stack[n + 1].next
    <3>1. m \in Passed(n + 1) /\ n + 1 \in 1 .. n + 1 BY <1>4, <2>1 DEF Passed
    <3> QED BY <1>6, <3>1
  <2>2. CASE ~(m < stack[n + 1].next)
    <3>1. m \in Last(stack).next .. k - 1 BY <1>4, <2>2
    <3> QED BY <1>3, <1>7, <3>1 DEF Tries, Tried
  <2> QED BY <2>1, <2>2
<1>10. /\ \A m \in 1 .. n : order'[m] = order[m]
       /\ \A j \in 1 .. n + 1 : stack'[j] = w[j]
  <2>1. CASE stack' = w /\ order' = order BY <2>1
  <2>2. CASE \E s : stack' = Append(w, [state |-> s, next |-> 1]) /\ order' = Append(order, Items[k])
    <3>1. IsSeq(order) BY <1>1 DEF Path, Searching
    <3>2. \A m \in 1 .. n : order'[m] = order[m] BY <1>2, <2>2, <3>1, Appended
    <3>3. \A j \in 1 .. n + 1 : stack'[j] = w[j] BY <1>4, <2>2, Appended
    <3> QED BY <3>2, <3>3
  <2> QED BY <1>3, <2>1, <2>2 DEF w
<1>11. \A j \in 1 .. n + 1 : stack'[j].state = stack[j].state
  <2>1. \A j \in 1 .. n + 1 : j \in 1 .. n \/ j = n + 1 BY <1>4
  <2> QED BY <1>4, <1>10, <2>1
<1>12. \A j \in 1 .. n + 1 : Node(j)' = Node(j) /\ \A m : Tried(j, m)' <=> Tried(j, m)
  BY <1>1, <1>4, <1>10, <1>11, TriedSame
<1>13. \A e \in seen' : (\E j \in 1 .. n + 1 : e = Node(j)') \/ Hopeless(e.used, e.state)'
  BY <1>6, <1>8, <1>12
\* The calls below are not touched.
<1>14. Len(stack') \in {n + 1, n + 2}
  <2>1. CASE stack' = w BY <1>4, <2>1
  <2>2. CASE \E s : stack' = Append(w, [state |-> s, next |-> 1])
    <3>1. Len(stack') = (n + 1) + 1 BY <1>4, <2>2, Appended
    <3> QED BY <1>4, <3>1
  <2> QED BY <1>3, <2>1, <2>2 DEF w
<1>15. ASSUME NEW j \in 1 .. n PROVE \A m \in Passed(j)' : Tried(j, m)'
  <2>1. j \in 1 .. n + 1 /\ j # n + 1 /\ j # n + 2 BY <1>4
  <2>2. stack'[j] = stack[j] BY <1>4, <1>10, <2>1
  <2>3. Passed(j)' = Passed(j) BY <1>4, <1>14, <2>1, <2>2 DEF Passed
  <2> QED BY <1>6, <1>12, <2>1, <2>3
<1>16. stack'[n + 1].next = k + 1 /\ n + 1 \in 1 .. n + 1 BY <1>4, <1>10
<1>17. CASE /\ Apply(Items[k], Last(stack).state) = {}
            /\ stack' = w /\ order' = order /\ mode' = "loop"
  <2>1. Tried(n + 1, k) BY <1>4, <1>17 DEF Tried
  <2>2. \A m \in Passed(n + 1)' : m \in 1 .. k - 1 \/ m = k
    BY <1>4, <1>16 DEF Passed
  <2>3. \A m \in Passed(n + 1)' : Tried(n + 1, m)' BY <1>9, <1>12, <1>16, <2>1, <2>2
  <2>4. \A j \in 1 .. n + 1 : j \in 1 .. n \/ j = n + 1 BY <1>4
  <2>5. Entered' = 1 .. n + 1 /\ Len(order)' + 1 = n + 1 BY <1>2, <1>17 DEF Entered
  <2> QED BY <1>13, <1>15, <2>3, <2>4, <2>5 DEF Memo
<1>18. CASE \E s \in Apply(Items[k], Last(stack).state) :
              /\ stack' = Append(w, [state |-> s, next |-> 1])
              /\ order' = Append(order, Items[k]) /\ mode' = "call"
  <2>1. Len(order') = n + 1
    <3>1. IsSeq(order) BY <1>1 DEF Path, Searching
    <3> QED BY <1>2, <1>18, <3>1, Appended
  <2>2. Len(stack') = n + 2 /\ stack'[n + 2].next = 1
    <3>1. PICK s : stack' = Append(w, [state |-> s, next |-> 1]) BY <1>18
    <3>2. Len(stack') = (n + 1) + 1 /\ stack'[(n + 1) + 1] = [state |-> s, next |-> 1]
      BY <1>4, <3>1, Appended
    <3>3. (n + 1) + 1 = n + 2 BY <1>4
    <3> QED BY <3>2, <3>3
  <2>3. \A m \in Passed(n + 1)' : m \in 1 .. k - 1 BY <1>4, <1>16, <2>2 DEF Passed
  <2>4. \A m \in Passed(n + 1)' : Tried(n + 1, m)' BY <1>9, <1>12, <1>16, <2>3
  <2>5. Passed(n + 2)' = {} BY <2>2 DEF Passed
  <2>6. \A j \in 1 .. n + 2 : j \in 1 .. n \/ j = n + 1 \/ j = n + 2 BY <1>4
  <2>7. Entered' = 1 .. n + 1 /\ Len(order)' + 1 = n + 2 BY <1>4, <1>18, <2>1 DEF Entered
  <2> QED BY <1>13, <1>15, <2>4, <2>5, <2>6, <2>7 DEF Memo
<1> QED BY <1>3, <1>17, <1>18 DEF w

LEMMA FreshMemo ==
  order = <<>> /\ stack = <<[state |-> call.initial, next |-> 1]>> /\ seen = {} => Memo
<1> SUFFICES ASSUME order = <<>>, stack = <<[state |-> call.initial, next |-> 1]>>, seen = {}
             PROVE  Memo
  OBVIOUS
<1>1. Len(order) = 0 BY SMT
<1>2. stack[1].next = 1 BY SMT
<1>3. \A k \in 1 .. Len(order) + 1 : Passed(k) = {}
  <2>1. \A k \in 1 .. Len(order) + 1 : k = 1 BY <1>1
  <2>2. Passed(1) = {} BY <1>2 DEF Passed
  <2> QED BY <2>1, <2>2
<1> QED BY <1>3 DEF Memo

LEMMA FreshMemoNext ==
  order' = <<>> /\ stack' = <<[state |-> call'.initial, next |-> 1]>> /\ seen' = {} => Memo'
<1>1. (order = <<>> /\ stack = <<[state |-> call.initial, next |-> 1]>> /\ seen = {} => Memo)'
  BY FreshMemo, PTL
<1> QED BY <1>1

LEMMA MemoInit == Init => MemoInv
<1> SUFFICES ASSUME Init PROVE MemoInv OBVIOUS
<1>1. PathInv BY PathInit
<1>2. Memo BY FreshMemo DEF Init
<1>3. Failures BY DEF Init, Failures
<1> QED BY <1>1, <1>2, <1>3 DEF MemoInv

LEMMA MemoSearches ==
  ASSUME InstantsApart, MemoInv, SearchStep
  PROVE  Memo' /\ Failures'
<1>1. Kept /\ Path /\ Memo /\ Failures BY DEF MemoInv, PathInv
<1>2. /\ UNCHANGED <<call, keep, pos, verdict>>
      /\ mode \in {"call", "loop"} /\ mode' \in {"call", "loop", "found", "failed"}
  BY SearchSteps
<1>3. verdict' = "none" BY <1>1, <1>2 DEF Kept
<1>4. /\ Legal(Checked(call))' = Legal(Checked(call))
      /\ Legal(ToSet(keep))' = Legal(ToSet(keep))
  BY <1>1, <1>2, SearchLaw
<1>5. ASSUME mode' = "failed" /\ ~inconclusive' => Hopeless({}, call.initial)' PROVE Failures'
  BY <1>1, <1>2, <1>3, <1>4, <1>5 DEF Failures
<1>6. CASE Accept
  <2>1. mode' = "found" BY <1>6 DEF Accept
  <2> QED BY <1>5, <2>1 DEF Memo
<1>7. CASE GiveUp
  <2>1. inconclusive' BY <1>7 DEF GiveUp
  <2> QED BY <1>5, <2>1 DEF Memo
<1>8. CASE Expand
  <2>1. mode' = "loop" BY <1>8 DEF Expand
  <2>2. Memo' BY <1>1, <1>8, MemoExpands
  <2> QED BY <1>5, <2>1, <2>2
<1>9. CASE LinTry \/ TxnTry
  <2>1. Advance BY <1>9 DEF LinTry, TxnTry
  <2>2. UNCHANGED <<seen, inconclusive>> BY <2>1, Zenon DEF Advance
  <2>3. Memo' BY <1>1, <1>2, <2>1, <2>2, MemoAdvances
  <2>4. mode' \in {"call", "loop"} BY <1>1, <2>1, AdvanceTries
  <2> QED BY <1>5, <2>3, <2>4
<1>10. CASE Prune \/ Backtrack
  <2>1. ReturnFalse /\ UNCHANGED <<seen, inconclusive>> BY <1>10 DEF Prune, Backtrack
  <2>2. CASE inconclusive BY <1>5, <2>1, <2>2 DEF Memo
  <2>3. CASE ~inconclusive
    <3>1. Hopeless(Used, Last(stack).state)
      <4>1. CASE Prune
        <5>1. mode = "call" /\ Seen BY <4>1, CallOutcome DEF Prune
        <5> QED BY <1>1, <2>3, <5>1, SeenIsHopeless
      <4>2. CASE Backtrack
        <5>1. mode = "loop" /\ Candidates = {} BY <2>3, <4>2 DEF Backtrack
        <5> QED BY <1>1, <2>3, <5>1, NoneIsHopeless
      <4> QED BY <1>10, <4>1, <4>2
    <3>2. Memo' /\ (mode' = "failed" => Hopeless({}, call.initial)')
      BY <1>1, <1>2, <2>1, <2>3, <3>1, MemoReturns
    <3> QED BY <1>5, <3>2
  <2> QED BY <2>2, <2>3
<1> QED BY <1>6, <1>7, <1>8, <1>9, <1>10 DEF SearchStep

\* The minimiser goes on with records that have no legal order.
LEMMA MemoMinimizes ==
  ASSUME call \in Checks, NEW kept, NEW p, MinimizeNext(kept, p), IsFiniteSet(ToSet(kept)),
         Legal(Checked(call)) = {}, Legal(ToSet(kept)) = {}
  PROVE  Memo' /\ Failures'
<1>1. call' = call /\ keep' = kept BY DEF MinimizeNext
<1>2. IsFiniteSet(Checked(call)) /\ Checked(call)' = Checked(call)
      /\ \A S : IsFiniteSet(S) => Legal(S)' = Legal(S)
  BY <1>1, CheckedLaw
<1>3. Legal(Checked(call))' = {}
  <2>1. PICK S : S = Checked(call) OBVIOUS
  <2> QED BY <1>2, <2>1
<1>4. Legal(ToSet(keep))' = {}
  <2>1. PICK S : S = ToSet(kept) OBVIOUS
  <2>2. ToSet(keep') = S BY <1>1, <2>1
  <2>3. Legal(S)' = {} BY <1>2, <2>1
  <2> QED BY <2>2, <2>3
<1>5. CASE p <= Len(kept) /\ Len(kept) > 1
  <2>1. /\ order' = <<>> /\ stack' = <<[state |-> call.initial, next |-> 1]>> /\ seen' = {}
        /\ mode' = "call"
    BY <1>5 DEF MinimizeNext, Start
  <2>2. Memo' BY <1>1, <2>1, FreshMemoNext
  <2> QED BY <1>3, <1>4, <2>1, <2>2 DEF Failures
<1>6. CASE ~(p <= Len(kept) /\ Len(kept) > 1)
  <2>1. mode' = "done" BY <1>6 DEF MinimizeNext, Answer
  <2> QED BY <1>3, <1>4, <2>1 DEF Memo, Failures
<1> QED BY <1>5, <1>6

LEMMA MemoConcludes ==
  ASSUME MemoInv, LinConclude \/ TxnConclude \/ Minimize
  PROVE  Memo' /\ Failures'
<1>1. Kept /\ Path /\ Memo /\ Failures /\ call \in Checks BY DEF MemoInv, PathInv, Kept
<1>2. mode # "done" BY DEF LinConclude, TxnConclude, Minimize, FirstEnded
<1>3. verdict = "none" BY <1>1, <1>2 DEF Kept
<1>4. pos = 0 \/ pos > 0 BY <1>1 DEF Kept
\* A search that failed has shown that its records have no legal order.
<1>5. mode = "failed" /\ ~inconclusive => Legal(Chosen) = {}
  <2>1. Chosen \ {} = Chosen OBVIOUS
  <2> QED BY <1>1, <2>1 DEF Failures, Hopeless, Legal
<1>6. pos = 0 => Chosen = ToSet(keep) /\ Chosen = Checked(call) BY <1>1 DEF Chosen, Items, Kept
<1>7. pos > 0 => Legal(Checked(call)) = {} /\ Legal(ToSet(keep)) = {} BY <1>1 DEF Failures
<1>8. IsFiniteSet(Chosen) /\ IsFiniteSet(ToSet(keep))
  <2>1. IsFiniteSet(Checked(call)) BY <1>1, CallFinite
  <2>2. IsFiniteSet(ToSet(keep)) BY <1>1, <2>1, FS_Subset DEF Kept
  <2> QED BY <1>1, <1>2, <2>2, ItemsList
<1>9. CASE /\ verdict' \in {"inconclusive", "legal", "illegal"} /\ mode' = "done"
           /\ UNCHANGED <<call, keep, pos, order>>
           /\ verdict' = "illegal" => pos = 0 /\ mode = "failed" /\ ~inconclusive
  <2>1. Memo' BY <1>9 DEF Memo
  <2>2. /\ Legal(Checked(call))' = Legal(Checked(call))
        /\ Legal(ToSet(keep))' = Legal(ToSet(keep))
    BY <1>1, <1>2, <1>9, SearchLaw
  <2>3. pos' > 0 \/ verdict' = "illegal" => Legal(Checked(call)) = {} /\ Legal(ToSet(keep)) = {}
    BY <1>5, <1>6, <1>7, <1>9
  <2> QED BY <1>9, <2>1, <2>2, <2>3 DEF Failures
<1>10. CASE pos = 0 /\ mode = "failed" /\ ~inconclusive /\ MinimizeNext(keep, 1)
  BY <1>1, <1>5, <1>6, <1>8, <1>10, MemoMinimizes
<1>11. CASE pos > 0 /\ mode = "failed" /\ ~inconclusive /\ MinimizeNext(Items, pos)
  BY <1>1, <1>5, <1>7, <1>8, <1>11, MemoMinimizes DEF Chosen
<1>12. CASE pos > 0 /\ mode \in {"found", "failed"} /\ MinimizeNext(keep, pos + 1)
  BY <1>1, <1>7, <1>8, <1>12, MemoMinimizes
<1>13. PathInv BY DEF MemoInv
<1> QED BY <1>9, <1>10, <1>11, <1>12, <1>13, Concluded

LEMMA MemoStutters ==
  ASSUME MemoInv, UNCHANGED vars
  PROVE  Memo' /\ Failures'
<1>1. Kept /\ Path /\ Memo /\ Failures /\ call \in Checks BY DEF MemoInv, PathInv, Kept
<1>2. UNCHANGED <<call, keep, pos, order, stack, seen, inconclusive, mode, verdict>>
  BY DEF vars, search
<1>3. IsFiniteSet(Checked(call)) /\ Checked(call)' = Checked(call)
      /\ \A S : IsFiniteSet(S) => Legal(S)' = Legal(S)
  BY <1>1, <1>2, CheckedLaw
<1>4. Legal(Checked(call))' = Legal(Checked(call)) /\ Legal(ToSet(keep))' = Legal(ToSet(keep))
  <2>1. PICK S, T : S = Checked(call) /\ T = ToSet(keep) OBVIOUS
  <2>2. IsFiniteSet(S) /\ IsFiniteSet(T) BY <1>1, <1>3, <2>1, FS_Subset DEF Kept
  <2>3. Checked(call)' = S /\ ToSet(keep') = T BY <1>2, <1>3, <2>1
  <2> QED BY <1>3, <2>1, <2>2, <2>3
<1>5. CASE mode = "done" BY <1>1, <1>2, <1>4, <1>5 DEF Memo, Failures
<1>6. CASE mode # "done"
  <2>1. \A U, s : Hopeless(U, s)' <=> Hopeless(U, s) BY <1>1, <1>2, <1>6, HopelessSame
  <2>2. Failures'
    <3>1. PICK s : s = call.initial OBVIOUS
    <3>2. Hopeless({}, call.initial)' <=> Hopeless({}, call.initial) BY <1>2, <2>1, <3>1
    <3> QED BY <1>1, <1>2, <1>4, <3>2 DEF Failures
  <2>3. CASE mode \notin {"call", "loop"} BY <1>2, <2>2, <2>3 DEF Memo
  <2>4. CASE mode \in {"call", "loop"}
    <3>1. PICK n \in Nat : n = Len(order) BY <1>1, <2>4, PathFacts DEF Searching
    <3>2. \A k \in 1 .. n + 1 : Node(k)' = Node(k) /\ \A m : Tried(k, m)' <=> Tried(k, m)
      BY <1>1, <1>2, <1>6, TriedSame
    <3>3. \A k : Passed(k)' = Passed(k) BY <1>2 DEF Passed
    <3>4. Entered' = Entered /\ Entered \subseteq 1 .. n + 1 BY <1>2, <3>1 DEF Entered
    <3> QED BY <1>1, <1>2, <2>1, <2>2, <3>1, <3>2, <3>3, <3>4 DEF Memo
  <2> QED BY <2>3, <2>4
<1> QED BY <1>5, <1>6

LEMMA MemoHolds == ASSUME InstantsApart PROVE Spec => []MemoInv
<1>1. MemoInv /\ [Next]_vars => MemoInv'
  <2> SUFFICES ASSUME MemoInv, [Next]_vars PROVE MemoInv' OBVIOUS
  <2>1. PathInv BY DEF MemoInv
  <2>2. PathInv' BY <2>1, PathMoves, PathStutters
  <2>3. CASE UNCHANGED vars BY <2>2, <2>3, MemoStutters DEF MemoInv
  <2>4. CASE SearchStep BY <2>2, <2>4, MemoSearches DEF MemoInv
  <2>5. CASE LinConclude \/ TxnConclude \/ Minimize BY <2>2, <2>5, MemoConcludes DEF MemoInv
  <2> QED BY <2>3, <2>4, <2>5 DEF Next, Done, SearchStep
<1> QED BY <1>1, MemoInit, PTL DEF Spec

-----------------------------------------------------------------------------
(* The properties *)

\* The answer is right for every budget and every history whose processes share no instant
\* (InstantsApart): an order that is reported is legal, and a history is rejected only when
\* it has no legal order (check_linearizable, check_serializable).
THEOREM VerdictIsRight == ASSUME InstantsApart PROVE Spec => []VerdictSound
<1>1. MemoInv => VerdictSound BY DEF MemoInv, PathInv, Reported, Failures, VerdictSound
<1> QED BY <1>1, MemoHolds, PTL

\* Whatever the memo makes the search skip has no legal completion (dfs, TxnSearch::dfs).
THEOREM MemoIsSound == ASSUME InstantsApart PROVE Spec => []MemoSound
<1>1. MemoInv => MemoSound
  <2> SUFFICES ASSUME MemoInv, mode \in {"call", "loop"}, ~inconclusive, NEW e \in seen,
                      ~Hopeless(e.used, e.state)
               PROVE  \E k \in 0 .. Len(order) : e.used = ToSet(SubSeq(order, 1, k))
    BY DEF MemoSound, Hopeless, Chosen
  <2>1. Path /\ Searching BY DEF MemoInv, PathInv, Searching
  <2>2. Len(order) \in Nat /\ IsSeq(order) BY <2>1, PathFacts DEF Path
  <2>3. PICK k \in Entered : e = Node(k) BY DEF MemoInv, Memo
  <2>4. k - 1 \in 0 .. Len(order) BY <2>2, <2>3 DEF Entered
  <2>5. e.used = UsedAt(k - 1) BY <2>3 DEF Node
  <2>6. ToSet(SubSeq(order, 1, k - 1)) = UsedAt(k - 1)
    <3>1. PICK m \in 0 .. Len(order) : m = k - 1 BY <2>4
    <3>2. order \in Seq(Used) BY <2>2 DEF IsSeq, Used
    <3>3. /\ SubSeq(order, 1, m) \in Seq(Used) /\ Len(SubSeq(order, 1, m)) = m
          /\ \A i \in 1 .. m : SubSeq(order, 1, m)[i] = order[i]
      BY <2>2, <3>2
    <3>4. DOMAIN SubSeq(order, 1, m) = 1 .. m BY <3>3, LenProperties
    <3> QED BY <3>1, <3>3, <3>4 DEF ToSet, UsedAt
  <2> QED BY <2>4, <2>5, <2>6
<1> QED BY <1>1, MemoHolds, PTL

\* The sub-history reported with a rejection has no legal order either, whatever the
\* budget cut short while it was minimised (minimize_failure).
THEOREM MinimalStillFails == ASSUME InstantsApart PROVE Spec => []SubhistoryFails
<1>1. MemoInv => SubhistoryFails
  <2> SUFFICES ASSUME MemoInv, verdict = "illegal" PROVE keep # <<>> /\ Legal(ToSet(keep)) = {}
    BY DEF SubhistoryFails
  <2>1. Legal(ToSet(keep)) = {} BY DEF MemoInv, Failures
  <2>2. ToSet(<<>>) = {} BY DEF ToSet
  <2> QED BY <2>1, <2>2, NothingIsLegal DEF Legal
<1> QED BY <1>1, MemoHolds, PTL

-----------------------------------------------------------------------------
(* The work a search does *)

LEMMA NodesAre ==
  ASSUME NEW e
  PROVE  e \in Nodes <=>
           \E U \in (SUBSET Checked(call)) \ {Checked(call)} : \E o \in Legal(U) :
             \E s \in Run(o, {call.initial}) : e = [used |-> U, state |-> s]
<1> DEFINE Us == (SUBSET Checked(call)) \ {Checked(call)}
           At_(U, o) == {[used |-> U, state |-> s] : s \in Run(o, {call.initial})}
           In_(U) == UNION {At_(U, o) : o \in Legal(U)}
<1>1. Nodes = UNION {In_(U) : U \in Us} BY DEF Nodes
<1>2. \A U, o : e \in At_(U, o) <=> \E s \in Run(o, {call.initial}) : e = [used |-> U, state |-> s]
  OBVIOUS
<1> HIDE DEF At_
<1>3. \A U : e \in In_(U) <=> \E o \in Legal(U) : e \in At_(U, o) OBVIOUS
<1> HIDE DEF In_, Us
<1>4. e \in Nodes <=> \E U \in Us : e \in In_(U) BY <1>1
<1> QED BY <1>2, <1>3, <1>4 DEF Us

\* A function has finitely many values on a finite set.
LEMMA ImageFinite ==
  ASSUME NEW S, IsFiniteSet(S), NEW f
  PROVE  IsFiniteSet({f[x] : x \in S})
<1> DEFINE T == {f[x] : x \in S}
           h == [x \in S |-> f[x]]
<1>1. h \in Surjection(S, T) BY DEF Surjection
<1> HIDE DEF h, T
<1>2. IsFiniteSet(T) BY <1>1, FS_Surjection
<1> QED BY <1>2 DEF T

\* The functions from a finite set of numbers to a finite set are finitely many: each is
\* read off a set of pairs.
LEMMA FunctionsFinite ==
  ASSUME NEW n \in Nat, NEW S, IsFiniteSet(S)
  PROVE  IsFiniteSet([1 .. n -> S])
<1> DEFINE P == SUBSET ((1 .. n) \X S)
           F == [1 .. n -> S]
           graph == [f \in F |-> {<<i, f[i]>> : i \in 1 .. n}]
<1>1. IsFiniteSet(1 .. n) BY FS_Interval
<1>2. IsFiniteSet((1 .. n) \X S) BY <1>1, FS_Product
<1>3. IsFiniteSet(P) BY <1>2, FS_SUBSET
<1>4. \A f \in F : graph[f] \in P OBVIOUS
<1>5. ASSUME NEW f \in F, NEW h \in F, graph[f] = graph[h] PROVE f = h
  <2>1. ASSUME NEW i \in 1 .. n PROVE f[i] = h[i]
    <3>1. <<i, f[i]>> \in graph[f] OBVIOUS
    <3>2. <<i, f[i]>> \in graph[h] BY <1>5, <3>1
    <3>3. PICK j \in 1 .. n : <<i, f[i]>> = <<j, h[j]>> BY <3>2
    <3> QED BY <3>3
  <2>2. f = [i \in 1 .. n |-> f[i]] /\ h = [i \in 1 .. n |-> h[i]] OBVIOUS
  <2> QED BY <2>1, <2>2
<1>6. graph \in Injection(F, P)
  <2>1. graph \in [F -> P] BY <1>4
  <2> HIDE DEF graph, F, P
  <2> QED BY <1>5, <2>1 DEF Injection, IsInjective
<1> HIDE DEF graph, F, P
<1>7. IsFiniteSet(F) BY <1>3, <1>6, FS_Injection
<1> QED BY <1>7 DEF F

\* A run from one state ends in one state.
LEMMA RunFinite ==
  ASSUME call \in Checks, NEW S, S \subseteq Checked(call), NEW n \in Nat, NEW o \in [1 .. n -> S], NEW s
  PROVE  IsFiniteSet(Run(o, {s}))
<1>1. Len(o) = n BY FunctionIsSeq
<1>2. PICK g : RunSteps(g, o, {s}, n) /\ Run(o, {s}) = g[n] BY <1>1, RunStepsTaken
<1>3. \A m \in 0 .. n : g[m] = IF m = 0 THEN {s} ELSE UNION {Apply(o[m], x) : x \in g[m - 1]}
  BY <1>2 DEF RunSteps
<1> DEFINE Bad == {m \in 0 .. n : ~(IsFiniteSet(g[m]) /\ Single(g[m]))}
<1>4. 0 \notin Bad
  <2>1. 0 \in 0 .. n OBVIOUS
  <2>2. g[0] = {s} BY <1>3, <2>1
  <2>3. IsFiniteSet({s}) BY FS_Singleton
  <2> QED BY <2>2, <2>3 DEF Single
<1>5. ASSUME NEW m \in 1 .. n, m - 1 \notin Bad PROVE m \notin Bad
  <2>1. m \in 0 .. n /\ m # 0 /\ m - 1 \in 0 .. n OBVIOUS
  <2>2. Single(g[m - 1]) /\ g[m] = UNION {Apply(o[m], x) : x \in g[m - 1]} BY <1>3, <1>5, <2>1
  <2>3. o[m] \in Checked(call) OBVIOUS
  <2>4. \A x : Single(Apply(o[m], x)) BY <2>3, ApplySingle
  <2>5. Single(g[m]) BY <2>2, <2>4 DEF Single
  <2>6. IsFiniteSet(g[m])
    <3>1. CASE g[m] = {} BY <3>1, FS_EmptySet
    <3>2. CASE g[m] # {}
      <4>1. PICK x : x \in g[m] BY <3>2
      <4>2. g[m] = {x} BY <2>5, <4>1 DEF Single
      <4> QED BY <4>2, FS_Singleton
    <3> QED BY <3>1, <3>2
  <2> QED BY <2>5, <2>6
<1> HIDE DEF Bad
<1>6. \A m \in 0 .. n : m \notin Bad BY <1>4, <1>5, Climb
<1>7. n \in 0 .. n OBVIOUS
<1>8. IsFiniteSet(g[n]) BY <1>6, <1>7 DEF Bad
<1> QED BY <1>2, <1>8

LEMMA NodesFinite ==
  ASSUME call \in Checks
  PROVE  IsFiniteSet(Nodes)
<1> DEFINE Us == (SUBSET Checked(call)) \ {Checked(call)}
           At_(U, o) == {[used |-> U, state |-> s] : s \in Run(o, {call.initial})}
           In_(U) == {At_(U, o) : o \in Legal(U)}
           All_ == {UNION In_(U) : U \in Us}
<1>1. IsFiniteSet(Checked(call)) BY CallFinite
<1>2. IsFiniteSet(Us)
  <2>1. IsFiniteSet(SUBSET Checked(call)) BY <1>1, FS_SUBSET
  <2> QED BY <2>1, FS_Subset
<1>3. ASSUME NEW U \in Us PROVE IsFiniteSet(UNION In_(U))
  <2>1. IsFiniteSet(U) BY <1>1, FS_Subset
  <2>2. PICK n \in Nat : n = Cardinality(U) BY <2>1, FS_CardinalityType
  <2>3. Legal(U) \subseteq [1 .. n -> U] BY <2>1, <2>2, LegalMeans DEF Legal
  <2>4. IsFiniteSet(Legal(U))
    <3>1. IsFiniteSet([1 .. n -> U]) BY <2>1, FunctionsFinite
    <3> QED BY <2>3, <3>1, FS_Subset
  <2>5. ASSUME NEW o \in Legal(U) PROVE IsFiniteSet(At_(U, o))
    <3>1. PICK R : R = Run(o, {call.initial}) OBVIOUS
    <3>2. IsFiniteSet(R) BY <2>3, <3>1, RunFinite
    <3> DEFINE node == [s \in R |-> [used |-> U, state |-> s]]
    <3>3. IsFiniteSet({node[s] : s \in R})
      <4> HIDE DEF node
      <4> QED BY <3>2, ImageFinite
    <3>4. {node[s] : s \in R} = At_(U, o) BY <3>1
    <3> QED BY <3>3, <3>4
  <2> HIDE DEF At_
  <2>6. IsFiniteSet(In_(U))
    <3> DEFINE of == [o \in Legal(U) |-> At_(U, o)]
    <3>1. IsFiniteSet({of[o] : o \in Legal(U)})
      <4> HIDE DEF of
      <4> QED BY <2>4, ImageFinite
    <3>2. {of[o] : o \in Legal(U)} = In_(U) OBVIOUS
    <3> QED BY <3>1, <3>2
  <2>7. \A T \in In_(U) : IsFiniteSet(T) BY <2>5
  <2> HIDE DEF In_
  <2> QED BY <2>6, <2>7, FS_UNION
<1>4. Nodes = UNION All_ BY DEF Nodes
<1> HIDE DEF In_
<1>5. IsFiniteSet(All_)
  <2> DEFINE of == [U \in Us |-> UNION In_(U)]
  <2>1. IsFiniteSet({of[U] : U \in Us})
    <3> HIDE DEF of, Us
    <3> QED BY <1>2, ImageFinite
  <2>2. {of[U] : U \in Us} = All_ OBVIOUS
  <2> QED BY <2>1, <2>2
<1>6. \A T \in All_ : IsFiniteSet(T) BY <1>3
<1> HIDE DEF All_
<1> QED BY <1>4, <1>5, <1>6, FS_UNION

\* As a formula that holds in every state.
LEMMA RunAnywhere ==
  \A o, s, x : Len(o) \in Nat => (x \in Run(o, {s}) <=> \E t : Along(o, s, t) /\ t[Len(o)] = x)
<1> SUFFICES ASSUME NEW o, NEW s, NEW x, Len(o) \in Nat
             PROVE  x \in Run(o, {s}) <=> \E t : Along(o, s, t) /\ t[Len(o)] = x
  OBVIOUS
<1>1. /\ \A t : Along(o, s, t) => t[Len(o)] \in Run(o, {s})
      /\ \A y \in Run(o, {s}) : \E t : Along(o, s, t) /\ t[Len(o)] = y
  BY RunReaches
<1>2. PICK R : R = Run(o, {s}) OBVIOUS
<1>3. ASSUME x \in R PROVE \E t : Along(o, s, t) /\ t[Len(o)] = x BY <1>1, <1>2, <1>3
<1>4. ASSUME NEW t, Along(o, s, t), t[Len(o)] = x PROVE x \in R BY <1>1, <1>2, <1>4
<1> QED BY <1>2, <1>3, <1>4

LEMMA NodesAnywhere ==
  \A c, i : c = Checked(call) /\ i = call.initial =>
    \A e : e \in Nodes <=>
      \E U \in (SUBSET c) \ {c} : \E o \in LegalFrom(U, i) : \E s \in Run(o, {i}) :
        e = [used |-> U, state |-> s]
BY NodesAre DEF Legal

LEMMA NodesSame ==
  ASSUME call \in Checks, UNCHANGED call
  PROVE  Nodes' = Nodes
<1>1. PICK C, init : C = Checked(call) /\ init = call.initial OBVIOUS
<1>2. IsFiniteSet(C) /\ Checked(call)' = C /\ call'.initial = init BY <1>1, CheckedLaw
<1>3. \A S, s : IsFiniteSet(S) => LegalFrom(S, s)' = LegalFrom(S, s) BY SameLaw
<1>4. \A i, s : Apply(i, s)' = Apply(i, s) BY SameLaw
<1>5. \A o, s, t : Along(o, s, t)' <=> Along(o, s, t) BY <1>4 DEF Along
<1>6. (\A o, s, x : Len(o) \in Nat =>
         (x \in Run(o, {s}) <=> \E t : Along(o, s, t) /\ t[Len(o)] = x))'
  BY RunAnywhere, PTL
<1>7. ASSUME NEW o, Len(o) \in Nat PROVE Run(o, {init})' = Run(o, {init})
  <2>1. ASSUME NEW x PROVE x \in Run(o, {init})' <=> x \in Run(o, {init})
    <3>1. x \in Run(o, {init})' <=> \E t : Along(o, init, t)' /\ t[Len(o)] = x BY <1>6, <1>7
    <3>2. x \in Run(o, {init}) <=> \E t : Along(o, init, t) /\ t[Len(o)] = x
      BY <1>7, RunAnywhere
    <3> QED BY <1>5, <3>1, <3>2
  <2>2. Run(o, {init})' \subseteq Run(o, {init}) /\ Run(o, {init}) \subseteq Run(o, {init})'
    BY <2>1
  <2> QED BY <2>2
<1>8. ASSUME NEW U \in SUBSET C
      PROVE  /\ LegalFrom(U, init)' = LegalFrom(U, init)
             /\ \A o \in LegalFrom(U, init) : Run(o, {init})' = Run(o, {init})
  <2>1. IsFiniteSet(U) BY <1>2, FS_Subset
  <2>2. Cardinality(U) \in Nat BY <2>1, FS_CardinalityType
  <2>3. \A o \in LegalFrom(U, init) : Len(o) \in Nat BY <2>1, <2>2, LegalMeans, FunctionIsSeq
  <2> QED BY <1>3, <1>7, <2>1, <2>3
<1>9. \A e : e \in Nodes <=>
        \E U \in (SUBSET C) \ {C} : \E o \in LegalFrom(U, init) : \E s \in Run(o, {init}) :
          e = [used |-> U, state |-> s]
  BY <1>1, NodesAnywhere
<1>10. (\A c, i : c = Checked(call) /\ i = call.initial =>
          \A e : e \in Nodes <=>
            \E U \in (SUBSET c) \ {c} : \E o \in LegalFrom(U, i) : \E s \in Run(o, {i}) :
              e = [used |-> U, state |-> s])'
  BY NodesAnywhere, PTL
<1>11. \A e : e \in Nodes' <=>
         \E U \in (SUBSET C) \ {C} : \E o \in LegalFrom(U, init)' : \E s \in Run(o, {init})' :
           e = [used |-> U, state |-> s]
  BY <1>2, <1>10
<1>12. ASSUME NEW e PROVE e \in Nodes' <=> e \in Nodes
  <2>1. CASE e \in Nodes'
    <3>1. PICK U \in (SUBSET C) \ {C} : \E o \in LegalFrom(U, init)' : \E s \in Run(o, {init})' :
            e = [used |-> U, state |-> s]
      BY <1>11, <2>1
    <3>2. PICK o \in LegalFrom(U, init) : \E s \in Run(o, {init})' : e = [used |-> U, state |-> s]
      BY <1>8, <3>1
    <3> QED BY <1>8, <1>9, <2>1, <3>2
  <2>2. CASE e \in Nodes
    <3>1. PICK U \in (SUBSET C) \ {C} : \E o \in LegalFrom(U, init) : \E s \in Run(o, {init}) :
            e = [used |-> U, state |-> s]
      BY <1>9, <2>2
    <3>2. PICK o \in LegalFrom(U, init) : \E s \in Run(o, {init}) : e = [used |-> U, state |-> s]
      BY <3>1
    <3> QED BY <1>8, <1>11, <2>2, <3>2
  <2> QED BY <2>1, <2>2
<1>13. Nodes' \subseteq Nodes /\ Nodes \subseteq Nodes' BY <1>12
<1> QED BY <1>13

\* The node of a call that expands is one of them.
LEMMA HereIsNode ==
  ASSUME Kept, Path, mode = "call", pos = 0, ~Complete
  PROVE  NodeHere \in Nodes
<1>1. order \in Legal(Used) /\ Last(stack).state \in Run(order, {call.initial})
  BY PathIsLegal DEF Searching
<1>2. Chosen = Checked(call) BY DEF Chosen, Items, Kept
<1>3. Used \subseteq Chosen /\ Used # Chosen
  <2>1. Used \subseteq Chosen BY DEF Path, Searching
  <2>2. Used # Chosen BY CompleteMeans DEF Searching
  <2> QED BY <2>1, <2>2
<1>4. Used \in (SUBSET Checked(call)) \ {Checked(call)} BY <1>2, <1>3
<1> QED BY <1>1, <1>4, NodesAre DEF NodeHere

\* The calls of dfs that have entered a node, and the candidates one has left.
Opened == IF mode = "loop" THEN Len(order) + 1 ELSE IF mode = "call" THEN Len(order) ELSE 0
Left(k) == Len(keep) + 1 - stack[k].next

\* The first k of them have a[k] candidates left.  The transaction search has tried all
\* others of the nodes it entered, one step for each.
Spent(a) ==
  /\ a[0] = 0
  /\ \A k \in 0 .. Opened : a[k] \in Nat
  /\ \A k \in 1 .. Opened : a[k] = a[k - 1] + Left(k)
  /\ explored + a[Opened] <= Cardinality(seen) * Len(keep)

Work ==
  /\ explored \in Nat /\ IsFiniteSet(seen)
  /\ inconclusive => call.budget <= explored
  /\ mode # "done" /\ pos = 0 =>
       /\ seen \subseteq Nodes
       /\ IF Transactional THEN \E a : Spent(a) ELSE explored = Cardinality(seen)
  /\ InconclusiveMeansLowBudget

WorkInv == PathInv /\ Work

LEMMA Products ==
  /\ \A a, b, c \in Nat : a <= b => a * c <= b * c
  /\ \A a, c \in Nat : (a + 1) * c = a * c + c /\ a * c \in Nat /\ a * 1 = a
<1>1. ASSUME NEW a \in Nat, NEW b \in Nat, NEW c \in Nat, a <= b PROVE a * c <= b * c
  <2>1. PICK d \in Nat : b = a + d
    <3>1. b - a \in Nat /\ b = a + (b - a) BY <1>1
    <3> QED BY <3>1
  <2>2. b * c = a * c + d * c /\ d * c \in Nat /\ a * c \in Nat /\ b * c \in Nat BY <2>1
  <2> QED BY <2>2
<1>2. ASSUME NEW a \in Nat, NEW c \in Nat
      PROVE  (a + 1) * c = a * c + c /\ a * c \in Nat /\ a * 1 = a
  OBVIOUS
<1> QED BY <1>1, <1>2

\* A budget that has been used up is at most what the nodes take.
LEMMA SpentAtMost ==
  ASSUME Kept, Path, Work, mode # "done", pos = 0, inconclusive
  PROVE  call.budget <= Cardinality(Nodes) * (IF Transactional THEN Len(keep) ELSE 1)
<1>1. /\ Cardinality(seen) \in Nat /\ Cardinality(Nodes) \in Nat
      /\ Cardinality(seen) <= Cardinality(Nodes)
  <2>1. IsFiniteSet(Nodes) BY NodesFinite DEF Kept
  <2>2. seen \subseteq Nodes BY DEF Work
  <2> QED BY <2>1, <2>2, FS_Subset, FS_CardinalityType
<1>2. call.budget \in Nat /\ explored \in Nat /\ call.budget <= explored BY CallTypes DEF Kept, Work
<1>3. Len(keep) \in Nat
  <2>1. IsSeq(keep) BY DEF Kept
  <2> QED BY <2>1, LenProperties DEF IsSeq
<1>4. CASE ~Transactional
  <2>1. explored = Cardinality(seen) BY <1>4 DEF Work
  <2>2. call.budget <= Cardinality(Nodes) BY <1>1, <1>2, <2>1
  <2>3. Cardinality(Nodes) * 1 = Cardinality(Nodes) BY <1>1
  <2> QED BY <1>4, <2>2, <2>3
<1>5. CASE Transactional
  <2>1. PICK a : Spent(a) BY <1>5 DEF Work
  <2>2. Opened \in 0 .. Opened
    <3>1. Opened \in Nat
      <4>1. mode \in {"call", "loop"} => Len(order) \in Nat
        BY PathFacts DEF Searching
      <4> QED BY <4>1 DEF Opened
    <3> QED BY <3>1
  <2>3. a[Opened] \in Nat /\ explored + a[Opened] <= Cardinality(seen) * Len(keep)
    BY <2>1, <2>2 DEF Spent
  <2>4. Cardinality(seen) * Len(keep) <= Cardinality(Nodes) * Len(keep) BY <1>1, <1>3, Products
  <2>5. Cardinality(seen) * Len(keep) \in Nat /\ Cardinality(Nodes) * Len(keep) \in Nat
    BY <1>1, <1>3, Products
  <2>6. call.budget <= Cardinality(Nodes) * Len(keep) BY <1>2, <2>3, <2>4, <2>5
  <2> QED BY <1>5, <2>6
<1> QED BY <1>4, <1>5

\* The candidates left to the open calls after a step that touches the last of them.
LEMMA SpentCarries ==
  ASSUME NEW a, Spent(a), Opened \in Nat, NEW n \in Nat, n <= Opened,
         \A k \in 1 .. n : Left(k)' = Left(k), keep' = keep,
         \/ Opened' = n /\ explored' + a[n] <= Cardinality(seen') * Len(keep)
         \/ /\ Opened' = n + 1 /\ Left(n + 1)' \in Nat
            /\ explored' + (a[n] + Left(n + 1)') <= Cardinality(seen') * Len(keep)
  PROVE  \E b : Spent(b)'
<1>1. \A k \in 0 .. n : k \in 0 .. Opened BY SMT
<1>2. \A k \in 1 .. n : k \in 1 .. Opened /\ k - 1 \in 0 .. n BY SMT
<1>3. a[0] = 0 /\ (\A k \in 0 .. n : a[k] \in Nat) /\ \A k \in 1 .. n : a[k] = a[k - 1] + Left(k)
  BY <1>1, <1>2 DEF Spent
<1>4. CASE Opened' = n /\ explored' + a[n] <= Cardinality(seen') * Len(keep)
  <2>1. Spent(a)' BY <1>3, <1>4 DEF Spent
  <2> QED BY <2>1
<1>5. CASE /\ Opened' = n + 1 /\ Left(n + 1)' \in Nat
           /\ explored' + (a[n] + Left(n + 1)') <= Cardinality(seen') * Len(keep)
  <2>1. PICK d \in Nat : d = Left(n + 1)' BY <1>5
  <2>2. n \in 0 .. n /\ a[n] \in Nat BY <1>3
  <2> DEFINE b == [k \in 0 .. n + 1 |-> IF k = n + 1 THEN a[n] + d ELSE a[k]]
  <2>3. b[0] = 0 /\ b[n + 1] = a[n] + d /\ \A k \in 0 .. n : b[k] = a[k] BY <1>3
  <2>4. \A k \in 0 .. n + 1 : k \in 0 .. n \/ k = n + 1 BY SMT
  <2> HIDE DEF b
  <2>5. ASSUME NEW k \in 0 .. n + 1 PROVE b[k] \in Nat
    <3>1. CASE k \in 0 .. n BY <1>3, <2>3, <3>1
    <3>2. CASE k = n + 1
      <4>1. a[n] + d \in Nat BY <2>1, <2>2
      <4> QED BY <2>3, <3>2, <4>1
    <3> QED BY <2>4, <3>1, <3>2
  <2>6. ASSUME NEW k \in 1 .. n + 1 PROVE b[k] = b[k - 1] + Left(k)'
    <3>1. CASE k = n + 1
      <4>1. b[k - 1] = a[n] /\ b[k] = a[n] + d
        <5>1. k - 1 = n BY <3>1
        <5> QED BY <2>2, <2>3, <3>1, <5>1
      <4>2. Left(k)' = d BY <2>1, <3>1
      <4> QED BY <4>1, <4>2
    <3>2. CASE k # n + 1
      <4>1. k \in 1 .. n /\ k \in 0 .. n /\ k - 1 \in 0 .. n BY <3>2
      <4> QED BY <1>3, <2>3, <4>1
    <3> QED BY <3>1, <3>2
  <2>7. explored' + b[n + 1] <= Cardinality(seen') * Len(keep') BY <1>5, <2>1, <2>3
  <2>8. Spent(b)' BY <1>5, <2>3, <2>5, <2>6, <2>7 DEF Spent
  <2> QED BY <2>8
<1> QED BY <1>4, <1>5

\* What a search does to its counters.
LEMMA WorkCounts ==
  ASSUME WorkInv, SearchStep
  PROVE  /\ explored' \in Nat /\ IsFiniteSet(seen') /\ (inconclusive' => call.budget <= explored')
         /\ seen' = IF Expand THEN seen \union {NodeHere} ELSE seen
         /\ explored' = explored + IF (Expand /\ ~Transactional) \/ TxnTry THEN 1 ELSE 0
<1>1. explored \in Nat /\ IsFiniteSet(seen) /\ (inconclusive => call.budget <= explored)
  BY DEF WorkInv, Work
<1>2. call.budget \in Nat BY CallTypes DEF WorkInv, PathInv, Kept
<1>3. Expand => mode = "call" /\ Called("expand") BY CallOutcome DEF Expand
<1>4. LinTry \/ TxnTry => mode = "loop" /\ UNCHANGED <<seen, inconclusive>>
  BY Zenon DEF LinTry, TxnTry, Advance
<1>5. CASE Expand
  <2>1. /\ seen' = seen \union {NodeHere} /\ inconclusive' = inconclusive
        /\ explored' = explored + IF Transactional THEN 0 ELSE 1
    BY <1>5 DEF Expand, Remember
  <2>2. IsFiniteSet(seen') BY <1>1, <2>1, FS_AddElement
  <2>3. ~TxnTry BY <1>3, <1>4, <1>5
  <2> QED BY <1>1, <1>2, <1>5, <2>1, <2>2, <2>3
<1>6. CASE LinTry
  <2>1. explored' = explored /\ ~Expand /\ ~TxnTry BY <1>3, <1>4, <1>6 DEF LinTry, TxnTry
  <2> QED BY <1>1, <1>4, <1>6, <2>1
<1>7. CASE TxnTry
  <2>1. explored' = explored + 1 /\ ~Expand BY <1>3, <1>4, <1>7 DEF TxnTry
  <2> QED BY <1>1, <1>2, <1>4, <1>7, <2>1
<1>8. CASE GiveUp
  <2>0. mode = "call" /\ Called("give up") BY <1>8, CallOutcome DEF GiveUp
  <2>1. explored' = explored /\ seen' = seen BY <1>8 DEF GiveUp
  <2>2. Exhausted BY <2>0 DEF Called, TxnCall, LinCall
  <2>3. call.budget <= explored BY <1>1, <1>2, <2>2 DEF Exhausted
  <2>4. ~Expand /\ ~TxnTry BY <1>3, <1>4, <2>0 DEF Called
  <2>5. explored' = explored + 0 BY <1>1, <2>1
  <2>6. explored' \in Nat /\ IsFiniteSet(seen') /\ call.budget <= explored' BY <1>1, <2>1, <2>3
  <2> QED BY <2>1, <2>4, <2>5, <2>6
<1>9. CASE Accept \/ Prune \/ Backtrack
  <2>1. UNCHANGED <<explored, seen, inconclusive>> BY <1>9 DEF Accept, Prune, Backtrack
  <2>2. ~TxnTry
    <3>1. SUFFICES ASSUME TxnTry PROVE FALSE OBVIOUS
    <3>2. explored' = explored + 1 BY <3>1 DEF TxnTry
    <3> QED BY <1>1, <2>1, <3>2
  <2>3. ~Expand
    <3>1. CASE Backtrack BY <1>3, <3>1 DEF Backtrack
    <3>2. CASE Accept \/ Prune
      <4>1. Called("accept") \/ Called("prune") BY <3>2 DEF Accept, Prune
      <4> QED BY <1>3, <4>1 DEF Called
    <3> QED BY <1>9, <3>1, <3>2
  <2> QED BY <1>1, <2>1, <2>2, <2>3
<1> QED BY <1>5, <1>6, <1>7, <1>8, <1>9 DEF SearchStep

\* The calls of the first search have tried what the counters say.
LEMMA WorkSpends ==
  ASSUME WorkInv, SearchStep, pos = 0, Transactional
  PROVE  \E b : Spent(b)'
<1>1. Kept /\ Path /\ Work BY DEF WorkInv, PathInv
<1>2. /\ UNCHANGED <<call, keep, pos>>
      /\ mode \in {"call", "loop"} /\ mode' \in {"call", "loop", "found", "failed"}
  BY SearchSteps
<1>3. PICK n : n = Len(order) OBVIOUS
<1>4. /\ n \in Nat /\ Len(stack) = n + 1 /\ Last(stack) = stack[n + 1]
      /\ Opened = IF mode = "loop" THEN n + 1 ELSE n
  BY <1>1, <1>2, <1>3, PathFacts DEF Searching, Opened
<1>5. Opened \in Nat BY <1>4
<1>6. PICK a : Spent(a)
  <2>1. mode # "done" BY <1>2
  <2> QED BY <1>1, <2>1 DEF Work
<1>7. PICK L \in Nat : L = Len(keep) /\ L = Len(Items)
  <2>1. Len(Items) \in Nat BY <1>1, <1>2, ItemsList
  <2> QED BY <2>1 DEF Items
<1>8. /\ explored \in Nat /\ explored' \in Nat /\ Cardinality(seen) \in Nat
      /\ Cardinality(seen') \in Nat
  <2>1. IsFiniteSet(seen) BY <1>1 DEF Work
  <2> QED BY <1>1, <2>1, WorkCounts, FS_CardinalityType DEF Work
<1>9. PICK P \in Nat : P = Cardinality(seen) * L BY <1>7, <1>8, Products
<1>10. /\ a[0] = 0 /\ (\A k \in 0 .. Opened : a[k] \in Nat)
       /\ (\A k \in 1 .. Opened : a[k] = a[k - 1] + Left(k))
       /\ explored + a[Opened] <= P
  BY <1>6, <1>7, <1>9 DEF Spent
<1>11. \A k \in 1 .. n + 1 : Left(k) = L + 1 - stack[k].next /\ stack[k].next \in 1 .. L + 1
  <2>1. \A k \in 1 .. n + 1 : Frame(k) BY <1>1, <1>2, <1>4 DEF Path, Searching
  <2> QED BY <1>7, <2>1 DEF Left, Frame
<1>12. mode = "loop" => \E d \in Nat : a[n + 1] = a[n] + d /\ d = Left(n + 1) /\ a[n] \in Nat
  <2> SUFFICES ASSUME mode = "loop"
               PROVE  \E d \in Nat : a[n + 1] = a[n] + d /\ d = Left(n + 1) /\ a[n] \in Nat
    OBVIOUS
  <2>1. n + 1 \in 1 .. n + 1 /\ (n + 1) - 1 = n /\ n \in 0 .. n + 1 /\ Opened = n + 1 BY <1>4
  <2>2. PICK x : x = stack[n + 1].next OBVIOUS
  <2>3. x \in 1 .. L + 1 /\ Left(n + 1) = L + 1 - x BY <1>11, <2>1, <2>2
  <2>4. L + 1 - x \in Nat BY <2>3
  <2>5. a[n + 1] = a[n] + Left(n + 1) /\ a[n] \in Nat BY <1>10, <2>1
  <2> QED BY <2>3, <2>4, <2>5
\* Whatever is left is given up when the last call returns.
<1>13. ASSUME mode' \in {"found", "failed"}, explored' = explored, seen' = seen
       PROVE  \E b : Spent(b)'
  <2>1. Opened' = 0 BY <1>13 DEF Opened
  <2>2. a[Opened] \in Nat
    <3>1. Opened \in 0 .. Opened BY <1>5
    <3> QED BY <1>10, <3>1
  <2>3. explored' + a[0] <= Cardinality(seen') * Len(keep)
    <3>1. explored + 0 <= P BY <1>8, <1>10, <2>2
    <3> QED BY <1>7, <1>9, <1>10, <1>13, <3>1
  <2>4. \A k \in 1 .. 0 : Left(k)' = Left(k) BY SMT
  <2>5. 0 <= Opened BY <1>5
  <2> QED BY <1>2, <1>5, <1>6, <2>1, <2>3, <2>4, <2>5, SpentCarries
<1>14. CASE Accept
  <2>1. mode' = "found" /\ explored' = explored /\ seen' = seen BY <1>14 DEF Accept
  <2> QED BY <1>13, <2>1
<1>15. CASE GiveUp \/ Prune \/ Backtrack
  <2>1. ReturnFalse /\ explored' = explored /\ seen' = seen BY <1>15 DEF GiveUp, Prune, Backtrack
  <2>2. /\ mode' = IF n = 0 THEN "failed" ELSE "loop"
        /\ n # 0 => /\ Len(order') = n - 1
                    /\ \A m \in 1 .. n : stack'[m] = stack[m]
    BY <1>1, <1>2, <1>3, <2>1, Returned
  <2>3. CASE n = 0 BY <1>13, <2>1, <2>2, <2>3
  <2>4. CASE n # 0
    <3>1. Opened' = n BY <1>4, <2>2, <2>4 DEF Opened
    <3>2. \A k \in 1 .. n : Left(k)' = Left(k) BY <1>2, <2>2, <2>4 DEF Left
    <3>3. n <= Opened BY <1>4
    <3>4. explored' + a[n] <= Cardinality(seen') * Len(keep)
      <4>1. explored + a[n] <= P
        <5>1. CASE mode = "loop"
          <6>1. Opened = n + 1 BY <1>4, <5>1
          <6>2. PICK d \in Nat : a[n + 1] = a[n] + d /\ a[n] \in Nat BY <1>12, <5>1
          <6>3. explored + (a[n] + d) <= P BY <1>10, <6>1, <6>2
          <6> QED BY <1>8, <6>2, <6>3
        <5>2. CASE mode # "loop"
          <6>1. Opened = n BY <1>4, <5>2
          <6> QED BY <1>10, <6>1
        <5> QED BY <5>1, <5>2
      <4> QED BY <1>7, <1>9, <2>1, <4>1
    <3> QED BY <1>2, <1>4, <1>5, <1>6, <3>1, <3>2, <3>3, <3>4, SpentCarries
  <2> QED BY <2>3, <2>4
\* A node has all its candidates left when it is entered.
<1>16. CASE Expand
  <2>1. Called("expand") /\ mode = "call" /\ ~Seen /\ UNCHANGED <<order, stack>> /\ mode' = "loop"
    BY <1>16, CallOutcome DEF Expand
  <2>2. explored' = explored
    <3>1. ~TxnTry
      <4>1. SUFFICES ASSUME TxnTry PROVE FALSE OBVIOUS
      <4>2. mode = "loop" BY <4>1 DEF TxnTry, Advance
      <4> QED BY <2>1, <4>2
    <3>2. explored' = explored + 0 BY <3>1, WorkCounts
    <3> QED BY <1>8, <3>2
  <2>3. Cardinality(seen') = Cardinality(seen) + 1
    <3>1. NodeHere \notin seen BY <2>1 DEF Seen
    <3>2. IsFiniteSet(seen) /\ seen' = seen \union {NodeHere} BY <1>1, <1>16, WorkCounts DEF Work
    <3> QED BY <3>1, <3>2, FS_AddElement
  <2>4. Opened = n /\ Opened' = n + 1 BY <1>3, <1>4, <2>1 DEF Opened
  <2>5. \A k \in 1 .. n : Left(k)' = Left(k) BY <1>2, <2>1 DEF Left
  <2>6. Left(n + 1)' = L
    <3>1. stack[n + 1].next = 1 BY <1>1, <1>4, <2>1 DEF Path, Searching
    <3>2. Left(n + 1)' = L + 1 - 1 BY <1>2, <1>7, <2>1, <3>1 DEF Left
    <3> QED BY <3>2
  <2>7. explored' + (a[n] + L) <= Cardinality(seen') * L
    <3>1. Cardinality(seen') * L = P + L BY <1>7, <1>8, <1>9, <2>3, Products
    <3>2. PICK x \in Nat : x = a[n]
      <4>1. n \in 0 .. n BY <1>4
      <4> QED BY <1>10, <2>4, <4>1
    <3>3. explored + x <= P BY <1>10, <2>4, <3>2
    <3>4. explored + (x + L) <= P + L BY <1>8, <3>3
    <3> QED BY <2>2, <3>1, <3>2, <3>4
  <2>8. n <= Opened BY <1>4, <2>4
  <2> QED BY <1>2, <1>4, <1>5, <1>6, <1>7, <2>4, <2>5, <2>6, <2>7, <2>8, SpentCarries
\* A step tries one of the candidates left to the last call.
<1>17. CASE LinTry \/ TxnTry
  <2>1. TxnTry /\ Advance BY <1>17 DEF LinTry, TxnTry
  <2>2. mode = "loop" /\ seen' = seen BY <2>1, Zenon DEF Advance
  <2>3. explored' = explored + 1 BY <2>1 DEF TxnTry
  <2>4. PICK k : /\ Tries(k)
                 /\ \/ /\ Apply(Items[k], Last(stack).state) = {}
                       /\ stack' = Waiting(k) /\ order' = order /\ mode' = "loop"
                    \/ \E s \in Apply(Items[k], Last(stack).state) :
                         /\ stack' = Append(Waiting(k), [state |-> s, next |-> 1])
                         /\ order' = Append(order, Items[k]) /\ mode' = "call"
    BY <1>1, <2>1, AdvanceTries
  <2> DEFINE w == Waiting(k)
  <2>5. /\ IsSeq(w) /\ Len(w) = n + 1 /\ \A m \in 1 .. n : w[m] = stack[m]
        /\ w[n + 1] = [state |-> stack[n + 1].state, next |-> k + 1]
        /\ stack[n + 1].next \in 1 .. k /\ k \in 1 .. L
    BY <1>1, <1>3, <1>7, <2>2, <2>4, WaitingIs
  <2> HIDE DEF w
  <2>6. Opened = n + 1 BY <1>4, <2>2
  <2>7. Opened' = n + 1 /\ \A m \in 1 .. n + 1 : stack'[m] = w[m]
    <3>1. CASE stack' = w /\ order' = order /\ mode' = "loop" BY <1>3, <3>1 DEF Opened
    <3>2. CASE \E s : /\ stack' = Append(w, [state |-> s, next |-> 1])
                      /\ order' = Append(order, Items[k]) /\ mode' = "call"
      <4>1. IsSeq(order) BY <1>1, <2>2 DEF Path, Searching
      <4>2. Len(order') = n + 1 BY <1>3, <3>2, <4>1, Appended
      <4>3. \A m \in 1 .. n + 1 : stack'[m] = w[m] BY <2>5, <3>2, Appended
      <4> QED BY <3>2, <4>2, <4>3 DEF Opened
    <3> QED BY <2>4, <3>1, <3>2 DEF w
  <2>8. \A m \in 1 .. n : Left(m)' = Left(m)
    <3> SUFFICES ASSUME NEW m \in 1 .. n PROVE Left(m)' = Left(m) OBVIOUS
    <3>1. m \in 1 .. n + 1 BY <1>4
    <3>2. stack'[m] = stack[m] BY <2>5, <2>7, <3>1
    <3> QED BY <1>2, <3>2 DEF Left
  <2>9. Left(n + 1)' = L - k
    <3>1. n + 1 \in 1 .. n + 1 BY <1>4
    <3>2. stack'[n + 1].next = k + 1 BY <2>5, <2>7, <3>1
    <3>3. Left(n + 1)' = L + 1 - (k + 1) BY <1>2, <1>7, <3>2 DEF Left
    <3> QED BY <2>5, <3>3
  <2>10. PICK d \in Nat : a[n + 1] = a[n] + d /\ d = Left(n + 1) /\ a[n] \in Nat BY <1>12, <2>2
  <2>11. L - k \in Nat /\ L - k + 1 <= d
    <3>1. PICK x : x = stack[n + 1].next OBVIOUS
    <3>2. x \in 1 .. k /\ d = L + 1 - x
      <4>1. n + 1 \in 1 .. n + 1 BY <1>4
      <4> QED BY <1>11, <2>5, <2>10, <3>1, <4>1
    <3> QED BY <2>5, <3>2
  <2>12. explored' + (a[n] + (L - k)) <= Cardinality(seen') * L
    <3>1. explored + (a[n] + d) <= P BY <1>10, <2>6, <2>10
    <3>2. PICK x \in Nat : x = a[n] BY <2>10
    <3>3. PICK y \in Nat : y = L - k BY <2>11
    <3>4. y + 1 <= d BY <2>11, <3>3
    <3>5. (explored + 1) + (x + y) <= P BY <1>8, <2>10, <3>1, <3>2, <3>4
    <3> QED BY <1>9, <2>2, <2>3, <3>2, <3>3, <3>5
  <2>13. n <= Opened BY <1>4, <2>6
  <2>14. Left(n + 1)' \in Nat BY <2>9, <2>11
  <2> QED BY <1>2, <1>4, <1>5, <1>6, <1>7, <2>7, <2>8, <2>9, <2>12, <2>13, <2>14, SpentCarries
<1> QED BY <1>14, <1>15, <1>16, <1>17 DEF SearchStep

LEMMA WorkSearches ==
  ASSUME WorkInv, SearchStep
  PROVE  Work'
<1>1. Kept /\ Path /\ Work BY DEF WorkInv, PathInv
<1>2. /\ UNCHANGED <<call, keep, pos, verdict>>
      /\ mode \in {"call", "loop"} /\ mode' \in {"call", "loop", "found", "failed"}
  BY SearchSteps
<1>3. /\ explored' \in Nat /\ IsFiniteSet(seen') /\ (inconclusive' => call.budget <= explored')
      /\ seen' = IF Expand THEN seen \union {NodeHere} ELSE seen
      /\ explored' = explored + IF (Expand /\ ~Transactional) \/ TxnTry THEN 1 ELSE 0
  BY WorkCounts
<1>4. verdict' = "none" BY <1>1, <1>2 DEF Kept
<1>5. ASSUME pos = 0
      PROVE  /\ (seen \subseteq Nodes)'
             /\ IF Transactional THEN \E a : Spent(a)' ELSE explored' = Cardinality(seen')
  <2>1. Nodes' = Nodes BY <1>1, <1>2, NodesSame DEF Kept
  <2>2. seen \subseteq Nodes /\ (~Transactional => explored = Cardinality(seen))
    <3>1. mode # "done" BY <1>2
    <3> QED BY <1>1, <1>5, <3>1 DEF Work
  <2>3. Expand => NodeHere \in Nodes /\ NodeHere \notin seen
    <3> SUFFICES ASSUME Expand PROVE NodeHere \in Nodes /\ NodeHere \notin seen OBVIOUS
    <3>1. Called("expand") BY DEF Expand
    <3>2. mode = "call" /\ ~Complete /\ ~Seen BY <3>1, CallOutcome
    <3> QED BY <1>1, <1>5, <3>2, HereIsNode DEF Seen
  <2>4. (seen \subseteq Nodes)' BY <1>3, <2>1, <2>2, <2>3
  <2>5. CASE Transactional BY <1>5, <2>4, <2>5, WorkSpends
  <2>6. CASE ~Transactional
    <3>1. ~TxnTry BY <2>6 DEF TxnTry
    <3>2. IsFiniteSet(seen) /\ explored = Cardinality(seen) BY <1>1, <2>2, <2>6 DEF Work
    <3>3. Cardinality(seen) \in Nat BY <3>2, FS_CardinalityType
    <3>4. CASE Expand
      <4>1. Cardinality(seen') = Cardinality(seen) + 1 BY <1>3, <2>3, <3>2, <3>4, FS_AddElement
      <4>2. explored' = explored + 1 BY <1>3, <2>6, <3>4
      <4> QED BY <2>4, <2>6, <3>2, <4>1, <4>2
    <3>5. CASE ~Expand
      <4>1. seen' = seen /\ explored' = explored + 0 BY <1>3, <3>1, <3>5
      <4>2. explored' = explored BY <3>2, <3>3, <4>1
      <4> QED BY <2>4, <2>6, <3>2, <4>1, <4>2
    <3> QED BY <3>4, <3>5
  <2> QED BY <2>5, <2>6
<1>6. Transactional' = Transactional BY <1>2 DEF Transactional
<1>7. InconclusiveMeansLowBudget' BY <1>4 DEF InconclusiveMeansLowBudget
<1>8. mode' # "done" /\ pos' = 0 =>
        /\ (seen \subseteq Nodes)'
        /\ IF Transactional' THEN \E a : Spent(a)' ELSE explored' = Cardinality(seen')
  BY <1>2, <1>5, <1>6
<1>9. inconclusive' => call'.budget <= explored' BY <1>2, <1>3
<1> QED BY <1>3, <1>7, <1>8, <1>9 DEF Work

\* What the bound is made of depends on the arguments of the check and the records kept.
LEMMA BoundSame ==
  ASSUME call \in Checks, UNCHANGED <<call, keep>>
  PROVE  /\ Nodes' = Nodes /\ Transactional' = Transactional
         /\ (call.budget <= Cardinality(Nodes) * (IF Transactional THEN Len(keep) ELSE 1)) =>
              (call.budget <= Cardinality(Nodes) * (IF Transactional THEN Len(keep) ELSE 1))'
<1>1. Nodes' = Nodes BY NodesSame
<1>2. Transactional' = Transactional BY DEF Transactional
<1> QED BY <1>1, <1>2

LEMMA WorkConcludes ==
  ASSUME WorkInv, LinConclude \/ TxnConclude \/ Minimize
  PROVE  Work'
<1>1. Kept /\ Path /\ Work /\ PathInv /\ call \in Checks BY DEF WorkInv, PathInv, Kept
<1>2. mode # "done" BY DEF LinConclude, TxnConclude, Minimize, FirstEnded
<1>3. verdict = "none" BY <1>1, <1>2 DEF Kept
<1>4. ASSUME NEW v, Answer(v), UNCHANGED call
      PROVE  /\ explored' \in Nat /\ IsFiniteSet(seen') /\ mode' = "done"
             /\ inconclusive' => call'.budget <= explored'
  BY <1>1, <1>4 DEF Work, Answer
<1>5. ASSUME Answer("inconclusive"), inconclusive, pos = 0, UNCHANGED <<call, keep, pos>>
      PROVE  Work'
  <2>1. call.budget <= Cardinality(Nodes) * (IF Transactional THEN Len(keep) ELSE 1)
    BY <1>1, <1>2, <1>5, SpentAtMost
  <2>2. (call.budget <= Cardinality(Nodes) * (IF Transactional THEN Len(keep) ELSE 1))'
    BY <1>1, <1>5, <2>1, BoundSame
  <2>3. InconclusiveMeansLowBudget' BY <2>2 DEF InconclusiveMeansLowBudget
  <2> QED BY <1>4, <1>5, <2>3 DEF Work
<1>6. ASSUME NEW v, v \in {"legal", "illegal"}, Answer(v), UNCHANGED call PROVE Work'
  <2>1. verdict' # "inconclusive" BY <1>6 DEF Answer
  <2>2. InconclusiveMeansLowBudget' BY <2>1 DEF InconclusiveMeansLowBudget
  <2> QED BY <1>4, <1>6, <2>2 DEF Work
<1>7. ASSUME NEW kept, NEW p, MinimizeNext(kept, p), p # 0 PROVE Work'
  <2>1. call' = call /\ pos' # 0 BY <1>7 DEF MinimizeNext
  <2>2. CASE p <= Len(kept) /\ Len(kept) > 1
    <3>1. seen' = {} /\ explored' = 0 /\ inconclusive' = FALSE /\ verdict' = verdict
      BY <1>7, <2>2 DEF MinimizeNext, Start
    <3>2. InconclusiveMeansLowBudget' BY <1>3, <3>1 DEF InconclusiveMeansLowBudget
    <3> QED BY <2>1, <3>1, <3>2, FS_EmptySet DEF Work
  <2>3. CASE ~(p <= Len(kept) /\ Len(kept) > 1)
    <3>1. Answer("illegal") BY <1>7, <2>3 DEF MinimizeNext
    <3> QED BY <1>6, <2>1, <3>1
  <2> QED BY <2>2, <2>3
<1>8. CASE LinConclude
  <2>1. pos = 0 BY <1>8 DEF LinConclude, FirstEnded
  <2>2. \/ inconclusive /\ Answer("inconclusive") /\ UNCHANGED <<call, keep, pos>>
        \/ Answer("legal") /\ UNCHANGED <<call, keep, pos>>
        \/ MinimizeNext(keep, 1)
    BY <1>8 DEF LinConclude
  <2> QED BY <1>5, <1>6, <1>7, <2>1, <2>2
<1>9. CASE TxnConclude
  <2>1. pos = 0 /\ UNCHANGED <<call, keep, pos>> BY <1>9 DEF TxnConclude, FirstEnded
  <2>2. (inconclusive /\ Answer("inconclusive")) \/ Answer("legal") \/ Answer("illegal")
    BY <1>9 DEF TxnConclude
  <2> QED BY <1>5, <1>6, <2>1, <2>2
<1>10. CASE Minimize
  <2>1. pos > 0 /\ (MinimizeNext(Items, pos) \/ MinimizeNext(keep, pos + 1))
    BY <1>10 DEF Minimize
  <2>2. pos \in Nat BY <1>1 DEF Kept
  <2>3. pos # 0 /\ pos + 1 # 0 BY <2>1, <2>2
  <2> QED BY <1>7, <2>1, <2>3
<1> QED BY <1>8, <1>9, <1>10

LEMMA WorkStutters ==
  ASSUME WorkInv, UNCHANGED vars
  PROVE  Work'
<1>1. Work /\ call \in Checks BY DEF WorkInv, PathInv, Kept
<1>2. UNCHANGED <<call, keep, pos, order, stack, seen, explored, inconclusive, mode, verdict>>
  BY DEF vars, search
<1>3. Nodes' = Nodes /\ Transactional' = Transactional BY <1>1, <1>2, BoundSame
<1>4. InconclusiveMeansLowBudget' BY <1>1, <1>2, <1>3 DEF Work, InconclusiveMeansLowBudget
<1>5. Opened' = Opened /\ \A k : Left(k)' = Left(k) BY <1>2 DEF Opened, Left
<1>6. \A a : Spent(a)' <=> Spent(a) BY <1>2, <1>5 DEF Spent
<1> QED BY <1>1, <1>2, <1>3, <1>4, <1>6 DEF Work

LEMMA WorkInit == Init => WorkInv
<1> SUFFICES ASSUME Init PROVE WorkInv OBVIOUS
<1>1. PathInv /\ call \in Checks BY PathInit DEF Init
<1>2. /\ order = <<>> /\ seen = {} /\ explored = 0 /\ inconclusive = FALSE /\ mode = "call"
      /\ verdict = "none"
  BY DEF Init
<1>3. IsFiniteSet({}) /\ Cardinality({}) = 0 BY FS_EmptySet
<1>4. PICK L \in Nat : L = Len(keep)
  <2>1. IsSeq(keep) BY <1>1 DEF PathInv, Kept
  <2> QED BY <2>1, LenProperties DEF IsSeq
<1>5. \E a : Spent(a)
  <2> DEFINE a == [k \in {0} |-> 0]
  <2>1. a[0] = 0 OBVIOUS
  <2> HIDE DEF a
  <2>2. Opened = 0 BY <1>2 DEF Opened
  <2>3. explored + a[0] <= Cardinality(seen) * Len(keep)
    <3>1. 0 + 0 <= 0 * L BY SMT
    <3> QED BY <1>2, <1>3, <1>4, <2>1, <3>1
  <2>4. \A k \in 0 .. 0 : k = 0 BY SMT
  <2>5. \A k \in 1 .. 0 : FALSE BY SMT
  <2>6. Spent(a) BY <2>1, <2>2, <2>3, <2>4, <2>5 DEF Spent
  <2> QED BY <2>6
<1>6. InconclusiveMeansLowBudget BY <1>2 DEF InconclusiveMeansLowBudget
<1> QED BY <1>1, <1>2, <1>3, <1>5, <1>6 DEF WorkInv, Work

LEMMA WorkHolds == Spec => []WorkInv
<1>1. WorkInv /\ [Next]_vars => WorkInv'
  <2> SUFFICES ASSUME WorkInv, [Next]_vars PROVE WorkInv' OBVIOUS
  <2>1. PathInv BY DEF WorkInv
  <2>2. PathInv' BY <2>1, PathMoves, PathStutters
  <2>3. CASE UNCHANGED vars BY <2>2, <2>3, WorkStutters DEF WorkInv
  <2>4. CASE SearchStep BY <2>2, <2>4, WorkSearches DEF WorkInv
  <2>5. CASE LinConclude \/ TxnConclude \/ Minimize BY <2>2, <2>5, WorkConcludes DEF WorkInv
  <2> QED BY <2>3, <2>4, <2>5 DEF Next, Done, SearchStep
<1> QED BY <1>1, WorkInit, PTL DEF Spec

\* A budget above the number of nodes, or above the transactions to try at them, is always
\* enough; with exactly as many the answer may still be withheld (run_search).
THEOREM BudgetIsEnough == Spec => []InconclusiveMeansLowBudget
<1>1. WorkInv => InconclusiveMeansLowBudget BY DEF WorkInv, Work
<1> QED BY <1>1, WorkHolds, PTL
=============================================================================

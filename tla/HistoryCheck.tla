---------------------------- MODULE HistoryCheck ----------------------------
(***************************************************************************)
(* The two history checkers of detersim-check.  Each is a depth-first      *)
(* search for a legal sequential order, with a memo of the nodes already   *)
(* entered and a budget of steps; a step of this specification is one step *)
(* of the search.  check_linearizable goes on to minimise a history it     *)
(* rejects, with one fresh search per candidate.                           *)
(*                                                                         *)
(* A check is one call: the sequential model ("txn" for the transaction    *)
(* checker), its initial state, the history and the budget.  The id of a   *)
(* record is its position in the history.                                  *)
(***************************************************************************)
EXTENDS Integers, SequencesExt

CONSTANT Checks  \* the calls of this instance

None == -1

IsSeq(s) == s \in Seq(ToSet(s))

ASSUME ChecksOK ==
  \A c \in Checks :
    /\ IsSeq(c.history) /\ c.budget \in Nat
    /\ \A i \in DOMAIN c.history :
         /\ c.history[i].invoke \in Nat /\ c.history[i].complete \in Nat \union {None}
         /\ c.model = "txn" => IsSeq(c.history[i].actions)

VARIABLES
  call,         \* the arguments, an element of Checks
  keep,         \* the records searched, or still kept by the minimiser
  pos,          \* the one the minimiser leaves out, 0 in the first search
  order,        \* the records the open calls of dfs have put in order
  stack,        \* those calls: the state they got, the candidate they try next
  seen,         \* the memo of this search
  explored,     \* the steps it has used
  inconclusive, \* whether its budget ran out
  mode,         \* what happens next: "call", "loop", "found", "failed" or "done"
  verdict

search == <<order, stack, seen, explored, inconclusive, mode>>
vars   == <<call, keep, pos, search, verdict>>

-----------------------------------------------------------------------------
(* The sequential models: the next state and the output an input leads to. *)

RegisterStep(s, in) ==
  IF in.op = "read" THEN <<s, <<"value", s>>>> ELSE <<in.value, <<"ok">>>>

\* None is the value of an absent key.
SingleKeyKvStep(s, in) == RegisterStep(s, in)

MultiKeyKvStep(s, in) ==
  IF in.op = "read" THEN <<s, <<"value", s[in.key]>>>>
  ELSE <<[s EXCEPT ![in.key] = in.value], <<"ok">>>>

AppendOnlyLogStep(s, in) ==
  IF in.op = "read" THEN <<s, <<"entries", s>>>>
  ELSE <<Append(s, in.value), <<"index", Len(s)>>>>

ModelStep(s, in) ==
  IF call.model = "register" THEN RegisterStep(s, in)
  ELSE IF call.model = "single" THEN SingleKeyKvStep(s, in)
  ELSE IF call.model = "kv" THEN MultiKeyKvStep(s, in)
  ELSE AppendOnlyLogStep(s, in)

\* What the search makes of a record in a state: the next state, or nothing when
\* the record is not what the model expects.
OpApply(op, s) == {r[1] : r \in {r \in {ModelStep(s, op.input)} : r[2] = op.output}}

\* What one action makes of the states before it.
Act(S, a) ==
  IF a.op = "read" THEN {x \in S : x[a.key] = a.value}
  ELSE {[x EXCEPT ![a.key] = a.value] : x \in S}

\* apply_txn: reads are checked against the transaction's own writes too.
ApplyTxn(txn, s) ==
  LET upto[n \in 0 .. Len(txn.actions)] ==
        IF n = 0 THEN {s} ELSE Act(upto[n - 1], txn.actions[n])
  IN  upto[Len(txn.actions)]

Transactional == call.model = "txn"
Rec(i) == call.history[i]
Apply(i, s) == IF Transactional THEN ApplyTxn(Rec(i), s) ELSE OpApply(Rec(i), s)

\* OpRecord::is_complete, and the filter of check_serializable.
IsComplete(op) == op.complete # None
IsCommitted(txn) == txn.committed /\ txn.complete # None
Checked(c) ==
  {i \in DOMAIN c.history : IF c.model = "txn" THEN IsCommitted(c.history[i])
                                               ELSE IsComplete(c.history[i])}

\* Two processes do not end and begin operations at the same instant.  (The checkers take
\* an operation that ends the moment another begins for one before it, whoever they are of.)
InstantsApart ==
  \A c \in Checks : \A i, j \in Checked(c) :
    c.history[j].complete = c.history[i].invoke => c.history[j].process = c.history[i].process

\* The positions of those records, in order.
Filtered(c) ==
  LET upto[n \in 0 .. Len(c.history)] ==
        IF n = 0 THEN <<>>
        ELSE IF n \in Checked(c) THEN Append(upto[n - 1], n) ELSE upto[n - 1]
  IN  upto[Len(c.history)]

\* The records this search is about.
Items == IF pos = 0 THEN keep ELSE RemoveAt(keep, pos)

Used == ToSet(order)

\* Mutant: an operation that ends the moment another begins does not precede it.
EndedBefore(i) == {j \in ToSet(Items) \ {i} : Rec(j).complete < Rec(i).invoke}

\* predecessors, txn_predecessors
Predecessors(i) == {j \in ToSet(Items) \ {i} : Rec(j).complete <= Rec(i).invoke}

-----------------------------------------------------------------------------
(* The search. *)

Start(c) ==
  /\ order' = <<>> /\ stack' = <<[state |-> c.initial, next |-> 1]>>
  /\ seen' = {} /\ explored' = 0 /\ inconclusive' = FALSE /\ mode' = "call"

Init ==
  /\ call \in Checks
  /\ keep = Filtered(call)
  /\ pos = 0
  /\ order = <<>> /\ stack = <<[state |-> call.initial, next |-> 1]>>
  /\ seen = {} /\ explored = 0 /\ inconclusive = FALSE
  /\ mode = "call" /\ verdict = "none"

Args == <<call, keep, pos, verdict>>

\* An open call of dfs answers false: its caller takes its record back.
ReturnFalse ==
  /\ stack' = Front(stack)
  /\ order' = IF order = <<>> THEN order ELSE Front(order)
  /\ mode' = IF Len(stack) = 1 THEN "failed" ELSE "loop"

Complete  == Len(order) = Len(Items)
Exhausted == explored >= call.budget
NodeHere  == [used |-> Used, state |-> Last(stack).state]

\* Mutant: the memo compares the sets of records only.
SeenByUsed == \E e \in seen : e.used = Used
Seen == NodeHere \in seen

\* What a call of dfs does first, in the order of its tests: the linearizability
\* search looks for completeness before the budget, the transaction search after.
LinCall ==
  IF Complete THEN "accept" ELSE IF Exhausted THEN "give up"
  ELSE IF Seen THEN "prune" ELSE "expand"

TxnCall ==
  IF Exhausted THEN "give up" ELSE IF Complete THEN "accept"
  ELSE IF Seen THEN "prune" ELSE "expand"

Called(outcome) == mode = "call" /\ outcome = IF Transactional THEN TxnCall ELSE LinCall

Accept ==
  /\ Called("accept") /\ mode' = "found"
  /\ UNCHANGED <<Args, order, stack, seen, explored, inconclusive>>

GiveUp ==
  /\ Called("give up") /\ inconclusive' = TRUE /\ ReturnFalse
  /\ UNCHANGED <<Args, seen, explored>>

Prune ==
  /\ Called("prune") /\ ReturnFalse
  /\ UNCHANGED <<Args, seen, explored, inconclusive>>

\* Mutant: the memo is never filled.
RememberNothing == seen' = seen
Remember == seen' = seen \union {NodeHere}

\* The linearizability search spends a step on every node it expands.
Expand ==
  /\ Called("expand") /\ Remember /\ mode' = "loop"
  /\ explored' = explored + (IF Transactional THEN 0 ELSE 1)
  /\ UNCHANGED <<Args, order, stack, inconclusive>>

Candidates ==
  {k \in Last(stack).next .. Len(Items) :
     Items[k] \notin Used /\ Predecessors(Items[k]) \subseteq Used}

\* The next candidate is put in the order, if the model takes it.
Advance ==
  /\ mode = "loop" /\ Candidates # {}
  /\ LET k == Min(Candidates)
         waiting == [stack EXCEPT ![Len(stack)].next = k + 1]
         reached == Apply(Items[k], Last(stack).state)
     IN  \/ /\ reached = {}
            /\ stack' = waiting /\ UNCHANGED <<order, mode>>
         \/ \E s \in reached :
              /\ stack' = Append(waiting, [state |-> s, next |-> 1])
              /\ order' = Append(order, Items[k])
              /\ mode' = "call"
  /\ UNCHANGED <<Args, seen, inconclusive>>

LinTry == ~Transactional /\ Advance /\ UNCHANGED explored

\* The transaction search spends a step on every transaction it tries, and tries
\* no more once the budget ran out below.
TxnTry == Transactional /\ ~inconclusive /\ Advance /\ explored' = explored + 1

Backtrack ==
  /\ mode = "loop" /\ (Candidates = {} \/ (Transactional /\ inconclusive))
  /\ ReturnFalse
  /\ UNCHANGED <<Args, seen, explored, inconclusive>>

-----------------------------------------------------------------------------
(* What is made of a search that has ended. *)

Answer(v) ==
  verdict' = v /\ mode' = "done" /\ UNCHANGED <<order, stack, seen, explored, inconclusive>>

FirstEnded == pos = 0 /\ mode \in {"found", "failed"}

MinimizeNext(kept, p) ==
  /\ keep' = kept /\ pos' = p
  /\ IF p <= Len(kept) /\ Len(kept) > 1
     THEN Start(call) /\ UNCHANGED verdict
     ELSE Answer("illegal")
  /\ UNCHANGED call

LinConclude ==
  /\ FirstEnded /\ ~Transactional
  /\ \/ inconclusive /\ Answer("inconclusive") /\ UNCHANGED <<call, keep, pos>>
     \/ ~inconclusive /\ mode = "found" /\ Answer("legal") /\ UNCHANGED <<call, keep, pos>>
     \/ ~inconclusive /\ mode = "failed" /\ MinimizeNext(keep, 1)

TxnConclude ==
  /\ FirstEnded /\ Transactional
  /\ \/ inconclusive /\ Answer("inconclusive")
     \/ ~inconclusive /\ mode = "found" /\ Answer("legal")
     \/ ~inconclusive /\ mode = "failed" /\ Answer("illegal")
  /\ UNCHANGED <<call, keep, pos>>

\* Mutant: a search that gave up counts as a failure.
StillFailsOrUnknown == mode = "failed"
StillFails == mode = "failed" /\ ~inconclusive

\* minimize_failure: leave the record out when the rest still fails.
Minimize ==
  /\ pos > 0 /\ mode \in {"found", "failed"}
  /\ IF StillFails THEN MinimizeNext(Items, pos) ELSE MinimizeNext(keep, pos + 1)

Done == mode = "done" /\ UNCHANGED vars

Next ==
  \/ Accept \/ GiveUp \/ Prune \/ Expand \/ LinTry \/ TxnTry \/ Backtrack
  \/ LinConclude \/ TxnConclude \/ Minimize \/ Done

Spec == Init /\ [][Next]_vars

-----------------------------------------------------------------------------
(* Reference: legal orders, by enumeration of the permutations. *)

\* The states the records of o lead to, one after the other.
Run(o, from) ==
  LET upto[n \in 0 .. Len(o)] ==
        IF n = 0 THEN from ELSE UNION {Apply(o[n], s) : s \in upto[n - 1]}
  IN  upto[Len(o)]

\* One record ended before the other began; a process does one thing at a time.
Before(a, b) ==
  \/ a.complete < b.invoke
  \/ a.complete = b.invoke /\ a.process = b.process

InRealTime(o) == \A j \in DOMAIN o : \A i \in 1 .. j - 1 : ~Before(Rec(o[j]), Rec(o[i]))

LegalFrom(S, s) == {o \in SetToSeqs(S) : InRealTime(o) /\ Run(o, {s}) # {}}
Legal(S) == LegalFrom(S, call.initial)

\* An order that is reported explains every completed operation (every committed
\* transaction) in real-time order, and a history is rejected only when none does
\* (check_linearizable, check_serializable).
VerdictSound ==
  /\ verdict = "legal" => order \in Legal(Checked(call))
  /\ verdict = "illegal" => Legal(Checked(call)) = {}

\* The memo never cuts a branch that could succeed: a node entered before and no
\* longer open has no legal completion, as long as the budget lasts (dfs).
MemoSound ==
  (mode \in {"call", "loop"} /\ ~inconclusive) =>
    \A e \in seen :
      \/ \E k \in 0 .. Len(order) : e.used = ToSet(SubSeq(order, 1, k))
      \/ LegalFrom(ToSet(Items) \ e.used, e.state) = {}

\* The reported sub-history is a failure by itself, whatever the budget cut short
\* while it was minimised (minimize_failure).
SubhistoryFails == verdict = "illegal" => keep # <<>> /\ Legal(ToSet(keep)) = {}

\* Every node an unlimited search could expand.
Nodes ==
  UNION {UNION {{[used |-> U, state |-> s] : s \in Run(o, {call.initial})} :
                  o \in Legal(U)} : U \in (SUBSET Checked(call)) \ {Checked(call)}}

\* The memo bounds the work: a budget above the number of nodes (above the transactions
\* there are to try at them) always gets an answer.  With exactly as many it may not,
\* since the budget is tested before the memo and, for transactions, before
\* completeness (dfs, TxnSearch::dfs).
InconclusiveMeansLowBudget ==
  verdict = "inconclusive" =>
    call.budget <= Cardinality(Nodes) * (IF Transactional THEN Len(keep) ELSE 1)

\* README: "NotLinearizable is a real failure": no choice of the operations still in
\* flight, taken with any output, explains the completed ones.
RejectedIsFailure ==
  (verdict = "illegal" /\ ~Transactional) =>
    \A extra \in SUBSET (DOMAIN call.history \ Checked(call)) :
      ~\E o \in SetToSeqs(Checked(call) \union extra) :
        /\ \A j \in DOMAIN o : \A i \in 1 .. j - 1 :
             o[j] \in Checked(call) => ~Before(Rec(o[j]), Rec(o[i]))
        /\ FoldLeft(LAMBDA S, i : IF i \in extra THEN {ModelStep(s, Rec(i).input)[1] : s \in S}
                                  ELSE UNION {Apply(i, s) : s \in S},
                    {call.initial}, o) # {}
=============================================================================

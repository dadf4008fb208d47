--------------------------- MODULE MCHistoryCheck ---------------------------
(***************************************************************************)
(* Values for Checks.  The instants of a history are all different, except *)
(* that a process may begin an operation the moment it ended another.      *)
(***************************************************************************)
EXTENDS HistoryCheck

CONSTANT Budgets  \* step budgets

Op(w, span, process) ==
  [input |-> w[1], output |-> w[2], invoke |-> span[1], complete |-> span[2], process |-> process]

\* Three intervals with different ends among 1 .. 6.
Spans == {f \in [1 .. 3 -> {p \in (1 .. 6) \X (1 .. 6) : p[1] < p[2]}] :
            UNION {{f[i][1], f[i][2]} : i \in 1 .. 3} = 1 .. 6}

Histories(What, spans) ==
  {[i \in 1 .. 3 |-> Op(w[i], f[i], i)] : f \in spans, w \in [1 .. 3 -> What]}

\* Two operations of one process, back to back, and one of another beside them.
BackToBack(What) ==
  {<<Op(w[1], <<1, 3>>, 1), Op(w[2], <<3, 5>>, 1), Op(w[3], <<2, 4>>, 2)>> : w \in [1 .. 3 -> What]}

\* Three operations that overlap, and one after them.
Fourth(What) ==
  {[i \in 1 .. 4 |-> Op(w[i], <<<<1, 4>>, <<2, 5>>, <<3, 6>>, <<7, 8>>>>[i], i)] : w \in [1 .. 4 -> What]}

Open(h, i) == [h EXCEPT ![i].complete = None]

RegisterOps ==
  {<<[op |-> "read"], <<"value", 0>>>>, <<[op |-> "read"], <<"value", 1>>>>,
   <<[op |-> "write", value |-> 1], <<"ok">>>>}

LogOps ==
  {<<[op |-> "read"], <<"entries", <<7>>>>>>, <<[op |-> "read"], <<"entries", <<7, 7>>>>>>,
   <<[op |-> "write", value |-> 7], <<"index", 0>>>>,
   <<[op |-> "write", value |-> 7], <<"index", 1>>>>}

KvOps ==
  {<<[op |-> "write", key |-> "x", value |-> 1], <<"ok">>>>,
   <<[op |-> "write", key |-> "y", value |-> 1], <<"ok">>>>,
   <<[op |-> "read", key |-> "x"], <<"value", 1>>>>,
   <<[op |-> "read", key |-> "y"], <<"value", None>>>>}

\* Some overlap, some order: enough for the models that differ only in their states.
FewSpans ==
  {[i \in 1 .. 3 |-> <<i, i + 3>>], [i \in 1 .. 3 |-> <<2 * i - 1, 2 * i>>],
   <<<<3, 6>>, <<1, 4>>, <<2, 5>>>>, <<<<1, 3>>, <<2, 4>>, <<5, 6>>>>, <<<<1, 6>>, <<2, 3>>, <<4, 5>>>>}

Nothing == [k \in {"x", "y"} |-> None]

R(k, v) == [op |-> "read", key |-> k, value |-> v]
W(k, v) == [op |-> "write", key |-> k, value |-> v]
Txns == {<<R("x", None), W("y", 1)>>, <<R("y", None), W("x", 1)>>, <<R("x", 1)>>,
         <<W("x", 2), R("x", 2)>>, <<R("y", 1), R("x", 2)>>}

TxnHistories ==
  {[i \in 1 .. 3 |-> [actions |-> w[i], committed |-> i # gone, process |-> i,
                      invoke |-> f[i][1], complete |-> f[i][2]]] :
     f \in FewSpans, w \in [1 .. 3 -> Txns], gone \in {0, 2}}

Call(model, init, h, b) == [model |-> model, initial |-> init, history |-> h, budget |-> b]

SomeChecks ==
  {Call("register", 0, h, b) : h \in Histories(RegisterOps, Spans), b \in Budgets}
  \union
  {Call("register", 0, h, b) : h \in BackToBack(RegisterOps) \union Fourth(RegisterOps), b \in Budgets}
  \union
  {Call("single", 0, Open(h, 2), b) : h \in Histories(RegisterOps, FewSpans), b \in Budgets}
  \union {Call("kv", Nothing, h, b) : h \in Histories(KvOps, FewSpans), b \in Budgets}
  \union {Call("log", <<>>, h, b) : h \in Histories(LogOps, FewSpans), b \in Budgets}
  \union {Call("txn", Nothing, h, b) : h \in TxnHistories, b \in Budgets}

ASSUME HistoriesApart == InstantsApart
=============================================================================

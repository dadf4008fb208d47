----------------------------- MODULE MCCampaign -----------------------------
(* Small cases: a plan of three children, a delayed message, a duplicated one. *)
EXTENDS Campaign

Conf(nodes, children, extra, duplicate, drop) ==
  [live |-> nodes, plans |-> children, extra |-> extra, duplicate |-> duplicate, drop |-> drop]

\* Times after every delivery, in milliseconds: the third partition is never asked for.
Children == <<Scripted(<<[time |-> 300, action |-> <<"crash", 3>>], [time |-> 400, action |-> <<"restart", 3>>]>>),
              RandomLinkFault(250, << <<2, 3>>, <<3, 2>> >>),
              RandomPartition(200, 100, 3)>>

Case(generate, replay, labelled) == [generate |-> generate, replay |-> replay, labelled |-> labelled]

Planned3 == Conf(<<1, 2, 3>>, Children, 0, 0, 50)
Planned2 == Conf(<<1, 3>>, Tail(Children), 0, 50, 50)
Planned1 == Conf(<<1>>, Children, 0, 0, 50)
Copies2  == Conf(<<1, 2>>, <<>>, 9, 50, 50)
Forgets  == [Copies2 EXCEPT !.drop = 0]
Lone     == Conf(<<1, 2>>, <<>>, 0, 50, 50)

Budget(seeds, attempts, chunk) ==
  [seed_count |-> seeds, max_attempts |-> attempts, min_chunk_len |-> chunk]

MCJobs ==
  {Job("experiment", Case(c, c, TRUE), Budget(n, a, 2)) :
     c \in {Planned3, Planned2, Planned1, Copies2}, n \in {0, 1}, a \in {0, 3, 40}}
  \union {Job("experiment", Case(Lone, Lone, TRUE), Budget(3, 40, 2))}
  \union {Job("experiment", Case(Copies2, Forgets, TRUE), Budget(1, 40, 2)),
          Job("artifact", Case(Copies2, Forgets, TRUE), Budget(1, 40, 2)),
          Job("artifact", Case(Copies2, Copies2, TRUE), Budget(1, 40, 2))}
  \union {Job("signature", Case(c, c, FALSE), Budget(1, a, k)) :
     c \in {Planned3, Copies2}, a \in {4, 40}, k \in {0, 1, 2}}
  \union {Job("signature", Case(Copies2, Copies2, TRUE), Budget(1, 40, 2))}

MCHunts == {[Job("search", Case(Lone, Lone, TRUE), Budget(SeedCount, 0, 0)) EXCEPT !.stage = "search"]}

MCStressOrder == <<0, 2, 1>>
=============================================================================

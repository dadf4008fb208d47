------------------------------- MODULE Shrink -------------------------------
(***************************************************************************)
(* The two shrinkers of detersim-shrink, one candidate at a time.  Each    *)
(* cuts draws out of the tape and keeps the cut if the run of what is left *)
(* still fails.  Whoever runs the candidates says so.                      *)
(***************************************************************************)
EXTENDS Naturals, Sequences, FiniteSets, SequencesExt, FiniteSetsExt

VARIABLE shr  \* the shrink in progress

NoShrink == [phase |-> "idle"]

\* The tape as it came, all of it kept.  `refused' collects the draws whose removal
\* alone was tried and undone.
StartShrink(original, labels, config) ==
  [phase |-> "original", original |-> original, labels |-> labels,
   config |-> config, current |-> original, kept |-> [i \in DOMAIN original |-> i],
   attempts |-> 0, accepted |-> 0, pos |-> 1, tier |-> 0, chunk |-> Len(original) \div 2,
   round |-> FALSE, reproduced |-> FALSE, refused |-> {}]

label_tier(label) ==
  CASE label \in {"net-delay", "extra-delay", "jitter"} -> 0
    [] label \in {"drop-decision", "duplicate-decision"} -> 1
    [] label \in {"partition", "crash-point", "restart", "clock-skew", "nemesis"} -> 2
    [] OTHER -> 3

\* A tape without its labels is shrunk by chunks, a labelled one tier by tier.
Algorithm == IF Len(shr.labels) # Len(shr.original) THEN "chunks" ELSE "tiers"

Budgeted == shr.attempts < shr.config.max_attempts

\* The positions still to try in this tier.
InTier == {p \in shr.pos .. Len(shr.current) : label_tier(shr.labels[shr.kept[p]]) = shr.tier}

\* The first position and the length of the next cut, where there is one.
NextCut ==
  CASE shr.phase = "tiers" /\ InTier # {} -> <<Min(InTier), 1>>
    [] shr.phase = "chunks" /\ shr.pos + shr.chunk - 1 <= Len(shr.current)
       /\ shr.chunk >= shr.config.min_chunk_len -> <<shr.pos, shr.chunk>>
    [] shr.phase = "singles" /\ shr.pos <= Len(shr.current) -> <<shr.pos, 1>>
    [] OTHER -> <<>>

Tries == shr.phase = "original" \/ (Budgeted /\ NextCut # <<>>)

Without(s, cut) == SubSeq(s, 1, cut[1] - 1) \o SubSeq(s, cut[1] + cut[2], Len(s))

Candidate == IF shr.phase = "original" THEN shr.original ELSE Without(shr.current, NextCut)

\* The first run: does the original tape reproduce the failure?
Reproduced(fails) ==
  shr' = [shr EXCEPT !.attempts = 1, !.reproduced = fails,
            !.phase = IF ~fails THEN "over" ELSE Algorithm]

\* Mutant: the indices lose what stood at the front.
AcceptedAtFront(cut) ==
  [shr EXCEPT !.current = Without(@, cut), !.kept = Without(@, <<1, cut[2]>>),
     !.attempts = @ + 1, !.accepted = @ + 1, !.round = TRUE, !.pos = cut[1]]

\* The cut is kept, and the same position is tried again.
Accepted(cut) ==
  [shr EXCEPT !.current = Without(@, cut), !.kept = Without(@, cut),
     !.attempts = @ + 1, !.accepted = @ + 1, !.round = TRUE, !.pos = cut[1]]

\* Mutant: what is kept after a refusal is passed over.
RefusedFurther(cut) ==
  [shr EXCEPT !.attempts = @ + 1, !.pos = cut[1] + cut[2] + 1,
     !.refused = @ \union IF cut[2] = 1 THEN {shr.kept[cut[1]]} ELSE {}]

\* The cut is undone, and the next position is tried.
Refused(cut) ==
  [shr EXCEPT !.attempts = @ + 1, !.pos = cut[1] + cut[2],
     !.refused = @ \union IF cut[2] = 1 THEN {shr.kept[cut[1]]} ELSE {}]

\* The candidate has run.
Judge(fails) ==
  /\ Tries
  /\ IF shr.phase = "original" THEN Reproduced(fails)
     ELSE shr' = IF fails THEN Accepted(NextCut) ELSE Refused(NextCut)

\* for tier in 0..=3
NextTier ==
  /\ shr.phase = "tiers" /\ ~Tries
  /\ shr' = IF shr.tier < 3 THEN [shr EXCEPT !.tier = @ + 1, !.pos = 1]
            ELSE [shr EXCEPT !.phase = "over"]

\* Mutant: the chunks are halved only after a round that refused one at its end.
HalvedIfRefused == IF shr.round \/ shr.pos = 1 THEN shr.chunk ELSE shr.chunk \div 2

\* A round that removed something is repeated.
Halved == IF shr.round THEN shr.chunk ELSE shr.chunk \div 2

\* while chunk_len >= config.min_chunk_len, then the single draws
NextRound ==
  /\ shr.phase = "chunks" /\ ~Tries
  /\ shr' = IF shr.chunk >= shr.config.min_chunk_len /\ Budgeted
            THEN [shr EXCEPT !.chunk = Halved, !.pos = 1, !.round = FALSE]
            ELSE [shr EXCEPT !.phase = "singles", !.pos = 1]

LastSingle ==
  /\ shr.phase = "singles" /\ ~Tries
  /\ shr' = [shr EXCEPT !.phase = "over"]

ShrinkStep == NextTier \/ NextRound \/ LastSingle

Shrinking == shr.phase # "idle"

-----------------------------------------------------------------------------
\* The kept indices are those of the draws of the minimised tape, in their order,
\* however chunks and single draws were cut and undone (ShrinkReport).
KeptDescribesMinimized ==
  Shrinking =>
    /\ shr.current = [k \in DOMAIN shr.kept |-> shr.original[shr.kept[k]]]
    /\ \A i, j \in DOMAIN shr.kept : i < j => shr.kept[i] < shr.kept[j]

\* Unless the budget ran out, every draw that is left was tried by itself and could
\* not go (both shrinkers end with single draws).
EveryKeptWasNeeded ==
  Shrinking /\ shr.phase = "over" /\ shr.reproduced /\ Budgeted => ToSet(shr.kept) \subseteq shr.refused
=============================================================================

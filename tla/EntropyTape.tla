---------------------------- MODULE EntropyTape -----------------------------
(***************************************************************************)
(* The entropy tape of detersim-sim: every decision of a run is a labelled *)
(* draw.  A generating tape takes it from the generator of the seed, here  *)
(* any value; a replaying one reads its input back, and zero past its end. *)
(***************************************************************************)
EXTENDS Naturals, Sequences

CONSTANT Draws  \* the values the generator gives

VARIABLE tape   \* the tape of the current run

Generating == [replaying |-> FALSE, input |-> <<>>, log |-> <<>>, labels |-> <<>>]
Replaying(input) == [Generating EXCEPT !.replaying = TRUE, !.input = input]

\* Mutant: the cursor is on the value drawn last.
ReplayedBehind(t) ==
  IF Len(t.log) \in DOMAIN t.input THEN t.input[Len(t.log)] ELSE 0

\* The value a replaying tape gives next.
Replayed(t) ==
  IF Len(t.log) < Len(t.input) THEN t.input[Len(t.log) + 1] ELSE 0

\* EntropyTape::draw: the values a draw may have, each with the tape it leaves.
Draw(t, label) ==
  {[value |-> v,
    tape |-> [t EXCEPT !.log = Append(@, v), !.labels = Append(@, label)]] :
     v \in IF t.replaying THEN {Replayed(t)} ELSE Draws}

\* A decision that is not drawn: it does not fire.
Undrawn(t) == {[value |-> 100, tape |-> t]}

\* Inner::draw_percent, and whether the decision fires
DrawPercent(t, label, percent) == IF percent > 0 THEN Draw(t, label) ELSE Undrawn(t)
Fires(draw, percent) == draw.value % 100 < percent

\* EntropyTape::diagnostics of a replay
ConsumedAll(t) == Len(t.log) >= Len(t.input)
Exhausted(t) == Len(t.log) > Len(t.input)
=============================================================================

----------------------------- MODULE TapeWorld ------------------------------
(***************************************************************************)
(* One run of a world as the tape sees it: a nemesis plan is scheduled,    *)
(* then a node sends a message, and each copy is delivered or dropped.     *)
(* The plan's actions come after the last delivery and do not touch it.    *)
(***************************************************************************)
EXTENDS NemesisPlans

VARIABLE world  \* the run: its configuration, arrivals and fates of the copies

worldVars == <<tape, planVars, world>>

NoConf == [live |-> <<>>, plans |-> <<>>, extra |-> 0, duplicate |-> 0, drop |-> 0]
Idle == [conf |-> NoConf, phase |-> "idle", arrivals |-> <<>>, fates |-> <<>>, calm |-> TRUE]

\* A decision that fires is drawn from the tape, not past its end.
Calmly(d, percent) == Fires(d, percent) => ~(d.tape.replaying /\ Exhausted(d.tape))

\* World::from_tape, then the set-up of the case
StartWorld(conf, t) ==
  /\ tape' = t
  /\ NewPlans(conf.live, conf.plans)
  /\ world' = [Idle EXCEPT !.conf = conf, !.phase = "plan"]

\* World::schedule_nemesis_plan
Plan ==
  /\ world.phase = "plan"
  /\ \/ (Ask \/ Emit) /\ UNCHANGED world
     \/ Planned /\ world' = [world EXCEPT !.phase = "send"] /\ UNCHANGED <<tape, planVars>>

\* SimNet::send
Send ==
  /\ world.phase = "send"
  /\ LET c == world.conf
     IN  \E d \in Draw(tape, "net-delay") :
         \E x \in IF c.extra > 0 THEN Draw(d.tape, "extra-delay") ELSE Undrawn(d.tape) :
         \E u \in DrawPercent(x.tape, "duplicate-decision", c.duplicate) :
         \E g \in IF Fires(u, c.duplicate) THEN Draw(u.tape, "extra-delay") ELSE Undrawn(u.tape) :
           LET at == 1 + (d.value % 100) + (x.value % (c.extra + 1))
           IN  /\ tape' = g.tape
               /\ world' = [world EXCEPT
                    !.phase = "deliver",
                    !.calm = Calmly(u, c.duplicate),
                    !.arrivals = <<at>> \o IF Fires(u, c.duplicate)
                                           THEN <<at + 1 + (g.value % 10)>> ELSE <<>>]
  /\ UNCHANGED planVars

\* pop_until_poll takes the next copy: the drop is decided on delivery.
Deliver ==
  /\ world.phase = "deliver" /\ Len(world.fates) < Len(world.arrivals)
  /\ \E d \in DrawPercent(tape, "drop-decision", world.conf.drop) :
       /\ tape' = d.tape
       /\ world' = [world EXCEPT
            !.calm = @ /\ Calmly(d, world.conf.drop),
            !.fates = Append(@, IF Fires(d, world.conf.drop) THEN "dropped" ELSE "delivered")]
  /\ UNCHANGED planVars

Quiesce ==
  /\ world.phase = "deliver" /\ Len(world.fates) = Len(world.arrivals)
  /\ world' = [world EXCEPT !.phase = "over"]
  /\ UNCHANGED <<tape, planVars>>

WorldStep == Plan \/ Send \/ Deliver \/ Quiesce
Over == world.phase = "over"

\* The RunReport: what the run drew, and what its traces say.
Report == [log |-> tape.log, labels |-> tape.labels,
           trace |-> <<emitted, world.arrivals, world.fates>>]

\* The oracle of the case: how the run failed, if it did.
Oracle(report) ==
  LET fates == report.trace[3]
  IN  IF "delivered" \notin ToSet(fates) THEN "lost"
      ELSE IF fates = <<"delivered", "delivered">> THEN "twice" ELSE "none"

-----------------------------------------------------------------------------
\* Past the end of a shrunk tape a draw does "the calm thing" (EntropyTape::draw):
\* it does not drop or duplicate a message.
CalmPastEnd == world.calm
=============================================================================

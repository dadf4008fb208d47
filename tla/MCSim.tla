------------------------------- MODULE MCSim --------------------------------
(* Values for the constants of Sim. *)
EXTENDS Sim

CrashActions == [kind : {"crash", "restart"}, node : Node]
SkewActions == [kind : {"skew"}, node : Node, offset : {-2, 2}]
AllActions ==
       CrashActions
  \union [kind : {"skew"}, node : Node, offset : {2}]
  \union [kind : {"partition"}, groups : {<<{n}>> : n \in Node}]
  \union [kind : {"block"}, from : Node, to : Node]
  \union [kind : {"link"}, from : Node, to : Node, up : BOOLEAN]
  \union [kind : {"heal"}]
=============================================================================

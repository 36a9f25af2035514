------------------------- MODULE MCOutboundMonitor -------------------------
(***************************************************************************)
(* Instances of OutboundMonitor for model checking.  Outbounds a and b are *)
(* leaves, g is a selector over the leaves, and a dials through b          *)
(* (detour).  Tag selects which of them an instance has.                   *)
(***************************************************************************)
EXTENDS OutboundMonitor, TLC

CONSTANTS a, b, g

MCMembers == [x \in Group |-> Tag \ Group]

\* g depends on its members, a on its detour b.
MCDependents == [x \in Tag |-> Tag \cap (CASE x = a -> {g}
                                           [] x = b -> {g, a}
                                           [] x = g -> {})]

MCSymmetry == Permutations(Worker)
=============================================================================

---------------------------- MODULE MCBootStages -----------------------------
(* Two pods, or two ports that belong to a port set each, and two captures    *)
(* of which one object is kept.                                               *)
EXTENDS BootStages
CONSTANTS a, b, c1, c2
MCThings == {a, b}
MCPortSets == {{a}, {b}}
MCStates == [pods |-> {"absent", "Pending", "Running"}, ports |-> {"absent", "disabled", "enabled"}]
MCCaptures == {c1, c2}
Symmetry == Permutations(MCThings) \cup Permutations(MCCaptures)
=============================================================================

-------------------------------- MODULE Inputs --------------------------------
(* What the admin gives to the one command that is run; the inputs of the     *)
(* other commands of a composition are fixed.                                 *)
Given(used, inputs) == IF used THEN inputs ELSE {CHOOSE x \in inputs : TRUE}
=============================================================================

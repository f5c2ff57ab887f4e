----------------------------- MODULE MCMashFlow -----------------------------
(* The strike, then the mash hold that is colder than it.                   *)
EXTENDS MashFlow

MCRecipe == <<[kind |-> "ramp", to |-> 3], [kind |-> "hold", to |-> 1]>>
MCTemps == {1, 3}
=============================================================================

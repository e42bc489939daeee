------------------------------- MODULE MCRing -------------------------------
(***************************************************************************)
(* Values for the constants of Ring: three slots, two seconds apart, and   *)
(* cumulatives that start where the next record or two wrap around.        *)
(***************************************************************************)
EXTENDS Ring

MCTicks == {-2, 1}
MCFirstCumulatives == {31, -32}
MCLimits == {[max_segment |-> 3, min_observations |-> 1],
             [max_segment |-> 9, min_observations |-> 0]}
=============================================================================

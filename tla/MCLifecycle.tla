---------------------------- MODULE MCLifecycle ----------------------------
(***************************************************************************)
(* Values for the constants of Lifecycle: several timetables and instants, *)
(* so that a tick crosses phase boundaries at different distances.         *)
(***************************************************************************)
EXTENDS Lifecycle, MarketInv

MCParams(cooldown, window, grace) ==
  [twap_window |-> window, grace |-> grace, skew |-> 1, max_segment |-> 1,
   creation_cooldown |-> cooldown, claim_window |-> 1,
   fee_bps |-> 1, feed_cap_bps |-> 1, keeper_reward |-> 1]

MCFirstInstant == -10
MCParamSets == {MCParams(0, 1, 1), MCParams(1, 2, 1), MCParams(2, 1, 2)}

(* A market that settles at 3 can be emptied and closed in time for another *)
(* to settle at 6, were its identifier free.                                *)
MCSettleInstants == {3, 5, 6}
=============================================================================

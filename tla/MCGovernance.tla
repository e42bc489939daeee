---------------------------- MODULE MCGovernance ----------------------------
(***************************************************************************)
(* Values for the constants of Governance: two parameter sets that may be  *)
(* adopted and one that may not, and CLMM accounts of which one ring names *)
(* a pool that names another ring.                                         *)
(***************************************************************************)
EXTENDS Governance, TLC

CONSTANTS k1, k2, usd, pool1, pool2, ring1, ring2, ring3, pyth1

MCParams(fee, window) ==
  [twap_window |-> window, grace |-> 1, skew |-> 1, max_segment |-> 1,
   creation_cooldown |-> 0, claim_window |-> 1,
   fee_bps |-> fee, feed_cap_bps |-> 1, keeper_reward |-> 1]

MCFirstInstant == -10
MCProposals == {MCParams(0, 1), MCParams(1, 1), MCParams(0, 5)}
MCObservationKey == (pool1 :> ring1) @@ (pool2 :> ring2)
MCPoolId == (ring1 :> pool1) @@ (ring2 :> pool2) @@ (ring3 :> pool1)
=============================================================================

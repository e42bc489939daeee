----------------------------- MODULE MCProtocol -----------------------------
(***************************************************************************)
(* Values for the constants of Protocol: two rings that make a market      *)
(* together, one parameter set, and a cap of one unit a side.              *)
(***************************************************************************)
EXTENDS Protocol, TLC

CONSTANTS k, usd, pool1, pool2, ring1, ring2

MCParams ==
  [twap_window |-> 1, grace |-> 1, skew |-> 1, max_segment |-> 1,
   creation_cooldown |-> 0, claim_window |-> 0,
   fee_bps |-> 1, feed_cap_bps |-> 1, keeper_reward |-> 1]

MCFirstInstant == -10
MCProposals == {MCParams}
MCSettleInstants == {4}
MCObservationKey == (pool1 :> ring1) @@ (pool2 :> ring2)
MCPoolId == (ring1 :> pool1) @@ (ring2 :> pool2)
MCSymmetry == {(ring1 :> ring2) @@ (ring2 :> ring1) @@ (pool1 :> pool2) @@ (pool2 :> pool1)}
=============================================================================

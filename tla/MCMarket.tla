------------------------------ MODULE MCMarket ------------------------------
(***************************************************************************)
(* Values for the constants of Market that a configuration cannot write.   *)
(***************************************************************************)
EXTENDS Market

(* Unit-length window, skew, cooldown, grace and claim window keep every   *)
(* phase distinct; a fee of three parts in four makes every floor bite.     *)
MCParams ==
  [twap_window |-> 1, grace |-> 1, skew |-> 1, max_segment |-> 1,
   creation_cooldown |-> 1, claim_window |-> 1,
   fee_bps |-> 3, feed_cap_bps |-> 1, keeper_reward |-> 2]

MCFirstInstant == -10
MCParamSets == {MCParams}

(* A market created at 0 is refused the first and may settle at the second. *)
MCSettleInstants == {3, 4}
=============================================================================

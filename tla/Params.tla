------------------------------- MODULE Params -------------------------------
(***************************************************************************)
(* The parameters governance adopts and every market copies at creation    *)
(* (state/params.rs), and what a parameter set must satisfy before it can  *)
(* be adopted (utils/params.rs).  The oracle tolerances are left out: they *)
(* only decide whether a feed can be read.                                 *)
(***************************************************************************)
EXTENDS Schedule

CONSTANTS
  MAX_FEE_BPS,         \* 500 in the code
  MAX_FEED_CAP_BPS,    \* 2000 in the code
  MIN_CLAIM_WINDOW,    \* ninety days
  SNAPSHOT_RENT        \* lamports the snapshot account costs its keeper

ASSUME ParamBounds ==
  /\ MAX_FEE_BPS \in Nat /\ MAX_FEED_CAP_BPS \in Nat
  /\ MIN_CLAIM_WINDOW \in Nat /\ SNAPSHOT_RENT \in Nat

MarketParams ==
  [twap_window : Nat, grace : Nat, skew : Nat, max_segment : Nat,
   creation_cooldown : Nat, claim_window : Nat,
   fee_bps : Nat, feed_cap_bps : Nat, keeper_reward : Nat]

(* MarketParams::schedule *)
schedule(params, settle_at) ==
  [settle_at   |-> settle_at,
   twap_window |-> params.twap_window,
   grace       |-> params.grace,
   skew        |-> params.skew,
   max_segment |-> params.max_segment]

validate_params(params) ==
  /\ params.fee_bps <= MAX_FEE_BPS
  /\ params.feed_cap_bps \in 1 .. MAX_FEED_CAP_BPS
  /\ params.claim_window >= MIN_CLAIM_WINDOW
  /\ params.keeper_reward >= SNAPSHOT_RENT
  /\ validate(schedule(params, 0))

=============================================================================

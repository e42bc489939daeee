------------------------------- MODULE Payout -------------------------------
(***************************************************************************)
(* How a pot is divided (crates/market-core/src/payout.rs) and how the fee *)
(* is cut (programs/prediction-market/src/instructions/resolve.rs).  Pure   *)
(* operators: the market's state machine is in Market.                     *)
(*                                                                         *)
(* Amounts are u64 base units.  A share is a Q64 fraction: the integer     *)
(* Q64_ONE (2^64 in the code) stands for 1, and shifting right by the       *)
(* fractional bits is the division by Q64_ONE.  Every division floors.      *)
(***************************************************************************)
EXTENDS Integers

CONSTANTS
  Q64_ONE,                    \* raw representation of the share 1
  BPS_DENOMINATOR,            \* basis points in one
  FEE_SHARE_TREASURY_BPS,     \* the treasury's part of the fee
  FEE_SHARE_CREATOR_BPS,      \* the creator's part of the fee
  U64_MAX                     \* the largest amount of an SPL token

ASSUME PayoutBounds ==
  /\ Q64_ONE \in Nat \ {0}
  /\ BPS_DENOMINATOR \in Nat \ {0}
  /\ FEE_SHARE_TREASURY_BPS \in Nat /\ FEE_SHARE_CREATOR_BPS \in Nat
  /\ FEE_SHARE_TREASURY_BPS + FEE_SHARE_CREATOR_BPS <= BPS_DENOMINATOR
  /\ U64_MAX \in Nat

Side == {"yes", "no"}
Recipient == {"treasury", "creator", "keeper"}

Amount == 0 .. U64_MAX
Share == 0 .. Q64_ONE
Stakes == [Side -> Amount]

-----------------------------------------------------------------------------
(* Stakes::pot, whose checked sum is an error above U64_MAX. *)
pot(stakes) == stakes["yes"] + stakes["no"]
PotFits(stakes) == pot(stakes) <= U64_MAX

DepositFitsU64(stakes, side, amount, cap_per_side) ==    \* slip: no cap on a side
  stakes[side] + amount <= U64_MAX

(* Stakes::deposit: its two refusals, and the counters it returns. *)
DepositFits(stakes, side, amount, cap_per_side) ==
  /\ stakes[side] + amount <= U64_MAX
  /\ stakes[side] + amount <= cap_per_side
deposit_last(stakes, side, amount) == [stakes EXCEPT ![side] = amount]   \* slip: overwrites
deposit(stakes, side, amount) == [stakes EXCEPT ![side] = @ + amount]

-----------------------------------------------------------------------------
abs_diff_signed(a, b) == a - b                           \* slip: only right for a >= b
abs_diff(a, b) == IF a < b THEN b - a ELSE a - b

mul_bps(amount, bps) == (amount * bps) \div BPS_DENOMINATOR

gross_yes(share, stakes) == (share * pot(stakes)) \div Q64_ONE

transferred(share, stakes) == abs_diff(gross_yes(share, stakes), stakes["yes"])

settle_fee_on_pot(share, stakes, fee_bps) == mul_bps(pot(stakes), fee_bps)   \* slip
settle_fee(share, stakes, fee_bps) == mul_bps(transferred(share, stakes), fee_bps)

(* The slip of charging the fee without taking it from a pool.             *)
settle_pools_gross(share, stakes, fee_bps) ==
  [side \in Side |-> IF side = "yes" THEN gross_yes(share, stakes)
                                     ELSE pot(stakes) - gross_yes(share, stakes)]

(* settle: the fee comes out of the side that gained.  Nothing here can    *)
(* fail once PotFits holds, share is in Share and fee_bps is a fraction.   *)
settle_pools(share, stakes, fee_bps) ==
  LET gross   == gross_yes(share, stakes)
      charged == settle_fee(share, stakes, fee_bps)
      YesGained == stakes["yes"] < gross
  IN  [side \in Side |->
         IF side = "yes"
         THEN IF YesGained THEN gross - charged ELSE gross
         ELSE IF YesGained THEN pot(stakes) - gross
                           ELSE pot(stakes) - gross - charged]

(* payout_for: its two refusals, and what it returns otherwise. *)
Redeemable(burned, side, stakes) == stakes[side] # 0 /\ burned <= stakes[side]
payout_for_up(burned, side, stakes, pools) ==             \* slip: rounds up
  (burned * pools[side] + stakes[side] - 1) \div stakes[side]
payout_for(burned, side, stakes, pools) ==
  (burned * pools[side]) \div stakes[side]

(* The slip of flooring the keeper's part too.                             *)
fee_cut_floored(total) ==
  [r \in Recipient |->
     mul_bps(total, CASE r = "treasury" -> FEE_SHARE_TREASURY_BPS
                      [] r = "creator"  -> FEE_SHARE_CREATOR_BPS
                      [] r = "keeper"   -> BPS_DENOMINATOR - FEE_SHARE_TREASURY_BPS
                                             - FEE_SHARE_CREATOR_BPS)]

(* The three cuts of resolve: two floors, and the keeper takes the rest. *)
fee_cut(total) ==
  LET treasury == mul_bps(total, FEE_SHARE_TREASURY_BPS)
      creator  == mul_bps(total, FEE_SHARE_CREATOR_BPS)
  IN  [r \in Recipient |-> CASE r = "treasury" -> treasury
                             [] r = "creator"  -> creator
                             [] r = "keeper"   -> total - treasury - creator]

=============================================================================

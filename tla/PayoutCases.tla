---------------------------- MODULE PayoutCases ----------------------------
(***************************************************************************)
(* Every small pot under a share that rises, by any steps: what settle,     *)
(* payout_for and the fee cuts promise about each other.                   *)
(***************************************************************************)
EXTENDS Payout

VARIABLES stakes, share, fee_bps

vars == <<stakes, share, fee_bps>>

Init ==
  /\ stakes \in Stakes /\ PotFits(stakes)
  /\ share = 0
  /\ fee_bps \in 0 .. BPS_DENOMINATOR

RaiseShare ==
  /\ share' \in share .. Q64_ONE
  /\ UNCHANGED <<stakes, fee_bps>>

Spec == Init /\ [][RaiseShare]_vars

Pools == settle_pools(share, stakes, fee_bps)
Fee == settle_fee(share, stakes, fee_bps)

(* The pot is divided without remainder and no part of it is negative, the *)
(* three cuts of the fee included.                                         *)
SplitsExactly ==
  /\ \A s \in Side : Pools[s] >= 0
  /\ Pools["yes"] + Pools["no"] + Fee = pot(stakes)
  /\ \A r \in Recipient : fee_cut(Fee)[r] >= 0
  /\ fee_cut(Fee)["treasury"] + fee_cut(Fee)["creator"] + fee_cut(Fee)["keeper"] = Fee

(* The fee is charged on what changes hands: the side that gained keeps at *)
(* least its stake, the side that lost gets exactly its share of the pot,  *)
(* and a pot that nobody won is returned at par.                           *)
FeeOnGainOnly ==
  LET gross == gross_yes(share, stakes)
  IN  /\ gross > stakes["yes"] => /\ Pools["yes"] >= stakes["yes"]
                                  /\ Pools["no"] = pot(stakes) - gross
      /\ gross < stakes["yes"] => /\ Pools["no"] >= stakes["no"]
                                  /\ Pools["yes"] = gross
      /\ gross = stakes["yes"] => Pools = stakes

(* A share closer to YES never leaves the YES side with less nor the NO    *)
(* side with more, floors and fee included: nobody gains by moving the     *)
(* price against its own bet.                                              *)
MonotoneInShare ==
  [][Pools'["yes"] >= Pools["yes"] /\ Pools'["no"] <= Pools["no"]]_vars

(* A whole side redeems for its whole pool, and splitting a position into  *)
(* two never pays more than redeeming it at once.                          *)
RedeemsPool ==
  \A s \in Side : stakes[s] > 0 =>
    /\ payout_for(stakes[s], s, stakes, Pools) = Pools[s]
    /\ \A a \in 0 .. stakes[s] : \A b \in 0 .. stakes[s] - a :
         payout_for(a, s, stakes, Pools) + payout_for(b, s, stakes, Pools)
           <= payout_for(a + b, s, stakes, Pools)

=============================================================================

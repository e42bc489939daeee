---------------------------- MODULE PayoutLemmas ----------------------------
(***************************************************************************)
(* What the operators of Payout return, for every amount, share and rate.  *)
(* The lemmas hold of unbounded naturals: Amount only adds an upper bound. *)
(***************************************************************************)
EXTENDS Payout, IntegerLemmas

-----------------------------------------------------------------------------
(* A rate of at most one takes at most the amount, and takes no more of    *)
(* a smaller amount than it leaves of the difference.                      *)
LEMMA MulBps ==
  ASSUME NEW amount \in Nat, NEW bps \in Nat, bps <= BPS_DENOMINATOR
  PROVE  mul_bps(amount, bps) \in Nat /\ mul_bps(amount, bps) <= amount
<1>1. amount * bps \in Nat /\ amount * bps <= amount * BPS_DENOMINATOR
  BY PayoutBounds
<1>2. QED
  BY <1>1, PayoutBounds, DivAtMost DEF mul_bps

LEMMA MulBpsStep ==
  ASSUME NEW a \in Nat, NEW d \in Nat, NEW bps \in Nat, bps <= BPS_DENOMINATOR
  PROVE  /\ mul_bps(a, bps) <= mul_bps(a + d, bps)
         /\ mul_bps(a + d, bps) <= mul_bps(a, bps) + d
<1> DEFINE m == mul_bps(a, bps)
<1>1. a * bps \in Nat /\ d * bps \in Nat /\ (a + d) * bps = a * bps + d * bps
  OBVIOUS
<1>2. mul_bps(a, bps) <= mul_bps(a + d, bps)
  BY <1>1, PayoutBounds, DivMonotone DEF mul_bps
<1>3. d * bps <= d * BPS_DENOMINATOR
  BY PayoutBounds
<1>4. m \in Nat /\ a * bps < m * BPS_DENOMINATOR + BPS_DENOMINATOR
  BY <1>1, PayoutBounds, DivFloor DEF mul_bps
<1>5. (a + d) * bps < (m + d + 1) * BPS_DENOMINATOR
  BY <1>1, <1>3, <1>4, PayoutBounds
<1>6. mul_bps(a + d, bps) \in Nat
      /\ mul_bps(a + d, bps) * BPS_DENOMINATOR <= (a + d) * bps
  BY <1>1, PayoutBounds, DivFloor DEF mul_bps
<1>7. mul_bps(a + d, bps) < m + d + 1
  BY <1>4, <1>5, <1>6, PayoutBounds
<1> QED BY <1>2, <1>4, <1>6, <1>7

(* YES's share of the pot lies between nothing and the whole pot, and      *)
(* grows with the share.                                                   *)
LEMMA GrossYes ==
  ASSUME NEW stakes \in [Side -> Nat], NEW share \in Share
  PROVE  gross_yes(share, stakes) \in Nat /\ gross_yes(share, stakes) <= pot(stakes)
<1>1. pot(stakes) \in Nat
  BY DEF pot, Side
<1>2. share \in Nat /\ share <= Q64_ONE
  BY PayoutBounds DEF Share
<1>3. share * pot(stakes) \in Nat /\ share * pot(stakes) <= pot(stakes) * Q64_ONE
  BY <1>1, <1>2, PayoutBounds
<1>4. QED
  BY <1>1, <1>3, PayoutBounds, DivAtMost DEF gross_yes

LEMMA GrossYesMonotone ==
  ASSUME NEW stakes \in [Side -> Nat], NEW lower \in Share, NEW higher \in Share,
         lower <= higher
  PROVE  gross_yes(lower, stakes) <= gross_yes(higher, stakes)
<1>1. pot(stakes) \in Nat
  BY DEF pot, Side
<1>2. lower \in Nat /\ higher \in Nat
  BY PayoutBounds DEF Share
<1>3. /\ lower * pot(stakes) \in Nat /\ higher * pot(stakes) \in Nat
      /\ lower * pot(stakes) <= higher * pot(stakes)
  BY <1>1, <1>2, MulMonotone
<1>4. QED
  BY <1>3, PayoutBounds, DivMonotone DEF gross_yes

(* settle: the two pools are naturals that with the fee make up the pot;   *)
(* the fee never exceeds what changed hands, so the gaining side keeps its *)
(* stake and the other side gets exactly its gross part.                   *)
LEMMA SettleSplits ==
  ASSUME NEW stakes \in [Side -> Nat], NEW share \in Share,
         NEW fee_bps \in Nat, fee_bps <= BPS_DENOMINATOR
  PROVE  LET pools == settle_pools(share, stakes, fee_bps)
             total == settle_fee(share, stakes, fee_bps)
             gross == gross_yes(share, stakes)
         IN  /\ pools \in [Side -> Nat] /\ total \in Nat
             /\ pools["yes"] + pools["no"] + total = pot(stakes)
             /\ gross > stakes["yes"] => /\ pools["yes"] >= stakes["yes"]
                                         /\ pools["no"] = pot(stakes) - gross
             /\ gross < stakes["yes"] => /\ pools["no"] >= stakes["no"]
                                         /\ pools["yes"] = gross
             /\ gross = stakes["yes"] => pools = stakes
<1> DEFINE pools == settle_pools(share, stakes, fee_bps)
           total == settle_fee(share, stakes, fee_bps)
           gross == gross_yes(share, stakes)
           moved == transferred(share, stakes)
<1>1. gross \in Nat /\ gross <= pot(stakes)
  BY GrossYes
<1>2. stakes["yes"] \in Nat /\ stakes["no"] \in Nat /\ pot(stakes) = stakes["yes"] + stakes["no"]
  BY DEF pot, Side
<1>3. moved \in Nat /\ moved = IF gross < stakes["yes"] THEN stakes["yes"] - gross
                                                       ELSE gross - stakes["yes"]
  BY <1>1, <1>2 DEF transferred, abs_diff
<1>4. total \in Nat /\ total <= moved
  BY <1>3, MulBps DEF settle_fee
<1>5. /\ pools["yes"] = IF stakes["yes"] < gross THEN gross - total ELSE gross
      /\ pools["no"] = IF stakes["yes"] < gross THEN pot(stakes) - gross
                                               ELSE pot(stakes) - gross - total
      /\ pools = [side \in Side |-> pools[side]]
  BY DEF settle_pools, Side
<1>6. pools["yes"] \in Nat /\ pools["no"] \in Nat
  <2> HIDE DEF pools, total, gross, moved
  <2> QED BY <1>1, <1>2, <1>3, <1>4, <1>5
<1>7. pools \in [Side -> Nat]
  <2> HIDE DEF pools
  <2> QED BY <1>5, <1>6 DEF Side
<1>8. pools["yes"] + pools["no"] + total = pot(stakes)
  <2> HIDE DEF pools, total, gross, moved
  <2> QED BY <1>1, <1>2, <1>4, <1>5
<1>9. gross > stakes["yes"] => pools["yes"] >= stakes["yes"] /\ pools["no"] = pot(stakes) - gross
  <2> HIDE DEF pools, total, gross, moved
  <2> QED BY <1>1, <1>2, <1>3, <1>4, <1>5
<1>10. gross < stakes["yes"] => pools["no"] >= stakes["no"] /\ pools["yes"] = gross
  <2> HIDE DEF pools, total, gross, moved
  <2> QED BY <1>1, <1>2, <1>3, <1>4, <1>5
<1>11. gross = stakes["yes"] => pools = stakes
  <2> HIDE DEF pools, total, gross, moved
  <2> SUFFICES ASSUME gross = stakes["yes"] PROVE pools = stakes
    OBVIOUS
  <2>1. total = 0
    BY <1>2, <1>3, <1>4
  <2>2. pools["yes"] = stakes["yes"] /\ pools["no"] = stakes["no"]
    BY <2>1, <1>1, <1>2, <1>5
  <2> QED BY <2>2, <1>7 DEF Side
<1> QED BY <1>4, <1>7, <1>8, <1>9, <1>10, <1>11

(* The three cuts of a fee are naturals and add up to it. *)
LEMMA FeeCut ==
  ASSUME NEW total \in Nat
  PROVE  /\ fee_cut(total) \in [Recipient -> Nat]
         /\ fee_cut(total)["treasury"] + fee_cut(total)["creator"] + fee_cut(total)["keeper"]
              = total
<1> DEFINE t == total * FEE_SHARE_TREASURY_BPS
           c == total * FEE_SHARE_CREATOR_BPS
           treasury == mul_bps(total, FEE_SHARE_TREASURY_BPS)
           creator == mul_bps(total, FEE_SHARE_CREATOR_BPS)
<1>1. t \in Nat /\ c \in Nat /\ t + c <= total * BPS_DENOMINATOR
  BY PayoutBounds
<1>2. /\ treasury \in Nat /\ treasury * BPS_DENOMINATOR <= t
      /\ creator \in Nat /\ creator * BPS_DENOMINATOR <= c
  BY <1>1, PayoutBounds, DivFloor DEF mul_bps
<1>3. treasury + creator <= total
  <2> HIDE DEF t, c, treasury, creator
  <2>1. (treasury + creator) * BPS_DENOMINATOR <= total * BPS_DENOMINATOR
    BY <1>1, <1>2, PayoutBounds
  <2> QED BY <2>1, <1>2, PayoutBounds
<1>4. /\ fee_cut(total)["treasury"] = treasury /\ fee_cut(total)["creator"] = creator
      /\ fee_cut(total)["keeper"] = total - treasury - creator
      /\ fee_cut(total) = [r \in Recipient |-> fee_cut(total)[r]]
  BY DEF fee_cut, Recipient
<1>5. \A r \in Recipient : fee_cut(total)[r] \in Nat
  <2> HIDE DEF treasury, creator
  <2> QED BY <1>2, <1>3, <1>4 DEF Recipient
<1> QED
  <2> HIDE DEF treasury, creator
  <2> QED BY <1>2, <1>4, <1>5

(* payout_for floors: it never exceeds the exact proportion, and the whole *)
(* side redeems for the whole pool.                                        *)
LEMMA PayoutFloor ==
  ASSUME NEW staked \in [Side -> Nat], NEW pools \in [Side -> Nat], NEW side \in Side,
         staked[side] # 0, NEW burned \in Nat
  PROVE  /\ payout_for(burned, side, staked, pools) \in Nat
         /\ payout_for(burned, side, staked, pools) * staked[side] <= burned * pools[side]
         /\ burned * pools[side] < payout_for(burned, side, staked, pools) * staked[side]
                                     + staked[side]
         /\ burned <= staked[side] => payout_for(burned, side, staked, pools) <= pools[side]
         /\ pools[side] >= staked[side] => payout_for(burned, side, staked, pools) >= burned
<1>1. pools[side] \in Nat /\ staked[side] \in Nat \ {0} /\ burned * pools[side] \in Nat
  OBVIOUS
<1>2. burned <= staked[side] => burned * pools[side] <= pools[side] * staked[side]
  BY <1>1
<1>3. pools[side] >= staked[side] => burned * staked[side] <= burned * pools[side]
  BY <1>1
<1> QED
  BY <1>1, <1>2, <1>3, DivFloor, DivAtMost, DivAtLeast DEF payout_for

=============================================================================

---------------------------- MODULE MarketProofs ----------------------------
(***************************************************************************)
(* The safety of Market for every parameter set, every timetable and every *)
(* amount: IInv is inductive, the properties follow from it, and with them *)
(* the refinement of the transition table in Lifecycle.                    *)
(***************************************************************************)
EXTENDS Lifecycle, MarketInv, PayoutLemmas

-----------------------------------------------------------------------------
(* What governance's bounds say of any parameter set a market may copy.    *)
LEMMA ParamFacts ==
  ASSUME NEW p \in ParamSets
  PROVE  /\ p \in MarketParams
         /\ p.twap_window \in Nat \ {0} /\ p.skew \in Nat \ {0} /\ p.grace \in Nat \ {0}
         /\ p.creation_cooldown \in Nat /\ p.claim_window \in Nat
         /\ p.keeper_reward \in Nat
         /\ p.fee_bps \in Nat /\ p.fee_bps <= BPS_DENOMINATOR
         /\ p.feed_cap_bps \in Nat /\ 2 * p.feed_cap_bps <= BPS_DENOMINATOR
<1>1. p \in MarketParams /\ validate_params(p)
  BY MarketConstants
<1>2. validate(schedule(p, 0)) /\ p.fee_bps <= MAX_FEE_BPS
      /\ p.feed_cap_bps \in 1 .. MAX_FEED_CAP_BPS
  BY <1>1 DEF validate_params
<1>3. /\ p.twap_window \in MIN_TWAP_WINDOW .. MAX_TWAP_WINDOW
      /\ p.grace \in MIN_GRACE .. MAX_GRACE
      /\ p.skew \in MIN_SKEW .. MAX_SKEW
  BY <1>2 DEF validate, schedule
<1> QED
  BY <1>1, <1>2, <1>3, ScheduleBounds, ParamBounds, PayoutBounds, GovernanceBounds
  DEF MarketParams

(* The instants of a timetable are ordered.                                *)
LEMMA TimetableFacts ==
  ASSUME NEW p \in ParamSets, NEW at \in Instant
  PROVE  /\ lock_at(schedule(p, at)) \in Int /\ grace_end(schedule(p, at)) \in Int
         /\ lock_at(schedule(p, at)) < at
         /\ at < grace_end(schedule(p, at))
         /\ schedule(p, at).settle_at = at
<1>1. at \in Int
  BY ScheduleBounds DEF Instant
<1> QED
  BY <1>1, ParamFacts DEF schedule, lock_at, window_start, grace_end

-----------------------------------------------------------------------------
TypeInv == TypeOK /\ ("snapshot" \in accounts => snapshot # Unread)

(* A settlement's pools and cuts are amounts. *)
LEMMA SettleTypes ==
  ASSUME NEW stakes \in [Side -> Nat], NEW share \in Share, NEW p \in ParamSets
  PROVE  /\ settle_pools(share, stakes, p.fee_bps) \in [Side -> Nat]
         /\ settle_fee(share, stakes, p.fee_bps) \in Nat
         /\ fee_cut(settle_fee(share, stakes, p.fee_bps)) \in [Recipient -> Nat]
  BY ParamFacts, SettleSplits, FeeCut

LEMMA TypeInit == Init => TypeInv
<1> SUFFICES ASSUME Init PROVE TypeInv
  OBVIOUS
<1>1. params \in ParamSets
  BY MarketConstants DEF Init
<1>2. settle_at \in Instant
  BY ScheduleBounds DEF Init, Instant
<1>3. /\ Nothing \in [Side -> Nat] /\ NoFee \in [Recipient -> Nat]
  BY DEF Nothing, NoFee
<1>4. /\ now \in Nat /\ open_at \in Nat /\ cap_per_side \in Nat /\ fee_total \in Nat
      /\ resolved_at \in Nat /\ bond \in Nat /\ vault \in Nat /\ cranked \in Nat
      /\ donated \in Nat
  BY DEF Init
<1> QED
  BY <1>1, <1>2, <1>3, <1>4
  DEF Init, TypeInv, TypeOK, Status, VoidCause

LEMMA TypeStep == TypeInv /\ [Next]_vars => TypeInv'
<1> SUFFICES ASSUME TypeInv, [Next]_vars PROVE TypeInv'
  OBVIOUS
<1> USE DEF TypeInv, TypeOK, history, settlement, lifecycle
<1>1. ASSUME NEW p \in ParamSets, NEW at \in SettleInstants, NEW thinnest \in Amount,
             CreateMarket(p, at, thinnest)
      PROVE  TypeInv'
  <2>1. at \in Instant
    BY MarketConstants
  <2>2. Nothing \in [Side -> Nat] /\ NoFee \in [Recipient -> Nat]
    BY DEF Nothing, NoFee
  <2>3. thinnest \in Nat /\ p.feed_cap_bps \in Nat /\ p.feed_cap_bps <= BPS_DENOMINATOR
    BY ParamFacts, PayoutBounds DEF Amount
  <2>4. mul_bps(thinnest, p.feed_cap_bps) \in Nat
    BY <2>3, MulBps
  <2>5. now + p.creation_cooldown \in Nat /\ 2 * p.keeper_reward \in Nat
    BY ParamFacts
  <2> QED
    BY <1>1, <2>1, <2>2, <2>4, <2>5 DEF CreateMarket, Initialised, Account, Status, VoidCause
<1>2. ASSUME NEW side \in Side, NEW amount \in 1 .. cap_per_side, Deposit(side, amount)
      PROVE  TypeInv'
  BY <1>2 DEF Deposit, deposit, Status
<1>3. ASSUME NEW reading \in Share \cup {Aborts}, Snapshot(reading)
      PROVE  TypeInv'
  <2>1. bond' \in Nat /\ cranked' \in Nat
    BY <1>3, ParamFacts DEF Snapshot, PayFromBond
  <2>2. reading # Unread
    BY MarketConstants
  <2> QED BY <1>3, <2>1, <2>2 DEF Snapshot, Account, Status
<1>4. ASSUME Resolve
      PROVE  TypeInv'
  <2>1. bond' \in Nat /\ cranked' \in Nat
    BY <1>4, ParamFacts DEF Resolve, PayFromBond
  <2>2. CASE snapshot = Aborts
    <3>1. NoFee \in [Recipient -> Nat]
      BY DEF NoFee
    <3> QED BY <1>4, <2>1, <2>2, <3>1 DEF Resolve, VoidWith, Status, VoidCause
  <2>3. CASE snapshot # Aborts
    <3>1. snapshot \in Share
      BY <1>4, <2>3 DEF Resolve
    <3>2. SettleWith(snapshot)
      BY <1>4, <2>3 DEF Resolve
    <3>3. pools' \in [Side -> Nat] /\ fee_total' \in Nat /\ fee_owed' \in [Recipient -> Nat]
      BY <3>1, <3>2, SettleTypes DEF SettleWith
    <3> QED BY <1>4, <2>1, <3>2, <3>3 DEF Resolve, SettleWith, Status
  <2> QED BY <2>2, <2>3
<1>5. ASSUME VoidMarket
      PROVE  TypeInv'
  <2>1. NoFee \in [Recipient -> Nat]
    BY DEF NoFee
  <2> QED BY <1>5, <2>1 DEF VoidMarket, VoidWith, DueCause, Status, VoidCause
<1>6. ASSUME NEW side \in Side, NEW burned \in 1 .. supply[side], Claim(side, burned)
      PROVE  TypeInv'
  <2> DEFINE owed == payout_for(burned, side, staked, pools)
  <2>1. burned \in Nat /\ supply[side] - burned \in Nat
    OBVIOUS
  <2>2. owed \in Nat
    BY <1>6, <2>1, PayoutFloor DEF Claim, Redeemable
  <2> HIDE DEF owed
  <2>3. vault - owed \in Nat
    BY <1>6, <2>2 DEF Claim, owed
  <2> QED BY <1>6, <2>1, <2>2, <2>3 DEF Claim, owed
<1>7. ASSUME NEW recipient \in Recipient, CollectFee(recipient)
      PROVE  TypeInv'
  BY <1>7 DEF CollectFee
<1>8. ASSUME SweepDust PROVE TypeInv'
  BY <1>8 DEF SweepDust
<1>9. ASSUME CloseMarket PROVE TypeInv'
  BY <1>9 DEF CloseMarket
<1>10. ASSUME Tick PROVE TypeInv'
  BY <1>10 DEF Tick
<1>11. ASSUME NEW permission \in Permission, Revoke(permission) \/ Restore(permission)
       PROVE  TypeInv'
  BY <1>11 DEF Revoke, Restore
<1>12. ASSUME NEW side \in Side, NEW amount \in 1 .. supply[side], BurnTokens(side, amount)
       PROVE  TypeInv'
  BY <1>12 DEF BurnTokens
<1>13. ASSUME Donate PROVE TypeInv'
  BY <1>13 DEF Donate
<1>14. CASE UNCHANGED vars
  BY <1>14 DEF vars
<1> QED
  BY <1>1, <1>2, <1>3, <1>4, <1>5, <1>6, <1>7, <1>8, <1>9, <1>10, <1>11, <1>12, <1>13, <1>14
  DEF Next

(* Every field keeps its type through every instruction; in particular no  *)
(* balance, supply or bond is ever taken below zero.                       *)
THEOREM TypeCorrect == Spec => []TypeOK
<1>1. TypeInv => TypeOK
  BY DEF TypeInv
<1> QED
  BY <1>1, TypeInit, TypeStep, PTL DEF Spec

-----------------------------------------------------------------------------
(* The inductive invariant.                                                *)

(* A new market's cap leaves room for both sides in a u64.                 *)
LEMMA CapFitsTwice ==
  ASSUME NEW p \in ParamSets, NEW thinnest \in Amount
  PROVE  /\ mul_bps(thinnest, p.feed_cap_bps) \in Nat
         /\ 2 * mul_bps(thinnest, p.feed_cap_bps) <= U64_MAX
<1> DEFINE bps == p.feed_cap_bps
           cap == mul_bps(thinnest, bps)
<1>1. bps \in Nat /\ 2 * bps <= BPS_DENOMINATOR /\ thinnest \in Nat /\ thinnest <= U64_MAX
  BY ParamFacts, PayoutBounds DEF Amount
<1>2. cap \in Nat /\ cap * BPS_DENOMINATOR <= thinnest * bps
  BY <1>1, PayoutBounds, DivFloor DEF mul_bps
<1>3. 2 * (thinnest * bps) <= thinnest * BPS_DENOMINATOR
  BY <1>1, PayoutBounds
<1>4. thinnest * BPS_DENOMINATOR <= U64_MAX * BPS_DENOMINATOR
  BY <1>1, PayoutBounds
<1> HIDE DEF bps, cap
<1>5. (2 * cap) * BPS_DENOMINATOR <= U64_MAX * BPS_DENOMINATOR
  BY <1>1, <1>2, <1>3, <1>4, PayoutBounds
<1>6. 2 * cap <= U64_MAX
  BY <1>2, <1>5, PayoutBounds
<1> QED BY <1>2, <1>6 DEF cap, bps

LEMMA InvInit == Init => IInv
<1> SUFFICES ASSUME Init PROVE IInv
  OBVIOUS
<1>1. TypeOK
  BY TypeInit DEF TypeInv
<1>2. ~Exists
  BY DEF Init, Exists
<1> QED
  BY <1>1, <1>2
  DEF Init, IInv, AccountsInv, CreationInv, UnsettledInv, SettledInv, ClaimsInv,
      VaultAccounted, TokensBacked, SettlementSplitsPot, PrincipalReturned, EveryCrankPaid

LEMMA InvCreate ==
  ASSUME IInv, TypeOK', NEW p \in ParamSets, NEW at \in SettleInstants, NEW thinnest \in Amount,
         CreateMarket(p, at, thinnest)
  PROVE  IInv'
<1> USE DEF history, settlement, lifecycle
<1> DEFINE cap == mul_bps(thinnest, p.feed_cap_bps)
<1>1. /\ accounts = {} /\ snapshot = Unread /\ ~swept
      /\ supply = Nothing /\ redeemed = Nothing /\ paid = Nothing
      /\ vault = 0 /\ donated = 0 /\ cranked = 0
  BY DEF CreateMarket, Fresh, Initialised, IInv, AccountsInv
<1>2. /\ accounts' = {"market", "spec", "vault", "mints"} /\ Exists' /\ status' = "Created"
      /\ ~is_settled' /\ status_reason' = "None" /\ cap_per_side' = cap
      /\ params' = p /\ settle_at' = at /\ open_at' = now + p.creation_cooldown
      /\ staked' = Nothing /\ pools' = Nothing /\ fee_total' = 0 /\ fee_owed' = NoFee
      /\ bond' = 2 * p.keeper_reward
      /\ UNCHANGED <<snapshot, supply, vault, redeemed, paid, cranked, donated, swept>>
  BY <1>1 DEF CreateMarket, Fresh, Initialised, Exists, is_settled
<1>3. CreationInv'
  <2>1. timetable' = schedule(p, at)
    BY <1>2 DEF timetable
  <2>2. validate(schedule(p, at)) /\ now + p.creation_cooldown < lock_at(schedule(p, at))
    <3>1. at \in Instant /\ now + p.creation_cooldown \in Int
      BY MarketConstants, ParamFacts DEF IInv, TypeOK
    <3>2. lock_at(schedule(p, at)) \in Int
      BY <3>1, TimetableFacts
    <3> QED BY <3>1, <3>2 DEF CreateMarket
  <2>3. cap \in Nat /\ 2 * cap <= U64_MAX
    BY CapFitsTwice
  <2>4. \A s \in Side : Nothing[s] = 0
    BY DEF Nothing
  <2> HIDE DEF cap
  <2> QED BY <1>2, <2>1, <2>2, <2>3, <2>4 DEF CreationInv
<1>4. AccountsInv'
  BY <1>1, <1>2 DEF AccountsInv, Exists
<1>5. UnsettledInv' /\ SettledInv'
  BY <1>1, <1>2 DEF UnsettledInv, SettledInv
<1>6. ClaimsInv' /\ TokensBacked'
  BY <1>1, <1>2 DEF ClaimsInv, TokensBacked, Nothing
<1>7. VaultAccounted'
  BY <1>1, <1>2 DEF VaultAccounted, FeesOwed, pot, Nothing, NoFee, Side, Recipient
<1>8. SettlementSplitsPot' /\ PrincipalReturned'
  BY <1>2 DEF SettlementSplitsPot, PrincipalReturned
<1>9. EveryCrankPaid'
  <2>1. p.keeper_reward \in Nat
    BY ParamFacts
  <2> QED BY <1>1, <1>2, <2>1 DEF EveryCrankPaid
<1> QED BY <1>3, <1>4, <1>5, <1>6, <1>7, <1>8, <1>9 DEF IInv

LEMMA InvDeposit ==
  ASSUME IInv, TypeOK', NEW side \in Side, NEW amount \in 1 .. cap_per_side,
         Deposit(side, amount)
  PROVE  IInv'
<1> USE DEF history, settlement, lifecycle
<1>1. /\ Exists /\ ~is_settled /\ status \in {"Created", "Open"}
      /\ Exists' /\ ~is_settled' /\ status' = "Open" /\ timetable' = timetable
      /\ staked' = [staked EXCEPT ![side] = @ + amount]
      /\ supply' = [supply EXCEPT ![side] = @ + amount]
      /\ vault' = vault + amount
      /\ staked[side] + amount <= cap_per_side
      /\ UNCHANGED <<now, accounts, status_reason, open_at, settle_at, params, cap_per_side,
                     pools, fee_total, resolved_at, fee_owed, bond, snapshot, redeemed, paid,
                     cranked, donated, swept>>
  BY DEF Deposit, deposit, DepositFits, Exists, is_settled, timetable
<1>2. /\ amount \in Nat /\ staked \in [Side -> Nat] /\ supply \in [Side -> Nat] /\ vault \in Nat
      /\ pools = Nothing /\ redeemed = Nothing /\ paid = Nothing
      /\ "snapshot" \notin accounts
  BY <1>1 DEF IInv, TypeOK, UnsettledInv
<1>3. AccountsInv'
  BY <1>1 DEF IInv, AccountsInv, Exists
<1>4. CreationInv'
  BY <1>1, <1>2 DEF IInv, CreationInv
<1>5. UnsettledInv' /\ SettledInv'
  BY <1>1, <1>2 DEF IInv, UnsettledInv, SettledInv
<1>6. ClaimsInv'
  BY <1>1, <1>2 DEF ClaimsInv, Nothing, Side
<1>7. VaultAccounted'
  BY <1>1, <1>2, SMTT(40) DEF IInv, VaultAccounted, FeesOwed, pot, Nothing, Side, TypeOK, Recipient
<1>8. TokensBacked'
  BY <1>1, <1>2 DEF IInv, TokensBacked, Nothing
<1>9. SettlementSplitsPot' /\ PrincipalReturned'
  BY <1>1 DEF SettlementSplitsPot, PrincipalReturned
<1>10. EveryCrankPaid'
  BY <1>1 DEF IInv, EveryCrankPaid, Exists, is_settled
<1> QED BY <1>3, <1>4, <1>5, <1>6, <1>7, <1>8, <1>9, <1>10 DEF IInv

LEMMA InvSnapshot ==
  ASSUME IInv, TypeOK', NEW reading \in Share \cup {Aborts}, Snapshot(reading)
  PROVE  IInv'
<1> USE DEF history, settlement, lifecycle
<1>1. /\ Exists /\ ~is_settled /\ status = "Open" /\ "snapshot" \notin accounts
      /\ Exists' /\ ~is_settled' /\ status' = "Snapshotted" /\ timetable' = timetable
      /\ accounts' = accounts \cup {"snapshot"} /\ snapshot' = reading
      /\ ~OneSideEmpty /\ PayFromBond /\ settle_at <= now
      /\ UNCHANGED <<now, status_reason, open_at, settle_at, params, cap_per_side, staked,
                     supply, vault, pools, fee_total, resolved_at, fee_owed, redeemed, paid,
                     donated, swept>>
  BY DEF Snapshot, Exists, is_settled, timetable, snapshot_open, schedule
<1>2. params \in ParamSets /\ settle_at \in Instant /\ now \in Nat /\ params.keeper_reward \in Nat
  BY ParamFacts DEF IInv, TypeOK
<1>3. AccountsInv'
  BY <1>1, MarketConstants DEF IInv, AccountsInv, Exists
<1>4. CreationInv'
  BY <1>1 DEF IInv, CreationInv
<1>5. now >= lock_at(timetable)
  <2>1. settle_at \in Int
    BY <1>2, ScheduleBounds DEF Instant
  <2> QED BY <1>1, <1>2, <2>1, TimetableFacts DEF timetable
<1>6. UnsettledInv' /\ SettledInv'
  BY <1>1, <1>5 DEF IInv, UnsettledInv, SettledInv, OneSideEmpty
<1>7. ClaimsInv' /\ TokensBacked' /\ VaultAccounted'
  BY <1>1 DEF IInv, ClaimsInv, TokensBacked, VaultAccounted, FeesOwed
<1>8. SettlementSplitsPot' /\ PrincipalReturned'
  BY <1>1 DEF SettlementSplitsPot, PrincipalReturned
<1>9. EveryCrankPaid'
  <2>1. cranked = 0 /\ bond = 2 * params.keeper_reward
    <3>1. /\ cranked \in Nat /\ bond \in Nat /\ status_reason = "None" /\ status # "Resolved"
          /\ cranked = 0 * params.keeper_reward /\ bond + cranked = 2 * params.keeper_reward
      BY <1>1 DEF IInv, TypeOK, EveryCrankPaid, UnsettledInv, is_settled
    <3> QED BY <1>2, <3>1
  <2>2. bond' = params.keeper_reward /\ cranked' = params.keeper_reward
    BY <1>1, <1>2, <2>1 DEF PayFromBond
  <2>3. status_reason' = "None"
    BY <1>1 DEF IInv, UnsettledInv
  <2> QED BY <1>1, <1>2, <2>2, <2>3 DEF EveryCrankPaid
<1> QED BY <1>3, <1>4, <1>6, <1>7, <1>8, <1>9 DEF IInv

(* What a settlement leaves: nothing claimed yet, and pools that with the  *)
(* fee make up the pot.                                                    *)
LEMMA InvResolve ==
  ASSUME IInv, TypeOK', Resolve
  PROVE  IInv'
<1> USE DEF history, settlement, lifecycle
<1>1. /\ Exists /\ ~is_settled /\ status = "Snapshotted" /\ "snapshot" \in accounts
      /\ Exists' /\ is_settled' /\ timetable' = timetable /\ PayFromBond /\ resolved_at' = now
      /\ UNCHANGED <<now, accounts, open_at, settle_at, params, cap_per_side, staked,
                     snapshot, supply, vault, redeemed, paid, donated, swept>>
  BY DEF Resolve, VoidWith, SettleWith, Exists, is_settled, timetable
<1>2. /\ params \in ParamSets /\ params.keeper_reward \in Nat
      /\ staked \in [Side -> Nat] /\ vault \in Nat
  BY ParamFacts DEF IInv, TypeOK
<1>3. /\ redeemed = Nothing /\ paid = Nothing /\ ~swept
      /\ fee_total = 0 /\ fee_owed = NoFee /\ status_reason = "None"
  BY <1>1 DEF IInv, UnsettledInv
<1>4. AccountsInv' /\ CreationInv'
  BY <1>1 DEF IInv, AccountsInv, CreationInv, Exists, is_settled
<1>5. UnsettledInv'
  BY <1>1 DEF UnsettledInv
<1>6. TokensBacked'
  BY <1>1 DEF IInv, TokensBacked
<1>7. vault = pot(staked) + donated
  BY <1>1, <1>2, <1>3 DEF IInv, TypeOK, VaultAccounted, FeesOwed, Nothing, NoFee, Side,
                          Recipient, pot
<1>8. cranked' = 2 * params.keeper_reward /\ bond' = 0
  <2>1. cranked = params.keeper_reward /\ bond = params.keeper_reward
    BY <1>1, <1>2, <1>3 DEF IInv, TypeOK, EveryCrankPaid
  <2> QED BY <1>1, <1>2, <2>1 DEF PayFromBond
<1>9. CASE snapshot = Aborts
  <2>1. /\ status' = "Void" /\ status_reason' = "PredicateAborted" /\ pools' = staked
        /\ fee_total' = 0 /\ fee_owed' = NoFee
    BY <1>9 DEF Resolve, VoidWith
  <2>2. SettledInv'
    BY <1>1, <1>3, <2>1 DEF SettledInv
  <2>3. ClaimsInv'
    BY <1>1, <1>2, <1>3, <2>1 DEF ClaimsInv, Nothing
  <2>4. VaultAccounted' /\ SettlementSplitsPot'
    BY <1>1, <1>2, <1>3, <1>7, <2>1
    DEF IInv, TypeOK, VaultAccounted, SettlementSplitsPot, FeesOwed, Nothing, NoFee, Side,
        Recipient, pot
  <2>5. PrincipalReturned'
    BY <1>1, <1>2, <1>3, <2>1 DEF PrincipalReturned, Nothing, Side
  <2>6. EveryCrankPaid'
    BY <1>1, <1>2, <1>8, <2>1 DEF EveryCrankPaid
  <2> QED BY <1>4, <1>5, <1>6, <2>2, <2>3, <2>4, <2>5, <2>6 DEF IInv
<1>10. CASE snapshot # Aborts
  <2> DEFINE total == settle_fee(snapshot, staked, params.fee_bps)
             divided == settle_pools(snapshot, staked, params.fee_bps)
             cuts == fee_cut(total)
  <2>1. snapshot \in Share
    BY <1>1, <1>10 DEF IInv, TypeOK, AccountsInv
  <2>2. /\ status' = "Resolved" /\ status_reason' = "None" /\ pools' = divided
        /\ fee_total' = total /\ fee_owed' = cuts
    BY <1>3, <1>10 DEF Resolve, SettleWith
  <2>3. /\ divided \in [Side -> Nat] /\ total \in Nat
        /\ divided["yes"] + divided["no"] + total = pot(staked)
        /\ divided["yes"] >= staked["yes"] \/ divided["no"] >= staked["no"]
    <3>1. params.fee_bps \in Nat /\ params.fee_bps <= BPS_DENOMINATOR
      BY <1>2, ParamFacts
    <3>2. gross_yes(snapshot, staked) \in Nat /\ staked["yes"] \in Nat /\ staked["no"] \in Nat
      BY <1>2, <2>1, GrossYes DEF Side
    <3> QED BY <1>2, <2>1, <3>1, <3>2, SettleSplits
  <2>4. /\ cuts \in [Recipient -> Nat]
        /\ cuts["treasury"] + cuts["creator"] + cuts["keeper"] = total
    BY <2>3, FeeCut
  <2> HIDE DEF total, divided, cuts
  <2>5. SettledInv'
    BY <1>1, <1>3, <2>2 DEF SettledInv
  <2>6. ClaimsInv'
    BY <1>1, <1>2, <1>3, <2>2, <2>3 DEF ClaimsInv, Nothing
  <2>7. VaultAccounted' /\ SettlementSplitsPot'
    BY <1>1, <1>2, <1>3, <1>7, <2>2, <2>3, <2>4
    DEF IInv, TypeOK, VaultAccounted, SettlementSplitsPot, FeesOwed, Nothing, Side, Recipient, pot
  <2>8. PrincipalReturned'
    BY <1>1, <1>2, <1>3, <2>2, <2>3 DEF PrincipalReturned, Nothing, Side
  <2>9. EveryCrankPaid'
    BY <1>1, <1>2, <1>8, <2>2 DEF EveryCrankPaid
  <2> QED BY <1>4, <1>5, <1>6, <2>5, <2>6, <2>7, <2>8, <2>9 DEF IInv
<1> QED BY <1>9, <1>10

LEMMA InvVoid ==
  ASSUME IInv, TypeOK', VoidMarket
  PROVE  IInv'
<1> USE DEF history, settlement, lifecycle
<1>1. /\ Exists /\ ~is_settled /\ status \in {"Created", "Open"} /\ DueCause \in {"EmptySide", "SnapshotMissed"}
      /\ Exists' /\ is_settled' /\ status' = "Void" /\ status_reason' = DueCause
      /\ timetable' = timetable /\ pools' = staked /\ fee_total' = 0 /\ fee_owed' = NoFee
      /\ resolved_at' = now
      /\ UNCHANGED <<now, accounts, open_at, settle_at, params, cap_per_side, staked, bond,
                     snapshot, supply, vault, redeemed, paid, cranked, donated, swept>>
  BY DEF VoidMarket, VoidWith, DueCause, EmptySideDue, SnapshotMissedDue, Exists, is_settled,
         timetable
<1>2. /\ staked \in [Side -> Nat] /\ vault \in Nat /\ params.keeper_reward \in Nat
      /\ redeemed = Nothing /\ paid = Nothing /\ ~swept /\ "snapshot" \notin accounts
      /\ fee_total = 0 /\ fee_owed = NoFee /\ status_reason = "None"
  BY <1>1, ParamFacts DEF IInv, UnsettledInv, TypeOK
<1>3. AccountsInv' /\ CreationInv' /\ UnsettledInv' /\ SettledInv'
  BY <1>1, <1>2 DEF IInv, AccountsInv, CreationInv, UnsettledInv, SettledInv, Exists
<1>4. ClaimsInv' /\ TokensBacked'
  BY <1>1, <1>2 DEF IInv, ClaimsInv, TokensBacked, Nothing
<1>5. VaultAccounted' /\ SettlementSplitsPot'
  BY <1>1, <1>2 DEF IInv, TypeOK, VaultAccounted, SettlementSplitsPot, FeesOwed, Nothing, NoFee,
                    Side, Recipient, pot
<1>6. PrincipalReturned'
  BY <1>1, <1>2 DEF PrincipalReturned, Nothing, Side
<1>7. EveryCrankPaid'
  BY <1>1, <1>2 DEF IInv, EveryCrankPaid, is_settled
<1> QED BY <1>3, <1>4, <1>5, <1>6, <1>7 DEF IInv

(* A claim takes from its pool no more than the proportion it burns.       *)
LEMMA InvClaim ==
  ASSUME IInv, TypeOK', NEW side \in Side, NEW burned \in 1 .. supply[side], Claim(side, burned)
  PROVE  IInv'
<1> USE DEF history, settlement, lifecycle
<1> DEFINE owed == payout_for(burned, side, staked, pools)
<1>1. /\ Exists /\ is_settled /\ now <= claim_end /\ Exists' /\ is_settled'
      /\ timetable' = timetable /\ claim_end' = claim_end /\ staked[side] # 0
      /\ supply' = [supply EXCEPT ![side] = @ - burned]
      /\ vault' = vault - owed
      /\ redeemed' = [redeemed EXCEPT ![side] = @ + burned]
      /\ paid' = [paid EXCEPT ![side] = @ + owed]
      /\ UNCHANGED <<now, registry, accounts, status, status_reason, open_at, settle_at, params,
                     cap_per_side, pools, fee_total, resolved_at, staked, fee_owed, bond,
                     snapshot, cranked, donated, swept>>
  BY DEF Claim, Redeemable, Exists, is_settled, timetable, claim_end
<1>2. /\ staked \in [Side -> Nat] /\ pools \in [Side -> Nat] /\ supply \in [Side -> Nat]
      /\ redeemed \in [Side -> Nat] /\ paid \in [Side -> Nat] /\ vault \in Nat
      /\ burned \in Nat /\ burned > 0 /\ ~swept
  <2>1. now \in Nat /\ resolved_at + params.claim_window \in Nat
    BY ParamFacts DEF IInv, TypeOK
  <2>2. ~swept
    BY <1>1, <2>1 DEF IInv, SettledInv, claim_end
  <2>3. supply[side] \in Nat
    BY DEF IInv, TypeOK
  <2> QED BY <2>2, <2>3 DEF IInv, TypeOK
<1>3. /\ owed \in Nat /\ owed * staked[side] <= burned * pools[side]
      /\ pools[side] >= staked[side] => owed >= burned
  BY <1>1, <1>2, PayoutFloor
<1>4. pools = staked => owed = burned
  <2>1. ASSUME pools = staked PROVE (burned * pools[side]) \div staked[side] = burned
    BY <1>1, <1>2, <2>1, DivExact
  <2> QED BY <2>1 DEF payout_for
<1> HIDE DEF owed
<1>5. AccountsInv' /\ CreationInv' /\ UnsettledInv' /\ SettledInv'
  BY <1>1 DEF IInv, AccountsInv, CreationInv, UnsettledInv, SettledInv, Exists, is_settled
<1>6. ClaimsInv'
  <2>1. /\ paid[side] * staked[side] <= redeemed[side] * pools[side]
        /\ redeemed[side] \in Nat /\ paid[side] \in Nat
        /\ staked[side] \in Nat /\ pools[side] \in Nat
    BY <1>1, <1>2 DEF IInv, ClaimsInv
  <2>2. (paid[side] + owed) * staked[side] <= (redeemed[side] + burned) * pools[side]
    BY <1>2, <1>3, <2>1
  <2>3. redeemed[side] + burned # 0
    BY <1>2, <2>1
  <2>4. ASSUME NEW s \in Side
        PROVE  /\ paid'[s] * staked'[s] <= redeemed'[s] * pools'[s]
               /\ redeemed'[s] = 0 => paid'[s] = 0
    <3>1. CASE s = side
      BY <1>1, <1>2, <2>2, <2>3, <3>1
    <3>2. CASE s # side
      BY <1>1, <1>2, <3>2 DEF IInv, ClaimsInv
    <3> QED BY <3>1, <3>2
  <2> QED BY <2>4 DEF ClaimsInv
<1>7. TokensBacked'
  BY <1>1, <1>2 DEF IInv, TokensBacked
<1>8. VaultAccounted'
  BY <1>1, <1>2, <1>3 DEF IInv, TypeOK, VaultAccounted, FeesOwed, Side, Recipient, pot
<1>9. SettlementSplitsPot'
  BY <1>1 DEF IInv, SettlementSplitsPot, FeesOwed
<1>10. PrincipalReturned'
  <2>1. \A s \in Side : pools[s] >= staked[s] => paid'[s] >= redeemed'[s]
    BY <1>1, <1>2, <1>3 DEF IInv, PrincipalReturned
  <2>2. status = "Void" => paid' = redeemed'
    BY <1>1, <1>2, <1>4 DEF IInv, PrincipalReturned, SettledInv
  <2> QED BY <1>1, <2>1, <2>2 DEF IInv, PrincipalReturned
<1>11. EveryCrankPaid'
  BY <1>1 DEF IInv, EveryCrankPaid
<1> QED BY <1>5, <1>6, <1>7, <1>8, <1>9, <1>10, <1>11 DEF IInv

LEMMA InvCollect ==
  ASSUME IInv, TypeOK', NEW recipient \in Recipient, CollectFee(recipient)
  PROVE  IInv'
<1> USE DEF history, settlement, lifecycle
<1>1. /\ Exists /\ is_settled /\ Exists' /\ is_settled'
      /\ timetable' = timetable /\ claim_end' = claim_end
      /\ vault' = vault - fee_owed[recipient]
      /\ fee_owed' = [fee_owed EXCEPT ![recipient] = 0]
      /\ UNCHANGED <<now, registry, accounts, status, status_reason, open_at, settle_at, params,
                     cap_per_side, pools, fee_total, resolved_at, staked, bond, snapshot,
                     supply, redeemed, paid, cranked, donated, swept>>
  BY DEF CollectFee, Exists, is_settled, timetable, claim_end
<1>2. /\ fee_owed \in [Recipient -> Nat] /\ vault \in Nat /\ fee_total \in Nat
      /\ FeesOwed' = FeesOwed - fee_owed[recipient]
      /\ FeesOwed \in Nat /\ FeesOwed' \in Nat
  <2>1. fee_owed \in [Recipient -> Nat] /\ vault \in Nat /\ fee_total \in Nat
    BY DEF IInv, TypeOK
  <2> QED BY <1>1, <2>1 DEF FeesOwed, Recipient
<1>3. AccountsInv' /\ CreationInv' /\ UnsettledInv' /\ SettledInv'
  BY <1>1 DEF IInv, AccountsInv, CreationInv, UnsettledInv, SettledInv, Exists, is_settled
<1>4. ClaimsInv' /\ TokensBacked' /\ PrincipalReturned' /\ EveryCrankPaid'
  BY <1>1 DEF IInv, ClaimsInv, TokensBacked, PrincipalReturned, EveryCrankPaid
<1>5. VaultAccounted'
  <2>1. paid["yes"] \in Nat /\ paid["no"] \in Nat /\ pot(staked) \in Nat /\ donated \in Nat
    BY DEF IInv, TypeOK, Side, pot
  <2>2. pot(staked)' = pot(staked)
    BY <1>1 DEF pot
  <2>3. fee_owed[recipient] \in Nat
    BY <1>2
  <2> HIDE DEF FeesOwed
  <2> QED BY <1>1, <1>2, <2>1, <2>2, <2>3 DEF IInv, VaultAccounted
<1>6. SettlementSplitsPot'
  <2>1. pot(staked)' = pot(staked) /\ fee_owed[recipient] \in Nat
    BY <1>1, <1>2 DEF pot
  <2> HIDE DEF FeesOwed
  <2> QED BY <1>1, <1>2, <2>1 DEF IInv, SettlementSplitsPot
<1> QED BY <1>3, <1>4, <1>5, <1>6 DEF IInv

LEMMA InvSweep ==
  ASSUME IInv, TypeOK', SweepDust
  PROVE  IInv'
<1> USE DEF history, settlement, lifecycle
<1>1. /\ Exists /\ is_settled /\ Exists' /\ is_settled' /\ now > claim_end
      /\ timetable' = timetable /\ claim_end' = claim_end /\ swept'
      /\ UNCHANGED <<now, registry, accounts, status, status_reason, open_at, settle_at, params,
                     cap_per_side, pools, fee_total, resolved_at, staked, fee_owed, bond,
                     snapshot, supply, redeemed, paid, cranked, donated>>
  BY DEF SweepDust, Exists, is_settled, timetable, claim_end
<1>2. AccountsInv' /\ CreationInv' /\ UnsettledInv' /\ SettledInv'
  BY <1>1 DEF IInv, AccountsInv, CreationInv, UnsettledInv, SettledInv, Exists, is_settled
<1>3. ClaimsInv' /\ TokensBacked' /\ PrincipalReturned' /\ EveryCrankPaid'
  BY <1>1 DEF IInv, ClaimsInv, TokensBacked, PrincipalReturned, EveryCrankPaid
<1>4. VaultAccounted' /\ SettlementSplitsPot'
  BY <1>1 DEF IInv, VaultAccounted, SettlementSplitsPot, FeesOwed
<1> QED BY <1>2, <1>3, <1>4 DEF IInv

LEMMA InvClose ==
  ASSUME IInv, TypeOK', CloseMarket
  PROVE  IInv'
<1> USE DEF history, settlement, lifecycle
<1>1. /\ Exists /\ ~Exists' /\ accounts' = accounts \ {"market", "spec", "vault"}
      /\ "mints" \in accounts' /\ snapshot' = snapshot
      /\ "snapshot" \in accounts' <=> "snapshot" \in accounts
  BY DEF CloseMarket, Exists, IInv, AccountsInv
<1>2. AccountsInv'
  BY <1>1 DEF IInv, AccountsInv, Exists
<1> QED
  BY <1>1, <1>2
  DEF IInv, CreationInv, UnsettledInv, SettledInv, ClaimsInv, VaultAccounted, TokensBacked,
      SettlementSplitsPot, PrincipalReturned, EveryCrankPaid

LEMMA InvTick ==
  ASSUME IInv, TypeOK', Tick
  PROVE  IInv'
<1> USE DEF history, settlement, lifecycle
<1>1. /\ now' = now + 1 /\ Exists' = Exists /\ is_settled' = is_settled
      /\ timetable' = timetable /\ claim_end' = claim_end /\ OneSideEmpty' = OneSideEmpty
      /\ FeesOwed' = FeesOwed
      /\ UNCHANGED <<registry, accounts, status, status_reason, open_at, settle_at, params,
                     cap_per_side, pools, fee_total, resolved_at, staked, fee_owed, bond,
                     snapshot, supply, vault, redeemed, paid, cranked, donated, swept>>
  BY DEF Tick, Exists, is_settled, timetable, claim_end, OneSideEmpty, FeesOwed
<1>2. /\ now \in Nat /\ claim_end \in Nat /\ lock_at(timetable) \in Int
      /\ lock_at(timetable)' = lock_at(timetable)
  BY <1>1, ParamFacts, TimetableFacts DEF IInv, TypeOK, claim_end, timetable
<1>3. AccountsInv' /\ CreationInv'
  BY <1>1, <1>2 DEF IInv, AccountsInv, CreationInv
<1>4. UnsettledInv'
  BY <1>1, <1>2 DEF IInv, UnsettledInv
<1>5. SettledInv'
  BY <1>1, <1>2 DEF IInv, SettledInv
<1>6. ClaimsInv' /\ TokensBacked' /\ PrincipalReturned' /\ EveryCrankPaid'
  BY <1>1 DEF IInv, ClaimsInv, TokensBacked, PrincipalReturned, EveryCrankPaid
<1>7. VaultAccounted' /\ SettlementSplitsPot'
  BY <1>1 DEF IInv, VaultAccounted, SettlementSplitsPot
<1> QED BY <1>3, <1>4, <1>5, <1>6, <1>7 DEF IInv

(* What reads neither the supplies, the vault nor the donations.           *)
LEMMA Untouched ==
  ASSUME IInv,
         UNCHANGED <<now, accounts, lifecycle, settlement, staked, fee_owed, bond, snapshot,
                     redeemed, paid, cranked, swept>>
  PROVE  /\ CreationInv' /\ UnsettledInv' /\ SettledInv' /\ ClaimsInv'
         /\ SettlementSplitsPot' /\ PrincipalReturned' /\ EveryCrankPaid'
         /\ Exists' = Exists /\ FeesOwed' = FeesOwed
<1> USE DEF history, settlement, lifecycle
<1>1. /\ Exists' = Exists /\ is_settled' = is_settled /\ timetable' = timetable
      /\ claim_end' = claim_end /\ OneSideEmpty' = OneSideEmpty /\ FeesOwed' = FeesOwed
  BY DEF Exists, is_settled, timetable, claim_end, OneSideEmpty, FeesOwed
<1>2. CreationInv' /\ UnsettledInv' /\ SettledInv' /\ ClaimsInv'
  BY <1>1 DEF IInv, CreationInv, UnsettledInv, SettledInv, ClaimsInv
<1>3. SettlementSplitsPot' /\ PrincipalReturned' /\ EveryCrankPaid'
  BY <1>1 DEF IInv, SettlementSplitsPot, PrincipalReturned, EveryCrankPaid
<1> QED BY <1>1, <1>2, <1>3

LEMMA InvRegistry ==
  ASSUME IInv, TypeOK', NEW permission \in Permission, Revoke(permission) \/ Restore(permission)
  PROVE  IInv'
<1> USE DEF history, settlement, lifecycle
<1>1. UNCHANGED <<now, accounts, lifecycle, settlement, staked, fee_owed, bond, snapshot,
                  supply, vault, redeemed, paid, cranked, donated, swept>>
  BY DEF Revoke, Restore
<1>2. AccountsInv' /\ VaultAccounted' /\ TokensBacked'
  BY <1>1, Untouched DEF IInv, AccountsInv, VaultAccounted, TokensBacked
<1> QED BY <1>1, <1>2, Untouched DEF IInv

LEMMA InvBurn ==
  ASSUME IInv, TypeOK', NEW side \in Side, NEW amount \in 1 .. supply[side],
         BurnTokens(side, amount)
  PROVE  IInv'
<1> USE DEF history, settlement, lifecycle
<1>1. /\ supply' = [supply EXCEPT ![side] = @ - amount]
      /\ UNCHANGED <<now, accounts, lifecycle, settlement, staked, fee_owed, bond, snapshot,
                     vault, redeemed, paid, cranked, donated, swept>>
  BY DEF BurnTokens
<1>2. /\ supply \in [Side -> Nat] /\ supply[side] \in Nat /\ amount \in Nat
      /\ staked \in [Side -> Nat] /\ redeemed \in [Side -> Nat]
      /\ supply[side] # 0
  BY DEF IInv, TypeOK
<1>3. AccountsInv'
  BY <1>1, <1>2, Untouched DEF IInv, AccountsInv, Nothing
<1>4. TokensBacked'
  <2>1. redeemed' = redeemed /\ staked' = staked /\ Exists' = Exists
    BY <1>1, Untouched
  <2>2. \A s \in Side : supply'[s] \in Nat /\ supply'[s] <= supply[s]
    BY <1>1, <1>2
  <2>3. ASSUME Exists, NEW s \in Side
        PROVE  supply'[s] + redeemed[s] <= staked[s]
    BY <1>2, <2>2, <2>3 DEF IInv, TokensBacked
  <2> QED BY <2>1, <2>3 DEF TokensBacked
<1>5. VaultAccounted'
  BY <1>1, Untouched DEF IInv, VaultAccounted
<1> QED BY <1>1, <1>3, <1>4, <1>5, Untouched DEF IInv

LEMMA InvDonate ==
  ASSUME IInv, TypeOK', Donate
  PROVE  IInv'
<1> USE DEF history, settlement, lifecycle
<1>1. /\ "vault" \in accounts /\ vault' = vault + 1 /\ donated' = donated + 1
      /\ UNCHANGED <<now, accounts, lifecycle, settlement, staked, fee_owed, bond, snapshot,
                     supply, redeemed, paid, cranked, swept>>
  BY DEF Donate
<1>2. Exists /\ "mints" \in accounts
  BY <1>1 DEF IInv, AccountsInv
<1>3. AccountsInv'
  BY <1>1, <1>2, Untouched DEF IInv, AccountsInv
<1>4. TokensBacked'
  BY <1>1, Untouched DEF IInv, TokensBacked
<1>5. VaultAccounted'
  <2>1. /\ vault \in Nat /\ donated \in Nat /\ paid["yes"] \in Nat /\ paid["no"] \in Nat
        /\ pot(staked) \in Nat /\ fee_total \in Nat /\ FeesOwed \in Nat
    BY DEF IInv, TypeOK, Side, pot, FeesOwed, Recipient
  <2>2. /\ pot(staked)' = pot(staked) /\ Exists' = Exists /\ FeesOwed' = FeesOwed
        /\ swept' = swept /\ fee_total' = fee_total /\ paid' = paid
        /\ vault' = vault + 1 /\ donated' = donated + 1
    BY <1>1, Untouched DEF pot
  <2> HIDE DEF history, settlement, lifecycle
  <2>3. CASE swept
    BY <2>2, <2>3 DEF VaultAccounted
  <2>4. CASE ~swept
    <3>1. vault + paid["yes"] + paid["no"] + (fee_total - FeesOwed) = pot(staked) + donated
      BY <1>2, <2>4 DEF IInv, VaultAccounted
    <3>2. (vault + 1) + paid["yes"] + paid["no"] + (fee_total - FeesOwed)
            = pot(staked) + (donated + 1)
      BY <2>1, <3>1
    <3> QED BY <2>2, <3>2 DEF VaultAccounted
  <2> QED BY <2>3, <2>4
<1> QED BY <1>1, <1>3, <1>4, <1>5, Untouched DEF IInv

LEMMA InvStep == IInv /\ [Next]_vars => IInv'
<1> SUFFICES ASSUME IInv, [Next]_vars PROVE IInv'
  OBVIOUS
<1>1. TypeOK'
  BY TypeStep DEF TypeInv, IInv, AccountsInv
<1>2. CASE UNCHANGED vars
  <2>1. UNCHANGED <<now, accounts, lifecycle, settlement, staked, fee_owed, bond, snapshot,
                    supply, vault, redeemed, paid, cranked, donated, swept>>
    BY <1>2 DEF vars, history
  <2>2. Exists' = Exists /\ FeesOwed' = FeesOwed
    BY <2>1, Untouched
  <2>3. AccountsInv' /\ VaultAccounted' /\ TokensBacked'
    BY <2>1, <2>2
    DEF IInv, AccountsInv, VaultAccounted, TokensBacked, lifecycle, settlement
  <2> QED BY <1>1, <2>1, <2>3, Untouched DEF IInv
<1> QED
  BY <1>1, <1>2, InvCreate, InvDeposit, InvSnapshot, InvResolve, InvVoid, InvClaim, InvCollect,
     InvSweep, InvClose, InvTick, InvRegistry, InvBurn, InvDonate
  DEF Next

(* The inductive invariant holds in every state of every execution.        *)
THEOREM Invariant == Spec => []IInv
BY InvInit, InvStep, PTL DEF Spec

-----------------------------------------------------------------------------
(* What the invariant says of the money.                                   *)

(* Whatever a side was paid, its pool still covers all its supply.         *)
LEMMA PoolCovers ==
  ASSUME IInv, Exists, NEW s \in Side
  PROVE  Redeems(s) \in Nat /\ Redeems(s) + paid[s] <= pools[s]
<1>1. /\ staked[s] \in Nat /\ pools[s] \in Nat /\ supply[s] \in Nat /\ redeemed[s] \in Nat
      /\ paid[s] \in Nat
      /\ staked \in [Side -> Nat] /\ pools \in [Side -> Nat]
  BY DEF IInv, TypeOK
<1>2. /\ supply[s] + redeemed[s] <= staked[s]
      /\ paid[s] * staked[s] <= redeemed[s] * pools[s]
      /\ redeemed[s] = 0 => paid[s] = 0
  BY DEF IInv, TokensBacked, ClaimsInv
<1>3. CASE staked[s] = 0
  BY <1>1, <1>2, <1>3 DEF Redeems
<1>4. CASE staked[s] # 0
  <2>1. /\ Redeems(s) \in Nat
        /\ Redeems(s) * staked[s] <= supply[s] * pools[s]
    <3>1. CASE supply[s] = 0
      BY <1>1, <3>1 DEF Redeems
    <3>2. CASE supply[s] # 0
      <4>1. /\ payout_for(supply[s], s, staked, pools) \in Nat
            /\ payout_for(supply[s], s, staked, pools) * staked[s] <= supply[s] * pools[s]
        BY <1>1, <1>4, PayoutFloor
      <4> QED BY <3>2, <4>1 DEF Redeems
    <3> QED BY <3>1, <3>2
  <2>2. (Redeems(s) + paid[s]) * staked[s] <= (supply[s] + redeemed[s]) * pools[s]
    BY <1>1, <1>2, <2>1
  <2>3. (supply[s] + redeemed[s]) * pools[s] <= staked[s] * pools[s]
    BY <1>1, <1>2
  <2>4. (Redeems(s) + paid[s]) * staked[s] <= pools[s] * staked[s]
    BY <1>1, <2>1, <2>2, <2>3
  <2> QED BY <1>1, <1>4, <2>1, <2>4
<1> QED BY <1>3, <1>4

LEMMA InvSolvency == IInv => Solvency
<1> SUFFICES ASSUME IInv, Exists, is_settled, now <= claim_end
             PROVE  Redeems("yes") + Redeems("no") + FeesOwed <= vault
  BY DEF Solvency
<1>1. /\ paid["yes"] \in Nat /\ paid["no"] \in Nat /\ pools["yes"] \in Nat
      /\ pools["no"] \in Nat /\ donated \in Nat /\ vault \in Nat /\ fee_total \in Nat
      /\ FeesOwed \in Nat /\ pot(staked) \in Nat
  BY DEF IInv, TypeOK, Side, Recipient, FeesOwed, pot
<1>2. ~swept
  <2>1. now \in Nat /\ claim_end \in Nat
    BY ParamFacts DEF IInv, TypeOK, claim_end
  <2> QED BY <2>1 DEF IInv, SettledInv
<1>3. vault + paid["yes"] + paid["no"] + (fee_total - FeesOwed) = pot(staked) + donated
  BY <1>2 DEF IInv, VaultAccounted
<1>4. pools["yes"] + pools["no"] + fee_total = pot(staked)
  BY DEF IInv, SettlementSplitsPot
<1>5. /\ Redeems("yes") \in Nat /\ Redeems("yes") + paid["yes"] <= pools["yes"]
      /\ Redeems("no") \in Nat /\ Redeems("no") + paid["no"] <= pools["no"]
  BY PoolCovers DEF Side
<1> QED BY <1>1, <1>3, <1>4, <1>5

(* In every market, of any parameters and any history of claims, burns,    *)
(* donations and late cranks, the vault covers every outstanding outcome   *)
(* token and every uncollected fee until the claim window ends.            *)
THEOREM Solvent == Spec => []Solvency
BY Invariant, InvSolvency, PTL

(* Every unit of collateral is in the vault, claimed or collected.         *)
THEOREM Accounted == Spec => []VaultAccounted
<1>1. IInv => VaultAccounted
  BY DEF IInv
<1> QED BY <1>1, Invariant, PTL

(* Outcome tokens never outnumber the stake recorded for their side.       *)
THEOREM Backed == Spec => []TokensBacked
<1>1. IInv => TokensBacked
  BY DEF IInv
<1> QED BY <1>1, Invariant, PTL

(* Pools and fee are the pot, for every share and every stake.             *)
THEOREM SplitsPot == Spec => []SettlementSplitsPot
<1>1. IInv => SettlementSplitsPot
  BY DEF IInv
<1> QED BY <1>1, Invariant, PTL

LEMMA InvNoOverpayment == IInv => NoOverpayment
<1> SUFFICES ASSUME IInv, Exists, NEW s \in Side, redeemed[s] > 0
             PROVE  paid[s] <= payout_for(redeemed[s], s, staked, pools)
  BY DEF NoOverpayment
<1>1. /\ staked[s] \in Nat /\ pools[s] \in Nat /\ supply[s] \in Nat
      /\ redeemed[s] \in Nat /\ paid[s] \in Nat
  BY DEF IInv, TypeOK
<1>2. /\ staked[s] # 0
      /\ paid[s] * staked[s] <= redeemed[s] * pools[s]
  BY <1>1 DEF IInv, TokensBacked, ClaimsInv
<1>3. paid[s] <= (redeemed[s] * pools[s]) \div staked[s]
  <2>1. redeemed[s] * pools[s] \in Nat /\ staked[s] \in Nat \ {0}
    BY <1>1, <1>2
  <2> QED BY <1>1, <1>2, <2>1, DivAtLeast
<1> QED BY <1>3 DEF payout_for

(* No sequence of claims rounds its way past one claim of the same tokens. *)
THEOREM NeverOverpaid == Spec => []NoOverpayment
BY InvNoOverpayment, Invariant, PTL

(* A side that did not lose gets its stake back, whoever claims when.      *)
THEOREM StakesReturned == Spec => []PrincipalReturned
<1>1. IInv => PrincipalReturned
  BY DEF IInv
<1> QED BY <1>1, Invariant, PTL

(* The bond pays each crank once and in full.                              *)
THEOREM CranksPaid == Spec => []EveryCrankPaid
<1>1. IInv => EveryCrankPaid
  BY DEF IInv
<1> QED BY <1>1, Invariant, PTL

LEMMA InvNobodyLockedIn == IInv => NobodyLockedIn
<1> SUFFICES ASSUME IInv, Exists, ~is_settled
             PROVE  IF status = "Snapshotted"
                      THEN /\ {"spec", "snapshot"} \subseteq accounts
                           /\ snapshot = Aborts \/ (snapshot \in Share /\ PotFits(staked))
                      ELSE now > grace_end(timetable) => DueCause # "None"
  BY DEF NobodyLockedIn
<1>1. CASE status = "Snapshotted"
  <2>1. {"spec", "snapshot"} \subseteq accounts /\ snapshot # Unread
    BY <1>1 DEF IInv, AccountsInv, UnsettledInv
  <2>2. snapshot = Aborts \/ snapshot \in Share
    BY <2>1 DEF IInv, TypeOK
  <2>3. PotFits(staked)
    <3>1. /\ staked["yes"] \in Nat /\ staked["no"] \in Nat /\ cap_per_side \in Nat
          /\ staked["yes"] <= cap_per_side /\ staked["no"] <= cap_per_side
          /\ 2 * cap_per_side <= U64_MAX
      BY DEF IInv, TypeOK, CreationInv, Side
    <3> QED BY <3>1, PayoutBounds DEF PotFits, pot
  <2> QED BY <1>1, <2>1, <2>2, <2>3
<1>2. CASE status # "Snapshotted"
  <2> SUFFICES ASSUME now > grace_end(timetable) PROVE DueCause # "None"
    BY <1>2
  <2>1. status \in {"Created", "Open"}
    BY <1>2 DEF IInv, TypeOK, Status, is_settled
  <2>2. /\ now \in Nat /\ lock_at(timetable) \in Int /\ grace_end(timetable) \in Int
        /\ lock_at(timetable) < settle_at /\ settle_at < grace_end(timetable)
        /\ settle_at \in Int
    BY TimetableFacts, ScheduleBounds DEF IInv, TypeOK, timetable, Instant
  <2>3. CASE status = "Created"
    <3>1. OneSideEmpty
      BY <2>3 DEF IInv, UnsettledInv, OneSideEmpty, Nothing, Side
    <3>2. now >= lock_at(timetable)
      BY <2>2
    <3> QED BY <2>1, <3>1, <3>2 DEF DueCause, EmptySideDue
  <2>4. CASE status = "Open"
    BY <2>2, <2>4 DEF DueCause, SnapshotMissedDue, snapshot_missed
  <2> QED BY <2>1, <2>3, <2>4
<1> QED BY <1>1, <1>2

(* No stake is locked in: an unsettled market is voidable once its grace    *)
(* period is over, or it is snapshotted and its resolution cannot fail.     *)
THEOREM NobodyStuck == Spec => []NobodyLockedIn
BY InvNobodyLockedIn, Invariant, PTL

-----------------------------------------------------------------------------
(* What no step does.                                                      *)

LEMMA FinalStep ==
  [Next]_vars =>
    [Exists /\ is_settled /\ Exists' => UNCHANGED <<lifecycle, settlement, staked>>]_vars
<1> SUFFICES ASSUME [Next]_vars, Exists, is_settled, Exists'
             PROVE  UNCHANGED <<lifecycle, settlement, staked>>
  OBVIOUS
<1> USE DEF Exists, is_settled
<1>1. ASSUME NEW p \in ParamSets, NEW at \in SettleInstants, NEW thinnest \in Amount,
             CreateMarket(p, at, thinnest)
      PROVE  FALSE
  BY <1>1 DEF CreateMarket, Fresh, Initialised
<1>2. ASSUME NEW side \in Side, NEW amount \in 1 .. cap_per_side, Deposit(side, amount)
      PROVE  FALSE
  BY <1>2 DEF Deposit
<1>3. ASSUME NEW reading \in Share \cup {Aborts}, Snapshot(reading) PROVE FALSE
  BY <1>3 DEF Snapshot
<1>4. ASSUME Resolve PROVE FALSE
  BY <1>4 DEF Resolve
<1>5. ASSUME VoidMarket PROVE FALSE
  BY <1>5 DEF VoidMarket, DueCause, EmptySideDue, SnapshotMissedDue
<1>6. CASE UNCHANGED vars
  BY <1>6 DEF vars
<1> QED
  BY <1>1, <1>2, <1>3, <1>4, <1>5, <1>6
  DEF Next, Claim, CollectFee, SweepDust, CloseMarket, Tick, Revoke, Restore, BurnTokens,
      Donate

(* A settlement stands as it was recorded while its market exists.         *)
THEOREM SettledForGood == Spec => SettlementFinal
BY FinalStep, PTL DEF Spec, SettlementFinal

LEMMA CloseStep ==
  IInv /\ [Next]_vars =>
    [Exists /\ ~Exists' /\ now <= claim_end =>
       /\ fee_owed = NoFee
       /\ \A s \in Side : Redeems(s) = 0]_vars
<1> SUFFICES ASSUME IInv, [Next]_vars, Exists, ~Exists', now <= claim_end
             PROVE  fee_owed = NoFee /\ \A s \in Side : Redeems(s) = 0
  OBVIOUS
<1>1. CloseMarket
  <2>1. CASE UNCHANGED vars
    BY <2>1 DEF vars, Exists
  <2> QED
    BY <2>1
    DEF Next, CreateMarket, Initialised, Deposit, Snapshot, Resolve, VoidMarket, Claim,
        CollectFee, SweepDust, Tick, Revoke, Restore, BurnTokens, Donate, Exists
<1>2. Redeems("yes") + Redeems("no") + FeesOwed <= 0
  BY <1>1, InvSolvency DEF CloseMarket, Solvency
<1>3. Redeems("yes") \in Nat /\ Redeems("no") \in Nat
  BY PoolCovers DEF Side
<1>4. fee_owed \in [Recipient -> Nat]
  BY DEF IInv, TypeOK
<1>5. /\ fee_owed["treasury"] = 0 /\ fee_owed["creator"] = 0 /\ fee_owed["keeper"] = 0
      /\ Redeems("yes") = 0 /\ Redeems("no") = 0
  BY <1>2, <1>3, <1>4 DEF FeesOwed, Recipient
<1> QED BY <1>4, <1>5 DEF NoFee, Recipient, Side

(* An early close leaves no fee uncollected and no token worth anything.   *)
THEOREM CloseIsFree == Spec => CloseForfeitsNothing
BY CloseStep, Invariant, PTL DEF Spec, CloseForfeitsNothing

LEMMA VerdictStep ==
  IInv /\ [Next]_vars =>
    [Exists /\ DueCause # "None" =>
       \/ DueCause' = DueCause /\ UNCHANGED <<status, staked>>
       \/ status' = "Void" /\ status_reason' = DueCause]_vars
<1> SUFFICES ASSUME IInv, [Next]_vars, Exists, DueCause # "None"
             PROVE  \/ DueCause' = DueCause /\ UNCHANGED <<status, staked>>
                    \/ status' = "Void" /\ status_reason' = DueCause
  OBVIOUS
<1> USE DEF history, settlement, lifecycle
<1>1. /\ now \in Nat /\ settle_at \in Int /\ lock_at(timetable) \in Int
      /\ grace_end(timetable) \in Int
      /\ lock_at(timetable) < settle_at /\ settle_at < grace_end(timetable)
      /\ timetable.settle_at = settle_at
  BY TimetableFacts, ScheduleBounds DEF IInv, TypeOK, timetable, Instant
<1>2. /\ ~is_settled /\ status \in {"Created", "Open"} /\ lock_at(timetable) <= now
      /\ OneSideEmpty \/ grace_end(timetable) < now
  BY <1>1 DEF DueCause, EmptySideDue, SnapshotMissedDue, snapshot_missed, is_settled
<1>3. ASSUME UNCHANGED <<status, staked, settle_at, params>>, now' = now \/ now' = now + 1
      PROVE  DueCause' = DueCause
  <2>1. /\ timetable' = timetable /\ OneSideEmpty' = OneSideEmpty /\ status' = status
        /\ lock_at(timetable)' = lock_at(timetable)
        /\ grace_end(timetable)' = grace_end(timetable)
    BY <1>3 DEF timetable, OneSideEmpty
  <2>2. EmptySideDue' <=> EmptySideDue
    BY <1>1, <1>2, <1>3, <2>1 DEF EmptySideDue
  <2>3. SnapshotMissedDue => SnapshotMissedDue'
    BY <1>1, <1>3, <2>1 DEF SnapshotMissedDue, snapshot_missed
  <2> QED BY <2>2, <2>3 DEF DueCause
<1>4. ASSUME NEW p \in ParamSets, NEW at \in SettleInstants, NEW thinnest \in Amount,
             CreateMarket(p, at, thinnest)
      PROVE  FALSE
  BY <1>4 DEF CreateMarket, Fresh, Initialised, Exists
<1>5. ASSUME NEW side \in Side, NEW amount \in 1 .. cap_per_side, Deposit(side, amount)
      PROVE  FALSE
  BY <1>1, <1>2, <1>5 DEF Deposit, deposits_open
<1>6. ASSUME NEW reading \in Share \cup {Aborts}, Snapshot(reading)
      PROVE  FALSE
  BY <1>1, <1>2, <1>6 DEF Snapshot, snapshot_open
<1>7. ASSUME Resolve PROVE FALSE
  BY <1>2, <1>7 DEF Resolve
<1>8. CASE VoidMarket
  BY <1>8 DEF VoidMarket, VoidWith
<1>9. CASE UNCHANGED vars
  BY <1>3, <1>9 DEF vars
<1>10. CASE Tick
  BY <1>3, <1>10 DEF Tick
<1> QED
  BY <1>2, <1>3, <1>4, <1>5, <1>6, <1>7, <1>8, <1>9, <1>10
  DEF Next, Claim, CollectFee, SweepDust, CloseMarket, Revoke, Restore, BurnTokens, Donate

(* The cause `void` acts on survives every other instruction.              *)
THEOREM VerdictStable == Spec => VerdictStands
BY VerdictStep, Invariant, PTL DEF Spec, VerdictStands

-----------------------------------------------------------------------------
(* Market implements the transition table of market-core, for every        *)
(* timetable: the refinement of Lifecycle, step by step.                   *)

(* The table's moves, as a relation of two phases.                         *)
Move(from, to) == \E event \in Table!Events : <<from, event, to>> \in Table!Transitions

(* A move to a state of the table is one of its steps.                     *)
LEMMA MoveIsStep ==
  ASSUME Move(phase, phase'), phase' \in Table!States
  PROVE  Table!Next
BY DEF Move, Table!Next, Table!Apply

(* The moves of Transitions.                                               *)
LEMMA TableMoves ==
  /\ Move("Created", "Open") /\ Move("Open", "Locked") /\ Move("Locked", "Snapshotted")
  /\ Move("Snapshotted", "Resolved")
  /\ \A s \in {"Created", "Open", "Locked", "Snapshotted"} : Move(s, "Void")
<1>1. Move("Created", "Open") /\ Move("Open", "Locked")
  BY DEF Move, Table!Events, Table!Transitions
<1>2. Move("Locked", "Snapshotted") /\ Move("Snapshotted", "Resolved")
  BY DEF Move, Table!Events, Table!Transitions
<1>3. ASSUME NEW s \in {"Created", "Open", "Locked", "Snapshotted"}
      PROVE  Move(s, "Void")
  <2>1. <<s, "Voided", "Void">> \in Table!Transitions
    BY DEF Table!Transitions
  <2> QED BY <2>1 DEF Move, Table!Events
<1> QED BY <1>1, <1>2, <1>3

(* What a state's invariant says of its instants.                          *)
LEMMA Instants ==
  ASSUME IInv, Exists
  PROVE  /\ now \in Nat /\ open_at \in Nat /\ settle_at \in Int
         /\ lock_at(timetable) \in Int
         /\ open_at < lock_at(timetable) /\ lock_at(timetable) < settle_at
         /\ timetable.settle_at = settle_at
BY TimetableFacts, ScheduleBounds DEF IInv, TypeOK, CreationInv, timetable, Instant

LEMMA TableInit == Init => Table!Init
BY DEF Init, Table!Init, phase, Exists

LEMMA TableStep == IInv /\ [Next]_vars => [Table!Next]_phase
<1> SUFFICES ASSUME IInv, [Next]_vars PROVE [Table!Next]_phase
  OBVIOUS
<1>a. phase' \in Table!States
  <2>1. IInv'
    BY InvStep
  <2>2. status' \in {"Created", "Open", "Snapshotted", "Resolved", "Void"}
    BY <2>1 DEF IInv, TypeOK, Status
  <2> QED BY <2>2 DEF phase, Table!States
<1> SUFFICES phase' = phase \/ Move(phase, phase')
  BY <1>a, MoveIsStep
<1> USE DEF lifecycle
<1>1. ASSUME UNCHANGED <<now, lifecycle, accounts>> PROVE phase' = phase
  BY <1>1 DEF phase, Exists, timetable
<1>2. ASSUME NEW p \in ParamSets, NEW at \in SettleInstants, NEW thinnest \in Amount,
             CreateMarket(p, at, thinnest)
      PROVE  phase' = phase \/ Move(phase, phase')
  <2>1. ~Exists /\ status = "Created"
    BY <1>2 DEF CreateMarket, Fresh, Initialised, IInv, AccountsInv, Exists
  <2>2. phase = "Created"
    BY <2>1 DEF phase
  <2>3. status' = "Created" /\ Exists' /\ now' = now /\ IInv'
    BY <1>2, InvStep DEF CreateMarket, Initialised, Exists
  <2>4. open_at' = now + p.creation_cooldown /\ lock_at(timetable)' > now + p.creation_cooldown
    BY <1>2 DEF CreateMarket, timetable
  <2>5. phase' \in {"Created", "Open"}
    <3>1. now \in Nat /\ p.creation_cooldown \in Nat
      BY ParamFacts DEF IInv, TypeOK
    <3>2. lock_at(timetable)' \in Int
      <4>1. params' \in ParamSets /\ settle_at' \in Instant
        BY <2>3 DEF IInv, TypeOK
      <4> QED BY <4>1, TimetableFacts DEF timetable
    <3>3. now' < lock_at(timetable)'
      BY <2>3, <2>4, <3>1, <3>2
    <3> QED BY <2>3, <3>3 DEF phase
  <2> QED BY <2>2, <2>5, TableMoves
<1>3. ASSUME NEW side \in Side, NEW amount \in 1 .. cap_per_side, Deposit(side, amount)
      PROVE  phase' = phase
  BY <1>3 DEF Deposit, deposits_open, phase, Exists, timetable
<1>4. ASSUME NEW reading \in Share \cup {Aborts}, Snapshot(reading)
      PROVE  Move(phase, phase')
  <2>1. Exists /\ status = "Open" /\ status' = "Snapshotted" /\ settle_at <= now
    BY <1>4, Instants DEF Snapshot, Exists, snapshot_open
  <2>2. phase = "Locked" /\ phase' = "Snapshotted"
    BY <2>1, Instants DEF phase
  <2> QED BY <2>2, TableMoves
<1>5. ASSUME Resolve PROVE Move(phase, phase')
  <2>1. status = "Snapshotted" /\ status' \in {"Resolved", "Void"}
    BY <1>5 DEF Resolve, VoidWith, SettleWith
  <2>2. phase = "Snapshotted" /\ phase' \in {"Resolved", "Void"}
    BY <2>1 DEF phase
  <2> QED BY <2>2, TableMoves
<1>6. ASSUME VoidMarket PROVE Move(phase, phase')
  <2>1. status \in {"Created", "Open"} /\ status' = "Void"
    BY <1>6 DEF VoidMarket, VoidWith, DueCause, EmptySideDue, SnapshotMissedDue
  <2>2. phase \in {"Created", "Open", "Locked"} /\ phase' = "Void"
    BY <2>1 DEF phase
  <2> QED BY <2>2, TableMoves
<1>7. ASSUME CloseMarket PROVE phase' = phase
  BY <1>7 DEF CloseMarket, is_settled, phase
<1>8. ASSUME Tick PROVE phase' = phase \/ Move(phase, phase')
  <2>1. /\ now' = now + 1 /\ status' = status /\ open_at' = open_at /\ Exists' = Exists
        /\ timetable' = timetable /\ lock_at(timetable)' = lock_at(timetable)
    BY <1>8 DEF Tick, Exists, timetable
  <2>2. CASE status \notin {"Created", "Open"} \/ ~Exists
    BY <2>1, <2>2 DEF phase
  <2>3. CASE status \in {"Created", "Open"} /\ Exists
    <3>1. \/ phase' = phase
          \/ phase = "Created" /\ phase' = "Open"
          \/ phase = "Open" /\ phase' = "Locked"
      BY <2>1, <2>3, Instants DEF phase
    <3> QED BY <3>1, TableMoves
  <2> QED BY <2>2, <2>3
<1>9. CASE UNCHANGED vars
  BY <1>1, <1>9 DEF vars
<1> QED
  BY <1>1, <1>2, <1>3, <1>4, <1>5, <1>6, <1>7, <1>8, <1>9
  DEF Next, Claim, CollectFee, SweepDust, Revoke, Restore, BurnTokens, Donate

(* Every execution of the market program, seen through the clock, is one   *)
(* of the table's: it starts where the table starts and no instruction,    *)
(* tick or outside transfer makes a move the table would refuse.           *)
THEOREM ImplementsTable == Spec => FollowsTable
<1>1. Spec => Table!Init /\ [][Table!Next]_phase
  BY TableInit, TableStep, Invariant, PTL DEF Spec
<1> QED BY <1>1 DEF FollowsTable, Table!Spec

=============================================================================

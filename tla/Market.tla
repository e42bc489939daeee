------------------------------- MODULE Market -------------------------------
(***************************************************************************)
(* One prediction market from creation to the closing of its accounts:     *)
(* the instructions create_market, deposit, snapshot, resolve, void,       *)
(* claim, collect_fee, sweep_dust and close_market of                      *)
(* programs/prediction-market, and what the world may do between any two   *)
(* of them (the clock, governance's registry, holders' own SPL tokens).    *)
(*                                                                         *)
(* Every instruction is atomic on chain, so each is one action; what       *)
(* interleaves is whole instructions, sent by anybody, in any order.       *)
(* Markets share no account that moves money, so one market identifier is  *)
(* the whole story for every other one.                                    *)
(***************************************************************************)
EXTENDS Params, Payout, FiniteSets

CONSTANTS
  ParamSets,        \* the parameter sets governance may have in force
  SettleInstants,   \* the settlement instants a creator may ask for (bound)
  MIN_STAKE,        \* min_stake of the collateral
  Unread,           \* the snapshot account does not exist yet
  Aborts,           \* the predicate or the ramp aborts on the frozen prices
  MaxTime,          \* bound on the clock while the market is unsettled
  MaxDonated,       \* bound on the collateral strangers send to the vault
  MaxRevoked        \* bound on the permissions governance withholds at once

ASSUME MarketConstants ==
  /\ ParamSets # {} /\ ParamSets \subseteq MarketParams
  /\ \A p \in ParamSets : validate_params(p)
  /\ SettleInstants \subseteq Instant
  /\ MIN_STAKE \in Nat
  /\ Unread \notin Share /\ Aborts \notin Share /\ Unread # Aborts
  /\ MaxTime \in Nat /\ MaxDonated \in Nat /\ MaxRevoked \in Nat

(* Governance's bounds are what keeps the arithmetic of a market in range: *)
(* a fee never exceeds what it is charged on, and two full sides fit u64.  *)
ASSUME GovernanceBounds ==
  /\ MAX_FEE_BPS <= BPS_DENOMINATOR
  /\ 2 * MAX_FEED_CAP_BPS <= BPS_DENOMINATOR

VARIABLES
  now,            \* Clock::unix_timestamp
  registry,       \* what governance lets through right now
  accounts,       \* the accounts of this market identifier that exist
  (* the Market account; its fields keep their last value once it is closed *)
  status, status_reason, open_at, settle_at, params, cap_per_side,
  staked, pools, fee_total, fee_owed, resolved_at, bond,
  snapshot,       \* what the frozen prices settle to
  supply,         \* supplies of the two outcome mints
  vault,          \* balance of the collateral vault
  (* history, read by the properties only *)
  redeemed,       \* outcome tokens burned through claim, per side
  paid,           \* collateral paid by claim, per side
  cranked,        \* lamports paid to those who ran snapshot and resolve
  donated,        \* collateral sent to the vault without a deposit
  swept           \* whether sweep_dust ever emptied the vault

lifecycle  == <<status, status_reason, open_at, settle_at, params, cap_per_side>>
settlement == <<pools, fee_total, resolved_at>>
history    == <<redeemed, paid, cranked, donated, swept>>
vars == <<now, registry, accounts, lifecycle, settlement, staked, fee_owed, bond,
          snapshot, supply, vault, history>>

Status == {"Created", "Open", "Locked", "Snapshotted", "Resolved", "Void"}
VoidCause == {"None", "SnapshotMissed", "EmptySide", "PredicateAborted"}
Account == {"market", "spec", "vault", "mints", "snapshot"}
Permission == {"creation", "collateral", "feeds"}

Nothing == [s \in Side |-> 0]
NoFee == [r \in Recipient |-> 0]

Exists == "market" \in accounts
is_settled == status \in {"Resolved", "Void"}
timetable == schedule(params, settle_at)
claim_end == resolved_at + params.claim_window
OneSideEmpty == staked["yes"] = 0 \/ staked["no"] = 0

Init ==
  /\ now = 0 /\ registry = Permission /\ accounts = {}
  /\ status = "Created" /\ status_reason = "None"
  /\ open_at = 0 /\ settle_at = 0 /\ cap_per_side = 0
  /\ params = CHOOSE p \in ParamSets : TRUE
  /\ staked = Nothing /\ pools = Nothing
  /\ fee_total = 0 /\ fee_owed = NoFee /\ resolved_at = 0 /\ bond = 0
  /\ snapshot = Unread /\ supply = Nothing /\ vault = 0
  /\ redeemed = Nothing /\ paid = Nothing /\ cranked = 0
  /\ donated = 0 /\ swept = FALSE

-----------------------------------------------------------------------------
(* create_market initialises spec, vault and both mints along with the     *)
(* market, so none of them may exist; the mints of an identifier never go  *)
(* away again.                                                             *)
Initialised == {"market", "spec", "vault", "mints"}
FreshMarket == ~Exists                                    \* slip: mints reused
Fresh == accounts \cap Initialised = {}

(* `thinnest` is the smallest attested depth among the declared feeds.     *)
CreateMarket(p, at, thinnest) ==
  LET cap == mul_bps(thinnest, p.feed_cap_bps)
      timed == schedule(p, at)
  IN
  /\ Fresh
  /\ registry = Permission
  /\ validate(timed)
  /\ now + p.creation_cooldown \in Instant
  /\ lock_at(timed) > now + p.creation_cooldown
  /\ cap > 0
  /\ accounts' = accounts \cup Initialised
  /\ status' = "Created" /\ status_reason' = "None"
  /\ open_at' = now + p.creation_cooldown
  /\ settle_at' = at /\ params' = p /\ cap_per_side' = cap
  /\ staked' = Nothing /\ pools' = Nothing
  /\ fee_total' = 0 /\ fee_owed' = NoFee /\ resolved_at' = 0
  /\ bond' = 2 * p.keeper_reward
  /\ UNCHANGED <<now, registry, snapshot, supply, vault, history>>

(* deposit: collateral into the vault, outcome tokens one for one. *)
Deposit(side, amount) ==
  /\ Exists
  /\ "collateral" \in registry
  /\ amount > 0 /\ amount >= MIN_STAKE
  /\ status \in {"Created", "Open"}
  /\ deposits_open(timetable, now, open_at)
  /\ DepositFits(staked, side, amount, cap_per_side)
  /\ vault' = vault + amount
  /\ supply' = [supply EXCEPT ![side] = @ + amount]
  /\ staked' = deposit(staked, side, amount)
  /\ status' = "Open"
  /\ UNCHANGED <<now, registry, accounts, status_reason, open_at, settle_at, params,
                 cap_per_side, settlement, fee_owed, bond, snapshot, history>>

PayWholeBond == bond' = 0 /\ cranked' = cranked + bond    \* slip: one crank takes all

(* pay_from_bond: as much of the reward as the bond still holds. *)
PayFromBond ==
  LET available == IF bond < params.keeper_reward THEN bond ELSE params.keeper_reward
  IN  bond' = bond - available /\ cranked' = cranked + available

(* snapshot: the declared feeds are read over the window and frozen.  The  *)
(* readings fix what the predicate and the ramp will make of them.         *)
Snapshot(reading) ==
  /\ Exists /\ "spec" \in accounts /\ "snapshot" \notin accounts
  /\ status = "Open"
  /\ snapshot_open(timetable, now)
  /\ ~OneSideEmpty
  /\ "feeds" \in registry
  /\ accounts' = accounts \cup {"snapshot"}
  /\ snapshot' = reading
  /\ PayFromBond
  /\ status' = "Snapshotted"
  /\ UNCHANGED <<now, registry, status_reason, open_at, settle_at, params, cap_per_side,
                 settlement, staked, fee_owed, supply, vault, redeemed, paid, donated, swept>>

(* void_market: every side's pool is what it staked. *)
VoidWith(cause) ==
  /\ status' = "Void" /\ status_reason' = cause
  /\ pools' = staked
  /\ fee_total' = 0 /\ fee_owed' = NoFee
  /\ resolved_at' = now

(* The settlement that resolve computes from the frozen readings.  A pot   *)
(* that does not fit u64 fails the instruction.                            *)
SettleWith(share) ==
  LET total == settle_fee(share, staked, params.fee_bps)
  IN
  /\ PotFits(staked)
  /\ status' = "Resolved"
  /\ pools' = settle_pools(share, staked, params.fee_bps)
  /\ fee_total' = total
  /\ fee_owed' = fee_cut(total)
  /\ resolved_at' = now
  /\ UNCHANGED status_reason

Resolve ==
  /\ {"market", "spec", "snapshot"} \subseteq accounts
  /\ status = "Snapshotted"
  /\ PayFromBond
  /\ IF snapshot = Aborts THEN VoidWith("PredicateAborted") ELSE SettleWith(snapshot)
  /\ UNCHANGED <<now, registry, accounts, open_at, settle_at, params, cap_per_side,
                 staked, snapshot, supply, vault, redeemed, paid, donated, swept>>

EmptySideDueOpen ==                                       \* slip: forgets Created
  status = "Open" /\ now >= lock_at(timetable) /\ OneSideEmpty
SnapshotMissedDueAlways == snapshot_missed(timetable, now)  \* slip: any status

(* The cause `void` derives, "None" when its condition is not met. *)
EmptySideDue ==
  /\ status \in {"Created", "Open"}
  /\ now >= lock_at(timetable)
  /\ OneSideEmpty
SnapshotMissedDue == status = "Open" /\ snapshot_missed(timetable, now)

DueCause == IF EmptySideDue THEN "EmptySide"
            ELSE IF SnapshotMissedDue THEN "SnapshotMissed"
            ELSE "None"

VoidMarket ==
  /\ Exists
  /\ DueCause # "None"
  /\ VoidWith(DueCause)
  /\ UNCHANGED <<now, registry, accounts, open_at, settle_at, params, cap_per_side,
                 staked, bond, snapshot, supply, vault, history>>

-----------------------------------------------------------------------------
(* claim: some token account of `side` whose whole balance is `burned`. *)
Claim(side, burned) ==
  LET owed == payout_for(burned, side, staked, pools)
  IN
  /\ Exists
  /\ is_settled
  /\ now <= claim_end
  /\ burned > 0
  /\ Redeemable(burned, side, staked)
  /\ owed <= vault
  /\ supply' = [supply EXCEPT ![side] = @ - burned]
  /\ vault' = vault - owed
  /\ redeemed' = [redeemed EXCEPT ![side] = @ + burned]
  /\ paid' = [paid EXCEPT ![side] = @ + owed]
  /\ UNCHANGED <<now, registry, accounts, lifecycle, settlement, staked, fee_owed, bond,
                 snapshot, cranked, donated, swept>>

(* The slip of paying a fee and leaving it owed.                           *)
CollectFeeAgain(recipient) ==
  /\ Exists /\ status = "Resolved"
  /\ fee_owed[recipient] > 0 /\ fee_owed[recipient] <= vault
  /\ vault' = vault - fee_owed[recipient]
  /\ UNCHANGED <<now, registry, accounts, lifecycle, settlement, staked, fee_owed, bond,
                 snapshot, supply, history>>

(* collect_fee: one recipient's whole cut, once. *)
CollectFee(recipient) ==
  /\ Exists
  /\ status = "Resolved"
  /\ fee_owed[recipient] > 0
  /\ fee_owed[recipient] <= vault
  /\ vault' = vault - fee_owed[recipient]
  /\ fee_owed' = [fee_owed EXCEPT ![recipient] = 0]
  /\ UNCHANGED <<now, registry, accounts, lifecycle, settlement, staked, bond, snapshot,
                 supply, history>>

(* The slip of sweeping resolved markets only.                             *)
SweepResolvedDust ==
  /\ Exists /\ status = "Resolved" /\ now > claim_end /\ vault > 0
  /\ vault' = 0 /\ swept' = TRUE
  /\ UNCHANGED <<now, registry, accounts, lifecycle, settlement, staked, fee_owed, bond,
                 snapshot, supply, redeemed, paid, cranked, donated>>

(* sweep_dust: whatever the claim window left behind, fees included. *)
SweepDust ==
  /\ Exists
  /\ is_settled
  /\ now > claim_end
  /\ vault > 0
  /\ vault' = 0
  /\ swept' = TRUE
  /\ UNCHANGED <<now, registry, accounts, lifecycle, settlement, staked, fee_owed, bond,
                 snapshot, supply, redeemed, paid, cranked, donated>>

(* The slip of closing over a vault that still holds collateral.           *)
CloseSettledMarket ==
  /\ Exists /\ is_settled
  /\ accounts' = accounts \ {"market", "spec", "vault"} /\ bond' = 0
  /\ UNCHANGED <<now, registry, lifecycle, settlement, staked, fee_owed, snapshot, supply,
                 vault, history>>

(* close_market: the mints and the snapshot stay, and so do any tokens. *)
CloseMarket ==
  /\ Exists
  /\ is_settled
  /\ vault = 0
  /\ accounts' = accounts \ {"market", "spec", "vault"}
  /\ bond' = 0
  /\ UNCHANGED <<now, registry, lifecycle, settlement, staked, fee_owed, snapshot, supply,
                 vault, history>>

-----------------------------------------------------------------------------
(* The world outside the program.                                          *)

(* The clock only has to go on for as long as some instruction still reads *)
(* it: to MaxTime until the market settles, past claim_end afterwards.     *)
Horizon == IF is_settled THEN claim_end + 1 ELSE MaxTime

Tick ==
  /\ now < Horizon
  /\ now' = now + 1
  /\ UNCHANGED <<registry, accounts, lifecycle, settlement, staked, fee_owed, bond,
                 snapshot, supply, vault, history>>

(* set_paused, update_collateral and update_feed take effect at once. *)
Revoke(permission) ==
  /\ permission \in registry
  /\ Cardinality(Permission \ registry) < MaxRevoked
  /\ registry' = registry \ {permission}
  /\ UNCHANGED <<now, accounts, lifecycle, settlement, staked, fee_owed, bond, snapshot,
                 supply, vault, history>>

Restore(permission) ==
  /\ permission \notin registry
  /\ registry' = registry \cup {permission}
  /\ UNCHANGED <<now, accounts, lifecycle, settlement, staked, fee_owed, bond, snapshot,
                 supply, vault, history>>

(* A holder burns outcome tokens through the Token program directly. *)
BurnTokens(side, amount) ==
  /\ supply' = [supply EXCEPT ![side] = @ - amount]
  /\ UNCHANGED <<now, registry, accounts, lifecycle, settlement, staked, fee_owed, bond,
                 snapshot, vault, history>>

(* Somebody transfers collateral into the vault without depositing. *)
Donate ==
  /\ "vault" \in accounts
  /\ donated < MaxDonated
  /\ vault' = vault + 1
  /\ donated' = donated + 1
  /\ UNCHANGED <<now, registry, accounts, lifecycle, settlement, staked, fee_owed, bond,
                 snapshot, supply, redeemed, paid, cranked, swept>>

Next ==
  \/ \E p \in ParamSets, at \in SettleInstants, thinnest \in Amount :
        CreateMarket(p, at, thinnest)
  \/ \E side \in Side, amount \in 1 .. cap_per_side : Deposit(side, amount)
  \/ \E reading \in Share \cup {Aborts} : Snapshot(reading)
  \/ Resolve
  \/ VoidMarket
  \/ \E side \in Side : \E burned \in 1 .. supply[side] : Claim(side, burned)
  \/ \E recipient \in Recipient : CollectFee(recipient)
  \/ SweepDust
  \/ CloseMarket
  \/ Tick
  \/ \E permission \in Permission : Revoke(permission) \/ Restore(permission)
  \/ \E side \in Side : \E amount \in 1 .. supply[side] : BurnTokens(side, amount)
  \/ Donate

Spec == Init /\ [][Next]_vars

(* Time passes, and somebody runs every permissionless crank that stays    *)
(* available; nobody has to deposit, take a snapshot or claim.             *)
FairSpec ==
  /\ Spec
  /\ WF_vars(Tick) /\ WF_vars(Resolve) /\ WF_vars(VoidMarket) /\ WF_vars(SweepDust)

-----------------------------------------------------------------------------
(* Properties.                                                             *)

TypeOK ==
  /\ now \in Nat
  /\ registry \subseteq Permission /\ accounts \subseteq Account
  /\ status \in Status \ {"Locked"} /\ status_reason \in VoidCause
  /\ open_at \in Nat /\ settle_at \in Instant /\ params \in ParamSets
  /\ cap_per_side \in Nat
  /\ staked \in [Side -> Nat] /\ pools \in [Side -> Nat]
  /\ fee_total \in Nat /\ fee_owed \in [Recipient -> Nat]
  /\ resolved_at \in Nat /\ bond \in Nat
  /\ snapshot \in Share \cup {Unread, Aborts}
  /\ supply \in [Side -> Nat] /\ vault \in Nat
  /\ redeemed \in [Side -> Nat] /\ paid \in [Side -> Nat]
  /\ cranked \in Nat /\ donated \in Nat /\ swept \in BOOLEAN

(* What `side` would still be paid if its whole supply were one account;   *)
(* several accounts together can only be paid less.                        *)
Redeems(side) ==
  IF supply[side] = 0 THEN 0 ELSE payout_for(supply[side], side, staked, pools)
FeesOwed == fee_owed["treasury"] + fee_owed["creator"] + fee_owed["keeper"]

(* As long as claiming is open, the vault covers every outstanding outcome *)
(* token of both sides and every fee not yet collected, whatever was       *)
(* claimed, collected, burned or donated before: no claim and no           *)
(* collect_fee can fail for want of collateral.                            *)
Solvency ==
  Exists /\ is_settled /\ now <= claim_end =>
    Redeems("yes") + Redeems("no") + FeesOwed <= vault

(* Until the dust is swept, every unit that entered the vault is either    *)
(* still there or left it as a claim or a collected fee.                   *)
VaultAccounted ==
  Exists /\ ~swept =>
    vault + paid["yes"] + paid["no"] + (fee_total - FeesOwed) = pot(staked) + donated

(* Outcome tokens that circulate or were redeemed never exceed the stake   *)
(* the market recorded, so a claim never burns more than was staked; in    *)
(* particular no token minted for an earlier market of the same identifier *)
(* can be redeemed against this one.                                       *)
TokensBacked ==
  Exists => \A s \in Side : supply[s] + redeemed[s] <= staked[s]

(* Settling divides the pot exactly: the two pools and the fee add up to   *)
(* what was staked, and the uncollected cuts never exceed the fee.         *)
SettlementSplitsPot ==
  Exists /\ is_settled =>
    /\ pools["yes"] + pools["no"] + fee_total = pot(staked)
    /\ FeesOwed <= fee_total

(* Redeeming a side in many claims never pays more than redeeming the same *)
(* tokens in one: rounding cannot be farmed against the other holders.     *)
NoOverpayment ==
  Exists => \A s \in Side :
    redeemed[s] > 0 => paid[s] <= payout_for(redeemed[s], s, staked, pools)

(* A side whose pool is no less than its stake pays every claimant at      *)
(* least what was staked for the tokens burned, through any rounding; when *)
(* the pot was resolved, at least one side is such a side, and a void      *)
(* market is one on both, with exactly the stake returned.                 *)
PrincipalReturned ==
  Exists /\ is_settled =>
    /\ \A s \in Side : pools[s] >= staked[s] => paid[s] >= redeemed[s]
    /\ \E s \in Side : pools[s] >= staked[s]
    /\ status = "Void" => paid = redeemed

(* Each of the two cranks is paid the full reward and the bond never pays  *)
(* for more: what was paid is one reward for a snapshot and one for a      *)
(* resolution, whatever it resolved to, and the rest is still in the bond. *)
EveryCrankPaid ==
  LET cranks == (IF "snapshot" \in accounts THEN 1 ELSE 0)
                + (IF status = "Resolved" \/ status_reason = "PredicateAborted"
                   THEN 1 ELSE 0)
  IN  Exists => /\ cranked = cranks * params.keeper_reward
                /\ bond + cranked = 2 * params.keeper_reward

(* Whatever happened before, an unsettled market has a way to settle that  *)
(* needs nobody's consent: once snapshotted the one left is resolve, which *)
(* finds its accounts and a pot that fits, and without a snapshot it is    *)
(* void, due at the latest when the grace period is over.                  *)
NobodyLockedIn ==
  Exists /\ ~is_settled =>
    IF status = "Snapshotted"
      THEN /\ {"spec", "snapshot"} \subseteq accounts
           /\ snapshot = Aborts \/ (snapshot \in Share /\ PotFits(staked))
      ELSE now > grace_end(timetable) => DueCause # "None"

(* The action properties speak of steps of a market that exists.           *)

(* Once `void` has a cause, it is the only way the market can settle, and  *)
(* the cause does not change with time, deposits or late cranks: who sends *)
(* the next instruction first does not decide between a refund and a       *)
(* settlement.                                                             *)
VerdictStands ==
  [][Exists /\ DueCause # "None" =>
       \/ DueCause' = DueCause /\ UNCHANGED <<status, staked>>
       \/ status' = "Void" /\ status_reason' = DueCause]_vars

(* What a settlement recorded is never revised while the market exists.    *)
SettlementFinal ==
  [][Exists /\ is_settled /\ Exists' => UNCHANGED <<lifecycle, settlement, staked>>]_vars

(* An identifier closed before its claims expire closes at nobody's        *)
(* expense: no fee is uncollected and the tokens left redeem for nothing.  *)
CloseForfeitsNothing ==
  [][Exists /\ ~Exists' /\ now <= claim_end =>
       /\ fee_owed = NoFee
       /\ \A s \in Side : Redeems(s) = 0]_vars

(* Every market settles, whether or not anybody ever deposits or takes a   *)
(* snapshot, and whatever governance does to its feeds and collateral.     *)
EventuallySettles == Exists ~> is_settled

(* No collateral stays in a settled market's vault for good.               *)
EventuallyDrained == is_settled ~> vault = 0

=============================================================================

------------------------------ MODULE Protocol ------------------------------
(***************************************************************************)
(* One market under the governance that admits its feeds and its           *)
(* collateral and sets its parameters.  create_market, deposit and         *)
(* snapshot read the accounts governance writes; every other instruction   *)
(* of a market is Market's own, and governance's are Governance's own, in  *)
(* any order on one clock.                                                 *)
(*                                                                         *)
(* Market sees all of governance as a set of permissions that come and go. *)
(* Registry below is that set, read off the accounts, and ImplementsMarket *)
(* says that nothing else of governance reaches a market: whatever is true *)
(* of every behaviour of Market is true under every behaviour of           *)
(* governance.                                                             *)
(***************************************************************************)
EXTENDS Governance, Payout

CONSTANTS
  MIN_MARKET_FEEDS,   \* how many sources the protocol asks of a market
  MAX_INPUTS,         \* and how many the predicate machine takes
  SettleInstants,     \* the settlement instants a creator may ask for (bound)
  Unread, Aborts,     \* as in Market
  MaxDonated          \* bound on the collateral strangers send to the vault

ASSUME ProtocolConstants ==
  /\ MIN_MARKET_FEEDS \in Nat \ {0} /\ MAX_INPUTS \in Nat
  /\ Depths \subseteq Amount
  /\ SettleInstants \subseteq Instant
  /\ Unread \notin Share /\ Aborts \notin Share /\ Unread # Aborts
  /\ MaxDonated \in Nat

VARIABLES
  (* the market's own variables, as in Market *)
  accounts, status, status_reason, open_at, settle_at, params, cap_per_side,
  staked, pools, fee_total, fee_owed, resolved_at, bond, snapshot, supply, vault,
  redeemed, paid, cranked, donated, swept,
  declared,           \* the sources of the feeds the market declared
  collateral_mint     \* the mint its vault holds

(* Parameters governance could ever put in force.                          *)
ParamSets == {p \in Proposals : validate_params(p)}

(* Governance can be initialised at all, and its bounds keep a market's     *)
(* arithmetic in range, as Market asks of them.                            *)
ASSUME MarketBounds ==
  /\ ParamSets # {}
  /\ MAX_FEE_BPS <= BPS_DENOMINATOR
  /\ 2 * MAX_FEED_CAP_BPS <= BPS_DENOMINATOR

(* What governance lets a market do; before the market exists, whatever it *)
(* does about pauses, mints and feeds only restricts which market can be   *)
(* created.                                                                *)
Permits(permission) ==
  \/ permission = "creation"   /\ ~config.paused
  \/ permission = "collateral" /\ collateral[collateral_mint].enabled
  \/ permission = "feeds"      /\ \A s \in declared : is_active(feeds[s], now)
Registry ==
  {permission \in {"creation", "collateral", "feeds"} : declared = {} \/ Permits(permission)}

M == INSTANCE Market WITH registry <- Registry, MIN_STAKE <- 1, MaxRevoked <- 3

(* The same market with every permission granted: what create_market does  *)
(* apart from what it reads of governance.                                 *)
Granted == INSTANCE Market
  WITH registry <- {"creation", "collateral", "feeds"}, MIN_STAKE <- 1, MaxRevoked <- 3

market_vars == <<accounts, status, status_reason, open_at, settle_at, params, cap_per_side,
                 staked, pools, fee_total, fee_owed, resolved_at, bond, snapshot, supply,
                 vault, redeemed, paid, cranked, donated, swept>>
declaration == <<declared, collateral_mint>>
protocol_vars == <<gov_vars, market_vars, declaration>>

ProtocolInit ==
  /\ Init
  /\ declared = {} /\ collateral_mint = NoKey
  /\ M!Init

-----------------------------------------------------------------------------
(* resolve_feeds_and_cap reads every declared feed: none twice, all active,*)
(* and the thinnest one's attested depth caps the market.                  *)
is_thinnest(depth, sources) ==
  /\ depth \in {feeds[s].depth_quote : s \in sources}
  /\ \A s \in sources : depth <= feeds[s].depth_quote

CreateMarketUnvetted(sources, mint, at) ==             \* slip: enabled is enough
  /\ UNCHANGED governance
  /\ ~config.paused
  /\ Cardinality(sources) \in MIN_MARKET_FEEDS .. MAX_INPUTS
  /\ mint \in DOMAIN collateral /\ collateral[mint].enabled
  /\ sources \subseteq DOMAIN feeds
  /\ \A s \in sources : feeds[s].enabled
  /\ declared' = sources /\ collateral_mint' = mint /\ now' = now
  /\ \E thinnest \in Depths :
       is_thinnest(thinnest, sources) /\ Granted!CreateMarket(config.params, at, thinnest)

CreateMarket(sources, mint, at) ==
  /\ UNCHANGED governance
  /\ ~config.paused
  /\ Cardinality(sources) \in MIN_MARKET_FEEDS .. MAX_INPUTS
  /\ mint \in DOMAIN collateral /\ collateral[mint].enabled
  /\ sources \subseteq DOMAIN feeds
  /\ \A s \in sources : is_active(feeds[s], now)
  /\ declared' = sources /\ collateral_mint' = mint /\ now' = now
  /\ \E thinnest \in Depths :
       is_thinnest(thinnest, sources) /\ Granted!CreateMarket(config.params, at, thinnest)

(* The smallest stake is whatever governance asks for at this moment.      *)
Deposit(side, amount) ==
  /\ UNCHANGED <<governance, declaration>>
  /\ amount >= collateral[collateral_mint].min_stake
  /\ M!Deposit(side, amount)

(* The instructions that read nothing of governance, and what the world    *)
(* does to a market.  Snapshot finds its feeds in Registry.                *)
Snapshot(reading) == UNCHANGED <<governance, declaration>> /\ M!Snapshot(reading)
Resolve    == UNCHANGED <<governance, declaration>> /\ M!Resolve
VoidMarket == UNCHANGED <<governance, declaration>> /\ M!VoidMarket
SweepDust  == UNCHANGED <<governance, declaration>> /\ M!SweepDust
Clock      == now < M!Horizon /\ now' = now + 1
              /\ UNCHANGED <<governance, market_vars, declaration>>
Other ==
  /\ UNCHANGED <<governance, declaration>>
  /\ \/ \E side \in Side : \E burned \in 1 .. supply[side] :
            M!Claim(side, burned) \/ M!BurnTokens(side, burned)
     \/ \E recipient \in Recipient : M!CollectFee(recipient)
     \/ M!CloseMarket
     \/ M!Donate

GovernanceStep == Govern /\ UNCHANGED <<now, market_vars, declaration>>

ProtocolNext ==
  \/ \E sources \in SUBSET DOMAIN feeds, mint \in Mint, at \in SettleInstants :
       CreateMarket(sources, mint, at)
  \/ \E side \in Side, amount \in 1 .. cap_per_side : Deposit(side, amount)
  \/ \E reading \in Share \cup {Aborts} : Snapshot(reading)
  \/ Resolve \/ VoidMarket \/ SweepDust \/ Clock \/ Other
  \/ GovernanceStep

ProtocolSpec == ProtocolInit /\ [][ProtocolNext]_protocol_vars

-----------------------------------------------------------------------------
(* Properties.                                                             *)

(* Whatever governance proposes, adopts, pauses, hands over, registers,    *)
(* disables or re-attests, a market under it behaves as Market allows:     *)
(* its parameters, cap, stakes and settlement are out of governance's      *)
(* reach, and the only thing it can do is withhold a permission and give   *)
(* it back.  Every invariant of Market holds of this one through this.     *)
ImplementsMarket == M!Spec

(* Every market reads at least the protocol's number of sources, no two of *)
(* them the same pool, each of which was registered, and thus announced, a *)
(* whole timelock before the market was created: nobody can be offered a   *)
(* market on a source that was never open to inspection.                   *)
created_at == open_at - params.creation_cooldown
SourcesAnnounced ==
  declared # {} =>
    /\ Cardinality(declared) >= MIN_MARKET_FEEDS
    /\ \A s \in declared : registered[s] + config.timelock <= created_at
    /\ \A s, t \in declared \cap Raydium : PoolId[s] = PoolId[t] => s = t

=============================================================================

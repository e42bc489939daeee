----------------------------- MODULE Governance -----------------------------
(***************************************************************************)
(* The protocol's configuration and registries, and the instructions that  *)
(* only governance may send: initialize_config, propose_params,            *)
(* adopt_params, set_paused, the two halves of the authority's handover,   *)
(* and the registration and updating of collateral mints and price feeds.  *)
(*                                                                         *)
(* Sources are the 32 bytes that seed a feed account: the address of an    *)
(* observation ring, or a Pyth instrument.  Which pool a ring names and    *)
(* which ring a pool names are read from accounts anybody can create, so   *)
(* both are arbitrary functions.                                           *)
(***************************************************************************)
EXTENDS Params, FiniteSets

CONSTANTS
  MIN_TIMELOCK, MAX_TIMELOCK,   \* bounds on the wait for parameters and feeds
  Key,             \* the addresses that can sign
  NoKey,           \* Pubkey::default, for which nobody can sign
  Mint,            \* collateral mints
  Pool, Ring,      \* the accounts of the CLMM program
  ObservationKey,  \* the ring each pool names
  PoolId,          \* the pool each ring names
  PythId,          \* the instruments the Pyth receiver knows
  Proposals,       \* the parameter sets the authority may propose
  Depths,          \* the depths it may attest, and
  Floors,          \* the minimum stakes it may ask for
  MaxTime          \* bound on the clock

ASSUME GovernanceConstants ==
  /\ MIN_TIMELOCK \in Nat \ {0} /\ MAX_TIMELOCK \in Nat
  /\ NoKey \notin Key /\ NoKey \notin Pool
  /\ ObservationKey \in [Pool -> Ring] /\ PoolId \in [Ring -> Pool]
  /\ Proposals \subseteq MarketParams
  /\ Depths \subseteq Nat /\ Floors \subseteq Nat
  /\ MaxTime \in Nat

VARIABLES
  now,         \* Clock::unix_timestamp
  config,      \* the Config account
  collateral,  \* the Collateral accounts that exist, by mint
  feeds,       \* the Feed accounts that exist, by source
  (* history, read by the properties only *)
  proposal,    \* what was proposed last, and when
  nominee,     \* whom the authority in office nominated last
  registered   \* when each feed was registered

registries == <<collateral, feeds, registered>>
governance == <<config, proposal, nominee, registries>>
gov_vars   == <<now, governance>>

Source == Ring \cup PythId

(* The account at `x` of a registry, created or overwritten.               *)
With(accounts_by_key, x, account) ==
  [y \in DOMAIN accounts_by_key \cup {x} |->
     IF y = x THEN account ELSE accounts_by_key[y]]

(* MarketParams::default, what pending_params holds before any proposal.   *)
NoParams ==
  [twap_window |-> 0, grace |-> 0, skew |-> 0, max_segment |-> 0,
   creation_cooldown |-> 0, claim_window |-> 0,
   fee_bps |-> 0, feed_cap_bps |-> 0, keeper_reward |-> 0]

is_active(feed, at) == feed.enabled /\ at >= feed.effective_at

(* initialize_config: whoever sends it is the first authority.             *)
Init ==
  /\ now = 0
  /\ \E payer \in Key, timelock \in MIN_TIMELOCK .. MAX_TIMELOCK, p \in Proposals :
       /\ validate_params(p)
       /\ config = [authority |-> payer, pending_authority |-> NoKey, paused |-> FALSE,
                    params |-> p, pending_params |-> NoParams,
                    pending_effective_at |-> 0, has_pending |-> FALSE,
                    timelock |-> timelock]
  /\ collateral = <<>> /\ feeds = <<>>
  /\ proposal = [params |-> NoParams, at |-> 0] /\ nominee = NoKey
  /\ registered = <<>>

-----------------------------------------------------------------------------
(* When a change announced now may take effect; the sum is checked.        *)
effective_at == now + config.timelock

(* The slip of letting a second proposal ride on the first one's wait.     *)
ProposeParamsKeepingWait(p) ==
  /\ validate_params(p)
  /\ effective_at \in Instant
  /\ config' = [config EXCEPT !.pending_params = p, !.has_pending = TRUE,
                  !.pending_effective_at = IF config.has_pending THEN @ ELSE effective_at]
  /\ proposal' = [params |-> p, at |-> now]
  /\ UNCHANGED <<nominee, registries>>

ProposeParams(p) ==
  /\ validate_params(p)
  /\ effective_at \in Instant
  /\ config' = [config EXCEPT !.pending_params = p,
                              !.pending_effective_at = effective_at,
                              !.has_pending = TRUE]
  /\ proposal' = [params |-> p, at |-> now]
  /\ UNCHANGED <<nominee, registries>>

AdoptParams ==
  /\ config.has_pending
  /\ now >= config.pending_effective_at
  /\ config' = [config EXCEPT !.params = config.pending_params,
                              !.has_pending = FALSE,
                              !.pending_effective_at = 0]
  /\ UNCHANGED <<proposal, nominee, registries>>

SetPaused(paused) ==
  /\ config' = [config EXCEPT !.paused = paused]
  /\ UNCHANGED <<proposal, nominee, registries>>

(* The slip of keeping the first nominee until it accepts.                 *)
NominateOnce(next) ==
  /\ config' = [config EXCEPT !.pending_authority = IF @ = NoKey THEN next ELSE @]
  /\ nominee' = next
  /\ UNCHANGED <<proposal, registries>>

NominateAuthority(next) ==
  /\ config' = [config EXCEPT !.pending_authority = next]
  /\ nominee' = next
  /\ UNCHANGED <<proposal, registries>>

(* Signed by the nominee; a pending proposal outlives the handover.        *)
AcceptAuthority(signer) ==
  /\ config.pending_authority = signer
  /\ config' = [config EXCEPT !.authority = config.pending_authority,
                              !.pending_authority = NoKey]
  /\ nominee' = NoKey
  /\ UNCHANGED <<proposal, registries>>

-----------------------------------------------------------------------------
RegisterCollateral(mint, min_stake) ==
  /\ min_stake > 0
  /\ mint \notin DOMAIN collateral
  /\ collateral' = With(collateral, mint, [enabled |-> TRUE, min_stake |-> min_stake])
  /\ UNCHANGED <<config, proposal, nominee, feeds, registered>>

UpdateCollateral(mint, min_stake, enabled) ==
  /\ min_stake > 0
  /\ mint \in DOMAIN collateral
  /\ collateral' = With(collateral, mint, [enabled |-> enabled, min_stake |-> min_stake])
  /\ UNCHANGED <<config, proposal, nominee, feeds, registered>>

(* What both kinds of registration store; the seeds refuse a second feed   *)
(* of the same source.                                                     *)
Admit(source, kind, pool, depth_quote) ==
  /\ depth_quote > 0
  /\ source \notin DOMAIN feeds
  /\ effective_at \in Instant
  /\ feeds' = With(feeds, source,
       [kind |-> kind, pool |-> pool, depth_quote |-> depth_quote,
        effective_at |-> effective_at, enabled |-> TRUE])
  /\ registered' = With(registered, source, now)
  /\ UNCHANGED <<config, proposal, nominee, collateral>>

RegisterFeedOneWay(pool, observation_state, depth_quote) ==   \* slip: pool not asked
  /\ PoolId[observation_state] = pool
  /\ Admit(observation_state, "RaydiumClmm", pool, depth_quote)

(* The pool must name the ring, and the probe refuses a ring that does not *)
(* name the pool.  Whether the rest of the probe succeeds is up to the     *)
(* ring, so the action may always happen and never has to.                 *)
RegisterFeed(pool, observation_state, depth_quote) ==
  /\ ObservationKey[pool] = observation_state
  /\ PoolId[observation_state] = pool
  /\ Admit(observation_state, "RaydiumClmm", pool, depth_quote)

RegisterPythFeed(feed_id, depth_quote) ==
  /\ feed_id # NoKey
  /\ Admit(feed_id, "PythTwap", NoKey, depth_quote)

UpdateFeedAnew(source, depth_quote, enabled) ==         \* slip: enabled, so active
  /\ depth_quote > 0
  /\ source \in DOMAIN feeds
  /\ feeds' = [feeds EXCEPT ![source].depth_quote = depth_quote,
                            ![source].enabled = enabled,
                            ![source].effective_at = IF enabled THEN now ELSE @]
  /\ UNCHANGED <<config, proposal, nominee, collateral, registered>>

UpdateFeed(source, depth_quote, enabled) ==
  /\ depth_quote > 0
  /\ source \in DOMAIN feeds
  /\ feeds' = [feeds EXCEPT ![source].depth_quote = depth_quote,
                            ![source].enabled = enabled]
  /\ UNCHANGED <<config, proposal, nominee, collateral, registered>>

-----------------------------------------------------------------------------
(* Every instruction but accept_authority is signed by config.authority.   *)
Govern ==
  \/ \E p \in Proposals : ProposeParams(p)
  \/ AdoptParams
  \/ \E paused \in BOOLEAN : SetPaused(paused)
  \/ \E next \in Key \cup {NoKey} : NominateAuthority(next)
  \/ \E signer \in Key : AcceptAuthority(signer)
  \/ \E mint \in Mint, min_stake \in Floors :
       \/ RegisterCollateral(mint, min_stake)
       \/ \E enabled \in BOOLEAN : UpdateCollateral(mint, min_stake, enabled)
  \/ \E depth_quote \in Depths :
       \/ \E pool \in Pool, ring \in Ring : RegisterFeed(pool, ring, depth_quote)
       \/ \E feed_id \in PythId \cup {NoKey} : RegisterPythFeed(feed_id, depth_quote)
       \/ \E source \in Source, enabled \in BOOLEAN :
            UpdateFeed(source, depth_quote, enabled)

Tick ==
  /\ now < MaxTime
  /\ now' = now + 1
  /\ UNCHANGED governance

Next == (Govern /\ UNCHANGED now) \/ Tick
Spec == Init /\ [][Next]_gov_vars

-----------------------------------------------------------------------------
(* Properties.                                                             *)

(* Parameters take force only after they stood announced, and unchanged,   *)
(* for a whole timelock: a later proposal cannot ride on an earlier one's  *)
(* wait, whoever held the authority when either was made.                  *)
ParamsWaited ==
  [][config'.params # config.params =>
       /\ config'.params = proposal.params
       /\ now >= proposal.at + config.timelock]_gov_vars

(* The authority passes only to the key that the authority in office named *)
(* last: a nominee who was replaced, or whom an earlier authority named,   *)
(* can no longer accept.                                                   *)
OnlyLatestNominee ==
  [][config'.authority # config.authority => config'.authority = nominee]_gov_vars

(* No two feeds read the trades of one pool, which are those recorded by   *)
(* the rings that name it, whatever rings and pools strangers set up:      *)
(* declaring distinct feeds is declaring distinct sources of price.        *)
Raydium == {s \in DOMAIN feeds : feeds[s].kind = "RaydiumClmm"}
DistinctPools ==
  \A s, t \in Raydium : PoolId[s] = PoolId[t] => s = t

=============================================================================

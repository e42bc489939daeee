--------------------------- MODULE ProtocolProofs ---------------------------
(***************************************************************************)
(* What governance is held to, and that a market under it is a Market, for *)
(* every set of keys, pools, rings, instruments and proposals; with it,    *)
(* what MarketProofs proves of a market holds of a governed one.           *)
(***************************************************************************)
EXTENDS Protocol, FiniteSetTheorems, NaturalsInduction, TLAPS

-----------------------------------------------------------------------------
(* The invariant of governance: what is pending is what was proposed last, *)
(* who is pending was nominated last, and every feed waits a timelock from *)
(* its registration and reads a pool that names it.                        *)

ConfigAccount ==
  [authority : Key, pending_authority : Key \cup {NoKey}, paused : BOOLEAN,
   params : ParamSets, pending_params : MarketParams, pending_effective_at : Int,
   has_pending : BOOLEAN, timelock : Nat]

ConfigInv ==
  /\ now \in Nat
  /\ config \in ConfigAccount
  /\ proposal.at \in Nat
  /\ config.pending_authority = nominee
  /\ config.has_pending =>
       /\ config.pending_params = proposal.params /\ config.pending_params \in ParamSets
       /\ config.pending_effective_at = proposal.at + config.timelock

FeedAccount ==
  [kind : {"RaydiumClmm", "PythTwap"}, pool : Pool \cup {NoKey}, depth_quote : Depths,
   effective_at : Int, enabled : BOOLEAN]

FeedsInv ==
  /\ DOMAIN registered = DOMAIN feeds
  /\ \A s \in DOMAIN feeds :
       /\ feeds[s] \in FeedAccount
       /\ registered[s] \in Nat
       /\ feeds[s].effective_at = registered[s] + config.timelock
       /\ feeds[s].kind = "RaydiumClmm" =>
            s = ObservationKey[feeds[s].pool] /\ PoolId[s] = feeds[s].pool

GovInv == ConfigInv /\ FeedsInv

LEMMA GovInit == Init => GovInv
<1> SUFFICES ASSUME Init PROVE GovInv
  OBVIOUS
<1> USE DEF Init
<1>1. PICK payer \in Key, timelock \in MIN_TIMELOCK .. MAX_TIMELOCK, p \in Proposals :
        /\ validate_params(p)
        /\ config = [authority |-> payer, pending_authority |-> NoKey, paused |-> FALSE,
                     params |-> p, pending_params |-> NoParams,
                     pending_effective_at |-> 0, has_pending |-> FALSE,
                     timelock |-> timelock]
  OBVIOUS
<1>2. timelock \in Nat /\ p \in ParamSets /\ NoParams \in MarketParams
  BY <1>1, GovernanceConstants DEF ParamSets, NoParams, MarketParams
<1>3. ConfigInv
  BY <1>1, <1>2 DEF ConfigInv, ConfigAccount
<1>4. DOMAIN feeds = {} /\ DOMAIN registered = {}
  OBVIOUS
<1> QED BY <1>3, <1>4 DEF GovInv, FeedsInv

(* A registration keeps every other feed, and every feed keeps its wait.   *)
LEMMA AdmitKeeps ==
  ASSUME GovInv, NEW source, NEW kind, NEW pool, NEW depth_quote \in Depths,
         kind \in {"RaydiumClmm", "PythTwap"}, pool \in Pool \cup {NoKey},
         kind = "RaydiumClmm" => source = ObservationKey[pool] /\ PoolId[source] = pool,
         Admit(source, kind, pool, depth_quote)
  PROVE  FeedsInv'
<1> DEFINE feed == [kind |-> kind, pool |-> pool, depth_quote |-> depth_quote,
                    effective_at |-> effective_at, enabled |-> TRUE]
<1>1. /\ feeds' = With(feeds, source, feed) /\ registered' = With(registered, source, now)
      /\ config' = config /\ source \notin DOMAIN feeds
  BY DEF Admit
<1>2. now \in Nat /\ config.timelock \in Nat /\ effective_at = now + config.timelock
  BY DEF GovInv, ConfigInv, ConfigAccount, effective_at
<1>3. feed \in FeedAccount
  BY <1>2 DEF FeedAccount
<1>4. DOMAIN feeds' = DOMAIN feeds \cup {source} /\ DOMAIN registered' = DOMAIN feeds'
  <2> HIDE DEF feed
  <2> QED BY <1>1 DEF With, GovInv, FeedsInv
<1>5. feeds'[source] = feed /\ registered'[source] = now
  <2> HIDE DEF feed
  <2> QED BY <1>1 DEF With
<1>6. \A s \in DOMAIN feeds : feeds'[s] = feeds[s] /\ registered'[s] = registered[s]
  <2> HIDE DEF feed
  <2> QED BY <1>1 DEF With, GovInv, FeedsInv
<1>7. ASSUME NEW s \in DOMAIN feeds'
      PROVE  /\ feeds'[s] \in FeedAccount
             /\ registered'[s] \in Nat
             /\ feeds'[s].effective_at = registered'[s] + config'.timelock
             /\ feeds'[s].kind = "RaydiumClmm" =>
                  s = ObservationKey[feeds'[s].pool] /\ PoolId[s] = feeds'[s].pool
  <2>1. CASE s = source
    BY <2>1, <1>1, <1>2, <1>3, <1>5
  <2>2. CASE s # source
    <3>1. s \in DOMAIN feeds
      BY <2>2, <1>4
    <3>2. feeds'[s] = feeds[s] /\ registered'[s] = registered[s] /\ config' = config
      BY <3>1, <1>6, <1>1
    <3> QED BY <3>1, <3>2 DEF GovInv, FeedsInv
  <2> QED BY <2>1, <2>2
<1> QED BY <1>4, <1>7 DEF FeedsInv

LEMMA UpdateKeeps ==
  ASSUME GovInv, NEW source, NEW depth_quote \in Depths, NEW enabled \in BOOLEAN,
         UpdateFeed(source, depth_quote, enabled)
  PROVE  /\ FeedsInv' /\ DOMAIN feeds' = DOMAIN feeds
         /\ \A s \in DOMAIN feeds : s # source => feeds'[s] = feeds[s]
         /\ \A s \in DOMAIN feeds : /\ feeds'[s].kind = feeds[s].kind
                                    /\ feeds'[s].pool = feeds[s].pool
<1>1. /\ feeds' = [feeds EXCEPT ![source].depth_quote = depth_quote,
                                ![source].enabled = enabled]
      /\ registered' = registered /\ config' = config /\ source \in DOMAIN feeds
  BY DEF UpdateFeed
<1>2. DOMAIN feeds' = DOMAIN feeds /\ \A s \in DOMAIN feeds : s # source => feeds'[s] = feeds[s]
  BY <1>1
<1>3. feeds'[source] = [feeds[source] EXCEPT !.depth_quote = depth_quote, !.enabled = enabled]
  BY <1>1
<1>4. feeds[source] \in FeedAccount
  BY <1>1 DEF GovInv, FeedsInv
<1>5. /\ feeds'[source] \in FeedAccount
      /\ feeds'[source].effective_at = feeds[source].effective_at
      /\ feeds'[source].kind = feeds[source].kind /\ feeds'[source].pool = feeds[source].pool
  BY <1>3, <1>4 DEF FeedAccount
<1>6. ASSUME NEW s \in DOMAIN feeds
      PROVE  /\ feeds'[s] \in FeedAccount
             /\ feeds'[s].effective_at = feeds[s].effective_at
             /\ feeds'[s].kind = feeds[s].kind /\ feeds'[s].pool = feeds[s].pool
  <2>1. CASE s = source
    BY <2>1, <1>5
  <2>2. CASE s # source
    BY <2>2, <1>2 DEF GovInv, FeedsInv
  <2> QED BY <2>1, <2>2
<1>7. FeedsInv'
  BY <1>1, <1>2, <1>6 DEF GovInv, FeedsInv
<1> QED BY <1>2, <1>6, <1>7

LEMMA GovernKeeps ==
  ASSUME GovInv, Govern, now' = now
  PROVE  GovInv'
<1> USE DEF GovInv
<1>1. ASSUME UNCHANGED <<feeds, registered>>, config'.timelock = config.timelock
      PROVE  FeedsInv'
  BY <1>1 DEF FeedsInv
<1>2. ASSUME NEW p \in Proposals, ProposeParams(p) PROVE GovInv'
  <2>1. p \in ParamSets /\ p \in MarketParams /\ now + config.timelock \in Int
    BY <1>2, GovernanceConstants DEF ProposeParams, ParamSets, ConfigInv, ConfigAccount
  <2>2. /\ config' = [config EXCEPT !.pending_params = p,
                                   !.pending_effective_at = now + config.timelock,
                                   !.has_pending = TRUE]
        /\ proposal' = [params |-> p, at |-> now]
        /\ UNCHANGED <<nominee, feeds, registered>>
    BY <1>2 DEF ProposeParams, effective_at, registries
  <2>3. ConfigInv'
    BY <2>1, <2>2 DEF ConfigInv, ConfigAccount
  <2> QED BY <1>1, <2>2, <2>3 DEF ConfigInv, ConfigAccount
<1>3. ASSUME AdoptParams PROVE GovInv'
  <2>1. ConfigInv' /\ config'.timelock = config.timelock
    <3>1. config.pending_params \in ParamSets
      BY <1>3 DEF AdoptParams, ConfigInv, ConfigAccount
    <3>2. /\ config' = [config EXCEPT !.params = config.pending_params,
                                     !.has_pending = FALSE, !.pending_effective_at = 0]
          /\ UNCHANGED <<proposal, nominee>>
      BY <1>3 DEF AdoptParams
    <3>3. config' \in ConfigAccount
      <4>1. ASSUME NEW c \in ConfigAccount, NEW p \in ParamSets, NEW b \in BOOLEAN, NEW at \in Int
            PROVE  [c EXCEPT !.params = p, !.has_pending = b, !.pending_effective_at = at]
                     \in ConfigAccount
        BY DEF ConfigAccount
      <4>2. config \in ConfigAccount
        BY DEF ConfigInv, ConfigAccount
      <4>3. FALSE \in BOOLEAN /\ 0 \in Int
        OBVIOUS
      <4> QED BY <3>1, <3>2, <4>1, <4>2, <4>3, Zenon
    <3>4. /\ ~config'.has_pending /\ config'.timelock = config.timelock
          /\ config'.pending_authority = config.pending_authority
      BY <3>2 DEF ConfigInv, ConfigAccount
    <3> QED BY <3>2, <3>3, <3>4 DEF ConfigInv, ConfigAccount
  <2> QED BY <1>1, <1>3, <2>1 DEF AdoptParams, registries
<1>4. ASSUME NEW paused \in BOOLEAN, SetPaused(paused) PROVE GovInv'
  <2>1. ConfigInv' /\ config'.timelock = config.timelock
    BY <1>4 DEF SetPaused, ConfigInv, ConfigAccount
  <2> QED BY <1>1, <1>4, <2>1 DEF SetPaused, registries
<1>5. ASSUME NEW next \in Key \cup {NoKey}, NominateAuthority(next) PROVE GovInv'
  <2>1. ConfigInv' /\ config'.timelock = config.timelock
    BY <1>5 DEF NominateAuthority, ConfigInv, ConfigAccount
  <2> QED BY <1>1, <1>5, <2>1 DEF NominateAuthority, registries
<1>6. ASSUME NEW signer \in Key, AcceptAuthority(signer) PROVE GovInv'
  <2>1. ConfigInv' /\ config'.timelock = config.timelock
    BY <1>6 DEF AcceptAuthority, ConfigInv, ConfigAccount
  <2> QED BY <1>1, <1>6, <2>1 DEF AcceptAuthority, registries
<1>7. ASSUME NEW mint, NEW min_stake, NEW enabled,
             RegisterCollateral(mint, min_stake) \/ UpdateCollateral(mint, min_stake, enabled)
      PROVE  GovInv'
  BY <1>7, <1>1 DEF RegisterCollateral, UpdateCollateral, ConfigInv, ConfigAccount
<1>8. ASSUME NEW pool \in Pool, NEW ring, NEW depth_quote \in Depths,
             RegisterFeed(pool, ring, depth_quote)
      PROVE  GovInv'
  <2>1. FeedsInv'
    <3>1. /\ ring = ObservationKey[pool] /\ PoolId[ring] = pool
          /\ Admit(ring, "RaydiumClmm", pool, depth_quote)
      BY <1>8 DEF RegisterFeed
    <3> QED BY <3>1, AdmitKeeps
  <2> QED BY <1>8, <2>1 DEF RegisterFeed, Admit, ConfigInv, ConfigAccount
<1>9. ASSUME NEW feed_id, NEW depth_quote \in Depths, RegisterPythFeed(feed_id, depth_quote)
      PROVE  GovInv'
  <2>1. FeedsInv'
    <3>1. Admit(feed_id, "PythTwap", NoKey, depth_quote)
      BY <1>9 DEF RegisterPythFeed
    <3> QED BY <3>1, AdmitKeeps
  <2> QED BY <1>9, <2>1 DEF RegisterPythFeed, Admit, ConfigInv, ConfigAccount
<1>10. ASSUME NEW source, NEW depth_quote \in Depths, NEW enabled \in BOOLEAN,
              UpdateFeed(source, depth_quote, enabled)
       PROVE  GovInv'
  <2>1. FeedsInv'
    BY <1>10, UpdateKeeps
  <2> QED BY <1>10, <2>1 DEF UpdateFeed, ConfigInv, ConfigAccount
<1> QED BY <1>2, <1>3, <1>4, <1>5, <1>6, <1>7, <1>8, <1>9, <1>10 DEF Govern

LEMMA GovUnchanged ==
  ASSUME GovInv, UNCHANGED governance, now' \in Nat
  PROVE  GovInv'
BY DEF GovInv, ConfigInv, ConfigAccount, FeedsInv, governance, registries

LEMMA GovStep == GovInv /\ [Next]_gov_vars => GovInv'
<1> SUFFICES ASSUME GovInv, [Next]_gov_vars PROVE GovInv'
  OBVIOUS
<1>1. CASE Govern /\ UNCHANGED now
  BY <1>1, GovernKeeps
<1>2. CASE Tick
  BY <1>2, GovUnchanged DEF Tick, GovInv, ConfigInv, ConfigAccount
<1>3. CASE UNCHANGED gov_vars
  BY <1>3, GovUnchanged DEF gov_vars, GovInv, ConfigInv, ConfigAccount
<1> QED BY <1>1, <1>2, <1>3 DEF Next

LEMMA GovAlways == Spec => []GovInv
BY GovInit, GovStep, PTL DEF Spec

(* Every registered ring names a pool that names it back, so the rings of  *)
(* one pool have one feed at most.                                         *)
LEMMA PoolsApart == GovInv => DistinctPools
BY DEF GovInv, FeedsInv, DistinctPools, Raydium

(* However rings and pools are set up by strangers and registered by       *)
(* governance, no pool is ever read through two feeds.                     *)
THEOREM OnePoolOneFeed == Spec => []DistinctPools
BY PoolsApart, GovAlways, PTL

(* What governance's instructions leave alone.                             *)
LEMMA GovernLeaves ==
  ASSUME GovInv, Govern
  PROVE  /\ AdoptParams \/ config'.params = config.params
         /\ (\E signer \in Key : AcceptAuthority(signer)) \/ config'.authority = config.authority
<1> USE DEF GovInv, ConfigInv, ConfigAccount
<1>1. ASSUME NEW p, ProposeParams(p)
      PROVE  config'.params = config.params /\ config'.authority = config.authority
  BY <1>1 DEF ProposeParams
<1>2. ASSUME AdoptParams PROVE config'.authority = config.authority
  BY <1>2 DEF AdoptParams
<1>3. ASSUME NEW signer, AcceptAuthority(signer) PROVE config'.params = config.params
  BY <1>3 DEF AcceptAuthority
<1>4. ASSUME \/ \E paused \in BOOLEAN : SetPaused(paused)
             \/ \E next \in Key \cup {NoKey} : NominateAuthority(next)
      PROVE  config'.params = config.params /\ config'.authority = config.authority
  BY <1>4 DEF SetPaused, NominateAuthority
<1>5. ASSUME UNCHANGED config
      PROVE  config'.params = config.params /\ config'.authority = config.authority
  BY <1>5
<1> QED BY <1>1, <1>2, <1>3, <1>4, <1>5
        DEF Govern, RegisterCollateral, UpdateCollateral, RegisterFeed, RegisterPythFeed,
            Admit, UpdateFeed

(* adopt_params brings in what was proposed last and waited for.           *)
THEOREM AdoptionsWaited == Spec => ParamsWaited
<1>1. GovInv /\ [Next]_gov_vars =>
        [config'.params # config.params =>
           /\ config'.params = proposal.params
           /\ now >= proposal.at + config.timelock]_gov_vars
  <2> SUFFICES ASSUME GovInv, [Next]_gov_vars, config'.params # config.params
               PROVE  /\ config'.params = proposal.params
                      /\ now >= proposal.at + config.timelock
    OBVIOUS
  <2>1. AdoptParams
    BY GovernLeaves DEF Next, Tick, gov_vars, governance
  <2>2. config'.params = config.pending_params
    BY <2>1 DEF AdoptParams, GovInv, ConfigInv, ConfigAccount
  <2>3. config.has_pending /\ now >= config.pending_effective_at
    BY <2>1 DEF AdoptParams
  <2> QED BY <2>2, <2>3 DEF GovInv, ConfigInv
<1> QED BY <1>1, GovAlways, PTL DEF Spec, ParamsWaited

(* accept_authority installs whom the authority in office named last.      *)
THEOREM LatestNomineeAccepts == Spec => OnlyLatestNominee
<1>1. GovInv /\ [Next]_gov_vars =>
        [config'.authority # config.authority => config'.authority = nominee]_gov_vars
  <2> SUFFICES ASSUME GovInv, [Next]_gov_vars, config'.authority # config.authority
               PROVE  config'.authority = nominee
    OBVIOUS
  <2>1. PICK signer \in Key : AcceptAuthority(signer)
    BY GovernLeaves DEF Next, Tick, gov_vars, governance
  <2>2. config'.authority = config.pending_authority
    BY <2>1 DEF AcceptAuthority, GovInv, ConfigInv, ConfigAccount
  <2> QED BY <2>2 DEF GovInv, ConfigInv
<1> QED BY <1>1, GovAlways, PTL DEF Spec, OnlyLatestNominee

-----------------------------------------------------------------------------
(* A market under governance.                                              *)

(* A market declares its feeds once, and they were active then; what it    *)
(* declared stays registered, and so does its mint.                        *)
DeclarationInv ==
  /\ "mints" \notin accounts => declared = {}
  /\ declared # {} => collateral_mint \in DOMAIN collateral
  /\ declared \subseteq DOMAIN feeds
  /\ \A s \in declared : feeds[s].effective_at <= now

AnnouncedInv ==
  declared # {} =>
    /\ Cardinality(declared) >= MIN_MARKET_FEEDS
    /\ \A s \in declared : registered[s] + config.timelock <= open_at - params.creation_cooldown

ProtocolInv == GovInv /\ DeclarationInv /\ AnnouncedInv

LEMMA ProtocolStarts == ProtocolInit => ProtocolInv
<1> SUFFICES ASSUME ProtocolInit PROVE ProtocolInv
  OBVIOUS
<1>1. GovInv /\ declared = {}
  BY GovInit DEF ProtocolInit
<1> QED BY <1>1 DEF ProtocolInv, DeclarationInv, AnnouncedInv

(* Governance never deletes an account, and reactivates no feed's wait.    *)
LEMMA RegistriesGrow ==
  ASSUME GovInv, Govern, now' = now
  PROVE  /\ DOMAIN collateral \subseteq DOMAIN collateral'
         /\ DOMAIN feeds \subseteq DOMAIN feeds'
         /\ config'.timelock = config.timelock
         /\ \A s \in DOMAIN feeds : /\ registered'[s] = registered[s]
                                    /\ feeds'[s].effective_at = feeds[s].effective_at
<1>1. config'.timelock = config.timelock
  BY DEF Govern, GovInv, ConfigInv, ConfigAccount, ProposeParams, AdoptParams, SetPaused,
         NominateAuthority, AcceptAuthority, RegisterCollateral, UpdateCollateral,
         RegisterFeed, RegisterPythFeed, Admit, UpdateFeed
<1>2. DOMAIN collateral \subseteq DOMAIN collateral'
  BY DEF Govern, ProposeParams, AdoptParams, SetPaused, NominateAuthority, AcceptAuthority,
         RegisterCollateral, UpdateCollateral, RegisterFeed, RegisterPythFeed, Admit,
         UpdateFeed, With, registries
<1>3. DOMAIN feeds \subseteq DOMAIN feeds' /\ \A s \in DOMAIN feeds : registered'[s] = registered[s]
  BY DEF GovInv, FeedsInv, Govern, ProposeParams, AdoptParams, SetPaused, NominateAuthority,
         AcceptAuthority, RegisterCollateral, UpdateCollateral, RegisterFeed, RegisterPythFeed,
         Admit, UpdateFeed, With, registries
<1>4. GovInv'
  BY GovernKeeps
<1> QED BY <1>1, <1>2, <1>3, <1>4 DEF GovInv, FeedsInv

-----------------------------------------------------------------------------
(* Governance, seen from a market, moves one permission at a time.         *)

Permissions == {"creation", "collateral", "feeds"}

LEMMA RegistryIs ==
  /\ Registry \subseteq Permissions
  /\ declared = {} => Registry = Permissions
BY DEF Registry, Permissions

(* A feed that is active stays so as time passes.                          *)
LEMMA RegistryKept ==
  ASSUME ProtocolInv, UNCHANGED <<governance, declaration>>, now' = now \/ now' = now + 1
  PROVE  Registry' = Registry
<1>1. now \in Nat
  BY DEF ProtocolInv, GovInv, ConfigInv
<1>2. config' = config /\ collateral' = collateral /\ feeds' = feeds /\ declared' = declared
      /\ collateral_mint' = collateral_mint
  BY DEF governance, registries, declaration
<1>3. \A s \in declared : is_active(feeds[s], now') = is_active(feeds[s], now)
  <2> SUFFICES ASSUME NEW s \in declared
               PROVE  is_active(feeds[s], now') = is_active(feeds[s], now)
    OBVIOUS
  <2>1. feeds[s].effective_at <= now /\ feeds[s].effective_at \in Int
    BY DEF ProtocolInv, DeclarationInv, GovInv, FeedsInv, FeedAccount
  <2> QED BY <2>1, <1>1 DEF is_active
<1>4. \A permission \in Permissions : Permits(permission)' = Permits(permission)
  BY <1>2, <1>3 DEF Permits
<1> QED BY <1>2, <1>4 DEF Registry, Permissions

LEMMA OneAtATime ==
  ASSUME ProtocolInv, Govern, now' = now, UNCHANGED declaration
  PROVE  \E p \in Permissions : Registry' \ {p} = Registry \ {p}
<1>1. declared' = declared /\ collateral_mint' = collateral_mint
  BY DEF declaration
<1>2. CASE declared = {}
  BY <1>1, <1>2 DEF Registry, Permissions
<1>3. CASE declared # {}
  <2>1. collateral_mint \in DOMAIN collateral /\ declared \subseteq DOMAIN feeds
    BY <1>3 DEF ProtocolInv, DeclarationInv
  <2>2. \E p \in Permissions : \A q \in Permissions : q # p => Permits(q)' = Permits(q)
    <3>1. ASSUME config'.paused = config.paused, feeds' = feeds
          PROVE  \A q \in Permissions : q # "collateral" => Permits(q)' = Permits(q)
      BY <3>1, <1>1 DEF Permits, Permissions
    <3>2. ASSUME collateral' = collateral, feeds' = feeds
          PROVE  \A q \in Permissions : q # "creation" => Permits(q)' = Permits(q)
      BY <3>2, <1>1 DEF Permits, Permissions
    <3>3. CASE \E paused \in BOOLEAN : SetPaused(paused)
      BY <3>2, <3>3 DEF SetPaused, registries, Permissions
    <3>4. CASE UNCHANGED config /\ UNCHANGED feeds
      BY <3>1, <3>4 DEF Permissions
    <3>5. CASE UNCHANGED config /\ UNCHANGED collateral
      BY <3>5, <1>1 DEF Permits, Permissions
    <3>6. CASE UNCHANGED registries
      BY <3>2, <3>6 DEF registries, Permissions
    <3> QED
      BY <3>3, <3>4, <3>5, <3>6
      DEF Govern, ProposeParams, AdoptParams, NominateAuthority, AcceptAuthority,
          RegisterCollateral, UpdateCollateral, RegisterFeed, RegisterPythFeed, Admit, UpdateFeed
  <2> QED BY <2>2, <1>1, <1>3 DEF Registry, Permissions
<1> QED BY <1>2, <1>3

(* Taking one permission away, or giving it back, is a step of Market.     *)
LEMMA PermissionStep ==
  ASSUME NEW p \in Permissions, Registry' \ {p} = Registry \ {p}, UNCHANGED <<now, market_vars>>
  PROVE  M!Next \/ UNCHANGED M!vars
<1>1. Registry \subseteq Permissions /\ Registry' \subseteq Permissions
  BY RegistryIs DEF Registry, Permissions
<1>2. M!Permission = Permissions
  BY DEF M!Permission, Permissions
<1>3. UNCHANGED <<now, accounts, M!lifecycle, M!settlement, staked, fee_owed, bond, snapshot,
                  supply, vault, M!history>>
  BY DEF market_vars, M!lifecycle, M!settlement, M!history
<1>4. CASE p \in Registry /\ p \notin Registry'
  <2>1. Cardinality(Permissions \ Registry) < 3
    <3>1. IsFiniteSet(Permissions) /\ Cardinality(Permissions) = 3
      <4> DEFINE two == {"creation"} \cup {"collateral"}
      <4>1. IsFiniteSet({"creation"}) /\ Cardinality({"creation"}) = 1
        BY FS_Singleton
      <4>2. IsFiniteSet(two) /\ Cardinality(two) = 2
        BY <4>1, FS_AddElement
      <4>3. "feeds" \notin two
        OBVIOUS
      <4>4. IsFiniteSet(two \cup {"feeds"}) /\ Cardinality(two \cup {"feeds"}) = 3
        <5> HIDE DEF two
        <5> QED BY <4>2, <4>3, FS_AddElement
      <4>5. Permissions = two \cup {"feeds"}
        BY DEF Permissions
      <4> QED BY <4>4, <4>5
    <3>2. IsFiniteSet(Permissions \ {p}) /\ Cardinality(Permissions \ {p}) = 2
      BY <3>1, FS_RemoveElement
    <3>3. Permissions \ Registry \in SUBSET (Permissions \ {p})
      BY <1>4
    <3>4. /\ Cardinality(Permissions \ Registry) \in Nat
          /\ Cardinality(Permissions \ Registry) <= 2
      BY <3>2, <3>3, FS_Subset, FS_CardinalityType
    <3> QED BY <3>4
  <2>2. M!Cardinality(Permissions \ Registry) = Cardinality(Permissions \ Registry)
    BY DEF M!Cardinality, Cardinality
  <2>3. Registry' = Registry \ {p}
    BY <1>4
  <2>4. M!Revoke(p)
    BY <1>2, <1>3, <1>4, <2>1, <2>2, <2>3 DEF M!Revoke
  <2> QED BY <2>4, <1>2 DEF M!Next
<1>5. CASE p \notin Registry /\ p \in Registry'
  <2>1. M!Restore(p)
    BY <1>1, <1>3, <1>5 DEF M!Restore
  <2> QED BY <2>1, <1>2 DEF M!Next
<1>6. CASE p \in Registry <=> p \in Registry'
  <2>1. Registry' = Registry
    BY <1>6
  <2> QED BY <2>1, <1>3 DEF M!vars, market_vars
<1> QED BY <1>4, <1>5, <1>6

(* create_market is Market's: governance grants everything at that moment. *)
LEMMA Creation ==
  ASSUME ProtocolInv, NEW sources \in SUBSET DOMAIN feeds, NEW mint \in Mint,
         NEW at \in SettleInstants, CreateMarket(sources, mint, at)
  PROVE  M!Next /\ ProtocolInv'
<1>1. PICK thinnest \in Depths : Granted!CreateMarket(config.params, at, thinnest)
  BY DEF CreateMarket
<1>2. /\ UNCHANGED governance /\ now' = now /\ declared' = sources /\ collateral_mint' = mint
      /\ ~config.paused /\ mint \in DOMAIN collateral /\ collateral[mint].enabled
      /\ \A s \in sources : is_active(feeds[s], now)
      /\ Cardinality(sources) \in MIN_MARKET_FEEDS .. MAX_INPUTS
  BY DEF CreateMarket
<1>3. /\ config' = config /\ collateral' = collateral /\ feeds' = feeds
      /\ registered' = registered /\ proposal' = proposal /\ nominee' = nominee
  BY <1>2 DEF governance, registries
<1>4. Registry = Permissions /\ Registry' = Permissions
  <2>1. "mints" \notin accounts
    BY <1>1 DEF Granted!CreateMarket, Granted!Fresh, Granted!Initialised
  <2>2. Registry = Permissions
    BY <2>1, RegistryIs DEF ProtocolInv, DeclarationInv
  <2>3. \A permission \in Permissions : Permits(permission)'
    BY <1>2, <1>3 DEF Permits, Permissions
  <2> QED BY <2>2, <2>3 DEF Registry, Permissions
<1>5. M!CreateMarket(config.params, at, thinnest)
  <2>1. \A d, bps : M!mul_bps(d, bps) = Granted!mul_bps(d, bps)
    BY DEF M!mul_bps, Granted!mul_bps
  <2>2. \A p : M!schedule(p, at) = Granted!schedule(p, at)
    BY DEF M!schedule, Granted!schedule
  <2>3. M!Instant = Granted!Instant /\ \A t : M!lock_at(t) = Granted!lock_at(t)
    BY DEF M!Instant, Granted!Instant, M!lock_at, Granted!lock_at, M!window_start,
           Granted!window_start
  <2>4. \A t : M!validate(t) = Granted!validate(t)
    BY DEF M!validate, Granted!validate, M!Instant, Granted!Instant, M!lock_at,
           Granted!lock_at, M!window_start, Granted!window_start, M!grace_end,
           Granted!grace_end
  <2>5. M!Nothing = Granted!Nothing /\ M!NoFee = Granted!NoFee
    BY DEF M!Nothing, Granted!Nothing, M!Side, Granted!Side, M!NoFee, Granted!NoFee,
           M!Recipient, Granted!Recipient
  <2> QED
    BY <1>1, <1>4, <2>1, <2>2, <2>3, <2>4, <2>5
    DEF M!CreateMarket, Granted!CreateMarket, Permissions, M!Permission, M!Fresh,
        Granted!Fresh, M!Initialised, Granted!Initialised, M!history, Granted!history
<1>6. M!Next
  <2>1. config.params \in ParamSets /\ thinnest \in Amount
    BY ProtocolConstants DEF ProtocolInv, GovInv, ConfigInv, ConfigAccount
  <2> QED BY <1>5, <2>1 DEF M!Next, M!Amount, Amount
<1>7. GovInv'
  BY <1>2, GovUnchanged DEF ProtocolInv, GovInv, ConfigInv
<1>8. DeclarationInv'
  <2>1. "mints" \in accounts'
    BY <1>1 DEF Granted!CreateMarket, Granted!Initialised
  <2> QED BY <1>2, <1>3, <2>1 DEF DeclarationInv, is_active
<1>9. AnnouncedInv'
  <2>1. open_at' = now + config.params.creation_cooldown /\ params' = config.params
    BY <1>1 DEF Granted!CreateMarket
  <2>2. now \in Int /\ config.params.creation_cooldown \in Int
    BY GovernanceConstants
    DEF ProtocolInv, GovInv, ConfigInv, ConfigAccount, ParamSets, MarketParams
  <2>3. now = open_at' - params'.creation_cooldown
    BY <2>1, <2>2
  <2>4. \A s \in sources : registered[s] + config.timelock <= now
    BY <1>2 DEF is_active, ProtocolInv, GovInv, FeedsInv
  <2>5. Cardinality(sources) >= MIN_MARKET_FEEDS
    BY <1>2, ProtocolConstants
  <2> QED BY <1>2, <1>3, <2>3, <2>4, <2>5 DEF AnnouncedInv
<1> QED BY <1>6, <1>7, <1>8, <1>9 DEF ProtocolInv

(* Every other instruction of a market leaves governance, what was         *)
(* declared and what the market was created with alone.                    *)
LEMMA MarketLeaves ==
  ASSUME ProtocolInv, UNCHANGED <<governance, declaration>>,
         now' = now \/ now' = now + 1,
         "mints" \notin accounts' => "mints" \notin accounts,
         UNCHANGED <<open_at, params>>
  PROVE  ProtocolInv'
<1>1. now \in Nat /\ now' \in Nat /\ now <= now'
  BY DEF ProtocolInv, GovInv, ConfigInv
<1>2. GovInv'
  BY <1>1, GovUnchanged DEF ProtocolInv
<1>3. /\ config' = config /\ collateral' = collateral /\ feeds' = feeds
      /\ registered' = registered /\ declared' = declared
      /\ collateral_mint' = collateral_mint
  BY DEF governance, registries, declaration
<1>4. DeclarationInv'
  <2>1. \A s \in declared : feeds[s].effective_at <= now'
    <3> SUFFICES ASSUME NEW s \in declared PROVE feeds[s].effective_at <= now'
      OBVIOUS
    <3>1. feeds[s].effective_at <= now /\ feeds[s].effective_at \in Int
      BY DEF ProtocolInv, DeclarationInv, GovInv, FeedsInv, FeedAccount
    <3> QED BY <3>1, <1>1
  <2> QED BY <1>3, <2>1 DEF ProtocolInv, DeclarationInv
<1>5. AnnouncedInv'
  BY <1>3 DEF ProtocolInv, AnnouncedInv
<1> QED BY <1>2, <1>4, <1>5 DEF ProtocolInv

(* The market's own instructions are Market's.                             *)
LEMMA MarketSteps ==
  ASSUME ProtocolInv,
         \/ \E side \in Side, amount \in 1 .. cap_per_side : Deposit(side, amount)
         \/ \E reading \in Share \cup {Aborts} : Snapshot(reading)
         \/ Resolve \/ VoidMarket \/ SweepDust \/ Clock \/ Other
  PROVE  M!Next /\ ProtocolInv'
<1> USE DEF declaration
<1>1. ASSUME NEW side \in Side, NEW amount \in 1 .. cap_per_side, Deposit(side, amount)
      PROVE  M!Next /\ ProtocolInv'
  <2>1. M!Next
    BY <1>1 DEF Deposit, M!Next, M!Side, Side
  <2> QED BY <1>1, <2>1, MarketLeaves DEF Deposit, M!Deposit
<1>2. ASSUME NEW reading \in Share \cup {Aborts}, Snapshot(reading)
      PROVE  M!Next /\ ProtocolInv'
  <2>1. M!Next
    BY <1>2 DEF Snapshot, M!Next, M!Share, Share
  <2> QED BY <1>2, <2>1, MarketLeaves DEF Snapshot, M!Snapshot
<1>3. ASSUME Resolve PROVE M!Next /\ ProtocolInv'
  <2>1. M!Next
    BY <1>3 DEF Resolve, M!Next
  <2> QED BY <1>3, <2>1, MarketLeaves DEF Resolve, M!Resolve
<1>4. ASSUME VoidMarket PROVE M!Next /\ ProtocolInv'
  <2>1. M!Next
    BY <1>4 DEF VoidMarket, M!Next
  <2> QED BY <1>4, <2>1, MarketLeaves DEF VoidMarket, M!VoidMarket
<1>5. ASSUME SweepDust PROVE M!Next /\ ProtocolInv'
  <2>1. M!Next
    BY <1>5 DEF SweepDust, M!Next
  <2> QED BY <1>5, <2>1, MarketLeaves DEF SweepDust, M!SweepDust, M!lifecycle
<1>6. ASSUME Clock PROVE M!Next /\ ProtocolInv'
  <2>1. Registry' = Registry
    BY <1>6, RegistryKept DEF Clock
  <2>2. M!Tick
    BY <1>6, <2>1 DEF Clock, M!Tick, market_vars, M!lifecycle, M!settlement, M!history
  <2>3. ProtocolInv'
    BY <1>6, MarketLeaves DEF Clock, market_vars
  <2> QED BY <2>2, <2>3 DEF M!Next
<1>7. ASSUME Other PROVE M!Next /\ ProtocolInv'
  <2>1. M!Next
    BY <1>7 DEF Other, M!Next, M!Side, Side, M!Recipient, Recipient
  <2>2. now' = now /\ UNCHANGED <<open_at, params>> /\ UNCHANGED <<governance, declaration>>
    BY <1>7 DEF Other, M!Claim, M!BurnTokens, M!CollectFee, M!CloseMarket, M!Donate, M!lifecycle
  <2>3. "mints" \notin accounts' => "mints" \notin accounts
    BY <1>7 DEF Other, M!Claim, M!BurnTokens, M!CollectFee, M!CloseMarket, M!Donate
  <2> QED BY <2>1, <2>2, <2>3, MarketLeaves
<1> QED BY <1>1, <1>2, <1>3, <1>4, <1>5, <1>6, <1>7

LEMMA ProtocolStep ==
  ASSUME ProtocolInv, [ProtocolNext]_protocol_vars
  PROVE  (M!Next \/ UNCHANGED M!vars) /\ ProtocolInv'
<1>1. ASSUME NEW sources \in SUBSET DOMAIN feeds, NEW mint \in Mint,
             NEW at \in SettleInstants, CreateMarket(sources, mint, at)
      PROVE  M!Next /\ ProtocolInv'
  BY <1>1, Creation
<1>2. ASSUME GovernanceStep PROVE (M!Next \/ UNCHANGED M!vars) /\ ProtocolInv'
  <2>1. Govern /\ now' = now /\ UNCHANGED market_vars /\ UNCHANGED declaration
    BY <1>2 DEF GovernanceStep
  <2>2. PICK p \in Permissions : Registry' \ {p} = Registry \ {p}
    BY <2>1, OneAtATime
  <2>3. M!Next \/ UNCHANGED M!vars
    BY <2>1, <2>2, PermissionStep
  <2>4. GovInv'
    BY <2>1, GovernKeeps DEF ProtocolInv
  <2>5. /\ DOMAIN collateral \subseteq DOMAIN collateral' /\ DOMAIN feeds \subseteq DOMAIN feeds'
        /\ config'.timelock = config.timelock
        /\ \A s \in DOMAIN feeds : /\ registered'[s] = registered[s]
                                   /\ feeds'[s].effective_at = feeds[s].effective_at
    BY <2>1, RegistriesGrow DEF ProtocolInv
  <2>6. /\ declared' = declared /\ collateral_mint' = collateral_mint /\ accounts' = accounts
        /\ open_at' = open_at /\ params' = params
    BY <2>1 DEF declaration, market_vars
  <2>7. DeclarationInv' /\ AnnouncedInv'
    BY <2>1, <2>5, <2>6 DEF ProtocolInv, DeclarationInv, AnnouncedInv
  <2> QED BY <2>3, <2>4, <2>7 DEF ProtocolInv
<1>3. CASE UNCHANGED protocol_vars
  <2>1. now' = now /\ UNCHANGED <<governance, declaration, market_vars>>
    BY <1>3 DEF protocol_vars, gov_vars
  <2>2. Registry' = Registry
    BY <2>1, RegistryKept
  <2>3. UNCHANGED M!vars
    BY <2>1, <2>2 DEF M!vars, market_vars, M!lifecycle, M!settlement, M!history
  <2>4. ProtocolInv'
    BY <2>1, MarketLeaves DEF market_vars
  <2> QED BY <2>3, <2>4
<1> QED BY <1>1, <1>2, <1>3, MarketSteps DEF ProtocolNext

LEMMA ProtocolAlways == ProtocolSpec => []ProtocolInv
<1>1. ProtocolInv /\ [ProtocolNext]_protocol_vars => ProtocolInv'
  BY ProtocolStep
<1> QED BY <1>1, ProtocolStarts, PTL DEF ProtocolSpec

(* No market is ever on fewer sources than the protocol asks, on a source  *)
(* twice, or on one not announced a timelock before it was created.        *)
THEOREM AnnouncedSources == ProtocolSpec => []SourcesAnnounced
<1>1. ProtocolInv => SourcesAnnounced
  BY PoolsApart
  DEF ProtocolInv, AnnouncedInv, SourcesAnnounced, created_at, DistinctPools
<1> QED BY <1>1, ProtocolAlways, PTL

(* Governance reaches a market through its permissions and in no other     *)
(* way: every behaviour of the two together is one of Market.              *)
THEOREM GovernedMarketIsMarket == ProtocolSpec => ImplementsMarket
<1>1. ProtocolInit => M!Init
  BY DEF ProtocolInit
<1>2. ProtocolInv /\ [ProtocolNext]_protocol_vars => [M!Next]_(M!vars)
  BY ProtocolStep
<1>3. ProtocolSpec => M!Init /\ [][M!Next]_(M!vars)
  BY <1>1, <1>2, ProtocolAlways, PTL DEF ProtocolSpec
<1> QED BY <1>3 DEF ImplementsMarket, M!Spec

-----------------------------------------------------------------------------
(* MarketProofs speaks of any registry and any constants that Market's     *)
(* assumptions allow.  Here it is taken at Protocol's: its definitions are *)
(* those of M once more, and its assumptions are Protocol's own.           *)

Proved == INSTANCE MarketProofs WITH registry <- Registry, MIN_STAKE <- 1, MaxRevoked <- 3

LEMMA MarketAssumptions ==
  /\ MAX_FEE_BPS <= BPS_DENOMINATOR
  /\ 2 * MAX_FEED_CAP_BPS <= BPS_DENOMINATOR
  /\ ParamSets # {} /\ ParamSets \subseteq Proved!MarketParams
  /\ \A p \in ParamSets : Proved!validate_params(p)
  /\ SettleInstants \subseteq Proved!Instant
  /\ 1 \in Nat /\ 3 \in Nat
  /\ Unread \notin Proved!Share /\ Aborts \notin Proved!Share /\ Unread # Aborts
  /\ MaxTime \in Nat /\ MaxDonated \in Nat
<1>1. /\ Proved!MarketParams = MarketParams /\ Proved!Instant = Instant
      /\ Proved!Share = Share
  BY DEF Proved!MarketParams, MarketParams, Proved!Instant, Instant, Proved!Share, Share
<1>2. \A p \in ParamSets : Proved!validate_params(p)
  BY DEF ParamSets, Proved!validate_params, validate_params, Proved!validate, validate,
         Proved!schedule, schedule, Proved!window_start, window_start, Proved!lock_at,
         lock_at, Proved!grace_end, grace_end, Proved!Instant, Instant
<1> QED BY <1>1, <1>2, ProtocolConstants, GovernanceConstants, MarketBounds DEF ParamSets

(* The lemmas of MarketProofs this module uses, free of its assumptions.   *)
LEMMA ProvedOfMarkets ==
  /\ Proved!Init => Proved!IInv
  /\ Proved!IInv /\ [Proved!Next]_(Proved!vars) => Proved!IInv'
  /\ Proved!IInv => Proved!Solvency /\ Proved!NoOverpayment /\ Proved!NobodyLockedIn
<1> USE MarketAssumptions, ScheduleBounds, ParamBounds, PayoutBounds
<1>1. Proved!Init => Proved!IInv
  BY Proved!InvInit DEF Proved!InvInit
<1>2. Proved!IInv /\ [Proved!Next]_(Proved!vars) => Proved!IInv'
  BY Proved!InvStep DEF Proved!InvStep
<1>3. Proved!IInv => Proved!Solvency
  BY Proved!InvSolvency DEF Proved!InvSolvency
<1>4. Proved!IInv => Proved!NoOverpayment
  BY Proved!InvNoOverpayment DEF Proved!InvNoOverpayment
<1>5. Proved!IInv => Proved!NobodyLockedIn
  BY Proved!InvNobodyLockedIn DEF Proved!InvNobodyLockedIn
<1> QED BY <1>1, <1>2, <1>3, <1>4, <1>5

LEMMA ProvedSteps ==
  Proved!IInv /\ [Proved!Next]_(Proved!vars) =>
    /\ [Proved!Exists /\ Proved!DueCause # "None" =>
         \/ Proved!DueCause' = Proved!DueCause /\ UNCHANGED <<status, staked>>
         \/ status' = "Void" /\ status_reason' = Proved!DueCause]_(Proved!vars)
    /\ [Proved!Exists /\ Proved!is_settled /\ Proved!Exists' =>
         UNCHANGED <<Proved!lifecycle, Proved!settlement, staked>>]_(Proved!vars)
    /\ [Proved!Exists /\ ~Proved!Exists' /\ now <= Proved!claim_end =>
         /\ fee_owed = Proved!NoFee
         /\ \A s \in Proved!Side : Proved!Redeems(s) = 0]_(Proved!vars)
<1> USE MarketAssumptions, ScheduleBounds, ParamBounds, PayoutBounds
<1>1. Proved!IInv /\ [Proved!Next]_(Proved!vars) =>
        [Proved!Exists /\ Proved!DueCause # "None" =>
           \/ Proved!DueCause' = Proved!DueCause /\ UNCHANGED <<status, staked>>
           \/ status' = "Void" /\ status_reason' = Proved!DueCause]_(Proved!vars)
  BY Proved!VerdictStep DEF Proved!VerdictStep
<1>2. [Proved!Next]_(Proved!vars) =>
        [Proved!Exists /\ Proved!is_settled /\ Proved!Exists' =>
           UNCHANGED <<Proved!lifecycle, Proved!settlement, staked>>]_(Proved!vars)
  BY Proved!FinalStep DEF Proved!FinalStep
<1>3. Proved!IInv /\ [Proved!Next]_(Proved!vars) =>
        [Proved!Exists /\ ~Proved!Exists' /\ now <= Proved!claim_end =>
           /\ fee_owed = Proved!NoFee
           /\ \A s \in Proved!Side : Proved!Redeems(s) = 0]_(Proved!vars)
  BY Proved!CloseStep DEF Proved!CloseStep
<1> QED BY <1>1, <1>2, <1>3

(* The two instances define the same things: first the pure operators,     *)
LEMMA SameSets ==
  /\ M!Instant = Proved!Instant /\ M!Amount = Proved!Amount /\ M!Share = Proved!Share
  /\ M!Side = Proved!Side /\ M!Recipient = Proved!Recipient
  /\ M!Permission = Proved!Permission
  /\ M!Nothing = Proved!Nothing /\ M!NoFee = Proved!NoFee
BY DEF M!Instant, Proved!Instant, M!Amount, Proved!Amount, M!Share, Proved!Share,
       M!Side, Proved!Side, M!Recipient, Proved!Recipient, M!Permission,
       Proved!Permission, M!Nothing, Proved!Nothing, M!NoFee, Proved!NoFee

LEMMA SameTimes ==
  ASSUME NEW p, NEW at, NEW t
  PROVE  /\ M!schedule(p, at) = Proved!schedule(p, at)
         /\ M!validate(t) <=> Proved!validate(t)
         /\ M!lock_at(t) = Proved!lock_at(t) /\ M!grace_end(t) = Proved!grace_end(t)
BY SameSets DEF M!schedule, Proved!schedule, M!validate, Proved!validate,
                M!window_start, Proved!window_start, M!lock_at, Proved!lock_at,
                M!grace_end, Proved!grace_end

LEMMA SameAmounts ==
  ASSUME NEW a, NEW b, NEW stakes
  PROVE  /\ M!mul_bps(a, b) = Proved!mul_bps(a, b)
         /\ M!pot(stakes) = Proved!pot(stakes)
         /\ M!PotFits(stakes) <=> Proved!PotFits(stakes)
BY DEF M!mul_bps, Proved!mul_bps, M!pot, Proved!pot, M!PotFits, Proved!PotFits

LEMMA SamePayout ==
  ASSUME NEW burned, NEW side, NEW stakes, NEW held
  PROVE  M!payout_for(burned, side, stakes, held) = Proved!payout_for(burned, side, stakes, held)
BY DEF M!payout_for, Proved!payout_for

LEMMA SameSettlement ==
  ASSUME NEW share, NEW stakes, NEW bps, NEW total
  PROVE  /\ M!settle_fee(share, stakes, bps) = Proved!settle_fee(share, stakes, bps)
         /\ M!settle_pools(share, stakes, bps) = Proved!settle_pools(share, stakes, bps)
         /\ M!fee_cut(total) = Proved!fee_cut(total)
<1>1. /\ M!gross_yes(share, stakes) = Proved!gross_yes(share, stakes)
      /\ M!transferred(share, stakes) = Proved!transferred(share, stakes)
  BY DEF M!gross_yes, Proved!gross_yes, M!transferred, Proved!transferred, M!abs_diff,
         Proved!abs_diff, M!pot, Proved!pot
<1>2. M!settle_fee(share, stakes, bps) = Proved!settle_fee(share, stakes, bps)
  BY <1>1, SameAmounts
  DEF M!settle_fee, Proved!settle_fee
<1>3. M!settle_pools(share, stakes, bps) = Proved!settle_pools(share, stakes, bps)
  BY <1>1, <1>2, SameSets, SameAmounts
  DEF M!settle_pools, Proved!settle_pools
<1>4. M!fee_cut(total) = Proved!fee_cut(total)
  BY SameAmounts DEF M!fee_cut, Proved!fee_cut, M!Recipient, Proved!Recipient
<1> QED BY <1>2, <1>3, <1>4

(* then what they say of a state,                                          *)
LEMMA SameState ==
  /\ M!Exists <=> Proved!Exists
  /\ M!is_settled <=> Proved!is_settled
  /\ M!timetable = Proved!timetable /\ M!claim_end = Proved!claim_end
  /\ M!OneSideEmpty <=> Proved!OneSideEmpty
  /\ M!DueCause = Proved!DueCause
  /\ M!vars = Proved!vars
<1>1. /\ M!Exists <=> Proved!Exists
      /\ M!is_settled <=> Proved!is_settled
      /\ M!OneSideEmpty <=> Proved!OneSideEmpty
      /\ M!timetable = Proved!timetable /\ M!claim_end = Proved!claim_end
  BY SameTimes DEF M!Exists, Proved!Exists, M!is_settled, Proved!is_settled,
                   M!OneSideEmpty, Proved!OneSideEmpty, M!timetable, Proved!timetable,
                   M!claim_end, Proved!claim_end
<1>2. M!DueCause = Proved!DueCause
  BY <1>1, SameTimes
  DEF M!DueCause, Proved!DueCause, M!EmptySideDue, Proved!EmptySideDue,
      M!SnapshotMissedDue, Proved!SnapshotMissedDue, M!snapshot_missed,
      Proved!snapshot_missed
<1>3. M!vars = Proved!vars
  BY DEF M!vars, Proved!vars, M!lifecycle, Proved!lifecycle, M!settlement,
         Proved!settlement, M!history, Proved!history
<1> QED BY <1>1, <1>2, <1>3

(* and last what they call an initial state and a step.                    *)
LEMMA SameInit == M!Init => Proved!Init
BY SameSets DEF M!Init, Proved!Init

LEMMA SameNext == [M!Next]_(M!vars) => [Proved!Next]_(Proved!vars)
<1> SUFFICES ASSUME [M!Next]_(M!vars) PROVE [Proved!Next]_(Proved!vars)
  OBVIOUS
<1>1. ASSUME NEW p \in ParamSets, NEW at \in SettleInstants, NEW thinnest \in M!Amount,
             M!CreateMarket(p, at, thinnest)
      PROVE  Proved!Next
  <2>1. Proved!CreateMarket(p, at, thinnest)
    BY <1>1, SameSets, SameTimes, SameAmounts
    DEF M!CreateMarket, Proved!CreateMarket, M!Fresh, Proved!Fresh, M!Initialised,
        Proved!Initialised, M!history, Proved!history
  <2> QED BY <2>1, SameSets DEF Proved!Next
<1>2. ASSUME NEW side \in M!Side, NEW amount \in 1 .. cap_per_side, M!Deposit(side, amount)
      PROVE  Proved!Next
  <2>1. Proved!Deposit(side, amount)
    BY <1>2, SameTimes, SameState
    DEF M!Deposit, Proved!Deposit, M!deposits_open, Proved!deposits_open, M!DepositFits,
        Proved!DepositFits, M!deposit, Proved!deposit, M!settlement, Proved!settlement,
        M!history, Proved!history
  <2> QED BY <2>1, SameSets DEF Proved!Next
<1>3. ASSUME NEW reading \in M!Share \cup {Aborts}, M!Snapshot(reading)
      PROVE  Proved!Next
  <2>1. Proved!Snapshot(reading)
    BY <1>3, SameTimes, SameState
    DEF M!Snapshot, Proved!Snapshot, M!snapshot_open, Proved!snapshot_open,
        M!PayFromBond, Proved!PayFromBond, M!settlement, Proved!settlement
  <2> QED BY <2>1, SameSets DEF Proved!Next
<1>4. ASSUME NEW cause, M!VoidWith(cause) PROVE Proved!VoidWith(cause)
  BY <1>4, SameSets
  DEF M!VoidWith, Proved!VoidWith
<1>5. ASSUME M!Resolve PROVE Proved!Next
  <2>1. M!SettleWith(snapshot) => Proved!SettleWith(snapshot)
    BY SameAmounts, SameSettlement
    DEF M!SettleWith, Proved!SettleWith
  <2>2. Proved!Resolve
    BY <1>4, <1>5, <2>1
    DEF M!Resolve, Proved!Resolve, M!PayFromBond, Proved!PayFromBond
  <2> QED BY <2>2 DEF Proved!Next
<1>6. ASSUME M!VoidMarket PROVE Proved!Next
  <2>1. Proved!VoidMarket
    BY <1>4, <1>6, SameState
    DEF M!VoidMarket, Proved!VoidMarket, M!history, Proved!history
  <2> QED BY <2>1 DEF Proved!Next
<1>7. ASSUME NEW side \in M!Side, NEW burned \in 1 .. supply[side], M!Claim(side, burned)
      PROVE  Proved!Next
  <2>1. Proved!Claim(side, burned)
    BY <1>7, SamePayout, SameState
    DEF M!Claim, Proved!Claim, M!Redeemable, Proved!Redeemable, M!lifecycle,
        Proved!lifecycle, M!settlement, Proved!settlement
  <2> QED BY <2>1, SameSets DEF Proved!Next
<1>8. ASSUME NEW recipient \in M!Recipient, M!CollectFee(recipient) PROVE Proved!Next
  <2>1. Proved!CollectFee(recipient)
    BY <1>8, SameState
    DEF M!CollectFee, Proved!CollectFee, M!lifecycle, Proved!lifecycle, M!settlement,
        Proved!settlement, M!history, Proved!history
  <2> QED BY <2>1, SameSets DEF Proved!Next
<1>9. ASSUME M!SweepDust \/ M!CloseMarket \/ M!Tick \/ M!Donate PROVE Proved!Next
  <2>1. Proved!SweepDust \/ Proved!CloseMarket \/ Proved!Tick \/ Proved!Donate
    BY <1>9, SameState
    DEF M!SweepDust, Proved!SweepDust, M!CloseMarket, Proved!CloseMarket, M!Tick,
        Proved!Tick, M!Horizon, Proved!Horizon, M!Donate, Proved!Donate, M!lifecycle,
        Proved!lifecycle, M!settlement, Proved!settlement, M!history, Proved!history
  <2> QED BY <2>1 DEF Proved!Next
<1>10. ASSUME NEW permission \in M!Permission, M!Revoke(permission) \/ M!Restore(permission)
       PROVE  Proved!Next
  <2>1. Proved!Revoke(permission) \/ Proved!Restore(permission)
    BY <1>10, SameSets
    DEF M!Revoke, Proved!Revoke, M!Restore, Proved!Restore, M!Cardinality,
        Proved!Cardinality, M!lifecycle, Proved!lifecycle, M!settlement,
        Proved!settlement, M!history, Proved!history
  <2> QED BY <2>1, SameSets DEF Proved!Next
<1>11. ASSUME NEW side \in M!Side, NEW amount \in 1 .. supply[side],
              M!BurnTokens(side, amount)
       PROVE  Proved!Next
  <2>1. Proved!BurnTokens(side, amount)
    BY <1>11 DEF M!BurnTokens, Proved!BurnTokens, M!lifecycle, Proved!lifecycle,
                 M!settlement, Proved!settlement, M!history, Proved!history
  <2> QED BY <2>1, SameSets DEF Proved!Next
<1>12. ASSUME UNCHANGED M!vars PROVE UNCHANGED Proved!vars
  BY <1>12 DEF M!vars, Proved!vars, M!lifecycle, Proved!lifecycle, M!settlement,
               Proved!settlement, M!history, Proved!history
<1> QED
  BY <1>1, <1>2, <1>3, <1>5, <1>6, <1>7, <1>8, <1>9, <1>10, <1>11, <1>12 DEF M!Next

(* What MarketProofs proves of a state holds of a governed market.         *)
LEMMA ProvedInvariants ==
  ASSUME Proved!IInv
  PROVE  /\ M!Solvency /\ M!VaultAccounted /\ M!TokensBacked /\ M!SettlementSplitsPot
         /\ M!NoOverpayment /\ M!PrincipalReturned /\ M!EveryCrankPaid /\ M!NobodyLockedIn
<1>1. /\ Proved!Solvency /\ Proved!NoOverpayment /\ Proved!NobodyLockedIn
      /\ Proved!VaultAccounted /\ Proved!TokensBacked /\ Proved!SettlementSplitsPot
      /\ Proved!PrincipalReturned /\ Proved!EveryCrankPaid
  BY ProvedOfMarkets DEF Proved!IInv
<1>2. M!FeesOwed = Proved!FeesOwed /\ \A side : M!Redeems(side) = Proved!Redeems(side)
  BY SamePayout DEF M!FeesOwed, Proved!FeesOwed, M!Redeems, Proved!Redeems
<1>3. M!Solvency /\ M!NoOverpayment
  BY <1>1, <1>2, SameSets, SamePayout, SameState
  DEF M!Solvency, Proved!Solvency, M!NoOverpayment, Proved!NoOverpayment
<1>4. M!VaultAccounted /\ M!SettlementSplitsPot
  BY <1>1, <1>2, SameAmounts, SameState
  DEF M!VaultAccounted, Proved!VaultAccounted, M!SettlementSplitsPot,
      Proved!SettlementSplitsPot
<1>5. M!TokensBacked /\ M!PrincipalReturned /\ M!EveryCrankPaid
  BY <1>1, SameSets, SameState
  DEF M!TokensBacked, Proved!TokensBacked, M!PrincipalReturned,
      Proved!PrincipalReturned, M!EveryCrankPaid, Proved!EveryCrankPaid
<1>6. M!NobodyLockedIn
  BY <1>1, SameSets, SameTimes, SameAmounts, SameState
  DEF M!NobodyLockedIn, Proved!NobodyLockedIn
<1> QED BY <1>1, <1>3, <1>4, <1>5, <1>6

(* Governance can neither break a market's accounts nor lock anybody in:   *)
(* the safety of Market holds of every market under it.                    *)
LEMMA GovernedInv == ProtocolSpec => []Proved!IInv
<1>1. ProtocolInit => Proved!IInv
  BY SameInit, ProvedOfMarkets DEF ProtocolInit
<1>2. ProtocolInv /\ Proved!IInv /\ [ProtocolNext]_protocol_vars => Proved!IInv'
  <2> SUFFICES ASSUME ProtocolInv, Proved!IInv, [ProtocolNext]_protocol_vars
               PROVE  Proved!IInv'
    OBVIOUS
  <2>1. [M!Next]_(M!vars)
    BY ProtocolStep
  <2>2. [Proved!Next]_(Proved!vars)
    BY <2>1, SameNext
  <2> QED BY <2>2, ProvedOfMarkets
<1> QED BY <1>1, <1>2, ProtocolAlways, PTL DEF ProtocolSpec

THEOREM GovernedMarketSafe ==
  ProtocolSpec =>
    [](/\ M!Solvency /\ M!VaultAccounted /\ M!TokensBacked /\ M!SettlementSplitsPot
       /\ M!NoOverpayment /\ M!PrincipalReturned /\ M!EveryCrankPaid /\ M!NobodyLockedIn)
<1>1. Proved!IInv =>
        /\ M!Solvency /\ M!VaultAccounted /\ M!TokensBacked /\ M!SettlementSplitsPot
        /\ M!NoOverpayment /\ M!PrincipalReturned /\ M!EveryCrankPaid /\ M!NobodyLockedIn
  BY ProvedInvariants
<1> QED BY <1>1, GovernedInv, PTL

(* A due void stays due, a settlement is never revised and a market closed *)
(* early forfeits nothing, whatever governance does in between.            *)
THEOREM GovernedMarketStands ==
  ProtocolSpec => M!VerdictStands /\ M!SettlementFinal /\ M!CloseForfeitsNothing
<1>1. Proved!IInv /\ [M!Next]_(M!vars) =>
        /\ [M!Exists /\ M!DueCause # "None" =>
             \/ M!DueCause' = M!DueCause /\ UNCHANGED <<status, staked>>
             \/ status' = "Void" /\ status_reason' = M!DueCause]_(M!vars)
        /\ [M!Exists /\ M!is_settled /\ M!Exists' =>
             UNCHANGED <<M!lifecycle, M!settlement, staked>>]_(M!vars)
        /\ [M!Exists /\ ~M!Exists' /\ now <= M!claim_end =>
             /\ fee_owed = M!NoFee
             /\ \A s \in M!Side : M!Redeems(s) = 0]_(M!vars)
  <2>1. (M!DueCause = Proved!DueCause /\ (M!Exists <=> Proved!Exists))'
    <3>1. M!DueCause = Proved!DueCause /\ (M!Exists <=> Proved!Exists)
      BY SameState
    <3> QED BY <3>1, PTL
  <2> SUFFICES ASSUME Proved!IInv, [M!Next]_(M!vars), ~UNCHANGED M!vars
               PROVE  /\ M!Exists /\ M!DueCause # "None" =>
                           \/ M!DueCause' = M!DueCause /\ UNCHANGED <<status, staked>>
                           \/ status' = "Void" /\ status_reason' = M!DueCause
                      /\ M!Exists /\ M!is_settled /\ M!Exists' =>
                           UNCHANGED <<M!lifecycle, M!settlement, staked>>
                      /\ M!Exists /\ ~M!Exists' /\ now <= M!claim_end =>
                           /\ fee_owed = M!NoFee
                           /\ \A s \in M!Side : M!Redeems(s) = 0
    OBVIOUS
  <2>2. [Proved!Next]_(Proved!vars) /\ ~UNCHANGED Proved!vars
    BY SameNext DEF M!vars, Proved!vars, M!lifecycle, Proved!lifecycle, M!settlement,
                    Proved!settlement, M!history, Proved!history
  <2>3. /\ Proved!Exists /\ Proved!DueCause # "None" =>
             \/ Proved!DueCause' = Proved!DueCause /\ UNCHANGED <<status, staked>>
             \/ status' = "Void" /\ status_reason' = Proved!DueCause
        /\ Proved!Exists /\ Proved!is_settled /\ Proved!Exists' =>
             UNCHANGED <<Proved!lifecycle, Proved!settlement, staked>>
        /\ Proved!Exists /\ ~Proved!Exists' /\ now <= Proved!claim_end =>
             /\ fee_owed = Proved!NoFee
             /\ \A s \in Proved!Side : Proved!Redeems(s) = 0
    BY <2>2, ProvedSteps
  <2>4. \A s : M!Redeems(s) = Proved!Redeems(s)
    BY SamePayout DEF M!Redeems, Proved!Redeems
  <2> QED
    BY <2>1, <2>3, <2>4, SameSets, SameState
    DEF M!lifecycle, Proved!lifecycle, M!settlement, Proved!settlement
<1>2. ProtocolInv /\ [ProtocolNext]_protocol_vars => [M!Next]_(M!vars)
  BY ProtocolStep
<1> QED
  BY <1>1, <1>2, GovernedInv, ProtocolAlways, PTL
  DEF ProtocolSpec, M!VerdictStands, M!SettlementFinal, M!CloseForfeitsNothing

=============================================================================

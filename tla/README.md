# TLA+ for the parametric prediction market

This directory specifies, model-checks and proves the protocol of this
repository: the Solana program in `programs/prediction-market` and the pure
crates it is built on. Paths below are relative to the repository's root.

Run from this directory:

    tlasany Market.tla                          parse
    tlc -config MCMarket.cfg MCMarket           model-check
    tlapm MarketProofs.tla                      check proofs

## 1. Inventory: the system and its parts

| Part | Code | State | Operations | Talks to |
|---|---|---|---|---|
| Market state machine | `programs/prediction-market/src/instructions`, `utils/settlement.rs`, `state/market.rs` | one `Market` account (status, timetable, stakes, pools, fees, bond), its spec, snapshot, vault and two mints | create, deposit, snapshot, resolve, void, claim, collect a fee, sweep, close | copies parameters from `Config`, reads feeds at the snapshot, runs the predicate at resolution, moves SPL tokens |
| Timetable | `crates/market-core/src/schedule.rs` | none | derived instants, phase predicates, `validate` | every instruction with a deadline |
| Division of the pot | `crates/market-core/src/payout.rs`, fee cuts in `resolve.rs` | none | `settle`, `payout_for`, three cuts | resolve, claim |
| Transition table | `crates/market-core/src/state.rs` | a `MarketState` | `apply` | nothing: the program restates it |
| Governance | the config, registry and authority instructions | `Config`, `Feed`, `Collateral` | timelocked parameters, immediate switches, two-step handover | create, deposit, snapshot |
| Observation ring reader | `crates/market-feeds/src/raydium.rs` | none (reads a foreign account) | walk a ring, interpolate, average | snapshot, feed registration |
| Pyth reader | `crates/market-feeds/src/pyth.rs`, `price.rs` | none | check, scale and invert one account | snapshot |
| Predicate machine | `crates/market-vm` | operand stacks | decode, verify, execute | create (verify), resolve (both) |
| Ramp and fixed point | `crates/market-core/src/ramp.rs`, `crates/market-math` | none | score to share | resolve |
| Clients | `packages`, `apps`, `scripts` | none of the protocol's | build transactions | the program |

**How the parts interact.** Everything runs inside Solana instructions. An
instruction is atomic: it takes effect whole or not at all, and its accounts
are locked while it runs. There are no locks, threads or callbacks to
interleave *inside* the program; what interleaves is whole instructions, sent
by anybody, in any order, at any time, with three things the program does not
control: the clock, governance's switches, and SPL tokens that holders burn or
send without asking. Two markets share no account from which money moves.

**What is hard.** A market lives for months over nine instructions with four
deadlines. Most of its errors would be *sequences* of legal calls: claims in an
unlucky order with unlucky roundings, a close before everybody was paid, a void
racing a snapshot at the last second, an identifier used again while tokens of
its first market still circulate, a market nobody touches. Each hazard is
listed at its line in `PROJECT.json` with the properties that guard it.

**What makes each part correct.**

- *Market*: the vault covers everything owed while claims are open; collateral
  is neither created nor lost; tokens are backed; no claim order pays more; a
  side that gained gets its stake back; each crank is paid; a settlement is
  final; the cause for a void is stable; no stake is locked in; every market
  settles and empties.
- *Timetable*: no bet within the window or just before it; the window stays
  within the history the ring keeps.
- *Division*: exact, fee on the gain only, monotone in the share, subadditive
  under splitting.
- *Transition table*: the program's executions are the table's.
- *Governance*: parameters in force stood announced for the whole timelock;
  authority passes to the latest nominee only; no pool is two feeds; a market is
  never touched by a later change, and its sources were announced before it.
- *Ring reader*: the average is that of the recorded price path, or an error;
  it does not depend on when the window is read; a window stays readable as
  long as the ring is guaranteed to keep it.
- *Pyth reader*: whoever chooses the update, it averages no second in which
  bets were taken, and its price is exact to one part in the band's floor.
- *Predicate machine*: a verified program cannot fail on types or stack depth;
  an aggregate lies between what it aggregates.
- *Ramp*: a strike and a band accepted at creation turn every score into a share,
  and a higher score never into a lower share.
- *Fixed point*: every result is the exact one rounded down.

## 2. Modules

    Schedule --- Params ---+------ Governance ----+
       |                   |                      +-- Protocol --- ProtocolProofs
    Timetable   Payout ----+--- Market -----------+   (MCGovernance, MCProtocol)
       |          |               |  |                      :
      Pyth --+    |     MarketInv + Lifecycle          INSTANCE
       |     |    |            |  |                         :
       |    Q64   |        MarketProofs . . . . . . . . . . :
       |     |    |         (MarketState; MCMarket, MCLifecycle)
       |     +-- Ramp --+
       |     |    |     |          Predicate --- PredicateProofs
       |     |  PayoutCases         (Q64; MCPredicate)
       |     |    |     |
       |     |   ScoreCases --- PayoutProofs      Ring --- RingProofs
       |     |    (MCScore)                        (MCRing)
    TimetableProofs (MCTimetable, MCPyth)

`IntegerLemmas` (floors, remainders, induction) is under every module of proofs
but `ProtocolProofs`; `PayoutLemmas` adds what `MarketProofs` and `PayoutProofs`
both need of `Payout`.

| Module | Models | State and actions |
|---|---|---|
| `Schedule` | `schedule.rs` | operators with the code's names; `validate` is the conjunction of all its refusals, the overflow checks being membership in `Instant` |
| `Params` | `state/params.rs`, `utils/params.rs` | parameter sets and `validate_params`; the oracle tolerances are in `Pyth` |
| `Payout` | `payout.rs`, the cuts of `resolve.rs` | operators; a Q64 share is an integer over `Q64_ONE`, a shift right is the division by it, all divisions floor |
| `Market` | the nine instructions | below |
| `MarketInv` | the inductive invariant of `Market` | |
| `MarketState`, `Lifecycle` | `state.rs` and the refinement of `Market` to it | `phase` derives the table's state from the status and the clock |
| `Governance` | the eleven instructions of governance | `config`, `collateral` and `feeds` are the accounts, the registries being functions on the sources and mints that have one; one action per instruction |
| `Protocol` | a market under governance | the variables of both; `Registry` reads Market's permissions off governance's accounts |
| `Ring` | `raydium.rs`, and a pool that writes the ring it reads | the clock, the current tick, the slots, the newest; `Swap` and `Tick`. The reader is operators |
| `Timetable`, `Pyth` | a clock over any accepted timetable; `pyth.rs`, `price.rs` | `Init` is the validation of `create_market`; updates are quantified over |
| `Q64`, `Ramp` | `q64.rs`, `ramp.rs` | operators; a failed operation is `Err`; `pow10` is a recursive function, as are the sums of `Ring` and `Predicate` |
| `PayoutCases`, `ScoreCases` | a share rising over any small pot; a score rising and the share the ramp makes of it | one action each; `ScoreCases` implements `PayoutCases` |
| `Predicate` | `market-vm` | the verifier reads one instruction a step, then the interpreter runs one a step |
| `IntegerLemmas`, `PayoutLemmas`, `*Proofs` | the theorems | |
| `MC*` | values for TLC | |

### Market, variable by variable

| Variable | Code |
|---|---|
| `now` | `Clock::unix_timestamp`, which never goes back |
| `registry` | what governance lets through: `creation` is `!config.paused`, `collateral` is `collateral.enabled`, `feeds` is that every declared feed is active |
| `accounts` | which accounts of this identifier exist; both mints are one element |
| `status` ... `bond` | the fields of `Market`, with the same names; `staked_yes` and `staked_no` are one function, and so are the pools and the fees owed |
| `snapshot` | what the frozen prices will settle to: a share, or `Aborts` when the predicate or the ramp fails on them. Freezing prices and evaluating a pure function of them later are one choice, made when the prices are frozen |
| `supply`, `vault` | balances of the SPL accounts |
| `redeemed`, `paid`, `cranked`, `donated`, `swept` | history, read by properties only |

Each action is one whole handler with its account constraints as guards.
`create_market` needs spec, vault and mints not to exist because Anchor's
`init` fails on an existing account; `close_market` removes market, spec and
vault, while mints and snapshot stay. So an identifier is used at most once, and the
model needs no second generation. `lifecycle` chooses its instants so that a
second market would fit after the first, were the identifier free, and `IInv`
would notice its tokens.
`void` has `DueCause` for a guard, an empty side first as in the code. `claim`
burns the whole balance of one token account: `burned` ranges over every
balance some split of the supply could give. `PayFromBond` pays what is left up to
the reward. A checked addition that overflows is a guard (`PotFits`).

Left out, because no property depends on it: the strike, the ramp and the
predicate (their result is `snapshot`; `ScoreCases` and `Predicate` are about
them), the creation fee, rent, event logs, who
signs, and destinations other than by role. The additions to `i64` instants after
creation and lamport transfers are taken not to overflow.

A definition whose comment calls it a slip is no part of the model. It is a
mistake the code could have made in the definition that follows it, and is there to
show that a property notices it.

### Governance and Protocol

`config` is the `Config` account without its treasury and program addresses,
which no instruction changes after `initialize_config`. `proposal`, `nominee`
and `registered` are history, read by properties only. Which ring a pool names
and which pool a ring names (`ObservationKey`, `PoolId`) are arbitrary functions
because anybody can create either account; that the CLMM program owns both is
taken as given. `register_feed` also reads a window of the ring: whether that
succeeds is up to the ring, so the action may always happen and never has to.

`Market` sees governance as a set of permissions that come and go. `Protocol`
runs the two on one clock and reads that set off the accounts (`Registry`):
`creation` is `!config.paused`, `collateral` is the mint's switch, `feeds` is
`is_active` of every declared feed. `create_market`, `deposit` and `snapshot` read
governance; the six other instructions of a market are Market's. `ImplementsMarket` is
the refinement `ProtocolSpec => Market!Spec` under `registry <- Registry`: it says
that nothing else of governance reaches a market. A market has one identifier and one
mint, and the creation of another market is not an event in its life.

### Ring

The ring is written by Raydium's program, which is not in this repository:
`Init`, `Swap` and `Tick` are what the code and its comments rely on (one record per
`OBSERVATION_UPDATE_DURATION`, in the slot after the newest, of the tick that stood
before the swap, in a cumulative that wraps), and are marked external. Everything
the reader does is translated: `Readable` is the conjunction of its refusals,
`start_boundary` and `end_boundary` what its loop leaves in `start` and `end`, and
`average_tick` its result. A position's slot and a segment's ends keep the code's
arithmetic modulo the ring. The history variable `log` holds every tick ever
credited, which no property could otherwise speak of after an overwrite;
`credited_until` sums it second by second. That a cumulative difference over
the clock's whole range fits the cumulative's type is assumed (`RingConstants`): a
tick is below 2^20, a timestamp below 2^32 and the cumulative an `i64`.

### Predicate

The bytecode is any program, made up while it is read: `Read` and `Refuse` are the
verifier's step on the instruction that comes next, `EndOfCode` its final
checks. `Execute` is the call in `resolve`, `Step` and `Finish` the interpreter. What
the verifier pops (`expected`) and what the interpreter pops (`demanded`) are
written down separately, each from its own `match`. An error the verifier should
have excluded leads to `stuck`, an arithmetic one to `aborted`; the program voids
the market in both cases. Sorting is modelled by what it returns (`Ranked`), the
mean by its running total, which is `Err` from the first sum that overflows on.
`Err` is not one of the machine's values, `Result` being a type of its own.

### Pyth, Q64, Ramp

A raw number is an integer within an `i128`'s range, whatever `RAW_SPAN` is. The
256-bit intermediates of a product and a quotient are exact. Results outside the
range are `Err`, as is every kind of `MathError`. Subtractions of
instants in `pyth.rs` that overflow panic (`overflow-checks` is on in release
builds), which refuses the update as the model does.

## 3. Runs

| Run | Question | States |
|---|---|---|
| `market_safety` | can any interleaving lose, create, misassign or lock in collateral? | 719 240 |
| `lifecycle` | does the program implement the transition table, keep `IInv`, and settle and empty an abandoned market? | 215 432 |
| `protocol` | can governance do more to a market than switch permissions? were its sources announced? | 255 600 |
| `governance` | can parameters, authority or a feed change without what the timelock, the handover and the registration ask? | 470 664 |
| `ring` | is every average that of the recorded path, whenever it is read, for as long as promised? | 1 360 |
| `predicate` | does every verified program run as the verifier said? | 567 294 |
| `timetable` | what do `validate` and the checks of a Pyth update guarantee together? | 29 860 |
| `payout` | from a score to the payments: is the ramp total and monotone, and how is every small pot divided? | 131 040 |
| `status_mirror`, `late_void`, `segment_bound`, `quiet_window` | do four comments describe the code? (they do not) | |

**Bounds, and why they are enough.**

- Amounts: `U64_MAX` is 15 in `market_safety`, with a cap of half of that at
  most in the ratio governance's own bounds give (20 % there, 50 % here: the
  largest for which two full sides still fit, which the proofs confirm is all
  that matters). Caps run up to 3 per side, so that a side can be redeemed in
  one, two or three pieces and every floor loses something in some state.
- `Q64_ONE` and `BPS_DENOMINATOR` are 4: shares 0, 1/4, 1/2, 3/4 and 1, a fee of
  3/4. The fee is larger than governance allows in reality because a small
  fee floors to zero on small pots; with 3/4 fee, cuts and remainders are all
  non-zero in some state and zero in another.
- Time: all durations are one second in `market_safety`, so every phase is one
  tick wide and every boundary is met from both sides; `lifecycle` takes three
  parameter sets with a cooldown from 0 to 2, and windows and graces of 1 and 2,
  with room for a second market after an early one.
- `MaxTime` bounds the clock until the market settles; afterwards it runs until
  one second past `claim_end` (`Horizon`), after which no guard changes value.
- `MaxDonated` = 1 and `MaxRevoked` = 1: one stray unit, and any one switch off at a
  time. Both are only bounds of the world outside. `protocol` needs no bound on
  switches, since governance's own accounts are finite, and leaves donations out.
- `governance`: two keys and the default address, two valid parameter sets and an
  invalid one, a timelock of 2 against a clock up to 3, so that a proposal can be
  adopted, overwritten before and overwritten after its wait; three rings of which
  one names a pool that names another ring.
- `protocol`: two rings that make a market together (`MIN_MARKET_FEEDS` 2), one
  key, one parameter set, one unit a side. What two parameter sets or deeper
  sides add is in the two runs it composes; what is new here is only how their
  steps interleave. The rings are symmetric.
- `ring`: three slots two seconds apart and eight seconds, in which the ring wraps
  and overwrites its oldest slot more than once; cumulatives start at either end
  of their range, so that one wraps within a window; ticks of -2 and 1 give
  averages with remainders of both signs. Every window of every length is read
  at every second, with a limit that binds and one that does not.
- `predicate`: six instructions, a stack of three, values from -8 to 7.5 in
  halves. Every signature has an instruction; prices are such that sums, products and
  differences overflow in some programs and a `SELECT` takes either branch.
- `timetable`: instants from -8 to 5 overflow at both ends; tolerances of 1 in
  windows of 3 and 4 are the least with which two averages still overlap. Prices
  have six fractional bits and quotes lie on both sides of each limit.
- `payout`: strikes whose band rounds away, overflows, or is accepted; scores on, next
  to and between all ends; every pot of two sides up to 8 together.
- Runs set `CHECK_DEADLOCK FALSE`: a closed market whose tokens are all burned and whose
  clock reached the horizon has nothing left to do, nor has a program that was
  rejected or scored, or a bounded clock.

**Fairness** (`FairSpec`, in `lifecycle`) is weak fairness of the clock
and of `resolve`, `void` and `sweep_dust`. All three are permissionless: their
contexts ask for any signer (`resolve` is even paid for from the bond), and nobody can
withdraw the condition once it holds, so weak fairness says only that
somebody eventually sends a transaction. No fairness is assumed of depositors,
of the snapshot's keeper, of claimants or of governance, which may keep a feed
disabled for ever. The run therefore covers the abandoned market. The same
properties are not run under `Protocol`: it refines `Market`, whose permissions
these four steps do not read.

**Comments that the code does not match.** `status_mirror`: the stored status
goes from `Open` straight to `Snapshotted`, `Locked` is never stored, and the
table would refuse that move. Read off the clock, the phase does follow the
table (`FollowsTable`, checked and proved). `late_void`: a missed snapshot is
decided between the settlement instant and the end of the grace, not before.
`segment_bound`: `validate` accepts a `max_segment` as long as the window.
`quiet_window`: a record at the first second of the window counts as one strictly
inside it.

Read beside the code, without a run: `exec.rs:259` sorts "the n <= 8 this ever
sees", while an arity may be anything up to `MAX_STACK`; `market-vm/src/lib.rs:54`
says a `Bool` is a `Q64` at run time, where `exec.rs:281` gives it a variant of its
own; `price.rs:9` says composing feeds cannot fall off the type, which holds
of one price times a small one, not of two prices near the ceiling; `price.rs:45` and
`snapshot.rs:244` warn of inverses past the ceiling, which the floor of 2^-40 already
excludes, though a price near the ceiling does invert to one below the floor;
`config.rs:29` says feed changes wait for the timelock, which is so of a
registration, and not of `update_feed`; `config.rs:33` speaks of a governance action
that changes a program's address, and there is none; `market-feeds/src/lib.rs:49`
says of `BufferNotFull` that "only full buffers are accepted", where
`raydium.rs:243` reads a ring that has not wrapped from its first slot and `:252`
refuses only one with fewer than two records.

## 4. Proofs

TLAPS checks these for all values of the constants that satisfy the named
assumptions: `ScheduleBounds`, `ParamBounds`, `PayoutBounds` (types and signs,
each duration's minimum at least one second), `GovernanceBounds` (the fee is at
most the whole and the cap at most half of the depth: 500 and 2000 of 10 000 in
the code), `MarketConstants` (governance adopts validated sets only),
`GovernanceConstants`, `ProtocolConstants` and `MarketBounds` (types, a timelock of
at least a second, a default address that is no key and no pool, and that some
proposal is valid), `Q64Bounds`, `ScoreBounds` and `MachineBounds` (types, and that
the numbers the code makes from an `i64` fit), `PythBounds` (a tolerance below the
skew, and below half a window: 30 against 60 and 120 seconds in the code) and
`RingConstants` (two slots at least, and cumulatives as said above). Every safety
property of every passing run is a theorem.

- **Inductive invariant of a market.** The solvency of a vault is not inductive: it
  holds only while
  claims are open and says nothing of how much was claimed already. `IInv` adds
  to it (1) conservation, `VaultAccounted`; (2) that a side's claims together
  stay below the exact proportion, `paid * staked <= redeemed * pool`, without
  division, which is what one floor more preserves; (3) that tokens never
  outnumber stakes; (4) what pools and fees are before settlement and how each
  ending looks; (5) which accounts exist together. `Invariant` proves
  `Spec => []IInv`, one lemma per action. From it follow `Solvent`, `Accounted`, `Backed`,
  `SplitsPot`, `NeverOverpaid`, `StakesReturned`, `CranksPaid` and `NobodyStuck`: with
  two caps within a `u64` a pot always fits, so `resolve` cannot fail for good, and a
  market without a snapshot is one with an empty side or with a grace that ends.
- **Its action properties.** `SettledForGood`, `CloseIsFree` and `VerdictStable`.
- **Its refinement.** `ImplementsTable`: `Spec => Table!Spec` under `phase`. It
  rests on `open_at < lock_at < settle_at`, part of `IInv`.
- **Governance and composition.** `GovInv` says of the config that a pending set is
  the one proposed last and matures a timelock after it, and that a nomination is
  the latest one; of the feeds, that each waits a timelock from its registration and
  that its pool names it. From it `OnePoolOneFeed`, `AdoptionsWaited` and
  `LatestNomineeAccepts`. `ProtocolInv` adds what a market remembers of the registry.
  `GovernedMarketIsMarket` then maps every step: governance moves one permission at a
  time (`OneAtATime`), which is a `Revoke`, a `Restore` or a stutter of Market, and
  the clock, which can turn an inactive feed active, never does so for a declared one,
  since a feed is declared only after its wait. That is also `AnnouncedSources`.
  What is proved of `Market` for any registry is then taken at this one: `Proved`
  instantiates `MarketProofs`, `MarketAssumptions` discharges its assumptions from
  Protocol's (a market copies parameters that governance validated), and `SameNext`
  identifies its steps with those of the refinement. `GovernedMarketSafe` is the eight
  invariants of a market and `GovernedMarketStands` its three action properties,
  under all of governance.
- **Predicate machine.** `MachineInv` keeps the verifier's run as a history
  (`trace`): each entry follows from the one before by `type_step`, was accepted and
  is no deeper than `peak`. The interpreter's types are the entry at its program
  counter; so a pop that the verifier allowed succeeds. `StacksAgree` and
  `VerifiedNeverStuck` follow, for programs of any length. `AggregatesStayBetween`
  adds that every number on the stack is a value of the type (`NumbersFit`). A median
  exists because the least threshold with enough values below it is one of them
  (`RankExists`); a running total of `n` values stays between `n` times the least and
  `n` times the greatest by induction on `n`, and the rounding of a quotient by a whole
  number cannot cross either (`WholeQuotient`).
- **Ramp.** `RampIsTotal` shows that what `validate_ramp` computes at the strike
  excludes every overflow at every other score; `ShareFollowsScore` that
  `ScoreCases` implements `PayoutCases`, from the monotonicity of a floored quotient.
- **Division.** `PayoutProofs` proves the four properties of `PayoutCases` for all
  amounts, shares and fees, from nonlinear lemmas on floors in `PayoutLemmas`; by the
  refinement they hold of every score.
- **Fixed point.** `ArithmeticRoundsDown`: sums, products, quotients and remainders on
  sign and magnitude are the floors of the exact results. Products and quotients go
  through `SignedFloor`, which relates the floor of a signed fraction to that of its
  magnitude and the remainder's being zero.
- **Timetable and Pyth.** `BetsKeepTheirDistance`, `HistorySuffices`;
  `AveragesStartAfterBets` from the skew exceeding any tolerance, and
  `AnyTwoAveragesOverlap`. `PriceIsPrecise`: an average and its inverse lose at most
  one part in the band's floor, by `FloorLoses` for the first division and
  `InverseOfMultiple` and `InverseOfQuotient` for the second.
- **Ring.** `RingInv` says how a ring came about: records are at least one update
  apart and the last one is no later than the clock (`RecordsSpaced`), and the slots
  are the last `OBSERVATION_NUM` records of the log, each in the slot of its number
  (`RingMirrorsLog`). From it `RingLaidOut` shows where the code's walk starts and
  that it meets the retained records in order, and `CumulativesAgree` that two
  cumulatives differ, modulo their wrap, by the ticks credited between them, by
  induction over the seconds (`SegmentSum`). `AveragesThePath` follows with
  the floor of a wrapped difference. For `SnapshotsAgree`, both ends of a window are
  characterised by records of the log instead of slots (`BoundariesByRecord`): a later
  record overwrites a slot, and never changes the first record at or past an
  instant. For `GraceReadable`, so is `Readable` (`ReadableIs`): a record can only push
  the window's start out of the ring once `OBSERVATION_NUM - 1` of them, each one update
  apart, lie after it (`WindowOutlasts`).

**Inductions over data.** The library's induction principles take an operator for a
parameter, which these provers cannot instantiate. `IntegerLemmas` states induction for
*sets* of naturals instead (`LeastNatural`, from the well-foundedness of `<`, and
`IntervalInduction`), and a proof forms the set of the numbers for which its claim
holds. A recursive function is unfolded by `NatInductiveDef`.

**Only model-checked.** `EventuallySettles` and `EventuallyDrained`: TLAPS 1.4.5 has
no rules for fairness or `ENABLED`. What is proved of them is their safety part, that the
crank they wait for is there (`NobodyStuck`) and that nothing takes its condition away
(`VerdictStable`). And that the four violated comments are violated.

## 5. Not modelled

- The power of 1.0001 for an average tick (`tick.rs`, `tables.rs`) is a product over
  a table of 128-bit constants: any small instance would need a table of its own
  and show nothing of the real one. It is tested against vectors in the repository.
  `u256.rs` is long arithmetic that never overflows; `Q64` takes its results as exact.
- Hashing of a spec and of a snapshot's readings (`hashing.rs`): a serialisation and a
  hash. The spec account has one writer and one address.
- `pool.rs` and the offsets, discriminators and lengths of foreign accounts: layout.
- `encode.rs`, the browser bindings, the SDK, the web application and the scripts:
  they build what the program checks and keep no state of the protocol's.
- Events and errors: logging and codes.
- The identity and layout checks of a Pyth update (`pyth.rs:85-91`): `Pyth` starts where
  the update is known to be the feed's own. `StepLimitExceeded` of the interpreter: it
  runs each operation once, and the verifier accepts no more than `MAX_OPS` of them.
- Two markets at once: they share no account from which money moves, and
  `markets_created` is for reporting.

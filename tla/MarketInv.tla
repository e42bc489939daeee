----------------------------- MODULE MarketInv -----------------------------
(***************************************************************************)
(* The inductive invariant behind the safety properties of Market.  Those  *)
(* properties relate the vault to the pools only when the market can be    *)
(* claimed from; the conjuncts below are what carries them from one        *)
(* instruction to the next.                                                *)
(***************************************************************************)
EXTENDS Market

(* Which accounts exist together, and that nothing happened before them.   *)
AccountsInv ==
  /\ Exists => {"spec", "vault", "mints"} \subseteq accounts
  /\ "vault" \in accounts => Exists
  /\ "snapshot" \in accounts => "mints" \in accounts
  /\ "snapshot" \in accounts <=> snapshot # Unread
  /\ "mints" \notin accounts =>
       /\ accounts = {} /\ status = "Created" /\ ~swept
       /\ supply = Nothing /\ redeemed = Nothing /\ paid = Nothing
       /\ vault = 0 /\ donated = 0 /\ cranked = 0

(* What every market was created with, and the cap it keeps to.            *)
CreationInv ==
  Exists => /\ validate(timetable)
            /\ open_at < lock_at(timetable)
            /\ 2 * cap_per_side <= U64_MAX
            /\ \A s \in Side : staked[s] <= cap_per_side

(* Before it settles a market owes nothing and has paid nothing.           *)
UnsettledInv ==
  Exists /\ ~is_settled =>
    /\ pools = Nothing /\ fee_total = 0 /\ fee_owed = NoFee
    /\ redeemed = Nothing /\ paid = Nothing /\ ~swept
    /\ status_reason = "None"
    /\ status = "Created" => staked = Nothing
    /\ status = "Snapshotted" <=> "snapshot" \in accounts
    /\ status = "Snapshotted" => ~OneSideEmpty /\ now >= lock_at(timetable)

(* How a market settled decides which cranks ran.                          *)
SettledInv ==
  Exists /\ is_settled =>
    /\ status = "Resolved" => status_reason = "None" /\ "snapshot" \in accounts
    /\ status = "Void" => /\ status_reason # "None"
                          /\ status_reason = "PredicateAborted"
                               <=> "snapshot" \in accounts
                          /\ pools = staked
    /\ swept => now > claim_end

(* The floors of all claims together stay below the exact proportion.      *)
ClaimsInv ==
  Exists => \A s \in Side :
    /\ paid[s] * staked[s] <= redeemed[s] * pools[s]
    /\ redeemed[s] = 0 => paid[s] = 0

IInv ==
  /\ TypeOK
  /\ AccountsInv /\ CreationInv /\ UnsettledInv /\ SettledInv /\ ClaimsInv
  /\ VaultAccounted /\ TokensBacked /\ SettlementSplitsPot
  /\ PrincipalReturned /\ EveryCrankPaid

=============================================================================

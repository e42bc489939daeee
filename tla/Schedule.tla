------------------------------ MODULE Schedule ------------------------------
(***************************************************************************)
(* A market's timetable (crates/market-core/src/schedule.rs): the instants *)
(* derived from the settlement instant, the phases they delimit, and the   *)
(* validation every parameter set and every new market goes through.      *)
(*                                                                         *)
(* Instants are whole seconds of an i64; FirstInstant and LastInstant are  *)
(* the ends of that range, kept as parameters so that the overflow checks  *)
(* of the code have something to refuse.                                   *)
(*                                                                         *)
(* Here and in the modules below, a definition called a slip is not part   *)
(* of the model: it is a mistake the code could have made in the           *)
(* definition after it, and breaks the property meant to catch it.         *)
(***************************************************************************)
EXTENDS Integers

CONSTANTS
  MIN_TWAP_WINDOW, MAX_TWAP_WINDOW,   \* bounds on the averaging window
  MIN_GRACE, MAX_GRACE,               \* bounds on the grace period
  MIN_SKEW, MAX_SKEW,                 \* bounds on the lock-to-window gap
  MAX_HISTORY_BUDGET,                 \* the history the observation ring guarantees
  FirstInstant, LastInstant           \* i64::MIN and i64::MAX

(* What the code's own constants satisfy and the proofs need: every       *)
(* duration is strictly positive and none reaches the width of an instant. *)
ASSUME ScheduleBounds ==
  /\ MIN_TWAP_WINDOW \in Nat \ {0} /\ MAX_TWAP_WINDOW \in Nat
  /\ MIN_GRACE \in Nat \ {0} /\ MAX_GRACE \in Nat
  /\ MIN_SKEW \in Nat \ {0} /\ MAX_SKEW \in Nat
  /\ MAX_HISTORY_BUDGET \in Nat
  /\ FirstInstant \in Int /\ LastInstant \in Int
  /\ FirstInstant < 0 /\ 0 < LastInstant

Instant == FirstInstant .. LastInstant

Timetables ==
  [settle_at : Instant, twap_window : Nat, grace : Nat, skew : Nat, max_segment : Nat]

window_start(s) == s.settle_at - s.twap_window
lock_at_window(s) == window_start(s)                    \* slip: betting until the window
lock_at(s)      == window_start(s) - s.skew
grace_end(s)    == s.settle_at + s.grace

deposits_open(s, now, open_at) == open_at <= now /\ now < lock_at(s)
snapshot_open_early(s, now)    == now <= grace_end(s)     \* slip: no lower bound
snapshot_open(s, now)          == s.settle_at <= now /\ now <= grace_end(s)
snapshot_missed_early(s, now)  == grace_end(s) <= now     \* slip: overlaps snapshot_open
snapshot_missed(s, now)        == grace_end(s) < now

(* The slip of bounding each duration and not what they add up to.         *)
validate_unbudgeted(s) ==
  /\ s.twap_window \in MIN_TWAP_WINDOW .. MAX_TWAP_WINDOW
  /\ s.grace \in MIN_GRACE .. MAX_GRACE
  /\ s.skew \in MIN_SKEW .. MAX_SKEW
  /\ {window_start(s), lock_at(s), grace_end(s)} \subseteq Instant

(* Schedule::validate, without the error codes: all of its refusals.  The *)
(* last two conjuncts are its checked subtractions and its checked sum.    *)
validate(s) ==
  /\ s.twap_window \in MIN_TWAP_WINDOW .. MAX_TWAP_WINDOW
  /\ s.grace \in MIN_GRACE .. MAX_GRACE
  /\ s.skew \in MIN_SKEW .. MAX_SKEW
  /\ s.max_segment # 0
  /\ s.twap_window + s.grace <= MAX_HISTORY_BUDGET
  /\ window_start(s) \in Instant /\ lock_at(s) \in Instant
  /\ grace_end(s) \in Instant

=============================================================================

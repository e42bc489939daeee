----------------------------- MODULE Timetable -----------------------------
(***************************************************************************)
(* The clock running over any timetable that Schedule::validate accepts:   *)
(* what the validation promises the rest of the program.                   *)
(***************************************************************************)
EXTENDS Schedule

CONSTANT Durations    \* the durations enumerated (bound)

ASSUME DurationsNat == Durations \subseteq Nat

VARIABLES s,          \* a market's timetable
          open_at,    \* when its deposits open
          now

vars == <<s, open_at, now>>

(* create_market also wants the betting deadline after the opening. *)
Init ==
  /\ s \in [settle_at : Instant, twap_window : Durations, grace : Durations,
            skew : Durations, max_segment : Durations]
  /\ validate(s)
  /\ open_at \in Instant /\ open_at < lock_at(s)
  /\ now = open_at

Tick == now < LastInstant /\ now' = now + 1 /\ UNCHANGED <<s, open_at>>

Spec == Init /\ [][Tick]_vars

(* A deposit is refused in the window that will settle it, and for at      *)
(* least MIN_SKEW seconds before: a slow clock cannot let a bet in.        *)
NoBetNearWindow ==
  deposits_open(s, now, open_at) => now + MIN_SKEW < window_start(s)

(* Whenever a snapshot may be taken, the start of the window it reads is   *)
(* within the history that the observation ring guarantees.                *)
HistoryReaches ==
  snapshot_open(s, now) => now - window_start(s) <= MAX_HISTORY_BUDGET

(* The longest tolerated gap is shorter than the window, as the comment on *)
(* Schedule::max_segment says of the protocol.                             *)
SegmentInsideWindow == s.max_segment < s.twap_window

=============================================================================

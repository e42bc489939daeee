-------------------------------- MODULE Ring --------------------------------
(***************************************************************************)
(* The observation ring of a Raydium pool and the average read from it     *)
(* (crates/market-feeds/src/raydium.rs).                                   *)
(*                                                                         *)
(* The pool program writes the ring; what it does is taken from the code   *)
(* that relies on it: a swap records the tick that stood before it, no     *)
(* more often than every OBSERVATION_UPDATE_DURATION seconds, into the     *)
(* slot after the newest one, adding tick times seconds to a cumulative    *)
(* that wraps.  The reader is given the account's bytes, a window and two  *)
(* limits, and either refuses or averages; it keeps nothing.               *)
(***************************************************************************)
EXTENDS Integers, Sequences, FiniteSetsExt

CONSTANTS
  OBSERVATION_NUM,              \* slots of the ring
  OBSERVATION_UPDATE_DURATION,  \* seconds between two records
  CumulativeSpan,               \* 2^63: a cumulative is in -Span .. Span - 1
  TickSpan,                     \* 2^31, likewise for a tick
  Ticks,                        \* the ticks the pool trades at
  FirstCumulatives,             \* the cumulative its first record may hold
  Limits,                       \* the limits a reader may be given
  MaxTime                       \* bound on the clock

ASSUME RingConstants ==
  /\ OBSERVATION_NUM \in Nat \ {0, 1}
  /\ OBSERVATION_UPDATE_DURATION \in Nat \ {0}
  /\ CumulativeSpan \in Nat \ {0} /\ TickSpan \in Nat \ {0}
  /\ Ticks \subseteq -TickSpan .. TickSpan - 1
  /\ FirstCumulatives \subseteq -CumulativeSpan .. CumulativeSpan - 1
  /\ \A l \in Limits : l.max_segment \in Nat /\ l.min_observations \in Nat
  /\ MaxTime \in Nat \ {0}
  /\ \A t \in Ticks : t * MaxTime \in -CumulativeSpan .. CumulativeSpan - 1

(* A hundred records delimit ninety-nine intervals.                        *)
GUARANTEED_HISTORY == (OBSERVATION_NUM - 1) * OBSERVATION_UPDATE_DURATION

VARIABLES
  now,       \* the clock
  tick,      \* the pool's current tick
  slots,     \* timestamp and cumulative of every slot; 0 if never written
  newest,    \* observation_index, the slot written last
  log        \* history: every record ever made, with the tick it credited

vars == <<now, tick, slots, newest, log>>

Slot == 0 .. OBSERVATION_NUM - 1
after_newest == (newest + 1) % OBSERVATION_NUM

(* i64's wrapping arithmetic.                                              *)
Wrapping(n) == ((n + CumulativeSpan) % (2 * CumulativeSpan)) - CumulativeSpan

-----------------------------------------------------------------------------
(* The pool.                                                               *)

Init ==
  /\ now = 1
  /\ tick \in Ticks
  /\ newest = 0
  /\ \E c \in FirstCumulatives :
       slots = [s \in Slot |-> IF s = 0 THEN [timestamp |-> 1, cumulative |-> c]
                               ELSE [timestamp |-> 0, cumulative |-> 0]]
  /\ log = <<[timestamp |-> 1, tick |-> tick]>>

(* A swap moves the tick; it is recorded unless the newest record is too   *)
(* recent, and then credits the tick before the swap to the whole segment. *)
Swap(next_tick) ==
  LET elapsed == now - slots[newest].timestamp
  IN
  /\ tick' = next_tick
  /\ IF elapsed < OBSERVATION_UPDATE_DURATION
       THEN UNCHANGED <<slots, newest, log>>
       ELSE /\ newest' = after_newest
            /\ slots' = [slots EXCEPT ![after_newest] =
                 [timestamp  |-> now,
                  cumulative |-> Wrapping(slots[newest].cumulative + tick * elapsed)]]
            /\ log' = Append(log, [timestamp |-> now, tick |-> tick])
  /\ UNCHANGED now

Tick ==
  /\ now < MaxTime
  /\ now' = now + 1
  /\ UNCHANGED <<tick, slots, newest, log>>

Next == Tick \/ \E next_tick \in Ticks : Swap(next_tick)
Spec == Init /\ [][Next]_vars

-----------------------------------------------------------------------------
(* The reader: a window is a pair of instants, from the first up to but    *)
(* not including the second.                                               *)

wrapped_late == newest = OBSERVATION_NUM - 1            \* slip: only when just full
wrapped == slots[after_newest].timestamp # 0
oldest_slot == IF wrapped THEN after_newest ELSE 0
written == IF wrapped THEN OBSERVATION_NUM ELSE newest + 1

SlotOf(position) == (oldest_slot + position) % OBSERVATION_NUM
Entry(position) == slots[SlotOf(position)]

(* Segments are numbered by the position of the record that closes them.   *)
Segments == 1 .. written - 1
opens(p)  == Entry(p - 1).timestamp
closes(p) == Entry(p).timestamp
delta(p) == Wrapping(Entry(p).cumulative - Entry(p - 1).cumulative)
segment_tick(p) == delta(p) \div (closes(p) - opens(p))

Earlier(a, b) == IF a < b THEN a ELSE b
Later(a, b)   == IF a < b THEN b ELSE a
overlap(p, from, to) == Earlier(closes(p), to) - Later(opens(p), from)

Covers(p, instant) == instant \in opens(p) .. closes(p) - 1
observations_inside(from, to) ==
  Cardinality({p \in Segments : closes(p) \in from .. to - 1})

(* Everything raydium_twap asks before it averages.                        *)
Readable(from, to, limits) ==
  /\ from < to
  /\ written >= 2
  /\ \A p \in 0 .. written - 1 : Entry(p).timestamp # 0
  /\ from >= Entry(0).timestamp /\ to <= Entry(written - 1).timestamp
  /\ \A p \in Segments :
       /\ opens(p) < closes(p)
       /\ delta(p) % (closes(p) - opens(p)) = 0
       /\ segment_tick(p) \in -TickSpan .. TickSpan - 1
       /\ overlap(p, from, to) <= limits.max_segment
  /\ observations_inside(from, to) >= limits.min_observations

(* The slots recorded on either side of a boundary, and the cumulative at  *)
(* the instant itself, exact because a segment is linear.                  *)
boundary_at(p, instant) ==
  [index |-> SlotOf(p - 1), next_index |-> SlotOf(p),
   observed_at |-> opens(p), next_observed_at |-> closes(p),
   interpolated |->
     Wrapping(Entry(p - 1).cumulative + segment_tick(p) * (instant - opens(p)))]
boundary_at_newest(p) ==
  [index |-> SlotOf(p), next_index |-> SlotOf(p),
   observed_at |-> closes(p), next_observed_at |-> closes(p),
   interpolated |-> Entry(p).cumulative]

(* The first segment that settles a boundary; the window's end may also be *)
(* the record that closes one.                                             *)
start_boundary(from) ==
  boundary_at(Min({p \in Segments : Covers(p, from)}), from)
end_boundary_open(to) ==                      \* slip: the record at `to` extends
  LET p == Max({q \in Segments : Covers(q, to) \/ closes(q) = to})
  IN  IF Covers(p, to) THEN boundary_at(p, to) ELSE boundary_at_newest(p)
end_boundary(to) ==
  LET p == Min({q \in Segments : Covers(q, to) \/ closes(q) = to})
  IN  IF Covers(p, to) THEN boundary_at(p, to) ELSE boundary_at_newest(p)

truncating_div(numerator, denominator) ==               \* slip: Rust's own division
  IF numerator < 0 THEN -((-numerator) \div denominator) ELSE numerator \div denominator
floor_div(numerator, denominator) == numerator \div denominator

average_tick(from, to) ==
  floor_div(Wrapping(end_boundary(to).interpolated - start_boundary(from).interpolated),
            to - from)

-----------------------------------------------------------------------------
(* Properties.                                                             *)

Windows == {w \in (1 .. MaxTime) \X (1 .. MaxTime) : w[1] < w[2]}

(* The tick credited to the second that starts at `instant`.               *)
Credited(instant) ==
  LET i == Min({k \in 1 .. Len(log) : log[k].timestamp > instant}) IN log[i].tick

(* And all those of the seconds up to and including `instant`.             *)
credited_until[instant \in Nat] ==
  IF instant = 0 THEN 0 ELSE credited_until[instant - 1] + Credited(instant)

(* Whatever has been overwritten, wherever the ring starts and however the *)
(* cumulative wrapped, an average that is given is the mean of the ticks   *)
(* the pool credited to every second of the window, rounded down.          *)
AverageExact ==
  \A w \in Windows, l \in Limits :
    Readable(w[1], w[2], l) =>
      LET total   == credited_until[w[2] - 1] - credited_until[w[1] - 1]
          seconds == w[2] - w[1]
          average == average_tick(w[1], w[2])
      IN  average * seconds <= total /\ total < (average + 1) * seconds

(* The same window read again later, after any number of swaps, gives the  *)
(* same average from the same records in the same slots: it does not       *)
(* matter who takes the snapshot, or when.                                 *)
ReadingStable ==
  [][\A w \in Windows, l \in Limits :
       Readable(w[1], w[2], l) /\ Readable(w[1], w[2], l)' =>
         /\ start_boundary(w[1])' = start_boundary(w[1])
         /\ end_boundary(w[2])' = end_boundary(w[2])]_vars

(* A window that could be read stays readable for the guaranteed history   *)
(* after it began, however fast the pool is swapped in: a grace period     *)
(* that ends within it can be used to its last second.  At the end of that *)
(* history the record made as the window began may be the oldest, which    *)
(* no longer counts as one inside.                                         *)
WindowKept ==
  [][\A w \in Windows, l \in Limits :
       Readable(w[1], w[2], l) /\ ~Readable(w[1], w[2], l)' =>
         now - w[1] >= GUARANTEED_HISTORY]_vars

(* The field's comment asks for records "strictly inside the window": a    *)
(* record at the very second the window starts is not inside it.           *)
TradedInside ==
  \A w \in Windows, l \in Limits :
    Readable(w[1], w[2], l) =>
      Cardinality({i \in 1 .. Len(log) : w[1] < log[i].timestamp /\ log[i].timestamp < w[2]})
        >= l.min_observations

=============================================================================

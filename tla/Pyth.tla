-------------------------------- MODULE Pyth --------------------------------
(***************************************************************************)
(* A Pyth reading of a market's window (crates/market-feeds/src/pyth.rs,   *)
(* the Pyth half of price.rs and of snapshot).  Whoever settles a market   *)
(* also creates the account it is settled from, out of any signed average: *)
(* an update here is any average at all, and the limits are any that       *)
(* governance can adopt.                                                   *)
(***************************************************************************)
EXTENDS Timetable

CONSTANTS
  MAX_WINDOW_TOLERANCE,   \* thirty seconds
  MAX_CONFIDENCE_BPS,     \* 1000
  MAX_DOWN_SLOTS_RATIO,   \* 200000 out of DOWN_SLOTS_SCALE
  DOWN_SLOTS_SCALE, BPS_DENOMINATOR,
  LowestPrice, HighestPrice,          \* raw 2^-40 and 2^56: the representable band
  Q64_ONE, RAW_SPAN, MAX_POW10_EXP, Err,
  RawPrices, Confidences, Exponents, Ratios    \* what updates may hold (bound)

Q == INSTANCE Q64

(* A deposit's distance from the window exceeds any tolerance, and any two *)
(* windows within tolerance of the same one overlap.                       *)
ASSUME PythBounds ==
  /\ MAX_WINDOW_TOLERANCE \in Nat /\ MAX_CONFIDENCE_BPS \in Nat /\ MAX_DOWN_SLOTS_RATIO \in Nat
  /\ DOWN_SLOTS_SCALE \in Nat /\ BPS_DENOMINATOR \in Nat \ {0}
  /\ MAX_WINDOW_TOLERANCE < MIN_SKEW
  /\ 2 * MAX_WINDOW_TOLERANCE < MIN_TWAP_WINDOW
  /\ Q64_ONE \in Nat \ {0} /\ RAW_SPAN \in Nat \ {0} /\ MAX_POW10_EXP \in Nat
  /\ Err \notin Int
  /\ LowestPrice \in Nat \ {0} /\ HighestPrice \in Nat /\ HighestPrice < RAW_SPAN
  /\ RawPrices \subseteq Int /\ Confidences \subseteq Nat
  /\ Exponents \subseteq Int /\ Ratios \subseteq Nat
  /\ \A p \in RawPrices : Q!from_int(p) \in Q!Raw

VARIABLE limits       \* the tolerances copied with the market's parameters

pyth_vars == <<vars, limits>>

(* What validate_params asks of the tolerances.                            *)
ValidLimits ==
  [window_tolerance     : 1 .. MAX_WINDOW_TOLERANCE,
   max_confidence_bps   : 1 .. MAX_CONFIDENCE_BPS,
   max_down_slots_ratio : 0 .. MAX_DOWN_SLOTS_RATIO]

Times == [start_time : Instant, end_time : Instant]
Quotes == [raw_price : RawPrices, raw_conf : Confidences, exponent : Exponents,
           down_slots_ratio : Ratios]

-----------------------------------------------------------------------------
(* The window the market asked for, not merely a recent one.               *)
WindowRecent(t) ==                                  \* slip: only the end is held to it
  Q!magnitude(t.end_time - s.settle_at) <= limits.window_tolerance
WindowMatches(t) ==
  /\ Q!magnitude(t.start_time - window_start(s)) <= limits.window_tolerance
  /\ Q!magnitude(t.end_time - s.settle_at) <= limits.window_tolerance
  /\ t.start_time < t.end_time

confidence_bps(q) == (q.raw_conf * BPS_DENOMINATOR) \div q.raw_price

in_positive_band(price) == price \in 1 .. HighestPrice       \* slip: no floor
in_representable_band(price) == price \in LowestPrice .. HighestPrice

pyth_price(q) == Q!scale_pow10(Q!from_int(q.raw_price), q.exponent)

(* Everything pyth_twap asks of a quote.                                   *)
Believed(q) ==
  /\ q.down_slots_ratio <= Q!min(limits.max_down_slots_ratio, DOWN_SLOTS_SCALE)
  /\ q.raw_price > 0
  /\ confidence_bps(q) <= limits.max_confidence_bps
  /\ pyth_price(q) # Err /\ in_representable_band(pyth_price(q))

(* A feed may be declared the other way round; the inverse is held to the  *)
(* same band.                                                              *)
invert_price(price) ==
  LET inverted == Q!div(Q64_ONE, price)
  IN  IF inverted # Err /\ in_representable_band(inverted) THEN inverted ELSE Err

reading(q, invert) == IF invert THEN invert_price(pyth_price(q)) ELSE pyth_price(q)

-----------------------------------------------------------------------------
PythInit == Init /\ limits \in ValidLimits
PythTick == Tick /\ UNCHANGED limits
PythSpec == PythInit /\ [][PythTick]_pyth_vars

(* Nobody bets in the stretch of time that an accepted update averages,    *)
(* nor before it begins at a clock that could have seen it: betting has    *)
(* ended, wherever in its tolerance the averaged window starts.            *)
NoBetInAverage ==
  \A t \in Times : WindowMatches(t) /\ deposits_open(s, now, open_at) => now < t.start_time

(* Any two updates a market could be settled from, whoever chooses         *)
(* between them, average at least one second in common, and neither        *)
(* averages less than the tolerated part of the declared window.           *)
AveragesOverlap ==
  \A t, u \in {w \in Times : WindowMatches(w)} :
    /\ t.start_time < u.end_time /\ u.start_time < t.end_time
    /\ t.end_time - t.start_time >= s.twap_window - 2 * limits.window_tolerance

(* The price in a snapshot is the quoted one, or its inverse, to one part  *)
(* in LowestPrice: an ulp is never a visible part of a price, even after   *)
(* rescaling and inverting have each rounded.                              *)
SnapshotPrecise ==
  \A q \in Quotes, invert \in BOOLEAN :
    Believed(q) /\ reading(q, invert) # Err =>
      LET up    == IF q.exponent > 0 THEN Q!pow10[q.exponent] ELSE 1
          down  == IF q.exponent < 0 THEN Q!pow10[-q.exponent] ELSE 1
          \* the exact price is numerator / denominator, in raw units
          numerator   == IF invert THEN Q64_ONE * down ELSE q.raw_price * Q64_ONE * up
          denominator == IF invert THEN q.raw_price * up ELSE down
      IN  Q!magnitude(reading(q, invert) * denominator - numerator) * LowestPrice <= numerator

=============================================================================

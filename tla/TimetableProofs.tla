-------------------------- MODULE TimetableProofs --------------------------
(***************************************************************************)
(* What Schedule::validate promises, for every range of instants and every *)
(* bound on the durations, and what it promises of a Pyth average, for     *)
(* every tolerance governance can adopt.                                   *)
(***************************************************************************)
EXTENDS Pyth, IntegerLemmas

TimeInv ==
  /\ s \in [settle_at : Instant, twap_window : Nat, grace : Nat, skew : Nat,
            max_segment : Nat]
  /\ validate(s)
  /\ now \in Int /\ open_at \in Int

(* The validated timetable and its clock.                                  *)
LEMMA TimeInit == Init => TimeInv
<1> SUFFICES ASSUME Init PROVE TimeInv
  OBVIOUS
<1>1. s \in [settle_at : Instant, twap_window : Nat, grace : Nat, skew : Nat,
             max_segment : Nat]
  BY DurationsNat DEF Init
<1>2. open_at \in Int /\ now \in Int
  BY ScheduleBounds DEF Init, Instant
<1> QED BY <1>1, <1>2 DEF Init, TimeInv

LEMMA TimeStep == TimeInv /\ [Tick]_vars => TimeInv'
<1> SUFFICES ASSUME TimeInv, [Tick]_vars PROVE TimeInv'
  OBVIOUS
<1>1. s' = s /\ open_at' = open_at /\ now' \in Int
  BY DEF TimeInv, Tick, vars
<1> QED BY <1>1 DEF TimeInv

(* A timetable stays what validation accepted.                             *)
LEMMA TimeInvariant == Spec => []TimeInv
BY TimeInit, TimeStep, PTL DEF Spec

(* What the invariant says of the fields the two properties read.          *)
LEMMA Fields ==
  ASSUME TimeInv
  PROVE  /\ s.settle_at \in Int /\ s.twap_window \in Nat /\ s.skew \in Nat /\ s.grace \in Nat
         /\ MIN_SKEW <= s.skew
         /\ s.twap_window + s.grace <= MAX_HISTORY_BUDGET
<1>1. s.settle_at \in Int
  BY ScheduleBounds DEF TimeInv, Instant
<1> QED BY <1>1, ScheduleBounds DEF TimeInv, validate

(* No accepted timetable takes a deposit within MIN_SKEW of its window.    *)
THEOREM BetsKeepTheirDistance == Spec => []NoBetNearWindow
<1>1. TimeInv => NoBetNearWindow
  <2> SUFFICES ASSUME TimeInv, deposits_open(s, now, open_at)
               PROVE  now + MIN_SKEW < window_start(s)
    BY DEF NoBetNearWindow
  <2>1. now < window_start(s) - s.skew
    BY DEF deposits_open, lock_at
  <2>2. now \in Int /\ MIN_SKEW \in Int /\ window_start(s) \in Int
    BY Fields, ScheduleBounds DEF TimeInv, window_start
  <2> QED BY <2>1, <2>2, Fields
<1> QED BY <1>1, TimeInvariant, PTL

(* Every accepted timetable keeps the whole window within the history the  *)
(* observation ring guarantees, up to the last instant of the grace.       *)
THEOREM HistorySuffices == Spec => []HistoryReaches
<1>1. TimeInv => HistoryReaches
  <2> SUFFICES ASSUME TimeInv, snapshot_open(s, now)
               PROVE  now - window_start(s) <= MAX_HISTORY_BUDGET
    BY DEF HistoryReaches
  <2>1. now <= s.settle_at + s.grace /\ now \in Int
    BY DEF snapshot_open, grace_end, TimeInv
  <2> QED BY <2>1, Fields, ScheduleBounds DEF window_start
<1> QED BY <1>1, TimeInvariant, PTL

-----------------------------------------------------------------------------
(* Pyth averages.                                                          *)

LimitsInv ==
  TimeInv /\ limits.window_tolerance \in 1 .. MAX_WINDOW_TOLERANCE

LEMMA LimitsInvariant == PythSpec => []LimitsInv
<1>1. PythInit => LimitsInv
  BY TimeInit DEF PythInit, LimitsInv, ValidLimits
<1>2. LimitsInv /\ [PythTick]_pyth_vars => LimitsInv'
  <2> SUFFICES ASSUME LimitsInv, [PythTick]_pyth_vars PROVE LimitsInv'
    OBVIOUS
  <2>1. [Tick]_vars /\ limits' = limits
    BY DEF PythTick, pyth_vars
  <2> QED BY <2>1, TimeStep DEF LimitsInv
<1> QED BY <1>1, <1>2, PTL DEF PythSpec

(* Where an accepted average begins and ends.                              *)
LEMMA AverageBounds ==
  ASSUME LimitsInv, NEW t \in Times, WindowMatches(t)
  PROVE  LET tolerance == limits.window_tolerance
         IN  /\ tolerance \in Nat /\ tolerance <= MAX_WINDOW_TOLERANCE
             /\ t.start_time \in Int /\ t.end_time \in Int /\ window_start(s) \in Int
             /\ window_start(s) - tolerance <= t.start_time
             /\ t.start_time <= window_start(s) + tolerance
             /\ s.settle_at - tolerance <= t.end_time
<1>1. t.start_time \in Int /\ t.end_time \in Int
  BY ScheduleBounds DEF Times, Instant
<1>2. s.settle_at \in Int /\ window_start(s) \in Int
  BY Fields DEF LimitsInv, window_start
<1>3. limits.window_tolerance \in Nat /\ limits.window_tolerance <= MAX_WINDOW_TOLERANCE
  BY PythBounds DEF LimitsInv
<1>4. \A x \in Int : Q!magnitude(x) <= limits.window_tolerance =>
         -limits.window_tolerance <= x /\ x <= limits.window_tolerance
  BY <1>3 DEF Q!magnitude
<1>5. /\ t.start_time - window_start(s) \in Int /\ t.end_time - s.settle_at \in Int
      /\ Q!magnitude(t.start_time - window_start(s)) <= limits.window_tolerance
      /\ Q!magnitude(t.end_time - s.settle_at) <= limits.window_tolerance
  BY <1>1, <1>2 DEF WindowMatches
<1>6. /\ -limits.window_tolerance <= t.start_time - window_start(s)
      /\ t.start_time - window_start(s) <= limits.window_tolerance
      /\ -limits.window_tolerance <= t.end_time - s.settle_at
  BY <1>4, <1>5
<1> QED BY <1>1, <1>2, <1>3, <1>6

(* Whatever tolerance a market has and wherever in it an update's window   *)
(* starts, betting ended before: a bet never sees what the update averages.*)
THEOREM AveragesStartAfterBets == PythSpec => []NoBetInAverage
<1>1. LimitsInv => NoBetInAverage
  <2> SUFFICES ASSUME LimitsInv, NEW t \in Times, WindowMatches(t),
                      deposits_open(s, now, open_at)
               PROVE  now < t.start_time
    BY DEF NoBetInAverage
  <2>1. now < window_start(s) - s.skew /\ now \in Int
    BY DEF deposits_open, lock_at, LimitsInv, TimeInv
  <2>2. limits.window_tolerance < MIN_SKEW /\ MIN_SKEW <= s.skew /\ s.skew \in Int
    BY AverageBounds, Fields, PythBounds, ScheduleBounds DEF LimitsInv
  <2> QED BY <2>1, <2>2, AverageBounds, ScheduleBounds
<1> QED BY <1>1, LimitsInvariant, PTL

(* However a settler picks among the signed updates that match the window, *)
(* any two share some of what they average.                                *)
THEOREM AnyTwoAveragesOverlap == PythSpec => []AveragesOverlap
<1>1. LimitsInv => AveragesOverlap
  <2> SUFFICES ASSUME LimitsInv, NEW t \in Times, NEW u \in Times,
                      WindowMatches(t), WindowMatches(u)
               PROVE  /\ t.start_time < u.end_time /\ u.start_time < t.end_time
                      /\ t.end_time - t.start_time
                           >= s.twap_window - 2 * limits.window_tolerance
    BY DEF AveragesOverlap
  <2>1. /\ s.twap_window \in Nat /\ s.settle_at \in Int /\ MIN_TWAP_WINDOW <= s.twap_window
        /\ s.settle_at = window_start(s) + s.twap_window
    BY Fields, ScheduleBounds DEF LimitsInv, TimeInv, validate, window_start
  <2>2. 2 * limits.window_tolerance < s.twap_window /\ limits.window_tolerance \in Nat
    BY <2>1, AverageBounds, PythBounds, ScheduleBounds
  <2> DEFINE w == limits.window_tolerance
  <2>3. /\ t.start_time <= window_start(s) + w /\ s.settle_at - w <= t.end_time
        /\ t.start_time \in Int /\ t.end_time \in Int /\ window_start(s) \in Int
    BY AverageBounds
  <2>4. /\ u.start_time <= window_start(s) + w /\ s.settle_at - w <= u.end_time
        /\ u.start_time \in Int /\ u.end_time \in Int
    BY AverageBounds
  <2> HIDE DEF w
  <2>5. w \in Nat /\ 2 * w < s.twap_window
    BY <2>2 DEF w
  <2> QED BY <2>1, <2>3, <2>4, <2>5 DEF w
<1> QED BY <1>1, LimitsInvariant, PTL

-----------------------------------------------------------------------------
(* The price itself.                                                       *)

LEMMA PowersOfTen == \A n \in Nat : Q!pow10[n] \in Nat \ {0}
<1> DEFINE Times10(power, n) == 10 * power
<1>1. NatInductiveDefHypothesis(Q!pow10, 1, Times10)
  BY DEF NatInductiveDefHypothesis, Q!pow10
<1>2. NatInductiveDefConclusion(Q!pow10, 1, Times10)
  BY <1>1, NatInductiveDef
<1>3. Q!pow10 = [n \in Nat |-> IF n = 0 THEN 1 ELSE 10 * Q!pow10[n - 1]]
  BY <1>2 DEF NatInductiveDefConclusion
<1> QED BY <1>3, TenfoldPositive

LEMMA PositiveChecked ==
  ASSUME NEW n \in Nat, NEW lost_precision, Q!from_signed_magnitude(n, lost_precision, FALSE) # Err
  PROVE  Q!from_signed_magnitude(n, lost_precision, FALSE) = n
BY DEF Q!from_signed_magnitude, Q!checked

(* What pyth_twap makes of a positive quote it accepts.                    *)
LEMMA PriceRead ==
  ASSUME NEW raw \in Nat \ {0}, NEW exp \in Int,
         Q!scale_pow10(Q!from_int(raw), exp) # Err
  PROVE  LET price  == Q!scale_pow10(Q!from_int(raw), exp)
             factor == Q!pow10[Q!magnitude(exp)]
         IN  /\ factor \in Nat \ {0}
             /\ exp > 0 => price = (raw * Q64_ONE) * factor
             /\ exp = 0 => price = raw * Q64_ONE
             /\ exp < 0 => price = (raw * Q64_ONE) \div factor
<1> DEFINE factor == Q!pow10[Q!magnitude(exp)]
           n == raw * Q64_ONE
<1>1. n \in Nat \ {0}
  BY PythBounds
<1>2. factor \in Nat \ {0}
  <2>1. Q!magnitude(exp) \in Nat
    BY DEF Q!magnitude
  <2> QED BY <2>1, PowersOfTen
<1> HIDE DEF n, factor
<1>3. Q!from_int(raw) = n /\ Q!magnitude(n) = n /\ n # 0 /\ (n < 0) = FALSE
  BY <1>1 DEF Q!from_int, Q!magnitude, n
<1>4. Q!scale_pow10(n, exp) =
        IF exp = 0 THEN n
        ELSE IF exp > 0 THEN Q!from_signed_magnitude(n * factor, FALSE, FALSE)
        ELSE Q!from_signed_magnitude(n \div factor, n % factor # 0, FALSE)
  BY <1>3 DEF Q!scale_pow10, factor
<1>5. n * factor \in Nat /\ n \div factor \in Nat
  BY <1>1, <1>2
<1>6. exp > 0 => Q!scale_pow10(n, exp) = n * factor
  <2> DEFINE m == n * factor
  <2>1. m \in Nat
    BY <1>5
  <2> HIDE DEF m
  <2>2. Q!scale_pow10(n, exp) # Err
    BY <1>3, Zenon
  <2>3. exp > 0 => Q!scale_pow10(n, exp) = Q!from_signed_magnitude(m, FALSE, FALSE)
    <3>1. exp > 0 => exp # 0
      OBVIOUS
    <3> QED BY <1>4, <3>1, Zenon DEF m
  <2>4. exp > 0 => Q!scale_pow10(n, exp) = m
    BY <2>1, <2>2, <2>3, PositiveChecked
  <2> QED BY <2>4 DEF m
<1>7. exp < 0 => Q!scale_pow10(n, exp) = n \div factor
  <2> DEFINE m == n \div factor
             lost == n % factor # 0
  <2>1. m \in Nat
    BY <1>5
  <2> HIDE DEF m, lost
  <2>2. Q!scale_pow10(n, exp) # Err
    BY <1>3, Zenon
  <2>3. exp < 0 => Q!scale_pow10(n, exp) = Q!from_signed_magnitude(m, lost, FALSE)
    <3>1. exp < 0 => exp # 0 /\ ~(exp > 0)
      OBVIOUS
    <3> QED BY <1>4, <3>1, Zenon DEF m, lost
  <2>4. exp < 0 => Q!scale_pow10(n, exp) = m
    BY <2>1, <2>2, <2>3, PositiveChecked
  <2> QED BY <2>4 DEF m
<1>8. exp = 0 => Q!scale_pow10(n, exp) = n
  BY <1>4
<1> QED BY <1>2, <1>3, <1>6, <1>7, <1>8 DEF n, factor

LEMMA InverseRead ==
  ASSUME NEW price \in Nat \ {0}, invert_price(price) # Err
  PROVE  /\ invert_price(price) = (Q64_ONE * Q64_ONE) \div price
         /\ invert_price(price) \in LowestPrice .. HighestPrice
<1> DEFINE n == Q64_ONE * Q64_ONE
           inverted == Q!div(Q64_ONE, price)
<1>1. n \in Nat /\ n \div price \in Nat
  BY PythBounds
<1>2. invert_price(price) = inverted /\ inverted # Err /\ inverted \in LowestPrice .. HighestPrice
  BY DEF invert_price, in_representable_band
<1>3. Q!magnitude(Q64_ONE) = Q64_ONE /\ Q!magnitude(price) = price /\ price # 0
      /\ ((Q64_ONE < 0) # (price < 0)) = FALSE
  BY PythBounds DEF Q!magnitude
<1>4. inverted = Q!from_signed_magnitude(n \div price, n % price # 0, FALSE)
  BY <1>3 DEF Q!div
<1> HIDE DEF n, inverted
<1>5. inverted = n \div price
  BY <1>1, <1>2, <1>4, PositiveChecked
<1> QED BY <1>2, <1>5 DEF n

LEMMA PricePrecise ==
  ASSUME NEW q \in Quotes, NEW invert \in BOOLEAN,
         q.raw_price > 0, pyth_price(q) # Err, in_representable_band(pyth_price(q)),
         reading(q, invert) # Err
  PROVE  LET up    == IF q.exponent > 0 THEN Q!pow10[q.exponent] ELSE 1
             down  == IF q.exponent < 0 THEN Q!pow10[-q.exponent] ELSE 1
             numerator   == IF invert THEN Q64_ONE * down ELSE q.raw_price * Q64_ONE * up
             denominator == IF invert THEN q.raw_price * up ELSE down
         IN  Q!magnitude(reading(q, invert) * denominator - numerator) * LowestPrice <= numerator
<1> DEFINE raw == q.raw_price
           exp == q.exponent
           price == pyth_price(q)
           up == IF exp > 0 THEN Q!pow10[exp] ELSE 1
           down == IF exp < 0 THEN Q!pow10[-exp] ELSE 1
           one == Q64_ONE
           least == LowestPrice
           factor == Q!pow10[Q!magnitude(exp)]
<1>1. raw \in Nat \ {0} /\ exp \in Int /\ one \in Nat \ {0} /\ least \in Nat \ {0}
  <2>1. q.raw_price \in RawPrices /\ q.exponent \in Exponents
    BY DEF Quotes
  <2>2. RawPrices \subseteq Int /\ Exponents \subseteq Int /\ Q64_ONE \in Nat \ {0} /\ LowestPrice \in Nat \ {0}
    BY PythBounds
  <2>3. raw \in Int /\ exp \in Int
    BY <2>1, <2>2
  <2> QED BY <2>2, <2>3
<1>2. /\ factor \in Nat \ {0}
      /\ exp > 0 => price = (raw * one) * factor
      /\ exp = 0 => price = raw * one
      /\ exp < 0 => price = (raw * one) \div factor
  BY <1>1, PriceRead DEF pyth_price
<1>3. /\ up \in Nat \ {0} /\ down \in Nat \ {0}
      /\ exp < 0 => up = 1 /\ down = factor
      /\ exp = 0 => up = 1 /\ down = 1
      /\ exp > 0 => up = factor /\ down = 1
  BY <1>1, <1>2 DEF Q!magnitude
<1>4. price \in Nat \ {0} /\ least <= price
  BY <1>1, PythBounds DEF in_representable_band
<1> HIDE DEF raw, exp, price, up, down, one, least, factor
<1>5. /\ exp < 0 => price = (raw * one) \div down
      /\ ~(exp < 0) => price = (raw * one) * up
  BY <1>1, <1>2, <1>3
<1>6. CASE ~invert
  <2>1. reading(q, invert) = price
    BY <1>6 DEF reading, price
  <2> DEFINE n == raw * one * up
  <2>2. Q!magnitude(price * down - n) * least <= n
    <3>1. CASE exp < 0
      <4> DEFINE a == raw * one
      <4>1. a \in Nat /\ n = a /\ price = a \div down
        BY <1>1, <1>3, <1>5, <3>1
      <4> HIDE DEF a, n
      <4>2. least <= a \div down
        BY <1>4, <4>1
      <4>3. /\ 0 <= a - (a \div down) * down
            /\ (a - (a \div down) * down) * least <= a
        BY <1>1, <1>3, <4>1, <4>2, FloorLoses
      <4>4. 0 <= a - price * down /\ (a - price * down) * least <= a /\ price * down \in Int
        BY <1>3, <1>4, <4>1, <4>3
      <4> DEFINE b == price * down
      <4> HIDE DEF b
      <4>5. 0 <= a - b /\ (a - b) * least <= a /\ a \in Int /\ b \in Int
        BY <4>1, <4>4 DEF b
      <4>6. Q!magnitude(b - a) = a - b
        BY <4>5 DEF Q!magnitude
      <4> QED BY <4>1, <4>5, <4>6 DEF b
    <3>2. CASE ~(exp < 0)
      <4>1. price = n /\ n \in Nat /\ down = 1
        BY <1>1, <1>3, <1>5, <3>2
      <4> HIDE DEF n
      <4>2. price * down - n = 0
        BY <4>1
      <4>3. Q!magnitude(0) = 0 /\ 0 * least = 0
        BY <1>1 DEF Q!magnitude
      <4> QED BY <4>1, <4>2, <4>3
    <3> QED BY <3>1, <3>2
  <2> QED BY <1>6, <2>1, <2>2 DEF raw, one, up, down, least, exp
<1>7. CASE invert
  <2> DEFINE v == invert_price(price)
             n == one * down
             d == raw * up
  <2>1. reading(q, invert) = v /\ v # Err
    BY <1>7 DEF reading, price
  <2>2. v = (one * one) \div price /\ v \in Int /\ least <= v
    BY <1>4, <2>1, InverseRead, PythBounds DEF one, least
  <2> HIDE DEF v
  <2>3. Q!magnitude(v * d - n) * least <= n
    <3>1. CASE exp < 0
      <4>1. (v * raw - n) * least <= n /\ (n - v * raw) * least <= n /\ d = raw
        BY <1>1, <1>3, <1>4, <1>5, <2>2, <3>1, InverseOfQuotient
      <4> DEFINE a == v * raw
      <4>2. a \in Int /\ n \in Int
        BY <1>1, <1>3, <2>2
      <4> HIDE DEF a, n
      <4>3. (a - n) * least <= n /\ (n - a) * least <= n
        BY <4>1 DEF a
      <4>4. Q!magnitude(a - n) \in {a - n, n - a}
        BY <4>2 DEF Q!magnitude
      <4>5. Q!magnitude(a - n) * least <= n
        BY <4>3, <4>4
      <4> QED BY <4>1, <4>5 DEF a
    <3>2. CASE ~(exp < 0)
      <4>1. d \in Nat \ {0} /\ price = one * d /\ n = one
        BY <1>1, <1>3, <1>5, <3>2
      <4> HIDE DEF d, n
      <4>2. 0 <= one - v * d /\ (one - v * d) * least <= one
        BY <1>1, <2>2, <4>1, InverseOfMultiple
      <4> DEFINE a == v * d
      <4>3. a \in Int /\ one \in Int
        BY <1>1, <2>2, <4>1
      <4> HIDE DEF a
      <4>4. 0 <= one - a /\ (one - a) * least <= one
        BY <4>2 DEF a
      <4>5. Q!magnitude(a - one) = one - a
        BY <4>3, <4>4 DEF Q!magnitude
      <4> QED BY <4>1, <4>4, <4>5 DEF a
    <3> QED BY <3>1, <3>2
  <2> QED BY <1>7, <2>1, <2>3 DEF raw, one, up, down, least, exp
<1> QED BY <1>6, <1>7

(* The price or the inverse a snapshot holds is the quoted one to one part *)
(* in LowestPrice, for every exponent, price and width of the numbers      *)
(* (pyth_twap, invert_price).                                              *)
THEOREM PriceIsPrecise == PythSpec => []SnapshotPrecise
<1>1. SnapshotPrecise
  BY PricePrecise DEF SnapshotPrecise, Believed
<1> QED BY <1>1, PTL

=============================================================================

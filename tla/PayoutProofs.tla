---------------------------- MODULE PayoutProofs ----------------------------
(***************************************************************************)
(* The properties of PayoutCases for every pot, share and fee rate, and    *)
(* those of ScoreCases for every strike, band and score: what the ramp     *)
(* makes of a score, and that Q64 rounds down whatever the signs.          *)
(***************************************************************************)
EXTENDS ScoreCases, PayoutLemmas

InRange == stakes \in [Side -> Nat] /\ share \in Share /\ fee_bps \in 0 .. BPS_DENOMINATOR

(* The parameters of a case never leave their ranges, whatever the share.  *)
LEMMA CasesInRange == Spec => []InRange
<1>1. Init => InRange
  BY PayoutBounds DEF Init, InRange, Stakes, Amount, Share
<1>2. InRange /\ [RaiseShare]_vars => InRange'
  BY PayoutBounds DEF InRange, RaiseShare, vars, Share
<1>3. QED
  BY <1>1, <1>2, PTL DEF Spec

LEMMA FeeRate == InRange => fee_bps \in Nat /\ fee_bps <= BPS_DENOMINATOR
  BY PayoutBounds DEF InRange

(* settle and the three cuts divide every pot exactly, with no part        *)
(* negative: nothing is created, lost or owed twice at resolution.         *)
THEOREM PotSplitsExactly == Spec => []SplitsExactly
<1>1. InRange => SplitsExactly
  <2> SUFFICES ASSUME InRange PROVE SplitsExactly
    OBVIOUS
  <2>1. Pools \in [Side -> Nat] /\ Fee \in Nat /\ Pools["yes"] + Pools["no"] + Fee = pot(stakes)
    BY SettleSplits, FeeRate DEF InRange, Pools, Fee
  <2>2. /\ fee_cut(Fee) \in [Recipient -> Nat]
        /\ fee_cut(Fee)["treasury"] + fee_cut(Fee)["creator"] + fee_cut(Fee)["keeper"] = Fee
    BY <2>1, FeeCut
  <2> QED BY <2>1, <2>2 DEF SplitsExactly
<1>2. QED
  BY <1>1, CasesInRange, PTL

(* The fee is charged on the gain alone: a winner recovers its stake, a    *)
(* loser pays its loss and no more, and an even outcome is free.           *)
THEOREM FeeOnlyOnGain == Spec => []FeeOnGainOnly
<1>1. InRange => FeeOnGainOnly
  BY SettleSplits, FeeRate DEF InRange, FeeOnGainOnly, Pools, Fee
<1>2. QED
  BY <1>1, CasesInRange, PTL

(* A whole side redeems for its whole pool, and no way of splitting a      *)
(* position pays more than redeeming it in one piece.                      *)
THEOREM SplittingNeverPays == Spec => []RedeemsPool
<1>1. InRange => RedeemsPool
  <2> SUFFICES ASSUME InRange, NEW s \in Side, stakes[s] > 0
               PROVE  /\ payout_for(stakes[s], s, stakes, Pools) = Pools[s]
                      /\ \A a \in 0 .. stakes[s] : \A b \in 0 .. stakes[s] - a :
                           payout_for(a, s, stakes, Pools) + payout_for(b, s, stakes, Pools)
                             <= payout_for(a + b, s, stakes, Pools)
    BY DEF RedeemsPool
  <2>1. Pools \in [Side -> Nat] /\ stakes \in [Side -> Nat]
    BY SettleSplits, FeeRate DEF InRange, Pools
  <2> DEFINE p == Pools[s]
             n == stakes[s]
             out(b) == payout_for(b, s, stakes, Pools)
  <2>2. p \in Nat /\ n \in Nat \ {0}
    BY <2>1
  <2>3. out(n) = p
    <3>1. n * p = p * n
      BY <2>2
    <3>2. (p * n) \div n = p
      BY <2>2, DivExact
    <3> QED BY <3>1, <3>2 DEF payout_for
  <2>4. ASSUME NEW a \in 0 .. n, NEW b \in 0 .. n - a
        PROVE  out(a) + out(b) <= out(a + b)
    <3>1. a \in Nat /\ b \in Nat /\ a + b \in Nat
      BY <2>2
    <3>2. out(a) \in Nat /\ out(a) * n <= a * p /\ out(b) \in Nat /\ out(b) * n <= b * p
      BY <3>1, <2>1, <2>2, PayoutFloor
    <3>3. (out(a) + out(b)) * n <= (a + b) * p
      <4> HIDE DEF out, p, n
      <4> QED BY <3>1, <3>2, <2>2
    <3>4. out(a + b) = ((a + b) * p) \div n /\ (a + b) * p \in Nat
      BY <3>1, <2>2 DEF payout_for
    <3> DEFINE apart == out(a) + out(b)
               joint == (a + b) * p
    <3>5. apart \in Nat /\ joint \in Nat /\ apart * n <= joint /\ n \in Nat \ {0}
      BY <3>2, <3>3, <3>4, <2>2
    <3>6. apart <= joint \div n
      <4> HIDE DEF apart, joint, n
      <4> QED BY <3>5, DivAtLeast
    <3> QED BY <3>4, <3>6
  <2> QED BY <2>3, <2>4
<1>2. QED
  BY <1>1, CasesInRange, PTL

(* Moving the share towards a side never lowers that side's pool or raises *)
(* the other's, whatever the fee and wherever the floors fall.             *)
THEOREM PoolsFollowShare == Spec => MonotoneInShare
<1>1. InRange /\ InRange' /\ [RaiseShare]_vars =>
        [Pools'["yes"] >= Pools["yes"] /\ Pools'["no"] <= Pools["no"]]_vars
  <2> SUFFICES ASSUME InRange, InRange', RaiseShare
               PROVE  Pools'["yes"] >= Pools["yes"] /\ Pools'["no"] <= Pools["no"]
    BY DEF vars
  <2>0. PICK next \in share .. Q64_ONE : share' = next
    BY DEF RaiseShare
  <2> DEFINE y == stakes["yes"]
             g == gross_yes(share, stakes)
             h == gross_yes(next, stakes)
             total == pot(stakes)
             f == settle_fee(share, stakes, fee_bps)
             e == settle_fee(next, stakes, fee_bps)
  <2>1. /\ share \in Share /\ next \in Share /\ share <= next
        /\ stakes \in [Side -> Nat] /\ fee_bps \in Nat /\ fee_bps <= BPS_DENOMINATOR
        /\ share' = next /\ stakes' = stakes /\ fee_bps' = fee_bps
    BY <2>0, FeeRate, PayoutBounds DEF InRange, RaiseShare, Share
  <2>2. g \in Nat /\ h \in Nat /\ g <= h /\ g <= total /\ h <= total /\ total \in Nat /\ y \in Nat
    BY <2>1, GrossYes, GrossYesMonotone DEF pot, Side
  <2>3. f = mul_bps(abs_diff(g, y), fee_bps) /\ e = mul_bps(abs_diff(h, y), fee_bps)
    BY DEF settle_fee, transferred
  <2>4. /\ Pools["yes"] = (IF y < g THEN g - f ELSE g)
        /\ Pools["no"] = (IF y < g THEN total - g ELSE total - g - f)
        /\ Pools'["yes"] = (IF y < h THEN h - e ELSE h)
        /\ Pools'["no"] = (IF y < h THEN total - h ELSE total - h - e)
    BY <2>1 DEF Pools, settle_pools, Side
  <2> HIDE DEF y, g, h, total, f, e
  <2>5. /\ abs_diff(g, y) \in Nat /\ abs_diff(h, y) \in Nat
        /\ abs_diff(g, y) = (IF g < y THEN y - g ELSE g - y)
        /\ abs_diff(h, y) = (IF h < y THEN y - h ELSE h - y)
    BY <2>2 DEF abs_diff
  <2>6. f \in Nat /\ e \in Nat /\ f <= abs_diff(g, y) /\ e <= abs_diff(h, y)
    BY <2>1, <2>3, <2>5, MulBps
  <2>7. CASE y < g
    <3>1. h - g \in Nat /\ abs_diff(h, y) = abs_diff(g, y) + (h - g)
      BY <2>2, <2>5, <2>7
    <3>2. e <= f + (h - g)
      BY <3>1, <2>1, <2>3, <2>5, MulBpsStep
    <3> QED BY <3>2, <2>2, <2>4, <2>6, <2>7
  <2>8. CASE g <= y /\ y < h
    BY <2>8, <2>2, <2>4, <2>5, <2>6
  <2>9. CASE h <= y
    <3>1. h - g \in Nat /\ abs_diff(g, y) = abs_diff(h, y) + (h - g)
      BY <2>2, <2>5, <2>9
    <3>2. f <= e + (h - g)
      BY <3>1, <2>1, <2>3, <2>5, MulBpsStep
    <3> QED BY <3>2, <2>2, <2>4, <2>6, <2>9
  <2> QED BY <2>2, <2>7, <2>8, <2>9
<1>2. QED
  BY <1>1, CasesInRange, PTL DEF Spec, MonotoneInShare

-----------------------------------------------------------------------------
(* What the ramp makes of a score, for every strike and band accepted at   *)
(* creation and every width of the numbers.                                *)

Raw == R!Raw

LEMMA RawBounds ==
  /\ RAW_SPAN \in Nat /\ Q64_ONE \in Nat \ {0} /\ Q64_ONE < RAW_SPAN
  /\ Raw = -RAW_SPAN .. RAW_SPAN - 1 /\ Raw \subseteq Int /\ Err \notin Raw
BY ScoreBounds, PayoutBounds DEF Raw, R!Raw

LEMMA PowersOfTen == R!pow10[0] = 1 /\ \A n \in Nat : R!pow10[n] \in Nat \ {0}
<1> DEFINE Times10(power, n) == 10 * power
<1>1. NatInductiveDefHypothesis(R!pow10, 1, Times10)
  BY DEF NatInductiveDefHypothesis, R!pow10
<1>2. NatInductiveDefConclusion(R!pow10, 1, Times10)
  BY <1>1, NatInductiveDef
<1>3. R!pow10 = [n \in Nat |-> IF n = 0 THEN 1 ELSE 10 * R!pow10[n - 1]]
  BY <1>2 DEF NatInductiveDefConclusion
<1> QED BY <1>3, TenfoldPositive

(* Arithmetic that fits is exact, and what does not fit is Err.            *)
LEMMA Checked ==
  ASSUME NEW n
  PROVE  /\ R!checked(n) \in Raw \cup {Err}
         /\ n \in Raw => R!checked(n) = n
         /\ R!checked(n) # Err => n \in Raw /\ R!checked(n) = n
BY DEF Raw, R!checked

(* What validate_ramp accepts has a band whose ends and width all fit.     *)
LEMMA AcceptedBand ==
  ASSUME NEW k \in Raw, NEW b \in 0 .. BPS_DENOMINATOR, R!validate_ramp(k, b)
  PROVE  \E lower, upper \in Raw :
           /\ lower < upper /\ upper - lower \in Raw
           /\ \A x : R!apply_ramp(x, k, b) = R!share_at(x, lower, upper)
<1> DEFINE hw == R!half_width(k, b)
           lower == R!sub(k, hw)
           upper == R!add(k, hw)
<1>1. R!Banded(k, b) /\ lower # Err /\ R!share_at(k, lower, upper) # Err
  BY DEF R!validate_ramp, R!apply_ramp
<1>2. hw \in Raw /\ hw > 0
  <2>1. R!half_width(k, b) # Err /\ R!half_width(k, b) > 0
    BY <1>1 DEF R!Banded
  <2>2. R!half_width(k, b) = R!div(R!mul(k, R!from_int(b)), R!from_int(BPS_DENOMINATOR))
    BY <2>1 DEF R!half_width
  <2>3. R!half_width(k, b) \in Raw \cup {Err}
    BY <2>2, Checked DEF R!div, R!from_signed_magnitude
  <2> QED BY <2>1, <2>3
<1> HIDE DEF hw
<1>3. lower = k - hw /\ lower \in Raw /\ lower < k
  <2>1. lower = R!checked(k - hw)
    BY DEF R!sub
  <2>2. lower = k - hw /\ lower \in Raw
    BY <1>1, <2>1, Checked
  <2> QED BY <2>2, <1>2, RawBounds
<1>4. upper # Err
  BY <1>1, <1>3, RawBounds DEF R!share_at
<1>5. upper = k + hw /\ upper \in Raw /\ k < upper
  <2>1. upper = R!checked(k + hw)
    BY DEF R!add
  <2>2. upper = k + hw /\ upper \in Raw
    BY <1>4, <2>1, Checked
  <2> QED BY <2>2, <1>2, RawBounds
<1>6. upper - lower \in Raw
  <2>1. R!sub(upper, lower) # Err
    <3> DEFINE l == lower
               u == upper
    <3>1. R!share_at(k, l, u) # Err /\ l < k /\ k < u /\ u # Err
      BY <1>1, <1>3, <1>4, <1>5
    <3>2. ~(k <= l) /\ ~(k >= u)
      BY <3>1, <1>3, <1>5, RawBounds
    <3> HIDE DEF l, u
    <3>3. R!sub(u, l) # Err
      BY <3>1, <3>2 DEF R!share_at
    <3> QED BY <3>3 DEF l, u
  <2> QED BY <2>1, Checked DEF R!sub
<1>7. \A x : R!apply_ramp(x, k, b) = R!share_at(x, lower, upper)
  BY <1>1 DEF hw, R!apply_ramp
<1>8. lower < upper
  BY <1>3, <1>5, RawBounds
<1> HIDE DEF lower, upper
<1> QED BY <1>3, <1>5, <1>6, <1>7, <1>8

(* Inside the band the share is the floored quotient, and between 0 and 1. *)
LEMMA InsideBand ==
  ASSUME NEW lower \in Raw, NEW upper \in Raw, upper - lower \in Raw,
         NEW x \in Raw, lower < x, x < upper
  PROVE  /\ R!share_at(x, lower, upper) = ((x - lower) * Q64_ONE) \div (upper - lower)
         /\ R!share_at(x, lower, upper) \in Share
<1> DEFINE offset == x - lower
           width  == upper - lower
           quotient == (offset * Q64_ONE) \div width
<1>1. offset \in Nat /\ width \in Nat \ {0} /\ offset < width /\ width \in Raw
  BY RawBounds
<1>2. offset \in Raw
  BY <1>1, RawBounds
<1>3. quotient \in Nat /\ quotient <= Q64_ONE
  <2>1. offset * Q64_ONE \in Nat /\ offset * Q64_ONE <= Q64_ONE * width
    BY <1>1, RawBounds
  <2> HIDE DEF offset, width
  <2> QED BY <1>1, <2>1, RawBounds, DivAtMost
<1>4. quotient \in Raw /\ quotient \in Share
  BY <1>3, RawBounds DEF Share
<1>5. R!sub(x, lower) = offset /\ R!sub(upper, lower) = width
  BY <1>1, <1>2, Checked DEF R!sub
<1>6. R!div(offset, width) = quotient
  <2> HIDE DEF offset, width
  <2>1. R!magnitude(offset) = offset /\ R!magnitude(width) = width
    BY <1>1 DEF R!magnitude
  <2>2. (offset < 0) = FALSE /\ (width < 0) = FALSE /\ width # 0
    BY <1>1
  <2>3. R!div(offset, width)
          = R!from_signed_magnitude(quotient, (offset * Q64_ONE) % width # 0, FALSE)
    BY <2>1, <2>2 DEF R!div
  <2>4. R!from_signed_magnitude(quotient, (offset * Q64_ONE) % width # 0, FALSE)
          = R!checked(quotient)
    BY DEF R!from_signed_magnitude
  <2> HIDE DEF quotient
  <2> QED BY <2>3, <2>4, <1>4, Checked
<1>7. R!clamped(quotient) = quotient
  <2> HIDE DEF quotient
  <2> QED BY <1>3, RawBounds DEF R!clamped, R!min, R!max
<1>8. ~(x <= lower) /\ ~(x >= upper) /\ upper # Err /\ Err \notin {offset, width} /\ quotient # Err
  BY <1>1, <1>2, <1>4, RawBounds
<1> HIDE DEF offset, width, quotient
<1>9. R!share_at(x, lower, upper) = quotient
  BY <1>5, <1>6, <1>7, <1>8 DEF R!share_at
<1> QED BY <1>4, <1>9 DEF offset, width, quotient

(* On or outside the ends nothing is computed.                             *)
LEMMA OutsideBand ==
  ASSUME NEW lower \in Raw, NEW upper \in Raw, lower < upper, NEW x \in Raw
  PROVE  /\ x <= lower => R!share_at(x, lower, upper) = 0
         /\ x >= upper => R!share_at(x, lower, upper) = Q64_ONE
BY RawBounds DEF R!share_at

(* An accepted ramp gives every score a share, and a higher score no less. *)
LEMMA RampMonotone ==
  ASSUME NEW k \in Raw, NEW b \in 0 .. BPS_DENOMINATOR, R!validate_ramp(k, b),
         NEW x \in Raw, NEW y \in Raw, x <= y
  PROVE  /\ R!apply_ramp(x, k, b) \in Share /\ R!apply_ramp(y, k, b) \in Share
         /\ R!apply_ramp(x, k, b) <= R!apply_ramp(y, k, b)
         /\ R!apply_ramp(-RAW_SPAN, k, b) = 0
<1>1. PICK lower \in Raw, upper \in Raw :
        /\ lower < upper /\ upper - lower \in Raw
        /\ \A z : R!apply_ramp(z, k, b) = R!share_at(z, lower, upper)
  BY AcceptedBand
<1> DEFINE at(z) == R!share_at(z, lower, upper)
<1>2. 0 \in Share /\ Q64_ONE \in Share
  BY RawBounds DEF Share
<1>3. \A z \in Raw : at(z) \in Share
  <2> SUFFICES ASSUME NEW z \in Raw PROVE at(z) \in Share
    OBVIOUS
  <2>1. z <= lower \/ z >= upper \/ (lower < z /\ z < upper)
    BY RawBounds
  <2> QED BY <1>1, <1>2, <2>1, OutsideBand, InsideBand
<1>4. at(x) <= at(y)
  <2>0. \A s \in Share : 0 <= s /\ s <= Q64_ONE
    BY RawBounds DEF Share
  <2>1. CASE x <= lower
    <3>1. at(x) = 0
      BY <2>1, <1>1, OutsideBand
    <3> QED BY <3>1, <1>3, <2>0
  <2>2. CASE y >= upper
    <3>1. at(y) = Q64_ONE
      BY <2>2, <1>1, OutsideBand
    <3> QED BY <3>1, <1>3, <2>0
  <2>3. CASE lower < x /\ y < upper
    <3> DEFINE width == upper - lower
               below == (x - lower) * Q64_ONE
               above == (y - lower) * Q64_ONE
    <3>1. x - lower \in Nat /\ y - lower \in Nat /\ x - lower <= y - lower
          /\ width \in Nat \ {0} /\ lower < y /\ x < upper
      BY <2>3, RawBounds
    <3>2. below \in Nat /\ above \in Nat /\ below <= above
      BY <3>1, RawBounds, MulMonotone
    <3>3. below \div width <= above \div width
      <4> HIDE DEF below, above, width
      <4> QED BY <3>1, <3>2, DivMonotone
    <3>4. at(x) = below \div width /\ at(y) = above \div width
      BY <1>1, <2>3, <3>1, InsideBand
    <3> QED BY <3>3, <3>4
  <2> QED BY <2>1, <2>2, <2>3, RawBounds
<1>5. at(-RAW_SPAN) = 0
  BY <1>1, OutsideBand, RawBounds
<1> QED BY <1>1, <1>3, <1>4, <1>5

-----------------------------------------------------------------------------
ScoreInv ==
  /\ stakes \in Stakes /\ PotFits(stakes) /\ fee_bps \in 0 .. BPS_DENOMINATOR
  /\ strike \in Raw /\ ramp_bps \in 0 .. BPS_DENOMINATOR
  /\ R!validate_ramp(strike, ramp_bps)
  /\ score \in Raw
  /\ share = R!apply_ramp(score, strike, ramp_bps)

LEMMA ScoreInitially == ScoreInit => ScoreInv
<1> SUFFICES ASSUME ScoreInit PROVE ScoreInv
  OBVIOUS
<1>1. strike \in Raw /\ -RAW_SPAN \in Raw /\ Scores \subseteq Raw
  BY ScoreBounds, RawBounds DEF ScoreInit, Raw
<1>2. share = R!apply_ramp(-RAW_SPAN, strike, ramp_bps)
  BY <1>1, RampMonotone, RawBounds DEF ScoreInit, Init
<1> QED BY <1>1, <1>2 DEF ScoreInit, Init, ScoreInv

LEMMA ScoreStep == ScoreInv /\ [RaiseScore]_score_vars => ScoreInv'
<1> SUFFICES ASSUME ScoreInv, [RaiseScore]_score_vars PROVE ScoreInv'
  OBVIOUS
<1>1. CASE RaiseScore
  BY <1>1, ScoreBounds DEF ScoreInv, RaiseScore, Raw
<1>2. CASE UNCHANGED score_vars
  BY <1>2 DEF ScoreInv, score_vars, vars
<1> QED BY <1>1, <1>2

(* The share is always what the ramp makes of the score.                   *)
LEMMA ScoreInvariant == ScoreSpec => []ScoreInv
BY ScoreInitially, ScoreStep, PTL DEF ScoreSpec

(* No strike and band accepted at creation can void a market by the ramp,  *)
(* whatever score its predicate returns.                                   *)
THEOREM RampIsTotal == ScoreSpec => []RampNeverAborts
<1>1. ScoreInv => RampNeverAborts
  BY RampMonotone, RawBounds DEF ScoreInv, RampNeverAborts
<1> QED BY <1>1, ScoreInvariant, PTL

(* The share of YES follows the score: all that settle has to assume of a  *)
(* share is true of the ramp's.                                            *)
THEOREM ShareFollowsScore == ScoreSpec => ShareRises
<1>1. ScoreInit => Init
  BY DEF ScoreInit
<1>2. ScoreInv /\ [RaiseScore]_score_vars => [RaiseShare]_vars
  <2> SUFFICES ASSUME ScoreInv, RaiseScore PROVE RaiseShare
    BY DEF score_vars
  <2>1. score' \in Raw /\ score <= score'
    BY ScoreBounds, RawBounds DEF ScoreInv, RaiseScore, Raw
  <2>2. share \in Share /\ share' \in Share /\ share <= share'
    BY <2>1, RampMonotone DEF ScoreInv, RaiseScore
  <2> QED BY <2>2, RawBounds DEF RaiseShare, RaiseScore, Share
<1> QED BY <1>1, <1>2, ScoreInvariant, PTL DEF ScoreSpec, Spec, ShareRises

-----------------------------------------------------------------------------
(* Every rounding funnels through from_signed_magnitude, and is a floor.   *)

LEMMA SignedFloor ==
  ASSUME NEW n \in Nat, NEW d \in Nat \ {0}, NEW negative \in BOOLEAN
  PROVE  R!from_signed_magnitude(n \div d, n % d # 0, negative)
           = R!checked(IF negative THEN (-n) \div d ELSE n \div d)
<1>1. CASE ~negative
  BY <1>1 DEF R!from_signed_magnitude
<1>2. CASE negative
  <2>1. (-n) \div d = IF n % d # 0 THEN -(n \div d + 1) ELSE -(n \div d)
    BY NegatedFloor
  <2> QED BY <1>2, <2>1 DEF R!from_signed_magnitude
<1> QED BY <1>1, <1>2

Floor(n, d) == R!checked(IF d > 0 THEN n \div d ELSE (-n) \div (-d))
Rest(n, d)  == IF d > 0 THEN n % d ELSE -((-n) % (-d))

(* A quotient of magnitudes, given the sign of the exact quotient.         *)
LEMMA FloorOfMagnitudes ==
  ASSUME NEW n \in Int, NEW d \in Int \ {0}, NEW negative \in BOOLEAN,
         n # 0 => negative = ((n < 0) # (d < 0)),
         NEW size \in Nat, size = R!magnitude(n)
  PROVE  R!from_signed_magnitude(size \div R!magnitude(d), size % R!magnitude(d) # 0, negative)
           = Floor(n, d)
<1> DEFINE b == R!magnitude(d)
<1>1. b \in Nat \ {0} /\ b = (IF d > 0 THEN d ELSE -d)
      /\ size = IF n < 0 THEN -n ELSE n
  BY DEF R!magnitude
<1>2. Floor(n, d) = R!checked((IF d > 0 THEN n ELSE -n) \div b)
  BY <1>1 DEF Floor
<1>3. (IF negative THEN -size ELSE size) = IF d > 0 THEN n ELSE -n
  BY <1>1
<1> HIDE DEF b
<1>4. R!from_signed_magnitude(size \div b, size % b # 0, negative)
        = R!checked(IF negative THEN (-size) \div b ELSE size \div b)
  BY <1>1, SignedFloor
<1>5. (IF negative THEN (-size) \div b ELSE size \div b)
        = (IF negative THEN -size ELSE size) \div b
  OBVIOUS
<1> QED BY <1>2, <1>3, <1>4, <1>5 DEF b

LEMMA ProductFloors ==
  ASSUME NEW x \in Int, NEW y \in Int
  PROVE  R!mul(x, y) = Floor(x * y, Q64_ONE)
<1> DEFINE size == R!magnitude(x) * R!magnitude(y)
<1>1. R!magnitude(x) \in Nat /\ R!magnitude(y) \in Nat /\ x * y \in Int
      /\ R!magnitude(Q64_ONE) = Q64_ONE /\ Q64_ONE \in Int \ {0} /\ ~(Q64_ONE < 0)
  BY RawBounds DEF R!magnitude
<1>2. size \in Nat /\ size = R!magnitude(x * y)
      /\ (x * y # 0 => ((x < 0) # (y < 0)) = ((x * y < 0) # (Q64_ONE < 0)))
  <2>1. CASE x < 0 /\ y < 0
    <3>1. x * y = (-x) * (-y) /\ x * y > 0 /\ R!magnitude(x) = -x /\ R!magnitude(y) = -y
      BY <2>1 DEF R!magnitude
    <3> QED BY <1>1, <2>1, <3>1 DEF R!magnitude
  <2>2. CASE x < 0 /\ y >= 0
    <3>1. x * y = -((-x) * y) /\ (-x) * y \in Nat /\ R!magnitude(x) = -x /\ R!magnitude(y) = y
      BY <2>2 DEF R!magnitude
    <3> QED BY <1>1, <2>2, <3>1 DEF R!magnitude
  <2>3. CASE x >= 0 /\ y < 0
    <3>1. x * y = -(x * (-y)) /\ x * (-y) \in Nat /\ R!magnitude(x) = x /\ R!magnitude(y) = -y
      BY <2>3 DEF R!magnitude
    <3> QED BY <1>1, <2>3, <3>1 DEF R!magnitude
  <2>4. CASE x >= 0 /\ y >= 0
    <3>1. x * y \in Nat /\ R!magnitude(x) = x /\ R!magnitude(y) = y
      BY <2>4 DEF R!magnitude
    <3> QED BY <1>1, <2>4, <3>1 DEF R!magnitude
  <2> QED BY <2>1, <2>2, <2>3, <2>4
<1> DEFINE n == x * y
           negative == (x < 0) # (y < 0)
<1>3. R!from_signed_magnitude(size \div Q64_ONE, size % Q64_ONE # 0, negative) = Floor(n, Q64_ONE)
  <2>1. /\ negative \in BOOLEAN /\ n \in Int /\ size \in Nat /\ size = R!magnitude(n)
        /\ n # 0 => negative = ((n < 0) # (Q64_ONE < 0))
    BY <1>1, <1>2
  <2> HIDE DEF size, n, negative
  <2>2. R!from_signed_magnitude(size \div R!magnitude(Q64_ONE), size % R!magnitude(Q64_ONE) # 0, negative)
          = Floor(n, Q64_ONE)
    BY <1>1, <2>1, FloorOfMagnitudes
  <2> QED BY <1>1, <2>2
<1> QED BY <1>3 DEF R!mul, size, n

LEMMA QuotientFloors ==
  ASSUME NEW x \in Int, NEW y \in Int \ {0}
  PROVE  R!div(x, y) = Floor(x * Q64_ONE, y)
<1> DEFINE size == R!magnitude(x) * Q64_ONE
           n == x * Q64_ONE
<1>1. Q64_ONE \in Nat \ {0}
  BY RawBounds
<1>2. size \in Nat /\ n \in Int /\ size = R!magnitude(n)
      /\ (n # 0 => ((x < 0) # (y < 0)) = ((n < 0) # (y < 0)))
  <2>1. CASE x < 0
    <3>1. n = -((-x) * Q64_ONE) /\ (-x) * Q64_ONE \in Nat \ {0} /\ R!magnitude(x) = -x
      BY <1>1, <2>1 DEF R!magnitude
    <3> QED BY <2>1, <3>1 DEF R!magnitude
  <2>2. CASE x >= 0
    <3>1. n \in Nat /\ R!magnitude(x) = x
      BY <1>1, <2>2 DEF R!magnitude
    <3> QED BY <2>2, <3>1 DEF R!magnitude
  <2> QED BY <2>1, <2>2
<1> HIDE DEF size, n
<1>3. R!from_signed_magnitude(size \div R!magnitude(y), size % R!magnitude(y) # 0, (x < 0) # (y < 0))
        = Floor(n, y)
  <2>1. ((x < 0) # (y < 0)) \in BOOLEAN
    OBVIOUS
  <2> QED BY <1>2, <2>1, FloorOfMagnitudes, ZenonT(60)
<1> QED BY <1>3 DEF R!div, size, n

(* Rescaling, by every power of ten it takes.                              *)
LEMMA RescalingFloors ==
  ASSUME NEW x \in Raw, NEW exp \in 0 .. MAX_POW10_EXP
  PROVE  /\ R!scale_pow10(x, -exp) = Floor(x, R!pow10[exp])
         /\ R!scale_pow10(x, exp) = R!checked(x * R!pow10[exp])
<1> DEFINE factor == R!pow10[exp]
<1>1. /\ exp \in Nat /\ factor \in Nat \ {0} /\ x \in Int
      /\ R!magnitude(exp) = exp /\ R!magnitude(-exp) = exp /\ ~(exp > MAX_POW10_EXP)
      /\ (-exp = 0) <=> (exp = 0)
  BY PowersOfTen, RawBounds, ScoreBounds DEF R!magnitude
<1>2. CASE exp = 0
  <2>1. factor = 1
    BY <1>2, PowersOfTen
  <2>2. R!scale_pow10(x, 0) = x
    BY <1>1, <1>2 DEF R!scale_pow10
  <2>3. x \div 1 = x /\ x * 1 = x
    BY <1>1
  <2>4. R!checked(x) = x
    BY Checked
  <2> QED BY <1>1, <1>2, <2>1, <2>2, <2>3, <2>4 DEF Floor
<1>3. CASE exp # 0 /\ x = 0
  <2>1. R!scale_pow10(x, -exp) = x /\ R!scale_pow10(x, exp) = x
    BY <1>1, <1>3 DEF R!scale_pow10
  <2> HIDE DEF factor
  <2>2. 0 \div factor = 0 /\ 0 * factor = 0 /\ factor > 0
    BY <1>1
  <2>3. R!checked(x) = x
    BY Checked
  <2> QED BY <1>3, <2>1, <2>2, <2>3 DEF Floor, factor
<1>4. CASE exp # 0 /\ x # 0
  <2> DEFINE size == R!magnitude(x)
             negative == x < 0
  <2>1. size \in Nat /\ size = (IF negative THEN -x ELSE x) /\ negative \in BOOLEAN
    BY <1>1 DEF R!magnitude
  <2>2. /\ R!scale_pow10(x, exp) = R!from_signed_magnitude(size * factor, FALSE, negative)
        /\ R!scale_pow10(x, -exp)
             = R!from_signed_magnitude(size \div factor, size % factor # 0, negative)
    <3>1. exp > 0 /\ ~(-exp > 0) /\ exp # 0 /\ -exp # 0
      BY <1>1, <1>4
    <3> QED BY <1>1, <1>4, <3>1 DEF R!scale_pow10
  <2>3. R!from_signed_magnitude(size * factor, FALSE, negative) = R!checked(x * factor)
    <3>1. (IF negative THEN -(size * factor) ELSE size * factor) = x * factor
      <4> HIDE DEF factor, size
      <4> QED BY <1>1, <2>1
    <3> QED BY <3>1 DEF R!from_signed_magnitude
  <2>4. R!from_signed_magnitude(size \div factor, size % factor # 0, negative) = Floor(x, factor)
    <3>1. R!magnitude(factor) = factor /\ factor \in Int \ {0} /\ ~(factor < 0)
      BY <1>1 DEF R!magnitude
    <3>2. x # 0 => negative = ((x < 0) # (factor < 0))
      BY <3>1
    <3>3. size = R!magnitude(x)
      OBVIOUS
    <3> HIDE DEF factor, size, negative
    <3>4. R!from_signed_magnitude(size \div R!magnitude(factor), size % R!magnitude(factor) # 0, negative)
            = Floor(x, factor)
      BY <1>1, <2>1, <3>1, <3>2, <3>3, FloorOfMagnitudes
    <3> QED BY <3>1, <3>4
  <2> QED BY <2>2, <2>3, <2>4
<1> QED BY <1>2, <1>3, <1>4

(* A remainder, moved over to the divisor's side.                          *)
LEMMA RemainderRests ==
  ASSUME NEW x \in Raw, NEW y \in Raw \ {0}
  PROVE  R!rem(x, y) = IF Floor(x, y) = Err THEN Err ELSE Rest(x, y)
<1> DEFINE size == R!magnitude(x)
           b == R!magnitude(y)
           r == size % b
<1>1. /\ x \in Int /\ y \in Int \ {0} /\ Err \notin Int
      /\ size \in Nat /\ size = (IF x < 0 THEN -x ELSE x)
      /\ b \in Nat \ {0} /\ b = IF y > 0 THEN y ELSE -y
  BY RawBounds, ScoreBounds DEF R!magnitude
<1>2. (Floor(x, y) = Err) <=> (x = -RAW_SPAN /\ y = -1)
  <2> DEFINE q == IF y > 0 THEN x \div y ELSE (-x) \div (-y)
             n == IF y > 0 THEN x ELSE -x
  <2>1. q = n \div b /\ n \in Int /\ -RAW_SPAN <= n /\ n <= RAW_SPAN
    BY <1>1, RawBounds
  <2>2. Floor(x, y) = R!checked(q)
    BY DEF Floor
  <2>3. CASE x = -RAW_SPAN /\ y = -1
    <3>1. q = RAW_SPAN
      BY <1>1, <2>1, <2>3, RawBounds
    <3>2. q \notin Raw
      BY <3>1, RawBounds
    <3> QED BY <2>2, <2>3, <3>2 DEF R!checked, Raw
  <2>4. CASE ~(x = -RAW_SPAN /\ y = -1)
    <3> HIDE DEF q, n, b
    <3>1. q \in Int /\ q * b <= n /\ n < (q + 1) * b
      BY <1>1, <2>1, FloorDiv
    <3>2. -RAW_SPAN <= q
      <4> SUFFICES ASSUME q + 1 <= -RAW_SPAN PROVE FALSE
        BY <3>1, RawBounds
      <4>1. (q + 1) * b <= -RAW_SPAN * b /\ RAW_SPAN * b >= RAW_SPAN
        BY <1>1, <3>1, RawBounds
      <4> QED BY <1>1, <2>1, <3>1, <4>1, RawBounds
    <3>3. q < RAW_SPAN
      <4> SUFFICES ASSUME q >= RAW_SPAN PROVE FALSE
        BY <3>1, RawBounds
      <4>1. q * b >= RAW_SPAN * b /\ RAW_SPAN * b >= RAW_SPAN /\ (b # 1 => RAW_SPAN * b > RAW_SPAN)
        BY <1>1, <3>1, RawBounds
      <4>2. n = RAW_SPAN /\ b = 1
        BY <1>1, <2>1, <3>1, <4>1, RawBounds, SMTT(40)
      <4> QED BY <1>1, <2>4, <4>2, RawBounds DEF n
    <3>4. q \in Raw
      BY <3>1, <3>2, <3>3, RawBounds
    <3> QED BY <2>2, <2>4, <3>4, Checked, RawBounds
  <2> QED BY <2>3, <2>4
<1>3. r \in 0 .. b - 1
  <2>1. size \in Int /\ b \in Nat \ {0}
    BY <1>1
  <2> HIDE DEF size, b
  <2>2. size % b \in 0 .. b - 1
    BY <2>1, FloorDiv
  <2> QED BY <2>2
<1>4. CASE x = -RAW_SPAN /\ y = -1
  BY <1>2, <1>4 DEF R!rem
<1>5. CASE ~(x = -RAW_SPAN /\ y = -1)
  <2> DEFINE truncated == IF x < 0 THEN -r ELSE r
  <2>1. R!rem(x, y) = IF truncated # 0 /\ ((truncated < 0) # (y < 0)) THEN R!checked(truncated + y)
                                                                      ELSE truncated
    BY <1>1, <1>5 DEF R!rem
  <2>2. (-size) % b = IF r = 0 THEN 0 ELSE b - r
    BY <1>1, NegatedFloor
  <2>3. Rest(x, y) = IF y > 0 THEN x % b ELSE -((-x) % b)
    BY <1>1 DEF Rest
  <2>4. r \in Int /\ b - r \in 1 .. b /\ -RAW_SPAN <= y /\ y <= RAW_SPAN - 1
    BY <1>1, <1>3, RawBounds
  <2>5. /\ x < 0 => x = -size /\ -x = size
        /\ x >= 0 => x = size /\ -x = -size
    BY <1>1
  <2>6. Rest(x, y) = IF (x < 0) = (y < 0) \/ r = 0 THEN truncated ELSE truncated + y
    <3> HIDE DEF size, b
    <3>1. CASE y > 0
      BY <1>1, <2>2, <2>3, <2>4, <2>5, <3>1
    <3>2. CASE y < 0
      BY <1>1, <2>2, <2>3, <2>4, <2>5, <3>2
    <3> QED BY <1>1, <3>1, <3>2
  <2>7. r # 0 /\ (x < 0) # (y < 0) => truncated + y \in Raw
    <3> HIDE DEF size, b, r
    <3> QED BY <1>1, <1>3, <2>4, RawBounds
  <2>8. (truncated # 0 /\ ((truncated < 0) # (y < 0))) <=> (r # 0 /\ ((x < 0) # (y < 0)))
    <3> HIDE DEF size, b, r
    <3> QED BY <1>1, <1>3, <2>4
  <2>9. R!rem(x, y) = Rest(x, y)
    <3> HIDE DEF truncated, r
    <3> QED BY <2>1, <2>6, <2>7, <2>8, Checked
  <2> QED BY <1>2, <1>5, <2>9
<1> QED BY <1>4, <1>5

(* Every product, quotient, remainder and rescaling the ramp and the       *)
(* predicates make of a market's numbers is exact or rounded down, and is  *)
(* refused only for not fitting (Q64::mul, div, rem, scale_pow10).         *)
THEOREM ArithmeticRoundsDown == ScoreSpec => []RoundsDown
<1>1. ScoreInv => RoundsDown
  <2> SUFFICES ASSUME ScoreInv, NEW x \in {score, -strike}, NEW y \in {strike, score, -ramp_bps}
               PROVE  /\ R!mul(x, y) = Floor(x * y, Q64_ONE)
                      /\ y # 0 => /\ R!div(x, y) = Floor(x * Q64_ONE, y)
                                  /\ R!rem(x, y) = IF Floor(x, y) = Err THEN Err ELSE Rest(x, y)
                      /\ \A exp \in 0 .. MAX_POW10_EXP :
                           /\ R!scale_pow10(x, -exp) = Floor(x, R!pow10[exp])
                           /\ R!scale_pow10(x, exp) = R!checked(x * R!pow10[exp])
    BY DEF RoundsDown, Floor, Rest
  <2>1. strike \in Raw /\ score \in Raw /\ strike > 0 /\ ramp_bps \in 0 .. BPS_DENOMINATOR
    BY DEF ScoreInv, R!validate_ramp, R!apply_ramp, R!Banded
  <2>2. -strike \in Raw
    BY <2>1, RawBounds
  <2>3. -ramp_bps \in Raw
    <3>1. BPS_DENOMINATOR * Q64_ONE \in Raw /\ BPS_DENOMINATOR \in Nat
      BY ScoreBounds, PayoutBounds DEF Raw, R!from_int
    <3>2. BPS_DENOMINATOR <= BPS_DENOMINATOR * Q64_ONE /\ BPS_DENOMINATOR * Q64_ONE \in Int
      BY <3>1, RawBounds
    <3> QED BY <2>1, <3>1, <3>2, RawBounds
  <2>4. x \in Raw /\ y \in Raw /\ x \in Int /\ y \in Int
    BY <2>1, <2>2, <2>3, RawBounds
  <2> QED BY <2>4, ProductFloors, QuotientFloors, RescalingFloors, RemainderRests
<1> QED BY <1>1, ScoreInvariant, PTL

=============================================================================

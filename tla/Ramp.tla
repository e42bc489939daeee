-------------------------------- MODULE Ramp --------------------------------
(***************************************************************************)
(* The settlement ramp (crates/market-core/src/ramp.rs): from a predicate's *)
(* score to the share of the pot owed to YES.                              *)
(***************************************************************************)
EXTENDS Q64

CONSTANT BPS_DENOMINATOR    \* basis points in one

(* The band's half width, or Err.                                          *)
half_width(strike, ramp_bps) ==
  LET scaled == mul(strike, from_int(ramp_bps))
  IN  IF scaled = Err THEN Err ELSE div(scaled, from_int(BPS_DENOMINATOR))

(* What is refused whatever the score.                                     *)
Banded(strike, ramp_bps) ==
  /\ strike > 0
  /\ ramp_bps \in 1 .. BPS_DENOMINATOR
  /\ half_width(strike, ramp_bps) # Err
  /\ half_width(strike, ramp_bps) > 0

clamped(share) == min(max(share, 0), Q64_ONE)

folded_share(score, lower, upper) ==            \* slip: the distance from the lower end
  LET distance == magnitude(score - lower)
  IN  IF upper = Err THEN Err
      ELSE IF distance >= upper - lower THEN Q64_ONE ELSE div(distance, upper - lower)
(* Where a score stands in the band.  The upper end is only looked at for  *)
(* a score above the lower, and its overflow is an error there; so is that *)
(* of every difference after it.                                           *)
share_at(score, lower, upper) ==
  LET offset == sub(score, lower)
      width  == sub(upper, lower)
      share  == div(offset, width)
  IN  IF score <= lower THEN 0
      ELSE IF upper = Err THEN Err
      ELSE IF score >= upper THEN Q64_ONE
      ELSE IF Err \in {offset, width} THEN Err
      ELSE IF share = Err THEN Err ELSE clamped(share)

apply_ramp(score, strike, ramp_bps) ==
  LET lower == sub(strike, half_width(strike, ramp_bps))
      upper == add(strike, half_width(strike, ramp_bps))
  IN  IF ~Banded(strike, ramp_bps) \/ lower = Err THEN Err
      ELSE share_at(score, lower, upper)

validate_ramp_outside(strike, ramp_bps) ==               \* slip: a score below the band
  apply_ramp(0, strike, ramp_bps) # Err
validate_ramp(strike, ramp_bps) == apply_ramp(strike, strike, ramp_bps) # Err

=============================================================================

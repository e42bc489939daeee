----------------------------- MODULE ScoreCases -----------------------------
(***************************************************************************)
(* A score that rises from the least a predicate can return, the share the *)
(* ramp makes of it, and every small pot divided by that share.            *)
(*                                                                         *)
(* PayoutCases is the abstract view of this: all it knows of a share is    *)
(* that it starts at 0 and rises.                                          *)
(***************************************************************************)
EXTENDS PayoutCases

CONSTANTS RAW_SPAN, MAX_POW10_EXP, Err,
          Strikes,     \* strikes enumerated (bound)
          Scores       \* scores enumerated (bound)

R == INSTANCE Ramp

ASSUME ScoreBounds ==
  /\ RAW_SPAN \in Nat /\ Q64_ONE < RAW_SPAN /\ MAX_POW10_EXP \in Nat
  /\ Err \notin Int
  /\ R!from_int(BPS_DENOMINATOR) \in R!Raw
  /\ Strikes \subseteq R!Raw /\ Scores \subseteq R!Raw

VARIABLES score, strike, ramp_bps

score_vars == <<vars, score, strike, ramp_bps>>

(* create_market refuses a strike and a band that validate_ramp refuses.   *)
ScoreInit ==
  /\ Init
  /\ strike \in Strikes /\ ramp_bps \in 0 .. BPS_DENOMINATOR
  /\ R!validate_ramp(strike, ramp_bps)
  /\ score = -RAW_SPAN

RaiseScore ==
  /\ score' \in Scores /\ score < score'
  /\ share' = R!apply_ramp(score', strike, ramp_bps)
  /\ UNCHANGED <<stakes, fee_bps, strike, ramp_bps>>

ScoreSpec == ScoreInit /\ [][RaiseScore]_score_vars

(* A strike and a band accepted at creation turn every score, however far  *)
(* from the strike, into a share between 0 and 1: the ramp never voids a   *)
(* market.                                                                 *)
RampNeverAborts == share \in Share

(* A higher score never lowers the share of YES, roundings and both ends   *)
(* of the band included.                                                   *)
ShareRises == Spec

(* Whatever the signs, a product, a quotient and a rescaling are the exact *)
(* result rounded down, a remainder has the divisor's sign, and nothing is *)
(* refused but what does not fit and a remainder whose quotient does not.  *)
RoundsDown ==
  LET Floor(n, d) == R!checked(IF d > 0 THEN n \div d ELSE (-n) \div (-d))
      Rest(n, d)  == IF d > 0 THEN n % d ELSE -((-n) % (-d))
  IN  \A x \in {score, -strike}, y \in {strike, score, -ramp_bps} :
        /\ R!mul(x, y) = Floor(x * y, Q64_ONE)
        /\ y # 0 => /\ R!div(x, y) = Floor(x * Q64_ONE, y)
                    /\ R!rem(x, y) = IF Floor(x, y) = Err THEN Err ELSE Rest(x, y)
        /\ \A exp \in 0 .. MAX_POW10_EXP :
             /\ R!scale_pow10(x, -exp) = Floor(x, R!pow10[exp])
             /\ R!scale_pow10(x, exp) = R!checked(x * R!pow10[exp])

=============================================================================

-------------------------------- MODULE Q64 --------------------------------
(***************************************************************************)
(* The fixed-point numbers of crates/market-math/src/q64.rs.  A number is  *)
(* its raw integer, the value times Q64_ONE; an operation that fails       *)
(* returns Err, whatever the kind of its MathError.                        *)
(***************************************************************************)
EXTENDS Integers

CONSTANTS
  Q64_ONE,         \* 2^64: the raw integer of 1
  RAW_SPAN,        \* 2^127: raw integers are an i128's
  MAX_POW10_EXP,   \* 38: the largest exponent scale_pow10 takes
  Err              \* what a failed operation returns

ASSUME Q64Bounds ==
  /\ Q64_ONE \in Nat \ {0} /\ RAW_SPAN \in Nat \ {0}
  /\ Q64_ONE < RAW_SPAN
  /\ MAX_POW10_EXP \in Nat
  /\ Err \notin Int

Raw == -RAW_SPAN .. RAW_SPAN - 1
Q64 == Raw \cup {Err}

(* i128's checked arithmetic.                                              *)
checked(n) == IF n \in Raw THEN n ELSE Err

magnitude(a) == IF a < 0 THEN -a ELSE a

(* The one place a negative result is rounded: away from zero.             *)
truncated_magnitude(n, lost_precision, negative) ==     \* slip: toward zero
  checked(IF negative THEN -n ELSE n)
from_signed_magnitude(n, lost_precision, negative) ==
  checked(IF ~negative THEN n ELSE IF lost_precision THEN -(n + 1) ELSE -n)

from_int(n) == n * Q64_ONE

add(a, b) == checked(a + b)
sub(a, b) == checked(a - b)
neg(a)    == checked(-a)
abs(a)    == checked(magnitude(a))
min(a, b) == IF a <= b THEN a ELSE b
max(a, b) == IF a >= b THEN a ELSE b

mul(a, b) ==
  LET product == magnitude(a) * magnitude(b)
  IN  from_signed_magnitude(product \div Q64_ONE, product % Q64_ONE # 0, (a < 0) # (b < 0))

div(a, b) ==
  LET numerator   == magnitude(a) * Q64_ONE
      denominator == magnitude(b)
  IN  IF b = 0 THEN Err
      ELSE from_signed_magnitude(numerator \div denominator,
                                 numerator % denominator # 0, (a < 0) # (b < 0))

(* Rust's remainder has the sign of the dividend; a nonzero one of the     *)
(* other sign than the divisor is moved over.  MIN % -1 overflows.         *)
rem(a, b) ==
  LET r         == magnitude(a) % magnitude(b)
      truncated == IF a < 0 THEN -r ELSE r
  IN  IF b = 0 \/ (a = -RAW_SPAN /\ b = -1) THEN Err
      ELSE IF truncated # 0 /\ (truncated < 0) # (b < 0) THEN checked(truncated + b)
      ELSE truncated

(* u128's checked_pow; the exponents allowed below never overflow it.      *)
pow10[n \in Nat] == IF n = 0 THEN 1 ELSE 10 * pow10[n - 1]

scale_pow10(a, exp) ==
  LET factor == pow10[magnitude(exp)]
      n      == magnitude(a)
  IN  IF magnitude(exp) > MAX_POW10_EXP THEN Err
      ELSE IF exp = 0 \/ a = 0 THEN a
      ELSE IF exp > 0 THEN from_signed_magnitude(n * factor, FALSE, a < 0)
      ELSE from_signed_magnitude(n \div factor, n % factor # 0, a < 0)

=============================================================================

----------------------------- MODULE FixedPoint -----------------------------
(***************************************************************************)
(* The checked fixed-point arithmetic every contract shares.  Amounts are  *)
(* i128 in the code and never negative where these operators are applied;  *)
(* a product or a sum above I128Max aborts the whole invocation, which the *)
(* callers express with the guard Fits.                                    *)
(***************************************************************************)
EXTENDS Integers

CONSTANT I128Max     \* the largest amount an i128 holds (made small by TLC)

ASSUME I128MaxAssumption == I128Max \in Nat \ {0}

\* checked_mul / checked_add returned Some: no MathOverflow
Fits(x) == x <= I128Max

MulDivFloor(a, b, den) == (a * b) \div den

MulDivCeil(a, b, den) == (a * b + (den - 1)) \div den

AtMost(x, bound) == IF x <= bound THEN x ELSE bound
=============================================================================

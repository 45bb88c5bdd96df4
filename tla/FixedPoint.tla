------------------------------ MODULE FixedPoint ------------------------------
(* The arithmetic of doubles on scaled integers, and std::clamp. *)
EXTENDS Integers

\* A quotient rounded towards zero.
Truncated(a, b) == IF a >= 0 THEN a \div b ELSE -((-a) \div b)

Clamp(x, low, high) == IF x < low THEN low ELSE IF x > high THEN high ELSE x
=============================================================================

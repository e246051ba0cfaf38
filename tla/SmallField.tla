----------------------------- MODULE SmallField -----------------------------
(***************************************************************************)
(* A field and coefficients for the instances of the codec.                *)
(***************************************************************************)
EXTENDS Integers

(* The field of four elements; 2 and 3 are the roots of x^2 + x + 1.       *)
MCField == 0 .. 3

MCAdd(a, b) ==
    CASE a = 0 -> b [] b = 0 -> a [] a = b -> 0 [] OTHER -> 6 - a - b

MCMul(a, b) ==
    IF a = 0 \/ b = 0 THEN 0 ELSE 1 + ((a + b - 2) % 3)

MCInv(a) == CASE a = 2 -> 3 [] a = 3 -> 2 [] OTHER -> a

MCCoefficient(start, count, index, i) == 1 + ((i * (index + count) + start) % 3)
=============================================================================

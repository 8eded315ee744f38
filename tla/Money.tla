-------------------------------- MODULE Money --------------------------------
(* Money is whole minor units, quantities are thousandths, percentages are basis points; *)
(* everything is rounded half away from zero (packages/shared/src/subcontracts.ts).      *)
EXTENDS Integers

RoundedDivide(n, d) ==
  LET size == IF n < 0 THEN -n ELSE n
      quotient == (2 * size + d) \div (2 * d)
  IN IF n < 0 THEN -quotient ELSE quotient

BasisPointsOf(amount, bp) == RoundedDivide(amount * bp, 10000)

LineAmount(thousandths, rate) == RoundedDivide(thousandths * rate, 1000)
=============================================================================

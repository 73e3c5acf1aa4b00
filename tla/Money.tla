-------------------------------- MODULE Money --------------------------------
(***************************************************************************)
(* What every calculation of the valuation engine shares: the value of an  *)
(* argument that is missing, and rounding.  Money is counted in paise and  *)
(* a percentage in the parts PERCENT_EXPONENT rounds to; quotients are     *)
(* exact until they are rounded, half up, as under the default policy.     *)
(***************************************************************************)
EXTENDS Integers

CONSTANTS
    PercentScale,   \* units of PERCENT_EXPONENT in a percent
    None            \* an argument that was not given, an answer not there yet

(* Repeated multiplication.                                                *)
Power(base, n) ==
    LET power[k \in Nat] == IF k = 0 THEN 1 ELSE base * power[k - 1]
    IN  power[n]

Rounded(n, d) == (2 * n + d) \div (2 * d)

(* Half up is away from zero, below zero as well.                          *)
RoundedSigned(n, d) ==
    LET sign == IF d < 0 THEN -1 ELSE 1
        num == sign * n
    IN  IF num >= 0 THEN Rounded(num, sign * d) ELSE -Rounded(-num, sign * d)
===============================================================================

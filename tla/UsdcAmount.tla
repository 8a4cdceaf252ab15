------------------------------ MODULE UsdcAmount ------------------------------
(***************************************************************************)
(* parse_usdc_amount with the decimal arithmetic it is written in, next to *)
(* the exact one of CashoutRules.                                          *)
(*                                                                         *)
(* A human amount is Decimal(str(amount)): [kind |-> "human", coef, exp]   *)
(* for coef * 10^-exp, as many digits as were written.  human * 10^6 is    *)
(* rounded to the digits of the decimal context, half to even, and int()   *)
(* drops what is below a base unit.                                        *)
(***************************************************************************)
EXTENDS CashoutRules

CONSTANTS
  Places,        \* decimal places of USDC: USDC_UNITS = 10^Places
  Precision,     \* digits of the default decimal context
  MaxDigits      \* bound: digits of any number below

ASSUME DecimalAssumption ==
  /\ Places \in Nat
  /\ Precision \in Nat
  /\ MaxDigits \in Nat

TenTo[n \in 0..MaxDigits] == IF n = 0 THEN 1 ELSE 10 * TenTo[n - 1]

Digits(n) == CHOOSE d \in 0..MaxDigits : n < TenTo[d] /\ (d = 0 \/ TenTo[d - 1] <= n)

(* Low digits of a product that the context has no room for. *)
Excess(n) == IF Digits(n) > Precision THEN Digits(n) - Precision ELSE 0

RoundHalfEven(n, low) ==
  LET kept == n \div TenTo[low]
      rest == 2 * (n % TenTo[low])
      up   == rest > TenTo[low] \/ (rest = TenTo[low] /\ kept % 2 = 1)
  IN  TenTo[low] * (IF up THEN kept + 1 ELSE kept)

Product(amount) == amount.coef * TenTo[Places]

(* A variant that rounds to whole base units (HumanAmountsAreTruncated).   *)
QuantizedUnits(amount) ==
  RoundHalfEven(Product(amount), amount.exp) \div TenTo[amount.exp]

(* int(human * Decimal(USDC_UNITS)) *)
HumanUnits(amount) ==
  RoundHalfEven(Product(amount), Excess(Product(amount))) \div TenTo[amount.exp]

Checked(units) == [error |-> IF units < MinUsdcUnits THEN "amount" ELSE Ok, units |-> units]
Refused(error) == [error |-> error, units |-> 0]

(* parse_usdc_amount: the units, or the exception.  NaN has no order, and  *)
(* int() has no infinity.                                                  *)
Parse(amount) ==
  CASE amount.kind \in {"bool", "text"} -> Refused("amount")
    [] amount.kind = "nan" -> Refused("InvalidOperation")
    [] amount.kind = "inf" /\ amount.coef > 0 -> Refused("OverflowError")
    [] amount.kind = "int" -> Checked(amount.coef)
    [] amount.kind \in {"human", "inf"} /\ amount.coef <= 0 -> Refused("amount")
    [] OTHER -> Checked(HumanUnits(amount))
=============================================================================

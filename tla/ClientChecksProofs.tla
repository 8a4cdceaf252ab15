-------------------------- MODULE ClientChecksProofs --------------------------
(***************************************************************************)
(* The pure parts of the client are right for any inputs: requests over    *)
(* the shipped tables, spellings of a handle in any tokens, amounts of any *)
(* length against any decimal context, and any answers of the curator.     *)
(***************************************************************************)
EXTENDS ClientChecks, CashoutRulesProofs

(* One place of something chosen is edited to another choice. *)
LEMMA EditedIsChosen ==
  ASSUME NEW choices, NEW f, Chosen(f, choices),
         NEW x \in DOMAIN choices, NEW v \in choices[x]
  PROVE  Chosen([f EXCEPT ![x] = v], choices)
BY DEF Chosen

LEMMA AnyIsChosen ==
  ASSUME NEW choices, \A x \in DOMAIN choices : choices[x] # {}
  PROVE  Chosen(AnyOf(choices), choices)
<1>1. \A x \in DOMAIN choices : (CHOOSE v \in choices[x] : TRUE) \in choices[x]
  OBVIOUS
<1> QED BY <1>1 DEF Chosen, AnyOf

-----------------------------------------------------------------------------
(* Powers of ten, digits and rounding *)

LEMMA TenToIs ==
  /\ TenTo[0] = 1
  /\ \A n \in 1..MaxDigits : TenTo[n] = 10 * TenTo[n - 1]
<1> DEFINE Is(f) == f = [n \in 0..MaxDigits |-> IF n = 0 THEN 1 ELSE 10 * f[n - 1]]
           step  == [i \in 1..MaxDigits |-> [v \in Int |-> 10 * v]]
<1>1. MaxDigits \in Nat
  BY DecimalAssumption
<1>2. PICK f : Iterates(f, MaxDigits, 1, step)
  <2> HIDE DEF step
  <2> QED BY <1>1, IterationExists
<1>3. \A n \in 0..MaxDigits : f[n] \in Int
  <2> DEFINE T == {n \in 0..MaxDigits : f[n] \notin Int}
  <2>1. T = {}
    <3> SUFFICES ASSUME T # {} PROVE FALSE
      OBVIOUS
    <3>1. T \subseteq Nat
      OBVIOUS
    <3>2. PICK x \in T : \A y \in T : x <= y
      <4> HIDE DEF T
      <4> QED BY <3>1, LeastPlace
    <3>3. x \in 0..MaxDigits /\ f[x] \notin Int
      OBVIOUS
    <3>4. x # 0
      BY <1>2, <3>3 DEF Iterates
    <3>5. x \in 1..MaxDigits /\ x - 1 \in 0..MaxDigits /\ x - 1 \notin T
      BY <1>1, <3>2, <3>3, <3>4
    <3>6. f[x - 1] \in Int
      BY <3>5
    <3>7. f[x] = step[x][f[x - 1]]
      BY <1>2, <3>5 DEF Iterates
    <3>8. f[x] = 10 * f[x - 1]
      BY <3>5, <3>6, <3>7
    <3> QED BY <3>3, <3>6, <3>8
  <2> QED BY <2>1
<1>4. \A n \in 1..MaxDigits : f[n] = 10 * f[n - 1]
  <2> TAKE n \in 1..MaxDigits
  <2>1. n - 1 \in 0..MaxDigits
    BY <1>1
  <2>2. f[n - 1] \in Int
    BY <1>3, <2>1
  <2>3. f[n] = step[n][f[n - 1]]
    BY <1>2 DEF Iterates
  <2> QED BY <2>2, <2>3
<1>5. Is(f)
  <2>1. f[0] = 1 /\ f = [n \in 0..MaxDigits |-> f[n]]
    BY <1>2 DEF Iterates
  <2>2. \A n \in 0..MaxDigits : f[n] = IF n = 0 THEN 1 ELSE 10 * f[n - 1]
    BY <1>4, <2>1
  <2> QED BY <2>1, <2>2
<1>6. TenTo = CHOOSE g : Is(g)
  BY DEF TenTo
<1>7. Is(TenTo)
  <2> HIDE DEF Is
  <2> QED BY <1>5, <1>6
<1> QED BY <1>1, <1>7

(* The powers are positive, and they add up. *)
LEMMA TenToNat ==
  \A n \in 0..MaxDigits : TenTo[n] \in Nat \ {0}
<1> DEFINE T == {n \in 0..MaxDigits : TenTo[n] \notin Nat \ {0}}
<1>1. T = {}
  <2> SUFFICES ASSUME T # {} PROVE FALSE
    OBVIOUS
  <2>1. T \subseteq Nat
    OBVIOUS
  <2>2. PICK x \in T : \A y \in T : x <= y
    <3> HIDE DEF T
    <3> QED BY <2>1, LeastPlace
  <2>3. x # 0
    BY TenToIs
  <2>4. x \in 1..MaxDigits /\ x - 1 \in 0..MaxDigits /\ x - 1 \notin T
    BY <2>2, <2>3, DecimalAssumption
  <2>5. TenTo[x - 1] \in Nat \ {0} /\ TenTo[x] = 10 * TenTo[x - 1]
    BY <2>4, TenToIs
  <2> QED BY <2>5
<1> QED BY <1>1

LEMMA TenToAdds ==
  ASSUME NEW a \in 0..MaxDigits
  PROVE  \A b \in 0..(MaxDigits - a) : TenTo[a + b] = TenTo[a] * TenTo[b]
<1> DEFINE T == {b \in 0..(MaxDigits - a) : TenTo[a + b] # TenTo[a] * TenTo[b]}
<1>0. MaxDigits \in Nat
  BY DecimalAssumption
<1>1. T = {}
  <2> SUFFICES ASSUME T # {} PROVE FALSE
    OBVIOUS
  <2>1. T \subseteq Nat
    BY <1>0
  <2>2. PICK x \in T : \A y \in T : x <= y
    <3> HIDE DEF T
    <3> QED BY <2>1, LeastPlace
  <2>3. x \in 0..(MaxDigits - a) /\ TenTo[a + x] # TenTo[a] * TenTo[x]
    OBVIOUS
  <2>4. x # 0
    <3>1. a + 0 = a /\ TenTo[a] \in Nat
      BY TenToNat
    <3>2. TenTo[a] * TenTo[0] = TenTo[a]
      BY <3>1, TenToIs
    <3> QED BY <2>3, <3>1, <3>2
  <2>5. /\ x \in 1..MaxDigits /\ a + x \in 1..MaxDigits /\ (a + x) - 1 = a + (x - 1)
        /\ x - 1 \in 0..MaxDigits /\ x - 1 \in 0..(MaxDigits - a)
    BY <1>0, <2>3, <2>4
  <2>6. x - 1 \notin T
    BY <2>2, <2>5
  <2>7. TenTo[a + (x - 1)] = TenTo[a] * TenTo[x - 1]
    BY <2>5, <2>6
  <2>8. TenTo[a + x] = 10 * TenTo[a + (x - 1)] /\ TenTo[x] = 10 * TenTo[x - 1]
    BY <2>5, TenToIs
  <2>9. TenTo[a] \in Nat /\ TenTo[x - 1] \in Nat
    BY <2>5, TenToNat
  <2> HIDE DEF T
  <2>10. 10 * (TenTo[a] * TenTo[x - 1]) = TenTo[a] * (10 * TenTo[x - 1])
    BY <2>9
  <2> QED BY <2>3, <2>7, <2>8, <2>10
<1> QED BY <1>1

(* The powers grow. *)
LEMMA TenToGrows ==
  ASSUME NEW a \in 0..MaxDigits, NEW b \in 0..MaxDigits, a <= b
  PROVE  TenTo[a] <= TenTo[b]
<1>0. MaxDigits \in Nat
  BY DecimalAssumption
<1>1. b - a \in 0..(MaxDigits - a) /\ b - a \in 0..MaxDigits /\ a + (b - a) = b
  BY <1>0
<1>2. TenTo[b] = TenTo[a] * TenTo[b - a]
  BY <1>1, TenToAdds
<1>3. TenTo[a] \in Nat \ {0} /\ TenTo[b - a] \in Nat \ {0}
  BY <1>1, TenToNat
<1>4. \A m, n \in Nat \ {0} : m <= m * n
  OBVIOUS
<1> QED BY <1>2, <1>3, <1>4

(* Digits is what it says, for a number that is not too long. *)
LEMMA DigitsAre ==
  ASSUME NEW n \in Nat, n < TenTo[MaxDigits]
  PROVE  /\ Digits(n) \in 0..MaxDigits
         /\ n < TenTo[Digits(n)]
         /\ Digits(n) = 0 \/ TenTo[Digits(n) - 1] <= n
<1> DEFINE T == {d \in 0..MaxDigits : n < TenTo[d]}
           Is(d) == n < TenTo[d] /\ (d = 0 \/ TenTo[d - 1] <= n)
<1>0. MaxDigits \in Nat
  BY DecimalAssumption
<1>1. T \subseteq Nat /\ T # {}
  BY <1>0
<1>2. PICK x \in T : \A y \in T : x <= y
  <2> HIDE DEF T
  <2> QED BY <1>1, LeastPlace
<1>3. x \in 0..MaxDigits /\ Is(x)
  <2>1. x \in 0..MaxDigits /\ n < TenTo[x]
    OBVIOUS
  <2>2. CASE x # 0
    <3>1. x - 1 \in 0..MaxDigits /\ x - 1 \notin T
      BY <1>0, <1>2, <2>1, <2>2
    <3>2. ~(n < TenTo[x - 1]) /\ TenTo[x - 1] \in Nat
      BY <3>1, TenToNat
    <3> QED BY <2>1, <3>2
  <2> QED BY <2>1, <2>2
<1>4. Digits(n) = CHOOSE d \in 0..MaxDigits : Is(d)
  BY DEF Digits
<1>5. Digits(n) \in 0..MaxDigits /\ Is(Digits(n))
  <2> HIDE DEF Is
  <2> QED BY <1>3, <1>4
<1> QED BY <1>5

(* Division *)
LEMMA DivisionIs ==
  ASSUME NEW n \in Nat, NEW m \in Nat \ {0}
  PROVE  /\ n \div m \in Nat /\ n % m \in 0..(m - 1)
         /\ n = m * (n \div m) + (n % m)
OBVIOUS

LEMMA QuotientIs ==
  ASSUME NEW n \in Nat, NEW m \in Nat \ {0}, NEW q \in Nat, NEW r \in 0..(m - 1),
         n = m * q + r
  PROVE  n \div m = q /\ n % m = r
OBVIOUS

(* Half an even power of ten is the most that rounding adds or takes. *)
LEMMA RoundingIs ==
  ASSUME NEW n \in Nat, NEW low \in 0..MaxDigits
  PROVE  /\ RoundHalfEven(n, low) \in Nat
         /\ RoundHalfEven(n, low) <= n + TenTo[low] \div 2
         /\ n <= RoundHalfEven(n, low) + TenTo[low] \div 2
         /\ n % TenTo[low] = 0 => RoundHalfEven(n, low) = n
<1> DEFINE t    == TenTo[low]
           kept == n \div t
           rest == n % t
           half == t \div 2
           up   == 2 * rest > t \/ (2 * rest = t /\ kept % 2 = 1)
<1>1. t \in Nat \ {0}
  BY TenToNat
<1>2. RoundHalfEven(n, low) = t * (IF up THEN kept + 1 ELSE kept)
  BY DEF RoundHalfEven
<1> HIDE DEF t
<1>3. kept \in Nat /\ rest \in 0..(t - 1) /\ n = t * kept + rest
  BY <1>1, DivisionIs
<1>4. half \in Nat /\ 2 * half <= t /\ t <= 2 * half + 1
  BY <1>1
<1> HIDE DEF kept, rest, half
<1>5. t * kept \in Nat /\ t * (kept + 1) = t * kept + t
  BY <1>1, <1>3
<1>6. CASE up
  <2>1. RoundHalfEven(n, low) = t * kept + t /\ 2 * rest >= t
    BY <1>1, <1>2, <1>3, <1>5, <1>6
  <2>2. rest # 0 /\ t - rest <= half /\ t - rest >= 0
    BY <1>1, <1>3, <1>4, <2>1
  <2> HIDE DEF up
  <2> QED BY <1>1, <1>3, <1>4, <1>5, <2>1, <2>2 DEF t, rest, half
<1>7. CASE ~up
  <2>1. RoundHalfEven(n, low) = t * kept /\ 2 * rest <= t
    BY <1>1, <1>2, <1>3, <1>7
  <2>2. rest <= half
    BY <1>1, <1>3, <1>4, <2>1
  <2> HIDE DEF up
  <2> QED BY <1>1, <1>3, <1>4, <1>5, <2>1, <2>2 DEF t, rest, half
<1> QED BY <1>6, <1>7

(* A written amount and its product are not too long to be counted. *)
LEMMA ProductsFit ==
  ASSUME NEW coef \in Nat, coef < TenTo[MaxWritten]
  PROVE  /\ coef < TenTo[MaxDigits]
         /\ coef * TenTo[Places] \in Nat
         /\ coef * TenTo[Places] < TenTo[MaxDigits]
<1>1. /\ MaxDigits \in Nat /\ MaxWritten \in 0..MaxDigits /\ Places \in 0..MaxDigits
      /\ MaxWritten + Places \in 0..MaxDigits /\ Places \in 0..(MaxDigits - MaxWritten)
  BY DecimalAssumption, NumbersAssumption
<1>2. /\ TenTo[MaxWritten] \in Nat /\ TenTo[Places] \in Nat \ {0} /\ TenTo[MaxDigits] \in Nat
      /\ TenTo[MaxWritten] <= TenTo[MaxDigits]
  BY <1>1, TenToNat, TenToGrows
<1>3. /\ TenTo[MaxWritten + Places] = TenTo[MaxWritten] * TenTo[Places]
      /\ TenTo[MaxWritten + Places] <= TenTo[MaxDigits]
  BY <1>1, TenToAdds, TenToGrows
<1>4. \A a, b \in Nat, m \in Nat \ {0} : a < b => a * m < b * m
  OBVIOUS
<1>5. coef * TenTo[Places] < TenTo[MaxWritten] * TenTo[Places]
  BY <1>2, <1>4
<1>6. coef * TenTo[Places] \in Nat /\ TenTo[MaxWritten] * TenTo[Places] \in Nat
  BY <1>2
<1> QED BY <1>2, <1>3, <1>5, <1>6

(* What the context drops of a product is not more than it can drop. *)
LEMMA ExcessIs ==
  ASSUME NEW n \in Nat, n < TenTo[MaxDigits]
  PROVE  Excess(n) \in 0..MaxDigits
BY DigitsAre, DecimalAssumption DEF Excess

(* What scaling appended are zeros: a number no longer than the context is *)
(* not rounded.                                                            *)
LEMMA ShortNumbersAreExact ==
  ASSUME NEW coef \in Nat \ {0}, coef < TenTo[MaxWritten], Digits(coef) <= Precision
  PROVE  LET product == coef * TenTo[Places] IN
         RoundHalfEven(product, Excess(product)) = product
<1> DEFINE product == coef * TenTo[Places]
           dc      == Digits(coef)
           dp      == Digits(product)
           low     == Excess(product)
<1>1. /\ MaxDigits \in Nat /\ Places \in 0..MaxDigits /\ Precision \in Nat
      /\ coef < TenTo[MaxDigits] /\ product \in Nat /\ product < TenTo[MaxDigits]
  <2>1. MaxDigits \in Nat /\ Places \in 0..MaxDigits /\ Precision \in Nat
    BY DecimalAssumption, NumbersAssumption
  <2> QED BY <2>1, ProductsFit
<1>2. /\ dc \in 0..MaxDigits /\ coef < TenTo[dc]
      /\ TenTo[dc] \in Nat /\ TenTo[Places] \in Nat \ {0}
  BY <1>1, DigitsAre, TenToNat
<1>3. /\ dp \in 0..MaxDigits /\ (dp = 0 \/ TenTo[dp - 1] <= product)
  <2> HIDE DEF product
  <2> QED BY <1>1, DigitsAre
<1>4. low \in 0..MaxDigits /\ low = IF dp > Precision THEN dp - Precision ELSE 0
  <2> HIDE DEF product
  <2> QED BY <1>1, <1>3, ExcessIs DEF Excess
<1> HIDE DEF dp, low, dc
<1>5. dp <= dc + Places
  <2> SUFFICES ASSUME dp > dc + Places PROVE FALSE
    BY <1>1, <1>2, <1>3
  <2>1. /\ dc + Places \in 0..MaxDigits /\ dp - 1 \in 0..MaxDigits
        /\ dc + Places <= dp - 1 /\ Places \in 0..(MaxDigits - dc)
    BY <1>1, <1>2, <1>3
  <2>2. /\ TenTo[dc + Places] = TenTo[dc] * TenTo[Places]
        /\ TenTo[dc + Places] <= TenTo[dp - 1]
        /\ TenTo[dp - 1] \in Nat /\ TenTo[dc + Places] \in Nat
    BY <1>2, <2>1, TenToAdds, TenToGrows, TenToNat
  <2>3. \A a, b \in Nat, m \in Nat \ {0} : a < b => a * m < b * m
    OBVIOUS
  <2>4. product < TenTo[dc + Places]
    BY <1>2, <2>2, <2>3
  <2>5. TenTo[dp - 1] <= product
    BY <1>3, <2>1, <1>2, <1>1
  <2> HIDE DEF product
  <2> QED BY <1>1, <2>2, <2>4, <2>5
<1>6. low <= Places
  BY <1>1, <1>2, <1>3, <1>4, <1>5 DEF dc
<1>7. /\ Places - low \in 0..(MaxDigits - low) /\ Places - low \in 0..MaxDigits
      /\ low + (Places - low) = Places
  BY <1>1, <1>4, <1>6
<1>8. TenTo[Places] = TenTo[low] * TenTo[Places - low]
  BY <1>4, <1>7, TenToAdds
<1>9. TenTo[low] \in Nat \ {0} /\ TenTo[Places - low] \in Nat \ {0}
  BY <1>4, <1>7, TenToNat
<1>10. product = TenTo[low] * (coef * TenTo[Places - low]) + 0
  <2>1. \A a, b, c \in Nat : a * (b * c) = b * (a * c) + 0
    OBVIOUS
  <2> QED BY <1>8, <1>9, <2>1
<1>11. coef * TenTo[Places - low] \in Nat
  BY <1>9
<1> HIDE DEF product
<1>12. product % TenTo[low] = 0
  BY <1>1, <1>9, <1>10, <1>11, QuotientIs
<1>13. RoundHalfEven(product, low) = product
  BY <1>1, <1>4, <1>12, RoundingIs
<1> QED BY <1>13 DEF product, low

LEMMA ExactAmountsAreExact ==
  ASSUME NEW coef \in Nat \ {0}
  PROVE  AmountError([kind |-> "human", value |-> coef])
           = IF coef \div SubUnits < MinUsdcUnits THEN "amount" ELSE Ok
BY DEF AmountError, ParseUsdcAmount

LEMMA AmountsAreRight == TypeOK => HumanAmountsAreTruncated
<1> SUFFICES ASSUME TypeOK, amount.kind = "human", amount.coef > 0 PROVE
      LET parsed  == Parse(amount)
          product == Product(amount)
          slack   == TenTo[Excess(product)] \div 2
          unit    == TenTo[amount.exp]
          parts   == [kind |-> "human", value |-> amount.coef]
          exact   == Digits(amount.coef) <= Precision
      IN  /\ exact => parsed.units = product \div unit
          /\ parsed.units * unit <= product + slack
          /\ product <= (parsed.units + 1) * unit + slack
          /\ (exact /\ unit = SubUnits * TenTo[Places])
               => AmountError(parts) = parsed.error /\ ParseUsdcAmount(parts) = parsed.units
  BY DEF HumanAmountsAreTruncated
<1> DEFINE coef    == amount.coef
           product == Product(amount)
           low     == Excess(product)
           rounded == RoundHalfEven(product, low)
           slack   == TenTo[low] \div 2
           unit    == TenTo[amount.exp]
           units   == rounded \div unit
           parts   == [kind |-> "human", value |-> coef]
           exact   == Digits(coef) <= Precision
<1>1. /\ coef \in Nat \ {0} /\ coef < TenTo[MaxWritten]
      /\ amount.exp \in 0..MaxDigits /\ unit \in Nat \ {0}
  <2>1. amount.coef \in Int /\ amount.coef < TenTo[MaxWritten] /\ amount.exp \in 0..MaxDecimals
    BY DEF TypeOK
  <2>2. amount.exp \in 0..MaxDigits
    BY <2>1, NumbersAssumption, DecimalAssumption
  <2> QED BY <2>1, <2>2, TenToNat
<1>2. Parse(amount) = Checked(units)
  BY <1>1 DEF Parse, HumanUnits
<1>3. product = coef * TenTo[Places] /\ product \in Nat /\ product < TenTo[MaxDigits]
  BY <1>1, ProductsFit DEF Product
<1> HIDE DEF coef, product, unit
<1>4. low \in 0..MaxDigits
  BY <1>3, ExcessIs
<1> HIDE DEF low
<1>5. /\ rounded \in Nat /\ slack \in Nat
      /\ rounded <= product + slack /\ product <= rounded + slack
  <2>1. slack \in Nat
    BY <1>4, TenToNat
  <2> QED BY <1>3, <1>4, <2>1, RoundingIs
<1>6. exact => rounded = product
  BY <1>1, <1>3, ShortNumbersAreExact DEF low, coef
<1> HIDE DEF rounded, slack
<1>7. units \in Nat /\ units * unit <= rounded /\ rounded <= (units + 1) * unit
  <2>1. units \in Nat /\ rounded % unit \in 0..(unit - 1) /\ rounded = unit * units + (rounded % unit)
    BY <1>1, <1>5, DivisionIs
  <2> HIDE DEF units
  <2>2. unit * units = units * unit /\ (units + 1) * unit = units * unit + unit
        /\ units * unit \in Nat
    BY <1>1, <2>1
  <2> QED BY <1>1, <2>1, <2>2
<1> HIDE DEF units
<1>8. units * unit \in Nat /\ (units + 1) * unit \in Nat
  BY <1>1, <1>7
<1>9. /\ units * unit <= product + slack
      /\ product <= (units + 1) * unit + slack
  BY <1>3, <1>5, <1>7, <1>8
<1>10. exact => units = product \div unit
  BY <1>6 DEF units
<1>11. ASSUME exact, unit = SubUnits * TenTo[Places] PROVE units = coef \div SubUnits
  <2> DEFINE q == coef \div SubUnits
             r == coef % SubUnits
             p == TenTo[Places]
  <2>1. SubUnits \in Nat \ {0} /\ p \in Nat \ {0}
    BY UnitsAssumption, TenToNat, DecimalAssumption, NumbersAssumption
  <2>2. q \in Nat /\ r \in 0..(SubUnits - 1) /\ coef = SubUnits * q + r
    BY <1>1, <2>1, DivisionIs
  <2> HIDE DEF q, r, p
  <2>3. product = (SubUnits * q + r) * p
    BY <1>3, <2>2 DEF p
  <2>4. (SubUnits * q + r) * p = (SubUnits * p) * q + r * p
    BY <2>1, <2>2
  <2>5. r * p \in 0..(SubUnits * p - 1)
    <3>1. r \in Nat /\ r + 1 <= SubUnits
      BY <2>1, <2>2
    <3>2. \A a, b \in Nat, m \in Nat \ {0} : a + 1 <= b => a * m + m <= b * m
      <4> TAKE a, b \in Nat, m \in Nat \ {0}
      <4> HAVE a + 1 <= b
      <4>1. (a + 1) * m <= b * m /\ (a + 1) * m = a * m + m
        OBVIOUS
      <4> QED BY <4>1
    <3>3. r * p + p <= SubUnits * p /\ r * p \in Nat /\ SubUnits * p \in Nat
      BY <2>1, <3>1, <3>2
    <3> QED BY <2>1, <3>3
  <2>6. unit = SubUnits * p
    BY <1>11 DEF p
  <2>7. product = unit * q + r * p /\ r * p \in 0..(unit - 1)
    BY <2>3, <2>4, <2>5, <2>6
  <2>8. product \div unit = q
    BY <1>1, <1>3, <2>2, <2>7, QuotientIs
  <2> QED BY <1>10, <1>11, <2>8 DEF q
<1>12. AmountError(parts) = IF coef \div SubUnits < MinUsdcUnits THEN "amount" ELSE Ok
  BY <1>1, ExactAmountsAreExact
<1>13. ParseUsdcAmount(parts) = coef \div SubUnits
  BY DEF ParseUsdcAmount
<1>14. /\ Parse(amount).units = units
       /\ Parse(amount).error = IF units < MinUsdcUnits THEN "amount" ELSE Ok
  BY <1>2 DEF Checked
<1>15. (exact /\ unit = SubUnits * TenTo[Places])
         => AmountError(parts) = Parse(amount).error /\ ParseUsdcAmount(parts) = Parse(amount).units
  BY <1>11, <1>12, <1>13, <1>14
<1> HIDE DEF exact, parts
<1> QED BY <1>9, <1>10, <1>14, <1>15 DEF slack, unit, exact, parts, coef, product, low

(* What a spelling, a request or an answer is made of stays in its place. *)
LEMMA InitTyped == Init => TypeOK
<1> SUFFICES ASSUME Init PROVE TypeOK
  OBVIOUS
<1>1. Chosen(request, Inputs)
  <2>1. \A f \in DOMAIN Inputs : Inputs[f] # {}
    BY InputsAssumption
  <2> QED BY <2>1, AnyIsChosen DEF Init
<1>2. Chosen(spelling, Spellings)
  <2>1. \A p \in DOMAIN Spellings : Spellings[p] # {}
    BY SpellingsAssumption
  <2> QED BY <2>1, AnyIsChosen DEF Init
<1>3. amount \in [kind : Kinds, coef : Int, exp : 0..MaxDecimals] /\ amount.coef = 0
  BY NumbersAssumption DEF Init
<1>4. PICK body \in Bodies :
        reply = [sent |-> "ok", says |-> FALSE, body |-> body,
                 objects |-> [i \in DOMAIN Members |-> AnyOf(Members[i])]]
  BY AnswersAssumption DEF Init
<1>5. \A i \in DOMAIN Members : Chosen(AnyOf(Members[i]), Members[i])
  <2> TAKE i \in DOMAIN Members
  <2>1. \A key \in DOMAIN Members[i] : Members[i][key] # {}
    BY AnswersAssumption
  <2> QED BY <2>1, AnyIsChosen
<1>6. /\ reply \in [sent : {"transport", "status", "ok"}, says : BOOLEAN, body : Bodies,
                     objects : {[i \in DOMAIN Members |-> reply.objects[i]]}]
      /\ \A i \in DOMAIN Members : Chosen(reply.objects[i], Members[i])
  BY <1>4, <1>5
<1>7. 0 < TenTo[MaxWritten]
  <2>1. MaxWritten \in 0..MaxDigits
    BY NumbersAssumption, DecimalAssumption
  <2> QED BY <2>1, TenToNat
<1> QED BY <1>1, <1>2, <1>3, <1>4, <1>6, <1>7 DEF Init, TypeOK

LEMMA NextTyped == TypeOK /\ [Next]_vars => TypeOK'
<1> SUFFICES ASSUME TypeOK, [Next]_vars PROVE TypeOK'
  OBVIOUS
<1>1. CASE UNCHANGED vars
  BY <1>1 DEF vars, TypeOK, Chosen
<1>2. CASE Ask
  <2>1. PICK f \in DOMAIN Inputs, v \in UNION {Inputs[g] : g \in DOMAIN Inputs} :
          v \in Inputs[f] /\ request' = [request EXCEPT ![f] = v]
    BY <1>2 DEF Ask
  <2>2. Chosen(request, Inputs)
    BY DEF TypeOK
  <2>3. Chosen(request', Inputs)
    BY <2>1, <2>2, EditedIsChosen
  <2> QED BY <1>2, <2>3 DEF Ask, TypeOK, Chosen
<1>3. CASE Spell
  <2>1. PICK p \in DOMAIN Spellings, text \in UNION {Spellings[q] : q \in DOMAIN Spellings} :
          text \in Spellings[p] /\ spelling' = [spelling EXCEPT ![p] = text]
    BY <1>3 DEF Spell
  <2>2. Chosen(spelling, Spellings)
    BY DEF TypeOK
  <2>3. Chosen(spelling', Spellings)
    BY <2>1, <2>2, EditedIsChosen
  <2> QED BY <1>3, <2>3 DEF Spell, TypeOK, Chosen
<1>4. ASSUME NEW a \in [kind : Kinds, coef : Int, exp : 0..MaxDecimals],
             a.coef < TenTo[MaxWritten], Amount(a)
      PROVE  TypeOK'
  BY <1>4 DEF Amount, TypeOK, Chosen
<1>5. CASE Write
  <2>1. PICK digit \in WrittenDigits :
          /\ 10 * amount.coef + digit < TenTo[MaxWritten]
          /\ Amount([amount EXCEPT !.coef = 10 * amount.coef + digit])
    BY <1>5 DEF Write
  <2> DEFINE a == [amount EXCEPT !.coef = 10 * amount.coef + digit]
  <2>2. digit \in Int
    BY NumbersAssumption
  <2>3. /\ a \in [kind : Kinds, coef : Int, exp : 0..MaxDecimals]
        /\ a.coef = 10 * amount.coef + digit
    BY <2>2 DEF TypeOK
  <2> HIDE DEF a
  <2> QED BY <1>4, <2>1, <2>3 DEF a
<1>6. CASE Point
  <2> DEFINE a == [amount EXCEPT !.exp = amount.exp + 1]
  <2>1. amount.exp < MaxDecimals /\ Amount(a)
    BY <1>6 DEF Point
  <2>2. /\ a \in [kind : Kinds, coef : Int, exp : 0..MaxDecimals]
        /\ a.coef = amount.coef /\ amount.coef < TenTo[MaxWritten]
    BY <2>1, NumbersAssumption DEF TypeOK
  <2> HIDE DEF a
  <2> QED BY <1>4, <2>1, <2>2
<1>7. CASE Other
  <2>1. PICK k \in Kinds, c \in Coefficients : Amount([kind |-> k, coef |-> c, exp |-> 0])
    BY <1>7 DEF Other
  <2> DEFINE a == [kind |-> k, coef |-> c, exp |-> 0]
  <2>2. /\ a \in [kind : Kinds, coef : Int, exp : 0..MaxDecimals]
        /\ a.coef = c /\ c < TenTo[MaxWritten]
    BY NumbersAssumption, DecimalAssumption
  <2> HIDE DEF a
  <2> QED BY <1>4, <2>1, <2>2 DEF a
<1>8. CASE EditBody
  <2>1. PICK i \in DOMAIN Members :
          \E key \in DOMAIN Members[i] : \E value \in Members[i][key] :
            Answer([reply EXCEPT !.objects[i][key] = value])
    BY <1>8 DEF EditBody
  <2>2. PICK key \in DOMAIN Members[i] :
          \E value \in Members[i][key] : Answer([reply EXCEPT !.objects[i][key] = value])
    BY <2>1
  <2>3. PICK value \in Members[i][key] : Answer([reply EXCEPT !.objects[i][key] = value])
    BY <2>2
  <2> DEFINE object == [reply.objects[i] EXCEPT ![key] = value]
  <2>4. reply.objects = [j \in DOMAIN Members |-> reply.objects[j]]
    BY DEF TypeOK
  <2>5. Chosen(object, Members[i])
    <3>1. Chosen(reply.objects[i], Members[i])
      BY DEF TypeOK
    <3> QED BY <3>1, EditedIsChosen
  <2>6. /\ reply' \in [sent : {"transport", "status", "ok"}, says : BOOLEAN, body : Bodies,
                       objects : {reply'.objects}]
        /\ reply'.objects = [reply.objects EXCEPT ![i] = object]
    BY <2>3 DEF Answer, TypeOK
  <2> HIDE DEF object
  <2>7. reply'.objects = [j \in DOMAIN Members |-> IF j = i THEN object ELSE reply.objects[j]]
    BY <2>4, <2>6
  <2>8. /\ reply'.objects = [j \in DOMAIN Members |-> reply'.objects[j]]
        /\ \A j \in DOMAIN Members : Chosen(reply'.objects[j], Members[j])
    BY <2>5, <2>7 DEF TypeOK
  <2>9. UNCHANGED <<subject, request, platform, spelling, amount>>
    BY <2>3 DEF Answer
  <2> QED BY <2>6, <2>8, <2>9 DEF TypeOK, Chosen
<1>9. CASE EndRequest
  <2>1. PICK sent \in {"transport", "status", "ok"}, says \in BOOLEAN :
          Answer([reply EXCEPT !.sent = sent, !.says = says])
    BY <1>9 DEF EndRequest
  <2>2. /\ reply' \in [sent : {"transport", "status", "ok"}, says : BOOLEAN, body : Bodies,
                       objects : {reply.objects}]
        /\ UNCHANGED <<subject, request, platform, spelling, amount>>
    BY <2>1 DEF Answer, TypeOK
  <2> QED BY <2>2 DEF TypeOK, Chosen
<1> QED
  BY <1>1, <1>2, <1>3, <1>5, <1>6, <1>7, <1>8, <1>9 DEF Next

LEMMA AlwaysTyped == Spec => []TypeOK
<1> QED BY InitTyped, NextTyped, PTL DEF Spec

-----------------------------------------------------------------------------
(* Texts cut and joined *)

(* k is the place of the first token of s that is in T. *)
IsFirst(s, T, k) ==
  /\ k \in 1..(Len(s) + 1)
  /\ k <= Len(s) => s[k] \in T
  /\ \A j \in 1..(k - 1) : s[j] \notin T

LEMMA FirstIs ==
  ASSUME NEW S, NEW s \in Seq(S), NEW T
  PROVE  IsFirst(s, T, FirstOf(s, T))
<1> DEFINE n == Len(s)
           P == {i \in 1..(n + 1) : i <= n => s[i] \in T}
           Is(i) == /\ i <= n => s[i] \in T
                    /\ \A j \in 1..(i - 1) : ~(s[j] \in T)
<1>1. n \in Nat
  OBVIOUS
<1>2. PICK x \in P : \A y \in P : x <= y
  <2>1. P \subseteq Nat /\ n + 1 \in P
    BY <1>1
  <2> HIDE DEF P
  <2> QED BY <2>1, LeastPlace
<1>3. x \in 1..(n + 1) /\ (x <= n => s[x] \in T)
  OBVIOUS
<1>4. \A j \in 1..(x - 1) : s[j] \notin T
  <2> TAKE j \in 1..(x - 1)
  <2>1. j \in 1..(n + 1) /\ j <= n /\ ~(x <= j)
    BY <1>1, <1>3
  <2> QED BY <1>2, <2>1
<1>5. Is(x)
  BY <1>3, <1>4
<1>6. FirstOf(s, T) = CHOOSE i \in 1..(n + 1) : Is(i)
  BY DEF FirstOf, FirstWhere
<1>7. FirstOf(s, T) \in 1..(n + 1) /\ Is(FirstOf(s, T))
  <2> HIDE DEF Is, n
  <2> QED BY <1>3, <1>5, <1>6
<1> QED BY <1>7 DEF IsFirst

LEMMA FirstIsOne ==
  ASSUME NEW S, NEW s \in Seq(S), NEW T, NEW k, NEW l, IsFirst(s, T, k), IsFirst(s, T, l)
  PROVE  k = l
<1>1. k \in Int /\ l \in Int
  BY DEF IsFirst
<1>2. ~(k < l)
  BY DEF IsFirst
<1>3. ~(l < k)
  BY DEF IsFirst
<1> QED BY <1>1, <1>2, <1>3

(* A part of a text. *)
LEMMA PartIs ==
  ASSUME NEW S, NEW s \in Seq(S), NEW m \in 1..(Len(s) + 1), NEW n \in 0..Len(s)
  PROVE  /\ SubSeq(s, m, n) \in Seq(S)
         /\ Len(SubSeq(s, m, n)) = IF m <= n THEN n - m + 1 ELSE 0
         /\ \A i \in 1..(n - m + 1) : SubSeq(s, m, n)[i] = s[m + i - 1]
<1>1. \A i \in m..n : s[i] \in S
  OBVIOUS
<1>2. m \in Int /\ n \in Int
  OBVIOUS
<1> QED BY <1>1, <1>2, SubSeqProperties

LEMMA CutsAreTexts ==
  ASSUME NEW S, NEW s \in Seq(S), NEW T
  PROVE  Before(s, T) \in Seq(S) /\ After(s, T) \in Seq(S)
<1> DEFINE k == FirstOf(s, T)
<1>1. k \in 1..(Len(s) + 1) /\ Len(s) \in Nat
  BY FirstIs DEF IsFirst
<1> HIDE DEF k
<1>2. SubSeq(s, 1, k - 1) \in Seq(S)
  <2>1. 1 \in 1..(Len(s) + 1) /\ k - 1 \in 0..Len(s)
    BY <1>1
  <2> QED BY <2>1, PartIs
<1>3. SubSeq(s, k + 1, Len(s)) \in Seq(S)
  <2>1. CASE k = Len(s) + 1
    <3>1. SubSeq(s, k + 1, Len(s)) = <<>>
      BY <1>1, <2>1, SubSeqEmpty
    <3>2. <<>> \in Seq(S)
      OBVIOUS
    <3> QED BY <3>1, <3>2, Zenon
  <2>2. CASE k # Len(s) + 1
    <3>1. k + 1 \in 1..(Len(s) + 1) /\ Len(s) \in 0..Len(s)
      BY <1>1, <2>2
    <3> QED BY <3>1, PartIs
  <2> QED BY <2>1, <2>2
<1> QED BY <1>2, <1>3 DEF Before, After, k

(* None of the tokens of s is in T. *)
Lacks(s, T) == \A i \in 1..Len(s) : s[i] \notin T

LEMMA LacksJoins ==
  ASSUME NEW S, NEW a \in Seq(S), NEW b \in Seq(S), NEW T, Lacks(a, T), Lacks(b, T)
  PROVE  Lacks(a \o b, T)
<1>1. \A i \in 1..(Len(a) + Len(b)) :
        (a \o b)[i] = IF i <= Len(a) THEN a[i] ELSE b[i - Len(a)]
  BY ConcatProperties
<1>2. Len(a \o b) = Len(a) + Len(b)
  BY ConcatProperties
<1>3. Len(a) \in Nat /\ Len(b) \in Nat
  OBVIOUS
<1>4. \A i \in 1..(Len(a) + Len(b)) :
        IF i <= Len(a) THEN i \in 1..Len(a) ELSE i - Len(a) \in 1..Len(b)
  BY <1>3
<1> QED BY <1>1, <1>2, <1>4 DEF Lacks

(* A text that is not cut before its end. *)
LEMMA NotCut ==
  ASSUME NEW S, NEW s \in Seq(S), NEW T, Lacks(s, T)
  PROVE  /\ Before(s, T) = s /\ ~Holds(s, T)
<1> DEFINE k == FirstOf(s, T)
<1>1. IsFirst(s, T, k)
  BY FirstIs
<1> HIDE DEF k
<1>2. k = Len(s) + 1 /\ Len(s) \in Nat
  BY <1>1 DEF IsFirst, Lacks
<1>3. k - 1 = Len(s) /\ ~(k <= Len(s))
  BY <1>2
<1> QED BY <1>3, SubSeqFull DEF Before, Holds, k

(* A text that is cut at once. *)
LEMMA CutAtOnce ==
  ASSUME NEW S, NEW s \in Seq(S), NEW T, s # <<>> => s[1] \in T
  PROVE  /\ Before(s, T) = <<>>
         /\ s # <<>> => After(s, T) = Tail(s)
<1> DEFINE k == FirstOf(s, T)
<1>1. IsFirst(s, T, k)
  BY FirstIs
<1> HIDE DEF k
<1>2. k = 1
  <2>1. CASE s = <<>>
    BY <1>1, <2>1 DEF IsFirst
  <2>2. CASE s # <<>>
    <3>1. k \in 1..(Len(s) + 1) /\ Len(s) \in Nat /\ ~(1 \in 1..(k - 1))
      BY <1>1, <2>2 DEF IsFirst
    <3> QED BY <3>1
  <2> QED BY <2>1, <2>2
<1>3. SubSeq(s, 1, 0) = <<>>
  BY SubSeqEmpty
<1>4. s # <<>> => SubSeq(s, 2, Len(s)) = Tail(s)
  BY TailIsSubSeq
<1> QED BY <1>2, <1>3, <1>4 DEF Before, After, k

(* A part without the tokens looked for is passed over. *)
LEMMA CutFurtherOn ==
  ASSUME NEW S, NEW a \in Seq(S), NEW b \in Seq(S), NEW T, Lacks(a, T)
  PROVE  /\ Before(a \o b, T) = a \o Before(b, T)
         /\ After(a \o b, T) = After(b, T)
<1> DEFINE m == Len(a)
           n == Len(b)
           s == a \o b
           k == FirstOf(b, T)
<1>1. /\ m \in Nat /\ n \in Nat /\ Len(s) = m + n /\ s \in Seq(S)
      /\ \A i \in 1..(m + n) : s[i] = IF i <= m THEN a[i] ELSE b[i - m]
  BY ConcatProperties
<1>2. IsFirst(b, T, k)
  BY FirstIs
<1> HIDE DEF s, k
<1>3. k \in 1..(n + 1)
  BY <1>2 DEF IsFirst
<1>4. IsFirst(s, T, m + k)
  <2> DEFINE l == m + k
  <2>1. l \in 1..(Len(s) + 1)
    BY <1>1, <1>3
  <2>2. ASSUME l <= Len(s) PROVE s[l] \in T
    <3>1. l \in 1..(m + n) /\ ~(l <= m) /\ l - m = k /\ k <= n
      BY <1>1, <1>3, <2>2
    <3> HIDE DEF l
    <3> QED BY <1>1, <1>2, <3>1 DEF IsFirst
  <2>3. ASSUME NEW j \in 1..(l - 1) PROVE s[j] \notin T
    <3>1. j \in 1..(m + n)
      BY <1>1, <1>3
    <3>2. CASE j <= m
      <4>1. j \in 1..m /\ s[j] = a[j]
        BY <1>1, <3>1, <3>2
      <4> QED BY <4>1 DEF Lacks
    <3>3. CASE ~(j <= m)
      <4>1. j - m \in 1..(k - 1) /\ s[j] = b[j - m]
        BY <1>1, <1>3, <3>1, <3>3
      <4> QED BY <1>2, <4>1 DEF IsFirst
    <3> QED BY <3>2, <3>3
  <2> HIDE DEF l
  <2>4. IsFirst(s, T, l)
    BY <2>1, <2>2, <2>3 DEF IsFirst
  <2> QED BY <2>4 DEF l
<1>5. FirstOf(s, T) = m + k
  <2>1. IsFirst(s, T, FirstOf(s, T))
    BY <1>1, FirstIs
  <2> QED BY <1>1, <1>4, <2>1, FirstIsOne
<1>6. SubSeq(s, 1, m + k - 1) = a \o SubSeq(b, 1, k - 1)
  <2> DEFINE u == SubSeq(s, 1, m + k - 1)
             v == SubSeq(b, 1, k - 1)
             w == a \o v
  <2>1. u \in Seq(S) /\ Len(u) = m + k - 1 /\ \A i \in 1..(m + k - 1) : u[i] = s[i]
    <3>1. 1 \in 1..(Len(s) + 1) /\ m + k - 1 \in 0..Len(s)
      BY <1>1, <1>3
    <3>2. /\ u \in Seq(S) /\ Len(u) = IF 1 <= m + k - 1 THEN (m + k - 1) - 1 + 1 ELSE 0
          /\ \A i \in 1..((m + k - 1) - 1 + 1) : u[i] = s[1 + i - 1]
      BY <1>1, <3>1, PartIs
    <3> HIDE DEF u
    <3> QED BY <1>1, <1>3, <3>2
  <2>2. v \in Seq(S) /\ Len(v) = k - 1 /\ \A i \in 1..(k - 1) : v[i] = b[i]
    <3>1. 1 \in 1..(Len(b) + 1) /\ k - 1 \in 0..Len(b)
      BY <1>1, <1>3
    <3>2. /\ v \in Seq(S) /\ Len(v) = IF 1 <= k - 1 THEN (k - 1) - 1 + 1 ELSE 0
          /\ \A i \in 1..((k - 1) - 1 + 1) : v[i] = b[1 + i - 1]
      BY <1>1, <3>1, PartIs
    <3> HIDE DEF v
    <3> QED BY <1>1, <1>3, <3>2
  <2> HIDE DEF u, v
  <2>3. /\ w \in Seq(S) /\ Len(w) = m + k - 1
        /\ \A i \in 1..(m + k - 1) : w[i] = IF i <= m THEN a[i] ELSE v[i - m]
    <3>1. /\ w \in Seq(S) /\ Len(w) = m + Len(v)
          /\ \A i \in 1..(m + Len(v)) : w[i] = IF i <= m THEN a[i] ELSE v[i - m]
      BY <2>2, ConcatProperties
    <3> HIDE DEF w
    <3> QED BY <1>1, <1>3, <2>2, <3>1
  <2> HIDE DEF w
  <2>4. ASSUME NEW i \in 1..(m + k - 1) PROVE u[i] = w[i]
    <3>1. u[i] = IF i <= m THEN a[i] ELSE b[i - m]
      BY <1>1, <1>3, <2>1
    <3>2. ~(i <= m) => v[i - m] = b[i - m]
      BY <1>1, <1>3, <2>2
    <3> QED BY <2>3, <3>1, <3>2
  <2>5. u = w
    BY <2>1, <2>3, <2>4, SeqEqual
  <2> QED BY <2>5 DEF u, v, w
<1>7. SubSeq(s, m + k + 1, m + n) = SubSeq(b, k + 1, n)
  <2>1. CASE k < n
    <3> DEFINE u == SubSeq(s, m + k + 1, m + n)
               v == SubSeq(b, k + 1, n)
    <3>1. /\ m + k + 1 \in 1..(Len(s) + 1) /\ m + n \in 0..Len(s)
          /\ k + 1 \in 1..(Len(b) + 1) /\ n \in 0..Len(b)
          /\ (m + n) - (m + k + 1) + 1 = n - k /\ n - (k + 1) + 1 = n - k
          /\ m + k + 1 <= m + n /\ k + 1 <= n
      BY <1>1, <1>3, <2>1
    <3>2. u \in Seq(S) /\ Len(u) = n - k /\ \A i \in 1..(n - k) : u[i] = s[(m + k + 1) + i - 1]
      BY <1>1, <3>1, PartIs, SMTT(60)
    <3>3. v \in Seq(S) /\ Len(v) = n - k /\ \A i \in 1..(n - k) : v[i] = b[(k + 1) + i - 1]
      BY <1>1, <3>1, PartIs, SMTT(60)
    <3> HIDE DEF u, v
    <3>4. ASSUME NEW i \in 1..(n - k) PROVE u[i] = v[i]
      <4>1. /\ (m + k + 1) + i - 1 \in 1..(m + n) /\ ~((m + k + 1) + i - 1 <= m)
            /\ ((m + k + 1) + i - 1) - m = (k + 1) + i - 1
        BY <1>1, <1>3, <2>1
      <4> QED BY <1>1, <3>2, <3>3, <4>1
    <3>5. u = v
      BY <3>2, <3>3, <3>4, SeqEqual
    <3> QED BY <3>5 DEF u, v
  <2>2. CASE ~(k < n)
    <3>1. SubSeq(s, m + k + 1, m + n) = <<>>
      BY <1>1, <1>3, <2>2, SubSeqEmpty
    <3>2. SubSeq(b, k + 1, n) = <<>>
      BY <1>1, <1>3, <2>2, SubSeqEmpty
    <3> QED BY <3>1, <3>2
  <2> QED BY <2>1, <2>2
<1>8. /\ Before(b, T) = SubSeq(b, 1, k - 1)
      /\ After(b, T) = SubSeq(b, k + 1, n)
  BY DEF Before, After, k
<1>9. /\ Before(s, T) = SubSeq(s, 1, m + k - 1)
      /\ After(s, T) = SubSeq(s, m + k + 1, m + n)
  <2>1. Len(s) = m + n
    BY <1>1
  <2>2. /\ Before(s, T) = SubSeq(s, 1, FirstOf(s, T) - 1)
        /\ After(s, T) = SubSeq(s, FirstOf(s, T) + 1, Len(s))
    BY DEF Before, After
  <2>3. /\ FirstOf(s, T) - 1 = m + k - 1
        /\ FirstOf(s, T) + 1 = m + k + 1
    BY <1>1, <1>3, <1>5
  <2> QED BY <2>1, <2>2, <2>3
<1>10. Before(s, T) = a \o Before(b, T) /\ After(s, T) = After(b, T)
  BY <1>6, <1>7, <1>8, <1>9, Zenon
<1> QED BY <1>10 DEF s

(* Folding a joined text. *)
LEMMA LowerJoins ==
  ASSUME NEW S, NEW a \in Seq(S), NEW b \in Seq(S)
  PROVE  Lower(a \o b) = Lower(a) \o Lower(b)
<1> DEFINE U == S \cup {Folded[t] : t \in DOMAIN Folded}
           m == Len(a)
           n == Len(b)
           s == a \o b
           u == Lower(s)
           v == Lower(a)
           w == Lower(b)
           z == v \o w
           Fold(t) == IF t \in DOMAIN Folded THEN Folded[t] ELSE t
<1>1. /\ m \in Nat /\ n \in Nat /\ Len(s) = m + n /\ s \in Seq(S)
      /\ \A i \in 1..(m + n) : s[i] = IF i <= m THEN a[i] ELSE b[i - m]
  BY ConcatProperties
<1> HIDE DEF s
<1>2. /\ u \in Seq(U) /\ v \in Seq(U) /\ w \in Seq(U)
      /\ Len(u) = m + n /\ Len(v) = m /\ Len(w) = n
  <2> HIDE DEF U
  <2> QED BY <1>1, LowerFolds DEF U
<1>3. /\ \A i \in 1..(m + n) : u[i] = Fold(s[i])
      /\ \A i \in 1..m : v[i] = Fold(a[i])
      /\ \A i \in 1..n : w[i] = Fold(b[i])
  BY <1>1 DEF Lower
<1> HIDE DEF U, u, v, w, Fold
<1>4. /\ z \in Seq(U) /\ Len(z) = m + n
      /\ \A i \in 1..(m + n) : z[i] = IF i <= m THEN v[i] ELSE w[i - m]
  <2>1. /\ z \in Seq(U) /\ Len(z) = Len(v) + Len(w)
        /\ \A i \in 1..(Len(v) + Len(w)) :
             z[i] = IF i <= Len(v) THEN v[i] ELSE w[i - Len(v)]
    <3>1. v \in Seq(U) /\ w \in Seq(U)
      BY <1>2
    <3> QED BY <3>1, ConcatProperties, Zenon
  <2> HIDE DEF z
  <2> QED BY <1>2, <2>1
<1> HIDE DEF z
<1>5. ASSUME NEW i \in 1..(m + n) PROVE u[i] = z[i]
  <2>1. CASE i <= m
    <3>1. i \in 1..m /\ s[i] = a[i] /\ z[i] = v[i]
      BY <1>1, <1>4, <2>1
    <3> QED BY <1>3, <3>1
  <2>2. CASE ~(i <= m)
    <3>1. i - m \in 1..n /\ s[i] = b[i - m] /\ z[i] = w[i - m]
      BY <1>1, <1>4, <2>2
    <3> QED BY <1>3, <3>1
  <2> QED BY <2>1, <2>2
<1>6. u = z
  BY <1>2, <1>4, <1>5, SeqEqual
<1> QED BY <1>6 DEF u, v, w, z, s

(* Joining texts that need no trimming gives one. *)
LEMMA TrimJoins ==
  ASSUME NEW S, NEW a \in Seq(S), NEW b \in Seq(S), Trim(a), Trim(b)
  PROVE  Trim(a \o b)
<1> DEFINE s == a \o b
<1>1. CASE a = <<>>
  <2>1. s = b
    BY <1>1, ConcatEmptySeq
  <2> QED BY <2>1
<1>2. CASE b = <<>>
  <2>1. s = a
    BY <1>2, ConcatEmptySeq
  <2> QED BY <2>1
<1>3. CASE a # <<>> /\ b # <<>>
  <2>1. /\ Len(a) \in Nat /\ Len(b) \in Nat /\ Len(a) > 0 /\ Len(b) > 0
    BY <1>3
  <2>2. /\ Len(s) = Len(a) + Len(b)
        /\ \A i \in 1..(Len(a) + Len(b)) : s[i] = IF i <= Len(a) THEN a[i] ELSE b[i - Len(a)]
    BY ConcatProperties
  <2> HIDE DEF s
  <2>3. s[1] = a[1] /\ s[Len(s)] = b[Len(b)]
    BY <2>1, <2>2
  <2>4. Trim(s)
    BY <1>3, <2>3 DEF Trim
  <2> QED BY <2>4 DEF s
<1> QED BY <1>1, <1>2, <1>3

(* A text of c only is stripped off the front. *)
LEMMA LStripSkips ==
  ASSUME NEW S, NEW a \in Seq(S), NEW b \in Seq(S), NEW c,
         \A i \in 1..Len(a) : a[i] = c, b = <<>> \/ b[1] # c
  PROVE  LStrip(a \o b, c) = b
<1> DEFINE m == Len(a)
           n == Len(b)
           s == a \o b
<1>1. /\ m \in Nat /\ n \in Nat /\ Len(s) = m + n /\ s \in Seq(S)
      /\ \A i \in 1..(m + n) : s[i] = IF i <= m THEN a[i] ELSE b[i - m]
  BY ConcatProperties
<1>2. b = SubSeq(s, m + 1, m + n)
  <2> DEFINE u == SubSeq(s, m + 1, m + n)
  <2> HIDE DEF s
  <2>1. /\ m + 1 \in 1..(Len(s) + 1) /\ m + n \in 0..Len(s)
        /\ (m + n) - (m + 1) + 1 = n
    BY <1>1
  <2>2. /\ u \in Seq(S) /\ Len(u) = IF m + 1 <= m + n THEN n ELSE 0
        /\ \A i \in 1..n : u[i] = s[(m + 1) + i - 1]
    BY <1>1, <2>1, PartIs
  <2> HIDE DEF u
  <2>3. Len(u) = n
    BY <1>1, <2>2
  <2>4. ASSUME NEW i \in 1..n PROVE b[i] = u[i]
    <3>1. /\ (m + 1) + i - 1 = m + i /\ m + i \in 1..(m + n) /\ ~(m + i <= m) /\ (m + i) - m = i
      BY <1>1
    <3> QED BY <1>1, <2>2, <3>1
  <2>5. b = u
    BY <2>2, <2>3, <2>4, SeqEqual
  <2> QED BY <2>5 DEF u
<1> HIDE DEF s
<1>3. PICK k \in 1..(Len(s) + 1) : CutAt(s, c, k)
  <2>1. s \in Seq(S)
    BY <1>1
  <2> QED BY <2>1, LStripCut, Zenon
<1>4. ~(k <= m)
  <2> SUFFICES ASSUME k <= m PROVE FALSE
    OBVIOUS
  <2>1. k \in 1..m /\ k <= Len(s) /\ s[k] = a[k]
    BY <1>1
  <2> QED BY <1>3, <2>1 DEF CutAt
<1>5. ~(k > m + 1)
  <2> SUFFICES ASSUME k > m + 1 PROVE FALSE
    OBVIOUS
  <2>1. m + 1 \in 1..(k - 1) /\ m + 1 \in 1..(m + n) /\ n >= 1
    BY <1>1, <1>3
  <2>2. s[m + 1] = b[1] /\ s[m + 1] = c
    <3>1. ~(m + 1 <= m) /\ (m + 1) - m = 1
      BY <1>1
    <3> QED BY <1>1, <1>3, <2>1, <3>1 DEF CutAt
  <2> QED BY <2>1, <2>2
<1>6. k = m + 1
  BY <1>1, <1>3, <1>4, <1>5
<1>7. LStrip(s, c) = SubSeq(s, m + 1, m + n)
  BY <1>1, <1>3, <1>6 DEF CutAt
<1> QED BY <1>2, <1>7 DEF s

LEMMA StripBetween ==
  ASSUME NEW S, NEW a \in Seq(S), NEW text \in Seq(S), NEW b \in Seq(S),
         \A i \in 1..Len(a) : a[i] = Blank, \A i \in 1..Len(b) : b[i] = Blank,
         text # <<>>, Trim(text)
  PROVE  Strip(a \o (text \o b)) = text
<1> DEFINE m == Len(text)
           n == Len(b)
           s == text \o b
<1>1. /\ m \in Nat /\ n \in Nat /\ m > 0 /\ Len(s) = m + n /\ s \in Seq(S)
      /\ \A i \in 1..(m + n) : s[i] = IF i <= m THEN text[i] ELSE b[i - m]
  BY ConcatProperties
<1> HIDE DEF s
<1>2. s[1] # Blank /\ s[m] # Blank
  <2>1. s[1] = text[1] /\ s[m] = text[m]
    BY <1>1
  <2> QED BY <2>1 DEF Trim
<1>3. LStrip(a \o s, Blank) = s
  BY <1>1, <1>2, LStripSkips
<1>4. PICK upto \in 0..Len(s) :
        /\ RStrip(s, Blank) = SubSeq(s, 1, upto)
        /\ upto = 0 \/ s[upto] # Blank
        /\ \A j \in (upto + 1)..Len(s) : s[j] = Blank
  <2>1. s \in Seq(S)
    BY <1>1
  <2> QED BY <2>1, RStripCut, Zenon
<1>5. ~(upto < m)
  <2> SUFFICES ASSUME upto < m PROVE FALSE
    OBVIOUS
  <2>1. m \in (upto + 1)..Len(s)
    BY <1>1, <1>4
  <2> QED BY <1>2, <1>4, <2>1
<1>6. ~(upto > m)
  <2> SUFFICES ASSUME upto > m PROVE FALSE
    OBVIOUS
  <2>1. upto \in 1..(m + n) /\ ~(upto <= m) /\ upto - m \in 1..n /\ upto # 0
    BY <1>1, <1>4
  <2>2. s[upto] = b[upto - m]
    BY <1>1, <2>1
  <2> QED BY <1>4, <2>1, <2>2
<1>7. upto = m
  BY <1>1, <1>4, <1>5, <1>6
<1>8. SubSeq(s, 1, m) = text
  <2> DEFINE u == SubSeq(s, 1, m)
  <2>1. 1 \in 1..(Len(s) + 1) /\ m \in 0..Len(s) /\ m - 1 + 1 = m /\ 1 <= m
    BY <1>1
  <2>2. u \in Seq(S) /\ Len(u) = m /\ \A i \in 1..m : u[i] = s[1 + i - 1]
    <3>1. /\ u \in Seq(S) /\ Len(u) = IF 1 <= m THEN m - 1 + 1 ELSE 0
          /\ \A i \in 1..(m - 1 + 1) : u[i] = s[1 + i - 1]
      BY <1>1, <2>1, PartIs
    <3> HIDE DEF u, m
    <3> QED BY <2>1, <3>1
  <2> HIDE DEF u
  <2>3. ASSUME NEW i \in 1..m PROVE u[i] = text[i]
    <3>1. 1 + i - 1 = i /\ i \in 1..(m + n) /\ i <= m
      BY <1>1
    <3> QED BY <1>1, <2>2, <3>1
  <2>4. u = text
    BY <2>2, <2>3, SeqEqual
  <2> QED BY <2>4 DEF u
<1>9. RStrip(s, Blank) = text
  BY <1>4, <1>7, <1>8
<1> QED BY <1>3, <1>9 DEF Strip, s

(* How a joined text begins. *)
LEMMA JoinedBegins ==
  ASSUME NEW S, NEW a \in Seq(S), NEW b \in Seq(S), a # <<>>
  PROVE  /\ a \o b # <<>> /\ Lower(a \o b) # <<>>
         /\ (a \o b)[1] = a[1] /\ Lower(a \o b)[1] = Lower(a)[1]
         /\ Len(a) = 1 => Tail(a \o b) = b
<1> DEFINE s == a \o b
<1>1. /\ Len(a) \in Nat /\ Len(b) \in Nat /\ Len(a) > 0
      /\ Len(s) = Len(a) + Len(b) /\ s \in Seq(S)
      /\ \A i \in 1..(Len(a) + Len(b)) : s[i] = IF i <= Len(a) THEN a[i] ELSE b[i - Len(a)]
  BY ConcatProperties
<1> HIDE DEF s
<1>2. s # <<>> /\ s[1] = a[1]
  BY <1>1
<1>3. Lower(s) # <<>> /\ Lower(s)[1] = Lower(a)[1]
  <2>0. Len(Lower(s)) = Len(s)
    <3>1. s \in Seq(S)
      BY <1>1
    <3> QED BY <3>1, LowerFolds
  <2>1. 1 \in 1..Len(s) /\ 1 \in 1..Len(a) /\ Len(Lower(s)) = Len(s)
    BY <1>1, <2>0
  <2>2. Lower(s)[1] = Lower(a)[1]
    BY <1>2, <2>1 DEF Lower
  <2>3. Lower(s) # <<>>
    BY <2>1
  <2> QED BY <2>2, <2>3
<1>4. ASSUME Len(a) = 1 PROVE Tail(s) = b
  <2> DEFINE t == Tail(s)
  <2>1. t \in Seq(S) /\ Len(t) = Len(b) /\ \A i \in 1..Len(b) : t[i] = s[i + 1]
    <3>1. t \in Seq(S) /\ Len(t) = Len(s) - 1 /\ \A i \in 1..Len(t) : t[i] = s[i + 1]
      BY <1>1, <1>2, HeadTailProperties
    <3> HIDE DEF t
    <3>2. Len(s) - 1 = Len(b)
      BY <1>1, <1>4
    <3>3. Len(t) = Len(b)
      BY <3>1, <3>2, Zenon
    <3> QED BY <3>1, <3>3, Zenon
  <2> HIDE DEF t
  <2>2. ASSUME NEW i \in 1..Len(b) PROVE t[i] = b[i]
    <3>1. i + 1 \in 1..(Len(a) + Len(b)) /\ ~(i + 1 <= Len(a)) /\ (i + 1) - Len(a) = i
      BY <1>1, <1>4
    <3> QED BY <1>1, <2>1, <3>1
  <2>3. t = b
    BY <2>1, <2>2, SeqEqual
  <2> QED BY <2>3 DEF t
<1> QED BY <1>2, <1>3, <1>4 DEF s

-----------------------------------------------------------------------------
(* The parts of a spelling *)

Names == {"www.", "paypal.me", "paypal.com"}

LEMMA WordIs ==
  ASSUME NEW S, NEW name \in Seq(S), IsWord(name)
  PROVE  /\ name # <<>> /\ Trim(name)
         /\ Lacks(name, Marks)
         /\ Lacks(Lower(name), Marks \cup Protocols \cup Names)
<1>1. name # <<>> /\ Len(name) \in Nat /\ Len(name) > 0 /\ Len(Lower(name)) = Len(name)
  <2>1. Len(Lower(name)) = Len(name)
    BY LowerFolds
  <2>2. name # <<>>
    BY DEF IsWord
  <2> QED BY <2>1, <2>2
<1>2. Lacks(Lower(name), Marks \cup Protocols \cup Names)
  BY <1>1 DEF IsWord, Lacks, Names
<1>3. Lacks(name, Marks)
  BY <1>1, <1>2, LowerFolds, ZenonT(60) DEF Lacks
<1>4. Trim(name)
  <2>1. 1 \in 1..Len(name) /\ Len(name) \in 1..Len(name) /\ Blank \in Marks
    BY <1>1 DEF Marks
  <2> QED BY <1>3, <2>1 DEF Trim, Lacks
<1> QED BY <1>1, <1>2, <1>3, <1>4

(* Sigils are no other mark, and they do not fold. *)
IsSigils(sigil) == \A i \in 1..Len(sigil) : sigil[i] = "@"

LEMMA SigilsAre ==
  ASSUME NEW S, NEW sigil \in Seq(S), IsSigils(sigil)
  PROVE  /\ Trim(sigil) /\ Lower(sigil) = sigil
         /\ Lacks(sigil, {Blank, "/", "?", "#"} \cup Protocols \cup Names)
<1>1. "@" \notin {Blank, "/", "?", "#"} \cup Protocols \cup Names /\ "@" # Blank
  BY DEF Blank, Protocols, Names
<1>2. "@" \notin DOMAIN Folded
  BY FoldedAssumption DEF Marks
<1>3. Lower(sigil) = sigil
  BY <1>2, LowerKeeps DEF IsSigils
<1>4. Trim(sigil)
  <2>1. sigil # <<>> => 1 \in 1..Len(sigil) /\ Len(sigil) \in 1..Len(sigil)
    OBVIOUS
  <2> QED BY <1>1, <2>1 DEF Trim, IsSigils
<1> QED BY <1>1, <1>3, <1>4 DEF Lacks, IsSigils

(* The name behind its sigils. *)
LEMMA NamesAreLeft ==
  ASSUME NEW S, NEW sigil \in Seq(S), NEW name \in Seq(S), IsSigils(sigil), IsWord(name)
  PROVE  LStrip(sigil \o name, "@") = name /\ Username(sigil \o name) = Lower(name)
<1>1. name # <<>> /\ Trim(name) /\ name[1] # "@"
  <2>1. name # <<>> /\ Trim(name) /\ Lacks(name, Marks) /\ "@" \in Marks
    BY WordIs DEF Marks
  <2>2. 1 \in 1..Len(name)
    BY <2>1
  <2> QED BY <2>1, <2>2 DEF Lacks
<1>2. LStrip(sigil \o name, "@") = name
  BY <1>1, LStripSkips DEF IsSigils
<1>3. Strip(name) = name
  BY <1>1, TrimStays
<1> QED BY <1>2, <1>3 DEF Username

(* A text of four tokens, two by two *)
LEMMA FourTokensAre ==
  ASSUME NEW S, NEW host \in Seq(S), Len(host) = 4, host[2] = "/", host[4] = "/"
  PROVE  host = <<host[1]>> \o (<<"/">> \o (<<host[3]>> \o <<"/">>))
<1> DEFINE x == <<host[1]>>
           y == <<"/">>
           z == <<host[3]>>
           b == z \o y
           c == y \o b
           d == x \o c
<1>1. /\ x \in Seq(S) /\ y \in Seq(S) /\ z \in Seq(S)
      /\ Len(x) = 1 /\ Len(y) = 1 /\ Len(z) = 1
      /\ x[1] = host[1] /\ y[1] = "/" /\ z[1] = host[3]
  <2>1. host[1] \in S /\ host[2] \in S /\ host[3] \in S
    BY ElementOfSeq
  <2> QED BY <2>1
<1> HIDE DEF x, y, z
<1>2. b \in Seq(S) /\ Len(b) = 2 /\ b[1] = host[3] /\ b[2] = "/"
  <2>1. /\ b \in Seq(S) /\ Len(b) = Len(z) + Len(y)
        /\ \A i \in 1..(Len(z) + Len(y)) : b[i] = IF i <= Len(z) THEN z[i] ELSE y[i - Len(z)]
    BY <1>1, ConcatProperties
  <2> HIDE DEF b
  <2> QED BY <1>1, <2>1
<1> HIDE DEF b
<1>3. c \in Seq(S) /\ Len(c) = 3 /\ c[1] = "/" /\ c[2] = host[3] /\ c[3] = "/"
  <2>1. /\ c \in Seq(S) /\ Len(c) = Len(y) + Len(b)
        /\ \A i \in 1..(Len(y) + Len(b)) : c[i] = IF i <= Len(y) THEN y[i] ELSE b[i - Len(y)]
    BY <1>1, <1>2, ConcatProperties
  <2> HIDE DEF c
  <2> QED BY <1>1, <1>2, <2>1
<1> HIDE DEF c
<1>4. d \in Seq(S) /\ Len(d) = 4 /\ d[1] = host[1] /\ d[2] = "/" /\ d[3] = host[3] /\ d[4] = "/"
  <2>1. /\ d \in Seq(S) /\ Len(d) = Len(x) + Len(c)
        /\ \A i \in 1..(Len(x) + Len(c)) : d[i] = IF i <= Len(x) THEN x[i] ELSE c[i - Len(x)]
    BY <1>1, <1>3, ConcatProperties
  <2> HIDE DEF d
  <2> QED BY <1>1, <1>3, <2>1
<1> HIDE DEF d
<1>5. host = d
  <2>1. \A i \in 1..4 : host[i] = d[i]
    BY <1>4
  <2> QED BY <1>4, <2>1, SeqEqual
<1> QED BY <1>5 DEF b, c, d, x, y, z

(* The hosts of PayPal as they may be written. *)
LEMMA HostsAre ==
  ASSUME NEW S, NEW host \in Seq(S), Lower(host) \in PaypalHosts
  PROVE  /\ host # <<>> /\ Trim(host) /\ Lacks(host, {"?", "#"})
         /\ Lower(host)[1] \in {"paypal.me", "paypal.com"} /\ host[1] # "/"
         /\ \/ \E a \in S : /\ host = <<a>> \o <<"/">>
                            /\ Lower(<<a>>) = <<"paypal.me">>
            \/ \E a, b \in S : /\ host = <<a>> \o (<<"/">> \o (<<b>> \o <<"/">>))
                               /\ Lower(<<a>>) = <<"paypal.com">>
                               /\ Lower(<<b>>) = <<"paypalme">>
<1> DEFINE low == Lower(host)
           Fold(t) == IF t \in DOMAIN Folded THEN Folded[t] ELSE t
<1>1. /\ Len(low) = Len(host)
      /\ \A i \in 1..Len(host) : low[i] = Fold(host[i])
      /\ \A i \in 1..Len(host) : \A m \in Marks : low[i] = m <=> host[i] = m
  BY LowerFolds DEF Lower
<1>2. low = <<"paypal.me", "/">> \/ low = <<"paypal.com", "/", "paypalme", "/">>
  BY DEF PaypalHosts
<1>3. \A t : Lower(<<t>>) = <<Fold(t)>>
  BY DEF Lower
<1> HIDE DEF low, Fold
<1>4. ASSUME NEW i \in 1..Len(host) PROVE low[i] \in {"paypal.me", "paypal.com", "paypalme", "/"}
  BY <1>1, <1>2
<1>5. /\ Len(host) \in {2, 4} /\ low[1] \in {"paypal.me", "paypal.com"}
      /\ low[2] = "/" /\ low[Len(host)] = "/"
  BY <1>1, <1>2, SMTT(60)
<1>6. {Blank, "/", "?", "#"} \subseteq Marks
  BY DEF Marks
<1>7. Lacks(host, {"?", "#"})
  BY <1>1, <1>4, <1>6 DEF Lacks
<1>8. host # <<>> /\ host[1] # Blank /\ host[1] # "/" /\ host[Len(host)] = "/" /\ host[2] = "/"
  <2>1. 1 \in 1..Len(host) /\ 2 \in 1..Len(host) /\ Len(host) \in 1..Len(host)
    BY <1>5
  <2>2. Blank \in Marks /\ "/" \in Marks /\ low[1] # "/" /\ low[1] # Blank
    BY <1>5, <1>6 DEF Blank
  <2>3. host[1] # Blank /\ host[1] # "/"
    BY <1>1, <2>1, <2>2
  <2>4. host[Len(host)] = "/" /\ host[2] = "/"
    BY <1>1, <1>5, <2>1, <2>2
  <2>5. host # <<>>
    BY <2>1
  <2> QED BY <2>3, <2>4, <2>5
<1>9. Trim(host)
  BY <1>8 DEF Trim, Blank
<1>10. CASE low = <<"paypal.me", "/">>
  <2>1. Len(host) = 2 /\ low[1] = "paypal.me"
    BY <1>1, <1>10
  <2>2. host[1] \in S /\ host = <<host[1]>> \o <<"/">>
    BY <1>8, <2>1
  <2>3. Lower(<<host[1]>>) = <<"paypal.me">>
    BY <1>1, <1>3, <2>1
  <2> QED BY <1>5, <1>7, <1>8, <1>9, <2>2, <2>3 DEF low
<1>11. CASE low = <<"paypal.com", "/", "paypalme", "/">>
  <2>1. Len(host) = 4 /\ low[1] = "paypal.com" /\ low[3] = "paypalme"
    BY <1>1, <1>11
  <2>2. /\ host[1] \in S /\ host[3] \in S
        /\ host = <<host[1]>> \o (<<"/">> \o (<<host[3]>> \o <<"/">>))
    <3>1. host[1] \in S /\ host[3] \in S
      BY <2>1, ElementOfSeq
    <3>2. host = <<host[1]>> \o (<<"/">> \o (<<host[3]>> \o <<"/">>))
      BY <1>8, <2>1, FourTokensAre
    <3> QED BY <3>1, <3>2, Zenon
  <2>3. Lower(<<host[1]>>) = <<"paypal.com">> /\ Lower(<<host[3]>>) = <<"paypalme">>
    BY <1>1, <1>3, <2>1
  <2> QED BY <1>5, <1>7, <1>8, <1>9, <2>2, <2>3 DEF low
<1> QED BY <1>2, <1>10, <1>11

(* One token that folds to another one. *)
LEMMA OneTokenIs ==
  ASSUME NEW S, NEW s \in Seq(S), NEW t, t \notin Marks, Lower(s) = <<t>>
  PROVE  Len(s) = 1 /\ Trim(s) /\ Lacks(s, Marks) /\ Lower(s)[1] = t /\ s # <<>>
<1>1. Len(s) = 1 /\ Lower(s)[1] = t
  <2>1. Len(Lower(s)) = Len(s)
    BY LowerFolds
  <2> QED BY <2>1
<1>2. Lacks(s, Marks)
  <2>1. \A i \in 1..Len(s) : \A m \in Marks : Lower(s)[i] = m <=> s[i] = m
    BY LowerFolds, ZenonT(60)
  <2>2. \A i \in 1..Len(s) : i = 1
    BY <1>1
  <2> QED BY <1>1, <2>1, <2>2 DEF Lacks
<1>3. s # <<>> /\ s[1] # Blank
  BY <1>1, <1>2, SMTT(60) DEF Lacks, Marks
<1> QED BY <1>1, <1>2, <1>3 DEF Trim

LEMMA NothingIs ==
  ASSUME NEW S, NEW s \in Seq(S), Lower(s) = <<>>
  PROVE  s = <<>>
<1>1. Len(Lower(s)) = Len(s)
  BY LowerFolds
<1> QED BY <1>1

LEMMA WwwIs ==
  ASSUME NEW S, NEW www \in Seq(S), Lower(www) \in {<<>>, <<"www.">>}
  PROVE  /\ Trim(www) /\ Lacks(www, {"/", "?", "#"})
         /\ www = <<>> \/ (Lower(www)[1] = "www." /\ www[1] # "/")
<1>1. CASE Lower(www) = <<>>
  <2>1. www = <<>>
    BY <1>1, NothingIs
  <2> QED BY <2>1 DEF Trim, Lacks
<1>2. CASE Lower(www) = <<"www.">>
  <2>1. "www." \notin Marks
    BY DEF Marks, Blank
  <2>2. /\ Len(www) = 1 /\ Trim(www) /\ Lacks(www, Marks)
        /\ Lower(www)[1] = "www." /\ www # <<>>
    BY <1>2, <2>1, OneTokenIs
  <2>3. Lacks(www, {"/", "?", "#"})
    BY <2>2 DEF Lacks, Marks
  <2>4. www[1] # "/"
    BY <2>2, <2>3 DEF Lacks
  <2> QED BY <2>2, <2>3, <2>4
<1> QED BY <1>1, <1>2

(* What follows the protocol of a link begins with its host. *)
LEMMA LinksBegin ==
  ASSUME NEW S, NEW www \in Seq(S), NEW host \in Seq(S), NEW more \in Seq(S),
         Lower(www) \in {<<>>, <<"www.">>}, Lower(host) \in PaypalHosts
  PROVE  LET rest == www \o (host \o more) IN
         /\ rest \in Seq(S) /\ rest # <<>> /\ rest[1] # "/"
         /\ Lower(rest) # <<>> /\ Lower(rest)[1] \notin Protocols
<1> DEFINE tail == host \o more
           rest == www \o tail
<1>1. tail \in Seq(S) /\ rest \in Seq(S)
  BY ConcatProperties
<1>2. host # <<>> /\ host[1] # "/" /\ Lower(host)[1] \in {"paypal.me", "paypal.com"}
  BY HostsAre
<1>3. /\ tail # <<>> /\ Lower(tail) # <<>>
      /\ tail[1] = host[1] /\ Lower(tail)[1] = Lower(host)[1]
  BY <1>2, JoinedBegins
<1> HIDE DEF tail
<1>4. CASE www = <<>>
  <2>1. rest = tail
    BY <1>1, <1>4, ConcatEmptySeq
  <2> HIDE DEF rest
  <2>2. Lower(rest)[1] \notin Protocols
    BY <1>2, <1>3, <2>1 DEF Protocols
  <2> QED BY <1>1, <1>2, <1>3, <2>1, <2>2 DEF rest, tail
<1>5. CASE www # <<>>
  <2>1. Lower(www)[1] = "www." /\ www[1] # "/"
    BY <1>5, WwwIs
  <2>2. /\ rest # <<>> /\ Lower(rest) # <<>>
        /\ rest[1] = www[1] /\ Lower(rest)[1] = Lower(www)[1]
    BY <1>1, <1>5, JoinedBegins
  <2> HIDE DEF rest
  <2>3. Lower(rest)[1] \notin Protocols
    BY <2>1, <2>2 DEF Protocols
  <2> QED BY <1>1, <2>1, <2>2, <2>3 DEF rest, tail
<1> QED BY <1>4, <1>5

(* A protocol comes off, and nothing else does. *)
LEMMA ProtocolsComeOff ==
  ASSUME NEW S, NEW protocol \in Seq(S), NEW rest \in Seq(S),
         protocol = <<>> \/ Lower(protocol) \in {<<t>> : t \in Protocols},
         Lower(rest) # <<>>, Lower(rest)[1] \notin Protocols
  PROVE  (IF Linked(protocol \o rest) THEN Tail(protocol \o rest) ELSE protocol \o rest) = rest
<1> DEFINE text == protocol \o rest
<1>1. CASE protocol = <<>>
  <2>1. text = rest
    BY <1>1, ConcatEmptySeq
  <2>2. ~Linked(rest)
    BY DEF Linked, StartsWith
  <2> HIDE DEF text
  <2>3. (IF Linked(text) THEN Tail(text) ELSE text) = rest
    BY <2>1, <2>2
  <2> QED BY <2>3 DEF text
<1>2. CASE protocol # <<>>
  <2>1. PICK t \in Protocols : Lower(protocol) = <<t>>
    BY <1>2
  <2>2. t \notin Marks
    BY DEF Protocols, Marks, Blank
  <2>3. Len(protocol) = 1 /\ Lower(protocol)[1] = t
    BY <2>1, <2>2, OneTokenIs
  <2>4. Lower(text) # <<>> /\ Lower(text)[1] = t /\ Tail(text) = rest
    BY <1>2, <2>3, JoinedBegins
  <2> HIDE DEF text
  <2>5. Linked(text)
    BY <2>4 DEF Linked, StartsWith
  <2>6. (IF Linked(text) THEN Tail(text) ELSE text) = rest
    BY <2>4, <2>5
  <2> QED BY <2>6 DEF text
<1> QED BY <1>1, <1>2

LEMMA CutsFurtherOn ==
  ASSUME NEW S, NEW T
  PROVE  \A a, b \in Seq(S) : Lacks(a, T) => Before(a \o b, T) = a \o Before(b, T)
BY CutFurtherOn

(* The query and the fragment of a link are cut. *)
OnlyTailIsCut(S, www, host, user, path, tail, T) ==
  /\ www \in Seq(S) /\ host \in Seq(S) /\ user \in Seq(S)
  /\ path \in Seq(S) /\ tail \in Seq(S)
  /\ Lacks(www, T) /\ Lacks(host, T) /\ Lacks(user, T) /\ Lacks(path, T)
  /\ tail # <<>> => tail[1] \in T

LEMMA TailsAreCut ==
  ASSUME NEW S, NEW www, NEW host, NEW user, NEW path, NEW tail, NEW T,
         OnlyTailIsCut(S, www, host, user, path, tail, T)
  PROVE  Before(www \o (host \o (user \o (path \o tail))), T)
           = www \o (host \o (user \o path))
<1> DEFINE p == path \o tail
           u == user \o p
           h == host \o u
           w == www \o h
<1>0. \A a, b \in Seq(S) : Lacks(a, T) => Before(a \o b, T) = a \o Before(b, T)
  BY CutsFurtherOn
<1>1. /\ p \in Seq(S) /\ u \in Seq(S) /\ h \in Seq(S)
      /\ www \in Seq(S) /\ host \in Seq(S) /\ user \in Seq(S)
      /\ path \in Seq(S) /\ tail \in Seq(S)
  BY ConcatProperties DEF OnlyTailIsCut
<1>2. Before(tail, T) = <<>>
  BY <1>1, CutAtOnce DEF OnlyTailIsCut
<1>3. Before(p, T) = path
  <2>1. Before(p, T) = path \o Before(tail, T)
    BY <1>0, <1>1 DEF OnlyTailIsCut
  <2>2. path \o <<>> = path
    BY <1>1, ConcatEmptySeq
  <2> QED BY <1>2, <2>1, <2>2
<1> HIDE DEF p
<1>4. Before(u, T) = user \o Before(p, T)
  BY <1>0, <1>1 DEF OnlyTailIsCut
<1> HIDE DEF u
<1>5. Before(h, T) = host \o Before(u, T)
  BY <1>0, <1>1 DEF OnlyTailIsCut
<1> HIDE DEF h
<1>6. Before(w, T) = www \o Before(h, T)
  BY <1>0, <1>1 DEF OnlyTailIsCut
<1> QED BY <1>3, <1>4, <1>5, <1>6 DEF p, u, h, w

(* The host of a link, and what follows it. *)
LEMMA HostIsFound ==
  ASSUME NEW S, NEW www \in Seq(S), NEW host \in Seq(S), NEW more \in Seq(S),
         Lower(www) \in {<<>>, <<"www.">>}, Lower(host) \in PaypalHosts
  PROVE  LET text  == www \o (host \o more)
             found == DropFirst(Lower(Before(text, {"/"})), {"www."})
             after == After(text, {"/"})
         IN  \/ found = <<"paypal.me">> /\ after = more
             \/ /\ found = <<"paypal.com">> /\ Lower(Before(after, {"/"})) = <<"paypalme">>
                /\ After(after, {"/"}) = more
<1> DEFINE text  == www \o (host \o more)
           T     == {"/"}
           found == DropFirst(Lower(Before(text, T)), {"www."})
           after == After(text, T)
<1>1. "/" \in S
  <2>1. host[2] = "/" /\ Len(host) \in {2, 4}
    <3>1. Len(Lower(host)) = Len(host)
      BY LowerFolds
    <3>2. \/ Lower(host) = <<"paypal.me", "/">>
          \/ Lower(host) = <<"paypal.com", "/", "paypalme", "/">>
      BY DEF PaypalHosts
    <3>3. Len(Lower(host)) \in {2, 4} /\ Lower(host)[2] = "/"
      BY <3>2
    <3>4. 2 \in 1..Len(host) /\ Len(host) \in {2, 4} /\ "/" \in Marks
      BY <3>1, <3>3 DEF Marks
    <3>5. \A i \in 1..Len(host) : \A m \in Marks : Lower(host)[i] = m <=> host[i] = m
      BY LowerFolds, ZenonT(60)
    <3> QED BY <3>3, <3>4, <3>5
  <2>2. 2 \in 1..Len(host)
    BY <2>1
  <2> QED BY <2>1, <2>2, ElementOfSeq
<1> DEFINE slash == <<"/">>
<1>2. slash \in Seq(S) /\ slash # <<>> /\ slash[1] \in T /\ Len(slash) = 1
  BY <1>1
<1> HIDE DEF slash
<1>3. Lacks(www, T)
  BY WwwIs DEF Lacks
(* a token in front of a slash *)
<1>4. ASSUME NEW a \in S, NEW low, low \notin Marks, Lower(<<a>>) = <<low>>, NEW x \in Seq(S)
      PROVE  /\ slash \o x \in Seq(S) /\ <<a>> \o (slash \o x) \in Seq(S)
             /\ Before(<<a>> \o (slash \o x), T) = <<a>>
             /\ After(<<a>> \o (slash \o x), T) = x
  <2> DEFINE one == <<a>>
             b   == slash \o x
  <2>1. one \in Seq(S) /\ Lacks(one, Marks)
    <3>1. one \in Seq(S)
      OBVIOUS
    <3> HIDE DEF one
    <3> QED BY <1>4, <3>1, OneTokenIs DEF one
  <2>2. Lacks(one, T)
    BY <2>1 DEF Lacks, Marks
  <2> HIDE DEF one
  <2>3. b \in Seq(S) /\ one \o b \in Seq(S)
    BY <1>2, <2>1, ConcatProperties
  <2>4. b # <<>> /\ b[1] = slash[1] /\ Tail(b) = x
    BY <1>2, JoinedBegins
  <2> HIDE DEF b
  <2>5. Before(b, T) = <<>> /\ After(b, T) = x
    BY <1>2, <2>3, <2>4, CutAtOnce
  <2>6. Before(one \o b, T) = one \o Before(b, T) /\ After(one \o b, T) = After(b, T)
    BY <2>1, <2>2, <2>3, CutFurtherOn, SMTT(60)
  <2>7. one \o <<>> = one
    BY <2>1, ConcatEmptySeq
  <2>8. Before(one \o b, T) = one /\ After(one \o b, T) = x
    BY <2>5, <2>6, <2>7
  <2> QED BY <2>3, <2>8 DEF one, b
(* a host behind "www.", or without it *)
<1>5. ASSUME NEW a \in S, NEW low, low \notin Marks \cup {"www."}, Lower(<<a>>) = <<low>>,
             NEW x \in Seq(S), host \o more = <<a>> \o (slash \o x)
      PROVE  found = <<low>> /\ after = x
  <2> DEFINE one == <<a>>
             b   == host \o more
  <2>1. b \in Seq(S) /\ Before(b, T) = one /\ After(b, T) = x
    BY <1>4, <1>5
  <2>2. one \in Seq(S)
    OBVIOUS
  <2> HIDE DEF one, b
  <2>3. Before(text, T) = www \o one /\ after = x
    <3>1. ASSUME NEW y \in Seq(S)
          PROVE  Before(www \o y, T) = www \o Before(y, T) /\ After(www \o y, T) = After(y, T)
      BY <1>3, CutFurtherOn
    <3>2. Before(www \o b, T) = www \o Before(b, T) /\ After(www \o b, T) = After(b, T)
      BY <2>1, <3>1
    <3> QED BY <2>1, <3>2 DEF b
  <2>4. Lower(one) = <<low>>
    BY <1>5 DEF one
  <2>5. DropFirst(Lower(www \o one), {"www."}) = <<low>>
    <3>1. Lower(www \o one) = Lower(www) \o Lower(one)
      BY <2>2, LowerJoins
    <3>2. CASE Lower(www) = <<>>
      <4>1. Lower(www \o one) = <<low>>
        <5>1. <<low>> \in Seq({low})
          OBVIOUS
        <5>2. <<>> \o <<low>> = <<low>>
          BY <5>1, ConcatEmptySeq
        <5> QED BY <2>4, <3>1, <3>2, <5>2
      <4> QED BY <1>5, <4>1 DEF DropFirst, StartsWith
    <3>3. CASE Lower(www) = <<"www.">>
      <4> DEFINE l == <<"www.">>
                 o == <<low>>
      <4>1. /\ l \in Seq({"www.", low}) /\ o \in Seq({"www.", low})
            /\ l # <<>> /\ Len(l) = 1 /\ l[1] = "www."
        OBVIOUS
      <4> HIDE DEF l, o
      <4>2. l \o o # <<>> /\ (l \o o)[1] = "www." /\ Tail(l \o o) = o
        BY <4>1, JoinedBegins
      <4>3. DropFirst(l \o o, {"www."}) = o
        BY <4>2 DEF DropFirst, StartsWith
      <4> QED BY <2>4, <3>1, <3>3, <4>3 DEF l, o
    <3> QED BY <3>2, <3>3
  <2> QED BY <2>3, <2>5
<1> HIDE DEF found, after, text
<1>6. CASE \E a \in S : host = <<a>> \o <<"/">> /\ Lower(<<a>>) = <<"paypal.me">>
  <2>1. PICK a \in S : host = <<a>> \o slash /\ Lower(<<a>>) = <<"paypal.me">>
    BY <1>6 DEF slash
  <2>2. host \o more = <<a>> \o (slash \o more)
    <3>1. <<a>> \in Seq(S)
      OBVIOUS
    <3> QED BY <1>2, <2>1, <3>1, ConcatAssociative
  <2>3. "paypal.me" \notin Marks \cup {"www."}
    BY DEF Marks, Blank
  <2>4. found = <<"paypal.me">> /\ after = more
    BY <1>5, <2>1, <2>2, <2>3
  <2> QED BY <2>4 DEF found, after, text
<1>7. CASE \E a, b \in S : /\ host = <<a>> \o (<<"/">> \o (<<b>> \o <<"/">>))
                           /\ Lower(<<a>>) = <<"paypal.com">> /\ Lower(<<b>>) = <<"paypalme">>
  <2>1. PICK a \in S, b \in S :
          /\ host = <<a>> \o (slash \o (<<b>> \o slash))
          /\ Lower(<<a>>) = <<"paypal.com">> /\ Lower(<<b>>) = <<"paypalme">>
    BY <1>7 DEF slash
  <2> DEFINE x == <<b>> \o (slash \o more)
             one == <<a>>
             two == <<b>>
  <2>2. one \in Seq(S) /\ two \in Seq(S)
    OBVIOUS
  <2>3. "paypalme" \notin Marks /\ "paypal.com" \notin Marks \cup {"www."}
    BY DEF Marks, Blank
  <2>4. /\ x \in Seq(S) /\ Before(x, T) = <<b>> /\ After(x, T) = more
    BY <1>4, <2>1, <2>3
  <2> HIDE DEF one, two
  <2>5. host \o more = one \o (slash \o (two \o (slash \o more)))
    <3>0. \A x1, x2, x3 \in Seq(S) : (x1 \o x2) \o x3 = x1 \o (x2 \o x3)
      BY ConcatAssociative, SMTT(60)
    <3>1. /\ two \o slash \in Seq(S) /\ slash \o (two \o slash) \in Seq(S)
      BY <1>2, <2>2, ConcatProperties
    <3>2. (one \o (slash \o (two \o slash))) \o more = one \o ((slash \o (two \o slash)) \o more)
      <4> DEFINE y == slash \o (two \o slash)
      <4>1. y \in Seq(S) /\ one \in Seq(S) /\ more \in Seq(S)
        BY <2>2, <3>1
      <4> HIDE DEF y
      <4>2. (one \o y) \o more = one \o (y \o more)
        BY <3>0, <4>1, ZenonT(60)
      <4> QED BY <4>2 DEF y
    <3>3. (slash \o (two \o slash)) \o more = slash \o ((two \o slash) \o more)
      BY <1>2, <3>0, <3>1, ZenonT(60)
    <3>4. (two \o slash) \o more = two \o (slash \o more)
      BY <1>2, <2>2, <3>0, ZenonT(60)
    <3>5. host = one \o (slash \o (two \o slash))
      BY <2>1 DEF one, two
    <3> QED BY <3>2, <3>3, <3>4, <3>5
  <2>6. host \o more = <<a>> \o (slash \o x)
    BY <2>5 DEF one, two
  <2> HIDE DEF x
  <2>7. found = <<"paypal.com">> /\ after = x
    BY <1>5, <2>1, <2>3, <2>4, <2>6
  <2> QED BY <2>1, <2>4, <2>7 DEF found, after, text
<1> QED BY <1>6, <1>7, HostsAre

-----------------------------------------------------------------------------
(* The handle of a PayPal name *)

LEMMA UsersAre ==
  ASSUME NEW S, NEW sigil \in Seq(S), NEW name \in Seq(S), IsSigils(sigil), IsWord(name)
  PROVE  /\ sigil \o name \in Seq(S) /\ sigil \o name # <<>> /\ Trim(sigil \o name)
         /\ Lacks(sigil \o name, {"/", "?", "#"})
<1>1. /\ name # <<>> /\ Trim(name) /\ Trim(sigil)
      /\ Lacks(name, {"/", "?", "#"}) /\ Lacks(sigil, {"/", "?", "#"})
  <2>1. name # <<>> /\ Trim(name) /\ Lacks(name, Marks)
    BY WordIs
  <2>2. Trim(sigil) /\ Lacks(sigil, {Blank, "/", "?", "#"} \cup Protocols \cup Names)
    BY SigilsAre
  <2>3. Lacks(name, {"/", "?", "#"})
    BY <2>1 DEF Lacks, Marks
  <2>4. Lacks(sigil, {"/", "?", "#"})
    BY <2>2 DEF Lacks
  <2> QED BY <2>1, <2>2, <2>3, <2>4
<1>2. sigil \o name \in Seq(S) /\ Len(sigil \o name) = Len(sigil) + Len(name)
  BY ConcatProperties
<1>3. sigil \o name # <<>>
  <2> DEFINE s == sigil \o name
  <2>1. Len(sigil) \in Nat /\ Len(name) \in Nat /\ Len(name) # 0
    BY <1>1, EmptySeq
  <2> HIDE DEF s
  <2>2. Len(s) # 0
    BY <1>2, <2>1 DEF s
  <2>3. s # <<>>
    BY <2>2
  <2> QED BY <2>3 DEF s
<1>4. Trim(sigil \o name)
  BY <1>1, TrimJoins
<1>5. Lacks(sigil \o name, {"/", "?", "#"})
  BY <1>1, LacksJoins
<1> QED BY <1>2, <1>3, <1>4, <1>5

(* A link to a name, in one of the two forms. *)
LinksTo(S, text, rest, www, host, user, path) ==
  /\ www \in Seq(S) /\ host \in Seq(S) /\ user \in Seq(S) /\ path \in Seq(S)
  /\ Lower(www) \in {<<>>, <<"www.">>} /\ Lower(host) \in PaypalHosts
  /\ Lacks(user, {"/", "?", "#"})
  /\ path # <<>> => path[1] = "/"
  /\ Strip(text) = text /\ (IF Linked(text) THEN Tail(text) ELSE text) = rest
  /\ Before(rest, {"?", "#"}) = www \o (host \o (user \o path))

LEMMA LinkedNames ==
  ASSUME NEW S, NEW text, NEW rest, NEW www, NEW host, NEW user, NEW path,
         LinksTo(S, text, rest, www, host, user, path)
  PROVE  NormalizePaypalMeUsername(text) = Username(user)
<1> DEFINE more == user \o path
           P    == www \o (host \o more)
<1>0. /\ www \in Seq(S) /\ host \in Seq(S) /\ user \in Seq(S) /\ path \in Seq(S)
      /\ Lower(www) \in {<<>>, <<"www.">>} /\ Lower(host) \in PaypalHosts
  BY DEF LinksTo
<1>1. /\ Before(rest, {"?", "#"}) = P /\ Strip(text) = text
      /\ (IF Linked(text) THEN Tail(text) ELSE text) = rest
  BY DEF LinksTo
<1>2. more \in Seq(S)
  BY <1>0, ConcatProperties
<1>3. Before(more, {"/"}) = user
  <2>1. Lacks(user, {"/"})
    BY DEF Lacks, LinksTo
  <2>2. Before(path, {"/"}) = <<>>
    BY <1>0, CutAtOnce DEF LinksTo
  <2>3. Before(more, {"/"}) = user \o Before(path, {"/"})
    BY <1>0, <2>1, CutsFurtherOn
  <2>4. user \o <<>> = user
    BY <1>0, ConcatEmptySeq
  <2> QED BY <2>2, <2>3, <2>4
<1> HIDE DEF more
<1>4. P \in Seq(S) /\ P # <<>> /\ P[1] # "/"
  BY <1>0, <1>2, LinksBegin
<1>5. \/ DropFirst(Lower(Before(P, {"/"})), {"www."}) = <<"paypal.me">> /\ After(P, {"/"}) = more
      \/ /\ DropFirst(Lower(Before(P, {"/"})), {"www."}) = <<"paypal.com">>
         /\ Lower(Before(After(P, {"/"}), {"/"})) = <<"paypalme">>
         /\ After(After(P, {"/"}), {"/"}) = more
  BY <1>0, <1>2, HostIsFound
<1> HIDE DEF P
<1>6. Path(text) = P
  <2>1. LStrip(P, "/") = P
    BY <1>4, LStripKeeps
  <2> QED BY <1>1, <2>1 DEF Path
<1>7. /\ Host(text) = DropFirst(Lower(Before(P, {"/"})), {"www."})
      /\ First(text) = Before(After(P, {"/"}), {"/"})
      /\ Second(text) = Before(After(After(P, {"/"}), {"/"}), {"/"})
  BY <1>6 DEF Host, First, Second, Segments
<1>8. CASE Host(text) = <<"paypal.me">>
  <2>1. <<"paypal.me">> # <<"paypal.com">>
    OBVIOUS
  <2>2. First(text) = user
    BY <1>3, <1>5, <1>7, <1>8, <2>1
  <2> QED BY <1>1, <1>8, <2>2 DEF NormalizePaypalMeUsername
<1>9. CASE Host(text) # <<"paypal.me">>
  <2>1. /\ Host(text) = <<"paypal.com">> /\ Lower(First(text)) = <<"paypalme">>
        /\ Second(text) = user
    BY <1>3, <1>5, <1>7, <1>9
  <2> QED BY <1>1, <1>9, <2>1 DEF NormalizePaypalMeUsername
<1> QED BY <1>8, <1>9

(* A bare name. *)
LEMMA BareNames ==
  ASSUME NEW S, NEW sigil \in Seq(S), NEW name \in Seq(S), IsSigils(sigil), IsWord(name)
  PROVE  NormalizePaypalMeUsername(sigil \o name) = Lower(name)
<1> DEFINE text == sigil \o name
           U    == S \cup {Folded[t] : t \in DOMAIN Folded}
           low  == Lower(text)
           D    == {"/"} \cup Protocols \cup Names
<1>1. text \in Seq(S) /\ text # <<>> /\ Trim(text) /\ Lacks(text, {"/", "?", "#"})
  BY UsersAre
<1>2. LStrip(text, "@") = name
  BY NamesAreLeft
<1>3. low = sigil \o Lower(name)
  <2>1. low = Lower(sigil) \o Lower(name)
    BY LowerJoins
  <2>2. Lower(sigil) = sigil
    BY SigilsAre
  <2> QED BY <2>1, <2>2
<1>4. Lacks(low, D)
  <2>1. Lower(name) \in Seq(U)
    BY LowerFolds
  <2>2. sigil \in Seq(U)
    BY SeqMonotonic
  <2>3. Lacks(sigil, D) /\ Lacks(Lower(name), D)
    <3>1. Lacks(sigil, {Blank, "/", "?", "#"} \cup Protocols \cup Names)
      BY SigilsAre
    <3>2. Lacks(Lower(name), Marks \cup Protocols \cup Names)
      BY WordIs
    <3> QED BY <3>1, <3>2 DEF Lacks, Marks
  <2> HIDE DEF U, D
  <2>4. Lacks(sigil \o Lower(name), D)
    BY <2>1, <2>2, <2>3, LacksJoins
  <2> QED BY <1>3, <2>4
<1>5. low \in Seq(U) /\ Len(low) = Len(text)
  BY <1>1, LowerFolds
<1> HIDE DEF text, U
<1>6. low # <<>> /\ low[1] \notin D /\ text[1] # "/"
  <2>1. 1 \in 1..Len(text)
    BY <1>1
  <2>2. 1 \in 1..Len(low)
    BY <1>5, <2>1
  <2>3. low # <<>>
    BY <2>2
  <2> HIDE DEF low, D
  <2> QED BY <1>1, <1>4, <2>1, <2>2, <2>3 DEF Lacks
<1>7. ~Linked(text)
  BY <1>6 DEF Linked, StartsWith
<1>8. ~HasSlash(text) /\ Before(text, {"/"}) = text /\ Before(text, {"?", "#"}) = text
  <2>1. Lacks(text, {"/"}) /\ Lacks(text, {"?", "#"})
    BY <1>1 DEF Lacks
  <2>2. Lacks(low, Protocols)
    BY <1>4 DEF Lacks
  <2>3. Before(text, {"/"}) = text /\ ~Holds(text, {"/"}) /\ Before(text, {"?", "#"}) = text
    BY <1>1, <2>1, NotCut
  <2> HIDE DEF low
  <2>4. ~Holds(low, Protocols)
    BY <1>5, <2>2, NotCut
  <2> QED BY <2>3, <2>4 DEF HasSlash, low
<1>9. Path(text) = text
  <2>1. LStrip(text, "/") = text
    BY <1>1, <1>6, LStripKeeps
  <2> QED BY <1>7, <1>8, <2>1 DEF Path
<1>10. Host(text) = low
  <2>1. low[1] # "www."
    BY <1>6 DEF Names
  <2> QED BY <1>8, <1>9, <2>1 DEF Host, DropFirst, StartsWith
<1>11. Host(text) \notin {<<"paypal.me">>, <<"paypal.com">>}
  <2>1. low[1] # "paypal.me" /\ low[1] # "paypal.com"
    BY <1>6 DEF Names
  <2> HIDE DEF low
  <2> QED BY <1>10, <2>1
<1>12. Strip(text) = text
  BY <1>1, TrimStays
<1>13. NormalizePaypalMeUsername(text) = Lower(name)
  BY <1>2, <1>7, <1>8, <1>11, <1>12 DEF NormalizePaypalMeUsername
<1> QED BY <1>13 DEF text

Associates(S) ==
  \A x, y, z \in Seq(S) : x \o y \in Seq(S) /\ (x \o y) \o z = x \o (y \o z)

LEMMA JoinsAssociate == ASSUME NEW S PROVE Associates(S)
BY ConcatProperties, ConcatAssociative DEF Associates

AreTexts(S, a, b, c, d, e, f, g, z) ==
  /\ a \in Seq(S) /\ b \in Seq(S) /\ c \in Seq(S) /\ d \in Seq(S)
  /\ e \in Seq(S) /\ f \in Seq(S) /\ g \in Seq(S) /\ z \in Seq(S)

Core(protocol, www, host, sigil, name, path, tail) ==
  protocol \o (www \o (host \o (sigil \o (name \o (path \o tail)))))

Ending(protocol, www, host, sigil, name, path, tail, blank) ==
  protocol \o (www \o (host \o (sigil \o (name \o (path \o (tail \o blank))))))

LEMMA Regrouped ==
  ASSUME NEW S, NEW a, NEW b, NEW c, NEW d, NEW e, NEW f, NEW g, NEW z,
         AreTexts(S, a, b, c, d, e, f, g, z)
  PROVE  /\ Ending(a, b, c, d, e, f, g, z) = Core(a, b, c, d, e, f, g) \o z
         /\ d \o (e \o (f \o g)) = (d \o e) \o (f \o g)
<1> DEFINE fg == f \o g
           eg == e \o fg
           dg == d \o eg
           cg == c \o dg
           bg == b \o cg
<1>1. \A x, y, w \in Seq(S) : x \o y \in Seq(S) /\ (x \o y) \o w = x \o (y \o w)
  BY JoinsAssociate DEF Associates
<1>2. fg \in Seq(S) /\ fg \o z = f \o (g \o z)
  <2>1. f \in Seq(S) /\ g \in Seq(S) /\ z \in Seq(S)
    BY DEF AreTexts
  <2> QED BY <1>1, <2>1
<1> HIDE DEF fg
<1>3. eg \in Seq(S) /\ eg \o z = e \o (fg \o z)
  <2>1. e \in Seq(S) /\ z \in Seq(S)
    BY DEF AreTexts
  <2> QED BY <1>1, <1>2, <2>1, ZenonT(60)
<1>4. d \o eg = (d \o e) \o fg
  <2>1. d \in Seq(S) /\ e \in Seq(S)
    BY DEF AreTexts
  <2> QED BY <1>1, <1>2, <2>1, ZenonT(60)
<1> HIDE DEF eg
<1>5. dg \in Seq(S) /\ dg \o z = d \o (eg \o z)
  <2>1. d \in Seq(S) /\ z \in Seq(S)
    BY DEF AreTexts
  <2> QED BY <1>1, <1>3, <2>1, ZenonT(60)
<1> HIDE DEF dg
<1>6. cg \in Seq(S) /\ cg \o z = c \o (dg \o z)
  <2>1. c \in Seq(S) /\ z \in Seq(S)
    BY DEF AreTexts
  <2> QED BY <1>1, <1>5, <2>1, ZenonT(60)
<1> HIDE DEF cg
<1>7. bg \in Seq(S) /\ bg \o z = b \o (cg \o z)
  <2>1. b \in Seq(S) /\ z \in Seq(S)
    BY DEF AreTexts
  <2> QED BY <1>1, <1>6, <2>1, ZenonT(60)
<1> HIDE DEF bg
<1>8. (a \o bg) \o z = a \o (bg \o z)
  <2>1. a \in Seq(S) /\ z \in Seq(S)
    BY DEF AreTexts
  <2> QED BY <1>1, <1>7, <2>1, ZenonT(60)
<1>9. Ending(a, b, c, d, e, f, g, z) = (a \o bg) \o z
  BY <1>2, <1>3, <1>5, <1>6, <1>7, <1>8 DEF Ending
<1>10. Core(a, b, c, d, e, f, g) = a \o bg
  BY DEF Core, fg, eg, dg, cg, bg
<1>11. d \o (e \o (f \o g)) = (d \o e) \o (f \o g)
  BY <1>4 DEF fg, eg
<1> QED BY <1>9, <1>10, <1>11

(* A text that stays what it is when it is stripped. *)
Solid(S, text) == text \in Seq(S) /\ text # <<>> /\ Trim(text)

LEMMA SolidGrows ==
  ASSUME NEW S, NEW a, NEW b, a \in Seq(S), Trim(a), Solid(S, b)
  PROVE  Solid(S, a \o b) /\ Solid(S, b \o a)
<1>1. b \in Seq(S) /\ b # <<>> /\ Trim(b)
  BY DEF Solid
<1>2. a \o b \in Seq(S) /\ b \o a \in Seq(S)
  BY <1>1, ConcatProperties
<1>3. Trim(a \o b) /\ Trim(b \o a)
  BY <1>1, TrimJoins
<1>4. a \o b # <<>> /\ b \o a # <<>>
  BY <1>1, ConcatEqualIffEmpty
<1> QED BY <1>2, <1>3, <1>4 DEF Solid

(* A spelling whose host, sigil and name are those of a PayPal name. *)
PaypalSpelling(S, protocol, www, host, sigil, name, path, tail, blank) ==
  /\ AreTexts(S, protocol, www, host, sigil, name, path, tail, blank)
  /\ \A i \in 1..Len(blank) : blank[i] = Blank
  /\ protocol = <<>> \/ Lower(protocol) \in {<<t>> : t \in Protocols}
  /\ Lower(www) \in {<<>>, <<"www.">>}
  /\ IsSigils(sigil) /\ IsWord(name)
  /\ path # <<>> => path[1] = "/" /\ path[Len(path)] # Blank
  /\ Lacks(path, {"?", "#"})
  /\ tail # <<>> => tail[1] \in {"?", "#"} /\ tail[Len(tail)] # Blank
  /\ \/ Lower(host) \in PaypalHosts
     \/ protocol = <<>> /\ www = <<>> /\ host = <<>> /\ path = <<>> /\ tail = <<>>

LEMMA PartsAreTrim ==
  ASSUME NEW S, NEW protocol, NEW www, NEW host, NEW sigil, NEW name, NEW path, NEW tail,
         NEW blank, PaypalSpelling(S, protocol, www, host, sigil, name, path, tail, blank)
  PROVE  /\ Trim(protocol) /\ Trim(www) /\ Trim(host) /\ Trim(sigil)
         /\ Solid(S, name) /\ Trim(path) /\ Trim(tail)
<1>1. /\ protocol \in Seq(S) /\ www \in Seq(S) /\ host \in Seq(S) /\ sigil \in Seq(S)
      /\ name \in Seq(S) /\ path \in Seq(S) /\ tail \in Seq(S)
  BY DEF PaypalSpelling, AreTexts
<1>2. Trim(protocol)
  <2>1. CASE protocol = <<>>
    BY <2>1 DEF Trim
  <2>2. CASE protocol # <<>>
    <3>1. PICK t \in Protocols : Lower(protocol) = <<t>>
      BY <2>2 DEF PaypalSpelling
    <3>2. t \notin Marks
      BY DEF Protocols, Marks, Blank
    <3> QED BY <1>1, <3>1, <3>2, OneTokenIs
  <2> QED BY <2>1, <2>2
<1>3. Trim(www)
  <2>1. Lower(www) \in {<<>>, <<"www.">>}
    BY DEF PaypalSpelling
  <2> QED BY <1>1, <2>1, WwwIs
<1>4. Trim(host)
  <2>1. Lower(host) \in PaypalHosts \/ host = <<>>
    BY DEF PaypalSpelling
  <2>2. CASE host = <<>>
    BY <2>2 DEF Trim
  <2>3. CASE Lower(host) \in PaypalHosts
    BY <1>1, <2>3, HostsAre
  <2> QED BY <2>1, <2>2, <2>3
<1>5. Trim(sigil)
  <2>1. IsSigils(sigil)
    BY DEF PaypalSpelling
  <2> QED BY <1>1, <2>1, SigilsAre
<1>6. Solid(S, name)
  <2>1. IsWord(name)
    BY DEF PaypalSpelling
  <2>2. name # <<>> /\ Trim(name)
    BY <1>1, <2>1, WordIs
  <2> QED BY <1>1, <2>2 DEF Solid
<1>7. Trim(path)
  <2>1. path # <<>> => path[1] = "/" /\ path[Len(path)] # Blank
    BY DEF PaypalSpelling
  <2> QED BY <2>1 DEF Trim, Blank
<1>8. Trim(tail)
  <2>1. tail # <<>> => tail[1] \in {"?", "#"} /\ tail[Len(tail)] # Blank
    BY DEF PaypalSpelling
  <2> QED BY <2>1 DEF Trim, Blank
<1> QED BY <1>2, <1>3, <1>4, <1>5, <1>6, <1>7, <1>8

LEMMA CoresAreSolid ==
  ASSUME NEW S, NEW protocol, NEW www, NEW host, NEW sigil, NEW name, NEW path, NEW tail,
         NEW blank, PaypalSpelling(S, protocol, www, host, sigil, name, path, tail, blank)
  PROVE  Solid(S, Core(protocol, www, host, sigil, name, path, tail))
<1>1. /\ protocol \in Seq(S) /\ www \in Seq(S) /\ host \in Seq(S) /\ sigil \in Seq(S)
      /\ path \in Seq(S) /\ tail \in Seq(S)
  BY DEF PaypalSpelling, AreTexts
<1>2. /\ Trim(protocol) /\ Trim(www) /\ Trim(host) /\ Trim(sigil)
      /\ Solid(S, name) /\ Trim(path) /\ Trim(tail)
  BY PartsAreTrim
<1> DEFINE p == path \o tail
           n == name \o p
           s == sigil \o n
           h == host \o s
           w == www \o h
<1>3. p \in Seq(S) /\ Trim(p)
  BY <1>1, <1>2, ConcatProperties, TrimJoins
<1> HIDE DEF p
<1>4. Solid(S, n)
  BY <1>2, <1>3, SolidGrows
<1> HIDE DEF n
<1>5. Solid(S, s)
  BY <1>1, <1>2, <1>4, SolidGrows
<1> HIDE DEF s
<1>6. Solid(S, h)
  BY <1>1, <1>2, <1>5, SolidGrows
<1> HIDE DEF h
<1>7. Solid(S, w)
  BY <1>1, <1>2, <1>6, SolidGrows
<1> HIDE DEF w
<1>8. Solid(S, protocol \o w)
  BY <1>1, <1>2, <1>7, SolidGrows
<1> QED BY <1>8 DEF Core, w, h, s, n, p

LEMMA CoresAreNames ==
  ASSUME NEW S, NEW protocol, NEW www, NEW host, NEW sigil, NEW name, NEW path, NEW tail,
         NEW blank, PaypalSpelling(S, protocol, www, host, sigil, name, path, tail, blank)
  PROVE  NormalizePaypalMeUsername(Core(protocol, www, host, sigil, name, path, tail))
           = Lower(name)
<1>1. /\ protocol \in Seq(S) /\ www \in Seq(S) /\ host \in Seq(S) /\ sigil \in Seq(S)
      /\ name \in Seq(S) /\ path \in Seq(S) /\ tail \in Seq(S)
      /\ IsSigils(sigil) /\ IsWord(name)
  BY DEF PaypalSpelling, AreTexts
<1> DEFINE text == Core(protocol, www, host, sigil, name, path, tail)
           user == sigil \o name
           more == user \o (path \o tail)
           rest == www \o (host \o more)
<1>2. text \in Seq(S) /\ Strip(text) = text
  <2>1. text \in Seq(S) /\ Trim(text)
    BY CoresAreSolid DEF Solid
  <2> HIDE DEF text
  <2> QED BY <2>1, TrimStays
<1>3. user \in Seq(S) /\ Lacks(user, {"/", "?", "#"}) /\ Username(user) = Lower(name)
  BY <1>1, UsersAre, NamesAreLeft
<1>4. text = protocol \o rest
  <2>1. AreTexts(S, protocol, www, host, sigil, name, path, tail, blank)
    BY DEF PaypalSpelling
  <2>2. sigil \o (name \o (path \o tail)) = (sigil \o name) \o (path \o tail)
    BY <2>1, Regrouped, SMTT(60)
  <2> QED BY <2>2 DEF Core
<1> HIDE DEF text, user
<1>5. CASE Lower(host) \in PaypalHosts
  <2>1. more \in Seq(S)
    BY <1>1, <1>3, ConcatProperties
  <2>2. Lower(www) \in {<<>>, <<"www.">>}
    BY DEF PaypalSpelling
  <2>3. /\ rest \in Seq(S)
        /\ Lower(rest) # <<>> /\ Lower(rest)[1] \notin Protocols
    <3> HIDE DEF more
    <3> QED BY <1>1, <1>5, <2>1, <2>2, LinksBegin
  <2>4. (IF Linked(text) THEN Tail(text) ELSE text) = rest
    <3>1. protocol = <<>> \/ Lower(protocol) \in {<<t>> : t \in Protocols}
      BY DEF PaypalSpelling
    <3> HIDE DEF rest
    <3> QED BY <1>1, <1>4, <2>3, <3>1, ProtocolsComeOff
  <2>5. Before(rest, {"?", "#"}) = www \o (host \o (user \o path))
    <3> DEFINE T == {"?", "#"}
    <3>1. Lacks(www, T) /\ Lacks(host, T) /\ Lacks(user, T) /\ Lacks(path, T)
      <4>1. Lacks(www, {"/", "?", "#"}) /\ Lacks(host, T)
        BY <1>1, <1>5, <2>2, WwwIs, HostsAre
      <4>2. Lacks(path, T)
        BY DEF PaypalSpelling
      <4> QED BY <1>3, <4>1, <4>2 DEF Lacks
    <3>2. tail # <<>> => tail[1] \in T
      BY DEF PaypalSpelling
    <3>3. OnlyTailIsCut(S, www, host, user, path, tail, T)
      BY <1>1, <1>3, <3>1, <3>2 DEF OnlyTailIsCut
    <3> HIDE DEF T
    <3>4. Before(rest, T) = www \o (host \o (user \o path))
      BY <3>3, TailsAreCut
    <3> QED BY <3>4 DEF T
  <2>6. path # <<>> => path[1] = "/"
    BY DEF PaypalSpelling
  <2> HIDE DEF rest
  <2>7. NormalizePaypalMeUsername(text) = Username(user)
    <3>1. LinksTo(S, text, rest, www, host, user, path)
      BY <1>1, <1>2, <1>3, <1>5, <2>2, <2>4, <2>5, <2>6 DEF LinksTo
    <3> QED BY <3>1, LinkedNames
  <2> QED BY <1>3, <2>7 DEF text
<1>6. CASE protocol = <<>> /\ www = <<>> /\ host = <<>> /\ path = <<>> /\ tail = <<>>
  <2>1. text = user
    <3>1. <<>> \o <<>> = <<>> /\ user \o <<>> = user /\ <<>> \o user = user
      BY <1>3, ConcatEmptySeq, EmptySeq
    <3> QED BY <1>4, <1>6, <3>1
  <2>2. NormalizePaypalMeUsername(user) = Lower(name)
    BY <1>1, BareNames DEF user
  <2> QED BY <2>1, <2>2 DEF text
<1> QED BY <1>5, <1>6 DEF PaypalSpelling

(* What was typed ends in the blanks that follow its core. *)
CoreIsFollowed(protocol, www, host, sigil, name, path, tail, blank) ==
  Ending(protocol, www, host, sigil, name, path, tail, blank)
  = Core(protocol, www, host, sigil, name, path, tail) \o blank

LEMMA CoresAreFollowed ==
  ASSUME NEW S, NEW protocol, NEW www, NEW host, NEW sigil, NEW name, NEW path, NEW tail,
         NEW blank, PaypalSpelling(S, protocol, www, host, sigil, name, path, tail, blank)
  PROVE  CoreIsFollowed(protocol, www, host, sigil, name, path, tail, blank)
<1>1. AreTexts(S, protocol, www, host, sigil, name, path, tail, blank)
  BY DEF PaypalSpelling
<1> QED BY <1>1, Regrouped DEF CoreIsFollowed

LEMMA SpellingsAgree == TypeOK => PaypalSpellingsAgree
<1> SUFFICES ASSUME TypeOK, platform = "paypal", IsWord(spelling.name),
                    IsSigils(spelling.sigil),
                    \/ Lower(spelling.host) \in PaypalHosts
                    \/ /\ spelling.protocol = <<>> /\ spelling.www = <<>>
                       /\ spelling.host = <<>> /\ spelling.path = <<>>
                       /\ spelling.tail = <<>>
             PROVE  Handle = Lower(spelling.name)
  BY DEF PaypalSpellingsAgree, IsSigils
<1> DEFINE core == Core(spelling.protocol, spelling.www, spelling.host, spelling.sigil,
                        spelling.name, spelling.path, spelling.tail)
           blank == spelling.blank
<1>1. \A part \in SpellingParts :
        spelling[part] \in Spellings[part] /\ spelling[part] \in Seq(Tokens)
  BY SpellingsAssumption DEF TypeOK, Chosen
<1>2. PaypalSpelling(Tokens, spelling.protocol, spelling.www, spelling.host, spelling.sigil,
                     spelling.name, spelling.path, spelling.tail, spelling.blank)
  <2>1. AreTexts(Tokens, spelling.protocol, spelling.www, spelling.host, spelling.sigil,
                 spelling.name, spelling.path, spelling.tail, spelling.blank)
    BY <1>1 DEF AreTexts, SpellingParts
  <2>2. \A i \in 1..Len(spelling.blank) : spelling.blank[i] = Blank
    BY <1>1, SpellingsAssumption DEF SpellingParts
  <2>3. /\ spelling.protocol = <<>> \/ Lower(spelling.protocol) \in {<<t>> : t \in Protocols}
        /\ Lower(spelling.www) \in {<<>>, <<"www.">>}
    BY <1>1, SpellingsAssumption DEF SpellingParts
  <2>4. /\ spelling.path # <<>> =>
             spelling.path[1] = "/" /\ spelling.path[Len(spelling.path)] # Blank
        /\ Lacks(spelling.path, {"?", "#"})
    BY <1>1, SpellingsAssumption DEF SpellingParts, Lacks
  <2>5. spelling.tail # <<>> =>
          spelling.tail[1] \in {"?", "#"} /\ spelling.tail[Len(spelling.tail)] # Blank
    BY <1>1, SpellingsAssumption DEF SpellingParts
  <2> QED BY <2>1, <2>2, <2>3, <2>4, <2>5 DEF PaypalSpelling
<1>3. Text = blank \o (core \o blank)
  <2>1. Text = blank \o Ending(spelling.protocol, spelling.www, spelling.host, spelling.sigil,
                               spelling.name, spelling.path, spelling.tail, blank)
    BY DEF Text, Ending
  <2>2. CoreIsFollowed(spelling.protocol, spelling.www, spelling.host, spelling.sigil,
                       spelling.name, spelling.path, spelling.tail, spelling.blank)
    BY <1>2, CoresAreFollowed
  <2> QED BY <2>1, <2>2 DEF CoreIsFollowed
<1>4. Solid(Tokens, core)
  BY <1>2, CoresAreSolid
<1>5. NormalizePaypalMeUsername(core) = Lower(spelling.name)
  BY <1>2, CoresAreNames
<1> HIDE DEF core
<1>6. Strip(Text) = core
  <2>1. /\ blank \in Seq(Tokens) /\ \A i \in 1..Len(blank) : blank[i] = Blank
        /\ core \in Seq(Tokens) /\ core # <<>> /\ Trim(core)
    BY <1>2, <1>4 DEF PaypalSpelling, AreTexts, Solid
  <2> HIDE DEF blank
  <2> QED BY <1>3, <2>1, StripBetween
<1>7. Handle = NormalizePaypalMeUsername(core)
  BY <1>6 DEF Handle, NormalizePayee
<1> QED BY <1>5, <1>7

-----------------------------------------------------------------------------
(* A handle that comes back *)

LEMMA LowerTwice ==
  ASSUME NEW S, NEW s \in Seq(S)
  PROVE  Lower(Lower(s)) = Lower(s)
<1> DEFINE low == Lower(s)
           U   == S \cup {Folded[t] : t \in DOMAIN Folded}
<1>1. /\ low \in Seq(U) /\ Len(low) = Len(s)
      /\ \A i \in 1..Len(s) : low[i] \notin DOMAIN Folded
  BY LowerFolds
<1> HIDE DEF low, U
<1>2. Lower(low) = low
  BY <1>1, LowerKeeps
<1> QED BY <1>2 DEF low

(* The texts that str.replace(t, "") goes through, for every t of T. *)
AreKept(f, s, T) ==
  /\ f = [i \in 0..Len(s) |->
            IF i = 0 THEN <<>>
            ELSE IF s[i] \in T THEN f[i - 1] ELSE Append(f[i - 1], s[i])]
  /\ Without(s, T) = f[Len(s)]

LEMMA WithoutKeeps ==
  ASSUME NEW S, NEW s \in Seq(S), NEW T
  PROVE  \E f : AreKept(f, s, T)
<1> DEFINE n     == Len(s)
           Is(f) == f = [i \in 0..n |->
                           IF i = 0 THEN <<>>
                           ELSE IF s[i] \in T THEN f[i - 1] ELSE Append(f[i - 1], s[i])]
           step  == [i \in 1..n |-> [v \in Seq(S) |->
                       IF s[i] \in T THEN v ELSE Append(v, s[i])]]
<1>1. n \in Nat /\ \A i \in 1..n : s[i] \in S
  OBVIOUS
<1>2. PICK f : Iterates(f, n, <<>>, step)
  <2> HIDE DEF step, n
  <2> QED BY <1>1, IterationExists
<1> HIDE DEF n
<1>3. \A i \in 0..n : f[i] \in Seq(S)
  <2> DEFINE B == {i \in 0..n : f[i] \notin Seq(S)}
  <2>1. B = {}
    <3> SUFFICES ASSUME B # {} PROVE FALSE
      OBVIOUS
    <3>1. B \subseteq Nat
      OBVIOUS
    <3>2. PICK x \in B : \A y \in B : x <= y
      <4> HIDE DEF B
      <4> QED BY <3>1, LeastPlace
    <3>3. x \in 0..n /\ f[x] \notin Seq(S)
      OBVIOUS
    <3>4. x # 0
      <4>1. f[0] = <<>>
        BY <1>2 DEF Iterates
      <4>2. <<>> \in Seq(S)
        OBVIOUS
      <4> QED BY ONLY <3>3, <4>1, <4>2
    <3>5. x \in 1..n /\ x - 1 \in 0..n /\ x - 1 \notin B
      BY <1>1, <3>2, <3>3, <3>4
    <3>6. f[x - 1] \in Seq(S) /\ s[x] \in S
      BY <1>1, <3>5
    <3>7. f[x] = step[x][f[x - 1]]
      BY <1>2, <3>5 DEF Iterates
    <3>8. f[x] = IF s[x] \in T THEN f[x - 1] ELSE Append(f[x - 1], s[x])
      BY <3>5, <3>6, <3>7
    <3> QED BY <3>3, <3>6, <3>8
  <2> QED BY <2>1
<1>4. \A i \in 1..n : f[i] = IF s[i] \in T THEN f[i - 1] ELSE Append(f[i - 1], s[i])
  <2> TAKE i \in 1..n
  <2>1. i - 1 \in 0..n
    BY <1>1
  <2>2. f[i - 1] \in Seq(S)
    BY <1>3, <2>1
  <2>3. f[i] = step[i][f[i - 1]]
    BY <1>2 DEF Iterates
  <2> QED BY <2>2, <2>3
<1>5. Is(f)
  <2>1. f[0] = <<>> /\ f = [i \in 0..n |-> f[i]]
    BY <1>2 DEF Iterates
  <2>2. \A i \in 0..n :
          f[i] = IF i = 0 THEN <<>>
                 ELSE IF s[i] \in T THEN f[i - 1] ELSE Append(f[i - 1], s[i])
    <3> TAKE i \in 0..n
    <3>1. i = 0 \/ i \in 1..n
      BY <1>1
    <3> QED BY <1>4, <2>1, <3>1
  <2> QED BY <2>1, <2>2
<1> DEFINE kept == CHOOSE g : Is(g)
<1>6. Without(s, T) = kept[n]
  BY DEF Without, n
<1>7. Is(kept)
  <2> HIDE DEF Is
  <2> QED BY <1>5
<1> HIDE DEF kept
<1>8. AreKept(kept, s, T)
  BY <1>6, <1>7 DEF AreKept, n
<1> QED BY <1>8

(* What is dropped from a text is no longer in it. *)
LEMMA WithoutLacks ==
  ASSUME NEW S, NEW s \in Seq(S), NEW T
  PROVE  Without(s, T) \in Seq(S \ T)
<1> DEFINE n == Len(s)
<1>1. PICK f : AreKept(f, s, T)
  BY WithoutKeeps
<1>2. n \in Nat /\ \A i \in 1..n : s[i] \in S
  OBVIOUS
<1>3. \A i \in 0..n : f[i] = IF i = 0 THEN <<>>
                              ELSE IF s[i] \in T THEN f[i - 1] ELSE Append(f[i - 1], s[i])
  BY <1>1 DEF AreKept
<1> DEFINE B == {i \in 0..n : f[i] \notin Seq(S \ T)}
<1> HIDE DEF n
<1>4. B = {}
  <2> SUFFICES ASSUME B # {} PROVE FALSE
    OBVIOUS
  <2>1. B \subseteq Nat
    OBVIOUS
  <2>2. PICK x \in B : \A y \in B : x <= y
    <3> HIDE DEF B
    <3> QED BY <2>1, LeastPlace
  <2>3. x \in 0..n /\ f[x] \notin Seq(S \ T)
    OBVIOUS
  <2>4. x # 0
    <3>1. f[0] = <<>>
      BY <1>2, <1>3
    <3>2. <<>> \in Seq(S \ T)
      OBVIOUS
    <3> QED BY ONLY <2>3, <3>1, <3>2
  <2>5. x \in 1..n /\ x - 1 \in 0..n /\ x - 1 \notin B
    BY <1>2, <2>2, <2>3, <2>4
  <2>6. f[x - 1] \in Seq(S \ T) /\ s[x] \in S
    BY <1>2, <2>5
  <2>7. f[x] = IF s[x] \in T THEN f[x - 1] ELSE Append(f[x - 1], s[x])
    BY <1>3, <2>4, <2>5
  <2>8. CASE s[x] \in T
    BY <2>3, <2>6, <2>7, <2>8
  <2>9. CASE s[x] \notin T
    <3>1. s[x] \in S \ T
      BY <2>6, <2>9
    <3> QED BY <2>3, <2>6, <2>7, <2>9, <3>1
  <2> QED BY <2>8, <2>9
<1>5. n \in 0..n
  BY <1>2
<1>6. f[n] \in Seq(S \ T)
  BY <1>4, <1>5
<1> QED BY <1>1, <1>6 DEF AreKept, n

(* A text that lacks what is dropped stays as it is. *)
LEMMA WithoutStays ==
  ASSUME NEW S, NEW s \in Seq(S), NEW T, Lacks(s, T)
  PROVE  Without(s, T) = s
<1> DEFINE n == Len(s)
           g == [i \in 0..n |-> SubSeq(s, 1, i)]
<1>1. PICK f : AreKept(f, s, T)
  BY WithoutKeeps
<1>2. n \in Nat /\ \A i \in 1..n : s[i] \in S
  OBVIOUS
<1>3. f[0] = <<>> /\ \A i \in 1..n : f[i] = Append(f[i - 1], s[i])
  <2>1. \A i \in 0..n : f[i] = IF i = 0 THEN <<>>
                                ELSE IF s[i] \in T THEN f[i - 1] ELSE Append(f[i - 1], s[i])
    BY <1>1 DEF AreKept
  <2>2. \A i \in 1..n : s[i] \notin T /\ i \in 0..n /\ i # 0
    BY <1>2 DEF Lacks
  <2> HIDE DEF n
  <2>3. f[0] = <<>>
    <3>1. 0 \in 0..n
      BY <1>2
    <3> QED BY ONLY <2>1, <3>1
  <2>4. \A i \in 1..n : f[i] = Append(f[i - 1], s[i])
    BY ONLY <2>1, <2>2
  <2> QED BY <2>3, <2>4
<1> DEFINE B == {i \in 0..n : f[i] # SubSeq(s, 1, i)}
<1> HIDE DEF n
<1>4. B = {}
  <2> SUFFICES ASSUME B # {} PROVE FALSE
    OBVIOUS
  <2>1. B \subseteq Nat
    OBVIOUS
  <2>2. PICK x \in B : \A y \in B : x <= y
    <3> HIDE DEF B
    <3> QED BY <2>1, LeastPlace
  <2>3. x \in 0..n /\ f[x] # SubSeq(s, 1, x)
    OBVIOUS
  <2>4. x # 0
    <3>1. SubSeq(s, 1, 0) = <<>>
      BY SubSeqEmpty
    <3> QED BY <1>3, <2>3, <3>1
  <2>5. x \in 1..n /\ x - 1 \in 0..n /\ x - 1 \notin B
    BY <1>2, <2>2, <2>3, <2>4
  <2>6. f[x] = Append(SubSeq(s, 1, x - 1), s[x])
    BY <1>3, <2>5
  <2>7. Append(SubSeq(s, 1, x - 1), s[x]) = SubSeq(s, 1, x)
    BY <2>5 DEF n
  <2> QED BY <2>3, <2>6, <2>7
<1>5. f[n] = SubSeq(s, 1, n)
  BY <1>2, <1>4
<1> QED BY <1>1, <1>5, SubSeqFull DEF AreKept, n

(* What is left of a Monzo handle has no protocol and no sigil in front.   *)
LEMMA MonzoIsLeft ==
  ASSUME NEW S, NEW text \in Seq(S), NEW h, h = NormalizeMonzo(text)
  PROVE  h \in Seq(S \ Protocols) /\ (h # <<>> => h[1] # "@")
<1> DEFINE body  == Without(text, Protocols)
           links == MonzoLinks(body)
           link  == CHOOSE i \in links : \A j \in links : i <= j
           cut   == IF links = {} THEN body ELSE SubSeq(body, link + 2, Len(body))
           U     == S \ Protocols
<1>1. body \in Seq(U) /\ Len(body) \in Nat
  <2>1. body \in Seq(U)
    BY WithoutLacks
  <2> HIDE DEF body
  <2> QED BY <2>1
<1>2. h = LStrip(cut, "@")
  BY DEF NormalizeMonzo
<1> HIDE DEF body, U
<1>3. ASSUME links # {} PROVE link \in 1..(Len(body) - 1)
  <2>1. links \subseteq Nat /\ links \subseteq 1..(Len(body) - 1)
    BY <1>1 DEF MonzoLinks
  <2> HIDE DEF links
  <2>2. \E i \in links : \A j \in links : i <= j
    BY <1>3, <2>1, LeastPlace
  <2> QED BY <2>1, <2>2
<1>4. cut \in Seq(U)
  <2>1. CASE links = {}
    BY <1>1, <2>1
  <2>2. CASE links # {}
    <3> HIDE DEF link, links
    <3>1. link + 2 \in 1..(Len(body) + 1) /\ Len(body) \in 0..Len(body)
      BY <1>1, <1>3, <2>2
    <3>2. SubSeq(body, link + 2, Len(body)) \in Seq(U)
      BY <1>1, <3>1, PartIs
    <3> QED BY <2>2, <3>2
  <2> QED BY <2>1, <2>2
<1> HIDE DEF cut
<1>5. LStrip(cut, "@") \in Seq(U) /\ (LStrip(cut, "@") # <<>> => LStrip(cut, "@")[1] # "@")
  BY <1>4, LStripEnds
<1> QED BY <1>2, <1>5 DEF U

LEMMA MonzoStays ==
  ASSUME NEW S, NEW h \in Seq(S \ Protocols), h # <<>>, h[1] # "@", MonzoLinks(h) = {}
  PROVE  NormalizeMonzo(h) = h
<1>1. Lacks(h, Protocols)
  BY ElementOfSeq DEF Lacks
<1>2. Without(h, Protocols) = h
  BY <1>1, WithoutStays
<1>3. LStrip(h, "@") = h
  BY LStripKeeps
<1> QED BY <1>2, <1>3 DEF NormalizeMonzo

(* The segments of a link are texts, and a username is in lower case. *)
LEMMA SegmentsAreTexts ==
  ASSUME NEW S, NEW value \in Seq(S)
  PROVE  First(value) \in Seq(S) /\ Second(value) \in Seq(S)
<1> DEFINE rest  == IF Linked(value) THEN Tail(value) ELSE value
           front == Before(rest, {"?", "#"})
           path  == LStrip(front, "/")
           after == After(path, {"/"})
<1>1. rest \in Seq(S)
  <2>1. CASE Linked(value)
    <3>1. Len(Lower(value)) = Len(value) /\ Lower(value) # <<>>
      BY <2>1, LowerFolds DEF Linked, StartsWith
    <3>2. value # <<>>
      BY <3>1 DEF Lower
    <3>3. Tail(value) \in Seq(S)
      BY <3>2
    <3> QED BY <2>1, <3>3
  <2>2. CASE ~Linked(value)
    BY <2>2
  <2> QED BY <2>1, <2>2
<1> HIDE DEF rest
<1>2. front \in Seq(S)
  BY <1>1, CutsAreTexts
<1> HIDE DEF front
<1>3. path \in Seq(S)
  BY <1>2, LStripEnds
<1>4. path = Path(value)
  BY DEF Path, rest, front
<1> HIDE DEF path
<1>5. after \in Seq(S)
  BY <1>3, CutsAreTexts
<1>6. after = Segments(value)
  BY <1>4 DEF Segments
<1> HIDE DEF after
<1>7. Before(after, {"/"}) \in Seq(S) /\ After(after, {"/"}) \in Seq(S)
  BY <1>5, CutsAreTexts
<1>8. Before(After(after, {"/"}), {"/"}) \in Seq(S)
  BY <1>7, CutsAreTexts
<1> QED BY <1>6, <1>7, <1>8 DEF First, Second

LEMMA UsernamesAreFolded ==
  ASSUME NEW S, NEW segment \in Seq(S)
  PROVE  /\ Username(segment) \in Seq(S \cup {Folded[t] : t \in DOMAIN Folded})
         /\ Lower(Username(segment)) = Username(segment)
<1> DEFINE bare == Strip(LStrip(segment, "@"))
<1>1. LStrip(segment, "@") \in Seq(S)
  BY LStripEnds
<1>2. bare \in Seq(S)
  BY <1>1, StripTrims
<1> HIDE DEF bare
<1>3. /\ Lower(bare) \in Seq(S \cup {Folded[t] : t \in DOMAIN Folded})
      /\ Lower(Lower(bare)) = Lower(bare)
  BY <1>2, LowerFolds, LowerTwice
<1> QED BY <1>3 DEF Username, bare

(* A PayPal handle is in lower case, or a link that is left as it was. *)
LEMMA PaypalIsLeft ==
  ASSUME NEW S, NEW text \in Seq(S), NEW h, h = NormalizePaypalMeUsername(text)
  PROVE  /\ h \in Seq(S \cup {Folded[t] : t \in DOMAIN Folded})
         /\ h = <<>> \/ Lower(h) = h \/ Linked(h) \/ HasSlash(h)
<1> DEFINE trimmed == Strip(text)
           U       == S \cup {Folded[t] : t \in DOMAIN Folded}
<1>1. trimmed \in Seq(S)
  BY StripTrims
<1>2. trimmed \in Seq(U) /\ <<>> \in Seq(U)
  BY <1>1, SeqMonotonic
<1>3. \/ h = Username(First(trimmed)) \/ h = Username(Second(trimmed)) \/ h = <<>>
      \/ h = trimmed /\ (Linked(trimmed) \/ HasSlash(trimmed))
      \/ h = Lower(LStrip(trimmed, "@"))
  BY DEF NormalizePaypalMeUsername
<1> HIDE DEF trimmed
<1>4. First(trimmed) \in Seq(S) /\ Second(trimmed) \in Seq(S)
  BY <1>1, SegmentsAreTexts
<1>5. LStrip(trimmed, "@") \in Seq(S)
  BY <1>1, LStripEnds
<1>6. CASE h = Username(First(trimmed)) \/ h = Username(Second(trimmed))
  BY <1>4, <1>6, UsernamesAreFolded
<1>7. CASE h = <<>>
  BY <1>2, <1>7 DEF U
<1>8. CASE h = trimmed /\ (Linked(trimmed) \/ HasSlash(trimmed))
  BY <1>2, <1>8 DEF U
<1>9. CASE h = Lower(LStrip(trimmed, "@"))
  BY <1>5, <1>9, LowerFolds, LowerTwice
<1> QED BY <1>3, <1>6, <1>7, <1>8, <1>9

LEMMA PaypalStays ==
  ASSUME NEW S, NEW h \in Seq(S), h # <<>>, h[1] # "@", Strip(h) = h,
         Host(h) \notin {<<"paypal.me">>, <<"paypal.com">>},
         Lower(h) = h \/ Linked(h) \/ HasSlash(h)
  PROVE  NormalizePaypalMeUsername(h) = h
<1>1. LStrip(h, "@") = h
  BY LStripKeeps
<1>2. NormalizePaypalMeUsername(h)
        = IF Linked(h) \/ HasSlash(h) THEN h ELSE Lower(LStrip(h, "@"))
  BY DEF NormalizePaypalMeUsername
<1> QED BY <1>1, <1>2

(* The handle of a text is the handle of itself. *)
LEMMA NamesComeBack ==
  ASSUME NEW S, NEW payee \in Seq(S), NEW p, NEW h, h = NormalizePayee(p, payee),
         IsName(p, h)
  PROVE  NormalizePayee(p, h) = h
<1> DEFINE text == Strip(payee)
           U    == S \cup {Folded[t] : t \in DOMAIN Folded}
<1>1. text \in Seq(S)
  BY StripTrims
<1>2. h # <<>> /\ Trim(h) /\ h[1] # Blank
  BY DEF IsName, Trim
<1>3. CASE p = "paypal"
  <2>1. h = NormalizePaypalMeUsername(text)
    BY <1>3 DEF NormalizePayee
  <2> HIDE DEF text
  <2>2. h \in Seq(U) /\ (h = <<>> \/ Lower(h) = h \/ Linked(h) \/ HasSlash(h))
    BY <1>1, <2>1, PaypalIsLeft
  <2> HIDE DEF U
  <2>3. Strip(h) = h
    BY <1>2, <2>2, TrimStays
  <2>4. h[1] # "@" /\ Host(h) \notin {<<"paypal.me">>, <<"paypal.com">>}
    BY <1>3 DEF IsName
  <2>5. NormalizePaypalMeUsername(h) = h
    BY <1>2, <2>2, <2>3, <2>4, PaypalStays
  <2>6. NormalizePayee(p, h) = NormalizePaypalMeUsername(Strip(h))
    BY <1>3 DEF NormalizePayee
  <2> QED BY <2>3, <2>5, <2>6
<1>4. CASE p = "monzo"
  <2>1. h = NormalizeMonzo(text)
    BY <1>4 DEF NormalizePayee
  <2> HIDE DEF text
  <2>2. h \in Seq(S \ Protocols) /\ h[1] # "@"
    BY <1>1, <1>2, <2>1, MonzoIsLeft
  <2>3. Strip(h) = h
    BY <1>2, <2>2, TrimStays
  <2>4. MonzoLinks(h) = {}
    BY <1>4 DEF IsName
  <2>5. NormalizeMonzo(h) = h
    BY <1>2, <2>2, <2>4, MonzoStays
  <2>6. NormalizePayee(p, h) = NormalizeMonzo(Strip(h))
    BY <1>4 DEF NormalizePayee
  <2> QED BY <2>3, <2>5, <2>6
<1>5. CASE p \notin {"paypal", "monzo"}
  BY <1>2, <1>5, HandlesAreStable
<1> QED BY <1>3, <1>4, <1>5

LEMMA TextIsTyped == TypeOK => Text \in Seq(Tokens)
<1> SUFFICES ASSUME TypeOK PROVE Text \in Seq(Tokens)
  OBVIOUS
<1>1. AreTexts(Tokens, spelling.protocol, spelling.www, spelling.host, spelling.sigil,
               spelling.name, spelling.path, spelling.tail, spelling.blank)
  <2>1. \A part \in SpellingParts : spelling[part] \in Seq(Tokens)
    BY SpellingsAssumption DEF TypeOK, Chosen
  <2> QED BY <2>1 DEF AreTexts, SpellingParts
<1>2. \A x, y \in Seq(Tokens) : x \o y \in Seq(Tokens)
  BY ConcatProperties
<1> QED BY <1>1, <1>2, Zenon DEF AreTexts, Text

LEMMA HandlesComeBack == TypeOK => HandleIsStable
<1> SUFFICES ASSUME TypeOK, IsName(platform, Handle)
             PROVE  NormalizePayee(platform, Handle) = Handle
  BY DEF HandleIsStable
<1>1. Text \in Seq(Tokens)
  BY TextIsTyped
<1>2. Handle = NormalizePayee(platform, Text)
  BY DEF Handle
<1> QED BY <1>1, <1>2, NamesComeBack

-----------------------------------------------------------------------------
(* Requests *)

(* The README lists of every platform what can be settled and priced. *)
LEMMA ShippedTables ==
  /\ DOMAIN ReadmeTable = PaymentMethodHashes
  /\ \A p \in PaymentMethodHashes :
       ReadmeTable[p] = PaymentMethodCurrencies[p] \cap ChainlinkOracleFeeds
<1>1. DOMAIN ReadmeTable = PaymentMethodHashes
  BY DEF ReadmeTable, PaymentMethodHashes
<1>2. ReadmeTable.revolut = RevolutCurrencies \cap ChainlinkOracleFeeds
  BY DEF ReadmeTable, RevolutCurrencies, ChainlinkOracleFeeds
<1>3. ReadmeTable.wise = WiseCurrencies \cap ChainlinkOracleFeeds
  BY DEF ReadmeTable, WiseCurrencies, ChainlinkOracleFeeds
<1>4. ReadmeTable.paypal = PaypalCurrencies \cap ChainlinkOracleFeeds
  BY DEF ReadmeTable, PaypalCurrencies, ChainlinkOracleFeeds
<1>5. /\ UsdOnly = UsdOnly \cap ChainlinkOracleFeeds
      /\ {"GBP"} = {"GBP"} \cap ChainlinkOracleFeeds
      /\ {} = {"ARS"} \cap ChainlinkOracleFeeds
  BY DEF UsdOnly, ChainlinkOracleFeeds
<1>6. /\ ReadmeTable.venmo = UsdOnly /\ ReadmeTable.cashapp = UsdOnly
      /\ ReadmeTable.chime = UsdOnly /\ ReadmeTable.zelle = UsdOnly
      /\ ReadmeTable.monzo = {"GBP"} /\ ReadmeTable.mercadopago = {}
  BY DEF ReadmeTable
<1>7. /\ PaymentMethodCurrencies.venmo = UsdOnly /\ PaymentMethodCurrencies.cashapp = UsdOnly
      /\ PaymentMethodCurrencies.chime = UsdOnly /\ PaymentMethodCurrencies.zelle = UsdOnly
      /\ PaymentMethodCurrencies.monzo = {"GBP"} /\ PaymentMethodCurrencies.mercadopago = {"ARS"}
      /\ PaymentMethodCurrencies.revolut = RevolutCurrencies
      /\ PaymentMethodCurrencies.wise = WiseCurrencies
      /\ PaymentMethodCurrencies.paypal = PaypalCurrencies
  BY DEF PaymentMethodCurrencies
<1>8. ASSUME NEW p \in PaymentMethodHashes
      PROVE  ReadmeTable[p] = PaymentMethodCurrencies[p] \cap ChainlinkOracleFeeds
  <2>1. \/ p = "venmo" \/ p = "cashapp" \/ p = "chime" \/ p = "zelle" \/ p = "monzo"
        \/ p = "mercadopago" \/ p = "revolut" \/ p = "wise" \/ p = "paypal"
    BY DEF PaymentMethodHashes
  <2> QED BY <1>2, <1>3, <1>4, <1>5, <1>6, <1>7, <2>1
<1> QED BY <1>1, <1>8

LEMMA PublishedAreSupported ==
  ASSUME NEW p
  PROVE  Published(p) = IF p \in PaymentMethods THEN SupportedCurrencies(p) ELSE {}
BY ShippedTables, ShippedAssumption, RegistryAssumption DEF Published, SupportedCurrencies

(* A mode or an amount that is refused is refused first. *)
LEMMA EarlierErrors ==
  ASSUME NEW r, PrepareError(r) \in {Ok, "platform", "currency"}
  PROVE  RequireMode(r.mode) = Ok /\ AmountError(r.amount) = Ok
<1> DEFINE checks == << RequireMode(r.mode), AmountError(r.amount),
                        PaymentMethodHash(r.platform),
                        AssertSupportedPair(r.platform, r.currency),
                        OracleFeedFor(r.currency), PayeeError(r.payee) >>
<1>1. /\ checks[1] \in {Ok, "mode"} /\ checks[2] \in {Ok, "amount", "InvalidOperation", "OverflowError"}
      /\ Len(checks) = 6 /\ PrepareError(r) = FirstError(checks)
  BY DEF RequireMode, AmountError, PrepareError
<1>2. checks[1] = RequireMode(r.mode) /\ checks[2] = AmountError(r.amount)
  OBVIOUS
<1> HIDE DEF checks
<1>3. CASE \A i \in 1..Len(checks) : checks[i] = Ok
  BY <1>1, <1>2, <1>3
<1>4. CASE \E i \in 1..Len(checks) : checks[i] # Ok
  <2>1. PICK i \in 1..Len(checks) :
                         /\ FirstError(checks) = checks[i] /\ checks[i] # Ok
                         /\ \A j \in 1..(i - 1) : checks[j] = Ok
    <3>1. Len(checks) \in 0..7
      BY <1>1
    <3> QED BY <1>4, <3>1, FirstErrorIsAResult
  <2>2. i \in 3..6
    BY <1>1, <2>1 DEF Ok
  <2> QED BY <1>2, <2>1, <2>2
<1> QED BY <1>3, <1>4

LEMMA PairsAreRight == AcceptsThePublishedPairs
<1> DEFINE p == request.platform
           c == request.currency
           pairOk == c \in Published(p)
           error  == PrepareError(request)
           early  == RequireMode(request.mode) = Ok /\ AmountError(request.amount) = Ok
<1>1. pairOk <=> p \in PaymentMethods /\ c \in SupportedCurrencies(p)
  BY PublishedAreSupported
<1>2. early => (error \in {"platform", "currency"} <=> ~pairOk)
  BY <1>1, OnlyPricedPairsAreTaken
<1>3. error \in {Ok, "platform", "currency"} => early
  BY EarlierErrors
<1> QED BY <1>2, <1>3 DEF AcceptsThePublishedPairs, Ok

LEMMA EncodersFollow == TypeOK => EncodesWhatItPrepared
<1> SUFFICES ASSUME TypeOK, PrepareError(request) = Ok
             PROVE  /\ EncodeError(request, Digest) \in {Ok, "overflow", "UnicodeEncodeError", "codes"}
                    /\ EncodeError(request, ZeroDigest) \in {"overflow", "UnicodeEncodeError", "codes", "digest"}
  BY DEF EncodesWhatItPrepared
<1>1. \A f \in RequestFields : request[f] \in Inputs[f]
  BY InputsAssumption DEF TypeOK, Chosen
<1>2. /\ request.amount.value \in Int
      /\ Digest \notin {None, ZeroDigest}
  BY <1>1, InputsAssumption DEF RequestFields, Digest
<1>3. ASSUME NEW d PROVE
        /\ EncodeError(request, d) \in {Ok, "overflow", "UnicodeEncodeError", "codes", "digest"}
        /\ EncodeError(request, d) = Ok => d \notin {None, ZeroDigest}
        /\ EncodeError(request, d) = "digest" => d \in {None, ZeroDigest}
  BY <1>2, EncodersAgreeWithPrepare
<1> QED BY <1>2, <1>3 DEF Ok

-----------------------------------------------------------------------------
(* Answers *)

(* The objects of an answer, as far as TypeOK has them. *)
Objects(objects) ==
  /\ objects = [i \in DOMAIN Members |-> objects[i]]
  /\ \A i \in DOMAIN Members : Chosen(objects[i], Members[i])

LEMMA FieldsAreAnswers ==
  ASSUME NEW objects, Objects(objects), NEW i \in DOMAIN Members, NEW key
  PROVE  IsAnswer(Curator!Field(objects[i], key), i)
<1>1. Chosen(objects[i], Members[i])
  BY DEF Objects
<1>2. CASE key \in DOMAIN objects[i]
  <2>1. key \in DOMAIN Members[i] /\ objects[i][key] \in Members[i][key]
    BY <1>1, <1>2 DEF Chosen
  <2> QED BY <1>2, <2>1, AnswersAssumption DEF Curator!Field
<1>3. CASE key \notin DOMAIN objects[i]
  BY <1>3 DEF Curator!Field, Curator!Null, IsAnswer, IsInside
<1> QED BY <1>2, <1>3

(* What an object holds depends on the objects inside it only. *)
AgreeBehind(f, g, i) == \A j \in (i + 1)..Len(Members) : f[j] = g[j]

LEMMA OnlyInsideCounts ==
  ASSUME NEW objects, Objects(objects), NEW i \in DOMAIN Members,
         NEW f, NEW g, AgreeBehind(f, g, i)
  PROVE  Curator!ObjectDigest(objects[i], f) = Curator!ObjectDigest(objects[i], g)
<1>1. ASSUME NEW value, IsInside(value, i)
      PROVE  Curator!NestedDigest(value, f) = Curator!NestedDigest(value, g)
  BY <1>1 DEF IsInside, AgreeBehind, Curator!NestedDigest
<1>2. ASSUME NEW value, IsAnswer(value, i)
      PROVE  Curator!ListedDigest(value, f) = Curator!ListedDigest(value, g)
  BY <1>1, <1>2 DEF IsAnswer, Curator!ListedDigest
<1>3. \A key : IsAnswer(Curator!Field(objects[i], key), i)
  BY FieldsAreAnswers
<1>4. \A key : IsInside(Curator!Field(objects[i], key), i)
  BY <1>3 DEF IsAnswer
<1>5. \A key : /\ Curator!NestedDigest(Curator!Field(objects[i], key), f)
                    = Curator!NestedDigest(Curator!Field(objects[i], key), g)
               /\ Curator!ListedDigest(Curator!Field(objects[i], key), f)
                    = Curator!ListedDigest(Curator!Field(objects[i], key), g)
  BY <1>1, <1>2, <1>3, <1>4
<1> QED BY <1>5 DEF Curator!ObjectDigest

(* The search of an answer is what _extract_hash says of each object. *)
Searches(f, objects, k) ==
  /\ f = [i \in k..Len(Members) |-> f[i]]
  /\ \A i \in k..Len(Members) : f[i] = Curator!ObjectDigest(objects[i], f)

LEMMA SearchExists ==
  ASSUME NEW objects, Objects(objects)
  PROVE  \E f : Searches(f, objects, 1)
<1> DEFINE n    == Len(Members)
           E(k) == \E f : Searches(f, objects, k)
           T    == {d \in 0..n : ~E(n + 1 - d)}
<1>1. n \in Nat /\ DOMAIN Members = 1..n
  BY AnswersAssumption
<1>2. E(n + 1)
  <2> DEFINE f == [i \in (n + 1)..n |-> None]
  <2>1. (n + 1)..n = {}
    BY <1>1
  <2>2. Searches(f, objects, n + 1)
    BY <2>1 DEF Searches
  <2> QED BY <2>2
<1>3. ASSUME NEW k \in 1..n, E(k + 1) PROVE E(k)
  <2>1. PICK f : Searches(f, objects, k + 1)
    BY <1>3
  <2> DEFINE g == [i \in k..n |-> IF i = k THEN Curator!ObjectDigest(objects[k], f) ELSE f[i]]
  <2>2. \A i \in k..n : AgreeBehind(f, g, i)
    BY <1>1 DEF AgreeBehind
  <2>3. g[k] = Curator!ObjectDigest(objects[k], f) /\ \A i \in (k + 1)..n : g[i] = f[i]
    BY <1>1
  <2>4. g = [i \in k..n |-> g[i]]
    OBVIOUS
  <2> HIDE DEF g
  <2>5. ASSUME NEW i \in k..n PROVE g[i] = Curator!ObjectDigest(objects[i], g)
    <3>1. i \in DOMAIN Members
      BY <1>1
    <3>2. Curator!ObjectDigest(objects[i], f) = Curator!ObjectDigest(objects[i], g)
      BY <2>2, <3>1, OnlyInsideCounts
    <3>3. CASE i = k
      BY <2>3, <3>2, <3>3
    <3>4. CASE i # k
      <4>1. i \in (k + 1)..n
        BY <1>1, <3>4
      <4>2. f[i] = Curator!ObjectDigest(objects[i], f)
        BY <2>1, <4>1 DEF Searches
      <4> QED BY <2>3, <3>2, <4>1, <4>2
    <3> QED BY <3>3, <3>4
  <2>6. Searches(g, objects, k)
    BY <2>4, <2>5 DEF Searches
  <2> QED BY <2>6
<1>4. T = {}
  <2> SUFFICES ASSUME T # {} PROVE FALSE
    OBVIOUS
  <2>1. T \subseteq Nat
    BY <1>1
  <2>2. PICK d \in T : \A y \in T : d <= y
    <3> HIDE DEF T
    <3> QED BY <2>1, LeastPlace
  <2>3. d \in 0..n /\ ~E(n + 1 - d)
    OBVIOUS
  <2> HIDE DEF E
  <2>4. d # 0
    BY <1>1, <1>2, <2>3
  <2>5. /\ d - 1 \in 0..n /\ n + 1 - (d - 1) = (n + 1 - d) + 1
        /\ n + 1 - d \in 1..n /\ d - 1 \notin T
    BY <1>1, <2>2, <2>3, <2>4
  <2>6. E((n + 1 - d) + 1)
    BY <2>5
  <2> QED BY <1>3, <2>3, <2>5, <2>6
<1> HIDE DEF E
<1>5. n \notin T /\ n \in 0..n /\ n + 1 - n = 1
  BY <1>1, <1>4
<1>6. E(1)
  BY <1>5
<1> QED BY <1>6 DEF E

LEMMA FoundIs ==
  ASSUME NEW objects, Objects(objects)
  PROVE  Searches(Curator!FoundIn(objects), objects, 1)
<1>1. Len(objects) = Len(Members)
  <2>1. DOMAIN objects = 1..Len(Members) /\ Len(Members) \in Nat
    BY AnswersAssumption DEF Objects
  <2>2. objects \in Seq({objects[i] : i \in DOMAIN Members})
    BY <2>1, AnswersAssumption DEF Objects
  <2> QED BY <2>1, <2>2
<1> DEFINE Is(f) == f = [i \in 1..Len(objects) |-> Curator!ObjectDigest(objects[i], f)]
<1>2. Curator!FoundIn(objects) = CHOOSE f : Is(f)
  BY DEF Curator!FoundIn
<1>3. \A f : Is(f) <=> Searches(f, objects, 1)
  BY <1>1 DEF Searches
<1>4. \E f : Is(f)
  BY <1>3, SearchExists
<1>5. Is(Curator!FoundIn(objects))
  <2> HIDE DEF Is
  <2> QED BY <1>2, <1>4
<1> HIDE DEF Is
<1> QED BY <1>3, <1>5

(* Nothing, or a text that is a digest. *)
IsFound(text) == text = None \/ (text.prefixed /\ text.hex /\ text.digits = 64)

LEMMA DigestsAreFound ==
  /\ \A value : IsFound(Curator!DigestOf(value))
  /\ \A s, t : IsFound(s) /\ IsFound(t) => IsFound(Curator!OrElse(s, t))
BY DEF IsFound, Curator!DigestOf, Curator!IsDigest, Curator!OrElse

LEMMA NamedIsFound ==
  ASSUME NEW object PROVE IsFound(Curator!NamedDigest(object))
<1>1. \A key : IsFound(Curator!DigestOf(Curator!Field(object, key)))
  BY DigestsAreFound
<1> HIDE DEF IsFound
<1> QED BY <1>1, DigestsAreFound DEF Curator!NamedDigest

(* What an object is found to hold is a digest, when that is so of the     *)
(* objects inside it.                                                      *)
LEMMA ObjectIsFound ==
  ASSUME NEW objects, Objects(objects), NEW i \in DOMAIN Members, NEW f,
         \A j \in (i + 1)..Len(Members) : IsFound(f[j])
  PROVE  IsFound(Curator!ObjectDigest(objects[i], f))
<1>1. ASSUME NEW value, IsInside(value, i) PROVE IsFound(Curator!NestedDigest(value, f))
  BY <1>1 DEF IsInside, IsFound, Curator!NestedDigest
<1>2. ASSUME NEW value, IsAnswer(value, i) PROVE IsFound(Curator!ListedDigest(value, f))
  <2>1. CASE value.kind # "list" \/ value.items = <<>>
    BY <2>1 DEF IsFound, Curator!ListedDigest
  <2>2. CASE value.kind = "list" /\ value.items # <<>>
    <3>1. IsFound(Curator!NestedDigest(Head(value.items), f))
      BY <1>1, <1>2, <2>2 DEF IsAnswer
    <3>2. Curator!ListedDigest(value, f)
            = Curator!OrElse(Curator!DigestOf(Head(value.items)),
                             Curator!NestedDigest(Head(value.items), f))
      BY <2>2 DEF Curator!ListedDigest
    <3> QED BY <3>1, <3>2, DigestsAreFound
  <2> QED BY <2>1, <2>2
<1>3. \A key : IsAnswer(Curator!Field(objects[i], key), i)
  BY FieldsAreAnswers
<1>4. \A key : IsInside(Curator!Field(objects[i], key), i)
  BY <1>3 DEF IsAnswer
<1>5. \A key : /\ IsFound(Curator!NestedDigest(Curator!Field(objects[i], key), f))
               /\ IsFound(Curator!ListedDigest(Curator!Field(objects[i], key), f))
  BY <1>1, <1>2, <1>3, <1>4
<1>6. IsFound(Curator!NamedDigest(objects[i]))
  BY NamedIsFound
<1> HIDE DEF IsFound
<1> QED BY <1>5, <1>6, DigestsAreFound DEF Curator!ObjectDigest

LEMMA SearchesAreFound ==
  ASSUME NEW objects, Objects(objects), NEW f, Searches(f, objects, 1)
  PROVE  \A i \in DOMAIN Members : IsFound(f[i])
<1> DEFINE n == Len(Members)
           T == {d \in 0..(n - 1) : ~IsFound(f[n - d])}
<1>1. n \in Nat /\ DOMAIN Members = 1..n
  BY AnswersAssumption
<1>2. T = {}
  <2> SUFFICES ASSUME T # {} PROVE FALSE
    OBVIOUS
  <2>1. T \subseteq Nat
    BY <1>1
  <2>2. PICK d \in T : \A y \in T : d <= y
    <3> HIDE DEF T
    <3> QED BY <2>1, LeastPlace
  <2> DEFINE i == n - d
  <2>3. d \in 0..(n - 1) /\ i \in 1..n /\ ~IsFound(f[i])
    BY <1>1
  <2>4. ASSUME NEW j \in (i + 1)..n PROVE IsFound(f[j])
    <3>1. /\ n - j \in 0..(n - 1) /\ n - j < d /\ n - (n - j) = j
      BY <1>1, <2>3
    <3>2. n - j \notin T
      BY <2>2, <2>3, <3>1, SMTT(60)
    <3> QED BY <3>1, <3>2
  <2> HIDE DEF T, i
  <2>5. IsFound(Curator!ObjectDigest(objects[i], f))
    BY <1>1, <2>3, <2>4, ObjectIsFound
  <2>6. f[i] = Curator!ObjectDigest(objects[i], f)
    BY <2>3 DEF Searches
  <2> QED BY <2>3, <2>5, <2>6
<1>3. ASSUME NEW i \in 1..n PROVE IsFound(f[i])
  <2>1. n - i \in 0..(n - 1) /\ n - (n - i) = i
    BY <1>1
  <2>2. n - i \notin T
    BY <1>2
  <2> QED BY <2>1, <2>2
<1> QED BY <1>1, <1>3

(* The answer as TypeOK has it *)
LEMMA AnswersAre ==
  ASSUME TypeOK
  PROVE  /\ Objects(reply.objects)
         /\ IsAnswer(reply.body, 0)
         /\ reply.body.kind = "object" => reply.body.at \in DOMAIN Members
<1>1. Objects(reply.objects) /\ reply.body \in Bodies
  BY DEF TypeOK, Objects
<1>2. IsAnswer(reply.body, 0) /\ DOMAIN Members = 1..Len(Members)
  BY <1>1, AnswersAssumption
<1> QED BY <1>1, <1>2 DEF IsAnswer, IsInside

(* What an answer that is an object is found to hold. *)
LEMMA ObjectsAreSearched ==
  ASSUME TypeOK, reply.body.kind = "object"
  PROVE  LET found == Curator!FoundIn(reply.objects) IN
         /\ Curator!ExtractHash(reply)
              = Curator!ObjectDigest(reply.objects[reply.body.at], found)
         /\ \A i \in DOMAIN Members : found[i] = Curator!ObjectDigest(reply.objects[i], found)
<1> DEFINE found == Curator!FoundIn(reply.objects)
<1>1. Searches(found, reply.objects, 1) /\ reply.body.at \in DOMAIN Members
  BY AnswersAre, FoundIs
<1>2. DOMAIN Members = 1..Len(Members)
  BY AnswersAssumption
<1>3. Curator!ExtractHash(reply) = found[reply.body.at]
  BY DEF Curator!ExtractHash, Curator!DigestOf, Curator!IsDigest, Curator!OrElse,
         Curator!NestedDigest
<1> HIDE DEF found
<1>4. \A i \in DOMAIN Members : found[i] = Curator!ObjectDigest(reply.objects[i], found)
  BY <1>1, <1>2 DEF Searches
<1> QED BY <1>1, <1>3, <1>4 DEF found

(* What is said at the known places of an object and what is inside it.    *)
LEMMA SaidAreAnswers ==
  ASSUME NEW objects, Objects(objects), NEW i \in DOMAIN Members
  PROVE  /\ \A value \in Said(objects[i]) : IsInside(value, i)
         /\ Inside(objects[i]) \subseteq (i + 1)..Len(Members)
<1>1. \A key : IsAnswer(Curator!Field(objects[i], key), i)
  BY FieldsAreAnswers
<1>2. \A key : IsInside(Curator!Field(objects[i], key), i)
  BY <1>1 DEF IsAnswer
<1>3. \A value \in FirstItems(objects[i]) : IsInside(value, i)
  BY <1>1 DEF FirstItems, IsAnswer
<1>4. \A value \in Said(objects[i]) : IsInside(value, i)
  BY <1>2, <1>3 DEF Said
<1>5. Inside(objects[i]) \subseteq (i + 1)..Len(Members)
  BY <1>2, <1>3 DEF Inside, IsInside
<1> QED BY <1>4, <1>5

LEMMA OrElseIsEither ==
  \A s, t : /\ Curator!OrElse(s, t) \in {s, t}
            /\ Curator!OrElse(s, t) = None => s = None /\ t = None
BY DEF Curator!OrElse

(* An object that holds nothing says no digest, and nothing inside it      *)
(* holds one.                                                              *)
LEMMA EmptyObject ==
  ASSUME NEW object, NEW f, Curator!ObjectDigest(object, f) = None
  PROVE  /\ \A value \in Said(object) : Curator!DigestOf(value) = None
         /\ \A j \in Inside(object) : f[j] = None
<1> DEFINE At(key) == Curator!Field(object, key)
<1>1. /\ Curator!NamedDigest(object) = None
      /\ \A key \in Curator!ListKeys : Curator!ListedDigest(At(key), f) = None
      /\ \A key \in {"responseObject", "data"} : Curator!NestedDigest(At(key), f) = None
  BY OrElseIsEither DEF Curator!ObjectDigest, Curator!ListKeys
<1>2. \A key \in Curator!TextKeys : Curator!DigestOf(At(key)) = None
  BY <1>1, OrElseIsEither DEF Curator!NamedDigest, Curator!TextKeys
<1>3. ASSUME NEW value \in FirstItems(object)
      PROVE  Curator!DigestOf(value) = None /\ Curator!NestedDigest(value, f) = None
  <2>1. PICK key \in Curator!ListKeys :
          At(key).kind = "list" /\ At(key).items # <<>> /\ value = Head(At(key).items)
    BY DEF FirstItems
  <2>2. Curator!OrElse(Curator!DigestOf(value), Curator!NestedDigest(value, f)) = None
    BY <1>1, <2>1 DEF Curator!ListedDigest
  <2> QED BY <2>2, OrElseIsEither
<1>4. \A value \in Said(object) : Curator!DigestOf(value) = None
  BY <1>2, <1>3 DEF Said
<1>5. ASSUME NEW j \in Inside(object) PROVE f[j] = None
  <2>1. PICK value : /\ value \in {At(k) : k \in {"responseObject", "data"}}
                                    \cup FirstItems(object)
                     /\ value.kind = "object" /\ value.at = j
    BY DEF Inside
  <2>2. Curator!NestedDigest(value, f) = None
    BY <1>1, <1>3, <2>1
  <2> QED BY <2>1, <2>2 DEF Curator!NestedDigest
<1> QED BY <1>4, <1>5

(* What an object holds it says, or an object inside it holds it.          *)
LEMMA HeldIsSaid ==
  ASSUME NEW object, NEW f, Curator!ObjectDigest(object, f) # None
  PROVE  \/ \E value \in Said(object) :
              value.kind = "text" /\ value.text = Curator!ObjectDigest(object, f)
         \/ \E j \in Inside(object) : f[j] = Curator!ObjectDigest(object, f)
<1> DEFINE At(key)   == Curator!Field(object, key)
           text      == Curator!ObjectDigest(object, f)
           Says(t)   == \E value \in Said(object) : value.kind = "text" /\ value.text = t
           Contains(t) == \E j \in Inside(object) : f[j] = t
           Known(t)  == t = None \/ Says(t) \/ Contains(t)
<1>1. ASSUME NEW s, NEW t, Known(s), Known(t) PROVE Known(Curator!OrElse(s, t))
  BY <1>1, OrElseIsEither
<1>2. ASSUME NEW value \in Said(object) PROVE Known(Curator!DigestOf(value))
  BY DEF Curator!DigestOf, Curator!IsDigest
<1>3. ASSUME NEW key \in Curator!TextKeys PROVE Known(Curator!DigestOf(At(key)))
  BY <1>2 DEF Said
<1>4. ASSUME NEW value \in {At(k) : k \in {"responseObject", "data"}} \cup FirstItems(object)
      PROVE  Known(Curator!NestedDigest(value, f))
  <2>1. CASE value.kind = "object"
    <3>1. value.at \in Inside(object)
      BY <2>1 DEF Inside
    <3> QED BY <2>1, <3>1 DEF Curator!NestedDigest
  <2>2. CASE value.kind # "object"
    BY <2>2 DEF Curator!NestedDigest
  <2> QED BY <2>1, <2>2
<1>5. ASSUME NEW key \in Curator!ListKeys PROVE Known(Curator!ListedDigest(At(key), f))
  <2>1. CASE At(key).kind # "list" \/ At(key).items = <<>>
    BY <2>1 DEF Curator!ListedDigest
  <2>2. CASE At(key).kind = "list" /\ At(key).items # <<>>
    <3> DEFINE first == Head(At(key).items)
    <3>1. first \in FirstItems(object)
      BY <2>2 DEF FirstItems
    <3>2. first \in Said(object)
      BY <3>1 DEF Said
    <3>3. Curator!ListedDigest(At(key), f)
            = Curator!OrElse(Curator!DigestOf(first), Curator!NestedDigest(first, f))
      BY <2>2 DEF Curator!ListedDigest
    <3> HIDE DEF first, Known
    <3> QED BY <1>1, <1>2, <1>4, <3>1, <3>2, <3>3
  <2> QED BY <2>1, <2>2
<1> HIDE DEF Known
<1>6. Known(Curator!NamedDigest(object))
  BY <1>1, <1>3 DEF Curator!NamedDigest, Curator!TextKeys
<1>7. \A key \in {"responseObject", "data"} : Known(Curator!NestedDigest(At(key), f))
  BY <1>4
<1>8. Known(text)
  BY <1>1, <1>5, <1>6, <1>7 DEF Curator!ObjectDigest, Curator!ListKeys
<1> QED BY <1>8 DEF Known

(* The known objects are the answer and all that is inside one of them.    *)
LEMMA KnownAreClosed ==
  ASSUME TypeOK, reply.body.kind = "object"
  PROVE  /\ KnownObjects \subseteq DOMAIN Members
         /\ reply.body.at \in KnownObjects
         /\ \A i \in KnownObjects : Inside(reply.objects[i]) \subseteq KnownObjects
<1> DEFINE Closed(R) == /\ reply.body.at \in R
                        /\ \A j \in R : Inside(reply.objects[j]) \subseteq R
<1>1. KnownObjects = {i \in DOMAIN Members : \A R \in SUBSET DOMAIN Members : Closed(R) => i \in R}
  BY DEF KnownObjects
<1>2. reply.body.at \in KnownObjects
  BY <1>1, AnswersAre
<1>3. ASSUME NEW i \in KnownObjects, NEW j \in Inside(reply.objects[i])
      PROVE  j \in KnownObjects
  <2>1. i \in DOMAIN Members /\ Objects(reply.objects)
    BY <1>1, AnswersAre
  <2>2. j \in (i + 1)..Len(Members)
    BY <2>1, SaidAreAnswers
  <2>3. j \in DOMAIN Members
    BY <2>1, <2>2, AnswersAssumption
  <2>4. ASSUME NEW R \in SUBSET DOMAIN Members, Closed(R) PROVE j \in R
    BY <1>1, <2>4
  <2> HIDE DEF Closed
  <2> QED BY <1>1, <2>3, <2>4
<1> QED BY <1>1, <1>2, <1>3

(* What is found in a known object stands at a known place.                *)
LEMMA FoundAreKnown ==
  ASSUME TypeOK, reply.body.kind = "object",
         NEW i \in KnownObjects, Curator!FoundIn(reply.objects)[i] # None
  PROVE  Curator!FoundIn(reply.objects)[i] \in KnownTexts
<1> DEFINE n     == Len(Members)
           found == Curator!FoundIn(reply.objects)
           T     == {d \in 0..(n - 1) : /\ n - d \in KnownObjects /\ found[n - d] # None
                                        /\ found[n - d] \notin KnownTexts}
<1>1. n \in Nat /\ DOMAIN Members = 1..n
  BY AnswersAssumption
<1>2. \A j \in DOMAIN Members : found[j] = Curator!ObjectDigest(reply.objects[j], found)
  BY ObjectsAreSearched
<1> HIDE DEF found
<1>3. T = {}
  <2> SUFFICES ASSUME T # {} PROVE FALSE
    OBVIOUS
  <2>1. T \subseteq Nat
    BY <1>1
  <2>2. PICK d \in T : \A y \in T : d <= y
    <3> HIDE DEF T
    <3> QED BY <2>1, LeastPlace
  <2> DEFINE k == n - d
  <2>3. /\ d \in 0..(n - 1) /\ k \in 1..n
        /\ k \in KnownObjects /\ found[k] # None /\ found[k] \notin KnownTexts
    BY <1>1
  <2>4. ASSUME NEW j \in (k + 1)..n, j \in KnownObjects, found[j] # None
        PROVE  found[j] \in KnownTexts
    <3>1. n - j \in 0..(n - 1) /\ n - j < d /\ n - (n - j) = j
      BY <1>1, <2>3
    <3>2. n - j \notin T
      BY <2>2, <2>3, <3>1, SMTT(60)
    <3> QED BY <2>4, <3>1, <3>2
  <2> HIDE DEF T, k
  <2>5. found[k] = Curator!ObjectDigest(reply.objects[k], found)
    BY <1>1, <1>2, <2>3
  <2>6. CASE \E value \in Said(reply.objects[k]) : value.kind = "text" /\ value.text = found[k]
    BY <2>3, <2>6 DEF KnownTexts
  <2>7. CASE \E j \in Inside(reply.objects[k]) : found[j] = found[k]
    <3>1. PICK j \in Inside(reply.objects[k]) : found[j] = found[k]
      BY <2>7
    <3>2. Objects(reply.objects) /\ k \in DOMAIN Members
      BY <1>1, <2>3, AnswersAre
    <3>3. j \in (k + 1)..n
      BY <3>2, SaidAreAnswers
    <3>4. j \in KnownObjects
      BY <2>3, KnownAreClosed
    <3> QED BY <2>3, <2>4, <3>1, <3>3, <3>4
  <2> QED BY <2>3, <2>5, <2>6, <2>7, HeldIsSaid
<1>4. i \in 1..n
  BY <1>1, KnownAreClosed
<1>5. n - i \in 0..(n - 1) /\ n - (n - i) = i
  BY <1>1, <1>4
<1>6. n - i \notin T
  BY <1>3
<1> QED BY <1>5, <1>6 DEF found

(* What comes back came in an answer and stands at a known place of it.    *)
LEMMA HashIsKnown ==
  ASSUME TypeOK, Hash.digest # None
  PROVE  Answered /\ Hash.digest \in KnownTexts /\ IsFound(Hash.digest)
<1> DEFINE text == Curator!ExtractHash(reply)
<1>1. ~Curator!Failed(reply) /\ text # None /\ Hash.digest = text
  BY DEF Hash, Curator!CreatePayeeHash, Curator!Raised, Curator!Returned
<1>2. Answered
  BY <1>1 DEF Answered, Curator!Failed
<1>3. CASE reply.body.kind = "object"
  <2>1. /\ Searches(Curator!FoundIn(reply.objects), reply.objects, 1)
        /\ reply.body.at \in DOMAIN Members
    BY <1>3, AnswersAre, FoundIs
  <2>2. IsFound(Curator!FoundIn(reply.objects)[reply.body.at])
    BY <2>1, AnswersAre, SearchesAreFound
  <2>3. text = Curator!FoundIn(reply.objects)[reply.body.at]
    BY <1>3, <2>1, ObjectsAreSearched
  <2>4. text \in KnownTexts
    BY <1>1, <1>3, <2>3, KnownAreClosed, FoundAreKnown
  <2> QED BY <1>1, <1>2, <2>2, <2>3, <2>4
<1>4. CASE reply.body.kind # "object"
  <2>1. text = Curator!DigestOf(reply.body)
    BY <1>1, <1>4 DEF Curator!ExtractHash, Curator!NestedDigest, Curator!OrElse
  <2>2. reply.body.kind = "text" /\ reply.body.text = text /\ IsFound(text)
    BY <1>1, <2>1 DEF Curator!DigestOf, Curator!IsDigest, IsFound
  <2>3. text \in KnownTexts
    BY <1>4, <2>2 DEF KnownTexts
  <2> QED BY <1>1, <1>2, <2>2, <2>3
<1> QED BY <1>3, <1>4

(* No text of an answer ends in a newline.                                 *)
Unlined(value) == value.kind = "text" => ~value.text.newline
NewlineFree ==
  /\ \A i \in DOMAIN Members : \A key \in DOMAIN Members[i] : \A value \in Members[i][key] :
       /\ Unlined(value)
       /\ (value.kind = "list" /\ value.items # <<>>) => Unlined(Head(value.items))
  /\ \A body \in Bodies : Unlined(body)

LEMMA KnownAreUnlined ==
  ASSUME TypeOK, NewlineFree
  PROVE  \A text \in KnownTexts : ~text.newline
<1>1. Objects(reply.objects) /\ reply.body \in Bodies
  BY DEF TypeOK, Objects
<1>2. ASSUME NEW i \in DOMAIN Members, NEW value \in Said(reply.objects[i])
      PROVE  Unlined(value)
  <2> DEFINE At(key) == Curator!Field(reply.objects[i], key)
  <2>1. Chosen(reply.objects[i], Members[i])
    BY <1>1 DEF Objects
  <2>2. ASSUME NEW key
        PROVE  /\ Unlined(At(key))
               /\ (At(key).kind = "list" /\ At(key).items # <<>>) => Unlined(Head(At(key).items))
    <3>1. CASE key \in DOMAIN reply.objects[i]
      <4>1. key \in DOMAIN Members[i] /\ At(key) \in Members[i][key]
        BY <2>1, <3>1 DEF Chosen, Curator!Field
      <4> HIDE DEF At
      <4> QED BY <4>1 DEF NewlineFree
    <3>2. CASE key \notin DOMAIN reply.objects[i]
      BY <3>2 DEF Curator!Field, Curator!Null, Unlined
    <3> QED BY <3>1, <3>2
  <2>3. CASE value \in FirstItems(reply.objects[i])
    BY <2>2, <2>3 DEF FirstItems
  <2>4. CASE value \in {At(k) : k \in Curator!TextKeys}
    BY <2>2, <2>4
  <2> QED BY <2>3, <2>4 DEF Said
<1>3. CASE reply.body.kind = "object"
  <2>1. KnownObjects \subseteq DOMAIN Members
    BY DEF KnownObjects
  <2> QED BY <1>2, <1>3, <2>1 DEF KnownTexts, Unlined
<1>4. CASE reply.body.kind # "object"
  BY <1>1, <1>4 DEF KnownTexts, NewlineFree, Unlined
<1> QED BY <1>3, <1>4

LEMMA DigestsAreTheCurators ==
  ASSUME NewlineFree PROVE TypeOK => DigestIsTheCurators
<1> SUFFICES ASSUME TypeOK, Hash.digest # None
             PROVE  /\ Answered /\ Hash.digest \in KnownTexts
                    /\ Is32Bytes(Hash.digest)
                    /\ Curator!Bytes32(Hash.digest).word = "padded"
  BY DEF DigestIsTheCurators
<1>1. Answered /\ Hash.digest \in KnownTexts /\ IsFound(Hash.digest)
  BY HashIsKnown
<1>2. ~Hash.digest.newline
  BY <1>1, KnownAreUnlined
<1> DEFINE text == Hash.digest
<1>3. text # None
  OBVIOUS
<1> HIDE DEF text
<1>4. text.prefixed /\ text.hex /\ text.digits = 64 /\ ~text.newline
  BY <1>1, <1>2, <1>3 DEF IsFound, text
<1>5. Is32Bytes(text) /\ Curator!Bytes32(text).word = "padded"
  BY <1>4 DEF Is32Bytes, Curator!Bytes32
<1> QED BY <1>1, <1>5 DEF text

(* Of the objects where nothing is found, nothing inside them holds a      *)
(* digest: when the answer is one of them, so is every known object.       *)
LEMMA PlacesAreRead == TypeOK => EveryKnownPlaceIsRead
<1> SUFFICES ASSUME TypeOK, Answered, NEW text \in KnownTexts, Is32Bytes(text),
                    Hash.digest = None
             PROVE  FALSE
  BY DEF EveryKnownPlaceIsRead
<1>1. ~Curator!Failed(reply)
  BY DEF Answered, Curator!Failed
<1>2. Curator!ExtractHash(reply) = None
  BY <1>1 DEF Hash, Curator!CreatePayeeHash, Curator!Returned
<1>3. CASE reply.body.kind = "object"
  <2> DEFINE found == Curator!FoundIn(reply.objects)
             R     == {i \in DOMAIN Members : found[i] = None}
  <2>1. PICK i \in KnownObjects : \E value \in Said(reply.objects[i]) :
                                    value.kind = "text" /\ value.text = text
    BY <1>3 DEF KnownTexts
  <2>2. /\ Curator!ObjectDigest(reply.objects[reply.body.at], found) = None
        /\ \A j \in DOMAIN Members : found[j] = Curator!ObjectDigest(reply.objects[j], found)
        /\ Objects(reply.objects) /\ reply.body.at \in DOMAIN Members
    BY <1>2, <1>3, ObjectsAreSearched, AnswersAre
  <2> HIDE DEF found
  <2>3. reply.body.at \in R
    BY <2>2
  <2>4. ASSUME NEW j \in R PROVE Inside(reply.objects[j]) \subseteq R
    <3>1. Curator!ObjectDigest(reply.objects[j], found) = None
      BY <2>2
    <3>2. \A k \in Inside(reply.objects[j]) : found[k] = None
      BY <3>1, EmptyObject
    <3>3. Inside(reply.objects[j]) \subseteq (j + 1)..Len(Members)
      BY <2>2, SaidAreAnswers
    <3>4. Inside(reply.objects[j]) \subseteq DOMAIN Members
      BY <3>3, AnswersAssumption
    <3> QED BY <3>2, <3>4
  <2>5. i \in R
    BY <2>1, <2>3, <2>4 DEF KnownObjects
  <2>6. \A value \in Said(reply.objects[i]) : Curator!DigestOf(value) = None
    BY <2>2, <2>5, EmptyObject
  <2>7. PICK value \in Said(reply.objects[i]) : value.kind = "text" /\ value.text = text
    BY <2>1
  <2>8. text # None
    <3>1. IsInside(value, i)
      BY <2>2, <2>5, SaidAreAnswers
    <3> QED BY <2>7, <3>1 DEF IsInside
  <2>9. Curator!DigestOf(value) = text
    BY <2>7 DEF Is32Bytes, Curator!DigestOf, Curator!IsDigest
  <2> QED BY <2>6, <2>8, <2>9
<1>4. CASE reply.body.kind # "object"
  <2>1. Curator!DigestOf(reply.body) = None
    BY <1>2, OrElseIsEither DEF Curator!ExtractHash
  <2>2. reply.body.kind = "text" /\ reply.body.text = text
    BY <1>4 DEF KnownTexts
  <2>3. Curator!DigestOf(reply.body) = text
    BY <2>2 DEF Is32Bytes, Curator!DigestOf, Curator!IsDigest
  <2>4. text # None
    BY <2>2, AnswersAre DEF IsAnswer, IsInside
  <2> QED BY <2>1, <2>3, <2>4
<1> QED BY <1>3, <1>4

-----------------------------------------------------------------------------
(* The theorems *)

(* What an amount deposits, for any number of digits and decimals, any     *)
(* scale and any precision of the decimal context.                         *)
THEOREM AmountsAreTruncated == Spec => []HumanAmountsAreTruncated
<1> QED BY AlwaysTyped, AmountsAreRight, PTL

(* A request passes the pair check exactly over the published table,       *)
(* whatever the amounts, payees, digests and signers of the request are.   *)
THEOREM PublishedPairsAreTaken == Spec => []AcceptsThePublishedPairs
<1> QED BY PairsAreRight, PTL

(* No local error but the width of a word, the codes and the digest is     *)
(* left to the encoders, for any inputs.                                   *)
THEOREM PreparedIsEncoded == Spec => []EncodesWhatItPrepared
<1> QED BY AlwaysTyped, EncodersFollow, PTL

(* When no text of an answer ends in a newline, a digest that is encoded   *)
(* is 32 bytes the curator sent at a known place, however deep the answer. *)
(* With such a text the property fails (curator.py:16).                    *)
THEOREM DigestsComeFromTheCurator ==
  ASSUME NewlineFree
  PROVE  Spec => []DigestIsTheCurators
<1>1. TypeOK => DigestIsTheCurators
  BY DigestsAreTheCurators
<1> QED BY <1>1, AlwaysTyped, PTL

(* An answer with a digest at any known place, in a field, in a list or in *)
(* an object at any depth, is not refused, whatever else it holds.         *)
THEOREM KnownPlacesAreRead == Spec => []EveryKnownPlaceIsRead
<1> QED BY AlwaysTyped, PlacesAreRead, PTL

(* Every spelling of a PayPal name is read as the one name, however many   *)
(* blanks, sigils, segments and tail tokens it is written with.            *)
THEOREM PaypalNamesAgree == Spec => []PaypalSpellingsAgree
<1> QED BY AlwaysTyped, SpellingsAgree, PTL

(* A handle that was posted once is posted again as it is, whatever was    *)
(* typed and whatever the platform, unless what is left of it is no name.  *)
THEOREM HandlesStay == Spec => []HandleIsStable
<1> QED BY AlwaysTyped, HandlesComeBack, PTL
=============================================================================

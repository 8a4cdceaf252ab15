-------------------------- MODULE CashoutRulesProofs --------------------------
(***************************************************************************)
(* What prepare() accepts and what the encoders can still refuse, for any  *)
(* tables, amounts and attribution; and which handle a payee is posted as, *)
(* for any text.                                                           *)
(***************************************************************************)
EXTENDS CashoutRules, SequenceTheorems, WellFoundedInduction, TLAPS

(* A set of numbers that is not empty has a least one. *)
LEMMA LeastPlace ==
  ASSUME NEW T, T \subseteq Nat, T # {}
  PROVE  \E x \in T : \A y \in T : x <= y
<1> DEFINE R == {ss \in Nat \X Nat : ss[1] < ss[2]}
<1>1. IsWellFoundedOn(R, Nat)
  BY NatLessThanWellFounded DEF OpToRel
<1>2. PICK x \in T : \A y \in T : ~ (<<y, x>> \in R)
  <2> HIDE DEF R
  <2> QED BY <1>1, WFMin
<1>3. ASSUME NEW y \in T PROVE x <= y
  <2>1. <<y, x>> \in Nat \X Nat /\ ~ (y < x)
    BY <1>2
  <2> QED BY <2>1
<1> QED BY <1>3

(* A sequence of values, each one made of the one before, exists. *)
Iterates(f, n, start, step) ==
  /\ DOMAIN f = 0..n /\ f = [i \in 0..n |-> f[i]]
  /\ f[0] = start
  /\ \A i \in 1..n : f[i] = step[i][f[i - 1]]

LEMMA IterationExists ==
  ASSUME NEW n \in Nat, NEW start, NEW step
  PROVE  \E f : Iterates(f, n, start, step)
<1> DEFINE E(k) == \E f : Iterates(f, k, start, step)
           T    == {k \in 0..n : ~E(k)}
<1>1. E(0)
  <2> DEFINE f == [i \in 0..0 |-> start]
  <2>1. Iterates(f, 0, start, step)
    BY DEF Iterates
  <2> QED BY <2>1
<1>2. ASSUME NEW k \in 1..n, E(k - 1) PROVE E(k)
  <2>1. PICK f : Iterates(f, k - 1, start, step)
    BY <1>2
  <2> DEFINE g == [i \in 0..k |-> IF i = k THEN step[k][f[k - 1]] ELSE f[i]]
  <2>2. Iterates(g, k, start, step)
    <3>1. g[0] = start /\ DOMAIN g = 0..k /\ g = [i \in 0..k |-> g[i]]
      BY <2>1 DEF Iterates
    <3>2. ASSUME NEW i \in 1..k PROVE g[i] = step[i][g[i - 1]]
      <4>1. g[i - 1] = f[i - 1]
        OBVIOUS
      <4>2. CASE i = k
        BY <4>1, <4>2
      <4>3. CASE i # k
        <5>1. i \in 1..(k - 1) /\ g[i] = f[i]
          BY <4>3
        <5>2. f[i] = step[i][f[i - 1]]
          BY <2>1, <5>1 DEF Iterates
        <5> QED BY <4>1, <5>1, <5>2
      <4> QED BY <4>2, <4>3
    <3> HIDE DEF g
    <3> QED BY <3>1, <3>2 DEF Iterates
  <2> HIDE DEF g
  <2> QED BY <2>2
<1>3. T = {}
  <2> SUFFICES ASSUME T # {} PROVE FALSE
    OBVIOUS
  <2>1. T \subseteq Nat
    OBVIOUS
  <2>2. PICK x \in T : \A y \in T : x <= y
    <3> HIDE DEF T
    <3> QED BY <2>1, LeastPlace
  <2>3. x \in 0..n /\ ~E(x)
    OBVIOUS
  <2> HIDE DEF E
  <2>4. x # 0 /\ x - 1 \in 0..n /\ x - 1 \notin T
    BY <1>1, <2>2, <2>3
  <2>5. E(x - 1) /\ x \in 1..n
    BY <2>3, <2>4
  <2> QED BY <1>2, <2>3, <2>5
<1>4. n \notin T
  BY <1>3
<1> HIDE DEF E
<1>5. E(n)
  BY <1>4
<1> QED BY <1>5 DEF E

(* FirstError gives the first result that is not Ok, if there is one. *)
LEMMA FirstErrorIsAResult ==
  ASSUME NEW results, Len(results) \in 0..7,
         \E i \in 1..Len(results) : results[i] # Ok
  PROVE  /\ FirstError(results) # Ok
         /\ \E i \in 1..Len(results) :
              /\ FirstError(results) = results[i]
              /\ \A j \in 1..(i - 1) : results[j] = Ok
<1> DEFINE Bad(i)   == i \in 1..Len(results) /\ results[i] # Ok
           Leads(i) == Bad(i) /\ \A j \in 1..(i - 1) : results[j] = Ok
<1>1. \E i \in 1..Len(results) : Leads(i)
  <2>1. PICK x \in 1..Len(results) : /\ results[x] # Ok
                                     /\ \A y \in 1..Len(results) : results[y] # Ok => x <= y
    <3> DEFINE T == {y \in 1..Len(results) : results[y] # Ok}
    <3>1. T \subseteq Nat /\ T # {}
      OBVIOUS
    <3>2. \E x \in T : \A y \in T : x <= y
      <4> HIDE DEF T
      <4> QED BY <3>1, LeastPlace
    <3> QED BY <3>2
  <2>2. \A y \in 1..(x - 1) : y \in 1..Len(results) /\ ~(x <= y)
    OBVIOUS
  <2> QED BY <2>1, <2>2
<1>2. FirstError(results)
        = results[CHOOSE i \in 1..Len(results) :
                    /\ results[i] # Ok
                    /\ \A j \in 1..(i - 1) : results[j] = Ok]
  BY DEF FirstError
<1>3. QED
  BY <1>1, <1>2

LEMMA FirstErrorOk ==
  ASSUME NEW results, Len(results) \in 0..7, FirstError(results) = Ok
  PROVE  \A i \in 1..Len(results) : results[i] = Ok
BY FirstErrorIsAResult

(* What a request has passed once prepare() lets it through. *)
LEMMA PreparedRequest ==
  ASSUME NEW r, PrepareError(r) = Ok
  PROVE  /\ r.mode \in Modes
         /\ AmountError(r.amount) = Ok
         /\ r.platform \in PaymentMethods
         /\ r.currency \in Registry[r.platform]
         /\ r.currency \in Feeds
         /\ ~PayeeMissing(r.payee)
<1> DEFINE checks == << RequireMode(r.mode), AmountError(r.amount),
                        PaymentMethodHash(r.platform),
                        AssertSupportedPair(r.platform, r.currency),
                        OracleFeedFor(r.currency), PayeeError(r.payee) >>
<1>1. FirstError(checks) = Ok
  BY DEF PrepareError
<1>2. Len(checks) = 6
  OBVIOUS
<1> HIDE DEF checks
<1>3. \A i \in 1..6 : checks[i] = Ok
  <2>1. Len(checks) \in 0..7
    BY <1>2
  <2>2. \A i \in 1..Len(checks) : checks[i] = Ok
    BY <1>1, <2>1, FirstErrorOk
  <2>3. QED
    BY <1>2, <2>2
<1>4. /\ RequireMode(r.mode) = Ok /\ AmountError(r.amount) = Ok
      /\ PaymentMethodHash(r.platform) = Ok
      /\ AssertSupportedPair(r.platform, r.currency) = Ok
      /\ OracleFeedFor(r.currency) = Ok /\ PayeeError(r.payee) = Ok
  BY <1>3 DEF checks
<1>5. r.mode \in Modes /\ r.platform \in PaymentMethods /\ r.currency \in Feeds
      /\ ~PayeeMissing(r.payee)
  BY <1>4 DEF RequireMode, PaymentMethodHash, OracleFeedFor, PayeeError, Ok
<1>6. r.currency \in Registry[r.platform]
  BY <1>4, <1>5, RegistryAssumption DEF AssertSupportedPair, Ok
<1>7. QED
  BY <1>4, <1>5, <1>6

(* An accepted amount is at least the minimum. *)
LEMMA PreparedUnits ==
  ASSUME NEW amount, AmountError(amount) = Ok, amount.value \in Int
  PROVE  /\ ParseUsdcAmount(amount) \in Nat
         /\ ParseUsdcAmount(amount) >= MinUsdcUnits
<1>1. ParseUsdcAmount(amount) \in Int
  BY UnitsAssumption DEF ParseUsdcAmount
<1>2. ~(ParseUsdcAmount(amount) < MinUsdcUnits)
  BY DEF AmountError, Ok
<1>3. QED
  BY <1>1, <1>2, UnitsAssumption

(* The encoders repeat the pair, the platform, the feed and the intent     *)
(* range; for a request that prepare() accepted they can fail only on the  *)
(* width of the amount, the length of the codes or the digest.  So nothing *)
(* prepare() could have told the caller comes after the curator POST.      *)
THEOREM EncodersAgreeWithPrepare ==
  ASSUME NEW r, NEW digest, PrepareError(r) = Ok, r.amount.value \in Int
  PROVE  /\ EncodeError(r, digest) \in {Ok, "overflow", "UnicodeEncodeError", "codes", "digest"}
         /\ EncodeError(r, digest) = Ok => digest \notin {None, ZeroDigest}
         /\ EncodeError(r, digest) = "digest" => digest \in {None, ZeroDigest}
<1> DEFINE units  == ParseUsdcAmount(r.amount)
           checks == << EncodeUint256(units), AppendAttribution, DigestError(digest),
                        AssertSupportedPair(r.platform, r.currency),
                        PaymentMethodHash(r.platform),
                        IntentRangeError(MinUsdcUnits, units),
                        OracleFeedFor(r.currency) >>
<1>1. /\ r.platform \in PaymentMethods /\ r.currency \in Registry[r.platform]
      /\ r.currency \in Feeds /\ AmountError(r.amount) = Ok
  BY PreparedRequest
<1>2. units \in Nat /\ units >= MinUsdcUnits
  BY <1>1, PreparedUnits
<1>3. /\ checks[1] \in {Ok, "overflow"} /\ checks[2] \in {Ok, "UnicodeEncodeError", "codes"}
      /\ checks[3] \in {Ok, "digest"}
  BY DEF EncodeUint256, AppendAttribution, DigestError
<1>4. checks[4] = Ok
  BY <1>1, RegistryAssumption DEF AssertSupportedPair
<1>5. checks[5] = Ok /\ checks[7] = Ok
  BY <1>1 DEF PaymentMethodHash, OracleFeedFor
<1>6. checks[6] = Ok
  BY <1>2, UnitsAssumption DEF IntentRangeError
<1>7. \A i \in 1..7 : checks[i] \in {Ok, "overflow", "UnicodeEncodeError", "codes", "digest"}
  <2> HIDE DEF checks
  <2>1. QED
    BY <1>3, <1>4, <1>5, <1>6
<1>8. Len(checks) = 7 /\ EncodeError(r, digest) = FirstError(checks)
  BY DEF EncodeError
<1>9. checks[3] = Ok <=> digest \notin {None, ZeroDigest}
  BY DEF DigestError, Ok
<1> HIDE DEF checks
<1>10. CASE \E i \in 1..7 : checks[i] # Ok
  <2>1. PICK i \in 1..7 : FirstError(checks) = checks[i] /\ checks[i] # Ok
    <3>1. Len(checks) \in 0..7 /\ \E i \in 1..Len(checks) : checks[i] # Ok
      BY <1>8, <1>10
    <3>2. /\ FirstError(checks) # Ok
          /\ \E i \in 1..Len(checks) : FirstError(checks) = checks[i]
      BY <3>1, FirstErrorIsAResult
    <3> QED BY <1>8, <3>2
  <2>2. checks[i] = "digest" => i = 3
    BY <1>3, <1>4, <1>5, <1>6 DEF Ok
  <2> QED BY <1>7, <1>8, <1>9, <2>1, <2>2
<1>11. CASE \A i \in 1..7 : checks[i] = Ok
  <2>1. FirstError(checks) = Ok
    BY <1>8, <1>11 DEF FirstError
  <2>2. QED
    BY <1>8, <1>9, <1>11, <2>1 DEF Ok
<1>12. QED
  BY <1>10, <1>11

(* Once mode and amount are right, prepare() blames the platform or the    *)
(* currency exactly when the pair cannot be both settled and priced: no    *)
(* pair of the tables is refused, and no other is let through or blamed on *)
(* the payee.                                                              *)
THEOREM OnlyPricedPairsAreTaken ==
  ASSUME NEW r, RequireMode(r.mode) = Ok, AmountError(r.amount) = Ok
  PROVE  PrepareError(r) \in {"platform", "currency"}
           <=> ~ ( /\ r.platform \in PaymentMethods
                   /\ r.currency \in SupportedCurrencies(r.platform) )
<1> DEFINE checks == << RequireMode(r.mode), AmountError(r.amount),
                        PaymentMethodHash(r.platform),
                        AssertSupportedPair(r.platform, r.currency),
                        OracleFeedFor(r.currency), PayeeError(r.payee) >>
           taken  == /\ r.platform \in PaymentMethods
                     /\ r.currency \in SupportedCurrencies(r.platform)
<1>1. checks[1] = Ok /\ checks[2] = Ok /\ Len(checks) = 6
  OBVIOUS
<1>2. taken <=> checks[3] = Ok /\ checks[4] = Ok /\ checks[5] = Ok
  BY RegistryAssumption DEF PaymentMethodHash, AssertSupportedPair, OracleFeedFor,
                            SupportedCurrencies, Ok
<1>3. /\ \A i \in 3..5 : checks[i] \in {Ok, "platform", "currency"}
      /\ checks[6] \in {Ok, "payee"}
  BY DEF PaymentMethodHash, AssertSupportedPair, OracleFeedFor, PayeeError
<1>4. PrepareError(r) = FirstError(checks)
  BY DEF PrepareError
<1> HIDE DEF checks, taken
<1>5. CASE \A i \in 1..6 : checks[i] = Ok
  <2>1. FirstError(checks) = Ok
    BY <1>1, <1>5 DEF FirstError
  <2> QED BY <1>2, <1>4, <1>5, <2>1 DEF Ok, taken
<1>6. CASE \E i \in 1..6 : checks[i] # Ok
  <2>1. PICK i \in 1..6 : /\ FirstError(checks) = checks[i] /\ checks[i] # Ok
                          /\ \A j \in 1..(i - 1) : checks[j] = Ok
    BY <1>1, <1>6, FirstErrorIsAResult
  <2>2. CASE i \in 3..5
    BY <1>2, <1>3, <1>4, <2>1, <2>2 DEF taken
  <2>3. CASE i = 6
    <3>1. taken
      BY <1>2, <2>1, <2>3
    <3>2. checks[6] = "payee"
      BY <1>3, <2>1, <2>3
    <3> QED BY <1>4, <2>1, <2>3, <3>1, <3>2 DEF taken
  <2> QED BY <1>1, <2>1, <2>2, <2>3
<1> QED BY <1>5, <1>6

-----------------------------------------------------------------------------
(* What stripping leaves of a text *)

(* What is left starts at k, the place of the first token that is not c. *)
CutAt(s, c, k) ==
  /\ LStrip(s, c) = SubSeq(s, k, Len(s))
  /\ k <= Len(s) => s[k] # c
  /\ \A j \in 1..(k - 1) : s[j] = c

LEMMA LStripCut ==
  ASSUME NEW S, NEW s \in Seq(S), NEW c
  PROVE  \E k \in 1..(Len(s) + 1) : CutAt(s, c, k)
<1> DEFINE n == Len(s)
           Cut(i) == /\ i <= n => s[i] # c
                     /\ \A j \in 1..(i - 1) : ~(s[j] # c)
           T == {i \in 1..(n + 1) : i <= n => s[i] # c}
<1>1. n \in Nat
  OBVIOUS
<1>2. PICK x \in T : \A y \in T : x <= y
  <2>1. T \subseteq Nat /\ n + 1 \in T
    BY <1>1
  <2> HIDE DEF T
  <2> QED BY <2>1, LeastPlace
<1>3. x \in 1..(n + 1) /\ (x <= n => s[x] # c)
  OBVIOUS
<1>4. \A j \in 1..(x - 1) : s[j] = c
  <2> TAKE j \in 1..(x - 1)
  <2>1. j \in 1..(n + 1) /\ j <= n /\ ~(x <= j)
    BY <1>1, <1>3
  <2> QED BY <1>2, <2>1
<1>5. Cut(x)
  BY <1>3, <1>4
<1>6. FirstWhere(s, LAMBDA t : t # c) = CHOOSE i \in 1..(n + 1) : Cut(i)
  BY DEF FirstWhere
<1> DEFINE k == CHOOSE i \in 1..(n + 1) : Cut(i)
<1>7. k \in 1..(n + 1) /\ Cut(k)
  <2> HIDE DEF Cut, n
  <2> QED BY <1>3, <1>5
<1>8. LStrip(s, c) = SubSeq(s, k, n)
  BY <1>6 DEF LStrip
<1> HIDE DEF k
<1> QED BY <1>7, <1>8 DEF CutAt

LEMMA LStripEnds ==
  ASSUME NEW S, NEW s \in Seq(S), NEW c
  PROVE  /\ LStrip(s, c) \in Seq(S)
         /\ LStrip(s, c) # <<>> =>
              /\ s # <<>>
              /\ LStrip(s, c)[1] # c
              /\ LStrip(s, c)[Len(LStrip(s, c))] = s[Len(s)]
<1>1. PICK k \in 1..(Len(s) + 1) :
        LStrip(s, c) = SubSeq(s, k, Len(s)) /\ (k <= Len(s) => s[k] # c)
  BY LStripCut DEF CutAt
<1> DEFINE t == SubSeq(s, k, Len(s))
<1>2. Len(s) \in Nat /\ k \in Int /\ \A i \in k..Len(s) : s[i] \in S
  OBVIOUS
<1>3. /\ t \in Seq(S) /\ Len(t) = Len(s) - k + 1
      /\ \A i \in 1..(Len(s) - k + 1) : t[i] = s[k + i - 1]
  BY <1>2, SubSeqProperties
<1> HIDE DEF t
<1>4. ASSUME t # <<>> PROVE s # <<>> /\ t[1] # c /\ t[Len(t)] = s[Len(s)]
  <2>1. Len(t) > 0
    BY <1>3, <1>4
  <2>2. k <= Len(s) /\ Len(s) > 0
    BY <1>2, <1>3, <2>1
  <2>3. t[1] = s[k] /\ t[Len(s) - k + 1] = s[Len(s)]
    BY <1>2, <1>3, <2>2
  <2> QED BY <1>1, <1>3, <2>2, <2>3
<1> QED BY <1>1, <1>3, <1>4 DEF t

(* A text that does not start with c keeps all of itself. *)
LEMMA LStripKeeps ==
  ASSUME NEW S, NEW s \in Seq(S), NEW c, s = <<>> \/ s[1] # c
  PROVE  LStrip(s, c) = s
<1>1. PICK k \in 1..(Len(s) + 1) : /\ LStrip(s, c) = SubSeq(s, k, Len(s))
                                   /\ \A j \in 1..(k - 1) : s[j] = c
  BY LStripCut DEF CutAt
<1>2. k = 1
  BY <1>1
<1> QED BY <1>1, <1>2, SubSeqFull

(* What is left ends at the last token that is not c. *)
LEMMA RStripCut ==
  ASSUME NEW S, NEW s \in Seq(S), NEW c
  PROVE  \E upto \in 0..Len(s) :
           RStrip(s, c) = SubSeq(s, 1, upto) /\ (upto = 0 \/ s[upto] # c)
             /\ \A j \in (upto + 1)..Len(s) : s[j] = c
<1> DEFINE n == Len(s)
           Cut(i) == /\ \A j \in (i + 1)..n : s[j] = c
                     /\ i = 0 \/ s[i] # c
           T == {d \in 0..n : n - d = 0 \/ s[n - d] # c}
<1>1. n \in Nat
  OBVIOUS
<1>2. PICK x \in T : \A y \in T : x <= y
  <2>1. T \subseteq Nat /\ n \in T
    BY <1>1
  <2> HIDE DEF T
  <2> QED BY <2>1, LeastPlace
<1>3. n - x \in 0..n /\ (n - x = 0 \/ s[n - x] # c)
  BY <1>1
<1>4. \A j \in (n - x + 1)..n : s[j] = c
  <2> TAKE j \in (n - x + 1)..n
  <2>1. n - j \in 0..n /\ n - (n - j) = j /\ ~(x <= n - j)
    BY <1>1, <1>3
  <2>2. n - j \notin T
    BY <1>2, <2>1
  <2> QED BY <2>1, <2>2
<1>5. \E i \in 0..n : Cut(i)
  BY <1>3, <1>4
<1> DEFINE k == CHOOSE i \in 0..n : Cut(i)
<1>6. k \in 0..n /\ Cut(k)
  <2> HIDE DEF Cut, n
  <2> QED BY <1>5
<1>7. RStrip(s, c) = SubSeq(s, 1, k)
  BY DEF RStrip
<1> HIDE DEF k
<1> QED BY <1>6, <1>7

LEMMA RStripEnds ==
  ASSUME NEW S, NEW s \in Seq(S), NEW c
  PROVE  /\ RStrip(s, c) \in Seq(S)
         /\ RStrip(s, c) # <<>> =>
              /\ s # <<>>
              /\ RStrip(s, c)[1] = s[1]
              /\ RStrip(s, c)[Len(RStrip(s, c))] # c
<1>1. PICK upto \in 0..Len(s) :
        RStrip(s, c) = SubSeq(s, 1, upto) /\ (upto = 0 \/ s[upto] # c)
  BY RStripCut
<1> DEFINE t == SubSeq(s, 1, upto)
<1>2. Len(s) \in Nat /\ upto \in Int /\ upto >= 0 /\ \A i \in 1..upto : s[i] \in S
  OBVIOUS
<1>3. /\ t \in Seq(S) /\ Len(t) = upto
      /\ \A i \in 1..upto : t[i] = s[i]
  <2>1. /\ t \in Seq(S) /\ Len(t) = IF 1 <= upto THEN upto - 1 + 1 ELSE 0
        /\ \A i \in 1..(upto - 1 + 1) : t[i] = s[1 + i - 1]
    BY <1>2, SubSeqProperties
  <2> HIDE DEF t
  <2> QED BY <1>2, <2>1
<1> HIDE DEF t
<1>4. ASSUME t # <<>> PROVE s # <<>> /\ t[1] = s[1] /\ t[Len(t)] # c
  <2>1. Len(t) > 0
    BY <1>3, <1>4
  <2>2. upto > 0 /\ Len(s) > 0
    BY <1>2, <1>3, <2>1
  <2>3. t[1] = s[1] /\ t[upto] = s[upto]
    BY <1>2, <1>3, <2>2
  <2> QED BY <1>1, <1>3, <2>2, <2>3
<1> QED BY <1>1, <1>3, <1>4 DEF t

(* A text that does not end with c keeps all of itself. *)
LEMMA RStripKeeps ==
  ASSUME NEW S, NEW s \in Seq(S), NEW c, s = <<>> \/ s[Len(s)] # c
  PROVE  RStrip(s, c) = s
<1>1. PICK upto \in 0..Len(s) : /\ RStrip(s, c) = SubSeq(s, 1, upto)
                                /\ \A j \in (upto + 1)..Len(s) : s[j] = c
  BY RStripCut
<1>2. upto = Len(s)
  BY <1>1
<1> QED BY <1>1, <1>2, SubSeqFull

(* A stripped text neither starts nor ends with a blank, and stripping it  *)
(* again changes nothing.                                                  *)
Trim(s) == s = <<>> \/ (s[1] # Blank /\ s[Len(s)] # Blank)

LEMMA StripTrims ==
  ASSUME NEW S, NEW s \in Seq(S)
  PROVE  Strip(s) \in Seq(S) /\ Trim(Strip(s))
<1> DEFINE t == LStrip(s, Blank)
<1>1. t \in Seq(S) /\ (t # <<>> => t[1] # Blank)
  BY LStripEnds
<1> HIDE DEF t
<1>2. /\ RStrip(t, Blank) \in Seq(S)
      /\ RStrip(t, Blank) # <<>> =>
           /\ t # <<>> /\ RStrip(t, Blank)[1] = t[1]
           /\ RStrip(t, Blank)[Len(RStrip(t, Blank))] # Blank
  BY <1>1, RStripEnds
<1> QED BY <1>1, <1>2 DEF Strip, Trim, t

LEMMA TrimStays ==
  ASSUME NEW S, NEW s \in Seq(S), Trim(s)
  PROVE  Strip(s) = s
BY LStripKeeps, RStripKeeps DEF Strip, Trim

(* Folding keeps the places; a folded text folds to itself. *)
LEMMA LowerFolds ==
  ASSUME NEW S, NEW s \in Seq(S)
  PROVE  /\ Lower(s) \in Seq(S \cup {Folded[t] : t \in DOMAIN Folded})
         /\ Len(Lower(s)) = Len(s)
         /\ \A i \in 1..Len(s) :
              /\ Lower(s)[i] \notin DOMAIN Folded
              /\ \A m \in Marks : Lower(s)[i] = m <=> s[i] = m
BY FoldedAssumption DEF Lower

LEMMA LowerKeeps ==
  ASSUME NEW S, NEW s \in Seq(S), \A i \in 1..Len(s) : s[i] \notin DOMAIN Folded
  PROVE  Lower(s) = s
<1>1. Lower(s) = [i \in 1..Len(s) |-> s[i]]
  BY DEF Lower
<1> QED BY <1>1

-----------------------------------------------------------------------------
(* The handle of a payee *)

(* A sigil is stripped once and for all, unless a blank comes out in front. *)
LEMMA SigilIsGone ==
  ASSUME NEW S, NEW text \in Seq(S), NEW c, Trim(text),
         LStrip(text, c) # <<>>, LStrip(text, c)[1] # Blank
  PROVE  LStrip(Strip(LStrip(text, c)), c) = LStrip(text, c)
<1> DEFINE h == LStrip(text, c)
<1>1. h \in Seq(S) /\ h[1] # c /\ text # <<>> /\ h[Len(h)] = text[Len(text)]
  BY LStripEnds
<1>2. Trim(h)
  BY <1>1 DEF Trim
<1>3. Strip(h) = h /\ LStrip(h, c) = h
  <2> HIDE DEF h
  <2> QED BY <1>1, <1>2, TrimStays, LStripKeeps
<1> QED BY <1>3

(* A sigil put in front of a text that does not start with it comes off   *)
(* again.                                                                  *)
LEMMA SigilComesOff ==
  ASSUME NEW S, NEW t \in Seq(S), NEW c \in S, t = <<>> \/ t[1] # c
  PROVE  LStrip(<<c>> \o t, c) = t
<1> DEFINE h == <<c>> \o t
<1>1. /\ h \in Seq(S) /\ Len(h) = Len(t) + 1 /\ h # <<>>
      /\ h[1] = c /\ \A i \in 1..Len(t) : h[i + 1] = t[i]
  OBVIOUS
<1>2. Tail(h) = t
  <2> DEFINE u == Tail(h)
  <2>1. u \in Seq(S) /\ Len(u) = Len(t) /\ \A i \in 1..Len(t) : u[i] = t[i]
    <3> HIDE DEF h
    <3> QED BY <1>1, HeadTailProperties
  <2> HIDE DEF u
  <2>2. u = t
    BY <2>1, SeqEqual
  <2> QED BY <2>2 DEF u
<1> HIDE DEF h
<1>3. PICK k \in 1..(Len(h) + 1) : CutAt(h, c, k)
  <2>1. h \in Seq(S)
    BY <1>1
  <2> QED BY <2>1, LStripCut, Zenon
<1>4. k # 1
  BY <1>1, <1>3 DEF CutAt
<1>5. ~ (k > 2)
  <2> SUFFICES ASSUME k > 2 PROVE FALSE
    OBVIOUS
  <2>1. 2 \in 1..(k - 1) /\ Len(t) >= 1
    BY <1>1
  <2>2. h[2] = c /\ h[1 + 1] = t[1]
    BY <1>1, <1>3, <2>1 DEF CutAt
  <2> QED BY <2>1, <2>2
<1>6. k = 2
  BY <1>1, <1>4, <1>5
<1> QED BY <1>1, <1>2, <1>3, <1>6, TailIsSubSeq DEF h, CutAt

(* What the client posts for a payee is what it posts again when the host  *)
(* hands that handle back, for any text on any platform that is not cut    *)
(* out of a link, unless a blank stood between the sigil and the name: a   *)
(* second cash-out of the payee then reaches the same maker record.        *)
THEOREM HandlesAreStable ==
  ASSUME NEW S, NEW payee \in Seq(S),
         NEW platform, platform \notin {"paypal", "monzo"},
         NormalizePayee(platform, payee) # <<>>,
         NormalizePayee(platform, payee)[1] # Blank
  PROVE  NormalizePayee(platform, NormalizePayee(platform, payee))
           = NormalizePayee(platform, payee)
<1> DEFINE text   == Strip(payee)
           handle == NormalizePayee(platform, payee)
           U      == S \cup {Folded[t] : t \in DOMAIN Folded}
<1>1. text \in Seq(S) /\ Trim(text)
  BY StripTrims
<1> HIDE DEF text
<1>2. CASE platform \in {"venmo", "revolut", "wise"}
  <2>1. \A p : NormalizePayee(platform, p) = LStrip(Strip(p), "@")
    BY <1>2 DEF NormalizePayee
  <2> QED BY <1>1, <2>1, SigilIsGone DEF text
<1>3. CASE platform = "cashapp"
  <2>1. \A p : NormalizePayee(platform, p) = LStrip(Strip(p), "$")
    BY <1>3 DEF NormalizePayee
  <2> QED BY <1>1, <2>1, SigilIsGone DEF text
<1>4. CASE platform = "zelle"
  <2>1. \A p : NormalizePayee(platform, p) = Lower(Strip(p))
    BY <1>4 DEF NormalizePayee
  <2> DEFINE h == Lower(text)
  <2>2. /\ h \in Seq(U) /\ Len(h) = Len(text)
        /\ \A i \in 1..Len(text) :
             h[i] \notin DOMAIN Folded /\ (h[i] = Blank <=> text[i] = Blank)
    BY <1>1, LowerFolds DEF Marks
  <2> HIDE DEF h, U
  <2>3. Trim(h)
    BY <1>1, <2>2 DEF Trim
  <2>4. Strip(h) = h /\ Lower(h) = h
    BY <2>2, <2>3, TrimStays, LowerKeeps
  <2> QED BY <2>1, <2>4 DEF h, text
<1>5. CASE platform = "chime"
  <2>1. \A p : NormalizePayee(platform, p) = <<"$">> \o LStrip(Lower(Strip(p)), "$")
    BY <1>5 DEF NormalizePayee
  <2> DEFINE lower == Lower(text)
             t     == LStrip(lower, "$")
             h     == <<"$">> \o t
             V     == U \cup {"$"}
  <2>2. /\ lower \in Seq(V) /\ Len(lower) = Len(text)
        /\ \A i \in 1..Len(text) :
             lower[i] \notin DOMAIN Folded /\ (lower[i] = Blank <=> text[i] = Blank)
    <3>1. lower \in Seq(U)
      BY <1>1, LowerFolds
    <3>2. lower \in Seq(V)
      BY <3>1, SeqMonotonic
    <3> QED BY <1>1, <3>2, LowerFolds DEF Marks
  <2> HIDE DEF lower, U
  <2>3. PICK k \in 1..(Len(lower) + 1) : t = SubSeq(lower, k, Len(lower))
    <3>1. lower \in Seq(V)
      BY <2>2
    <3> QED BY <3>1, LStripCut, Zenon DEF CutAt
  <2>4. /\ t \in Seq(V) /\ (t # <<>> => t[1] # "$")
        /\ t # <<>> => t[Len(t)] = lower[Len(lower)] /\ lower # <<>>
    BY <2>2, LStripEnds
  <2>5. \A i \in 1..Len(t) : t[i] \notin DOMAIN Folded
    <3>1. /\ Len(lower) \in Nat /\ k \in Int /\ k >= 1
          /\ \A i \in k..Len(lower) : lower[i] \in V /\ lower[i] \notin DOMAIN Folded
      BY <2>2
    <3>2. \A i \in 1..(Len(lower) - k + 1) : t[i] = lower[k + i - 1]
      BY <2>3, <3>1, SubSeqProperties
    <3>3. Len(t) = IF k <= Len(lower) THEN Len(lower) - k + 1 ELSE 0
      BY <2>3, <3>1, SubSeqProperties
    <3> HIDE DEF t, V
    <3> QED BY <3>1, <3>2, <3>3
  <2> HIDE DEF t
  <2>6. /\ h \in Seq(V) /\ h # <<>> /\ Len(h) = Len(t) + 1 /\ h[1] = "$"
        /\ \A i \in 2..Len(h) : h[i] = t[i - 1] /\ i - 1 \in 1..Len(t)
    BY <2>4
  <2> HIDE DEF h, V
  <2>7. "$" # Blank /\ "$" \notin DOMAIN Folded
    <3>1. "$" \notin DOMAIN Folded
      BY FoldedAssumption DEF Marks
    <3>2. "$" # Blank
      BY Zenon DEF Blank
    <3> QED BY <3>1, <3>2
  <2>8. h[Len(h)] # Blank
    <3>1. CASE t = <<>>
      BY <2>6, <2>7, <3>1
    <3>2. CASE t # <<>>
      <4>1. Len(t) \in Nat /\ Len(t) > 0 /\ h[Len(h)] = t[Len(t)]
        BY <2>4, <2>6, <3>2
      <4>2. text # <<>> /\ lower[Len(lower)] # Blank
        BY <1>1, <2>2, <2>4, <3>2 DEF Trim
      <4> QED BY <2>4, <3>2, <4>1, <4>2
    <3> QED BY <3>1, <3>2
  <2>9. Strip(h) = h
    BY <2>6, <2>7, <2>8, TrimStays DEF Trim
  <2>10. Lower(h) = h
    <3>1. \A i \in 1..Len(h) : h[i] \notin DOMAIN Folded
      BY <2>5, <2>6, <2>7
    <3> QED BY <2>6, <3>1, LowerKeeps
  <2>11. LStrip(h, "$") = t
    <3>1. "$" \in V
      BY DEF V
    <3> QED BY <2>4, <3>1, SigilComesOff DEF h
  <2>12. handle = h
    BY <2>1 DEF h, t, lower, text
  <2> HIDE DEF handle
  <2>13. NormalizePayee(platform, handle) = <<"$">> \o t
    BY <2>1, <2>9, <2>10, <2>11, <2>12
  <2> QED BY <2>12, <2>13 DEF h, handle
<1>6. CASE platform \notin {"venmo", "revolut", "wise", "cashapp", "zelle", "chime"}
  <2>1. \A p : NormalizePayee(platform, p) = Strip(p)
    BY <1>6 DEF NormalizePayee
  <2> QED BY <1>1, <2>1, TrimStays DEF text
<1> QED BY <1>2, <1>3, <1>4, <1>5, <1>6
=============================================================================

---------------------------- MODULE CashoutRules ----------------------------
(***************************************************************************)
(* The checks a cash-out passes before anything leaves the process: the    *)
(* local checks of Offramp.prepare, in their order, and the ones the       *)
(* encoders repeat once the payee details hash is known.                   *)
(*                                                                         *)
(* A request is what the caller passes, with mode, platform and currency   *)
(* already stripped and case-folded (the code folds each where it uses it):*)
(*   [mode, amount, platform, currency, payee, supplied, signer]           *)
(* where amount is [kind, value], payee a text of PayeeNames, supplied the *)
(* caller's payee_details_hash or None, and signer says whether a signer   *)
(* was passed.                                                             *)
(***************************************************************************)
EXTENDS PayeeNames

CONSTANTS
  None,              \* Python's None, and the empty string where it is as falsy
  ZeroDigest,        \* ZERO_ADDRESS passed as a payee details hash
  PaymentMethods,    \* keys of PAYMENT_METHOD_HASHES
  Registry,          \* PAYMENT_METHOD_CURRENCIES: platform |-> currencies
  Feeds,             \* keys of CHAINLINK_ORACLE_FEEDS
  MinUsdcUnits,      \* MIN_USDC_UNITS
  SubUnits,          \* parts of a base unit a human amount can be written in
  UintMax,           \* largest uint256
  CodesLength,       \* characters of ",".join(attribution.codes)
  CodesAreAscii      \* and whether they are all ASCII

Modes == {"fast", "best"}
CodesMax == 255      \* the codes length is one byte of the ERC-8021 suffix

ASSUME UnitsAssumption ==
  /\ MinUsdcUnits \in Nat \ {0}
  /\ SubUnits \in Nat \ {0}
  /\ UintMax \in Nat
  /\ CodesLength \in Nat
  /\ CodesAreAscii \in BOOLEAN

(* test_every_known_platform_has_a_registry_row *)
ASSUME RegistryAssumption == DOMAIN Registry = PaymentMethods

Ok == "ok"

(* The first check that fails decides the exception.                       *)
FirstError(results) ==
  IF \A i \in 1..Len(results) : results[i] = Ok
    THEN Ok
    ELSE results[CHOOSE i \in 1..Len(results) :
                   /\ results[i] # Ok
                   /\ \A j \in 1..(i - 1) : results[j] = Ok]

-----------------------------------------------------------------------------
RequireMode(mode) == IF mode \in Modes THEN Ok ELSE "mode"

(* parse_usdc_amount.  An int is base units.  A human amount is counted in *)
(* parts of a base unit, and int() drops the part below one.  A bool or a  *)
(* text that is no number is refused; NaN passes Decimal() and raises      *)
(* decimal.InvalidOperation out of the comparison with zero, Infinity      *)
(* OverflowError out of int().  The rounding of the decimal context is     *)
(* UsdcAmount's.                                                           *)
ParseUsdcAmount(amount) ==
  IF amount.kind = "int" THEN amount.value ELSE amount.value \div SubUnits

AmountError(amount) ==
  CASE amount.kind \in {"bool", "text"} -> "amount"
    [] amount.kind = "nan" -> "InvalidOperation"
    [] amount.kind \in {"human", "inf"} /\ amount.value <= 0 -> "amount"
    [] amount.kind = "inf" /\ amount.value > 0 -> "OverflowError"
    [] OTHER -> IF ParseUsdcAmount(amount) < MinUsdcUnits THEN "amount" ELSE Ok

PaymentMethodHash(platform) == IF platform \in PaymentMethods THEN Ok ELSE "platform"

SupportedCurrencies(platform) ==
  IF platform \in DOMAIN Registry THEN Registry[platform] \cap Feeds ELSE {}

(* A variant without the check, as before the pair was checked at all.     *)
PairUnchecked(platform, currency) == Ok

AssertSupportedPair(platform, currency) ==
  CASE platform \notin DOMAIN Registry -> Ok
    [] platform \in DOMAIN Registry /\ currency \in Registry[platform] -> Ok
    [] OTHER -> IF SupportedCurrencies(platform) = {} THEN "platform" ELSE "currency"

OracleFeedFor(currency) == IF currency \in Feeds THEN Ok ELSE "currency"

PayeeError(payee) == IF PayeeMissing(payee) THEN "payee" ELSE Ok

(* A variant that leaves the pair to the encoders (RefusedTouchesNothing). *)
PrepareErrorButPair(r) ==
  FirstError(<< RequireMode(r.mode), AmountError(r.amount), PaymentMethodHash(r.platform),
                OracleFeedFor(r.currency), PayeeError(r.payee) >>)

(* Offramp.prepare up to the curator POST. *)
PrepareError(r) ==
  FirstError(<< RequireMode(r.mode), AmountError(r.amount),
                PaymentMethodHash(r.platform),
                AssertSupportedPair(r.platform, r.currency),
                OracleFeedFor(r.currency), PayeeError(r.payee) >>)

(* Offramp.cashout asks for a signer before it prepares. *)
CashoutError(r) ==
  FirstError(<< IF r.signer THEN Ok ELSE "signer", PrepareError(r) >>)

-----------------------------------------------------------------------------
(* ABI encoding of a uint256, and the ERC-8021 suffix: the codes are       *)
(* encoded as ASCII before they are measured.                              *)
EncodeUint256(units) == IF units <= UintMax THEN Ok ELSE "overflow"

AppendAttribution ==
  CASE ~CodesAreAscii -> "UnicodeEncodeError"
    [] CodesAreAscii /\ CodesLength > CodesMax -> "codes"
    [] OTHER -> Ok

DigestError(digest) == IF digest \in {None, ZeroDigest} THEN "digest" ELSE Ok

(* A variant that refuses the smallest cash-out (EncodesWhatItPrepared).   *)
OpenIntentRange(lo, hi) == IF lo <= 0 \/ lo >= hi THEN "range" ELSE Ok

(* The default intent range is [MIN_USDC_UNITS, amount]. *)
IntentRangeError(lo, hi) == IF lo <= 0 \/ lo > hi THEN "range" ELSE Ok

(* encode_approve, then encode_create_deposit. *)
EncodeError(r, digest) ==
  LET units == ParseUsdcAmount(r.amount) IN
  FirstError(<< EncodeUint256(units), AppendAttribution,
                DigestError(digest),
                AssertSupportedPair(r.platform, r.currency),
                PaymentMethodHash(r.platform),
                IntentRangeError(MinUsdcUnits, units),
                OracleFeedFor(r.currency) >>)
=============================================================================

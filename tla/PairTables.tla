----------------------------- MODULE PairTables -----------------------------
(***************************************************************************)
(* The tables of constants.py that decide which cash-outs exist, and the   *)
(* table of pairs README.md publishes.                                     *)
(***************************************************************************)

(* keys of CHAINLINK_ORACLE_FEEDS *)
ChainlinkOracleFeeds ==
  {"USD", "AUD", "BRL", "CAD", "CHF", "EUR", "GBP", "IDR", "MXN", "NZD",
   "PHP", "SGD", "TRY", "ZAR"}

(* keys of PAYMENT_METHOD_HASHES *)
PaymentMethodHashes ==
  {"venmo", "revolut", "cashapp", "wise", "mercadopago", "zelle", "paypal",
   "monzo", "chime"}

UsdOnly == {"USD"}

RevolutCurrencies ==
  {"AED", "AUD", "CAD", "CHF", "CNY", "CZK", "DKK", "EUR", "GBP", "HKD",
   "HUF", "JPY", "MXN", "NOK", "NZD", "PLN", "RON", "SAR", "SEK", "SGD",
   "THB", "TRY", "USD", "ZAR"}

WiseCurrencies ==
  {"AED", "AUD", "CAD", "CHF", "CNY", "CZK", "DKK", "EUR", "GBP", "HKD",
   "HUF", "IDR", "ILS", "INR", "JPY", "KES", "MXN", "MYR", "NOK", "NZD",
   "PHP", "PLN", "RON", "SEK", "SGD", "THB", "TRY", "UGX", "USD", "VND",
   "ZAR"}

PaypalCurrencies == {"AUD", "CAD", "EUR", "GBP", "NZD", "SGD", "USD"}

PaymentMethodCurrencies ==
  [venmo |-> UsdOnly, revolut |-> RevolutCurrencies, cashapp |-> UsdOnly,
   wise |-> WiseCurrencies, mercadopago |-> {"ARS"}, zelle |-> UsdOnly,
   paypal |-> PaypalCurrencies, monzo |-> {"GBP"}, chime |-> UsdOnly]

PlatformsNeedingAttestation == {"wise", "paypal"}

-----------------------------------------------------------------------------
(* README.md, "Currencies": the pairs a cash-out accepts. *)
ReadmeTable ==
  [venmo |-> UsdOnly, cashapp |-> UsdOnly, chime |-> UsdOnly, zelle |-> UsdOnly,
   monzo |-> {"GBP"},
   paypal |-> {"AUD", "CAD", "EUR", "GBP", "NZD", "SGD", "USD"},
   revolut |-> {"AUD", "CAD", "CHF", "EUR", "GBP", "MXN", "NZD", "SGD", "TRY",
                "USD", "ZAR"},
   wise |-> {"AUD", "CAD", "CHF", "EUR", "GBP", "IDR", "MXN", "NZD", "PHP",
             "SGD", "TRY", "USD", "ZAR"},
   mercadopago |-> {}]
=============================================================================

------------------------------ MODULE MCCashout ------------------------------
(***************************************************************************)
(* Small hosts: the calls, requests and signers Cashout is checked with.   *)
(* One USDC is 10 base units, the widest uint256 is 50.                    *)
(***************************************************************************)
EXTENDS Cashout, TLC

MCFolded == "Alice" :> "alice"
MCRegistry == [venmo |-> {"USD"}, paypal |-> {"EUR", "USD"}, mercadopago |-> {"ARS"}]
\* The onchain registry has lost a row since the client's copy was made.
MCBehind   == [MCRegistry EXCEPT !.paypal = {"EUR"}]
MCMethods  == {"venmo", "paypal", "mercadopago"}
MCFeeds    == {"USD", "EUR", "BRL"}
MCAttested == {"paypal"}

CONSTANTS SuppliedHash, c1, c2
Symmetric == Permutations(Calls)

IntUnits(n) == [kind |-> "int", value |-> n]
Fast == [mode |-> "fast", amount |-> IntUnits(10), platform |-> "venmo", currency |-> "USD",
         payee |-> <<"@", "alice">>, supplied |-> None, signer |-> TRUE]
Best == [Fast EXCEPT !.mode = "best", !.platform = "paypal", !.currency = "EUR",
                     !.amount = [kind |-> "human", value |-> 205], !.payee = <<"Alice">>]
Known == [Fast EXCEPT !.platform = "paypal", !.supplied = SuppliedHash]

(* Requests prepare() refuses, and ones only the encoders refuse. *)
BadPair   == [Fast EXCEPT !.currency = "EUR"]
NoFeed    == [Fast EXCEPT !.platform = "mercadopago", !.currency = "ARS"]
TooLittle == [Best EXCEPT !.amount = IntUnits(9)]
NoPayee   == [Best EXCEPT !.payee = <<" ">>]
NoSigner  == [Fast EXCEPT !.signer = FALSE]
ZeroHash  == [Fast EXCEPT !.supplied = ZeroDigest]
TooWide   == [Fast EXCEPT !.amount = IntUnits(51)]

JustBest == {Best}
Good    == {Fast, Best}
Refused == {BadPair, NoFeed, TooLittle, NoPayee, NoSigner, ZeroHash, TooWide}
Mixed   == {Fast, Best, NoPayee, ZeroHash}
Varied  == {Fast, Best, Known} \cup Refused
=============================================================================

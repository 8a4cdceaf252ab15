--------------------------- MODULE MCClientChecks ---------------------------
(* Small inputs for ClientChecks, over the shipped tables. *)
EXTENDS ClientChecks, TLC

MCFolded == "Alice" :> "alice" @@ "PayPal.me" :> "paypal.me"
              @@ "HTTPS://" :> "https://" @@ "PayPalMe" :> "paypalme"

AllPlatforms == PaymentMethodHashes \cup {"", "peercash"}
Currencies   == ChainlinkOracleFeeds \cup RevolutCurrencies \cup WiseCurrencies
                  \cup {"ARS", "XXX"}

(* One USDC is 10 base units and a base unit is 10 parts here: the amounts *)
(* sit on both sides of the minimum, of zero and of the widest uint256.    *)
Amounts ==
  {[kind |-> k, value |-> 0] : k \in {"bool", "text", "nan"}}
    \cup {[kind |-> "int", value |-> v] : v \in {-1, 9, 10, 51}}
    \cup {[kind |-> "human", value |-> v] : v \in {0, 99, 100, 519}}
    \cup {[kind |-> "inf", value |-> v] : v \in {-1, 1}}

MCCoefficients == {-1, 9, 10}

MCInputs ==
  [mode |-> {"fast", "best", "absent"}, amount |-> Amounts,
   platform |-> AllPlatforms, currency |-> Currencies,
   payee |-> {<<>>, <<" ">>, <<"@", "alice">>}, supplied |-> {None}, signer |-> {TRUE}]

MCTokens == {" ", "@", "$", "/", "?", "#", "https://", "HTTPS://", "www.", "paypal.me",
             "PayPal.me", "paypal.com", "PayPalMe", "monzo.me", "example.com",
             "alice", "Alice", "25", "country.x", "pay"}

MCSpellings ==
  [blank    |-> {<<>>, <<" ">>},
   protocol |-> {<<>>, <<"https://">>, <<"HTTPS://">>},
   www      |-> {<<>>, <<"www.">>},
   host     |-> {<<>>, <<"paypal.me", "/">>, <<"PayPal.me", "/">>,
                 <<"paypal.com", "/", "PayPalMe", "/">>, <<"monzo.me", "/">>,
                 <<"example.com", "/">>},
   sigil    |-> {<<>>, <<"@">>, <<"@", "@">>, <<"@", " ">>, <<"$">>},
   name     |-> {<<>>, <<"alice">>, <<"Alice">>, <<"paypal.me">>},
   path     |-> {<<>>, <<"/", "25">>},
   tail     |-> {<<>>, <<"?", "country.x">>, <<"#", "pay">>}]

MCPlatforms ==
  [request |-> {"venmo"}, amount |-> {"venmo"}, reply |-> {"venmo", "paypal"},
   payee   |-> {"venmo", "cashapp", "zelle", "paypal", "chime", "monzo", "mercadopago"}]

(* Texts and values in a curator's answer. *)
Good    == [name |-> "good", prefixed |-> TRUE, hex |-> TRUE, digits |-> 64, newline |-> FALSE]
Another == [Good EXCEPT !.name = "another"]
Lined   == [Good EXCEPT !.name = "lined", !.newline = TRUE]
Pending == [Good EXCEPT !.name = "pending", !.prefixed = FALSE, !.hex = FALSE, !.digits = 7]
Short   == [Good EXCEPT !.name = "short", !.digits = 4]
AText(t)    == [kind |-> "text", text |-> t]
AList(s)    == [kind |-> "list", items |-> s]
AnObject(i) == [kind |-> "object", at |-> i]
Null        == Curator!Null

(* The answer itself, its responseObject, its data, and an object listed.  *)
MCMembers ==
  << [success          |-> {[kind |-> "true"], [kind |-> "false"]},
      hashedOnchainId  |-> {Null, AText(Pending), AText(Good)},
      payeeDetailsHash |-> {Null, AText(Another), AText(Short)},
      hashes           |-> {Null, AList(<<>>), AList(<<AText(Pending), AText(Good)>>),
                            AList(<<AnObject(4)>>)},
      responseObject   |-> {Null, AnObject(2)},
      data             |-> {Null, AnObject(3)}],
     [hashedOnchainId  |-> {Null, AText(Pending), AText(Good)},
      hashedOnchainIds |-> {Null, AList(<<AText(Another)>>)},
      data             |-> {Null, AnObject(3)}],
     [hash |-> {AText(Pending), AText(Another)}],
     [hash |-> {Null, AText(Another)}] >>

(* The same answers with a digest that a newline follows. *)
MCLined == [MCMembers EXCEPT ![1].payeeDetailsHash = @ \cup {AText(Lined)}]
MCBodies == {AnObject(1), Null, AText(Good), AText(Pending), AList(<<AText(Good)>>)}
=============================================================================

----------------------------- MODULE MCOracleRate -----------------------------
(***************************************************************************)
(* Estimates in USD, in a currency with a feed, in one with a feed that no *)
(* platform settles, and ones that are refused.                            *)
(***************************************************************************)
EXTENDS OracleRate

MCFolded   == [t \in {} |-> t]
MCRegistry == [venmo |-> {"USD"}, paypal |-> {"EUR", "USD"}]
MCMethods  == {"venmo", "paypal"}
MCFeeds    == {"USD", "EUR", "BRL"}
MCAnswers  == {0, 1}

Euro == [mode |-> "fast", amount |-> [kind |-> "int", value |-> 10], currency |-> "EUR"]
Asked == {Euro, [Euro EXCEPT !.currency = "BRL", !.mode = "best"],
          [Euro EXCEPT !.currency = "USD"],
          [Euro EXCEPT !.currency = "CNY"],
          [Euro EXCEPT !.mode = "absent"],
          [Euro EXCEPT !.amount = [kind |-> "int", value |-> 9]]}
=============================================================================

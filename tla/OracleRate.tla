------------------------------ MODULE OracleRate ------------------------------
(***************************************************************************)
(* Offramp.estimate: one price, read off a Chainlink feed that goes on     *)
(* publishing while the call is out, against a clock that goes on ticking. *)
(*                                                                         *)
(*   idle -> asked -> served -> quoted        (raised from each)           *)
(*                                                                         *)
(* "asked" is the eth_call on its way with as_of already read, "served"    *)
(* the node's answer on its way back.  Host and chain share one clock      *)
(* here.  The rate is kept as the answer it is computed from.              *)
(***************************************************************************)
EXTENDS CashoutRules

CONSTANTS
  Requests,        \* what the host may ask: [mode, amount, currency]
  Passthrough,     \* the currency whose feed is the zero address
  Answers,         \* what a round may answer
  MaxStaleness,    \* DEFAULT_ORACLE_MAX_STALENESS
  Horizon,         \* bound: the clock stops there
  MaxRounds        \* bound: rounds the feed publishes

ASSUME AnswersAssumption == Answers \subseteq Int
ASSUME TimesAssumption == MaxStaleness \in Nat /\ Horizon \in Nat \ {0} /\ MaxRounds \in Nat
ASSUME NoneIsNoTime == None \notin Nat

VARIABLES
  now,         \* Unix seconds
  rounds,      \* rounds of the feed asked for: [answer, at]; at = 0 when unfinished
  pc, request, error,
  asOf,        \* as_of
  served,      \* the round the node answered with
  quote,       \* the Estimate
  before       \* for the properties: rounds published when as_of was read

feedVars == <<now, rounds>>
callVars == <<pc, request, error, asOf, served, quote, before>>
vars     == <<feedVars, callVars>>

Init ==
  /\ now = 1 /\ rounds = <<>>
  /\ pc = "idle" /\ request = None /\ error = None
  /\ asOf = 0 /\ served = 0 /\ quote = None /\ before = 0

-----------------------------------------------------------------------------
(* The clock and the feed (external). *)
Tick ==
  /\ now < Horizon
  /\ now' = now + 1
  /\ UNCHANGED <<rounds, callVars>>

Publish ==
  /\ Len(rounds) < MaxRounds
  /\ \E a \in Answers, at \in {0, now} :
       rounds' = Append(rounds, [answer |-> a, at |-> at])
  /\ UNCHANGED <<now, callVars>>

-----------------------------------------------------------------------------
EstimateError(r) ==
  FirstError(<< RequireMode(r.mode), AmountError(r.amount), OracleFeedFor(r.currency) >>)

Raise(e) == pc' = "raised" /\ error' = e

(* estimate() up to the eth_call: refuse, price USD at one, or ask. *)
Refuse(r) ==
  /\ pc = "idle"
  /\ EstimateError(r) # Ok
  /\ request' = r
  /\ Raise(EstimateError(r))
  /\ UNCHANGED <<feedVars, asOf, served, quote, before>>

PassThrough(r) ==
  /\ pc = "idle"
  /\ EstimateError(r) = Ok
  /\ r.currency = Passthrough
  /\ request' = r
  /\ pc' = "quoted"
  /\ asOf' = now
  /\ quote' = [source |-> "one", round |-> 0, updatedAt |-> None, stale |-> FALSE]
  /\ UNCHANGED <<feedVars, error, served, before>>

Ask(r) ==
  /\ pc = "idle"
  /\ EstimateError(r) = Ok
  /\ r.currency # Passthrough
  /\ request' = r
  /\ pc' = "asked"
  /\ asOf' = now
  /\ before' = Len(rounds)
  /\ UNCHANGED <<feedVars, error, served, quote>>

(* The node runs latestRoundData() at the chain's latest block: one that   *)
(* lags is assumed away.                                                   *)
Serve ==
  /\ pc = "asked"
  /\ rounds # <<>>
  /\ pc' = "served"
  /\ served' = Len(rounds)
  /\ UNCHANGED <<feedVars, request, error, asOf, quote, before>>

(* A variant that quotes 1:1 without an answer (QuoteIsOfTheFeed).         *)
FallsBackToOne ==
  /\ pc \in {"asked", "served"}
  /\ pc' = "quoted"
  /\ quote' = [source |-> "one", round |-> 0, updatedAt |-> None, stale |-> FALSE]
  /\ UNCHANGED <<feedVars, request, error, asOf, served, before>>

(* Transport, status, JSON-RPC error, no result, no hex, no round. *)
RpcFails ==
  /\ pc \in {"asked", "served"}
  /\ Raise("ORACLE")
  /\ UNCHANGED <<feedVars, request, asOf, served, quote, before>>

UpdatedAt(round) == IF round.at > 0 THEN round.at ELSE None

(* A variant that looks at the clock again (StaleIsTrue).                  *)
StaleByNow(updatedAt) == updatedAt # None /\ now - updatedAt > MaxStaleness

Stale(updatedAt) == updatedAt # None /\ asOf - updatedAt > MaxStaleness

Answer ==
  /\ pc = "served"
  /\ LET round == rounds[served] IN
       \/ /\ round.answer <= 0
          /\ Raise("ORACLE")
          /\ UNCHANGED quote
       \/ /\ round.answer > 0
          /\ pc' = "quoted"
          /\ quote' = [source |-> "feed", round |-> served,
                       updatedAt |-> UpdatedAt(round), stale |-> Stale(UpdatedAt(round))]
          /\ UNCHANGED error
  /\ UNCHANGED <<feedVars, request, asOf, served, before>>

Estimate == \/ \E r \in Requests : Refuse(r) \/ PassThrough(r) \/ Ask(r)
            \/ Serve \/ RpcFails \/ Answer

Next == Tick \/ Publish \/ Estimate
Spec == Init /\ [][Next]_vars

-----------------------------------------------------------------------------
(* A quote outside USD is a positive answer the feed published, and no     *)
(* older a round than the feed showed when the estimate was asked for:     *)
(* no failure is papered over with a rate of one (README.md:127).          *)
QuoteIsOfTheFeed ==
  (pc = "quoted" /\ request.currency # Passthrough)
    => /\ quote.source = "feed"
       /\ quote.round \in 1..Len(rounds) /\ quote.round >= before
       /\ rounds[quote.round].answer > 0

(* A quote marked stale is: at as_of the feed had published nothing for    *)
(* more than MaxStaleness, whatever it published while the call was out.   *)
StaleIsTrue ==
  (pc = "quoted" /\ quote.stale)
    => \A i \in 1..before : asOf - rounds[i].at > MaxStaleness
=============================================================================

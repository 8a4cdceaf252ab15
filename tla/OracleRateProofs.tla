--------------------------- MODULE OracleRateProofs ---------------------------
(***************************************************************************)
(* What a quote says of its feed, for every feed, clock, bound on age and  *)
(* length of the call.  The argument: the node answers with a round no     *)
(* older than the ones published when as_of was read, and finished rounds  *)
(* are stamped in the order they are published, so an answer too old at    *)
(* as_of leaves nothing younger among the rounds of that moment.           *)
(***************************************************************************)
EXTENDS OracleRate, TLAPS

Round == [answer : Answers, at : Nat]

Types ==
  /\ now \in Nat \ {0}
  /\ rounds \in Seq(Round)
  /\ asOf \in Nat /\ served \in Nat /\ before \in Nat

(* Finished rounds are stamped in order. *)
Stamped ==
  \A i, j \in 1..Len(rounds) :
    (i <= j /\ rounds[j].at > 0) => rounds[i].at <= rounds[j].at

StampsPast == \A i \in 1..Len(rounds) : rounds[i].at <= now

(* The answer on its way back is of a round published since as_of. *)
Served ==
  /\ before <= Len(rounds)
  /\ pc = "served" => served \in 1..Len(rounds) /\ before <= served

IInv == Types /\ Stamped /\ StampsPast /\ Served /\ QuoteIsOfTheFeed /\ StaleIsTrue

(* Publishing keeps every round there was. *)
LEMMA AppendKeeps ==
  ASSUME NEW r \in Round, rounds \in Seq(Round), rounds' = Append(rounds, r)
  PROVE  /\ rounds' \in Seq(Round) /\ Len(rounds') = Len(rounds) + 1
         /\ \A i \in 1..Len(rounds) : rounds'[i] = rounds[i]
         /\ rounds'[Len(rounds) + 1] = r
OBVIOUS

(* A fresh estimate has published nothing and quoted nothing. *)
LEMMA InitHolds == Init => IInv
BY DEF Init, IInv, Types, Stamped, StampsPast, Served, QuoteIsOfTheFeed, StaleIsTrue

(* Every round carries a stamp. *)
LEMMA StampIsATime == Types => \A i \in 1..Len(rounds) : rounds[i].at \in Nat
<1>1. Types => \A i \in 1..Len(rounds) : rounds[i] \in Round
  BY DEF Types
<1>2. \A r \in Round : r.at \in Nat
  BY DEF Round
<1> QED BY <1>1, <1>2

LEMMA TickKeeps == IInv /\ Tick => IInv'
<1> SUFFICES ASSUME IInv, Tick PROVE IInv'
  OBVIOUS
<1>1. now' = now + 1 /\ UNCHANGED <<rounds, callVars>>
  BY DEF Tick
<1>2. Types' /\ Stamped' /\ Served'
  BY <1>1 DEF IInv, Types, Stamped, Served, callVars
<1>3. StampsPast'
  <2>1. \A i \in 1..Len(rounds) : rounds[i].at \in Nat
    BY StampIsATime DEF IInv
  <2> QED BY <1>1, <2>1 DEF IInv, Types, StampsPast
<1>4. QuoteIsOfTheFeed' /\ StaleIsTrue'
  BY <1>1 DEF IInv, QuoteIsOfTheFeed, StaleIsTrue, callVars
<1> QED BY <1>2, <1>3, <1>4 DEF IInv

LEMMA PublishKeeps == IInv /\ Publish => IInv'
<1> SUFFICES ASSUME IInv, Publish PROVE IInv'
  OBVIOUS
<1>1. PICK a \in Answers, at \in {0, now} :
        rounds' = Append(rounds, [answer |-> a, at |-> at])
  BY DEF Publish
<1> DEFINE r == [answer |-> a, at |-> at]
<1>2. r \in Round /\ at \in Nat /\ at <= now
  BY DEF IInv, Types, Round
<1>3. /\ rounds' \in Seq(Round) /\ Len(rounds') = Len(rounds) + 1
      /\ \A i \in 1..Len(rounds) : rounds'[i] = rounds[i]
      /\ rounds'[Len(rounds) + 1] = r
  <2>1. rounds \in Seq(Round)
    BY DEF IInv, Types
  <2> QED BY <1>1, <1>2, <2>1, AppendKeeps
<1>4. UNCHANGED <<now, callVars>>
  BY DEF Publish
<1> HIDE DEF r
<1>5. r.at = at
  BY DEF r
<1>6. Len(rounds) \in Nat /\ (\A i \in 1..Len(rounds) : rounds[i] \in Round)
  BY DEF IInv, Types
<1>7. \A i \in 1..Len(rounds') : i \in 1..Len(rounds) \/ i = Len(rounds) + 1
  BY <1>3, <1>6
<1>8. Types'
  BY <1>3, <1>4 DEF IInv, Types, callVars
<1>9. StampsPast'
  BY <1>2, <1>3, <1>4, <1>5, <1>7 DEF IInv, StampsPast
<1>10. Stamped'
  <2> SUFFICES ASSUME NEW i \in 1..Len(rounds'), NEW j \in 1..Len(rounds'),
                      i <= j, rounds'[j].at > 0
               PROVE  rounds'[i].at <= rounds'[j].at
    BY DEF Stamped
  <2>1. CASE j \in 1..Len(rounds)
    <3>1. i \in 1..Len(rounds)
      BY <1>6, <2>1
    <3> QED BY <1>3, <2>1, <3>1 DEF IInv, Stamped
  <2>2. CASE j = Len(rounds) + 1
    <3>1. rounds'[j].at = at /\ at = now
      BY <1>1, <1>2, <1>3, <1>5, <2>2
    <3>2. rounds'[i].at <= now
      BY <1>4, <1>9 DEF StampsPast
    <3> QED BY <3>1, <3>2
  <2> QED BY <1>7, <2>1, <2>2
<1>11. Served'
  BY <1>3, <1>4, <1>6 DEF IInv, Types, Served, callVars
<1>12. QuoteIsOfTheFeed'
  BY <1>3, <1>4, <1>6 DEF IInv, QuoteIsOfTheFeed, callVars
<1>13. StaleIsTrue'
  <2>1. \A i \in 1..before : i \in 1..Len(rounds)
    BY <1>6 DEF IInv, Types, Served
  <2> QED BY <1>3, <1>4, <2>1 DEF IInv, StaleIsTrue, callVars
<1> QED BY <1>8, <1>9, <1>10, <1>11, <1>12, <1>13 DEF IInv

(* An answer: the one step that quotes a feed. *)
LEMMA AnswerKeeps == IInv /\ Answer => IInv'
<1> SUFFICES ASSUME IInv, Answer PROVE IInv'
  OBVIOUS
<1> DEFINE round == rounds[served]
<1>1. /\ pc = "served" /\ served \in 1..Len(rounds) /\ before <= served
      /\ round \in Round
      /\ UNCHANGED <<now, rounds, request, asOf, served, before>>
  BY DEF IInv, Types, Served, Answer, feedVars
<1>2. Types' /\ Stamped' /\ StampsPast'
  BY <1>1 DEF IInv, Types, Stamped, StampsPast
<1>3. CASE pc' = "raised"
  BY <1>1, <1>2, <1>3 DEF IInv, Served, QuoteIsOfTheFeed, StaleIsTrue
<1>4. CASE pc' # "raised"
  <2>1. /\ round.answer > 0 /\ pc' = "quoted"
        /\ quote' = [source |-> "feed", round |-> served,
                     updatedAt |-> UpdatedAt(round), stale |-> Stale(UpdatedAt(round))]
    BY <1>4 DEF Answer, Raise
  <2>2. QuoteIsOfTheFeed'
    BY <1>1, <2>1 DEF QuoteIsOfTheFeed, IInv, Types
  <2>3. StaleIsTrue'
    <3> SUFFICES ASSUME quote'.stale, NEW i \in 1..before
                 PROVE  asOf - rounds[i].at > MaxStaleness
      BY <1>1 DEF StaleIsTrue
    <3>1. Stale(UpdatedAt(round))
      BY <2>1
    <3>2. round.at > 0 /\ asOf - round.at > MaxStaleness
      BY <1>1, <3>1 DEF Stale, UpdatedAt, Round
    <3>3. i \in 1..Len(rounds) /\ i <= served
      BY <1>1 DEF IInv, Types
    <3>4. rounds[i].at <= round.at
      BY <1>1, <3>2, <3>3 DEF IInv, Stamped
    <3>5. rounds[i].at \in Nat /\ round.at \in Nat /\ asOf \in Nat
      BY <1>1, <3>3, StampIsATime DEF IInv, Types
    <3> QED BY <3>2, <3>4, <3>5, TimesAssumption
  <2> QED BY <1>1, <1>2, <2>1, <2>2, <2>3 DEF IInv, Served
<1> QED BY <1>3, <1>4

LEMMA EstimateKeeps == IInv /\ Estimate => IInv'
<1> SUFFICES ASSUME IInv, Estimate PROVE IInv'
  OBVIOUS
<1> USE DEF feedVars
<1>1. ASSUME NEW r \in Requests, Refuse(r) PROVE IInv'
  BY <1>1 DEF Refuse, Raise, IInv, Types, Stamped, StampsPast, Served,
              QuoteIsOfTheFeed, StaleIsTrue
<1>2. ASSUME NEW r \in Requests, PassThrough(r) PROVE IInv'
  BY <1>2 DEF PassThrough, IInv, Types, Stamped, StampsPast, Served,
              QuoteIsOfTheFeed, StaleIsTrue
<1>3. ASSUME NEW r \in Requests, Ask(r) PROVE IInv'
  BY <1>3 DEF Ask, IInv, Types, Stamped, StampsPast, Served,
              QuoteIsOfTheFeed, StaleIsTrue
<1>4. CASE Serve
  <2>1. Len(rounds) \in 1..Len(rounds)
    BY <1>4 DEF Serve, IInv, Types
  <2> QED BY <1>4, <2>1 DEF Serve, IInv, Types, Stamped, StampsPast, Served,
                            QuoteIsOfTheFeed, StaleIsTrue
<1>5. CASE RpcFails
  BY <1>5 DEF RpcFails, Raise, IInv, Types, Stamped, StampsPast, Served,
              QuoteIsOfTheFeed, StaleIsTrue
<1>6. CASE Answer
  BY <1>6, AnswerKeeps
<1> QED BY <1>1, <1>2, <1>3, <1>4, <1>5, <1>6 DEF Estimate

LEMMA StutterKeeps == IInv /\ UNCHANGED vars => IInv'
BY DEF vars, feedVars, callVars, IInv, Types, Stamped, StampsPast, Served,
       QuoteIsOfTheFeed, StaleIsTrue

LEMMA AlwaysInv == Spec => []IInv
<1>1. IInv /\ [Next]_vars => IInv'
  BY TickKeeps, PublishKeeps, EstimateKeeps, StutterKeeps DEF Next
<1> QED BY InitHolds, <1>1, PTL DEF Spec

(* A quote outside USD is a positive answer of the feed, of a round no     *)
(* older than the feed's latest when the estimate was asked for, whatever  *)
(* the feed and the RPC do (Oracle.rate, Oracle._latest_round_data).       *)
THEOREM QuotesComeFromTheFeed == Spec => []QuoteIsOfTheFeed
<1>1. IInv => QuoteIsOfTheFeed
  BY DEF IInv
<1> QED BY <1>1, AlwaysInv, PTL

(* An estimate marked stale is of a feed that was silent for more than     *)
(* max_staleness at as_of, however long the call took (Oracle.rate).       *)
THEOREM StaleMeansSilent == Spec => []StaleIsTrue
<1>1. IInv => StaleIsTrue
  BY DEF IInv
<1> QED BY <1>1, AlwaysInv, PTL
=============================================================================

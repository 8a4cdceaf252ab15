------------------------------- MODULE Indexer -------------------------------
(***************************************************************************)
(* indexer.py: the two queries of the public GraphQL indexer and what the  *)
(* client makes of an answer.  The indexer serves every escrow it tracks.  *)
(*                                                                         *)
(* An index is the sequence of deposits in the order they were made, each  *)
(* a row [escrow, depositId, depositor, open], where open stands for       *)
(* status and remainingDeposits.  An address is [account, spelled].  A key *)
(* is what a host passes as deposit_id: [kind, escrow, id], "numeric" for  *)
(* the onchain id and "composite" for the indexer's own                    *)
(* "<escrow>_<depositId>".                                                 *)
(***************************************************************************)
EXTENDS Integers, Sequences, FiniteSets

CONSTANTS
  None,
  EscrowV2,      \* ESCROW_V2
  PageSize       \* limit of DEPOSITS_QUERY

ASSUME PageAssumption == PageSize \in Nat \ {0}

(* A variant that compares spellings (ListingNamesMyDeposits).             *)
SameSpelling(a, b) == a = b

(* _ilike: the index keeps lower case, hosts pass checksummed addresses. *)
SameAddress(a, b) == a.account = b.account

(* A variant without the escrow filter (WithdrawClosesWhatWasShown).       *)
AnyEscrowMatches(index, owner) ==
  {i \in 1..Len(index) : SameAddress(index[i].depositor, owner)}

Matches(index, owner) ==
  {i \in 1..Len(index) : /\ index[i].escrow = EscrowV2
                         /\ SameAddress(index[i].depositor, owner)}

(* order_by timestamp desc, limit *)
Newest(places) ==
  {i \in places : Cardinality({j \in places : j > i}) < PageSize}

(* deposits(owner).  The order of the rows is left out. *)
DepositsQuery(index, owner) == {index[i] : i \in Newest(Matches(index, owner))}

(* A variant without the escrow filter (WatchFindsWhatIsIndexed).          *)
AnyEscrowNames(key, row) == key.kind = "numeric" /\ row.depositId = key.id

(* $depositId is numeric!: a composite key names no row. *)
Names(key, row) ==
  /\ key.kind = "numeric"
  /\ row.escrow = EscrowV2
  /\ row.depositId = key.id

(* deposit(deposit_id) *)
DepositQuery(index, key) ==
  LET rows == {index[i] : i \in {j \in 1..Len(index) : Names(key, index[j])}}
  IN  IF rows = {} THEN None ELSE CHOOSE row \in rows : TRUE

(* What goes wrong between the request and the rows, and the exception it  *)
(* comes out as: a JSON body that is not an object has no .get().          *)
BadAnswers == {"transport", "status", "notJson", "notAnObject", "errors", "noData", "noRows"}
AnswerError(answer) == IF answer = "notAnObject" THEN "AttributeError" ELSE "INDEXER"
=============================================================================

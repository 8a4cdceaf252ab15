------------------------------- MODULE Toolkit -------------------------------
(***************************************************************************)
(* examples/agno/usdctofiat_tools.py: the tools an agent calls, one JSON   *)
(* reply each, over the deposits of DepositLifecycle.                      *)
(*                                                                         *)
(* A kit is what the constructor was given: [enable, all, signer], where   *)
(* enable is the set of enable_* flags that are on.  outcome stands for    *)
(* the reply: "unsigned" is {"signed": false} or a bare unsigned           *)
(* transaction, "result" a signed result, "error" {error, code}, whatever  *)
(* was raised.  estimate() moves nothing (see OracleRate).                 *)
(***************************************************************************)
EXTENDS DepositLifecycle

CONSTANT Configs   \* the kits a host may build

Flags == {"cashout", "watch", "withdraw", "deposits", "estimate"}

ASSUME ConfigsAssumption ==
  Configs \subseteq [enable : SUBSET Flags, all : BOOLEAN, signer : BOOLEAN]

VARIABLE kit
vars == <<kit, lifeVars>>

Init == kit \in Configs /\ LifecycleInit

(* close is registered with withdraw, whose alias it is. *)
Registered ==
  LET on == IF kit.all THEN Flags ELSE kit.enable
  IN  on \cup IF "withdraw" \in on THEN {"close"} ELSE {}

(* How an agent has the owner's address, and the two ways it may name a    *)
(* deposit it was shown.                                                   *)
Owner == [account |-> Maker, spelled |-> "checksum"]
KeysOf(place) == {Numeric(place), Composite(place)}

CashoutTool ==
  /\ "cashout" \in Registered
  /\ \/ CashoutFails
     \/ ~kit.signer /\ Prepare
     \/ kit.signer /\ Cashout
  /\ UNCHANGED kit

WithdrawTool ==
  /\ Registered \cap {"withdraw", "close"} # {}
  /\ \E place \in known : \E key \in KeysOf(place) :
       \/ WithdrawRefused(key, place)
       \/ ~kit.signer /\ PrepareWithdraw(key, place)
       \/ kit.signer /\ Withdraw(key, place)
  /\ UNCHANGED kit

DepositsTool ==
  /\ "deposits" \in Registered
  /\ AskDeposits(Owner)
  /\ UNCHANGED kit

WatchTool ==
  /\ "watch" \in Registered
  /\ \E place \in known : \E key \in KeysOf(place) : AskWatch(key, place)
  /\ UNCHANGED kit

Indexing == (AnswerDeposits \/ AnswerWatch \/ IndexerFails) /\ UNCHANGED kit
Signing  ==
  /\ \/ SignerBroadcasts
     \/ \E style \in SignerStyles : SignerReturns(style)
     \/ SignerRaises
     \/ HostSigns
  /\ UNCHANGED kit
Chain == Base /\ UNCHANGED kit

Next == \/ CashoutTool \/ WithdrawTool \/ DepositsTool \/ WatchTool
        \/ Indexing \/ Signing \/ Chain

Spec == Init /\ [][Next]_vars

-----------------------------------------------------------------------------
(* Properties *)

Rows   == [escrow : {EscrowV2, OldEscrow}, depositId : 1..MaxDeposits,
           depositor : {Address(Maker), Address(Taker)}, open : BOOLEAN]
Places == {EscrowV2} \X (1..MaxDeposits)
Turns  == 1..MaxTurns

(* "No such deposit" and "no id" are told from a deposit and from an id.   *)
ASSUME NoneAssumption == None \notin Rows \cup Nat

(* The types of the variables: above all, every place a host is shown is   *)
(* one of EscrowV2, the only escrow withdraw() targets.                    *)
TypeOK ==
  /\ kit \in Configs
  /\ Len(blocks) \in 1..(MaxLag + 1)
  /\ \A b \in 1..Len(blocks) : \A i \in 1..Len(blocks[b]) : blocks[b][i] \in Rows
  /\ \A n \in 1..Len(wallet) : wallet[n].turn \in Turns
  /\ \A n \in 1..Len(receipts) : receipts[n] \in (1..MaxDeposits) \cup {None}
  /\ closings \subseteq [closed : Places, meant : Places]
  /\ phase \in {"idle", "asked", "sign", "wait"}
  /\ turn \in 0..MaxTurns
  /\ known \subseteq Places

(* deposits() rows compose with withdraw() (test_create_offramp.py:87): a  *)
(* withdraw made from a row closes the deposit of that row, whatever else  *)
(* this maker and others have in other escrows under the same id.          *)
WithdrawClosesWhatWasShown == \A c \in closings : c.closed = c.meant

AnswersRead(op) == phase = "asked" /\ call.op = op /\ phase' = "idle"
IndexedAt(place) == \E i \in 1..Len(Indexed) : Place(Indexed[i]) = place

(* watch(id) of a known deposit never answers with another one, and says   *)
(* "not found" only while the indexer lags behind the deposit's block.     *)
WatchFindsWhatIsIndexed ==
  [][ AnswersRead("watch") /\ call.key.kind = "numeric"
        => /\ outcome' = NotFound => ~IndexedAt(call.place)
           /\ outcome'.kind = "snapshot" => Place(outcome'.row) = call.place ]_vars

(* A deposit whose cash-out raised after the broadcast is not lost: once   *)
(* indexed it is in deposits(owner) like every other one this wallet made  *)
(* here, as long as all of them fit the one page the query asks for.       *)
ListingNamesMyDeposits ==
  [][ AnswersRead("deposits") /\ outcome'.kind = "rows"
        => \A n \in 1..Len(receipts) :
             ( /\ receipts[n] # None
               /\ IndexedAt(<<EscrowV2, receipts[n]>>)
               /\ Cardinality({i \in 1..Len(Indexed) :
                                 /\ Indexed[i].escrow = EscrowV2
                                 /\ Indexed[i].depositor.account = Maker}) <= PageSize )
             => \E row \in outcome'.rows : Place(row) = <<EscrowV2, receipts[n]>> ]_vars

(* "Returns a signed result when a signer is injected, otherwise the       *)
(* unsigned withdraw tx" (usdctofiat_tools.py:194), and the same of        *)
(* cashout: a signed reply has its transaction in the wallet, an unsigned  *)
(* one has not, so a host that signs what it is given never makes two      *)
(* deposits, or closes twice, out of one call.                             *)
RepliesTellWhatWasSigned ==
  /\ \A m, n \in 1..Len(wallet) : wallet[m].turn = wallet[n].turn => m = n
  /\ outcome.kind = "result" => \E n \in 1..Len(wallet) : wallet[n].turn = outcome.turn
  /\ outcome.kind = "unsigned" => \A n \in 1..Len(wallet) : wallet[n].turn # outcome.tx.turn

(* "deposit_id: Fast composite resume key or Best numeric EscrowV2 id"     *)
(* (usdctofiat_tools.py:180): with signers that return a hash all that a   *)
(* host knows was listed, and watch() finds it by its composite key.       *)
ResumeKeyIsWatched ==
  phase = "idle" /\ call.op = "watch" /\ call.key.kind = "composite"
    => outcome # NotFound
=============================================================================

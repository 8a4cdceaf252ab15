---------------------------- MODULE ToolkitProofs ----------------------------
(***************************************************************************)
(* A withdraw closes what its host was shown, and a reply tells what was   *)
(* signed, for every set of kits, every lag of the indexer, every number   *)
(* of deposits and calls.  The argument: deposits() and the receipts of    *)
(* this wallet show places of EscrowV2 only, so the number a host passes   *)
(* to withdraw() names the same deposit to the escrow as it does to the    *)
(* host; and a call's number reaches the wallet once, either while the     *)
(* call is on or when the host signs the unsigned reply, which it uses up. *)
(***************************************************************************)
EXTENDS Toolkit, FiniteSetTheorems, SequenceTheorems, TLAPS

Ids == (1..MaxDeposits) \cup {None}

(* Transactions this client makes, each with the deposit it is meant for.  *)
Txs == {tx \in [kind : {"createDeposit"}, turn : Turns]
               \cup [kind : {"withdraw"}, turn : Turns,
                     id : 1..MaxDeposits, meant : Places] :
          tx.kind = "withdraw" => tx.meant = <<EscrowV2, tx.id>>}

ChainInv == blocks \in Seq(Seq(Rows)) /\ Len(blocks) \in 1..(MaxLag + 1)

MinedInv ==
  /\ wallet \in Seq(Txs)
  /\ receipts \in Seq(Ids) /\ Len(receipts) <= Len(wallet)
  /\ closings \subseteq [closed : Places, meant : Places]
  /\ WithdrawClosesWhatWasShown

HostInv ==
  /\ kit \in Configs
  /\ phase \in {"idle", "asked", "sign", "wait"}
  /\ turn \in 0..MaxTurns
  /\ known \subseteq Places

(* A call that may sign has a number of its own, and a transaction that    *)
(* means what the host was shown.                                          *)
CallInv ==
  /\ phase \in {"sign", "wait"} =>
       /\ turn \in Turns /\ outcome = Nothing
       /\ call.op \in {"cashout", "withdraw"}
       /\ TxOf(call, turn) \in Txs /\ TxOf(call, turn).turn = turn
  /\ outcome.kind = "unsigned" => outcome.tx \in Txs /\ outcome.tx.turn <= turn

(* A number is in the wallet once the call has broadcast, or the host has. *)
TurnInv ==
  /\ \A n \in 1..Len(wallet) : wallet[n].turn <= turn
  /\ phase = "sign" => \A n \in 1..Len(wallet) : wallet[n].turn # turn
  /\ phase = "wait" => \E n \in 1..Len(wallet) : wallet[n].turn = turn
  /\ RepliesTellWhatWasSigned

IInv == ChainInv /\ MinedInv /\ HostInv /\ CallInv /\ TurnInv

-----------------------------------------------------------------------------
(* The chain *)

LEMMA TxFacts ==
  \A tx \in Txs : /\ tx.turn \in Turns
                  /\ tx.kind = "withdraw" => /\ tx.id \in 1..MaxDeposits
                                             /\ tx.meant = <<EscrowV2, tx.id>>
BY DEF Txs

LEMMA CreateTxInTxs ==
  ASSUME NEW t \in Turns
  PROVE  CreateTx(t) \in Txs /\ CreateTx(t).turn = t
BY DEF CreateTx, Txs

LEMMA WithdrawTxInTxs ==
  ASSUME NEW t \in Turns, NEW place \in Places, NEW key, key.id = place[2]
  PROVE  WithdrawTx(key, place, t) \in Txs /\ WithdrawTx(key, place, t).turn = t
<1>1. place[2] \in 1..MaxDeposits /\ place = <<EscrowV2, place[2]>>
  BY DEF Places
<1> QED BY <1>1 DEF WithdrawTx, Txs

(* An escrow numbers its deposits within the bound on all of them. *)
LEMMA NextIdBound ==
  ASSUME ChainInv, NEW escrow, Len(Deposits) < MaxDeposits
  PROVE  NextId(escrow) \in 1..MaxDeposits
<1> DEFINE own == {i \in 1..Len(Deposits) : Deposits[i].escrow = escrow}
<1>1. Len(Deposits) \in Nat
  BY DEF ChainInv, Deposits
<1>2. IsFiniteSet(1..Len(Deposits)) /\ Cardinality(1..Len(Deposits)) = Len(Deposits)
  <2>1. IsFiniteSet(1..Len(Deposits)) /\
        Cardinality(1..Len(Deposits)) = IF 1 > Len(Deposits) THEN 0 ELSE Len(Deposits) - 1 + 1
    BY <1>1, FS_Interval
  <2> QED BY <1>1, <2>1
<1>3. IsFiniteSet(own) /\ Cardinality(own) <= Len(Deposits)
  BY <1>2, FS_Subset
<1>4. Cardinality(own) \in Nat
  BY <1>3, FS_CardinalityType
<1> QED BY <1>1, <1>3, <1>4, BoundsAssumption DEF NextId

LEMMA BlockKeeps ==
  ASSUME ChainInv, NEW chain \in Seq(Rows), Block(chain)
  PROVE  ChainInv'
BY BoundsAssumption DEF ChainInv, Block

LEMMA MakeKeeps ==
  ASSUME ChainInv, NEW escrow \in {EscrowV2, OldEscrow},
         NEW account \in {Maker, Taker}, Make(escrow, account)
  PROVE  ChainInv' /\ NextId(escrow) \in 1..MaxDeposits
<1> DEFINE row == [escrow |-> escrow, depositId |-> NextId(escrow),
                   depositor |-> Address(account), open |-> TRUE]
<1>1. NextId(escrow) \in 1..MaxDeposits
  BY NextIdBound DEF Make
<1>2. row \in Rows
  BY <1>1 DEF Rows
<1>3. Deposits \in Seq(Rows)
  BY DEF ChainInv, Deposits
<1>4. Append(Deposits, row) \in Seq(Rows)
  BY <1>2, <1>3
<1>5. Block(Append(Deposits, row))
  BY DEF Make
<1> QED BY <1>1, <1>4, <1>5, BlockKeeps

LEMMA CloseKeeps ==
  ASSUME ChainInv, NEW i \in 1..Len(Deposits), Close(i)
  PROVE  ChainInv' /\ Deposits[i] \in Rows
<1>1. Deposits \in Seq(Rows)
  BY DEF ChainInv, Deposits
<1>2. Deposits[i] \in Rows
  BY <1>1
<1>3. [Deposits[i] EXCEPT !.open = FALSE] \in Rows
  BY <1>2 DEF Rows
<1>4. [Deposits EXCEPT ![i].open = FALSE] \in Seq(Rows)
  BY <1>1, <1>3
<1> QED BY <1>2, <1>4, BlockKeeps DEF Close

(* What the properties of the host's side read. *)
seen == <<kit, wallet, hostVars>>

(* A step of the chain that the host does not see. *)
LEMMA UnseenKeeps ==
  ASSUME IInv, UNCHANGED seen
  PROVE  HostInv' /\ CallInv' /\ TurnInv'
BY DEF IInv, HostInv, CallInv, TurnInv, RepliesTellWhatWasSigned, seen, hostVars,
       TxOf, CreateTx, WithdrawTx, Nothing

LEMMA BaseKeeps == IInv /\ Chain => IInv'
<1> SUFFICES ASSUME IInv, Chain PROVE IInv'
  OBVIOUS
<1>a. ChainInv /\ MinedInv
  BY DEF IInv
<1>0. UNCHANGED seen
  BY DEF Chain, Base, OtherDeposit, Drain, MineCreateDeposit, MineWithdraw,
         MineRevert, IndexerAdvances, seen
<1>1. CASE OtherDeposit
  <2>1. ChainInv'
    BY <1>a, <1>1, MakeKeeps DEF OtherDeposit
  <2>2. MinedInv'
    BY <1>a, <1>1 DEF OtherDeposit, MinedInv, WithdrawClosesWhatWasShown
  <2> QED BY <1>0, <2>1, <2>2, UnseenKeeps DEF IInv
<1>2. CASE Drain
  <2>1. ChainInv'
    BY <1>a, <1>2, CloseKeeps DEF Drain
  <2>2. MinedInv'
    BY <1>a, <1>2 DEF Drain, MinedInv, WithdrawClosesWhatWasShown
  <2> QED BY <1>0, <2>1, <2>2, UnseenKeeps DEF IInv
<1>3. CASE MineCreateDeposit
  <2>1. ChainInv' /\ NextId(EscrowV2) \in 1..MaxDeposits
    BY <1>a, <1>3, MakeKeeps DEF MineCreateDeposit
  <2>2. receipts' \in Seq(Ids) /\ Len(receipts') <= Len(wallet)
    BY <1>a, <1>3, <2>1 DEF MineCreateDeposit, Unmined, MinedInv, Ids
  <2>3. MinedInv'
    BY <1>a, <1>3, <2>2 DEF MineCreateDeposit, MinedInv, WithdrawClosesWhatWasShown
  <2> QED BY <1>0, <2>1, <2>3, UnseenKeeps DEF IInv
<1>4. CASE MineWithdraw
  <2>1. PICK i \in 1..Len(Deposits) :
          /\ Place(Deposits[i]) = <<EscrowV2, NextTx.id>>
          /\ Close(i)
          /\ closings' = closings \cup {[closed |-> Place(Deposits[i]), meant |-> NextTx.meant]}
    BY <1>4 DEF MineWithdraw
  <2>2. ChainInv'
    BY <1>a, <2>1, CloseKeeps
  <2>3. NextTx \in Txs /\ NextTx.kind = "withdraw"
    BY <1>a, <1>4 DEF MineWithdraw, Unmined, NextTx, MinedInv
  <2>4. NextTx.id \in 1..MaxDeposits /\ NextTx.meant = <<EscrowV2, NextTx.id>>
    BY <2>3, TxFacts
  <2>5. Place(Deposits[i]) \in Places /\ NextTx.meant = Place(Deposits[i])
    BY <2>1, <2>4 DEF Places
  <2>6. /\ closings' \subseteq [closed : Places, meant : Places]
        /\ WithdrawClosesWhatWasShown'
    BY <1>a, <2>1, <2>5 DEF MinedInv, WithdrawClosesWhatWasShown
  <2>7. receipts' \in Seq(Ids) /\ Len(receipts') <= Len(wallet)
    BY <1>a, <1>4 DEF MineWithdraw, Unmined, MinedInv, Ids
  <2>8. MinedInv'
    BY <1>a, <1>4, <2>6, <2>7 DEF MineWithdraw, MinedInv
  <2> QED BY <1>0, <2>2, <2>8, UnseenKeeps DEF IInv
<1>5. CASE MineRevert
  <2>1. ChainInv'
    BY <1>a, <1>5 DEF MineRevert, ChainInv
  <2>2. receipts' \in Seq(Ids) /\ Len(receipts') <= Len(wallet)
    BY <1>a, <1>5 DEF MineRevert, Unmined, MinedInv, Ids
  <2>3. MinedInv'
    BY <1>a, <1>5, <2>2 DEF MineRevert, MinedInv, WithdrawClosesWhatWasShown
  <2> QED BY <1>0, <2>1, <2>3, UnseenKeeps DEF IInv
<1>6. CASE IndexerAdvances
  <2>1. ChainInv'
    BY <1>a, <1>6, BoundsAssumption DEF IndexerAdvances, ChainInv
  <2>2. MinedInv'
    BY <1>a, <1>6 DEF IndexerAdvances, MinedInv, WithdrawClosesWhatWasShown
  <2> QED BY <1>0, <2>1, <2>2, UnseenKeeps DEF IInv
<1> QED BY <1>1, <1>2, <1>3, <1>4, <1>5, <1>6 DEF Chain, Base

-----------------------------------------------------------------------------
(* The host *)

(* A call that reads, a refusal and a failed signer broadcast nothing. *)
quiet == <<wallet, chainVars>>

LEMMA QuietKeepsTheChain ==
  ASSUME IInv, UNCHANGED quiet
  PROVE  ChainInv' /\ MinedInv'
BY DEF IInv, ChainInv, MinedInv, WithdrawClosesWhatWasShown, quiet, chainVars

(* Ending a call, or answering it, with anything but a signed result or an *)
(* unsigned transaction.                                                   *)
LEMMA PlainOutcomeKeeps ==
  ASSUME IInv, UNCHANGED quiet, kit' = kit,
         turn' \in 0..MaxTurns, turn <= turn',
         phase' \in {"idle", "asked"}, outcome'.kind \notin {"unsigned", "result"},
         known' \subseteq Places
  PROVE  IInv'
<1>1. HostInv' /\ CallInv'
  BY DEF IInv, HostInv, CallInv
<1>2. TurnInv'
  <2>1. \A n \in 1..Len(wallet) : wallet[n] \in Txs
    BY DEF IInv, MinedInv
  <2>2. \A n \in 1..Len(wallet) : wallet[n].turn \in Int
    BY <2>1, TxFacts, BoundsAssumption DEF Turns
  <2>3. turn \in Int /\ turn' \in Int
    BY BoundsAssumption DEF IInv, HostInv
  <2>4. /\ \A n \in 1..Len(wallet) : wallet[n].turn <= turn
        /\ RepliesTellWhatWasSigned
    BY DEF IInv, TurnInv
  <2>5. \A n \in 1..Len(wallet') : wallet'[n].turn <= turn'
    BY <2>2, <2>3, <2>4 DEF quiet
  <2>6. RepliesTellWhatWasSigned'
    BY <2>4 DEF RepliesTellWhatWasSigned, quiet
  <2> QED BY <2>5, <2>6 DEF TurnInv
<1> QED BY <1>1, <1>2, QuietKeepsTheChain DEF IInv

(* The unsigned reply of a call that was just given its number. *)
LEMMA UnsignedKeeps ==
  ASSUME IInv, UNCHANGED quiet, kit' = kit, Turn, known' = known,
         phase' = "idle", NEW tx \in Txs, tx.turn = turn',
         outcome' = [kind |-> "unsigned", tx |-> tx]
  PROVE  IInv'
<1>1. turn \in Nat /\ turn' = turn + 1 /\ turn' \in Turns /\ turn' \in 0..MaxTurns
  BY BoundsAssumption DEF IInv, HostInv, Turn, Turns
<1>2. \A n \in 1..Len(wallet) : wallet[n] \in Txs
  BY DEF IInv, MinedInv
<1>3. \A n \in 1..Len(wallet) : wallet[n].turn \in Int
  BY <1>2, TxFacts, BoundsAssumption DEF Turns
<1>4. \A n \in 1..Len(wallet) : wallet[n].turn <= turn
  BY DEF IInv, TurnInv
<1>5. \A n \in 1..Len(wallet) : wallet[n].turn <= turn' /\ wallet[n].turn # turn'
  BY <1>1, <1>3, <1>4
<1>6. HostInv'
  BY <1>1 DEF IInv, HostInv
<1>7. CallInv'
  BY <1>1 DEF CallInv
<1>8. TurnInv'
  BY <1>5 DEF IInv, TurnInv, RepliesTellWhatWasSigned, quiet
<1> QED BY <1>6, <1>7, <1>8, QuietKeepsTheChain DEF IInv

(* The signer is called with a transaction that has a number of its own. *)
LEMMA SignKeeps ==
  ASSUME IInv, UNCHANGED quiet, kit' = kit, Turn, known' = known,
         phase' = "sign", outcome' = Nothing,
         call'.op \in {"cashout", "withdraw"},
         TxOf(call', turn') \in Txs, TxOf(call', turn').turn = turn'
  PROVE  IInv'
<1>1. turn \in Nat /\ turn' = turn + 1 /\ turn' \in Turns /\ turn' \in 0..MaxTurns
  BY BoundsAssumption DEF IInv, HostInv, Turn, Turns
<1>2. \A n \in 1..Len(wallet) : wallet[n] \in Txs
  BY DEF IInv, MinedInv
<1>3. \A n \in 1..Len(wallet) : wallet[n].turn \in Int
  BY <1>2, TxFacts, BoundsAssumption DEF Turns
<1>4. \A n \in 1..Len(wallet) : wallet[n].turn <= turn
  BY DEF IInv, TurnInv
<1>5. \A n \in 1..Len(wallet) : wallet[n].turn <= turn' /\ wallet[n].turn # turn'
  BY <1>1, <1>3, <1>4
<1>6. HostInv'
  BY <1>1 DEF IInv, HostInv
<1>7. CallInv'
  BY <1>1 DEF CallInv, Nothing, TxOf, CreateTx, WithdrawTx
<1>8. TurnInv'
  BY <1>5 DEF IInv, TurnInv, RepliesTellWhatWasSigned, quiet, Nothing
<1> QED BY <1>6, <1>7, <1>8, QuietKeepsTheChain DEF IInv

-----------------------------------------------------------------------------
(* The tools *)

LEMMA NextTurn ==
  ASSUME IInv, Turn
  PROVE  /\ turn' = turn + 1 /\ turn <= turn'
         /\ turn' \in Turns /\ turn' \in 0..MaxTurns
BY BoundsAssumption DEF IInv, HostInv, Turn, Turns

LEMMA DeclineKeeps ==
  ASSUME IInv, kit' = kit, NEW c, NEW e, Decline(c, Error(e))
  PROVE  IInv'
<1>1. UNCHANGED quiet /\ Turn /\ phase' = "idle" /\ known' = known
  BY DEF Decline, Begin, quiet
<1>2. outcome'.kind = "error"
  BY DEF Decline, Error
<1>3. known' \subseteq Places
  BY <1>1 DEF IInv, HostInv
<1> QED BY <1>1, <1>2, <1>3, NextTurn, PlainOutcomeKeeps

LEMMA CashoutToolKeeps == IInv /\ CashoutTool => IInv'
<1> SUFFICES ASSUME IInv, CashoutTool PROVE IInv'
  OBVIOUS
<1>1. kit' = kit
  BY DEF CashoutTool
<1>2. CASE CashoutFails
  BY <1>1, <1>2, DeclineKeeps DEF CashoutFails
<1>3. CASE Prepare
  <2>1. /\ UNCHANGED quiet /\ Turn /\ phase' = "idle" /\ known' = known
        /\ outcome' = [kind |-> "unsigned", tx |-> CreateTx(turn + 1)]
    BY <1>3 DEF Prepare, Decline, Begin, quiet, Unsigned, TxOf, CashoutOp
  <2>2. turn' \in Turns /\ turn' = turn + 1
    BY <2>1, NextTurn
  <2>3. CreateTx(turn + 1) \in Txs /\ CreateTx(turn + 1).turn = turn'
    BY <2>2, CreateTxInTxs
  <2> QED BY <1>1, <2>1, <2>3, UnsignedKeeps
<1>4. CASE Cashout
  <2>1. /\ UNCHANGED quiet /\ Turn /\ phase' = "sign" /\ known' = known
        /\ outcome' = Nothing /\ call' = CashoutOp
    BY <1>4 DEF Cashout, Sign, Begin, quiet
  <2>2. TxOf(call', turn') = CreateTx(turn') /\ call'.op = "cashout"
    BY <2>1 DEF TxOf, CashoutOp
  <2>3. TxOf(call', turn') \in Txs /\ TxOf(call', turn').turn = turn'
    BY <2>1, <2>2, NextTurn, CreateTxInTxs
  <2> QED BY <1>1, <2>1, <2>2, <2>3, SignKeeps
<1> QED BY <1>2, <1>3, <1>4 DEF CashoutTool

LEMMA WithdrawToolKeeps == IInv /\ WithdrawTool => IInv'
<1> SUFFICES ASSUME IInv, WithdrawTool PROVE IInv'
  OBVIOUS
<1>1. kit' = kit
  BY DEF WithdrawTool
<1>2. PICK place \in known : \E key \in KeysOf(place) :
        \/ WithdrawRefused(key, place)
        \/ PrepareWithdraw(key, place)
        \/ Withdraw(key, place)
  BY DEF WithdrawTool
<1>3. PICK key \in KeysOf(place) :
        \/ WithdrawRefused(key, place)
        \/ PrepareWithdraw(key, place)
        \/ Withdraw(key, place)
  BY <1>2
<1>4. place \in Places /\ key.id = place[2]
  BY DEF IInv, HostInv, KeysOf, Numeric, Composite
<1> DEFINE op == WithdrawOp(key, place)
<1>5. \A t : op.op = "withdraw" /\ TxOf(op, t) = WithdrawTx(key, place, t)
  BY DEF WithdrawOp, TxOf
<1>6. CASE WithdrawRefused(key, place)
  BY <1>1, <1>6, DeclineKeeps DEF WithdrawRefused
<1>7. CASE PrepareWithdraw(key, place)
  <2>1. /\ UNCHANGED quiet /\ Turn /\ phase' = "idle" /\ known' = known
        /\ outcome' = [kind |-> "unsigned", tx |-> WithdrawTx(key, place, turn + 1)]
    BY <1>5, <1>7 DEF PrepareWithdraw, Decline, Begin, quiet, Unsigned
  <2>2. turn' \in Turns /\ turn' = turn + 1
    BY <2>1, NextTurn
  <2>3. /\ WithdrawTx(key, place, turn + 1) \in Txs
        /\ WithdrawTx(key, place, turn + 1).turn = turn'
    BY <1>4, <2>2, WithdrawTxInTxs
  <2> QED BY <1>1, <2>1, <2>3, UnsignedKeeps
<1>8. CASE Withdraw(key, place)
  <2>1. /\ UNCHANGED quiet /\ Turn /\ phase' = "sign" /\ known' = known
        /\ outcome' = Nothing /\ call' = op
    BY <1>8 DEF Withdraw, Sign, Begin, quiet
  <2>2. TxOf(call', turn') = WithdrawTx(key, place, turn') /\ call'.op = "withdraw"
    BY <1>5, <2>1
  <2>3. TxOf(call', turn') \in Txs /\ TxOf(call', turn').turn = turn'
    BY <1>4, <2>1, <2>2, NextTurn, WithdrawTxInTxs
  <2> QED BY <1>1, <2>1, <2>2, <2>3, SignKeeps
<1> QED BY <1>3, <1>6, <1>7, <1>8

LEMMA AskKeeps == IInv /\ (DepositsTool \/ WatchTool) => IInv'
<1> SUFFICES ASSUME IInv, DepositsTool \/ WatchTool PROVE IInv'
  OBVIOUS
<1>1. kit' = kit
  BY DEF DepositsTool, WatchTool
<1>2. \E c : Ask(c)
  BY DEF DepositsTool, WatchTool, AskDeposits, AskWatch
<1>3. /\ UNCHANGED quiet /\ phase' = "asked" /\ outcome' = Nothing
      /\ UNCHANGED <<turn, known>>
  BY <1>2 DEF Ask, Begin, quiet
<1>4. turn' \in 0..MaxTurns /\ turn <= turn' /\ known' \subseteq Places
  BY <1>3, BoundsAssumption DEF IInv, HostInv
<1>5. outcome'.kind = "nothing"
  BY <1>3 DEF Nothing
<1> QED BY <1>1, <1>3, <1>4, <1>5, PlainOutcomeKeeps

(* deposits() shows places of EscrowV2 only. *)
LEMMA RowsAreOurs ==
  ASSUME ChainInv, NEW owner, NEW row \in DepositsQuery(Indexed, owner)
  PROVE  Place(row) \in Places
<1>1. Indexed \in Seq(Rows)
  BY DEF ChainInv, Indexed
<1>2. PICK i \in Matches(Indexed, owner) : row = Indexed[i]
  BY DEF DepositsQuery, Newest
<1>3. i \in 1..Len(Indexed) /\ row.escrow = EscrowV2
  BY <1>2 DEF Matches
<1>4. row \in Rows
  BY <1>1, <1>2, <1>3
<1>5. row.depositId \in 1..MaxDeposits
  BY <1>4 DEF Rows
<1> QED BY <1>3, <1>5 DEF Place, Places

LEMMA IndexingKeeps == IInv /\ Indexing => IInv'
<1> SUFFICES ASSUME IInv, Indexing PROVE IInv'
  OBVIOUS
<1>1. kit' = kit /\ UNCHANGED quiet /\ phase' = "idle" /\ turn' = turn
  BY DEF Indexing, AnswerDeposits, AnswerWatch, IndexerFails, End, quiet
<1>2. turn' \in 0..MaxTurns /\ turn <= turn'
  BY <1>1, BoundsAssumption DEF IInv, HostInv
<1>3. known' \subseteq Places
  <2>1. CASE AnswerDeposits
    BY <2>1, RowsAreOurs DEF IInv, HostInv, AnswerDeposits
  <2>2. CASE AnswerWatch \/ IndexerFails
    BY <2>2 DEF IInv, HostInv, AnswerWatch, IndexerFails
  <2> QED BY <2>1, <2>2 DEF Indexing
<1>4. outcome'.kind \notin {"unsigned", "result"}
  <2>1. CASE AnswerDeposits
    BY <2>1 DEF AnswerDeposits, End
  <2>2. CASE AnswerWatch
    BY <2>2 DEF AnswerWatch, End, NotFound
  <2>3. CASE IndexerFails
    BY <2>3 DEF IndexerFails, End, Error
  <2> QED BY <2>1, <2>2, <2>3 DEF Indexing
<1> QED BY <1>1, <1>2, <1>3, <1>4, PlainOutcomeKeeps

-----------------------------------------------------------------------------
(* The signer *)

(* A transaction whose number the wallet does not hold enters the wallet.  *)
LEMMA BroadcastKeeps ==
  ASSUME IInv, UNCHANGED chainVars, NEW tx \in Txs, wallet' = Append(wallet, tx),
         tx.turn <= turn, \A n \in 1..Len(wallet) : wallet[n].turn # tx.turn
  PROVE  /\ ChainInv' /\ MinedInv'
         /\ \A n \in 1..Len(wallet') : wallet'[n].turn <= turn
         /\ \A m, n \in 1..Len(wallet') : wallet'[m].turn = wallet'[n].turn => m = n
         /\ \E n \in 1..Len(wallet') : wallet'[n].turn = tx.turn
<1>1. wallet \in Seq(Txs) /\ Len(wallet) \in Nat
  BY DEF IInv, MinedInv
<1>2. /\ wallet' \in Seq(Txs) /\ Len(wallet') = Len(wallet) + 1
      /\ wallet'[Len(wallet) + 1] = tx
      /\ \A n \in 1..Len(wallet) : wallet'[n] = wallet[n]
  BY <1>1
<1>3. \A n \in 1..Len(wallet') : n \in 1..Len(wallet) \/ n = Len(wallet) + 1
  BY <1>1, <1>2
<1>4. ChainInv' /\ MinedInv'
  BY <1>1, <1>2 DEF IInv, ChainInv, MinedInv, WithdrawClosesWhatWasShown, chainVars
<1>5. /\ \A n \in 1..Len(wallet) : wallet[n].turn <= turn
      /\ \A m, n \in 1..Len(wallet) : wallet[m].turn = wallet[n].turn => m = n
  BY DEF IInv, TurnInv, RepliesTellWhatWasSigned
<1>6. \A n \in 1..Len(wallet') : wallet'[n].turn <= turn
  BY <1>2, <1>3, <1>5
<1>7. \A m, n \in 1..Len(wallet') : wallet'[m].turn = wallet'[n].turn => m = n
  BY <1>2, <1>3, <1>5
<1>8. \E n \in 1..Len(wallet') : wallet'[n].turn = tx.turn
  BY <1>1, <1>2
<1> QED BY <1>4, <1>6, <1>7, <1>8

LEMMA SignerBroadcastsKeeps ==
  ASSUME IInv, kit' = kit, SignerBroadcasts
  PROVE  IInv'
<1> DEFINE tx == TxOf(call, turn)
<1>1. /\ phase = "sign" /\ phase' = "wait" /\ wallet' = Append(wallet, tx)
      /\ UNCHANGED <<call, turn, outcome, known, chainVars>>
  BY DEF SignerBroadcasts
<1>2. /\ tx \in Txs /\ tx.turn = turn /\ turn \in Turns /\ outcome = Nothing
      /\ call.op \in {"cashout", "withdraw"}
  BY <1>1 DEF IInv, CallInv
<1>3. tx.turn <= turn /\ \A n \in 1..Len(wallet) : wallet[n].turn # tx.turn
  BY <1>1, <1>2 DEF IInv, TurnInv, Turns
<1>4. /\ ChainInv' /\ MinedInv'
      /\ \A n \in 1..Len(wallet') : wallet'[n].turn <= turn
      /\ \A m, n \in 1..Len(wallet') : wallet'[m].turn = wallet'[n].turn => m = n
      /\ \E n \in 1..Len(wallet') : wallet'[n].turn = turn
  <2> HIDE DEF tx
  <2> QED BY <1>1, <1>2, <1>3, BroadcastKeeps
<1>5. HostInv'
  BY <1>1 DEF IInv, HostInv
<1>6. CallInv'
  BY <1>1, <1>2 DEF CallInv, Nothing, TxOf, CreateTx, WithdrawTx
<1>7. TurnInv'
  BY <1>1, <1>2, <1>4 DEF TurnInv, RepliesTellWhatWasSigned, Nothing
<1> QED BY <1>4, <1>5, <1>6, <1>7 DEF IInv

LEMMA HostSignsKeeps ==
  ASSUME IInv, kit' = kit, HostSigns
  PROVE  IInv'
<1>1. /\ phase = "idle" /\ phase' = "idle" /\ outcome' = Nothing
      /\ outcome.kind = "unsigned" /\ wallet' = Append(wallet, outcome.tx)
      /\ UNCHANGED <<call, turn, known, chainVars>>
  BY DEF HostSigns
<1>2. outcome.tx \in Txs /\ outcome.tx.turn <= turn
  BY <1>1 DEF IInv, CallInv
<1>3. \A n \in 1..Len(wallet) : wallet[n].turn # outcome.tx.turn
  BY <1>1 DEF IInv, TurnInv, RepliesTellWhatWasSigned
<1>4. /\ ChainInv' /\ MinedInv'
      /\ \A n \in 1..Len(wallet') : wallet'[n].turn <= turn
      /\ \A m, n \in 1..Len(wallet') : wallet'[m].turn = wallet'[n].turn => m = n
  BY <1>1, <1>2, <1>3, BroadcastKeeps
<1>5. HostInv'
  BY <1>1 DEF IInv, HostInv
<1>6. CallInv' /\ TurnInv'
  BY <1>1, <1>4 DEF CallInv, TurnInv, RepliesTellWhatWasSigned, Nothing
<1> QED BY <1>4, <1>5, <1>6 DEF IInv

(* A receipt of this wallet shows a place of EscrowV2. *)
LEMMA SignerReturnsKeeps ==
  ASSUME IInv, kit' = kit, NEW style \in SignerStyles, SignerReturns(style)
  PROVE  IInv'
<1>1. /\ phase = "wait" /\ phase' = "idle" /\ turn' = turn /\ UNCHANGED quiet
      /\ outcome' = [kind |-> "result", id |-> ReportedId(style), turn |-> turn]
      /\ style = "receipt" => Len(receipts) = Len(wallet)
      /\ known' = known \cup IF call.op = "cashout" /\ ReportedId(style) # None
                               THEN {<<EscrowV2, ReportedId(style)>>} ELSE {}
  BY DEF SignerReturns, End, quiet
<1>2. known' \subseteq Places
  <2>1. known \subseteq Places
    BY DEF IInv, HostInv
  <2>2. CASE call.op = "cashout" /\ ReportedId(style) # None
    <3>1. style = "receipt" /\ ReportedId(style) = receipts[Len(wallet)]
      BY <2>2 DEF ReportedId
    <3>2. Len(wallet) \in 1..Len(receipts) /\ receipts \in Seq(Ids)
      BY <1>1, <3>1 DEF IInv, MinedInv, TurnInv
    <3>3. ReportedId(style) \in 1..MaxDeposits
      BY <2>2, <3>1, <3>2 DEF Ids
    <3> QED BY <1>1, <2>1, <2>2, <3>3 DEF Places
  <2>3. CASE ~(call.op = "cashout" /\ ReportedId(style) # None)
    BY <1>1, <2>1, <2>3
  <2> QED BY <2>2, <2>3
<1>3. HostInv'
  BY <1>1, <1>2 DEF IInv, HostInv
<1>4. CallInv'
  BY <1>1 DEF CallInv
<1>5. TurnInv'
  BY <1>1 DEF IInv, TurnInv, RepliesTellWhatWasSigned, quiet
<1> QED BY <1>1, <1>3, <1>4, <1>5, QuietKeepsTheChain DEF IInv

LEMMA SigningKeeps == IInv /\ Signing => IInv'
<1> SUFFICES ASSUME IInv, Signing PROVE IInv'
  OBVIOUS
<1>1. kit' = kit
  BY DEF Signing
<1>2. CASE SignerBroadcasts
  BY <1>1, <1>2, SignerBroadcastsKeeps
<1>3. CASE \E style \in SignerStyles : SignerReturns(style)
  BY <1>1, <1>3, SignerReturnsKeeps
<1>4. CASE SignerRaises
  <2>1. /\ UNCHANGED quiet /\ phase' = "idle" /\ turn' = turn /\ known' = known
        /\ outcome' = Error("SIGNER")
    BY <1>4 DEF SignerRaises, End, quiet
  <2>2. turn' \in 0..MaxTurns /\ turn <= turn' /\ known' \subseteq Places
    BY <2>1, BoundsAssumption DEF IInv, HostInv
  <2>3. outcome'.kind = "error"
    BY <2>1 DEF Error
  <2> QED BY <1>1, <2>1, <2>2, <2>3, PlainOutcomeKeeps
<1>5. CASE HostSigns
  BY <1>1, <1>5, HostSignsKeeps
<1> QED BY <1>2, <1>3, <1>4, <1>5 DEF Signing

-----------------------------------------------------------------------------
(* The theorems *)

LEMMA InitHolds == Init => IInv
<1> SUFFICES ASSUME Init PROVE IInv
  OBVIOUS
<1>1. ChainInv /\ MinedInv
  BY BoundsAssumption DEF Init, LifecycleInit, ChainInv, MinedInv, WithdrawClosesWhatWasShown
<1>2. HostInv /\ CallInv /\ TurnInv
  BY BoundsAssumption DEF Init, LifecycleInit, HostInv, CallInv, TurnInv,
     RepliesTellWhatWasSigned, Nothing
<1> QED BY <1>1, <1>2 DEF IInv

LEMMA StepKeeps == IInv /\ [Next]_vars => IInv'
<1> SUFFICES ASSUME IInv, [Next]_vars PROVE IInv'
  OBVIOUS
<1>1. CASE Next
  BY <1>1, BaseKeeps, CashoutToolKeeps, WithdrawToolKeeps, AskKeeps, IndexingKeeps,
     SigningKeeps DEF Next
<1>2. CASE UNCHANGED vars
  <2>1. UNCHANGED seen /\ UNCHANGED quiet
    BY <1>2 DEF vars, lifeVars, seen, quiet
  <2> QED BY <2>1, UnseenKeeps, QuietKeepsTheChain DEF IInv
<1> QED BY <1>1, <1>2

LEMMA Invariance == Spec => []IInv
BY InitHolds, StepKeeps, PTL DEF Spec

(* Every variable keeps its type, and every place a host is ever shown is  *)
(* one of EscrowV2, for any lag of the indexer and any number of deposits. *)
THEOREM TypeCorrect == Spec => []TypeOK
<1>1. IInv => TypeOK
  <2> SUFFICES ASSUME IInv PROVE TypeOK
    OBVIOUS
  <2>1. \A b \in 1..Len(blocks) : blocks[b] \in Seq(Rows)
    BY DEF IInv, ChainInv
  <2>2. \A b \in 1..Len(blocks) : \A i \in 1..Len(blocks[b]) : blocks[b][i] \in Rows
    BY <2>1
  <2>3. \A n \in 1..Len(wallet) : wallet[n] \in Txs
    BY DEF IInv, MinedInv
  <2>4. \A n \in 1..Len(wallet) : wallet[n].turn \in Turns
    BY <2>3, TxFacts
  <2>5. \A n \in 1..Len(receipts) : receipts[n] \in (1..MaxDeposits) \cup {None}
    BY DEF IInv, MinedInv, Ids
  <2> QED BY <2>2, <2>4, <2>5 DEF IInv, ChainInv, MinedInv, HostInv, TypeOK
<1> QED BY <1>1, Invariance, PTL

(* A withdraw made from what deposits() or a receipt showed closes that    *)
(* very deposit, however many escrows share its number.                    *)
THEOREM WithdrawsWhatWasShown == Spec => []WithdrawClosesWhatWasShown
<1>1. IInv => WithdrawClosesWhatWasShown
  BY DEF IInv, MinedInv
<1> QED BY <1>1, Invariance, PTL

(* One call reaches the wallet at most once; a signed reply has its        *)
(* transaction there, an unsigned one has not.                             *)
THEOREM RepliesAreTrue == Spec => []RepliesTellWhatWasSigned
<1>1. IInv => RepliesTellWhatWasSigned
  BY DEF IInv, TurnInv
<1> QED BY <1>1, Invariance, PTL

-----------------------------------------------------------------------------
(* The book: what the chain says of the deposits this wallet made.         *)

Made == NextId(EscrowV2) - 1

(* EscrowV2 numbers its deposits from 1 to Made in every state of the      *)
(* chain the indexer may yet show, and a number in a receipt is that of a  *)
(* deposit of this wallet there.                                           *)
Booked(row) ==
  row.escrow = EscrowV2 =>
    /\ row.depositId <= Made
    /\ \A n \in 1..Len(receipts) :
         receipts[n] = row.depositId => row.depositor = Address(Maker)

BookInv ==
  /\ \A b \in 1..Len(blocks) : \A i \in 1..Len(blocks[b]) : Booked(blocks[b][i])
  /\ \A n \in 1..Len(receipts) : receipts[n] # None => receipts[n] <= Made

(* What a read under way was asked for. *)
AskInv ==
  phase = "asked" =>
    /\ call.op = "deposits" => call.owner = Owner
    /\ call.op = "watch" => call.place \in Places /\ call.key.id = call.place[2]

(* A chain state with the deposits in it as they were numbers the next     *)
(* deposit as before.                                                      *)
LEMMA SameCount ==
  ASSUME NEW escrow, Len(Deposits') = Len(Deposits),
         \A i \in 1..Len(Deposits) : Deposits'[i].escrow = Deposits[i].escrow
  PROVE  NextId(escrow)' = NextId(escrow)
<1>1. {i \in 1..Len(Deposits) : Deposits[i].escrow = escrow}' =
      {i \in 1..Len(Deposits) : Deposits[i].escrow = escrow}
  OBVIOUS
<1> QED BY <1>1 DEF NextId

(* A state appended to the chain is its present one. *)
LEMMA BlockIsPresent ==
  ASSUME ChainInv, NEW chain \in Seq(Rows), Block(chain)
  PROVE  /\ Deposits' = chain /\ Len(blocks') = Len(blocks) + 1
         /\ blocks'[Len(blocks) + 1] = chain
         /\ \A b \in 1..Len(blocks) : blocks'[b] = blocks[b]
         /\ \A b \in 1..Len(blocks') : b \in 1..Len(blocks) \/ b = Len(blocks) + 1
         /\ Len(blocks) \in 1..Len(blocks) /\ Deposits = blocks[Len(blocks)]
BY BoundsAssumption DEF ChainInv, Block, Deposits

LEMMA CountType ==
  ASSUME ChainInv
  PROVE  /\ Deposits \in Seq(Rows) /\ Made \in Nat /\ NextId(EscrowV2) = Made + 1
<1>1. Deposits \in Seq(Rows)
  BY DEF ChainInv, Deposits
<1> DEFINE own == {i \in 1..Len(Deposits) : Deposits[i].escrow = EscrowV2}
<1>2. IsFiniteSet(own)
  <2>1. IsFiniteSet(1..Len(Deposits))
    BY <1>1, FS_Interval
  <2> QED BY <2>1, FS_Subset
<1>3. Cardinality(own) \in Nat
  BY <1>2, FS_CardinalityType
<1> QED BY <1>1, <1>3 DEF Made, NextId

(* A deposit made in an escrow counts there and nowhere else. *)
LEMMA MakeCounts ==
  ASSUME ChainInv, NEW escrow \in {EscrowV2, OldEscrow},
         NEW account \in {Maker, Taker}, Make(escrow, account)
  PROVE  Made' = IF escrow = EscrowV2 THEN Made + 1 ELSE Made
<1> DEFINE row == [escrow |-> escrow, depositId |-> NextId(escrow),
                   depositor |-> Address(account), open |-> TRUE]
           own == {i \in 1..Len(Deposits) : Deposits[i].escrow = EscrowV2}
<1>1. Deposits \in Seq(Rows) /\ row \in Rows
  BY NextIdBound, CountType DEF Make, Rows
<1>2. Append(Deposits, row) \in Seq(Rows)
  BY <1>1
<1>3. Deposits' = Append(Deposits, row)
  BY <1>2, BlockIsPresent DEF Make
<1>4. /\ Len(Deposits') = Len(Deposits) + 1 /\ Deposits'[Len(Deposits) + 1] = row
      /\ \A i \in 1..Len(Deposits) : Deposits'[i] = Deposits[i]
  BY <1>1, <1>3
<1>5. \A i : i \in 1..Len(Deposits') <=> i \in 1..Len(Deposits) \/ i = Len(Deposits) + 1
  BY <1>1, <1>4
<1>6. Len(Deposits) + 1 \notin own
  BY <1>1
<1>7. IsFiniteSet(own)
  <2>1. IsFiniteSet(1..Len(Deposits))
    BY <1>1, FS_Interval
  <2> QED BY <2>1, FS_Subset
<1>8. CASE escrow = EscrowV2
  <2>1. own' = own \cup {Len(Deposits) + 1}
    BY <1>4, <1>5, <1>8
  <2>2. Cardinality(own') = Cardinality(own) + 1
    BY <1>6, <1>7, <2>1, FS_AddElement
  <2> QED BY <1>7, <1>8, <2>2, FS_CardinalityType DEF Made, NextId
<1>9. CASE escrow # EscrowV2
  <2>1. own' = own
    BY <1>4, <1>5, <1>9
  <2> QED BY <1>9, <2>1 DEF Made, NextId
<1> QED BY <1>8, <1>9

(* What a step of the chain may do to the receipts and the count. *)
Counting ==
  \/ receipts' = receipts /\ Made' \in {Made, Made + 1}
  \/ receipts' = Append(receipts, None) /\ Made' = Made
  \/ receipts' = Append(receipts, Made + 1) /\ Made' = Made + 1

LEMMA CountingFacts ==
  ASSUME ChainInv, MinedInv, BookInv, Counting
  PROVE  /\ Made \in Nat /\ Made' \in Nat /\ Made <= Made'
         /\ \A n \in 1..Len(receipts') : receipts'[n] # None => receipts'[n] <= Made'
         /\ \A n \in 1..Len(receipts') :
              \/ n \in 1..Len(receipts) /\ receipts'[n] = receipts[n]
              \/ receipts'[n] = None
              \/ receipts'[n] = Made + 1 /\ receipts' = Append(receipts, Made + 1)
<1>1. Made \in Nat /\ receipts \in Seq(Ids)
  BY CountType DEF MinedInv
<1>2. Made' \in Nat /\ Made <= Made'
  BY <1>1 DEF Counting
<1>3. \A n \in 1..Len(receipts') :
        \/ n \in 1..Len(receipts) /\ receipts'[n] = receipts[n]
        \/ receipts'[n] = None
        \/ receipts'[n] = Made + 1 /\ receipts' = Append(receipts, Made + 1)
  <2>1. CASE receipts' = receipts
    BY <2>1
  <2>2. CASE receipts' = Append(receipts, None)
    BY <1>1, <2>2 DEF Ids
  <2>3. CASE receipts' = Append(receipts, Made + 1)
    BY <1>1, <2>3
  <2> QED BY <2>1, <2>2, <2>3 DEF Counting
<1>4. \A n \in 1..Len(receipts) : receipts[n] # None => receipts[n] <= Made /\ receipts[n] \in Nat
  BY <1>1, BoundsAssumption DEF BookInv, Ids
<1>5. receipts' = Append(receipts, Made + 1) => Made' = Made + 1
  <2>1. Len(Append(receipts, Made + 1)) # Len(receipts)
    BY <1>1
  <2>2. Append(receipts, Made + 1) # Append(receipts, None)
    <3>1. Made + 1 # None
      BY <1>1, NoneAssumption
    <3>2. /\ Append(receipts, Made + 1)[Len(receipts) + 1] = Made + 1
          /\ Append(receipts, None)[Len(receipts) + 1] = None
      BY <1>1 DEF Ids
    <3> QED BY <3>1, <3>2
  <2> QED BY <2>1, <2>2 DEF Counting
<1>6. \A n \in 1..Len(receipts') : receipts'[n] # None => receipts'[n] <= Made'
  BY <1>1, <1>2, <1>3, <1>4, <1>5
<1> QED BY <1>1, <1>2, <1>3, <1>6

(* A deposit in the book stays there. *)
LEMMA StaysBooked ==
  ASSUME ChainInv, MinedInv, BookInv, Counting,
         NEW row, row.depositId \in 1..MaxDeposits, Booked(row)
  PROVE  Booked(row)'
<1>1. row.depositId \in Nat /\ row.depositId # None
  BY BoundsAssumption, NoneAssumption
<1> QED BY <1>1, CountingFacts DEF Booked

Alike(row, old) == /\ row.escrow = old.escrow /\ row.depositId = old.depositId
                   /\ row.depositor = old.depositor

(* A chain all of whose deposits were there, open or not, or enter the     *)
(* book, keeps the book.                                                   *)
LEMMA ChainKeepsBook ==
  ASSUME ChainInv, MinedInv, BookInv, Counting,
         \A b \in 1..Len(blocks') : \A i \in 1..Len(blocks'[b]) :
           \/ \E c \in 1..Len(blocks) : \E j \in 1..Len(blocks[c]) :
                Alike(blocks'[b][i], blocks[c][j])
           \/ \E row : row = blocks'[b][i] /\ Booked(row)'
  PROVE  BookInv'
<1>1. ASSUME NEW row, Booked(row)', NEW b, NEW i, row = blocks'[b][i]
      PROVE  Booked(blocks[b][i])'
  BY <1>1 DEF Booked
<1>2. ASSUME NEW b \in 1..Len(blocks'), NEW i \in 1..Len(blocks'[b])
      PROVE  Booked(blocks[b][i])'
  <2>1. CASE \E c \in 1..Len(blocks) : \E j \in 1..Len(blocks[c]) :
               Alike(blocks'[b][i], blocks[c][j])
    <3>1. PICK c \in 1..Len(blocks) : \E j \in 1..Len(blocks[c]) :
            Alike(blocks'[b][i], blocks[c][j])
      BY <2>1
    <3>2. PICK j \in 1..Len(blocks[c]) : Alike(blocks'[b][i], blocks[c][j])
      BY <3>1
    <3>3. PICK old : old = blocks[c][j]
      OBVIOUS
    <3>4. old \in Rows /\ Booked(old)
      <4>1. blocks[c] \in Seq(Rows)
        BY DEF ChainInv
      <4> QED BY <3>3, <4>1 DEF BookInv
    <3>5. Booked(old)'
      BY <3>4, StaysBooked DEF Rows
    <3> QED BY <3>2, <3>3, <3>5 DEF Booked, Alike
  <2>2. CASE \E row : row = blocks'[b][i] /\ Booked(row)'
    BY <1>1, <2>2
  <2> QED BY <1>2, <2>1, <2>2
<1>3. \A n \in 1..Len(receipts') : receipts'[n] # None => receipts'[n] <= Made'
  BY CountingFacts
<1> QED BY <1>2, <1>3 DEF BookInv

(* A new deposit enters the book: its number is new, and it is of this     *)
(* wallet when the wallet gets a receipt for it.                           *)
LEMMA MakeKeepsBook ==
  ASSUME ChainInv, MinedInv, BookInv,
         NEW escrow \in {EscrowV2, OldEscrow}, NEW account \in {Maker, Taker},
         Make(escrow, account),
         \/ receipts' = receipts
         \/ /\ escrow = EscrowV2 /\ account = Maker
            /\ receipts' = Append(receipts, NextId(EscrowV2))
  PROVE  BookInv'
<1>0. PICK row : row = [escrow |-> escrow, depositId |-> NextId(escrow),
                       depositor |-> Address(account), open |-> TRUE]
  OBVIOUS
<1>1. Deposits \in Seq(Rows) /\ Made \in Nat /\ NextId(EscrowV2) = Made + 1 /\ row \in Rows
  BY <1>0, NextIdBound, CountType DEF Make, Rows
<1>2. Made' = IF escrow = EscrowV2 THEN Made + 1 ELSE Made
  BY MakeCounts
<1>3. Counting
  BY <1>1, <1>2 DEF Counting
<1>4. Booked(row)'
  <2> SUFFICES ASSUME row.escrow = EscrowV2
               PROVE  /\ row.depositId <= Made'
                      /\ \A n \in 1..Len(receipts') :
                           receipts'[n] = row.depositId => row.depositor = Address(Maker)
    BY DEF Booked, Address
  <2>0. escrow = EscrowV2
    BY <1>0
  <2>1. row.depositId = Made + 1 /\ row.depositor = Address(account) /\ Made' = Made + 1
    BY <1>0, <1>1, <1>2, <2>0
  <2>2. \A n \in 1..Len(receipts) : receipts[n] # Made + 1
    BY <1>1, NoneAssumption DEF BookInv
  <2>3. \A n \in 1..Len(receipts') :
          \/ n \in 1..Len(receipts) /\ receipts'[n] = receipts[n]
          \/ receipts'[n] = None
          \/ account = Maker
    <3>1. CASE receipts' = receipts
      BY <3>1
    <3>2. CASE account = Maker
      BY <3>2
    <3> QED BY <3>1, <3>2
  <2>4. Made + 1 # None
    BY <1>1, NoneAssumption
  <2> QED BY <1>1, <2>1, <2>2, <2>3, <2>4
<1>5. Append(Deposits, row) \in Seq(Rows)
  BY <1>1
<1>6. /\ blocks'[Len(blocks) + 1] = Append(Deposits, row) /\ Deposits = blocks[Len(blocks)]
      /\ \A b \in 1..Len(blocks) : blocks'[b] = blocks[b]
      /\ \A b \in 1..Len(blocks') : b \in 1..Len(blocks) \/ b = Len(blocks) + 1
      /\ Len(blocks) \in 1..Len(blocks)
  BY <1>0, <1>5, BlockIsPresent DEF Make
<1>7. ASSUME NEW b \in 1..Len(blocks'), NEW i \in 1..Len(blocks'[b])
      PROVE  \/ \E c \in 1..Len(blocks) : \E j \in 1..Len(blocks[c]) :
                  Alike(blocks'[b][i], blocks[c][j])
             \/ \E r : r = blocks'[b][i] /\ Booked(r)'
  <2>1. CASE b \in 1..Len(blocks)
    BY <1>6, <2>1 DEF Alike
  <2>2. CASE b = Len(blocks) + 1
    <3>1. /\ i \in 1..Len(Deposits) \/ i = Len(Deposits) + 1
          /\ i \in 1..Len(Deposits) => blocks'[b][i] = Deposits[i]
          /\ i = Len(Deposits) + 1 => blocks'[b][i] = row
      BY <1>1, <1>6, <2>2
    <3>2. CASE i \in 1..Len(Deposits)
      BY <1>6, <3>1, <3>2 DEF Alike
    <3>3. CASE i = Len(Deposits) + 1
      BY <1>4, <3>1, <3>3
    <3> QED BY <3>1, <3>2, <3>3
  <2> QED BY <1>6, <2>1, <2>2
<1> QED BY <1>3, <1>7, ChainKeepsBook

(* A deposit that is drained or withdrawn stays in the book. *)
LEMMA CloseKeepsBook ==
  ASSUME ChainInv, MinedInv, BookInv, NEW i \in 1..Len(Deposits), Close(i),
         receipts' = receipts \/ receipts' = Append(receipts, None)
  PROVE  BookInv'
<1> DEFINE chain == [Deposits EXCEPT ![i].open = FALSE]
<1>1. Deposits \in Seq(Rows) /\ Deposits[i] \in Rows /\ Made \in Nat
  BY CountType
<1>2. [Deposits[i] EXCEPT !.open = FALSE] \in Rows
  BY <1>1 DEF Rows
<1>3. chain \in Seq(Rows) /\ Len(chain) = Len(Deposits)
  BY <1>1, <1>2
<1>4. \A j \in 1..Len(Deposits) : Alike(chain[j], Deposits[j])
  <2>1. \A j \in 1..Len(Deposits) : j # i => chain[j] = Deposits[j]
    BY <1>1
  <2>2. Alike(chain[i], Deposits[i])
    BY <1>1 DEF Alike, Rows
  <2> QED BY <2>1, <2>2 DEF Alike
<1> HIDE DEF chain
<1>5. /\ Deposits' = chain
      /\ blocks'[Len(blocks) + 1] = chain /\ Deposits = blocks[Len(blocks)]
      /\ \A b \in 1..Len(blocks) : blocks'[b] = blocks[b]
      /\ \A b \in 1..Len(blocks') : b \in 1..Len(blocks) \/ b = Len(blocks) + 1
      /\ Len(blocks) \in 1..Len(blocks)
  BY <1>3, BlockIsPresent DEF Close, chain
<1>6. NextId(EscrowV2)' = NextId(EscrowV2)
  BY <1>3, <1>4, <1>5, SameCount DEF Alike
<1>7. Counting
  BY <1>6 DEF Counting, Made
<1>8. ASSUME NEW b \in 1..Len(blocks'), NEW j \in 1..Len(blocks'[b])
      PROVE  \E c \in 1..Len(blocks) : \E k \in 1..Len(blocks[c]) :
               Alike(blocks'[b][j], blocks[c][k])
  <2>1. CASE b \in 1..Len(blocks)
    BY <1>5, <2>1 DEF Alike
  <2>2. CASE b = Len(blocks) + 1
    BY <1>3, <1>4, <1>5, <2>2
  <2> QED BY <1>5, <2>1, <2>2
<1> QED BY <1>7, <1>8, ChainKeepsBook

(* What the book reads; a step of the host leaves it alone. *)
LEMMA HostKeepsBook ==
  ASSUME BookInv, UNCHANGED <<blocks, receipts>>
  PROVE  BookInv'
<1>1. Made' = Made
  BY DEF Made, NextId, Deposits
<1> QED BY <1>1 DEF BookInv, Booked, Address

LEMMA StepKeepsBook == IInv /\ BookInv /\ [Next]_vars => BookInv'
<1> SUFFICES ASSUME IInv, BookInv, [Next]_vars PROVE BookInv'
  OBVIOUS
<1>a. ChainInv /\ MinedInv
  BY DEF IInv
<1>b. Made \in Nat /\ NextId(EscrowV2) = Made + 1
  BY <1>a, CountType
<1>1. CASE OtherDeposit
  BY <1>a, <1>1, MakeKeepsBook DEF OtherDeposit
<1>2. CASE Drain
  BY <1>a, <1>2, CloseKeepsBook DEF Drain
<1>3. CASE MineCreateDeposit
  BY <1>a, <1>3, MakeKeepsBook DEF MineCreateDeposit
<1>4. CASE MineWithdraw
  BY <1>a, <1>4, CloseKeepsBook DEF MineWithdraw
<1>5. CASE MineRevert
  <2>1. /\ blocks' = blocks /\ receipts' = Append(receipts, None)
    BY <1>5 DEF MineRevert
  <2>2. Made' = Made
    BY <2>1 DEF Made, NextId, Deposits
  <2>3. Counting
    BY <2>1, <2>2 DEF Counting
  <2> QED BY <1>a, <2>1, <2>3, ChainKeepsBook DEF Alike
<1>6. CASE IndexerAdvances
  <2>1. /\ blocks \in Seq(Seq(Rows)) /\ Len(blocks) > 1 /\ blocks' = Tail(blocks)
        /\ receipts' = receipts
    BY <1>a, <1>6 DEF IndexerAdvances, ChainInv
  <2>2. /\ Len(blocks') = Len(blocks) - 1
        /\ \A b \in 1..Len(blocks') : b + 1 \in 1..Len(blocks) /\ blocks'[b] = blocks[b + 1]
    BY <2>1
  <2>3. Deposits' = Deposits
    BY <2>1, <2>2 DEF Deposits
  <2>4. Made' = Made
    BY <2>3 DEF Made, NextId
  <2>5. Counting
    BY <2>1, <2>4 DEF Counting
  <2> QED BY <1>a, <2>2, <2>5, ChainKeepsBook DEF Alike
<1>7. CASE UNCHANGED <<blocks, receipts>>
  BY <1>7, HostKeepsBook
<1>8. \/ Base
      \/ UNCHANGED <<blocks, receipts>>
  <2>1. CASE CashoutTool
    BY <2>1 DEF CashoutTool, CashoutFails, Prepare, Cashout, Decline, Sign, chainVars
  <2>2. CASE WithdrawTool
    BY <2>2 DEF WithdrawTool, WithdrawRefused, PrepareWithdraw, Withdraw, Decline, Sign,
       chainVars
  <2>3. CASE DepositsTool \/ WatchTool
    BY <2>3 DEF DepositsTool, WatchTool, AskDeposits, AskWatch, Ask, chainVars
  <2>4. CASE Indexing
    BY <2>4 DEF Indexing, AnswerDeposits, AnswerWatch, IndexerFails, chainVars
  <2>5. CASE Signing
    BY <2>5 DEF Signing, SignerBroadcasts, SignerReturns, SignerRaises, HostSigns, chainVars
  <2>6. CASE UNCHANGED vars
    BY <2>6 DEF vars, lifeVars, chainVars
  <2> QED BY <2>1, <2>2, <2>3, <2>4, <2>5, <2>6 DEF Next, Chain
<1> QED BY <1>1, <1>2, <1>3, <1>4, <1>5, <1>6, <1>7, <1>8 DEF Base

(* A read is asked with the owner's address, or with a key of the place    *)
(* the host was shown.                                                     *)
LEMMA StepKeepsAsk == IInv /\ AskInv /\ [Next]_vars => AskInv'
<1> SUFFICES ASSUME IInv, AskInv, [Next]_vars, phase' = "asked"
             PROVE  /\ call'.op = "deposits" => call'.owner = Owner
                    /\ call'.op = "watch" => call'.place \in Places /\ call'.key.id = call'.place[2]
  BY DEF AskInv, Owner
<1>1. CASE DepositsTool
  BY <1>1 DEF DepositsTool, AskDeposits, Ask, Begin
<1>2. CASE WatchTool
  <2>1. PICK place \in known : \E key \in KeysOf(place) : AskWatch(key, place)
    BY <1>2 DEF WatchTool
  <2>2. PICK key \in KeysOf(place) : AskWatch(key, place)
    BY <2>1
  <2>3. place \in Places /\ key.id = place[2]
    BY DEF IInv, HostInv, KeysOf, Numeric, Composite
  <2> QED BY <2>2, <2>3 DEF AskWatch, Ask, Begin
<1>3. CASE phase = "asked" /\ call' = call
  BY <1>3 DEF AskInv
<1>4. \/ DepositsTool \/ WatchTool
      \/ phase = "asked" /\ call' = call
  <2>1. CASE CashoutTool
    BY <2>1 DEF CashoutTool, CashoutFails, Prepare, Cashout, Decline, Sign, Begin
  <2>2. CASE WithdrawTool
    BY <2>2 DEF WithdrawTool, WithdrawRefused, PrepareWithdraw, Withdraw, Decline, Sign, Begin
  <2>3. CASE Indexing
    BY <2>3 DEF Indexing, AnswerDeposits, AnswerWatch, IndexerFails, End
  <2>4. CASE Signing
    BY <2>4 DEF Signing, SignerBroadcasts, SignerReturns, SignerRaises, HostSigns, End
  <2>5. CASE Chain
    BY <2>5 DEF Chain, Base, OtherDeposit, Drain, MineCreateDeposit, MineWithdraw,
       MineRevert, IndexerAdvances, hostVars
  <2>6. CASE UNCHANGED vars
    BY <2>6 DEF vars, lifeVars, hostVars
  <2> QED BY <2>1, <2>2, <2>3, <2>4, <2>5, <2>6 DEF Next
<1> QED BY <1>1, <1>2, <1>3, <1>4

LEMMA Reading == Spec => [](IInv /\ BookInv /\ AskInv)
<1>1. Init => BookInv /\ AskInv
  <2> SUFFICES ASSUME Init PROVE BookInv /\ AskInv
    OBVIOUS
  <2>1. blocks = << <<>> >> /\ receipts = <<>> /\ phase = "idle"
    BY DEF Init, LifecycleInit
  <2>2. \A b \in 1..Len(blocks) : Len(blocks[b]) = 0
    BY <2>1
  <2> QED BY <2>1, <2>2 DEF BookInv, AskInv
<1> QED BY <1>1, StepKeepsBook, StepKeepsAsk, InitHolds, StepKeeps, PTL DEF Spec

-----------------------------------------------------------------------------
(* What a read answers *)

(* Only an answer, or a failure of the indexer, ends a read. *)
LEMMA ReadEnds ==
  ASSUME [Next]_vars, phase = "asked", phase' = "idle"
  PROVE  AnswerDeposits \/ AnswerWatch \/ IndexerFails
<1>1. CASE CashoutTool
  BY <1>1 DEF CashoutTool, CashoutFails, Prepare, Cashout, Decline, Sign, Begin
<1>2. CASE WithdrawTool
  BY <1>2 DEF WithdrawTool, WithdrawRefused, PrepareWithdraw, Withdraw, Decline, Sign, Begin
<1>3. CASE DepositsTool \/ WatchTool
  BY <1>3 DEF DepositsTool, WatchTool, AskDeposits, AskWatch, Ask, Begin
<1>4. CASE Indexing
  BY <1>4 DEF Indexing
<1>5. CASE Signing
  BY <1>5 DEF Signing, SignerBroadcasts, SignerReturns, SignerRaises, HostSigns
<1>6. CASE Chain
  BY <1>6 DEF Chain, Base, OtherDeposit, Drain, MineCreateDeposit, MineWithdraw,
     MineRevert, IndexerAdvances, hostVars
<1>7. CASE UNCHANGED vars
  BY <1>7 DEF vars, lifeVars, hostVars
<1> QED BY <1>1, <1>2, <1>3, <1>4, <1>5, <1>6, <1>7 DEF Next

(* All that matches is listed as long as it fits the page. *)
LEMMA OnePageHoldsAll ==
  ASSUME NEW places, IsFiniteSet(places), places \subseteq Int,
         Cardinality(places) <= PageSize
  PROVE  Newest(places) = places
<1>1. ASSUME NEW i \in places
      PROVE  Cardinality({j \in places : j > i}) < PageSize
  <2> DEFINE later == {j \in places : j > i}
  <2>1. later \subseteq places \ {i}
    OBVIOUS
  <2>2. /\ IsFiniteSet(places \ {i})
        /\ Cardinality(places \ {i}) = Cardinality(places) - 1
    BY FS_RemoveElement
  <2>3. Cardinality(later) <= Cardinality(places \ {i})
    BY <2>1, <2>2, FS_Subset
  <2>4. IsFiniteSet(later) /\ Cardinality(later) \in Nat /\ Cardinality(places) \in Nat
    BY <2>1, <2>2, FS_Subset, FS_CardinalityType
  <2> QED BY <2>2, <2>3, <2>4, PageAssumption
<1> QED BY <1>1 DEF Newest

(* watch() by number answers with the deposit that was meant and no other, *)
(* and "not found" only of one that is not indexed: whatever other escrows *)
(* hold under that number, for any lag.                                    *)
THEOREM WatchFinds == Spec => WatchFindsWhatIsIndexed
<1>1. ASSUME IInv, AskInv, [Next]_vars, AnswersRead("watch"), call.key.kind = "numeric"
      PROVE  /\ outcome' = NotFound => ~IndexedAt(call.place)
             /\ outcome'.kind = "snapshot" => Place(outcome'.row) = call.place
  <2>1. phase = "asked" /\ call.op = "watch" /\ phase' = "idle"
    BY <1>1 DEF AnswersRead
  <2>2. /\ call.place \in Places /\ call.key.id = call.place[2]
        /\ call.place[1] = EscrowV2 /\ call.place = <<call.place[1], call.place[2]>>
    BY <1>1, <2>1 DEF AskInv, Places
  <2>3. Indexed \in Seq(Rows)
    BY <1>1 DEF IInv, ChainInv, Indexed
  <2> DEFINE rows == {Indexed[i] : i \in {j \in 1..Len(Indexed) : Names(call.key, Indexed[j])}}
             row == DepositQuery(Indexed, call.key)
  <2>4. /\ rows = {} => row = None
        /\ rows # {} => row \in rows
    BY DEF DepositQuery
  <2>5. \A r \in rows : r # None /\ Place(r) = call.place
    BY <1>1, <2>2, <2>3, NoneAssumption DEF Names, Place
  <2>6. IndexedAt(call.place) => rows # {}
    <3> SUFFICES ASSUME NEW i \in 1..Len(Indexed), Place(Indexed[i]) = call.place
                 PROVE  Names(call.key, Indexed[i])
      BY DEF IndexedAt
    <3> QED BY <1>1, <2>2 DEF Names, Place
  <2>7. CASE AnswerWatch
    <3>1. outcome' = IF row = None THEN NotFound ELSE [kind |-> "snapshot", row |-> row]
      BY <2>7 DEF AnswerWatch, End
    <3> HIDE DEF row, rows
    <3>2. CASE row = None
      BY <2>4, <2>5, <2>6, <3>1, <3>2 DEF NotFound
    <3>3. CASE row # None
      BY <2>4, <2>5, <3>1, <3>3 DEF NotFound
    <3> QED BY <3>2, <3>3
  <2>8. CASE IndexerFails
    <3>1. PICK e : outcome' = Error(e)
      BY <2>8 DEF IndexerFails, End
    <3>2. Error(e) # NotFound /\ Error(e).kind = "error"
      <4>1. "why" \in DOMAIN NotFound /\ "why" \notin DOMAIN Error(e)
        BY DEF NotFound, Error
      <4> QED BY <4>1 DEF Error
    <3> QED BY <3>1, <3>2
  <2> QED BY <1>1, <2>1, <2>7, <2>8, ReadEnds DEF AnswerDeposits
<1> QED BY <1>1, Reading, PTL DEF Spec, WatchFindsWhatIsIndexed

(* deposits(owner) names every deposit this wallet made in EscrowV2 that   *)
(* is indexed, one made by a call that raised included, as long as they    *)
(* fit the page; for any lag, number of deposits and page size.            *)
THEOREM ListingNames == Spec => ListingNamesMyDeposits
<1>1. ASSUME IInv, BookInv, AskInv, [Next]_vars, AnswersRead("deposits"),
             outcome'.kind = "rows", NEW n \in 1..Len(receipts), receipts[n] # None,
             IndexedAt(<<EscrowV2, receipts[n]>>),
             Cardinality({i \in 1..Len(Indexed) :
                            /\ Indexed[i].escrow = EscrowV2
                            /\ Indexed[i].depositor.account = Maker}) <= PageSize
      PROVE  \E row \in outcome'.rows : Place(row) = <<EscrowV2, receipts[n]>>
  <2>1. phase = "asked" /\ call.op = "deposits" /\ phase' = "idle"
    BY <1>1 DEF AnswersRead
  <2>2. call.owner = Owner /\ call.owner.account = Maker
    BY <1>1, <2>1 DEF AskInv, Owner
  <2>3. Indexed \in Seq(Rows) /\ 1 \in 1..Len(blocks)
    BY <1>1 DEF IInv, ChainInv, Indexed
  <2> DEFINE mine == {i \in 1..Len(Indexed) : /\ Indexed[i].escrow = EscrowV2
                                              /\ Indexed[i].depositor.account = Maker}
  <2>4. Matches(Indexed, call.owner) = mine
    BY <2>2 DEF Matches, SameAddress
  <2>5. Newest(mine) = mine
    <3>1. IsFiniteSet(1..Len(Indexed))
      BY <2>3, FS_Interval
    <3>2. IsFiniteSet(mine) /\ mine \subseteq Int
      BY <2>3, <3>1, FS_Subset
    <3> HIDE DEF mine
    <3>3. Cardinality(mine) <= PageSize
      BY <1>1 DEF mine
    <3> QED BY <3>2, <3>3, OnePageHoldsAll
  <2>6. PICK i \in 1..Len(Indexed) : Place(Indexed[i]) = <<EscrowV2, receipts[n]>>
    BY <1>1 DEF IndexedAt
  <2>7. Indexed[i].escrow = EscrowV2 /\ Indexed[i].depositId = receipts[n]
    BY <2>6 DEF Place
  <2>8. Indexed[i].depositor = Address(Maker)
    BY <1>1, <2>3, <2>7 DEF BookInv, Booked, Indexed
  <2>9. i \in mine
    BY <2>7, <2>8 DEF Address
  <2>10. AnswerDeposits
    <3>1. CASE IndexerFails
      BY <1>1, <3>1 DEF IndexerFails, End, Error
    <3> QED BY <1>1, <2>1, <3>1, ReadEnds DEF AnswerWatch
  <2>11. outcome'.rows = DepositsQuery(Indexed, call.owner)
    BY <2>10 DEF AnswerDeposits, End
  <2>12. Indexed[i] \in outcome'.rows
    BY <2>4, <2>5, <2>9, <2>11 DEF DepositsQuery
  <2> QED BY <2>6, <2>12
<1>2. IInv /\ BookInv /\ AskInv /\ [Next]_vars =>
        (AnswersRead("deposits") /\ outcome'.kind = "rows"
          => \A n \in 1..Len(receipts) :
               ( /\ receipts[n] # None
                 /\ IndexedAt(<<EscrowV2, receipts[n]>>)
                 /\ Cardinality({i \in 1..Len(Indexed) :
                                   /\ Indexed[i].escrow = EscrowV2
                                   /\ Indexed[i].depositor.account = Maker}) <= PageSize )
               => \E row \in outcome'.rows : Place(row) = <<EscrowV2, receipts[n]>>)
  BY <1>1
<1> QED BY <1>2, Reading, PTL DEF Spec, ListingNamesMyDeposits
=============================================================================

--------------------------- MODULE DepositLifecycle ---------------------------
(***************************************************************************)
(* A maker's deposits after the client made them: listed and watched       *)
(* through an indexer that lags the chain, drained by takers, withdrawn by *)
(* id.  The chain and the indexer's lag are external; the client is        *)
(* Offramp.cashout, prepare, deposits, watch and withdraw as a host calls  *)
(* them, one call at a time, with transactions of earlier calls still in   *)
(* the wallet.                                                             *)
(*                                                                         *)
(*   idle -> asked -> idle          a read, answered from what is indexed  *)
(*   idle -> sign -> wait -> idle   the signer called, then a broadcast    *)
(*                                                                         *)
(* What a cash-out does before its createDeposit is Cashout's matter; here *)
(* it is refused, fails, or hands createDeposit to the signer.             *)
(***************************************************************************)
EXTENDS Indexer

CONSTANTS
  Maker, Taker,  \* accounts: the host's wallet and somebody else's
  OldEscrow,     \* an escrow the client does not drive
  SignerStyles,  \* what the signer returns: "hash" or "receipt"
  MaxDeposits,   \* bound: deposits on the chain
  MaxLag,        \* bound: chain states the indexer is behind
  MaxTurns       \* bound: calls that may sign

ASSUME BoundsAssumption ==
  MaxDeposits \in Nat /\ MaxLag \in Nat /\ MaxTurns \in Nat
ASSUME PartiesAssumption == EscrowV2 # OldEscrow /\ Maker # Taker
ASSUME StylesAssumption == SignerStyles \subseteq {"hash", "receipt"}

VARIABLES
  blocks,     \* chain states, from the one indexed to the present one
  wallet,     \* the maker's transactions, in nonce order
  receipts,   \* of the mined ones: the id of the deposit made, or None
  closings,   \* for the properties: [closed, meant], places of deposits
  phase,
  call,       \* the call under way, or the last one
  turn,       \* how many calls could have signed
  outcome,    \* what the last call returned or raised
  known       \* places of deposits the host was shown

chainVars == <<blocks, receipts, closings>>
hostVars  == <<phase, call, turn, outcome, known>>
lifeVars  == <<chainVars, wallet, hostVars>>

Nothing == [kind |-> "nothing"]

LifecycleInit ==
  /\ blocks = << <<>> >>
  /\ wallet = <<>> /\ receipts = <<>> /\ closings = {}
  /\ phase = "idle" /\ call = [op |-> "none"] /\ turn = 0
  /\ outcome = Nothing /\ known = {}

-----------------------------------------------------------------------------
(* Base (external). *)
Indexed  == blocks[1]
Deposits == blocks[Len(blocks)]
Place(row) == <<row.escrow, row.depositId>>
Address(account) == [account |-> account, spelled |-> "lower"]

Block(chain) == Len(blocks) <= MaxLag /\ blocks' = Append(blocks, chain)

NextId(escrow) ==
  1 + Cardinality({i \in 1..Len(Deposits) : Deposits[i].escrow = escrow})

Make(escrow, account) ==
  /\ Len(Deposits) < MaxDeposits
  /\ Block(Append(Deposits, [escrow |-> escrow, depositId |-> NextId(escrow),
                             depositor |-> Address(account), open |-> TRUE]))

Close(i) == Deposits[i].open /\ Block([Deposits EXCEPT ![i].open = FALSE])

(* A deposit of this wallet or another, in this escrow or another, by      *)
(* another client.                                                         *)
OtherDeposit ==
  /\ \E escrow \in {EscrowV2, OldEscrow}, account \in {Maker, Taker} : Make(escrow, account)
  /\ UNCHANGED <<receipts, closings, wallet, hostVars>>

(* Takers are paid what is left; encode_create_deposit does not retain a   *)
(* drained deposit.                                                        *)
Drain ==
  /\ \E i \in 1..Len(Deposits) : Close(i)
  /\ UNCHANGED <<receipts, closings, wallet, hostVars>>

Unmined == Len(receipts) < Len(wallet)
NextTx  == wallet[Len(receipts) + 1]

MineCreateDeposit ==
  /\ Unmined /\ NextTx.kind = "createDeposit"
  /\ Make(EscrowV2, Maker)
  /\ receipts' = Append(receipts, NextId(EscrowV2))
  /\ UNCHANGED <<closings, wallet, hostVars>>

(* EscrowV2 lets a depositor take back what is left, nobody else. *)
MineWithdraw ==
  /\ Unmined /\ NextTx.kind = "withdraw"
  /\ \E i \in 1..Len(Deposits) :
       /\ Place(Deposits[i]) = <<EscrowV2, NextTx.id>>
       /\ Deposits[i].depositor.account = Maker
       /\ Close(i)
       /\ closings' = closings \cup {[closed |-> Place(Deposits[i]), meant |-> NextTx.meant]}
  /\ receipts' = Append(receipts, None)
  /\ UNCHANGED <<wallet, hostVars>>

MineRevert ==
  /\ Unmined
  /\ receipts' = Append(receipts, None)
  /\ UNCHANGED <<blocks, closings, wallet, hostVars>>

IndexerAdvances ==
  /\ Len(blocks) > 1
  /\ blocks' = Tail(blocks)
  /\ UNCHANGED <<receipts, closings, wallet, hostVars>>

Base == \/ OtherDeposit \/ Drain \/ MineCreateDeposit \/ MineWithdraw
        \/ MineRevert \/ IndexerAdvances

-----------------------------------------------------------------------------
(* Reads *)
Numeric(place)   == [kind |-> "numeric", escrow |-> None, id |-> place[2]]
Composite(place) == [kind |-> "composite", escrow |-> place[1], id |-> place[2]]

Error(e) == [kind |-> "error", error |-> e]
NotFound == [kind |-> "error", error |-> "INDEXER", why |-> "not found"]

Begin(c, next) == phase = "idle" /\ call' = c /\ phase' = next
End(o)         == phase' = "idle" /\ outcome' = o

Ask(c) ==
  /\ Begin(c, "asked")
  /\ outcome' = Nothing
  /\ UNCHANGED <<turn, known, wallet, chainVars>>

AskDeposits(owner)   == Ask([op |-> "deposits", owner |-> owner])
AskWatch(key, place) == Ask([op |-> "watch", key |-> key, place |-> place])

AnswerDeposits ==
  /\ phase = "asked" /\ call.op = "deposits"
  /\ LET rows == DepositsQuery(Indexed, call.owner)
     IN  /\ End([kind |-> "rows", rows |-> rows])
         /\ known' = known \cup {Place(row) : row \in rows}
  /\ UNCHANGED <<call, turn, wallet, chainVars>>

AnswerWatch ==
  /\ phase = "asked" /\ call.op = "watch"
  /\ LET row == DepositQuery(Indexed, call.key)
     IN  End(IF row = None THEN NotFound ELSE [kind |-> "snapshot", row |-> row])
  /\ UNCHANGED <<call, turn, known, wallet, chainVars>>

IndexerFails ==
  /\ phase = "asked"
  /\ \E answer \in BadAnswers : End(Error(AnswerError(answer)))
  /\ UNCHANGED <<call, turn, known, wallet, chainVars>>

-----------------------------------------------------------------------------
(* Calls that may sign *)
CreateTx(t) == [kind |-> "createDeposit", turn |-> t]
WithdrawTx(key, place, t) ==
  [kind |-> "withdraw", turn |-> t, id |-> key.id, meant |-> place]
TxOf(c, t) == IF c.op = "cashout" THEN CreateTx(t) ELSE WithdrawTx(c.key, c.place, t)

Unsigned(c, t) == [kind |-> "unsigned", tx |-> TxOf(c, t)]

Turn == turn < MaxTurns /\ turn' = turn + 1

(* The call ends before any signer is called. *)
Decline(c, o) ==
  /\ Turn /\ Begin(c, "idle") /\ outcome' = o
  /\ UNCHANGED <<known, wallet, chainVars>>

Sign(c) ==
  /\ Turn /\ Begin(c, "sign") /\ outcome' = Nothing
  /\ UNCHANGED <<known, wallet, chainVars>>

(* prepare() raises, or its transactions go to the signer, or to the host  *)
(* when there is none.  Which of its errors it raised (VALIDATION, CURATOR *)
(* and PAYEE_VERIFICATION_REQUIRED, or an exception with no code of its    *)
(* own, as InvalidOperation, OverflowError, UnicodeEncodeError, ValueError *)
(* and the encoder's are) is told apart in Cashout, and stands here as one *)
(* error: each leaves the same state behind.                               *)
CashoutOp == [op |-> "cashout"]
CashoutFails == Decline(CashoutOp, Error("prepare"))
Prepare == Decline(CashoutOp, Unsigned(CashoutOp, turn + 1))
Cashout == Sign(CashoutOp)

(* withdraw(deposit_id): int() takes no composite key. *)
WithdrawOp(key, place) == [op |-> "withdraw", key |-> key, place |-> place]
WithdrawRefused(key, place) ==
  /\ key.kind = "composite"
  /\ Decline(WithdrawOp(key, place), Error("ValueError"))
PrepareWithdraw(key, place) ==
  /\ key.kind = "numeric"
  /\ Decline(WithdrawOp(key, place), Unsigned(WithdrawOp(key, place), turn + 1))
Withdraw(key, place) == key.kind = "numeric" /\ Sign(WithdrawOp(key, place))

SignerBroadcasts ==
  /\ phase = "sign"
  /\ phase' = "wait"
  /\ wallet' = Append(wallet, TxOf(call, turn))
  /\ UNCHANGED <<call, turn, outcome, known, chainVars>>

(* The id in the receipt of the call's own transaction; a withdraw repeats *)
(* the one it was given.                                                   *)
ReportedId(style) ==
  CASE call.op = "withdraw" -> call.key.id
    [] call.op = "cashout" /\ style = "receipt" -> receipts[Len(wallet)]
    [] OTHER -> None

SignerReturns(style) ==
  /\ phase = "wait"
  /\ style = "receipt" => Len(receipts) = Len(wallet)
  /\ End([kind |-> "result", id |-> ReportedId(style), turn |-> turn])
  /\ known' = known \cup IF call.op = "cashout" /\ ReportedId(style) # None
                           THEN {<<EscrowV2, ReportedId(style)>>} ELSE {}
  /\ UNCHANGED <<call, turn, wallet, chainVars>>

(* A variant that answers a failed signer with the unsigned transaction    *)
(* (RepliesTellWhatWasSigned).                                             *)
FallsBackToUnsigned ==
  /\ phase \in {"sign", "wait"}
  /\ End(Unsigned(call, turn))
  /\ UNCHANGED <<call, turn, known, wallet, chainVars>>

(* The signer raises, perhaps on a transaction it already broadcast.       *)
SignerRaises ==
  /\ phase \in {"sign", "wait"}
  /\ End(Error("SIGNER"))
  /\ UNCHANGED <<call, turn, known, wallet, chainVars>>

(* The host signs, once, what prepare() or withdraw() returned. *)
HostSigns ==
  /\ phase = "idle" /\ outcome.kind = "unsigned"
  /\ wallet' = Append(wallet, outcome.tx)
  /\ outcome' = Nothing
  /\ UNCHANGED <<phase, call, turn, known, chainVars>>
=============================================================================

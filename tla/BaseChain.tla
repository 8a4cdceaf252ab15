------------------------------ MODULE BaseChain ------------------------------
(***************************************************************************)
(* The chain as the client relies on it (external to src/): the maker's    *)
(* wallet, the USDC allowance it grants EscrowV2, and EscrowV2's deposits. *)
(*                                                                         *)
(* A transaction is one of the records                                     *)
(*   [kind |-> "approve", call, units]                                     *)
(*   [kind |-> "createDeposit", call, units, platform, currency, digest]   *)
(*   [kind |-> "setRateManager", call, id]                                 *)
(* where call is the cash-out it was signed for.  A transaction's hash is  *)
(* its nonce, its place in wallet: one account's transactions are mined in *)
(* that order.                                                             *)
(*                                                                         *)
(* EscrowV2.createDeposit reverts CurrencyNotSupported on a pair its       *)
(* registry does not carry, pulls the deposit out of the allowance, and    *)
(* emits DepositReceived with the new deposit's id.                        *)
(***************************************************************************)
EXTENDS Integers, Sequences

CONSTANTS
  OnchainRegistry,   \* what PaymentVerifierRegistry carries
  Foreign,           \* the owner of deposits this wallet did not make
  OwnerTopic,        \* topics[1] of USDC's Approval and Transfer events
  MaxForeign         \* bound: others deposit while EscrowV2 has fewer deposits

ASSUME MaxForeignAssumption == MaxForeign \in Nat

VARIABLES
  wallet,      \* broadcast transactions of the maker, by nonce
  receipts,    \* receipts[n] is the receipt of wallet[n], once mined
  allowance,   \* USDC.allowance(maker, EscrowV2)
  deposits     \* EscrowV2 deposits by id

chainVars == <<wallet, receipts, allowance, deposits>>

ChainInit ==
  /\ wallet = <<>>
  /\ receipts = <<>>
  /\ allowance = 0
  /\ deposits = <<>>

Broadcast(tx) == wallet' = Append(wallet, tx)

Mined(n) == n \in 1..Len(receipts)

-----------------------------------------------------------------------------
Log(topic, first) == [topic |-> topic, first |-> first]
Success(logs)     == [outcome |-> "success", logs |-> logs]
Reverted(cause)   == [outcome |-> cause, logs |-> <<>>]

Unmined == Len(receipts) < Len(wallet)
NextTx  == wallet[Len(receipts) + 1]

(* USDC.approve overwrites the allowance. *)
MineApprove ==
  /\ Unmined
  /\ NextTx.kind = "approve"
  /\ allowance' = NextTx.units
  /\ receipts' = Append(receipts, Success(<<Log("Approval", OwnerTopic)>>))
  /\ UNCHANGED <<wallet, deposits>>

Carried(tx) == tx.currency \in OnchainRegistry[tx.platform]

(* The transfer's event may come before or after EscrowV2's own. *)
MineCreateDeposit ==
  /\ Unmined
  /\ NextTx.kind = "createDeposit"
  /\ Carried(NextTx)
  /\ allowance >= NextTx.units
  /\ allowance' = allowance - NextTx.units
  /\ deposits' = Append(deposits,
                   [by |-> NextTx.call, units |-> NextTx.units,
                    platform |-> NextTx.platform, currency |-> NextTx.currency,
                    digest |-> NextTx.digest, managed |-> FALSE])
  /\ LET transfer == Log("Transfer", OwnerTopic)
         received == Log("DepositReceived", Len(deposits) + 1)
     IN  \E logs \in {<<transfer, received>>, <<received, transfer>>} :
           receipts' = Append(receipts, Success(logs))
  /\ UNCHANGED wallet

RevertCreateDeposit ==
  /\ Unmined
  /\ NextTx.kind = "createDeposit"
  /\ \/ /\ ~Carried(NextTx)
        /\ receipts' = Append(receipts, Reverted("CurrencyNotSupported"))
     \/ /\ Carried(NextTx)
        /\ allowance < NextTx.units
        /\ receipts' = Append(receipts, Reverted("allowance"))
  /\ UNCHANGED <<wallet, allowance, deposits>>

MineSetRateManager ==
  /\ Unmined
  /\ NextTx.kind = "setRateManager"
  /\ NextTx.id \in 1..Len(deposits)
  /\ deposits[NextTx.id].by # Foreign
  /\ deposits' = [deposits EXCEPT ![NextTx.id].managed = TRUE]
  /\ receipts' = Append(receipts, Success(<<>>))
  /\ UNCHANGED <<wallet, allowance>>

(* Out of gas, a paused contract, an empty balance, a deposit that is not  *)
(* the sender's: any transaction can revert for a reason the client has no *)
(* part in.                                                                *)
MineRevert ==
  /\ Unmined
  /\ receipts' = Append(receipts, Reverted("other"))
  /\ UNCHANGED <<wallet, allowance, deposits>>

(* Another maker's deposit takes the next id. *)
ForeignDeposit ==
  /\ Len(deposits) < MaxForeign
  /\ deposits' = Append(deposits,
                   [by |-> Foreign, units |-> 0, platform |-> Foreign, currency |-> Foreign,
                    digest |-> Foreign, managed |-> FALSE])
  /\ UNCHANGED <<wallet, receipts, allowance>>

Mine == \/ MineApprove \/ MineCreateDeposit \/ RevertCreateDeposit
        \/ MineSetRateManager \/ MineRevert

ChainNext == Mine \/ ForeignDeposit
=============================================================================

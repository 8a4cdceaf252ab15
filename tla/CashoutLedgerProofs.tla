------------------------- MODULE CashoutLedgerProofs -------------------------
(***************************************************************************)
(* What the chain owes to each call: its deposit, the rate manager of that *)
(* deposit, and the allowance between its approve and its createDeposit,   *)
(* for any calls, requests, tables, signers and length of the chain.       *)
(*                                                                         *)
(* The argument: a deposit of this wallet is traced back to the mined      *)
(* createDeposit that made it, which is the call's only one (TxsInv).  The *)
(* allowance is traced back to the last approve mined with success, whose  *)
(* call's createDeposit would take all of it.                              *)
(***************************************************************************)
EXTENDS CashoutProofs

ApprovedAt(n)  == MinedWith(n, "success") /\ wallet[n].kind = "approve"
DepositedAt(n) == MinedWith(n, "success") /\ wallet[n].kind = "createDeposit"

Deposited(c) == \E i \in 1..Len(deposits) : deposits[i].by = c

(* Deposit i is the one transaction n asked for. *)
MadeBy(i, n) ==
  /\ DepositedAt(n)
  /\ deposits[i].by = wallet[n].call
  /\ deposits[i].units = wallet[n].units
  /\ deposits[i].platform = wallet[n].platform
  /\ deposits[i].currency = wallet[n].currency
  /\ deposits[i].digest = wallet[n].digest

(* Every deposit of this wallet was asked for by a transaction, and a call *)
(* has one deposit at most.                                                *)
MadeOK ==
  /\ \A i \in 1..Len(deposits) :
       deposits[i].by # Foreign => \E n \in 1..Len(receipts) : MadeBy(i, n)
  /\ \A i, j \in 1..Len(deposits) :
       deposits[i].by # Foreign /\ deposits[i].by = deposits[j].by => i = j

AskedForBest(c) == pc[c] = "returned" /\ request[c].mode = "best"

(* The rate manager is asked for by calls that returned in Best mode, and  *)
(* for the deposit they reported, which is their own.                      *)
OwnHook(n) ==
  LET c == wallet[n].call
  IN  /\ AskedForBest(c) /\ wallet[n].id = depositId[c]
      /\ wallet[n].id \in 1..Len(deposits) /\ deposits[wallet[n].id].by = c

ManagedBy(i, n) ==
  /\ wallet[n].kind = "setRateManager" /\ MinedWith(n, "success")
  /\ wallet[n].id = i /\ wallet[n].call = deposits[i].by

HooksOK ==
  /\ \A n \in 1..Len(wallet) : wallet[n].kind = "setRateManager" => OwnHook(n)
  /\ \A i \in 1..Len(deposits) :
       deposits[i].managed => \E n \in 1..Len(receipts) : ManagedBy(i, n)

(* What is left of the allowance was granted by the last approve mined     *)
(* with success, and that call has no deposit yet.                         *)
GrantedBy(n) ==
  /\ ApprovedAt(n)
  /\ \A m \in 1..Len(receipts) : ApprovedAt(m) => m <= n
  /\ allowance <= wallet[n].units
  /\ ~Deposited(wallet[n].call)

GrantOK == allowance > 0 => \E n \in 1..Len(receipts) : GrantedBy(n)

(* All of it is left while only rate managers were set since. *)
OnlyHooksSince(a) == \A m \in (a + 1)..Len(receipts) : wallet[m].kind = "setRateManager"

WholeOK ==
  \A a \in 1..Len(receipts) :
    ApprovedAt(a) /\ OnlyHooksSince(a) => allowance = wallet[a].units

(* Only a createDeposit needs the allowance. *)
ShortOK ==
  \A n \in 1..Len(receipts) :
    receipts[n].outcome = "allowance" => wallet[n].kind = "createDeposit"

LedgerInv ==
  MadeOK /\ GrantOK /\ WholeOK /\ ShortOK /\ AllowanceLostToAnother

-----------------------------------------------------------------------------
(* Frames *)

(* What is in the three sequences stays; a row may get its rate manager.   *)
WalletStays ==
  /\ Len(wallet) \in Nat /\ Len(wallet') \in Nat /\ Len(wallet') >= Len(wallet)
  /\ \A n \in 1..Len(wallet) : wallet'[n] = wallet[n]

ReceiptsStay ==
  /\ Len(receipts) \in Nat /\ Len(receipts') \in Nat /\ Len(receipts') >= Len(receipts)
  /\ Len(receipts) <= Len(wallet)
  /\ \A n \in 1..Len(receipts) : receipts'[n] = receipts[n]

RowStays(i) ==
  /\ deposits'[i].by = deposits[i].by
  /\ deposits'[i].units = deposits[i].units
  /\ deposits'[i].platform = deposits[i].platform
  /\ deposits'[i].currency = deposits[i].currency
  /\ deposits'[i].digest = deposits[i].digest

RowsStay ==
  /\ Len(deposits) \in Nat /\ Len(deposits') \in Nat /\ Len(deposits') >= Len(deposits)
  /\ \A i \in 1..Len(deposits) : RowStays(i)

HistoryStays == WalletStays /\ ReceiptsStay /\ RowsStay

(* A step of the calls: it only adds to the wallet. *)
CallStep == WalletStays /\ UNCHANGED <<receipts, allowance, deposits>>

(* A step of the chain: it does not touch the calls. *)
ChainStep == UNCHANGED <<pc, request, error, digest, step, nonce, hashes, depositId, hook,
                         makers, wallet>>

(* The transaction mined in a step, its place and its receipt. *)
Next1 == Len(receipts) + 1

MinesAs(receipt) ==
  /\ Next1 \in 1..Len(wallet) /\ NextTx = wallet[Next1]
  /\ Len(receipts') = Next1 /\ receipts'[Next1] = receipt

LEMMA CallsOnlyBroadcast ==
  ASSUME IInv, NEW c \in Calls,
         \/ HostCalls(c) \/ CuratorReceives(c) \/ CuratorEnds(c) \/ SignerEnds(c)
         \/ AttachHook(c) \/ HookRaises(c)
  PROVE  CallStep
<1>1. TypeOK /\ Len(wallet) \in Nat
  BY Lengths DEF IInv
<1>2. UNCHANGED <<receipts, allowance, deposits>>
  BY DEF HostCalls, Refuse, StartPost, SkipPost, Call, CuratorReceives, CuratorEnds,
         CuratorAnswers, CuratorFails, SignerEnds, SignerBroadcasts, SignerReturns,
         SignerRaises, AttachHook, HookRaises, chainVars
<1>3. CASE UNCHANGED wallet
  BY <1>1, <1>2, <1>3 DEF CallStep, WalletStays
<1>4. ASSUME NEW tx, wallet' = Append(wallet, tx)
      PROVE  WalletStays
  BY <1>1, <1>4, BroadcastAppends DEF WalletStays
<1>5. CASE SignerBroadcasts(c) \/ AttachHook(c)
  BY <1>2, <1>4, <1>5 DEF SignerBroadcasts, AttachHook, Broadcast, CallStep
<1>6. CASE ~(SignerBroadcasts(c) \/ AttachHook(c))
  <2>1. UNCHANGED wallet
    BY <1>6 DEF HostCalls, Refuse, StartPost, SkipPost, Call, CuratorReceives, CuratorEnds,
                CuratorAnswers, CuratorFails, SignerEnds, SignerReturns, SignerRaises,
                HookRaises, chainVars
  <2> QED BY <1>3, <2>1
<1> QED BY <1>5, <1>6

LEMMA MiningAppends ==
  ASSUME IInv, Unmined, NEW receipt, receipts' = Append(receipts, receipt)
  PROVE  ReceiptsStay /\ MinesAs(receipt)
<1>1. /\ Len(receipts) \in Nat /\ Len(wallet) \in Nat /\ Len(receipts) < Len(wallet)
      /\ receipts \in Seq([outcome : Outcomes, logs : Seq(Logs)])
  BY Lengths DEF IInv, TypeOK, Unmined
<1>2. /\ Len(receipts') = Len(receipts) + 1 /\ receipts'[Len(receipts) + 1] = receipt
      /\ \A n \in 1..Len(receipts) : receipts'[n] = receipts[n]
  BY <1>1
<1> QED BY <1>1, <1>2 DEF ReceiptsStay, MinesAs, Next1, NextTx

LEMMA SameRows ==
  ASSUME IInv, UNCHANGED deposits
  PROVE  RowsStay
BY Lengths DEF IInv, RowsStay, RowStays

LEMMA AppendedRow ==
  ASSUME IInv, NEW row, deposits' = Append(deposits, row)
  PROVE  /\ RowsStay /\ Len(deposits') = Len(deposits) + 1
         /\ deposits'[Len(deposits) + 1] = row
         /\ \A i \in 1..Len(deposits) : deposits'[i] = deposits[i]
<1>1. Len(deposits) \in Nat /\ deposits \in Seq(OwnDeposits \cup ForeignRow)
  BY Lengths DEF IInv, TypeOK
<1>2. /\ Len(deposits') = Len(deposits) + 1 /\ deposits'[Len(deposits) + 1] = row
      /\ \A i \in 1..Len(deposits) : deposits'[i] = deposits[i]
  BY <1>1
<1> QED BY <1>1, <1>2 DEF RowsStay, RowStays

(* What is mined, deposited and made stays so. *)
LEMMA HistoryKept ==
  ASSUME HistoryStays
  PROVE  /\ \A n : ApprovedAt(n) => ApprovedAt(n)' /\ n \in 1..Len(receipts)
         /\ \A n : DepositedAt(n) => DepositedAt(n)' /\ n \in 1..Len(receipts)
         /\ \A n : \A i \in 1..Len(deposits) :
                MadeBy(i, n) => MadeBy(i, n)' /\ n \in 1..Len(receipts')
<1>1. \A n \in 1..Len(receipts) : /\ n \in 1..Len(receipts') /\ receipts'[n] = receipts[n]
                                  /\ wallet'[n] = wallet[n]
  BY DEF HistoryStays, WalletStays, ReceiptsStay
<1>2. \A n : /\ ApprovedAt(n) => ApprovedAt(n)' /\ n \in 1..Len(receipts)
             /\ DepositedAt(n) => DepositedAt(n)' /\ n \in 1..Len(receipts)
  BY <1>1 DEF ApprovedAt, DepositedAt, MinedWith, Mined
<1>3. \A n : \A i \in 1..Len(deposits) :
        MadeBy(i, n) => MadeBy(i, n)' /\ n \in 1..Len(receipts')
  BY <1>1, <1>2 DEF HistoryStays, RowsStay, RowStays, MadeBy
<1> QED BY <1>2, <1>3

-----------------------------------------------------------------------------
(* What is deposited *)

(* The transaction that made a call's deposit is its only createDeposit.   *)
LEMMA MadeByTheOnlyCreate ==
  ASSUME IInv, TxsInv, NEW c \in Calls, NEW i, NEW m, MadeBy(i, m), deposits[i].by = c
  PROVE  /\ CreateBy(c, m) /\ m \in 1..Len(receipts)
         /\ \A n : CreateBy(c, n) => n = m
<1>1. Len(receipts) \in Nat /\ Len(wallet) \in Nat /\ Len(receipts) <= Len(wallet)
  BY Lengths DEF IInv, ChainOK
<1>2. m \in 1..Len(receipts) /\ wallet[m].kind = "createDeposit" /\ wallet[m].call = c
  BY DEF MadeBy, DepositedAt, MinedWith, Mined
<1>3. CreateBy(c, m)
  BY <1>1, <1>2 DEF CreateBy, TxBy
<1>4. \A n : CreateBy(c, n) => n \in 1..Len(wallet)
  BY DEF CreateBy, TxBy
<1>5. TxsOK(c)
  BY DEF TxsInv, OwnOK
<1> QED BY <1>2, <1>3, <1>4, <1>5 DEF TxsOK

(* A call whose createDeposit is not mined has no deposit.                 *)
LEMMA NotYetDeposited ==
  ASSUME IInv, TxsInv, MadeOK, NEW c \in Calls, NEW n, CreateBy(c, n), ~Mined(n)
  PROVE  ~Deposited(c)
<1> SUFFICES ASSUME NEW i \in 1..Len(deposits), deposits[i].by = c
             PROVE  FALSE
  BY DEF Deposited
<1>1. PICK m : MadeBy(i, m)
  BY CallsAssumption DEF MadeOK
<1> QED BY <1>1, MadeByTheOnlyCreate DEF Mined

(* No row of this wallet is added. *)
LEMMA MadeStays ==
  ASSUME MadeOK, HistoryStays,
         \A i \in 1..Len(deposits') : deposits'[i].by # Foreign => i \in 1..Len(deposits)
  PROVE  MadeOK'
<1>1. \A i \in 1..Len(deposits) : deposits'[i].by = deposits[i].by
  BY DEF HistoryStays, RowsStay, RowStays
<1>2. \A n : \A i \in 1..Len(deposits) :
        MadeBy(i, n) => MadeBy(i, n)' /\ n \in 1..Len(receipts')
  BY HistoryKept
<1>3. ASSUME NEW i \in 1..Len(deposits'), deposits'[i].by # Foreign
      PROVE  \E n \in 1..Len(receipts') : MadeBy(i, n)'
  BY <1>1, <1>2, <1>3 DEF MadeOK
<1>4. ASSUME NEW i \in 1..Len(deposits'), NEW j \in 1..Len(deposits'),
             deposits'[i].by # Foreign, deposits'[i].by = deposits'[j].by
      PROVE  i = j
  BY <1>1, <1>4 DEF MadeOK
<1> QED BY <1>3, <1>4 DEF MadeOK

(* createDeposit is mined with success: what the step adds. *)
LEMMA DepositAdds ==
  ASSUME IInv, MineCreateDeposit
  PROVE  /\ Unmined /\ NextTx \in Creates /\ NextTx.call \in Calls /\ NextTx.call # Foreign
         /\ NextTx.kind = "createDeposit" /\ NextTx.units \in Nat /\ CreateBy(NextTx.call, Next1)
         /\ allowance >= NextTx.units /\ allowance' = allowance - NextTx.units
         /\ ReceiptsStay /\ RowsStay /\ WalletStays /\ UNCHANGED wallet
         /\ \E receipt :
              /\ MinesAs(receipt) /\ receipt.outcome = "success"
              /\ \E k \in 1..Len(receipt.logs) : receipt.logs[k].topic = "DepositReceived"
         /\ Len(deposits') = Len(deposits) + 1
         /\ deposits'[Len(deposits) + 1] =
              [by |-> NextTx.call, units |-> NextTx.units,
               platform |-> NextTx.platform, currency |-> NextTx.currency,
               digest |-> NextTx.digest, managed |-> FALSE]
         /\ \A i \in 1..Len(deposits) : deposits'[i] = deposits[i]
<1>1. /\ Unmined /\ NextTx.kind = "createDeposit" /\ UNCHANGED wallet
      /\ allowance >= NextTx.units /\ allowance' = allowance - NextTx.units
  BY DEF MineCreateDeposit
<1>2. NextTx \in Creates /\ NextTx.units \in Nat
  BY <1>1, NextTxTyped
<1>3. NextTx.call \in Calls /\ NextTx.call # Foreign
  BY <1>2, CallsAssumption DEF Creates
<1>4. WalletStays
  BY <1>1, Lengths DEF IInv, WalletStays
<1>5. PICK logs \in {<<Log("Transfer", OwnerTopic), Log("DepositReceived", Len(deposits) + 1)>>,
                     <<Log("DepositReceived", Len(deposits) + 1), Log("Transfer", OwnerTopic)>>} :
        receipts' = Append(receipts, Success(logs))
  BY DEF MineCreateDeposit
<1>6. /\ ReceiptsStay /\ MinesAs(Success(logs)) /\ Success(logs).outcome = "success"
      /\ Success(logs).logs = logs
  BY <1>1, <1>5, MiningAppends DEF Success
<1>7. \E k \in 1..Len(logs) : logs[k].topic = "DepositReceived"
  <2>1. CASE logs = <<Log("Transfer", OwnerTopic), Log("DepositReceived", Len(deposits) + 1)>>
    <3>1. 2 \in 1..Len(logs) /\ logs[2].topic = "DepositReceived"
      BY <2>1 DEF Log
    <3> QED BY <3>1
  <2>2. CASE logs = <<Log("DepositReceived", Len(deposits) + 1), Log("Transfer", OwnerTopic)>>
    <3>1. 1 \in 1..Len(logs) /\ logs[1].topic = "DepositReceived"
      BY <2>2 DEF Log
    <3> QED BY <3>1
  <2> QED BY <2>1, <2>2
<1>8. CreateBy(NextTx.call, Next1)
  BY <1>1, <1>6 DEF MinesAs, CreateBy, TxBy
<1>9. deposits' = Append(deposits,
                    [by |-> NextTx.call, units |-> NextTx.units,
                     platform |-> NextTx.platform, currency |-> NextTx.currency,
                     digest |-> NextTx.digest, managed |-> FALSE])
  BY DEF MineCreateDeposit
<1>10. /\ RowsStay /\ Len(deposits') = Len(deposits) + 1
       /\ deposits'[Len(deposits) + 1] =
             [by |-> NextTx.call, units |-> NextTx.units,
              platform |-> NextTx.platform, currency |-> NextTx.currency,
              digest |-> NextTx.digest, managed |-> FALSE]
       /\ \A i \in 1..Len(deposits) : deposits'[i] = deposits[i]
  BY <1>9, AppendedRow
<1> QED BY <1>1, <1>2, <1>3, <1>4, <1>6, <1>7, <1>8, <1>10

LEMMA DepositKeepsMade ==
  ASSUME IInv, TxsInv, MadeOK, MineCreateDeposit
  PROVE  MadeOK'
<1>1. PICK c, new, at : c = NextTx.call /\ new = Len(deposits) + 1 /\ at = Next1
  OBVIOUS
<1>2. /\ HistoryStays /\ c \in Calls /\ c # Foreign /\ CreateBy(c, at)
      /\ Len(deposits') = new /\ Len(deposits) \in Nat /\ deposits'[new].by = c
      /\ \A i \in 1..Len(deposits) : deposits'[i] = deposits[i]
  BY <1>1, DepositAdds DEF HistoryStays, RowsStay
<1>3. MadeBy(new, at)' /\ at \in 1..Len(receipts')
  <2>1. /\ at \in 1..Len(receipts') /\ receipts'[at].outcome = "success"
        /\ wallet'[at] = NextTx /\ NextTx.kind = "createDeposit"
    <3>1. PICK receipt : MinesAs(receipt) /\ receipt.outcome = "success"
      BY DepositAdds
    <3>2. ReceiptsStay /\ UNCHANGED wallet /\ NextTx.kind = "createDeposit"
      BY DepositAdds
    <3> QED BY <1>1, <3>1, <3>2 DEF MinesAs, Next1, ReceiptsStay
  <2>2. /\ deposits'[new].by = NextTx.call /\ deposits'[new].units = NextTx.units
        /\ deposits'[new].platform = NextTx.platform
        /\ deposits'[new].currency = NextTx.currency /\ deposits'[new].digest = NextTx.digest
    BY <1>1, DepositAdds
  <2> QED BY <2>1, <2>2 DEF MadeBy, DepositedAt, MinedWith, Mined
<1>4. ~Deposited(c)
  <2>1. ~Mined(at)
    BY <1>1, Lengths DEF IInv, Mined, Next1
  <2> QED BY <1>2, <2>1, NotYetDeposited
<1>5. \A n : \A i \in 1..Len(deposits) :
        MadeBy(i, n) => MadeBy(i, n)' /\ n \in 1..Len(receipts')
  BY <1>2, HistoryKept
<1>6. \A i : i \in 1..Len(deposits') <=> i \in 1..Len(deposits) \/ i = new
  BY <1>1, <1>2
<1>7. ASSUME NEW i \in 1..Len(deposits'), deposits'[i].by # Foreign
      PROVE  \E n \in 1..Len(receipts') : MadeBy(i, n)'
  BY <1>2, <1>3, <1>5, <1>6, <1>7 DEF MadeOK
<1>8. ASSUME NEW i \in 1..Len(deposits'), NEW j \in 1..Len(deposits'),
             deposits'[i].by # Foreign, deposits'[i].by = deposits'[j].by
      PROVE  i = j
  BY <1>2, <1>4, <1>6, <1>8 DEF MadeOK, Deposited
<1> QED BY <1>7, <1>8 DEF MadeOK

(* The other steps of the chain: no row of this wallet is added.           *)
NoNewRow ==
  \A i \in 1..Len(deposits') : deposits'[i].by # Foreign => i \in 1..Len(deposits)

LEMMA SameRowsNoNewRow ==
  ASSUME IInv, UNCHANGED deposits
  PROVE  RowsStay /\ NoNewRow
BY SameRows DEF NoNewRow

LEMMA ManagerIsSetInPlace ==
  ASSUME IInv, MineSetRateManager
  PROVE  /\ RowsStay /\ NoNewRow /\ Len(deposits') = Len(deposits)
         /\ NextTx.id \in 1..Len(deposits) /\ deposits[NextTx.id].by # Foreign
         /\ \A i \in 1..Len(deposits) :
              deposits'[i].managed => deposits[i].managed \/ i = NextTx.id
<1>1. PICK id : id = NextTx.id
  OBVIOUS
<1>2. /\ id \in 1..Len(deposits) /\ deposits[id].by # Foreign
      /\ deposits' = [deposits EXCEPT ![id].managed = TRUE]
  BY <1>1 DEF MineSetRateManager
<1>3. deposits \in Seq(OwnDeposits \cup ForeignRow) /\ Len(deposits) \in Nat
  BY Lengths DEF IInv, TypeOK
<1>4. Len(deposits') = Len(deposits)
  BY <1>2, <1>3
<1>5. ASSUME NEW i \in 1..Len(deposits)
      PROVE  /\ RowStays(i)
             /\ deposits'[i].managed => deposits[i].managed \/ i = id
  <2> DEFINE row == [deposits[id] EXCEPT !.managed = TRUE]
  <2>1. deposits' = [deposits EXCEPT ![id] = row]
    BY <1>2
  <2>2. deposits[id] \in OwnDeposits
    <3>1. deposits[id] \in OwnDeposits \cup ForeignRow
      BY <1>2, <1>3
    <3> QED BY <1>2, <3>1 DEF ForeignRow
  <2>3. /\ row.by = deposits[id].by /\ row.units = deposits[id].units
        /\ row.platform = deposits[id].platform /\ row.currency = deposits[id].currency
        /\ row.digest = deposits[id].digest
    BY <2>2 DEF OwnDeposits
  <2> HIDE DEF row
  <2>4. deposits'[i] = IF i = id THEN row ELSE deposits[i]
    BY <1>3, <2>1
  <2> QED BY <2>3, <2>4 DEF RowStays
<1> QED BY <1>1, <1>2, <1>3, <1>4, <1>5 DEF RowsStay, NoNewRow

LEMMA ForeignRowIsForeign ==
  ASSUME IInv, ForeignDeposit
  PROVE  /\ RowsStay /\ NoNewRow /\ Len(deposits') = Len(deposits) + 1
         /\ deposits'[Len(deposits) + 1].by = Foreign
         /\ ~deposits'[Len(deposits) + 1].managed
         /\ \A i \in 1..Len(deposits) : deposits'[i] = deposits[i]
<1>1. deposits' = Append(deposits,
                    [by |-> Foreign, units |-> 0, platform |-> Foreign, currency |-> Foreign,
                     digest |-> Foreign, managed |-> FALSE])
  BY DEF ForeignDeposit
<1>2. /\ RowsStay /\ Len(deposits') = Len(deposits) + 1 /\ Len(deposits) \in Nat
      /\ deposits'[Len(deposits) + 1] =
           [by |-> Foreign, units |-> 0, platform |-> Foreign, currency |-> Foreign,
            digest |-> Foreign, managed |-> FALSE]
      /\ \A i \in 1..Len(deposits) : deposits'[i] = deposits[i]
  BY <1>1, AppendedRow, Lengths DEF IInv
<1>3. NoNewRow
  BY <1>2 DEF NoNewRow
<1> QED BY <1>2, <1>3

(* What every step of the chain leaves alone. *)
LEMMA ChainOnlyMines ==
  ASSUME IInv, Chain
  PROVE  ChainStep /\ HistoryStays /\ (MineCreateDeposit \/ NoNewRow)
<1>1. ChainStep
  BY DEF Chain, ChainNext, Mine, MineApprove, MineCreateDeposit, RevertCreateDeposit,
         MineSetRateManager, MineRevert, ForeignDeposit, callVars, ChainStep
<1>2. /\ Len(wallet) \in Nat /\ Len(receipts) \in Nat /\ Len(receipts) <= Len(wallet)
      /\ WalletStays
  BY <1>1, Lengths DEF IInv, ChainOK, WalletStays, ChainStep
<1>3. ReceiptsStay
  <2>1. CASE UNCHANGED receipts
    BY <1>2, <2>1 DEF ReceiptsStay
  <2>2. ASSUME NEW receipt, Unmined, receipts' = Append(receipts, receipt)
        PROVE  ReceiptsStay
    BY <2>2, MiningAppends
  <2>3. CASE MineCreateDeposit
    BY <2>3, DepositAdds
  <2> QED BY <2>1, <2>2, <2>3 DEF Chain, ChainNext, Mine, MineApprove, RevertCreateDeposit,
                                  MineSetRateManager, MineRevert, ForeignDeposit
<1>4. RowsStay /\ (MineCreateDeposit \/ NoNewRow)
  <2>1. CASE UNCHANGED deposits
    BY <2>1, SameRowsNoNewRow
  <2>2. CASE ForeignDeposit
    BY <2>2, ForeignRowIsForeign
  <2>3. CASE MineSetRateManager
    BY <2>3, ManagerIsSetInPlace
  <2>4. CASE MineCreateDeposit
    BY <2>4, DepositAdds
  <2> QED BY <2>1, <2>2, <2>3, <2>4
          DEF Chain, ChainNext, Mine, MineApprove, RevertCreateDeposit, MineRevert
<1> QED BY <1>1, <1>2, <1>3, <1>4 DEF HistoryStays

(* The three kinds of step. *)
LEMMA EveryStep ==
  ASSUME IInv, [Next]_vars
  PROVE  /\ HistoryStays
         /\ \/ CallStep /\ UNCHANGED vars
            \/ /\ CallStep
               /\ \E c \in Calls : \/ HostCalls(c) \/ CuratorReceives(c) \/ CuratorEnds(c)
                                   \/ SignerEnds(c) \/ AttachHook(c) \/ HookRaises(c)
            \/ ChainStep /\ Chain
<1>1. Len(receipts) \in Nat /\ Len(wallet) \in Nat /\ Len(receipts) <= Len(wallet)
  BY Lengths DEF IInv, ChainOK
<1>2. CallStep => HistoryStays
  BY <1>1, SameRows DEF CallStep, HistoryStays, ReceiptsStay
<1>3. CASE UNCHANGED vars
  <2>1. CallStep
    BY <1>1, <1>3 DEF CallStep, WalletStays, vars, chainVars
  <2> QED BY <1>2, <1>3, <2>1
<1>4. ASSUME NEW c \in Calls,
             \/ HostCalls(c) \/ CuratorReceives(c) \/ CuratorEnds(c) \/ SignerEnds(c)
             \/ AttachHook(c) \/ HookRaises(c)
      PROVE  CallStep
  BY <1>4, CallsOnlyBroadcast
<1>5. CASE Chain
  BY <1>5, ChainOnlyMines
<1> QED BY <1>2, <1>3, <1>4, <1>5 DEF Next

LEMMA StepKeepsMade ==
  ASSUME IInv, TxsInv, MadeOK, [Next]_vars
  PROVE  MadeOK'
<1>1. HistoryStays
  BY EveryStep
<1>2. CASE UNCHANGED deposits
  BY <1>1, <1>2, MadeStays
<1>3. CASE Chain
  BY <1>1, <1>3, ChainOnlyMines, DepositKeepsMade, MadeStays DEF NoNewRow
<1>4. CASE CallStep
  BY <1>2, <1>4 DEF CallStep
<1> QED BY <1>3, <1>4, EveryStep

-----------------------------------------------------------------------------
(* The rate manager *)

(* A call that returned is done: nothing touches what was asked of it or   *)
(* the id it reported.                                                     *)
LEMMA ReturnedStays ==
  ASSUME IInv, NEW c \in Calls, [Next]_vars, AskedForBest(c)
  PROVE  AskedForBest(c)' /\ depositId'[c] = depositId[c]
<1>1. pc[c] = "returned" /\ pc \in [Calls -> {"idle", "post", "posted", "sign", "wait",
                                              "returned", "raised"}]
      /\ request \in [Calls -> Requests \cup {None}]
      /\ depositId \in [Calls -> (Nat \ {0}) \cup {None}]
  BY DEF IInv, TypeOK, AskedForBest
<1> DEFINE SameResult == /\ pc'[c] = pc[c] /\ request'[c] = request[c]
                          /\ depositId'[c] = depositId[c]
<1>2. SameResult
  <2>1. CASE UNCHANGED vars
    BY <2>1 DEF vars, callVars
  <2>2. ASSUME NEW d \in Calls, HostCalls(d)
        PROVE  SameResult
    BY <1>1, <2>2 DEF HostCalls, Refuse, StartPost, SkipPost, Call, Encode, Raise
  <2>3. ASSUME NEW d \in Calls, CuratorReceives(d) \/ CuratorEnds(d)
        PROVE  SameResult
    BY <1>1, <2>3 DEF CuratorReceives, CuratorEnds, CuratorAnswers, CuratorFails, Encode, Raise
  <2>4. ASSUME NEW d \in Calls, SignerEnds(d)
        PROVE  SameResult
    BY <1>1, <2>4 DEF SignerEnds, SignerBroadcasts, SignerReturns, SignerRaises, Raise
  <2>5. ASSUME NEW d \in Calls, AttachHook(d) \/ HookRaises(d)
        PROVE  SameResult
    BY <2>5 DEF AttachHook, HookRaises
  <2>6. CASE Chain
    BY <2>6 DEF Chain, callVars
  <2> QED BY <2>1, <2>2, <2>3, <2>4, <2>5, <2>6 DEF Next
<1> QED BY <1>1, <1>2 DEF AskedForBest

(* The owner of a row, and the call of a transaction. *)
LEMMA Owners ==
  ASSUME IInv
  PROVE  /\ \A n \in 1..Len(wallet) : wallet[n].call \in Calls
         /\ \A i \in 1..Len(deposits) : deposits[i].by \in Calls \cup {Foreign}
<1>1. \A n \in 1..Len(wallet) : wallet[n] \in Approves \cup Creates \cup Hooks
  BY DEF IInv, TypeOK
<1>2. \A i \in 1..Len(deposits) : deposits[i] \in OwnDeposits \cup ForeignRow
  BY DEF IInv, TypeOK
<1>3. \A n \in 1..Len(wallet) : wallet[n].call \in Calls
  BY <1>1 DEF Approves, Creates, Hooks
<1>4. \A i \in 1..Len(deposits) : deposits[i].by \in Calls \cup {Foreign}
  BY <1>2 DEF OwnDeposits, ForeignRow
<1> QED BY <1>3, <1>4

(* A transaction that a step of the calls adds. *)
LEMMA AddedByACall ==
  ASSUME IInv, NEW n, n \in 1..Len(wallet'), n \notin 1..Len(wallet), [Next]_vars
  PROVE  /\ n = Len(wallet) + 1 /\ Len(wallet') = n
         /\ \E c \in Calls :
           \/ AttachHook(c) /\ wallet'[n] = SetRateManagerTx(c)
           \/ /\ SignerBroadcasts(c) /\ wallet'[n] = Txs(c)[step[c]]
              /\ wallet'[n].call = c
              /\ step[c] = 1 => wallet'[n].kind = "approve"
              /\ step[c] = 2 => wallet'[n].kind = "createDeposit"
              /\ step[c] \in {1, 2}
<1>1. TypeOK
  BY DEF IInv
<1>2. wallet' # wallet
  OBVIOUS
<1>3. PICK c \in Calls : SignerBroadcasts(c) \/ AttachHook(c)
  BY <1>2 DEF Next, HostCalls, Refuse, StartPost, SkipPost, Call, CuratorReceives, CuratorEnds,
          CuratorAnswers, CuratorFails, SignerEnds, SignerReturns, SignerRaises, HookRaises,
          Chain, ChainNext, Mine, MineApprove, MineCreateDeposit, RevertCreateDeposit,
          MineSetRateManager, MineRevert, ForeignDeposit, vars, chainVars
<1>4. ASSUME NEW tx, wallet' = Append(wallet, tx)
      PROVE  wallet'[n] = tx /\ n = Len(wallet) + 1 /\ Len(wallet') = n
  <2>1. /\ wallet'[Len(wallet) + 1] = tx /\ Len(wallet') = Len(wallet) + 1
        /\ n \in 1..Len(wallet') <=> n \in 1..Len(wallet) \/ n = Len(wallet) + 1
    BY <1>1, <1>4, BroadcastAppends
  <2> QED BY <2>1
<1>5. CASE AttachHook(c)
  BY <1>4, <1>5 DEF AttachHook, Broadcast
<1>6. CASE SignerBroadcasts(c)
  <2>1. /\ wallet'[n] = Txs(c)[step[c]] /\ step[c] \in {1, 2}
        /\ n = Len(wallet) + 1 /\ Len(wallet') = n
    BY <1>4, <1>6 DEF SignerBroadcasts, Broadcast, IInv, CallOK
  <2>2. /\ step[c] = 1 => wallet'[n] = ApproveTx(c)
        /\ step[c] = 2 => wallet'[n] = CreateDepositTx(c)
    BY <2>1 DEF Txs
  <2> QED BY <1>6, <2>1, <2>2 DEF ApproveTx, CreateDepositTx
<1> QED BY <1>3, <1>5, <1>6

LEMMA StepKeepsHooks ==
  ASSUME LabelFree, IInv, HooksOK, [Next]_vars
  PROVE  HooksOK'
<1>1. HistoryStays /\ Foreign \notin Calls
  BY EveryStep, CallsAssumption
<1>2. \A c \in Calls : AskedForBest(c) => AskedForBest(c)' /\ depositId'[c] = depositId[c]
  BY ReturnedStays
<1>3. \A i \in 1..Len(deposits) : i \in 1..Len(deposits') /\ deposits'[i].by = deposits[i].by
  BY <1>1 DEF HistoryStays, RowsStay, RowStays
<1>4. ASSUME NEW n \in 1..Len(wallet'), wallet'[n].kind = "setRateManager"
      PROVE  OwnHook(n)'
  <2>1. PICK c : c = wallet'[n].call
    OBVIOUS
  <2>2. /\ AskedForBest(c) /\ wallet'[n].id = depositId[c] /\ c \in Calls
        /\ wallet'[n].id \in 1..Len(deposits) /\ deposits[wallet'[n].id].by = c
    <3>1. CASE n \in 1..Len(wallet)
      <4>1. wallet'[n] = wallet[n] /\ wallet[n].call \in Calls
        BY <1>1, <3>1, Owners DEF HistoryStays, WalletStays
      <4> QED BY <1>4, <2>1, <3>1, <4>1 DEF HooksOK, OwnHook
    <3>2. CASE n \notin 1..Len(wallet)
      <4>1. PICK d \in Calls : AttachHook(d) /\ wallet'[n] = SetRateManagerTx(d)
        BY <1>4, <3>2, AddedByACall
      <4>2. d = c /\ wallet'[n].id = depositId[c]
        BY <2>1, <4>1 DEF SetRateManagerTx
      <4> QED BY <4>1, <4>2 DEF AttachHook, HookAsked, AskedForBest, IInv, CallOK
    <3> QED BY <3>1, <3>2
  <2>3. AskedForBest(c)' /\ depositId'[c] = depositId[c]
    BY <1>2, <2>2
  <2>4. wallet'[n].id \in 1..Len(deposits') /\ deposits'[wallet'[n].id].by = c
    BY <1>3, <2>2
  <2> QED BY <2>1, <2>2, <2>3, <2>4 DEF OwnHook, AskedForBest
<1>5. ASSUME NEW i \in 1..Len(deposits), deposits[i].managed
      PROVE  \E n \in 1..Len(receipts') : ManagedBy(i, n)'
  <2>1. PICK n \in 1..Len(receipts) : ManagedBy(i, n)
    BY <1>5 DEF HooksOK
  <2>2. /\ n \in 1..Len(receipts') /\ receipts'[n] = receipts[n] /\ wallet'[n] = wallet[n]
        /\ deposits'[i].by = deposits[i].by
    BY <1>1, <1>3 DEF HistoryStays, WalletStays, ReceiptsStay
  <2> QED BY <2>1, <2>2 DEF ManagedBy, MinedWith, Mined
<1>6. ASSUME NEW i \in 1..Len(deposits'), deposits'[i].managed
      PROVE  \E n \in 1..Len(receipts') : ManagedBy(i, n)'
  <2>1. CASE MineSetRateManager
    <3>1. i \in 1..Len(deposits) /\ (deposits[i].managed \/ i = NextTx.id)
      BY <1>6, <2>1, ManagerIsSetInPlace
    <3>2. CASE i = NextTx.id
      <4>1. PICK n : n = Next1
        OBVIOUS
      <4>2. /\ NextTx = wallet[n] /\ n \in 1..Len(wallet) /\ wallet[n].kind = "setRateManager"
            /\ n \in 1..Len(receipts') /\ receipts'[n].outcome = "success" /\ wallet' = wallet
        <5>1. Unmined /\ receipts' = Append(receipts, Success(<<>>)) /\ UNCHANGED wallet
              /\ NextTx.kind = "setRateManager"
          BY <2>1 DEF MineSetRateManager
        <5>2. ReceiptsStay /\ MinesAs(Success(<<>>)) /\ Success(<<>>).outcome = "success"
          BY <5>1, MiningAppends DEF Success
        <5> QED BY <4>1, <5>1, <5>2 DEF MinesAs, ReceiptsStay, Next1
      <4>3. deposits[i].by = wallet[n].call
        BY <3>2, <4>2 DEF HooksOK, OwnHook
      <4>4. wallet'[n].id = i /\ wallet'[n].call = deposits'[i].by
        BY <1>3, <3>1, <3>2, <4>2, <4>3
      <4> QED BY <4>2, <4>4 DEF ManagedBy, MinedWith, Mined
    <3> QED BY <1>5, <3>1, <3>2
  <2>2. CASE ForeignDeposit
    BY <1>5, <1>6, <2>2, ForeignRowIsForeign, Lengths DEF IInv
  <2>3. CASE MineCreateDeposit
    <3>1. /\ Len(deposits) \in Nat /\ Len(deposits') = Len(deposits) + 1
          /\ ~deposits'[Len(deposits) + 1].managed
          /\ \A j \in 1..Len(deposits) : deposits'[j] = deposits[j]
      BY <2>3, DepositAdds, Lengths DEF IInv
    <3>2. i \in 1..Len(deposits) /\ deposits[i].managed
      BY <1>6, <3>1
    <3> QED BY <1>5, <3>2
  <2>4. CASE UNCHANGED deposits
    BY <1>5, <1>6, <2>4
  <2> QED BY <2>1, <2>2, <2>3, <2>4, EveryStep
          DEF CallStep, Chain, ChainNext, Mine, MineApprove, RevertCreateDeposit, MineRevert
<1> QED BY <1>4, <1>6 DEF HooksOK

-----------------------------------------------------------------------------
(* The allowance *)

(* Which transactions were mined as successful approves, after a step that *)
(* mines nothing, and after one that mines NextTx.                         *)
LEMMA SameApproved ==
  ASSUME HistoryStays, UNCHANGED receipts
  PROVE  \A n : ApprovedAt(n)' <=> ApprovedAt(n)
BY DEF HistoryStays, WalletStays, ReceiptsStay, ApprovedAt, MinedWith, Mined

LEMMA MinedSoFar ==
  ASSUME ReceiptsStay, UNCHANGED wallet, NEW receipt, MinesAs(receipt), NEW at, at = Next1
  PROVE  /\ \A n : n \in 1..Len(receipts') <=> n \in 1..Len(receipts) \/ n = at
         /\ \A n \in 1..Len(receipts) : n < at /\ receipts'[n] = receipts[n]
         /\ at \in Nat /\ receipts'[at] = receipt /\ wallet[at] = NextTx
         /\ \A n : ApprovedAt(n)' <=>
                     \/ ApprovedAt(n)
                     \/ n = at /\ receipt.outcome = "success" /\ NextTx.kind = "approve"
<1>1. /\ Len(receipts) \in Nat /\ at = Len(receipts) + 1 /\ Len(receipts') = at
      /\ receipts'[at] = receipt /\ wallet[at] = NextTx
      /\ \A n \in 1..Len(receipts) : receipts'[n] = receipts[n]
  BY DEF ReceiptsStay, MinesAs, Next1
<1>2. \A n : n \in 1..Len(receipts') <=> n \in 1..Len(receipts) \/ n = at
  BY <1>1
<1>3. \A n \in 1..Len(receipts) : n < at
  BY <1>1
<1> QED BY <1>1, <1>2, <1>3 DEF ApprovedAt, MinedWith, Mined

(* The owners of deposits after a step that adds no row of this wallet.    *)
LEMMA SameOwners ==
  ASSUME RowsStay, NoNewRow, NEW c \in Calls
  PROVE  Deposited(c)' <=> Deposited(c)
BY CallsAssumption DEF RowsStay, RowStays, NoNewRow, Deposited

(* A call's approve precedes its createDeposit, so a call whose approve is *)
(* being mined has no deposit.                                             *)
LEMMA ApprovesBeforeDepositing ==
  ASSUME IInv, TxsInv, MadeOK, NEW c \in Calls, NEW n, ApproveBy(c, n), ~Mined(n)
  PROVE  ~Deposited(c)
<1> SUFFICES ASSUME NEW i \in 1..Len(deposits), deposits[i].by = c
             PROVE  FALSE
  BY DEF Deposited
<1>1. PICK m \in 1..Len(receipts) : MadeBy(i, m)
  BY CallsAssumption DEF MadeOK
<1>2. CreateBy(c, m) /\ m \in 1..Len(wallet) /\ n \in 1..Len(wallet)
  BY <1>1, MadeByTheOnlyCreate DEF CreateBy, ApproveBy, TxBy
<1>3. n < m
  BY <1>2 DEF TxsInv, OwnOK, TxsOK
<1> QED BY <1>1, <1>2, <1>3, Lengths DEF IInv, Mined

(* An approve and a createDeposit of one call are of the same units. *)
LEMMA SameUnits ==
  ASSUME TxsInv, NEW c \in Calls, NEW a, NEW n, ApproveBy(c, a), CreateBy(c, n)
  PROVE  wallet[a].units = wallet[n].units
<1>1. TxsOK(c) /\ a \in 1..Len(wallet) /\ n \in 1..Len(wallet)
  BY DEF TxsInv, OwnOK, ApproveBy, CreateBy, TxBy
<1>2. wallet[a] = ApproveTx(c) /\ wallet[n] = CreateDepositTx(c)
  BY <1>1 DEF TxsOK
<1> QED BY <1>2 DEF ApproveTx, CreateDepositTx

LEMMA ApproverUnits ==
  ASSUME IInv, NEW c, NEW n, ApproveBy(c, n)
  PROVE  wallet[n].units \in Nat
<1>1. wallet[n] \in Approves \cup Creates \cup Hooks /\ wallet[n].kind = "approve"
  BY DEF IInv, TypeOK, ApproveBy, TxBy
<1> QED BY <1>1, UnitsAreNat DEF Approves, Creates, Hooks

LEMMA ApproverKnown ==
  ASSUME IInv, NEW n, ApprovedAt(n)
  PROVE  /\ n \in 1..Len(receipts) /\ n \in 1..Len(wallet)
         /\ wallet[n].call \in Calls /\ ApproveBy(wallet[n].call, n)
<1>1. n \in 1..Len(receipts) /\ wallet[n].kind = "approve"
  BY DEF ApprovedAt, MinedWith, Mined
<1>2. n \in 1..Len(wallet)
  BY <1>1, Lengths DEF IInv, ChainOK
<1> QED BY <1>1, <1>2, Owners DEF ApproveBy, TxBy

(* The grant outlives a step that neither approves nor deposits.           *)
LEMMA GrantStays ==
  ASSUME IInv, GrantOK, HistoryStays, NoNewRow, allowance' = allowance,
         \A n : ApprovedAt(n)' => ApprovedAt(n)
  PROVE  GrantOK'
<1> SUFFICES ASSUME allowance > 0 PROVE \E n \in 1..Len(receipts') : GrantedBy(n)'
  BY DEF GrantOK
<1>1. PICK n \in 1..Len(receipts) : GrantedBy(n)
  BY DEF GrantOK
<1>2. /\ n \in 1..Len(receipts') /\ wallet'[n] = wallet[n] /\ wallet[n].call \in Calls
      /\ ApprovedAt(n) /\ ApprovedAt(n)'
  BY <1>1, ApproverKnown, HistoryKept
     DEF GrantedBy, HistoryStays, WalletStays, ReceiptsStay
<1>3. PICK c \in Calls : c = wallet[n].call
  BY <1>2
<1>4. ~Deposited(c)'
  BY <1>1, <1>3, SameOwners DEF GrantedBy, HistoryStays
<1>5. ~Deposited(wallet[n].call)'
  BY <1>2, <1>3, <1>4 DEF Deposited
<1>6. \A m \in 1..Len(receipts') : ApprovedAt(m)' => m <= n
  BY <1>1, HistoryKept, ApproverKnown DEF GrantedBy
<1>7. GrantedBy(n)'
  BY <1>1, <1>2, <1>5, <1>6 DEF GrantedBy
<1> QED BY <1>2, <1>7

LEMMA ApproveGrants ==
  ASSUME IInv, TxsInv, MadeOK, HistoryStays, MineApprove
  PROVE  GrantOK'
<1>1. PICK at, c : at = Next1 /\ c = NextTx.call
  OBVIOUS
<1>2. PICK receipt : receipts' = Append(receipts, receipt) /\ receipt.outcome = "success"
  BY DEF MineApprove, Success
<1>3. /\ MinesAs(receipt) /\ UNCHANGED <<wallet, deposits>> /\ allowance' = NextTx.units
      /\ NextTx.kind = "approve" /\ NextTx.units \in Nat
  BY <1>2, MiningAppends, NextTxTyped DEF MineApprove
<1>4. /\ at \in 1..Len(receipts') /\ wallet[at] = NextTx /\ at \in Nat
      /\ \A n \in 1..Len(receipts') : n <= at
      /\ ApprovedAt(at)'
  BY <1>1, <1>2, <1>3, MinedSoFar DEF HistoryStays
<1>5. c \in Calls /\ ApproveBy(c, at) /\ ~Mined(at)
  BY <1>1, <1>3, Owners, Lengths DEF IInv, MinesAs, ApproveBy, TxBy, Mined, Next1
<1>6. ~Deposited(c)
  BY <1>5, ApprovesBeforeDepositing
<1>7. ~Deposited(wallet[at].call)'
  BY <1>1, <1>3, <1>4, <1>6 DEF Deposited
<1>8. GrantedBy(at)'
  BY <1>3, <1>4, <1>7 DEF GrantedBy
<1> QED BY <1>4, <1>8 DEF GrantOK

(* The createDeposit of the last approver takes all that is left; one of   *)
(* another call leaves the grant with the call that has no deposit.        *)
LEMMA DepositKeepsGrant ==
  ASSUME IInv, TxsInv, GrantOK, HistoryStays, MineCreateDeposit
  PROVE  GrantOK'
<1> SUFFICES ASSUME allowance' > 0 PROVE \E n \in 1..Len(receipts') : GrantedBy(n)'
  BY DEF GrantOK
<1>1. PICK at, d : at = Next1 /\ d = NextTx.call
  OBVIOUS
<1>2. /\ NextTx.units \in Nat /\ allowance' = allowance - NextTx.units
      /\ allowance >= NextTx.units /\ CreateBy(d, at) /\ NextTx.kind = "createDeposit"
      /\ d \in Calls /\ UNCHANGED wallet /\ allowance \in Nat
      /\ Len(deposits') = Len(deposits) + 1 /\ Len(deposits) \in Nat
      /\ deposits'[Len(deposits) + 1].by = d
      /\ \A i \in 1..Len(deposits) : deposits'[i] = deposits[i]
  BY <1>1, DepositAdds, Lengths, SMTT(30) DEF IInv, TypeOK
<1>3. PICK n \in 1..Len(receipts) : GrantedBy(n)
  BY <1>2 DEF GrantOK
<1>4. PICK c \in Calls : c = wallet[n].call /\ ApproveBy(c, n)
  BY <1>3, ApproverKnown DEF GrantedBy
<1>5. PICK receipt : MinesAs(receipt)
  BY DepositAdds
<1>6. wallet[at] = NextTx /\ ReceiptsStay
  BY <1>1, <1>5 DEF MinesAs, HistoryStays
<1>7. allowance <= wallet[n].units
  BY <1>3 DEF GrantedBy
<1>8. c # d
  <2>1. c = d => wallet[n].units = NextTx.units
    BY <1>2, <1>4, <1>6, SameUnits
  <2> QED BY <1>2, <1>7, <2>1
<1>9. ~Deposited(wallet[n].call)'
  <2>1. ~Deposited(c)
    BY <1>3, <1>4 DEF GrantedBy
  <2> QED BY <1>2, <1>4, <1>8, <2>1 DEF Deposited
<1>10. \A m : ApprovedAt(m)' <=> ApprovedAt(m)
  BY <1>1, <1>2, <1>5, <1>6, MinedSoFar
<1>11. GrantedBy(n)'
  <2>1. ApprovedAt(n)' /\ \A m \in 1..Len(receipts') : ApprovedAt(m)' => m <= n
    BY <1>3, <1>10, ApproverKnown DEF GrantedBy
  <2>2. allowance' <= wallet'[n].units
    <3>1. wallet[n].units \in Int
      BY <1>4, ApproverUnits
    <3> QED BY <1>2, <1>7, <3>1
  <2> QED BY <1>9, <2>1, <2>2 DEF GrantedBy
<1>12. n \in 1..Len(receipts')
  BY <1>6 DEF ReceiptsStay
<1> QED BY <1>11, <1>12

LEMMA StepKeepsGrant ==
  ASSUME IInv, TxsInv, MadeOK, GrantOK, [Next]_vars
  PROVE  GrantOK'
<1>1. HistoryStays
  BY EveryStep
<1>2. CASE CallStep
  BY <1>1, <1>2, SameApproved, GrantStays DEF CallStep, NoNewRow
<1>3. CASE MineApprove
  BY <1>1, <1>3, ApproveGrants
<1>4. CASE MineCreateDeposit
  BY <1>1, <1>4, DepositKeepsGrant
<1>5. ASSUME NEW receipt, Unmined, receipts' = Append(receipts, receipt),
             receipt.outcome # "success" \/ NextTx.kind # "approve",
             UNCHANGED wallet, allowance' = allowance, NoNewRow
      PROVE  GrantOK'
  <2>1. PICK at : at = Next1
    OBVIOUS
  <2>2. \A n : ApprovedAt(n)' => ApprovedAt(n)
    BY <1>5, <2>1, MiningAppends, MinedSoFar
  <2> QED BY <1>1, <1>5, <2>2, GrantStays
<1>6. CASE RevertCreateDeposit \/ MineRevert
  BY <1>5, <1>6, SameRowsNoNewRow DEF RevertCreateDeposit, MineRevert, Reverted
<1>7. CASE MineSetRateManager
  BY <1>5, <1>7, ManagerIsSetInPlace DEF MineSetRateManager
<1>8. CASE ForeignDeposit
  BY <1>1, <1>8, ForeignRowIsForeign, SameApproved, GrantStays DEF ForeignDeposit
<1> QED BY <1>2, <1>3, <1>4, <1>6, <1>7, <1>8, EveryStep DEF Chain, ChainNext, Mine

(* All of a grant is left until something else than a rate manager is      *)
(* mined.                                                                  *)
LEMMA StepKeepsWhole ==
  ASSUME IInv, WholeOK, [Next]_vars
  PROVE  WholeOK'
<1>1. HistoryStays
  BY EveryStep
<1>2. CASE UNCHANGED <<receipts, allowance>>
  BY <1>1, <1>2, SameApproved
     DEF WholeOK, OnlyHooksSince, HistoryStays, WalletStays, ReceiptsStay
<1>3. ASSUME NEW receipt, Unmined, receipts' = Append(receipts, receipt), UNCHANGED wallet,
             \/ /\ NextTx.kind = "approve" /\ receipt.outcome = "success"
                /\ allowance' = NextTx.units
             \/ NextTx.kind \in {"approve", "createDeposit"} /\ receipt.outcome # "success"
             \/ NextTx.kind = "createDeposit"
             \/ NextTx.kind = "setRateManager" /\ allowance' = allowance
      PROVE  WholeOK'
  <2>1. PICK at : at = Next1
    OBVIOUS
  <2>2. /\ \A n : n \in 1..Len(receipts') <=> n \in 1..Len(receipts) \/ n = at
        /\ \A n \in 1..Len(receipts) : n < at
        /\ at \in Nat /\ wallet[at] = NextTx
        /\ \A n : ApprovedAt(n)' <=>
                    \/ ApprovedAt(n)
                    \/ n = at /\ receipt.outcome = "success" /\ NextTx.kind = "approve"
    BY <1>3, <2>1, MiningAppends, MinedSoFar
  <2> SUFFICES ASSUME NEW a \in 1..Len(receipts'), ApprovedAt(a)', OnlyHooksSince(a)'
               PROVE  allowance' = wallet'[a].units
    BY DEF WholeOK
  <2>3. CASE a = at
    <3>1. Len(receipts) \in Nat /\ at = Len(receipts) + 1
      BY <2>1, Lengths DEF IInv, Next1
    <3>2. ~ApprovedAt(a)
      BY <2>3, <3>1 DEF ApprovedAt, MinedWith, Mined
    <3> QED BY <1>3, <2>2, <2>3, <3>2
  <2>4. CASE a \in 1..Len(receipts)
    <3>1. at \in (a + 1)..Len(receipts')
      BY <2>1, <2>2, <2>4, <1>3, MiningAppends, Lengths DEF IInv, MinesAs, Next1
    <3>2. NextTx.kind = "setRateManager" /\ allowance' = allowance
      BY <1>3, <2>2, <3>1 DEF OnlyHooksSince
    <3>3. ApprovedAt(a)
      BY <2>2, <2>4, <3>2
    <3>4. OnlyHooksSince(a)
      <4>1. \A m \in (a + 1)..Len(receipts) : m \in (a + 1)..Len(receipts')
        BY <1>1, <2>4 DEF HistoryStays, ReceiptsStay
      <4> QED BY <1>3, <4>1 DEF OnlyHooksSince
    <3> QED BY <1>3, <2>4, <3>2, <3>3, <3>4 DEF WholeOK
  <2> QED BY <2>2, <2>3, <2>4
<1>4. CASE MineApprove
  BY <1>3, <1>4 DEF MineApprove, Success
<1>5. CASE MineCreateDeposit
  <2>1. /\ Unmined /\ UNCHANGED wallet /\ NextTx.kind = "createDeposit"
        /\ \E receipt : receipts' = Append(receipts, receipt)
    BY <1>5 DEF MineCreateDeposit
  <2> QED BY <1>3, <2>1
<1>6. CASE RevertCreateDeposit
  BY <1>3, <1>6 DEF RevertCreateDeposit
<1>7. CASE MineSetRateManager
  BY <1>3, <1>7 DEF MineSetRateManager
<1>8. CASE MineRevert
  <2>1. NextTx.kind \in {"approve", "createDeposit", "setRateManager"}
    <3>1. NextTx \in Approves \cup Creates \cup Hooks
      BY <1>8, NextTxTyped DEF MineRevert
    <3> QED BY <3>1 DEF Approves, Creates, Hooks
  <2> QED BY <1>3, <1>8, <2>1 DEF MineRevert, Reverted
<1>9. CASE ForeignDeposit
  BY <1>2, <1>9 DEF ForeignDeposit
<1> QED BY <1>2, <1>4, <1>5, <1>6, <1>7, <1>8, <1>9, EveryStep
        DEF CallStep, Chain, ChainNext, Mine

-----------------------------------------------------------------------------
(* A createDeposit that finds too little allowance *)

(* The transactions of the wallet are of three kinds. *)
LEMMA Kinds ==
  ASSUME IInv, NEW n \in 1..Len(wallet)
  PROVE  wallet[n].kind \in {"approve", "createDeposit", "setRateManager"}
<1>1. wallet[n] \in Approves \cup Creates \cup Hooks
  BY DEF IInv, TypeOK
<1> QED BY <1>1 DEF Approves, Creates, Hooks

LEMMA ShortOfAllowance ==
  ASSUME IInv, TxsInv, WholeOK, Unmined, NextTx.kind = "createDeposit",
         allowance < NextTx.units, NEW at, at = Next1
  PROVE  \E a \in 1..(at - 1) :
           /\ ApproveBy(NextTx.call, a)
           /\ \/ receipts[a].outcome # "success"
              \/ \E m \in (a + 1)..(at - 1) :
                   wallet[m].call # NextTx.call /\ wallet[m].kind # "setRateManager"
<1>1. /\ Len(receipts) \in Nat /\ Len(wallet) \in Nat /\ at = Len(receipts) + 1
      /\ at \in 1..Len(wallet) /\ NextTx = wallet[at] /\ Len(receipts) <= Len(wallet)
  BY Lengths DEF IInv, Unmined, Next1, NextTx, ChainOK
<1>2. PICK c \in Calls : c = NextTx.call /\ CreateBy(c, at)
  BY <1>1, Owners DEF CreateBy, TxBy
<1>3. TxsOK(c)
  BY DEF TxsInv, OwnOK
<1>4. PICK a \in 1..Len(wallet) : ApproveBy(c, a)
  BY <1>1, <1>2, <1>3 DEF TxsOK
<1>5. a < at /\ a \in 1..(at - 1) /\ a \in 1..Len(receipts)
  BY <1>1, <1>2, <1>3, <1>4 DEF TxsOK
<1>6. SUFFICES ASSUME receipts[a].outcome = "success",
                      \A m \in (a + 1)..(at - 1) :
                        wallet[m].call = c \/ wallet[m].kind = "setRateManager"
               PROVE  FALSE
  BY <1>2, <1>4, <1>5
<1>7. OnlyHooksSince(a)
  <2> SUFFICES ASSUME NEW m \in (a + 1)..Len(receipts), wallet[m].kind # "setRateManager"
               PROVE  FALSE
    BY DEF OnlyHooksSince
  <2>1. m \in 1..Len(wallet) /\ m # a /\ m # at /\ m \in (a + 1)..(at - 1)
    BY <1>1, <1>5
  <2>2. wallet[m].call = c
    BY <1>6, <2>1
  <2>3. ApproveBy(c, m) \/ CreateBy(c, m)
    BY <2>1, <2>2, Kinds DEF ApproveBy, CreateBy, TxBy
  <2> QED BY <1>1, <1>2, <1>3, <1>4, <2>1, <2>3 DEF TxsOK
<1>8. allowance = wallet[a].units
  BY <1>4, <1>5, <1>6, <1>7 DEF WholeOK, ApprovedAt, MinedWith, Mined, ApproveBy
<1>9. wallet[a].units = NextTx.units
  BY <1>1, <1>2, <1>4, SameUnits
<1>10. NextTx.units \in Nat
  BY NextTxTyped
<1> QED BY <1>8, <1>9, <1>10

LEMMA StepKeepsShort ==
  ASSUME IInv, ShortOK, [Next]_vars
  PROVE  ShortOK'
<1>1. HistoryStays
  BY EveryStep
<1>2. ASSUME NEW n \in 1..Len(receipts), receipts'[n].outcome = "allowance"
      PROVE  wallet'[n].kind = "createDeposit"
  BY <1>1, <1>2 DEF ShortOK, HistoryStays, WalletStays, ReceiptsStay
<1>3. ASSUME NEW receipt, Unmined, receipts' = Append(receipts, receipt), UNCHANGED wallet,
             receipt.outcome # "allowance" \/ NextTx.kind = "createDeposit"
      PROVE  ShortOK'
  <2>1. PICK at : at = Next1
    OBVIOUS
  <2>2. /\ \A n : n \in 1..Len(receipts') <=> n \in 1..Len(receipts) \/ n = at
        /\ wallet[at] = NextTx /\ receipts'[at] = receipt
    BY <1>3, <2>1, MiningAppends, MinedSoFar
  <2> QED BY <1>2, <1>3, <2>2 DEF ShortOK
<1>4. CASE UNCHANGED receipts
  BY <1>2, <1>4 DEF ShortOK
<1>5. CASE MineApprove \/ MineSetRateManager \/ MineRevert \/ RevertCreateDeposit
  BY <1>3, <1>5 DEF MineApprove, MineSetRateManager, MineRevert, RevertCreateDeposit,
                    Success, Reverted
<1>6. CASE MineCreateDeposit
  BY <1>3, <1>6 DEF MineCreateDeposit
<1> QED BY <1>4, <1>5, <1>6, EveryStep DEF CallStep, Chain, ChainNext, Mine, ForeignDeposit

LEMMA StepKeepsLost ==
  ASSUME IInv, TxsInv, WholeOK, AllowanceLostToAnother, [Next]_vars
  PROVE  AllowanceLostToAnother'
<1>1. HistoryStays
  BY EveryStep
<1>2. ASSUME NEW n \in 1..Len(receipts), receipts'[n].outcome = "allowance"
      PROVE  \E a \in 1..(n - 1) :
               /\ ApproveBy(wallet[n].call, a)'
               /\ \/ receipts'[a].outcome # "success"
                  \/ \E m \in (a + 1)..(n - 1) :
                       wallet'[m].call # wallet'[n].call /\ wallet'[m].kind # "setRateManager"
  <2>1. /\ Len(receipts) \in Nat /\ Len(wallet) \in Nat /\ Len(receipts) <= Len(wallet)
        /\ \A m \in 1..n : receipts'[m] = receipts[m] /\ wallet'[m] = wallet[m]
        /\ \A m \in 1..n : m \in 1..Len(wallet) /\ m \in 1..Len(wallet')
    BY <1>1, SMTT(30) DEF HistoryStays, WalletStays, ReceiptsStay
  <2>2. receipts[n].outcome = "allowance"
    BY <1>2, <2>1
  <2>3. PICK a \in 1..(n - 1) :
          /\ ApproveBy(wallet[n].call, a)
          /\ \/ receipts[a].outcome # "success"
             \/ \E m \in (a + 1)..(n - 1) :
                  wallet[m].call # wallet[n].call /\ wallet[m].kind # "setRateManager"
    BY <2>2 DEF AllowanceLostToAnother
  <2>4. a \in 1..n /\ n \in 1..n /\ \A m \in (a + 1)..(n - 1) : m \in 1..n
    OBVIOUS
  <2>5. ApproveBy(wallet[n].call, a)'
    BY <2>1, <2>3, <2>4 DEF ApproveBy, TxBy
  <2> QED BY <2>1, <2>3, <2>4, <2>5
<1>3. ASSUME NEW receipt, Unmined, receipts' = Append(receipts, receipt), UNCHANGED wallet,
             \/ receipt.outcome # "allowance"
             \/ NextTx.kind = "createDeposit" /\ allowance < NextTx.units
      PROVE  AllowanceLostToAnother'
  <2>1. PICK at : at = Next1
    OBVIOUS
  <2>2. /\ \A n : n \in 1..Len(receipts') <=> n \in 1..Len(receipts) \/ n = at
        /\ \A n \in 1..Len(receipts) : n < at /\ receipts'[n] = receipts[n]
        /\ at \in Nat /\ wallet[at] = NextTx /\ receipts'[at] = receipt
    BY <1>3, <2>1, MiningAppends, MinedSoFar
  <2>3. ASSUME receipts'[at].outcome = "allowance"
        PROVE  \E a \in 1..(at - 1) :
               /\ ApproveBy(wallet[at].call, a)'
               /\ \/ receipts'[a].outcome # "success"
                  \/ \E m \in (a + 1)..(at - 1) :
                       wallet'[m].call # wallet'[at].call /\ wallet'[m].kind # "setRateManager"
    <3>1. PICK a \in 1..(at - 1) :
           /\ ApproveBy(NextTx.call, a)
           /\ \/ receipts[a].outcome # "success"
              \/ \E m \in (a + 1)..(at - 1) :
                   wallet[m].call # NextTx.call /\ wallet[m].kind # "setRateManager"
      BY <1>3, <2>1, <2>2, <2>3, ShortOfAllowance
    <3>2. a \in 1..Len(receipts)
      BY <2>1, Lengths DEF IInv, Next1
    <3>3. receipts'[a] = receipts[a] /\ ApproveBy(wallet[at].call, a)'
      BY <1>3, <2>2, <3>1, <3>2 DEF ApproveBy, TxBy
    <3> QED BY <1>3, <2>2, <3>1, <3>3
  <2> QED BY <1>2, <2>2, <2>3 DEF AllowanceLostToAnother
<1>4. CASE UNCHANGED receipts
  BY <1>2, <1>4 DEF AllowanceLostToAnother
<1>5. CASE MineApprove \/ MineSetRateManager \/ MineRevert \/ RevertCreateDeposit
  BY <1>3, <1>5 DEF MineApprove, MineSetRateManager, MineRevert, RevertCreateDeposit,
                    Success, Reverted
<1>6. CASE MineCreateDeposit
  <2>1. PICK logs : receipts' = Append(receipts, Success(logs))
    BY <1>6 DEF MineCreateDeposit
  <2> QED BY <1>3, <1>6, <2>1 DEF MineCreateDeposit, Success
<1> QED BY <1>4, <1>5, <1>6, EveryStep DEF CallStep, Chain, ChainNext, Mine, ForeignDeposit

-----------------------------------------------------------------------------
(* The invariant *)

LEMMA InitLedger == Init => LedgerInv
<1> SUFFICES ASSUME Init PROVE LedgerInv
  OBVIOUS
<1>1. /\ wallet = <<>> /\ receipts = <<>> /\ allowance = 0 /\ deposits = <<>>
  BY DEF Init, ChainInit
<1> QED BY <1>1 DEF LedgerInv, MadeOK, GrantOK, WholeOK, ShortOK,
               AllowanceLostToAnother

LEMMA StepKeepsLedger == IInv /\ TxsInv /\ LedgerInv /\ [Next]_vars => LedgerInv'
<1> SUFFICES ASSUME IInv, TxsInv, LedgerInv, [Next]_vars PROVE LedgerInv'
  OBVIOUS
<1>1. IInv' /\ MadeOK /\ GrantOK /\ WholeOK /\ ShortOK
      /\ AllowanceLostToAnother
  BY StepIsSafe DEF LedgerInv
<1> QED BY <1>1, StepKeepsMade, StepKeepsGrant, StepKeepsWhole, StepKeepsShort,
        StepKeepsLost DEF LedgerInv

LEMMA LedgerAlways == Spec => [](IInv /\ TxsInv /\ LedgerInv)
<1>1. Spec => []IInv /\ []TxsInv
  BY AlwaysSafe, TxsAlways
<1> QED BY <1>1, InitLedger, StepKeepsLedger, PTL DEF Spec

(* Whatever the interleaving, the signers and the reverts, a deposit of    *)
(* this wallet holds the units, platform and currency its own call asked   *)
(* for, pays the payee the caller named or the one whose record the        *)
(* curator minted for this call, and is the only deposit of its call.      *)
THEOREM DepositsAreAsAsked == Spec => []DepositsMatchTheirCalls
<1>1. IInv /\ TxsInv /\ LedgerInv => DepositsMatchTheirCalls
  <2> SUFFICES ASSUME IInv, TxsInv, LedgerInv, NEW i \in 1..Len(deposits),
                      deposits[i].by # Foreign
               PROVE  LET c == deposits[i].by
                          r == request[c]
                      IN  /\ deposits[i].units = ParseUsdcAmount(r.amount)
                          /\ deposits[i].platform = r.platform
                          /\ deposits[i].currency = r.currency
                          /\ \/ deposits[i].digest = r.supplied
                             \/ /\ r.supplied = None
                                /\ deposits[i].digest = DigestOf(r)
                                /\ [call |-> c, platform |-> r.platform,
                                    handle |-> Handle[r]] \in makers
                          /\ \A j \in 1..Len(deposits) : deposits[j].by = c => j = i
    BY DEF DepositsMatchTheirCalls
  <2>1. PICK c \in Calls : c = deposits[i].by
    BY Owners
  <2>2. PICK n \in 1..Len(receipts) : MadeBy(i, n)
    BY DEF LedgerInv, MadeOK
  <2>3. CreateBy(c, n) /\ n \in 1..Len(wallet) /\ OwnOK(c)
    BY <2>1, <2>2, MadeByTheOnlyCreate DEF CreateBy, TxBy, TxsInv
  <2>4. wallet[n] = CreateDepositTx(c) /\ HandedBy(c) = 2
    BY <2>3 DEF OwnOK, TxsOK
  <2>5. step[c] > 0
    <3>1. step[c] \in 0..3
      BY DEF IInv, TypeOK
    <3> QED BY <2>4, <3>1 DEF HandedBy
  <2>6. DigestOK(c)
    BY <2>3, <2>5 DEF OwnOK, PhaseOK
  <2>7. /\ deposits[i].units = UnitsOf(c) /\ deposits[i].platform = request[c].platform
        /\ deposits[i].currency = request[c].currency /\ deposits[i].digest = digest[c]
    BY <2>2, <2>4 DEF MadeBy, CreateDepositTx
  <2>8. \A j \in 1..Len(deposits) : deposits[j].by = c => j = i
    BY <2>1 DEF LedgerInv, MadeOK
  <2> QED BY <2>1, <2>6, <2>7, <2>8 DEF DigestOK, RecordOf, UnitsOf
<1> QED BY <1>1, LedgerAlways, PTL

(* A deposit gets the Delegate rate manager by the follow-up of the Best   *)
(* cash-out that made it, and every follow-up names the deposit of its own *)
(* call: the ids of two calls are never exchanged, and none is another     *)
(* maker's.  No signer may answer with an "id" that is something else.     *)
THEOREM HooksReachTheirOwn ==
  ASSUME LabelFree
  PROVE  Spec => []HooksManageTheirOwn
<1>1. Init => HooksOK
  <2> SUFFICES ASSUME Init PROVE HooksOK
    OBVIOUS
  <2>1. wallet = <<>> /\ deposits = <<>>
    BY DEF Init, ChainInit
  <2> QED BY <2>1 DEF HooksOK
<1>2. IInv /\ HooksOK /\ [Next]_vars => HooksOK'
  BY StepKeepsHooks
<1>3. HooksOK => HooksManageTheirOwn
  BY DEF HooksOK, OwnHook, ManagedBy, AskedForBest, HooksManageTheirOwn
<1> QED BY <1>1, <1>2, <1>3, AlwaysSafe, PTL DEF Spec

(* What EscrowV2 may still pull was granted by a call without a deposit: a *)
(* call that deposited leaves no allowance of its own, however many calls  *)
(* share the wallet and whichever of their transactions revert.            *)
THEOREM AllowanceIsUsedUp == Spec => []NoAllowanceOutlivesItsDeposit
<1>1. IInv /\ LedgerInv => NoAllowanceOutlivesItsDeposit
  <2> SUFFICES ASSUME IInv, LedgerInv, allowance > 0
               PROVE  \E n \in 1..Len(receipts) :
                        /\ wallet[n].kind = "approve"
                        /\ MinedWith(n, "success")
                        /\ \A m \in (n + 1)..Len(receipts) :
                             ~(wallet[m].kind = "approve" /\ MinedWith(m, "success"))
                        /\ \A i \in 1..Len(deposits) : deposits[i].by # wallet[n].call
    BY DEF NoAllowanceOutlivesItsDeposit
  <2>1. PICK n \in 1..Len(receipts) : GrantedBy(n)
    BY DEF LedgerInv, GrantOK
  <2>2. \A m \in (n + 1)..Len(receipts) : m \in 1..Len(receipts) /\ ~(m <= n)
    BY Lengths DEF IInv
  <2> QED BY <2>1, <2>2 DEF GrantedBy, ApprovedAt, Deposited
<1> QED BY <1>1, LedgerAlways, PTL

(* A createDeposit that reverts for want of allowance was let down by its  *)
(* own approve or overtaken by another call's transaction.                 *)
THEOREM ShortOnlyByOthers == Spec => []AllowanceLostToAnother
<1>1. LedgerInv => AllowanceLostToAnother
  BY DEF LedgerInv
<1> QED BY <1>1, LedgerAlways, PTL

-----------------------------------------------------------------------------
(* A host that makes one call at a time *)

OneActive == \A c, d \in Calls : Active(c) /\ Active(d) => c = d

(* Since the approve of the active call, only it and earlier calls'        *)
(* follow-ups have broadcast.                                              *)
OnlyOwnSince ==
  \A c \in Calls : \A a, m \in 1..Len(wallet) :
    Active(c) /\ ApproveBy(c, a) /\ a < m
      => wallet[m].kind = "setRateManager" \/ wallet[m].call = c

(* Between a call's approve and its createDeposit are only follow-ups.     *)
OnlyHooksBetween ==
  \A c \in Calls : \A a, m, n \in 1..Len(wallet) :
    ApproveBy(c, a) /\ CreateBy(c, n) /\ a < m /\ m < n
      => wallet[m].kind = "setRateManager"

AloneInv == OneActive /\ OnlyOwnSince /\ OnlyHooksBetween

(* A call becomes active only when it is made, while no other is active.   *)
LEMMA BecomesActive ==
  ASSUME Sequential, IInv, [Next]_vars
  PROVE  \/ \A d \in Calls : Active(d)' => Active(d)
         \/ \E c \in Calls :
              /\ pc[c] = "idle" /\ UNCHANGED wallet
              /\ \A d \in Calls : d # c => ~Active(d)'
<1>1. pc \in [Calls -> {"idle", "post", "posted", "sign", "wait", "returned", "raised"}]
  BY DEF IInv, TypeOK
<1>2. ASSUME NEW c \in Calls, NEW r, Call(c, r),
             \A d \in Calls : d # c => pc'[d] = pc[d]
      PROVE  \E e \in Calls :
              /\ pc[e] = "idle" /\ UNCHANGED wallet
              /\ \A d \in Calls : d # e => ~Active(d)'
  BY <1>2 DEF Call, Active, Ended, chainVars
<1>3. ASSUME NEW c \in Calls, HostCalls(c)
      PROVE  \E e \in Calls :
              /\ pc[e] = "idle" /\ UNCHANGED wallet
              /\ \A d \in Calls : d # e => ~Active(d)'
  <2>1. PICK r \in Requests : Refuse(c, r) \/ StartPost(c, r) \/ SkipPost(c, r)
    BY <1>3 DEF HostCalls
  <2>2. Call(c, r) /\ \A d \in Calls : d # c => pc'[d] = pc[d]
    BY <1>1, <2>1 DEF Refuse, StartPost, SkipPost, Encode, Raise
  <2> QED BY <1>2, <2>2
<1>4. ASSUME NEW c \in Calls, CuratorReceives(c) \/ CuratorEnds(c) \/ SignerEnds(c)
      PROVE  \A d \in Calls : Active(d)' => Active(d)
  BY <1>1, <1>4 DEF CuratorReceives, CuratorEnds, CuratorAnswers, CuratorFails, Encode, Raise,
                    SignerEnds, SignerBroadcasts, SignerReturns, SignerRaises, Active, Ended
<1>5. CASE UNCHANGED pc
  BY <1>5 DEF Active
<1>6. ASSUME NEW c \in Calls, AttachHook(c) \/ HookRaises(c)
      PROVE  UNCHANGED pc
  BY <1>6 DEF AttachHook, HookRaises
<1>7. Chain \/ UNCHANGED vars => UNCHANGED pc
  BY DEF Chain, callVars, vars
<1> QED BY <1>3, <1>4, <1>5, <1>6, <1>7 DEF Next

LEMMA InitAlone == Init => AloneInv
<1> SUFFICES ASSUME Init PROVE AloneInv
  OBVIOUS
<1>1. wallet = <<>> /\ \A c \in Calls : pc[c] = "idle"
  BY DEF Init, ChainInit
<1> QED BY <1>1 DEF AloneInv, OneActive, OnlyOwnSince, OnlyHooksBetween, Active

LEMMA StepKeepsAlone ==
  ASSUME Sequential, IInv, TxsInv, TxsInv', AloneInv, [Next]_vars
  PROVE  AloneInv'
<1>1. /\ Len(wallet) \in Nat /\ Len(wallet') \in Nat /\ Len(wallet') >= Len(wallet)
      /\ \A n \in 1..Len(wallet) : n \in 1..Len(wallet') /\ wallet'[n] = wallet[n]
  BY EveryStep DEF HistoryStays, WalletStays
<1>2. \A c : \A n \in 1..Len(wallet) : /\ ApproveBy(c, n)' <=> ApproveBy(c, n)
                                       /\ CreateBy(c, n)' <=> CreateBy(c, n)
  BY <1>1 DEF ApproveBy, CreateBy, TxBy
<1>3. OneActive'
  BY BecomesActive DEF AloneInv, OneActive
(* What a new transaction is, and that the active call signed it. *)
<1>4. ASSUME NEW m \in 1..Len(wallet'), m \notin 1..Len(wallet)
      PROVE  /\ \A a \in 1..Len(wallet') : a < m => a \in 1..Len(wallet)
             /\ \/ wallet'[m].kind = "setRateManager"
                \/ wallet'[m].call \in Calls /\ Active(wallet'[m].call)
  <2>1. m = Len(wallet) + 1 /\ Len(wallet') = m
    BY <1>4, AddedByACall
  <2>2. PICK d \in Calls : \/ AttachHook(d) /\ wallet'[m] = SetRateManagerTx(d)
                           \/ SignerBroadcasts(d) /\ wallet'[m].call = d
    BY <1>4, AddedByACall
  <2>3. SignerBroadcasts(d) => Active(d)
    BY DEF SignerBroadcasts, Active, Ended
  <2> QED BY <1>1, <2>1, <2>2, <2>3 DEF SetRateManagerTx
<1>5. OnlyOwnSince'
  <2> SUFFICES ASSUME NEW c \in Calls, NEW a \in 1..Len(wallet'), NEW m \in 1..Len(wallet'),
                      Active(c)', ApproveBy(c, a)', a < m
               PROVE  wallet'[m].kind = "setRateManager" \/ wallet'[m].call = c
    BY DEF OnlyOwnSince
  <2>1. CASE \A d \in Calls : Active(d)' => Active(d)
    <3>1. Active(c)
      BY <2>1
    <3>2. CASE m \in 1..Len(wallet)
      <4>1. a \in 1..Len(wallet)
        BY <1>1, <3>2
      <4> QED BY <1>1, <1>2, <3>1, <3>2, <4>1 DEF AloneInv, OnlyOwnSince
    <3>3. CASE m \notin 1..Len(wallet)
      BY <1>4, <3>1, <3>3 DEF AloneInv, OneActive
    <3> QED BY <3>2, <3>3
  <2>2. CASE \E e \in Calls : /\ pc[e] = "idle" /\ UNCHANGED wallet
                              /\ \A d \in Calls : d # e => ~Active(d)'
    <3>1. pc[c] = "idle" /\ UNCHANGED wallet
      BY <2>2
    <3>2. ApproveBy(c, a)
      BY <1>2, <3>1
    <3> QED BY <3>1, <3>2 DEF IInv, TraceOK, Traceless, ApproveBy, TxBy
  <2> QED BY <2>1, <2>2, BecomesActive
<1>6. OnlyHooksBetween'
  <2> SUFFICES ASSUME NEW c \in Calls, NEW a \in 1..Len(wallet'), NEW m \in 1..Len(wallet'),
                      NEW n \in 1..Len(wallet'),
                      ApproveBy(c, a)', CreateBy(c, n)', a < m, m < n,
                      wallet'[m].kind # "setRateManager"
               PROVE  FALSE
    BY DEF OnlyHooksBetween
  <2>1. CASE n \in 1..Len(wallet)
    <3>1. a \in 1..Len(wallet) /\ m \in 1..Len(wallet)
      BY <1>1, <2>1
    <3> QED BY <1>1, <1>2, <2>1, <3>1 DEF AloneInv, OnlyHooksBetween
  <2>2. CASE n \notin 1..Len(wallet)
    <3>1. m \in 1..Len(wallet) /\ a \in 1..Len(wallet)
      BY <1>1, <1>4, <2>2
    <3>2. wallet'[n].call = c /\ wallet'[n].kind = "createDeposit"
      BY DEF CreateBy, TxBy
    <3>3. Active(c)
      BY <1>4, <2>2, <3>2
    <3>4. wallet[m].call = c /\ wallet[m].kind # "setRateManager"
      BY <1>1, <1>2, <3>1, <3>3 DEF AloneInv, OnlyOwnSince
    <3>5. ApproveBy(c, m) \/ CreateBy(c, m)
      BY <3>1, <3>4, Kinds DEF ApproveBy, CreateBy, TxBy
    <3>6. ApproveBy(c, m)' \/ CreateBy(c, m)'
      BY <1>2, <3>1, <3>5
    <3>7. TxsOK(c)'
      BY DEF TxsInv, OwnOK
    <3>8. m = a \/ m = n
      BY <3>6, <3>7 DEF TxsOK
    <3> QED BY <1>1, <2>2, <3>1, <3>8
  <2> QED BY <2>1, <2>2
<1> QED BY <1>3, <1>5, <1>6 DEF AloneInv

(* When the host waits for one cash-out to end before it makes the next,   *)
(* only a revert of its own approve can cost a createDeposit its           *)
(* allowance, follow-ups of earlier cash-outs notwithstanding.             *)
THEOREM OneAtATimeKeepsItsAllowance ==
  ASSUME Sequential
  PROVE  Spec => []SequentialKeepsItsAllowance
<1>1. TxsInv /\ IInv /\ AloneInv /\ [Next]_vars => AloneInv'
  BY StepKeepsAlone, StepKeepsTxs
<1>2. IInv /\ LedgerInv /\ AloneInv => SequentialKeepsItsAllowance
  <2> SUFFICES ASSUME IInv, LedgerInv, AloneInv, NEW n \in 1..Len(receipts),
                      receipts[n].outcome = "allowance"
               PROVE  \E a \in 1..(n - 1) :
                        ApproveBy(wallet[n].call, a) /\ receipts[a].outcome # "success"
    BY DEF SequentialKeepsItsAllowance
  <2>1. PICK a \in 1..(n - 1) :
          /\ ApproveBy(wallet[n].call, a)
          /\ \/ receipts[a].outcome # "success"
             \/ \E m \in (a + 1)..(n - 1) :
                  wallet[m].call # wallet[n].call /\ wallet[m].kind # "setRateManager"
    BY DEF LedgerInv, AllowanceLostToAnother
  <2>2. SUFFICES ASSUME NEW m \in (a + 1)..(n - 1), wallet[m].kind # "setRateManager"
                 PROVE  FALSE
    BY <2>1
  <2>3. /\ n \in 1..Len(wallet) /\ m \in 1..Len(wallet) /\ a \in 1..Len(wallet)
        /\ a < m /\ m < n
    BY Lengths DEF IInv, ChainOK
  <2>4. CreateBy(wallet[n].call, n) /\ wallet[n].call \in Calls
    BY <2>3, Owners DEF LedgerInv, ShortOK, CreateBy, TxBy
  <2> QED BY <2>1, <2>2, <2>3, <2>4 DEF AloneInv, OnlyHooksBetween
<1>3. Spec => []AloneInv
  <2>1. IInv /\ TxsInv /\ LedgerInv /\ AloneInv /\ [Next]_vars => AloneInv'
    BY <1>1
  <2> QED BY <2>1, InitAlone, LedgerAlways, PTL DEF Spec
<1> QED BY <1>2, <1>3, LedgerAlways, PTL

-----------------------------------------------------------------------------
(* A signer whose answers are read off the mined receipt *)

ReadsReceipts == SignerStyles \subseteq {"receipt", "keyed"}

(* The receipt of a createDeposit that was mined with success names it.    *)
LogsOK ==
  \A n \in 1..Len(receipts) :
    DepositedAt(n)
      => \E k \in 1..Len(receipts[n].logs) : receipts[n].logs[k].topic = "DepositReceived"

(* A call that got through both transactions saw its createDeposit mined,  *)
(* and without an id there is no deposit.                                  *)
SettledOK ==
  \A c \in Calls :
    step[c] = 3
      => /\ \A n \in 1..Len(wallet) : CreateBy(c, n) => Mined(n)
         /\ depositId[c] = None => ~Deposited(c)

FollowUpOK == \A c \in Calls : hook[c] = "TypeError" => step[c] = 3 /\ depositId[c] = None

ReadInv == LogsOK /\ SettledOK /\ FollowUpOK

(* A DepositReceived in the logs is found. *)
LEMMA LoggedIdIsFound ==
  ASSUME NEW logs \in Seq(Logs), Len(logs) \in 0..2,
         \E k \in 1..Len(logs) : logs[k].topic = "DepositReceived"
  PROVE  LoggedId(logs) \in Nat
<1> DEFINE Hit(i) == logs[i].topic = "DepositReceived"
           At(i)  == /\ i <= Len(logs) => Hit(i)
                     /\ \A j \in 1..(i - 1) : ~Hit(j)
<1>1. DepositLog(logs) = CHOOSE i \in 1..(Len(logs) + 1) : At(i)
  BY DEF DepositLog, FirstWhere
<1>2. PICK k \in 1..Len(logs) : Hit(k)
  OBVIOUS
<1>3. \E i \in 1..(Len(logs) + 1) : At(i)
  <2>1. CASE Hit(1)
    <3>1. 1 \in 1..(Len(logs) + 1) /\ At(1)
      BY <2>1
    <3> QED BY <3>1
  <2>2. CASE ~Hit(1)
    <3>1. k = 2 /\ 2 \in 1..(Len(logs) + 1) /\ At(2)
      BY <1>2, <2>2
    <3> QED BY <3>1
  <2> QED BY <2>1, <2>2
<1>4. DepositLog(logs) \in 1..(Len(logs) + 1) /\ At(DepositLog(logs))
  BY <1>1, <1>3
<1> HIDE DEF Hit
<1>5. DepositLog(logs) \in 1..Len(logs) /\ Hit(DepositLog(logs))
  <2>1. ~(k < DepositLog(logs))
    BY <1>2, <1>4
  <2> QED BY <1>2, <1>4, <2>1
<1>6. logs[DepositLog(logs)] \in Logs /\ LoggedId(logs) = logs[DepositLog(logs)].first
  BY <1>5 DEF LoggedId
<1> QED BY <1>5, <1>6 DEF Logs, Hit

LEMMA StepKeepsLogs ==
  ASSUME IInv, LogsOK, [Next]_vars
  PROVE  LogsOK'
<1>1. HistoryStays
  BY EveryStep
<1>2. ASSUME NEW n \in 1..Len(receipts), DepositedAt(n)'
      PROVE  \E k \in 1..Len(receipts'[n].logs) : receipts'[n].logs[k].topic = "DepositReceived"
  <2>1. receipts'[n] = receipts[n] /\ DepositedAt(n)
    BY <1>1, <1>2 DEF HistoryStays, WalletStays, ReceiptsStay, DepositedAt, MinedWith, Mined
  <2> QED BY <2>1 DEF LogsOK
<1>3. CASE UNCHANGED receipts
  BY <1>2, <1>3 DEF LogsOK
<1>4. ASSUME NEW receipt, MinesAs(receipt), ReceiptsStay, UNCHANGED wallet,
             \/ NextTx.kind # "createDeposit"
             \/ receipt.outcome # "success"
             \/ \E k \in 1..Len(receipt.logs) : receipt.logs[k].topic = "DepositReceived"
      PROVE  LogsOK'
  <2>1. PICK at : at = Next1
    OBVIOUS
  <2>2. /\ \A n : n \in 1..Len(receipts') <=> n \in 1..Len(receipts) \/ n = at
        /\ wallet[at] = NextTx /\ receipts'[at] = receipt
    BY <1>4, <2>1, MinedSoFar
  <2> QED BY <1>2, <1>4, <2>2 DEF LogsOK, DepositedAt, MinedWith
<1>5. CASE MineCreateDeposit
  BY <1>4, <1>5, DepositAdds
<1>6. CASE MineApprove \/ MineSetRateManager \/ MineRevert \/ RevertCreateDeposit
  <2>1. PICK receipt : /\ Unmined /\ receipts' = Append(receipts, receipt) /\ UNCHANGED wallet
                       /\ NextTx.kind # "createDeposit" \/ receipt.outcome # "success"
    BY <1>6 DEF MineApprove, MineSetRateManager, MineRevert, RevertCreateDeposit, Reverted
  <2> QED BY <1>4, <2>1, MiningAppends
<1> QED BY <1>3, <1>5, <1>6, EveryStep DEF CallStep, Chain, ChainNext, Mine, ForeignDeposit

(* What the signer's answer for a mined createDeposit tells. *)
LEMMA AnswerNamesTheDeposit ==
  ASSUME IInv, LogsOK, NEW style \in {"receipt", "keyed"}, NEW n, DepositedAt(n)
  PROVE  ExtractDepositId(Result(style, n)) # None
<1>1. n \in 1..Len(receipts)
  BY DEF DepositedAt, MinedWith, Mined
<1>2. /\ receipts[n].logs \in Seq(Logs) /\ Len(receipts[n].logs) \in 0..2
      /\ \E k \in 1..Len(receipts[n].logs) : receipts[n].logs[k].topic = "DepositReceived"
  <2>1. receipts[n] \in [outcome : Outcomes, logs : Seq(Logs)]
    <3>1. receipts \in Seq([outcome : Outcomes, logs : Seq(Logs)])
      BY DEF IInv, TypeOK
    <3>2. ASSUME NEW R, receipts \in Seq(R) PROVE receipts[n] \in R
      BY <1>1, <3>2
    <3> QED BY <3>1, <3>2
  <2> QED BY <1>1, <2>1 DEF IInv, ChainOK, ReceiptOK, LogsOK
<1>3. LoggedId(receipts[n].logs) # None
  BY <1>2, LoggedIdIsFound, NoneAssumption
<1>4. CASE style = "receipt"
  <2>1. /\ Result(style, n).shape = "mapping" /\ Result(style, n).key = None
        /\ Result(style, n).logs = receipts[n].logs
    BY <1>4 DEF Result
  <2> QED BY <1>3, <2>1 DEF ExtractDepositId
<1>5. CASE style = "keyed"
  <2>1. /\ Result(style, n).shape = "mapping"
        /\ Result(style, n).key = LoggedId(receipts[n].logs)
    BY <1>5 DEF Result
  <2> QED BY <1>3, <2>1 DEF ExtractDepositId
<1> QED BY <1>4, <1>5

(* The last answer: the createDeposit it is about is mined. *)
LEMMA LastAnswerSettles ==
  ASSUME ReadsReceipts, IInv, TxsInv, LedgerInv, LogsOK,
         NEW c \in Calls, NEW style \in SignerStyles, SignerReturns(c, style), step[c] = 2
  PROVE  /\ \A n \in 1..Len(wallet) : CreateBy(c, n) => Mined(n)
         /\ depositId'[c] = None => ~Deposited(c)
<1>1. style \in {"receipt", "keyed"} /\ Mined(nonce[c]) /\ pc[c] = "wait"
  BY DEF ReadsReceipts, SignerReturns
<1>2. PICK n : n = nonce[c]
  OBVIOUS
<1>3. n \in 1..Len(wallet) /\ CreateBy(c, n) /\ TxsOK(c)
  <2>1. n \in 1..Len(wallet) /\ NonceOK(c) /\ TxsOK(c)
    BY <1>1, <1>2 DEF IInv, CallOK, TxsInv, OwnOK
  <2>2. n # 0
    BY <2>1, Lengths DEF IInv
  <2> QED BY <1>2, <2>1, <2>2 DEF NonceOK, CreateBy, TxBy
<1>4. \A m \in 1..Len(wallet) : CreateBy(c, m) => m = n
  BY <1>3 DEF TxsOK
<1>5. ASSUME depositId'[c] = None, Deposited(c)
      PROVE  FALSE
  <2>1. PICK i \in 1..Len(deposits) : deposits[i].by = c
    BY <1>5 DEF Deposited
  <2>2. PICK m \in 1..Len(receipts) : MadeBy(i, m)
    BY <2>1, CallsAssumption DEF LedgerInv, MadeOK
  <2>3. m = n /\ DepositedAt(n)
    BY <1>3, <2>1, <2>2, MadeByTheOnlyCreate DEF MadeBy
  <2>4. ExtractDepositId(Result(style, n)) # None
    BY <1>1, <2>3, AnswerNamesTheDeposit
  <2>5. depositId'[c] = IF depositId[c] # None THEN depositId[c]
                        ELSE ExtractDepositId(Result(style, nonce[c]))
    BY DEF SignerReturns, IInv, TypeOK
  <2> QED BY <1>2, <1>5, <2>4, <2>5
<1> QED BY <1>1, <1>2, <1>4, <1>5

(* What a settled call looks at is as it was, except in that answer.       *)
LEMMA SettledMoves ==
  ASSUME IInv, TxsInv, NEW c \in Calls, [Next]_vars, step'[c] = 3
  PROVE  \/ step[c] = 3 /\ depositId'[c] = depositId[c]
         \/ step[c] = 2 /\ \E style \in SignerStyles : SignerReturns(c, style)
<1>1. /\ step \in [Calls -> 0..3] /\ depositId \in [Calls -> (Nat \ {0}) \cup {None}]
  BY DEF IInv, TypeOK
<1>2. CASE UNCHANGED <<step, depositId>>
  BY <1>2
<1>3. ASSUME NEW d \in Calls, HostCalls(d)
      PROVE  step[c] = 3 /\ depositId'[c] = depositId[c]
  BY <1>1, <1>3 DEF HostCalls, Refuse, StartPost, SkipPost, Call, Encode
<1>4. ASSUME NEW d \in Calls, CuratorReceives(d) \/ CuratorEnds(d)
      PROVE  step[c] = 3 /\ depositId'[c] = depositId[c]
  BY <1>1, <1>4 DEF CuratorReceives, CuratorEnds, CuratorAnswers, CuratorFails, Encode
<1>5. ASSUME NEW d \in Calls, SignerBroadcasts(d) \/ SignerRaises(d) \/ AttachHook(d)
                              \/ HookRaises(d)
      PROVE  UNCHANGED <<step, depositId>>
  BY <1>5 DEF SignerBroadcasts, SignerRaises, AttachHook, HookRaises
<1>6. ASSUME NEW d \in Calls, NEW style \in SignerStyles, SignerReturns(d, style)
      PROVE  \/ step[c] = 3 /\ depositId'[c] = depositId[c]
             \/ step[c] = 2 /\ c = d
  BY <1>1, <1>6 DEF SignerReturns
<1>7. Chain \/ UNCHANGED vars => UNCHANGED <<step, depositId>>
  BY DEF Chain, callVars, vars
<1> QED BY <1>2, <1>3, <1>4, <1>5, <1>6, <1>7 DEF Next, SignerEnds

(* Once its createDeposit is mined, no step gives a call a deposit.        *)
LEMMA NoLateDeposit ==
  ASSUME IInv, TxsInv, [Next]_vars, NEW c \in Calls,
         \A n \in 1..Len(wallet) : CreateBy(c, n) => Mined(n), ~Deposited(c)
  PROVE  ~Deposited(c)'
<1>1. RowsStay
  BY EveryStep DEF HistoryStays
<1>2. CASE NoNewRow
  BY <1>1, <1>2, SameOwners
<1>3. CASE MineCreateDeposit
  <2>1. /\ CreateBy(NextTx.call, Next1) /\ Len(deposits) \in Nat
        /\ Len(deposits') = Len(deposits) + 1 /\ deposits'[Len(deposits) + 1].by = NextTx.call
        /\ \A i \in 1..Len(deposits) : deposits'[i] = deposits[i]
    BY <1>3, DepositAdds, Lengths DEF IInv
  <2>2. NextTx.call # c
    <3>1. ~Mined(Next1)
      BY Lengths DEF IInv, Mined, Next1
    <3> QED BY <2>1, <3>1 DEF CreateBy, TxBy
  <2> QED BY <2>1, <2>2 DEF Deposited
<1> QED BY <1>2, <1>3, EveryStep, ChainOnlyMines DEF CallStep, NoNewRow

LEMMA StepKeepsSettled ==
  ASSUME ReadsReceipts, IInv, TxsInv, TxsInv', LedgerInv, LogsOK, SettledOK, [Next]_vars
  PROVE  SettledOK'
<1> SUFFICES ASSUME NEW c \in Calls, step'[c] = 3
             PROVE  /\ \A n \in 1..Len(wallet') : CreateBy(c, n)' => Mined(n)'
                    /\ depositId'[c] = None => ~Deposited(c)'
  BY DEF SettledOK
<1>1. /\ Len(receipts) \in Nat /\ Len(receipts') \in Nat /\ Len(receipts') >= Len(receipts)
      /\ \A n \in 1..Len(wallet) : wallet'[n] = wallet[n]
  BY EveryStep DEF HistoryStays, WalletStays, ReceiptsStay
<1>2. /\ \A n \in 1..Len(wallet) : CreateBy(c, n) => Mined(n)
      /\ depositId'[c] = None => ~Deposited(c)
  BY SettledMoves, LastAnswerSettles DEF SettledOK
<1>3. ASSUME NEW n \in 1..Len(wallet'), CreateBy(c, n)'
      PROVE  n \in 1..Len(wallet) /\ CreateBy(c, n)
  <2>1. CASE n \in 1..Len(wallet)
    BY <1>1, <1>3, <2>1 DEF CreateBy, TxBy
  <2>2. CASE n \notin 1..Len(wallet)
    <3>1. wallet'[n].call = c /\ wallet'[n].kind = "createDeposit"
      BY <1>3 DEF CreateBy, TxBy
    <3>2. PICK d \in Calls : \/ AttachHook(d) /\ wallet'[n] = SetRateManagerTx(d)
                             \/ /\ SignerBroadcasts(d) /\ wallet'[n].call = d
                                /\ step[d] \in {1, 2}
      BY <2>2, AddedByACall
    <3>3. wallet'[n] # SetRateManagerTx(d)
      BY <3>1 DEF SetRateManagerTx
    <3>4. UNCHANGED step /\ step[c] \in {1, 2}
      BY <3>1, <3>2, <3>3 DEF SignerBroadcasts
    <3> QED BY <3>4
  <2> QED BY <2>1, <2>2
<1>4. \A n : Mined(n) => Mined(n)'
  BY <1>1 DEF Mined
<1> QED BY <1>2, <1>3, <1>4, NoLateDeposit

(* A call that got through both transactions keeps what it collected.      *)
LEMMA StepThreeStays ==
  ASSUME IInv, TxsInv, NEW c \in Calls, [Next]_vars, step[c] = 3
  PROVE  step'[c] = 3 /\ depositId'[c] = depositId[c]
<1>1. /\ step \in [Calls -> 0..3] /\ depositId \in [Calls -> (Nat \ {0}) \cup {None}]
  BY DEF IInv, TypeOK
<1>2. pc[c] \notin {"idle", "post", "posted", "sign", "wait"}
  BY DEF IInv, CallOK, TxsInv, OwnOK, PhaseOK
<1>3. ASSUME NEW d \in Calls, HostCalls(d)
      PROVE  step'[c] = 3 /\ depositId'[c] = depositId[c]
  BY <1>1, <1>2, <1>3 DEF HostCalls, Refuse, StartPost, SkipPost, Call, Encode
<1>4. ASSUME NEW d \in Calls, CuratorReceives(d) \/ CuratorEnds(d)
      PROVE  step'[c] = 3 /\ depositId'[c] = depositId[c]
  BY <1>1, <1>2, <1>4 DEF CuratorReceives, CuratorEnds, CuratorAnswers, CuratorFails, Encode
<1>5. ASSUME NEW d \in Calls, SignerEnds(d)
      PROVE  step'[c] = 3 /\ depositId'[c] = depositId[c]
  BY <1>1, <1>2, <1>5 DEF SignerEnds, SignerBroadcasts, SignerReturns, SignerRaises
<1>6. ASSUME NEW d \in Calls, AttachHook(d) \/ HookRaises(d)
      PROVE  step'[c] = 3 /\ depositId'[c] = depositId[c]
  BY <1>6 DEF AttachHook, HookRaises
<1>7. Chain \/ UNCHANGED vars => UNCHANGED <<step, depositId>>
  BY DEF Chain, callVars, vars
<1> QED BY <1>3, <1>4, <1>5, <1>6, <1>7 DEF Next

LEMMA StepKeepsFollowUp ==
  ASSUME IInv, TxsInv, FollowUpOK, [Next]_vars
  PROVE  FollowUpOK'
<1> SUFFICES ASSUME NEW c \in Calls, hook'[c] = "TypeError"
             PROVE  step'[c] = 3 /\ depositId'[c] = None
  BY DEF FollowUpOK
<1>1. /\ hook \in [Calls -> {"none", "sent", "TypeError"}] /\ step \in [Calls -> 0..3]
      /\ depositId \in [Calls -> (Nat \ {0}) \cup {None}]
  BY DEF IInv, TypeOK
<1>2. \/ UNCHANGED hook
      \/ \E d \in Calls : AttachHook(d) \/ HookRaises(d)
  BY DEF Next, HostCalls, Refuse, StartPost, SkipPost, Call, CuratorReceives, CuratorEnds,
         CuratorAnswers, CuratorFails, SignerEnds, SignerBroadcasts, SignerReturns, SignerRaises,
         Chain, callVars, vars
<1>3. \/ hook[c] = "TypeError"
      \/ HookRaises(c)
  BY <1>1, <1>2 DEF AttachHook, HookRaises
<1>4. CASE HookRaises(c)
  <2>1. pc[c] = "returned" /\ depositId[c] = None /\ UNCHANGED <<step, depositId>>
    BY <1>4 DEF HookRaises, HookAsked
  <2> QED BY <2>1 DEF TxsInv, OwnOK, PhaseOK
<1>5. CASE hook[c] = "TypeError"
  <2>1. step[c] = 3 /\ depositId[c] = None
    BY <1>5 DEF FollowUpOK
  <2> QED BY <2>1, StepThreeStays
<1> QED BY <1>3, <1>4, <1>5

(* With signers that return receipts, or the id the host read off one, the *)
(* follow-up of a Best cash-out raises only when there is no deposit for   *)
(* it, and none comes later.                                               *)
THEOREM FollowUpsFindTheirDeposit ==
  ASSUME ReadsReceipts
  PROVE  Spec => []BestFollowUpFindsItsDeposit
<1>1. Init => ReadInv
  <2> SUFFICES ASSUME Init PROVE ReadInv
    OBVIOUS
  <2>1. /\ receipts = <<>> /\ \A c \in Calls : step[c] = 0 /\ hook[c] = "none"
    BY DEF Init, ChainInit
  <2> QED BY <2>1 DEF ReadInv, LogsOK, SettledOK, FollowUpOK
<1>2. IInv /\ TxsInv /\ LedgerInv /\ ReadInv /\ [Next]_vars => ReadInv'
  BY StepKeepsTxs, StepKeepsLogs, StepKeepsSettled, StepKeepsFollowUp DEF ReadInv
<1>3. ReadInv => BestFollowUpFindsItsDeposit
  BY DEF ReadInv, SettledOK, FollowUpOK, Deposited, BestFollowUpFindsItsDeposit
<1> QED BY <1>1, <1>2, <1>3, LedgerAlways, PTL DEF Spec
=============================================================================

---------------------------- MODULE CashoutProofs ----------------------------
(***************************************************************************)
(* Safety of Cashout for any calls, requests, tables, signers and length   *)
(* of the chain.                                                           *)
(***************************************************************************)
EXTENDS Cashout, CashoutRulesProofs, SequenceTheorems

(* No signer answers with an "id" that is not the deposit's. *)
LabelFree == "labelled" \notin SignerStyles

(* Where a call is, and what it has collected. *)
CallOK(c) ==
  /\ pc[c] # "idle" => request[c] \in Requests
  /\ pc[c] \notin {"idle", "raised"} => CashoutError(request[c]) = Ok
  /\ pc[c] # "raised" => error[c] = None
  /\ pc[c] \in {"sign", "wait"} => digest[c] \in Digests /\ step[c] \in {1, 2}
  /\ pc[c] = "wait" => nonce[c] \in 1..Len(wallet) /\ wallet[nonce[c]].call = c
  /\ LabelFree /\ depositId[c] # None
       => depositId[c] \in 1..Len(deposits) /\ deposits[depositId[c]].by = c

(* What a call has left outside the process. *)
Traceless(c) ==
  /\ \A m \in makers : m.call # c
  /\ \A n \in 1..Len(wallet) : wallet[n].call # c

TraceOK(c) ==
  /\ pc[c] \in {"idle", "post"} => Traceless(c)
  /\ pc[c] = "posted" => \A n \in 1..Len(wallet) : wallet[n].call # c
  /\ error[c] \in CheckErrors \cup {"signer", "range"} => Traceless(c)

(* What a receipt says is so: a DepositReceived in it names a deposit of   *)
(* the call the transaction was signed for.                                *)
ReceiptOK(n) ==
  /\ receipts[n].outcome = "CurrencyNotSupported" => StaleRow(wallet[n])
  /\ Len(receipts[n].logs) \in 0..2
  /\ \A k \in 1..Len(receipts[n].logs) :
       receipts[n].logs[k].topic = "DepositReceived"
         => LET id == receipts[n].logs[k].first
            IN  id \in 1..Len(deposits) /\ deposits[id].by = wallet[n].call

PairsOK ==
  \A n \in 1..Len(wallet) :
    wallet[n].kind = "createDeposit" => wallet[n].currency \in Registry[wallet[n].platform]

ChainOK ==
  /\ Len(receipts) <= Len(wallet)
  /\ \A n \in 1..Len(receipts) : ReceiptOK(n)
  /\ PairsOK

IInv ==
  /\ TypeOK
  /\ \A c \in Calls : CallOK(c)
  /\ \A c \in Calls : TraceOK(c)
  /\ ChainOK

-----------------------------------------------------------------------------
(* Lemmas about the rules *)

(* A request cashout() lets through satisfies prepare()'s checks. *)
LEMMA AcceptedRequest ==
  ASSUME NEW r \in Requests, CashoutError(r) = Ok
  PROVE  /\ PrepareError(r) = Ok
         /\ r.platform \in PaymentMethods
         /\ r.currency \in Registry[r.platform]
         /\ r.currency \in Feeds
         /\ ParseUsdcAmount(r.amount) \in Units
<1> DEFINE checks == << IF r.signer THEN Ok ELSE "signer", PrepareError(r) >>
<1>1. FirstError(checks) = Ok /\ Len(checks) = 2
  BY DEF CashoutError
<1>2. checks[2] = PrepareError(r)
  OBVIOUS
<1> HIDE DEF checks
<1>3. PrepareError(r) = Ok
  <2>1. Len(checks) \in 0..7 /\ 2 \in 1..Len(checks)
    BY <1>1
  <2>2. \A i \in 1..Len(checks) : checks[i] = Ok
    BY <1>1, <2>1, FirstErrorOk
  <2>3. QED
    BY <1>2, <2>1, <2>2
<1>4. QED
  BY <1>3, PreparedRequest DEF Units

(* The units of accepted requests are natural numbers. *)
LEMMA UnitsAreNat == Units \subseteq Nat
BY PreparedRequest, PreparedUnits, RequestsAssumption DEF Units

(* A local refusal is one of the errors of the checks. *)
LEMMA RefusalIsLocal ==
  ASSUME NEW r, CashoutError(r) # Ok
  PROVE  CashoutError(r) \in CheckErrors \cup {"signer"}
<1>1. PrepareError(r) \in CheckErrors \cup {Ok}
  <2> DEFINE checks == << RequireMode(r.mode), AmountError(r.amount),
                          PaymentMethodHash(r.platform),
                          AssertSupportedPair(r.platform, r.currency),
                          OracleFeedFor(r.currency), PayeeError(r.payee) >>
  <2>1. Len(checks) = 6 /\ PrepareError(r) = FirstError(checks)
    BY DEF PrepareError
  <2>2. /\ checks[1] \in CheckErrors \cup {Ok} /\ checks[2] \in CheckErrors \cup {Ok}
        /\ checks[3] \in CheckErrors \cup {Ok} /\ checks[4] \in CheckErrors \cup {Ok}
        /\ checks[5] \in CheckErrors \cup {Ok} /\ checks[6] \in CheckErrors \cup {Ok}
    BY DEF RequireMode, AmountError, PaymentMethodHash, AssertSupportedPair, OracleFeedFor,
           PayeeError, CheckErrors
  <2> HIDE DEF checks
  <2>3. CASE \E i \in 1..6 : checks[i] # Ok
    <3>1. Len(checks) \in 0..7 /\ \E i \in 1..Len(checks) : checks[i] # Ok
      BY <2>1, <2>3
    <3>2. \E i \in 1..Len(checks) : FirstError(checks) = checks[i]
      BY <3>1, FirstErrorIsAResult
    <3>3. QED
      BY <2>1, <2>2, <3>2
  <2>4. CASE \A i \in 1..6 : checks[i] = Ok
    BY <2>1, <2>4 DEF FirstError
  <2>5. QED
    BY <2>3, <2>4
<1> DEFINE both == << IF r.signer THEN Ok ELSE "signer", PrepareError(r) >>
<1>2. Len(both) = 2 /\ CashoutError(r) = FirstError(both)
  BY DEF CashoutError
<1>3. both[1] \in {Ok, "signer"} /\ both[2] \in CheckErrors \cup {Ok}
  BY <1>1
<1> HIDE DEF both
<1>4. \E i \in 1..2 : both[i] # Ok
  BY <1>2 DEF FirstError
<1>5. \E i \in 1..Len(both) : FirstError(both) = both[i]
  <2>1. Len(both) \in 0..7 /\ \E i \in 1..Len(both) : both[i] # Ok
    BY <1>2, <1>4
  <2>2. QED
    BY <2>1, FirstErrorIsAResult
<1>6. QED
  BY <1>2, <1>3, <1>5

(* The deposit id read out of a receipt is the one of a DepositReceived.   *)
LEMMA LoggedIdIsLogged ==
  ASSUME NEW logs, Len(logs) \in 0..2, LoggedId(logs) # None
  PROVE  \E k \in 1..Len(logs) :
           logs[k].topic = "DepositReceived" /\ LoggedId(logs) = logs[k].first
<1> DEFINE Hit(i) == logs[i].topic = "DepositReceived"
           At(i)  == /\ i <= Len(logs) => Hit(i)
                     /\ \A j \in 1..(i - 1) : ~Hit(j)
<1>1. DepositLog(logs) = CHOOSE i \in 1..(Len(logs) + 1) : At(i)
  BY DEF DepositLog, FirstWhere
<1>2. \E i \in 1..(Len(logs) + 1) : At(i)
  <2>1. CASE Len(logs) = 0 \/ Hit(1)
    <3>1. 1 \in 1..(Len(logs) + 1) /\ At(1)
      BY <2>1
    <3>2. QED
      BY <3>1
  <2>2. CASE Len(logs) # 0 /\ ~Hit(1) /\ (Len(logs) = 1 \/ Hit(2))
    <3>1. 2 \in 1..(Len(logs) + 1) /\ At(2)
      BY <2>2
    <3>2. QED
      BY <3>1
  <2>3. CASE Len(logs) = 2 /\ ~Hit(1) /\ ~Hit(2)
    <3>1. 3 \in 1..(Len(logs) + 1) /\ At(3)
      BY <2>3
    <3>2. QED
      BY <3>1
  <2>4. QED
    BY <2>1, <2>2, <2>3
<1>3. DepositLog(logs) \in 1..(Len(logs) + 1) /\ At(DepositLog(logs))
  BY <1>1, <1>2
<1>4. DepositLog(logs) <= Len(logs) /\ LoggedId(logs) = logs[DepositLog(logs)].first
  BY DEF LoggedId
<1>5. QED
  BY <1>3, <1>4

-----------------------------------------------------------------------------
(* Frames: what a step of one call, or of the chain, leaves in place. *)

(* The call-level state of d is untouched. *)
SameCall(d) ==
  /\ pc'[d] = pc[d] /\ request'[d] = request[d] /\ error'[d] = error[d]
  /\ digest'[d] = digest[d] /\ step'[d] = step[d] /\ nonce'[d] = nonce[d]
  /\ depositId'[d] = depositId[d]

(* Only transactions and maker records of c are added. *)
OnlyAddsFor(c) ==
  /\ Len(wallet') >= Len(wallet)
  /\ \A n \in 1..Len(wallet) : wallet'[n] = wallet[n]
  /\ \A n \in 1..Len(wallet') : n > Len(wallet) => wallet'[n].call = c
  /\ \A m \in makers' : m \in makers \/ m.call = c

(* Deposits keep their ids and their owners. *)
DepositsStay ==
  /\ Len(deposits') >= Len(deposits)
  /\ \A i \in 1..Len(deposits) : deposits'[i].by = deposits[i].by

(* A call that is not touched keeps its invariant while others move on. *)
LEMMA OtherCalls ==
  ASSUME IInv, NEW c, NEW d \in Calls, d # c,
         SameCall(d), OnlyAddsFor(c), DepositsStay
  PROVE  CallOK(d)' /\ TraceOK(d)'
<1>1. CallOK(d) /\ TraceOK(d) /\ Len(wallet) \in Nat /\ Len(wallet') >= Len(wallet)
      /\ Len(deposits) \in Nat
  BY DEF IInv, TypeOK, OnlyAddsFor
<1>2. CallOK(d)'
  BY <1>1 DEF CallOK, SameCall, OnlyAddsFor, DepositsStay
<1>3. Traceless(d) => Traceless(d)'
  BY <1>1 DEF Traceless, OnlyAddsFor
<1>4. (\A n \in 1..Len(wallet) : wallet[n].call # d)
        => (\A n \in 1..Len(wallet') : wallet'[n].call # d)
  BY <1>1 DEF OnlyAddsFor
<1>5. TraceOK(d)'
  BY <1>1, <1>3, <1>4 DEF TraceOK, SameCall
<1>6. QED
  BY <1>2, <1>5

(* The chain invariant reads only the wallet, the receipts and the deposits. *)
LEMMA ChainStays ==
  ASSUME ChainOK, UNCHANGED <<wallet, receipts, deposits>>
  PROVE  ChainOK'
BY DEF ChainOK, ReceiptOK, PairsOK

(* It holds on when a transaction that keeps to the registry is broadcast. *)
LEMMA ChainGrows ==
  ASSUME IInv, NEW tx, wallet' = Append(wallet, tx), UNCHANGED <<receipts, deposits>>,
         tx.kind = "createDeposit" => tx.currency \in Registry[tx.platform]
  PROVE  ChainOK'
<1>1. Len(wallet) \in Nat /\ Len(wallet') = Len(wallet) + 1
      /\ Len(receipts) \in Nat /\ Len(receipts) <= Len(wallet)
      /\ wallet'[Len(wallet) + 1] = tx
      /\ \A n \in 1..Len(wallet) : wallet'[n] = wallet[n]
  BY DEF IInv, TypeOK, ChainOK
<1>2. \A n \in 1..Len(receipts) : ReceiptOK(n)'
  BY <1>1 DEF IInv, ChainOK, ReceiptOK
<1>3. PairsOK'
  <2>1. \A n \in 1..Len(wallet') : n \in 1..Len(wallet) \/ n = Len(wallet) + 1
    BY <1>1
  <2>2. QED
    BY <1>1, <2>1 DEF IInv, ChainOK, PairsOK
<1>4. QED
  BY <1>1, <1>2, <1>3 DEF ChainOK

-----------------------------------------------------------------------------
(* One lemma per action of a call. *)

LEMMA RefuseKeeps ==
  ASSUME IInv, NEW c \in Calls, NEW r \in Requests, Refuse(c, r)
  PROVE  IInv'
<1> USE DEF Refuse, Call, Raise, callVars, chainVars
<1>1. CashoutError(r) \in CheckErrors \cup {"signer"}
  BY RefusalIsLocal
<1>2. TypeOK'
  BY <1>1 DEF IInv, TypeOK, Errors, EncodeErrors
<1>3. \A d \in Calls : d # c => SameCall(d)
  BY DEF SameCall, IInv, TypeOK
<1>4. OnlyAddsFor(c) /\ DepositsStay
  BY DEF OnlyAddsFor, DepositsStay, IInv, TypeOK
<1>5. CallOK(c)' /\ TraceOK(c)'
  BY <1>1 DEF IInv, TypeOK, CallOK, TraceOK, Traceless
<1>6. ChainOK'
  BY ChainStays DEF IInv
<1>7. QED
  BY <1>2, <1>3, <1>4, <1>5, <1>6, OtherCalls DEF IInv

LEMMA StartPostKeeps ==
  ASSUME IInv, NEW c \in Calls, NEW r \in Requests, StartPost(c, r)
  PROVE  IInv'
<1> USE DEF StartPost, Call, callVars, chainVars
<1>1. TypeOK'
  BY DEF IInv, TypeOK
<1>2. \A d \in Calls : d # c => SameCall(d)
  BY DEF SameCall, IInv, TypeOK
<1>3. OnlyAddsFor(c) /\ DepositsStay
  BY DEF OnlyAddsFor, DepositsStay, IInv, TypeOK
<1>4. CallOK(c)' /\ TraceOK(c)'
  BY DEF IInv, TypeOK, CallOK, TraceOK, Traceless
<1>5. ChainOK'
  BY ChainStays DEF IInv
<1>6. QED
  BY <1>1, <1>2, <1>3, <1>4, <1>5, OtherCalls DEF IInv

(* Encoding succeeds into "sign", or fails for a reason prepare() could    *)
(* not have given.                                                         *)
LEMMA EncodeOutcome ==
  ASSUME IInv, NEW c \in Calls, NEW r \in Requests, CashoutError(r) = Ok, NEW d,
         Encode(c, r, d)
  PROVE  \/ pc'[c] = "sign" /\ step'[c] = 1 /\ digest'[c] = d /\ error' = error
         \/ pc'[c] = "raised" /\ error'[c] \in {"overflow", "UnicodeEncodeError", "codes", "digest"} /\ step' = step
<1>1. PrepareError(r) = Ok /\ r.amount.value \in Int
  BY AcceptedRequest, RequestsAssumption
<1>2. EncodeError(r, d) \in {Ok, "overflow", "UnicodeEncodeError", "codes", "digest"}
  BY <1>1, EncodersAgreeWithPrepare
<1>3. QED
  BY <1>2 DEF Encode, Raise, IInv, TypeOK

LEMMA EncodeTyped ==
  ASSUME IInv, NEW c \in Calls, NEW r \in Requests, CashoutError(r) = Ok,
         NEW d \in Digests, Encode(c, r, d)
  PROVE  /\ pc' \in [Calls -> {"idle", "post", "posted", "sign", "wait", "returned", "raised"}]
         /\ error' \in [Calls -> Errors \cup {None}]
         /\ digest' \in [Calls -> Digests \cup {None}]
         /\ step' \in [Calls -> 0..3]
<1> DEFINE Places == {"idle", "post", "posted", "sign", "wait", "returned", "raised"}
<1>1. /\ pc \in [Calls -> Places] /\ error \in [Calls -> Errors \cup {None}]
      /\ digest \in [Calls -> Digests \cup {None}] /\ step \in [Calls -> 0..3]
  BY DEF IInv, TypeOK
<1>2. digest' \in [Calls -> Digests \cup {None}]
  BY <1>1 DEF Encode
<1>3. CASE EncodeError(r, d) = Ok
  <2>1. /\ pc' = [pc EXCEPT ![c] = "sign"] /\ error' = error
        /\ step' = [step EXCEPT ![c] = 1]
    BY <1>3 DEF Encode
  <2>2. "sign" \in Places /\ 1 \in 0..3
    OBVIOUS
  <2>3. QED
    BY <1>1, <1>2, <2>1, <2>2
<1>4. CASE EncodeError(r, d) # Ok
  <2>1. /\ pc' = [pc EXCEPT ![c] = "raised"] /\ step' = step
        /\ error' = [error EXCEPT ![c] = EncodeError(r, d)]
    BY <1>4 DEF Encode, Raise
  <2>2. PrepareError(r) = Ok /\ r.amount.value \in Int
    BY AcceptedRequest, RequestsAssumption
  <2>3. EncodeError(r, d) \in {"overflow", "UnicodeEncodeError", "codes", "digest"}
    BY <1>4, <2>2, EncodersAgreeWithPrepare
  <2>4. EncodeError(r, d) \in Errors /\ "raised" \in Places
    BY <2>3 DEF Errors, EncodeErrors
  <2> HIDE DEF Places
  <2>5. pc' \in [Calls -> Places]
    BY <1>1, <2>1, <2>4
  <2>6. error' \in [Calls -> Errors \cup {None}]
    BY <1>1, <2>1, <2>4
  <2>7. QED
    BY <1>1, <1>2, <2>1, <2>5, <2>6 DEF Places
<1>5. QED
  BY <1>3, <1>4

LEMMA SkipPostKeeps ==
  ASSUME IInv, NEW c \in Calls, NEW r \in Requests, SkipPost(c, r)
  PROVE  IInv'
<1> USE DEF SkipPost, Call, callVars, chainVars
<1>1. \/ pc'[c] = "sign" /\ step'[c] = 1 /\ digest'[c] = r.supplied /\ error' = error
      \/ pc'[c] = "raised" /\ error'[c] \in {"overflow", "UnicodeEncodeError", "codes", "digest"} /\ step' = step
  BY EncodeOutcome
<1>2. r.supplied \in Digests
  BY DEF Digests
<1>3. TypeOK'
  BY <1>2, EncodeTyped DEF IInv, TypeOK
<1>4. \A d \in Calls : d # c => SameCall(d)
  BY DEF SameCall, IInv, TypeOK, Encode, Raise
<1>5. OnlyAddsFor(c) /\ DepositsStay
  BY DEF OnlyAddsFor, DepositsStay, IInv, TypeOK
<1>6. CallOK(c)' /\ TraceOK(c)'
  BY <1>1, <1>2 DEF IInv, TypeOK, CallOK, TraceOK, Traceless
<1>7. ChainOK'
  BY ChainStays DEF IInv
<1>8. QED
  BY <1>3, <1>4, <1>5, <1>6, <1>7, OtherCalls DEF IInv

LEMMA CuratorReceivesKeeps ==
  ASSUME IInv, NEW c \in Calls, CuratorReceives(c)
  PROVE  IInv'
<1> USE DEF CuratorReceives, chainVars
<1>1. request[c] \in Requests /\ CashoutError(request[c]) = Ok
  BY DEF IInv, CallOK
<1>2. request[c].platform \in PaymentMethods /\ Handle[request[c]] \in Handles
  BY <1>1, AcceptedRequest DEF Handles
<1>3. TypeOK'
  BY <1>2 DEF IInv, TypeOK
<1>4. \A d \in Calls : d # c => SameCall(d)
  BY DEF SameCall, IInv, TypeOK
<1>5. OnlyAddsFor(c) /\ DepositsStay
  BY DEF OnlyAddsFor, DepositsStay, IInv, TypeOK
<1>6. error[c] = None /\ error[c] \notin CheckErrors \cup {"signer", "range"}
  BY NoneAssumption DEF IInv, CallOK, Errors, EncodeErrors
<1>7. CallOK(c)' /\ TraceOK(c)'
  BY <1>6 DEF IInv, TypeOK, CallOK, TraceOK, Traceless
<1>8. ChainOK'
  BY ChainStays DEF IInv
<1>9. QED
  BY <1>3, <1>4, <1>5, <1>7, <1>8, OtherCalls DEF IInv

LEMMA CuratorAnswersKeeps ==
  ASSUME IInv, NEW c \in Calls, CuratorAnswers(c)
  PROVE  IInv'
<1> USE DEF CuratorAnswers, chainVars
<1> DEFINE d == DigestOf(request[c])
<1>1. request[c] \in Requests /\ CashoutError(request[c]) = Ok
  BY DEF IInv, CallOK
<1>2. \/ pc'[c] = "sign" /\ step'[c] = 1 /\ digest'[c] = d /\ error' = error
      \/ pc'[c] = "raised" /\ error'[c] \in {"overflow", "UnicodeEncodeError", "codes", "digest"} /\ step' = step
  BY <1>1, EncodeOutcome
<1>3. d \in Digests
  BY <1>1 DEF Digests
<1> HIDE DEF d
<1>4. TypeOK'
  BY <1>1, <1>3, EncodeTyped DEF IInv, TypeOK, d
<1>5. \A e \in Calls : e # c => SameCall(e)
  BY DEF SameCall, IInv, TypeOK, Encode, Raise
<1>6. OnlyAddsFor(c) /\ DepositsStay
  BY DEF OnlyAddsFor, DepositsStay, IInv, TypeOK
<1>7. error[c] = None /\ None \notin CheckErrors \cup {"signer", "range"}
  BY NoneAssumption DEF IInv, CallOK, Errors, EncodeErrors
<1>8. CallOK(c)'
  BY <1>1, <1>2, <1>3, <1>7 DEF IInv, CallOK
<1>9. TraceOK(c)'
  BY <1>2, <1>7 DEF TraceOK, CheckErrors
<1>10. ChainOK'
  BY ChainStays DEF IInv
<1>11. QED
  BY <1>4, <1>5, <1>6, <1>8, <1>9, <1>10, OtherCalls DEF IInv

(* An exception from outside, from the curator or from the signer. *)
LEMMA RaiseKeeps ==
  ASSUME IInv, NEW c \in Calls, pc[c] # "idle",
         NEW e \in {"CURATOR", "PAYEE_VERIFICATION_REQUIRED", "SIGNER"}, Raise(c, e),
         UNCHANGED <<request, digest, step, nonce, hashes, depositId, hook, makers, chainVars>>
  PROVE  IInv'
<1> USE DEF Raise, chainVars
<1>1. TypeOK'
  BY DEF IInv, TypeOK, Errors
<1>2. \A d \in Calls : d # c => SameCall(d)
  BY DEF SameCall, IInv, TypeOK
<1>3. OnlyAddsFor(c) /\ DepositsStay
  BY DEF OnlyAddsFor, DepositsStay, IInv, TypeOK
<1>4. CallOK(c)' /\ TraceOK(c)'
  BY DEF IInv, TypeOK, CallOK, TraceOK, CheckErrors
<1>5. ChainOK'
  BY ChainStays DEF IInv
<1>6. QED
  BY <1>1, <1>2, <1>3, <1>4, <1>5, OtherCalls DEF IInv

LEMMA CuratorFailsKeeps ==
  ASSUME IInv, NEW c \in Calls, CuratorFails(c)
  PROVE  IInv'
BY RaiseKeeps DEF CuratorFails

LEMMA SignerRaisesKeeps ==
  ASSUME IInv, NEW c \in Calls, SignerRaises(c)
  PROVE  IInv'
BY RaiseKeeps DEF SignerRaises

(* The two transactions of a call are well typed and keep to the registry. *)
LEMMA TxsTyped ==
  ASSUME IInv, NEW c \in Calls, pc[c] = "sign"
  PROVE  LET tx == Txs(c)[step[c]]
         IN  /\ tx \in Approves \cup Creates
             /\ tx.call = c
             /\ tx.kind = "createDeposit" => tx.currency \in Registry[tx.platform]
<1>1. /\ request[c] \in Requests /\ CashoutError(request[c]) = Ok
      /\ digest[c] \in Digests /\ step[c] \in {1, 2}
  BY DEF IInv, CallOK
<1>2. /\ UnitsOf(c) \in Units /\ request[c].platform \in PaymentMethods
      /\ request[c].currency \in Feeds
      /\ request[c].currency \in Registry[request[c].platform]
  BY <1>1, AcceptedRequest DEF UnitsOf
<1>3. ApproveTx(c) \in Approves /\ CreateDepositTx(c) \in Creates
  BY <1>1, <1>2 DEF ApproveTx, CreateDepositTx, Approves, Creates
<1>4. Txs(c)[step[c]] = ApproveTx(c) \/ Txs(c)[step[c]] = CreateDepositTx(c)
  BY <1>1 DEF Txs
<1>5. CASE Txs(c)[step[c]] = ApproveTx(c)
  BY <1>3, <1>5 DEF ApproveTx
<1>6. CASE Txs(c)[step[c]] = CreateDepositTx(c)
  BY <1>2, <1>3, <1>6 DEF CreateDepositTx
<1>7. QED
  BY <1>4, <1>5, <1>6

LEMMA SignerBroadcastsKeeps ==
  ASSUME IInv, NEW c \in Calls, SignerBroadcasts(c)
  PROVE  IInv'
<1> DEFINE tx == Txs(c)[step[c]]
<1>1. /\ tx \in Approves \cup Creates /\ tx.call = c
      /\ tx.kind = "createDeposit" => tx.currency \in Registry[tx.platform]
  BY TxsTyped DEF SignerBroadcasts
<1>2. /\ pc[c] = "sign" /\ pc' = [pc EXCEPT ![c] = "wait"] /\ wallet' = Append(wallet, tx)
      /\ nonce' = [nonce EXCEPT ![c] = Len(wallet) + 1]
      /\ UNCHANGED <<request, error, digest, step, hashes, depositId, hook, makers,
                     receipts, allowance, deposits>>
  BY DEF SignerBroadcasts, Broadcast
<1> HIDE DEF tx
<1>3. wallet' \in Seq(Approves \cup Creates \cup Hooks) /\ Len(wallet) + 1 \in Nat
  BY <1>1, <1>2 DEF IInv, TypeOK
<1>4. TypeOK'
  BY <1>2, <1>3 DEF IInv, TypeOK
<1>5. \A d \in Calls : d # c => SameCall(d)
  BY <1>2 DEF SameCall, IInv, TypeOK
<1>6. /\ Len(wallet') = Len(wallet) + 1 /\ wallet'[Len(wallet) + 1] = tx
      /\ \A n \in 1..Len(wallet) : wallet'[n] = wallet[n]
      /\ Len(wallet) \in Nat
  BY <1>2 DEF IInv, TypeOK
<1>7. OnlyAddsFor(c) /\ DepositsStay
  <2>1. \A n \in 1..Len(wallet') : n > Len(wallet) => n = Len(wallet) + 1
    BY <1>6
  <2>2. OnlyAddsFor(c)
    BY <1>1, <1>2, <1>6, <2>1 DEF OnlyAddsFor
  <2>3. Len(deposits) \in Nat /\ deposits' = deposits
    BY <1>2 DEF IInv, TypeOK
  <2>4. DepositsStay
    BY <2>3 DEF DepositsStay
  <2>5. QED
    BY <2>2, <2>4
<1>8. CallOK(c)'
  <2>1. pc'[c] = "wait" /\ nonce'[c] = Len(wallet) + 1
    BY <1>2 DEF IInv, TypeOK
  <2>2. nonce'[c] \in 1..Len(wallet') /\ wallet'[nonce'[c]].call = c
    BY <1>1, <1>6, <2>1
  <2>3. QED
    BY <1>2, <2>1, <2>2 DEF IInv, CallOK
<1>9. error[c] = None /\ None \notin CheckErrors \cup {"signer", "range"}
  BY <1>2, NoneAssumption DEF IInv, CallOK, Errors, EncodeErrors
<1>10. TraceOK(c)'
  BY <1>2, <1>9 DEF TraceOK, IInv, TypeOK
<1>11. ChainOK'
  BY <1>1, <1>2, ChainGrows
<1>12. QED
  BY <1>4, <1>5, <1>7, <1>8, <1>10, <1>11, OtherCalls DEF IInv

(* What the signer returns names the transaction it was given, and, of one *)
(* that labels nothing else, a deposit only if that transaction made it.   *)
LEMMA ResultIsOfTheCall ==
  ASSUME IInv, NEW c \in Calls, pc[c] = "wait", NEW style \in SignerStyles,
         style \in {"receipt", "keyed"} => Mined(nonce[c])
  PROVE  LET result == Result(style, nonce[c])
             id     == ExtractDepositId(result)
         IN  /\ ExtractTxHash(result) \in Nat \cup {None}
             /\ id \in (Nat \ {0}) \cup {None}
             /\ LabelFree /\ id # None => id \in 1..Len(deposits) /\ deposits[id].by = c
<1> DEFINE n == nonce[c]
           result == Result(style, n)
           id == ExtractDepositId(result)
           logs == receipts[n].logs
<1>1. /\ n \in 1..Len(wallet) /\ wallet[n].call = c /\ Len(wallet) \in Nat
      /\ style \in {"hash", "receipt", "keyed", "labelled", "none"}
  BY SignerStylesAssumption DEF IInv, CallOK, TypeOK
<1>2. ExtractTxHash(result) \in Nat \cup {None}
  BY <1>1 DEF ExtractTxHash, Result
<1>3. ASSUME style \in {"receipt", "keyed"}, LoggedId(logs) # None
      PROVE  LoggedId(logs) \in 1..Len(deposits) /\ deposits[LoggedId(logs)].by = c
  <2>1. ReceiptOK(n)
    BY <1>3 DEF Mined, IInv, ChainOK
  <2>2. Len(logs) \in 0..2
    BY <2>1 DEF ReceiptOK
  <2>3. PICK k \in 1..Len(logs) :
          logs[k].topic = "DepositReceived" /\ LoggedId(logs) = logs[k].first
    BY <1>3, <2>2, LoggedIdIsLogged
  <2>4. QED
    BY <1>1, <2>1, <2>3 DEF ReceiptOK
<1>4. ASSUME id # None, style # "labelled"
      PROVE  style \in {"receipt", "keyed"} /\ id = LoggedId(logs)
  <2>1. CASE style \in {"hash", "none"}
    BY <1>4, <2>1 DEF ExtractDepositId, Result
  <2>2. CASE style = "keyed"
    <3>1. /\ result.shape = "mapping" /\ result.key = LoggedId(logs) /\ result.id = None
          /\ result.logs = <<>>
      BY <2>2 DEF Result
    <3>2. LoggedId(<<>>) = None
      <4>1. Len(<<>>) \in 0..2 /\ ~\E k \in 1..Len(<<>>) : <<>>[k].topic = "DepositReceived"
        OBVIOUS
      <4>2. QED
        BY <4>1, LoggedIdIsLogged
    <3>3. QED
      BY <1>4, <2>2, <3>1, <3>2 DEF ExtractDepositId
  <2>3. CASE style = "receipt"
    <3>1. /\ result.shape = "mapping" /\ result.key = None /\ result.id = None
          /\ result.logs = logs
      BY <2>3 DEF Result
    <3>2. QED
      BY <2>3, <3>1 DEF ExtractDepositId
  <2>4. QED
    BY <1>1, <1>4, <2>1, <2>2, <2>3
<1>5. ASSUME style = "labelled"
      PROVE  id = n /\ n \in Nat \ {0} /\ ~LabelFree
  <2>1. /\ result.shape = "mapping" /\ result.key = None /\ result.id = n
    BY <1>5 DEF Result
  <2>2. id \in {n, LoggedId(<<>>)} /\ n \in Nat \ {0} /\ n # None /\ ~LabelFree
    BY <1>1, <1>5, <2>1, NoneAssumption DEF ExtractDepositId, LabelFree
  <2>3. QED
    BY <2>1, <2>2 DEF ExtractDepositId
<1>6. Len(deposits) \in Nat
  BY DEF IInv, TypeOK
<1>7. id \in (Nat \ {0}) \cup {None}
  <2> HIDE DEF id
  <2>1. QED
    BY <1>3, <1>4, <1>5, <1>6
<1>8. LabelFree /\ id # None => id \in 1..Len(deposits) /\ deposits[id].by = c
  <2> HIDE DEF id
  <2>1. QED
    BY <1>3, <1>4, <1>5
<1>9. QED
  BY <1>2, <1>7, <1>8

LEMMA SignerReturnsKeeps ==
  ASSUME IInv, NEW c \in Calls, NEW style \in SignerStyles, SignerReturns(c, style)
  PROVE  IInv'
<1> USE DEF chainVars
<1> DEFINE hash == ExtractTxHash(Result(style, nonce[c]))
           id   == ExtractDepositId(Result(style, nonce[c]))
<1>1. /\ hash \in Nat \cup {None}
      /\ id \in (Nat \ {0}) \cup {None}
      /\ LabelFree /\ id # None => id \in 1..Len(deposits) /\ deposits[id].by = c
  BY ResultIsOfTheCall DEF SignerReturns
<1>2. /\ pc[c] = "wait" /\ pc' = [pc EXCEPT ![c] = IF LastStep(c) THEN "returned" ELSE "sign"]
      /\ hashes' = [hashes EXCEPT ![c] = IF hash # None THEN Append(@, hash) ELSE @]
      /\ depositId' = [depositId EXCEPT ![c] = IF @ # None THEN @ ELSE id]
      /\ nonce' = [nonce EXCEPT ![c] = 0] /\ step' = [step EXCEPT ![c] = @ + 1]
      /\ UNCHANGED <<request, error, digest, hook, makers, chainVars>>
  BY DEF SignerReturns
<1> HIDE DEF hash, id
<1>3. /\ step[c] \in {1, 2} /\ (LastStep(c) <=> step[c] = 2)
      /\ CashoutError(request[c]) = Ok /\ request[c] \in Requests /\ error[c] = None
      /\ digest[c] \in Digests
  BY <1>2 DEF IInv, CallOK, LastStep, Txs
<1>4. TypeOK'
  <2>1. /\ hashes \in [Calls -> Seq(Nat)] /\ step \in [Calls -> 0..3]
        /\ nonce \in [Calls -> Nat] /\ depositId \in [Calls -> (Nat \ {0}) \cup {None}]
        /\ Len(deposits) \in Nat
    BY DEF IInv, TypeOK
  <2>2. hashes' \in [Calls -> Seq(Nat)]
    BY <1>1, <1>2, <2>1
  <2>3. depositId' \in [Calls -> (Nat \ {0}) \cup {None}]
    BY <1>1, <1>2, <2>1
  <2>4. step' \in [Calls -> 0..3] /\ nonce' \in [Calls -> Nat]
    BY <1>2, <1>3, <2>1
  <2>5. QED
    BY <1>2, <2>2, <2>3, <2>4 DEF IInv, TypeOK
<1>5. \A d \in Calls : d # c => SameCall(d)
  BY <1>2 DEF SameCall, IInv, TypeOK
<1>6. OnlyAddsFor(c) /\ DepositsStay
  BY <1>2 DEF OnlyAddsFor, DepositsStay, IInv, TypeOK
<1>7. pc'[c] \in {"sign", "returned"} /\ (pc'[c] = "sign" => step'[c] = 2)
  BY <1>2, <1>3 DEF IInv, TypeOK
<1>8. LabelFree /\ depositId'[c] # None
        => depositId'[c] \in 1..Len(deposits) /\ deposits[depositId'[c]].by = c
  BY <1>1, <1>2 DEF IInv, TypeOK, CallOK
<1>9. CallOK(c)'
  BY <1>2, <1>3, <1>7, <1>8 DEF CallOK
<1>10. TraceOK(c)'
  BY <1>2, <1>3, <1>7, NoneAssumption DEF TraceOK, Errors, EncodeErrors
<1>11. ChainOK'
  BY <1>2, ChainStays DEF IInv
<1>12. QED
  BY <1>4, <1>5, <1>6, <1>9, <1>10, <1>11, OtherCalls DEF IInv

(* The host's follow-up touches the wallet and nothing of the calls. *)
LEMMA AttachHookKeeps ==
  ASSUME IInv, NEW c \in Calls, AttachHook(c)
  PROVE  IInv'
<1> DEFINE tx == [kind |-> "setRateManager", call |-> c, id |-> depositId[c]]
<1>1. /\ pc[c] = "returned" /\ depositId[c] # None /\ wallet' = Append(wallet, tx)
      /\ hook' = [hook EXCEPT ![c] = "sent"]
      /\ UNCHANGED <<pc, request, error, digest, step, nonce, hashes, depositId, makers,
                     receipts, allowance, deposits>>
  BY DEF AttachHook, HookAsked, Broadcast, SetRateManagerTx
<1>2. tx \in Hooks /\ tx.call = c /\ tx.kind # "createDeposit"
  BY <1>1 DEF Hooks, IInv, TypeOK
<1> HIDE DEF tx
<1>3. wallet' \in Seq(Approves \cup Creates \cup Hooks)
  BY <1>1, <1>2 DEF IInv, TypeOK
<1>4. TypeOK'
  BY <1>1, <1>3 DEF IInv, TypeOK
<1>5. /\ Len(wallet') = Len(wallet) + 1 /\ wallet'[Len(wallet) + 1] = tx
      /\ \A n \in 1..Len(wallet) : wallet'[n] = wallet[n]
      /\ Len(wallet) \in Nat
  BY <1>1 DEF IInv, TypeOK
<1>6. OnlyAddsFor(c)
  <2>1. \A n \in 1..Len(wallet') : n > Len(wallet) => n = Len(wallet) + 1
    BY <1>5
  <2>2. QED
    BY <1>1, <1>2, <1>5, <2>1 DEF OnlyAddsFor
<1>7. DepositsStay
  <2>1. Len(deposits) \in Nat /\ deposits' = deposits
    BY <1>1 DEF IInv, TypeOK
  <2>2. QED
    BY <2>1 DEF DepositsStay
<1>8. \A d \in Calls : d # c => SameCall(d)
  BY <1>1 DEF SameCall
<1>9. CallOK(c)'
  BY <1>1 DEF IInv, CallOK
<1>10. error[c] = None /\ None \notin CheckErrors \cup {"signer", "range"}
  BY <1>1, NoneAssumption DEF IInv, CallOK, Errors, EncodeErrors
<1>11. TraceOK(c)'
  BY <1>1, <1>10 DEF TraceOK
<1>12. ChainOK'
  BY <1>1, <1>2, ChainGrows
<1>13. QED
  BY <1>4, <1>6, <1>7, <1>8, <1>9, <1>11, <1>12, OtherCalls DEF IInv

LEMMA HookRaisesKeeps ==
  ASSUME IInv, NEW c \in Calls, HookRaises(c)
  PROVE  IInv'
<1>1. /\ hook' = [hook EXCEPT ![c] = "TypeError"]
      /\ UNCHANGED <<pc, request, error, digest, step, nonce, hashes, depositId, makers,
                     wallet, receipts, allowance, deposits>>
  BY DEF HookRaises, chainVars
<1>2. TypeOK'
  BY <1>1 DEF IInv, TypeOK
<1>3. \A d \in Calls : CallOK(d)' /\ TraceOK(d)'
  BY <1>1 DEF IInv, CallOK, TraceOK, Traceless
<1>4. ChainOK'
  BY <1>1, ChainStays DEF IInv
<1>5. QED
  BY <1>2, <1>3, <1>4 DEF IInv

-----------------------------------------------------------------------------
(* One lemma per action of the chain. *)

(* A step of the chain that broadcasts nothing and keeps the deposits.     *)
LEMMA CallsOutliveMining ==
  ASSUME IInv, UNCHANGED <<callVars, makers, wallet>>, DepositsStay
  PROVE  \A d \in Calls : CallOK(d)' /\ TraceOK(d)'
<1>1. \A d \in Calls : d # Foreign /\ SameCall(d)
  BY CallsAssumption DEF SameCall, callVars
<1>2. OnlyAddsFor(Foreign)
  BY DEF OnlyAddsFor, IInv, TypeOK
<1>3. QED
  BY <1>1, <1>2, OtherCalls

(* A receipt is added whose DepositReceived, if any, names a deposit of    *)
(* the transaction's call, and which refuses no pair the registry carries. *)
LEMMA MinedKeepsChain ==
  ASSUME IInv, Unmined, UNCHANGED wallet, DepositsStay,
         NEW receipt, receipts' = Append(receipts, receipt),
         receipt.outcome = "CurrencyNotSupported" => StaleRow(NextTx),
         Len(receipt.logs) \in 0..2,
         \A k \in 1..Len(receipt.logs) :
           receipt.logs[k].topic = "DepositReceived"
             => LET id == receipt.logs[k].first
                IN  id \in 1..Len(deposits') /\ deposits'[id].by = NextTx.call
  PROVE  ChainOK'
<1>1. /\ Len(receipts) \in Nat /\ Len(wallet) \in Nat /\ Len(receipts) < Len(wallet)
      /\ Len(receipts') = Len(receipts) + 1
      /\ receipts'[Len(receipts) + 1] = receipt
      /\ \A n \in 1..Len(receipts) : receipts'[n] = receipts[n]
      /\ Len(deposits) \in Nat /\ Len(deposits') >= Len(deposits)
  BY DEF IInv, TypeOK, Unmined, DepositsStay
<1>2. \A n \in 1..Len(receipts) : ReceiptOK(n)'
  <2>1. TAKE n \in 1..Len(receipts)
  <2>2. ReceiptOK(n) /\ receipts'[n] = receipts[n] /\ wallet' = wallet
    BY <1>1 DEF IInv, ChainOK
  <2>3. \A id \in 1..Len(deposits) : id \in 1..Len(deposits') /\ deposits'[id].by = deposits[id].by
    BY <1>1 DEF DepositsStay
  <2>4. QED
    BY <2>2, <2>3, SMTT(30) DEF ReceiptOK
<1>3. ASSUME NEW m, m = Len(receipts) + 1
      PROVE  ReceiptOK(m)'
  <2>1. receipts'[m] = receipt /\ wallet'[m] = NextTx
    BY <1>1, <1>3 DEF NextTx
  <2>2. QED
    BY <2>1 DEF ReceiptOK
<1>4. QED
  <2>1. \A n \in 1..Len(receipts') : n \in 1..Len(receipts) \/ n = Len(receipts) + 1
    BY <1>1
  <2>2. \A n \in 1..Len(receipts') : ReceiptOK(n)'
    BY <1>2, <1>3, <2>1
  <2>3. PairsOK'
    BY DEF IInv, ChainOK, PairsOK
  <2>4. QED
    BY <1>1, <2>2, <2>3 DEF ChainOK

(* The next transaction is of one of the three kinds, and well typed. *)
LEMMA NextTxTyped ==
  ASSUME IInv, Unmined
  PROVE  /\ NextTx \in Approves \cup Creates \cup Hooks
         /\ NextTx.kind = "approve" => NextTx.units \in Nat
         /\ NextTx.kind = "createDeposit"
              => /\ NextTx.units \in Nat
                 /\ NextTx \in Creates
                 /\ NextTx.currency \in Registry[NextTx.platform]
<1>1. NextTx \in Approves \cup Creates \cup Hooks /\ Len(receipts) + 1 \in 1..Len(wallet)
  BY DEF IInv, TypeOK, Unmined, NextTx
<1>2. NextTx.kind = "approve" => NextTx.units \in Nat
  BY <1>1, UnitsAreNat DEF Approves, Creates, Hooks
<1>3. ASSUME NextTx.kind = "createDeposit"
      PROVE  /\ NextTx \in Creates /\ NextTx.units \in Nat
             /\ NextTx.currency \in Registry[NextTx.platform]
  <2>1. NextTx \in Creates
    BY <1>1, <1>3 DEF Approves, Hooks
  <2>2. NextTx.units \in Nat /\ NextTx.platform \in PaymentMethods
    BY <2>1, UnitsAreNat DEF Creates
  <2>3. NextTx.currency \in Registry[NextTx.platform]
    BY <1>1, <1>3 DEF IInv, ChainOK, PairsOK, NextTx
  <2>4. QED
    BY <2>1, <2>2, <2>3
<1>4. QED
  BY <1>1, <1>2, <1>3

LEMMA MineApproveKeeps ==
  ASSUME IInv, MineApprove, UNCHANGED <<callVars, makers>>
  PROVE  IInv'
<1> DEFINE receipt == Success(<<Log("Approval", OwnerTopic)>>)
<1>1. /\ Unmined /\ NextTx.units \in Nat /\ allowance' = NextTx.units
      /\ receipts' = Append(receipts, receipt) /\ UNCHANGED <<wallet, deposits>>
  BY NextTxTyped DEF MineApprove
<1>2. /\ receipt.outcome = "success" /\ Len(receipt.logs) = 1
      /\ receipt.logs[1].topic = "Approval"
      /\ receipt \in [outcome : Outcomes, logs : Seq(Logs)]
  BY DEF Success, Log, Outcomes, Logs
<1> HIDE DEF receipt
<1>3. TypeOK'
  BY <1>1, <1>2 DEF IInv, TypeOK, callVars
<1>4. DepositsStay
  BY <1>1 DEF DepositsStay, IInv, TypeOK
<1>5. ChainOK'
  BY <1>1, <1>2, <1>4, MinedKeepsChain
<1>6. QED
  BY <1>1, <1>3, <1>4, <1>5, CallsOutliveMining DEF IInv

LEMMA MineCreateDepositKeeps ==
  ASSUME IInv, MineCreateDeposit, UNCHANGED <<callVars, makers>>
  PROVE  IInv'
<1> DEFINE transfer == Log("Transfer", OwnerTopic)
           received == Log("DepositReceived", Len(deposits) + 1)
           row == [by |-> NextTx.call, units |-> NextTx.units,
                   platform |-> NextTx.platform, currency |-> NextTx.currency,
                   digest |-> NextTx.digest, managed |-> FALSE]
<1>1. PICK logs \in {<<transfer, received>>, <<received, transfer>>} :
        receipts' = Append(receipts, Success(logs))
  BY DEF MineCreateDeposit
<1>2. /\ Unmined /\ NextTx.kind = "createDeposit" /\ allowance >= NextTx.units
      /\ allowance' = allowance - NextTx.units
      /\ deposits' = Append(deposits, row) /\ UNCHANGED wallet
  BY DEF MineCreateDeposit
<1>3. NextTx \in Creates /\ NextTx.units \in Nat
  BY <1>2, NextTxTyped
<1>4. row \in OwnDeposits /\ row.by = NextTx.call
  BY <1>3 DEF Creates, OwnDeposits
<1>5. Len(deposits) \in Nat /\ allowance \in Nat /\ deposits \in Seq(OwnDeposits \cup ForeignRow)
  BY DEF IInv, TypeOK
<1>6. /\ transfer \in Logs /\ received \in Logs
      /\ transfer.topic = "Transfer" /\ received.first = Len(deposits) + 1
  BY <1>5 DEF Log, Logs
<1>7. /\ Len(logs) = 2 /\ logs \in Seq(Logs)
      /\ logs[1] \in {transfer, received} /\ logs[2] \in {transfer, received}
  <2> HIDE DEF transfer, received
  <2>1. CASE logs = <<transfer, received>>
    BY <1>6, <2>1
  <2>2. CASE logs = <<received, transfer>>
    BY <1>6, <2>2
  <2>3. QED
    BY <2>1, <2>2
<1> DEFINE receipt == Success(logs)
<1> HIDE DEF transfer, received, row
<1>8. /\ receipt.logs = logs /\ receipt.outcome = "success"
      /\ receipt \in [outcome : Outcomes, logs : Seq(Logs)]
      /\ receipts' = Append(receipts, receipt)
  BY <1>1, <1>7 DEF Success, Outcomes
<1> HIDE DEF receipt
<1>9. /\ Len(deposits') = Len(deposits) + 1 /\ deposits'[Len(deposits) + 1] = row
      /\ \A i \in 1..Len(deposits) : deposits'[i] = deposits[i]
      /\ deposits' \in Seq(OwnDeposits \cup ForeignRow)
  BY <1>2, <1>4, <1>5
<1>10. receipts' \in Seq([outcome : Outcomes, logs : Seq(Logs)])
  BY <1>8 DEF IInv, TypeOK
<1>11. allowance' \in Nat
  BY <1>2, <1>3, <1>5
<1>12. TypeOK'
  BY <1>2, <1>9, <1>10, <1>11 DEF IInv, TypeOK, callVars
<1>13. DepositsStay
  BY <1>5, <1>9 DEF DepositsStay
<1>14. \A k \in 1..Len(logs) :
         logs[k].topic = "DepositReceived"
           => logs[k].first \in 1..Len(deposits') /\ deposits'[logs[k].first].by = NextTx.call
  BY <1>4, <1>5, <1>6, <1>7, <1>9
<1>15. ChainOK'
  <2>1. /\ Len(receipt.logs) \in 0..2
        /\ receipt.outcome = "CurrencyNotSupported" => StaleRow(NextTx)
    BY <1>7, <1>8
  <2>2. \A k \in 1..Len(receipt.logs) :
          receipt.logs[k].topic = "DepositReceived"
            => LET id == receipt.logs[k].first
               IN  id \in 1..Len(deposits') /\ deposits'[id].by = NextTx.call
    BY <1>8, <1>14
  <2>3. QED
    BY <1>2, <1>8, <1>13, <2>1, <2>2, MinedKeepsChain
<1>16. QED
  BY <1>2, <1>12, <1>13, <1>15, CallsOutliveMining DEF IInv

(* A receipt of a revert carries no logs, and refuses only a stale row. *)
LEMMA RevertKeeps ==
  ASSUME IInv, Unmined, NEW cause \in {"CurrencyNotSupported", "allowance", "other"},
         cause = "CurrencyNotSupported" => StaleRow(NextTx),
         receipts' = Append(receipts, Reverted(cause)),
         UNCHANGED <<wallet, allowance, deposits, callVars, makers>>
  PROVE  IInv'
<1> DEFINE receipt == Reverted(cause)
<1>1. /\ receipt.outcome = cause /\ Len(receipt.logs) = 0
      /\ receipt \in [outcome : Outcomes, logs : Seq(Logs)]
      /\ receipts' = Append(receipts, receipt)
  BY DEF Reverted, Outcomes
<1> HIDE DEF receipt
<1>2. TypeOK'
  BY <1>1 DEF IInv, TypeOK, callVars
<1>3. DepositsStay
  BY DEF DepositsStay, IInv, TypeOK
<1>4. ChainOK'
  BY <1>1, <1>3, MinedKeepsChain
<1>5. QED
  BY <1>2, <1>3, <1>4, CallsOutliveMining DEF IInv

(* createDeposit reverts for the allowance, or for a pair of the table the *)
(* client ships that the registry does not carry.                          *)
LEMMA RevertCreateDepositKeeps ==
  ASSUME IInv, RevertCreateDeposit, UNCHANGED <<callVars, makers>>
  PROVE  IInv'
<1>1. Unmined /\ NextTx.currency \in Registry[NextTx.platform]
  BY NextTxTyped DEF RevertCreateDeposit
<1>2. ~Carried(NextTx) => StaleRow(NextTx)
  BY <1>1 DEF StaleRow
<1>3. QED
  BY <1>1, <1>2, RevertKeeps DEF RevertCreateDeposit

LEMMA MineRevertKeeps ==
  ASSUME IInv, MineRevert, UNCHANGED <<callVars, makers>>
  PROVE  IInv'
BY RevertKeeps DEF MineRevert

LEMMA MineSetRateManagerKeeps ==
  ASSUME IInv, MineSetRateManager, UNCHANGED <<callVars, makers>>
  PROVE  IInv'
<1> DEFINE receipt == Success(<<>>)
           id == NextTx.id
<1>1. /\ Unmined /\ id \in 1..Len(deposits) /\ deposits[id].by # Foreign
      /\ deposits' = [deposits EXCEPT ![id].managed = TRUE]
      /\ receipts' = Append(receipts, receipt) /\ UNCHANGED <<wallet, allowance>>
  BY DEF MineSetRateManager
<1>2. /\ receipt.outcome = "success" /\ Len(receipt.logs) = 0
      /\ receipt \in [outcome : Outcomes, logs : Seq(Logs)]
  BY DEF Success, Outcomes
<1> HIDE DEF receipt, id
<1>3. deposits \in Seq(OwnDeposits \cup ForeignRow) /\ Len(deposits) \in Nat
  BY DEF IInv, TypeOK
<1>4. deposits[id] \in OwnDeposits
  <2>1. deposits[id] \in OwnDeposits \cup ForeignRow
    BY <1>1, <1>3
  <2>2. QED
    BY <1>1, <2>1 DEF ForeignRow
<1>5. [deposits[id] EXCEPT !.managed = TRUE] \in OwnDeposits
  BY <1>4 DEF OwnDeposits
<1>6. /\ deposits' \in Seq(OwnDeposits \cup ForeignRow) /\ Len(deposits') = Len(deposits)
      /\ \A i \in 1..Len(deposits) : deposits'[i].by = deposits[i].by
  <2> DEFINE row == [deposits[id] EXCEPT !.managed = TRUE]
  <2>1. deposits' = [deposits EXCEPT ![id] = row]
    BY <1>1
  <2>2. /\ deposits' \in Seq(OwnDeposits \cup ForeignRow) /\ Len(deposits') = Len(deposits)
    <3>1. row \in OwnDeposits \cup ForeignRow
      BY <1>5
    <3> HIDE DEF row
    <3>2. /\ [deposits EXCEPT ![id] = row] \in Seq(OwnDeposits \cup ForeignRow)
          /\ Len([deposits EXCEPT ![id] = row]) = Len(deposits)
      BY <1>1, <1>3, <3>1, ExceptSeq
    <3>3. QED
      BY <2>1, <3>2
  <2>3. row.by = deposits[id].by
    BY <1>4 DEF OwnDeposits
  <2> HIDE DEF row
  <2>4. \A i \in 1..Len(deposits) : deposits'[i].by = deposits[i].by
    BY <1>3, <2>1, <2>3
  <2>5. QED
    BY <2>2, <2>4
<1>7. TypeOK'
  BY <1>1, <1>2, <1>6, SMTT(30) DEF IInv, TypeOK, callVars
<1>8. DepositsStay
  BY <1>3, <1>6 DEF DepositsStay
<1>9. ChainOK'
  BY <1>1, <1>2, <1>8, MinedKeepsChain
<1>10. QED
  BY <1>1, <1>7, <1>8, <1>9, CallsOutliveMining DEF IInv

LEMMA ForeignDepositKeeps ==
  ASSUME IInv, ForeignDeposit, UNCHANGED <<callVars, makers>>
  PROVE  IInv'
<1> DEFINE row == [by |-> Foreign, units |-> 0, platform |-> Foreign, currency |-> Foreign,
                   digest |-> Foreign, managed |-> FALSE]
<1>1. deposits' = Append(deposits, row) /\ UNCHANGED <<wallet, receipts, allowance>>
  BY DEF ForeignDeposit
<1>2. row \in ForeignRow
  BY DEF ForeignRow
<1> HIDE DEF row
<1>3. deposits \in Seq(OwnDeposits \cup ForeignRow) /\ Len(deposits) \in Nat
  BY DEF IInv, TypeOK
<1>4. /\ deposits' \in Seq(OwnDeposits \cup ForeignRow) /\ Len(deposits') = Len(deposits) + 1
      /\ \A i \in 1..Len(deposits) : deposits'[i] = deposits[i]
  BY <1>1, <1>2, <1>3
<1>5. TypeOK'
  BY <1>1, <1>4 DEF IInv, TypeOK, callVars
<1>6. DepositsStay
  BY <1>3, <1>4 DEF DepositsStay
<1>7. ChainOK'
  <2>1. ASSUME NEW n \in 1..Len(receipts)
        PROVE  ReceiptOK(n)'
    <3>1. ReceiptOK(n) /\ receipts' = receipts /\ wallet' = wallet
      BY <1>1 DEF IInv, ChainOK
    <3>2. \A id \in 1..Len(deposits) :
            id \in 1..Len(deposits') /\ deposits'[id].by = deposits[id].by
      BY <1>3, <1>4
    <3>3. QED
      BY <3>1, <3>2 DEF ReceiptOK
  <2>2. QED
    BY <1>1, <2>1 DEF IInv, ChainOK, PairsOK
<1>8. QED
  BY <1>1, <1>5, <1>6, <1>7, CallsOutliveMining DEF IInv

-----------------------------------------------------------------------------
(* The inductive invariant *)

LEMMA InitIsSafe == Init => IInv
<1> SUFFICES ASSUME Init PROVE IInv
  OBVIOUS
<1> USE DEF Init, ChainInit
<1>1. TypeOK
  BY DEF TypeOK
<1>2. \A c \in Calls : CallOK(c) /\ TraceOK(c)
  BY NoneAssumption DEF CallOK, TraceOK, Traceless
<1>3. ChainOK
  BY DEF ChainOK, PairsOK
<1>4. QED
  BY <1>1, <1>2, <1>3 DEF IInv

LEMMA StepIsSafe == IInv /\ [Next]_vars => IInv'
<1> SUFFICES ASSUME IInv, [Next]_vars PROVE IInv'
  OBVIOUS
<1>1. CASE UNCHANGED vars
  <2>1. UNCHANGED <<pc, request, error, digest, step, nonce, hashes, depositId, hook, makers,
                    wallet, receipts, allowance, deposits>>
    BY <1>1 DEF vars, callVars, chainVars
  <2>2. TypeOK' /\ ChainOK'
    BY <2>1, ChainStays DEF IInv, TypeOK
  <2>3. \A c \in Calls : CallOK(c)' /\ TraceOK(c)'
    BY <2>1 DEF IInv, CallOK, TraceOK, Traceless
  <2>4. QED
    BY <2>2, <2>3 DEF IInv
<1>2. ASSUME NEW c \in Calls, HostCalls(c)
      PROVE  IInv'
  BY <1>2, RefuseKeeps, StartPostKeeps, SkipPostKeeps DEF HostCalls
<1>3. ASSUME NEW c \in Calls, CuratorReceives(c) \/ CuratorEnds(c)
      PROVE  IInv'
  BY <1>3, CuratorReceivesKeeps, CuratorAnswersKeeps, CuratorFailsKeeps DEF CuratorEnds
<1>4. ASSUME NEW c \in Calls, SignerEnds(c)
      PROVE  IInv'
  BY <1>4, SignerBroadcastsKeeps, SignerReturnsKeeps, SignerRaisesKeeps DEF SignerEnds
<1>5. ASSUME NEW c \in Calls, AttachHook(c) \/ HookRaises(c)
      PROVE  IInv'
  BY <1>5, AttachHookKeeps, HookRaisesKeeps
<1>6. CASE Chain
  BY <1>6, MineApproveKeeps, MineCreateDepositKeeps, RevertCreateDepositKeeps,
     MineSetRateManagerKeeps, MineRevertKeeps, ForeignDepositKeeps
     DEF Chain, ChainNext, Mine
<1>7. QED
  BY <1>1, <1>2, <1>3, <1>4, <1>5, <1>6 DEF Next

LEMMA AlwaysSafe == Spec => []IInv
BY InitIsSafe, StepIsSafe, PTL DEF Spec

(* Every variable keeps its type: with any number of calls, any requests   *)
(* and any mixture of signers, cashout() and its chain stay in their state *)
(* space.                                                                  *)
THEOREM TypesHold == Spec => []TypeOK
<1>1. IInv => TypeOK
  BY DEF IInv
<1>2. QED
  BY <1>1, AlwaysSafe, PTL

(* extract_deposit_id never reports another maker's deposit, nor another   *)
(* call's, if no signer answers with an "id" that is something else.       *)
THEOREM DepositIdsAreOnesOwn ==
  ASSUME LabelFree
  PROVE  Spec => []DepositIdIsMine
<1>1. IInv => DepositIdIsMine
  BY DEF IInv, CallOK, DepositIdIsMine
<1>2. QED
  BY <1>1, AlwaysSafe, PTL

(* A cash-out refused by a local check of prepare() left no maker record   *)
(* and no transaction, and the encoders never repeat those refusals later. *)
THEOREM RefusalsLeaveNoTrace == Spec => []RefusedTouchesNothing
<1>1. IInv => RefusedTouchesNothing
  BY DEF IInv, TraceOK, Traceless, RefusedTouchesNothing, TxBy
<1>2. QED
  BY <1>1, AlwaysSafe, PTL

(* Whatever the onchain registry carries, a createDeposit is refused for   *)
(* its pair only when PAYMENT_METHOD_CURRENCIES has it and the registry    *)
(* has not: no other pair gets past prepare().                             *)
THEOREM OnlyStaleRowsRevert == Spec => []PairRevertsAreStaleRows
<1>1. IInv => PairRevertsAreStaleRows
  BY DEF IInv, ChainOK, ReceiptOK, PairRevertsAreStaleRows
<1>2. QED
  BY <1>1, AlwaysSafe, PTL

-----------------------------------------------------------------------------
(***************************************************************************)
(* Which transactions of the wallet are a call's own, for any calls,       *)
(* requests, tables and signers.  The argument: what a call has broadcast  *)
(* is told by step and nonce alone, wherever the call is and also after it *)
(* raised: no approve and no createDeposit, the approve, or both in order. *)
(* Nobody else writes transactions in its name, so this lasts.             *)
(***************************************************************************)

(* The digest of an encoded call is the one the caller brought, or the     *)
(* curator's of a record minted for this very call.                        *)
RecordOf(c) ==
  [call |-> c, platform |-> request[c].platform, handle |-> Handle[request[c]]]

DigestOK(c) ==
  \/ digest[c] = request[c].supplied
  \/ /\ request[c].supplied = None
     /\ digest[c] = DigestOf(request[c])
     /\ RecordOf(c) \in makers

(* Where step and nonce are in each phase. *)
PhaseOK(c) ==
  /\ pc[c] \in {"idle", "post", "posted"} => step[c] = 0
  /\ pc[c] \in {"post", "posted"} => request[c].supplied = None
  /\ pc[c] = "posted" => RecordOf(c) \in makers
  /\ pc[c] = "sign" => nonce[c] = 0
  /\ pc[c] = "returned" => step[c] = 3
  /\ step[c] \in {0, 3} => nonce[c] = 0
  /\ step[c] > 0 => request[c] \in Accepted /\ DigestOK(c)

(* What of a call's two transactions is in the wallet. *)
TxsOK(c) ==
  /\ \A n \in 1..Len(wallet) :
       /\ ApproveBy(c, n) => wallet[n] = ApproveTx(c) /\ HandedBy(c) >= 1
       /\ CreateBy(c, n) => wallet[n] = CreateDepositTx(c) /\ HandedBy(c) = 2
  /\ HandedBy(c) >= 1 => \E n \in 1..Len(wallet) : ApproveBy(c, n)
  /\ HandedBy(c) = 2 => \E n \in 1..Len(wallet) : CreateBy(c, n)
  /\ \A m, n \in 1..Len(wallet) :
       /\ ApproveBy(c, m) /\ ApproveBy(c, n) => m = n
       /\ CreateBy(c, m) /\ CreateBy(c, n) => m = n
       /\ ApproveBy(c, m) /\ CreateBy(c, n) => m < n

(* The nonce and the hashes a call holds are of those transactions. *)
NonceOK(c) ==
  nonce[c] # 0 => IF step[c] = 1 THEN ApproveBy(c, nonce[c]) ELSE CreateBy(c, nonce[c])

HashesOK(c) ==
  /\ Len(hashes[c]) = 0 \/ Len(hashes[c]) < step[c]
  /\ \A i \in 1..Len(hashes[c]) : ApproveBy(c, hashes[c][i]) \/ CreateBy(c, hashes[c][i])
  /\ Len(hashes[c]) = 1 /\ step[c] = 2 => ApproveBy(c, hashes[c][1])
  /\ Len(hashes[c]) = 2 => ApproveBy(c, hashes[c][1]) /\ CreateBy(c, hashes[c][2])

OwnOK(c) == PhaseOK(c) /\ TxsOK(c) /\ NonceOK(c) /\ HashesOK(c)

TxsInv == \A c \in Calls : OwnOK(c)

-----------------------------------------------------------------------------
(* Frames *)

(* All that the host and the client keep of d is untouched. *)
Untouched(d) == SameCall(d) /\ hashes'[d] = hashes[d]

(* The wallet and the curator's records only grow, by what is c's. *)
Grows(c) ==
  /\ makers \subseteq makers'
  /\ Len(wallet') >= Len(wallet)
  /\ \A n \in 1..Len(wallet) : wallet'[n] = wallet[n]
  /\ \A n \in 1..Len(wallet') : n > Len(wallet) => wallet'[n].call = c

(* What a call has handed over depends on step and nonce only. *)
LEMMA HandedStays ==
  ASSUME NEW c, step'[c] = step[c], nonce'[c] = nonce[c]
  PROVE  HandedBy(c)' = HandedBy(c)
BY DEF HandedBy

(* The transactions of d stay what they are while others' are added. *)
LEMMA OwnTxsStay ==
  ASSUME Len(wallet) \in Nat, Len(wallet') \in Nat, NEW c, NEW d, d # c, Grows(c)
  PROVE  \A n : /\ ApproveBy(d, n)' <=> ApproveBy(d, n)
                /\ CreateBy(d, n)' <=> CreateBy(d, n)
                /\ ApproveBy(d, n) \/ CreateBy(d, n)
                     => n \in 1..Len(wallet) /\ n \in 1..Len(wallet') /\ wallet'[n] = wallet[n]
BY DEF Grows, ApproveBy, CreateBy, TxBy

LEMMA DigestStays ==
  ASSUME NEW d, DigestOK(d), digest'[d] = digest[d], request'[d] = request[d],
         makers \subseteq makers'
  PROVE  DigestOK(d)'
BY DEF DigestOK, RecordOf, DigestOf

LEMMA PhaseStays ==
  ASSUME NEW d, PhaseOK(d), SameCall(d), makers \subseteq makers'
  PROVE  PhaseOK(d)'
<1>1. DigestOK(d) => DigestOK(d)'
  BY DigestStays DEF SameCall
<1>2. pc[d] = "posted" => RecordOf(d)' \in makers'
  BY DEF PhaseOK, SameCall, RecordOf
<1> QED BY <1>1, <1>2 DEF PhaseOK, SameCall

(* The transactions a call means to send are the same while its request    *)
(* and its digest are.                                                     *)
LEMMA MeantStays ==
  ASSUME NEW d, request'[d] = request[d], digest'[d] = digest[d]
  PROVE  ApproveTx(d)' = ApproveTx(d) /\ CreateDepositTx(d)' = CreateDepositTx(d)
BY DEF ApproveTx, CreateDepositTx, UnitsOf

(* Nothing happens to a call while others move on. *)
LEMMA OthersKeepTheirs ==
  ASSUME TxsInv, Len(wallet) \in Nat, Len(wallet') \in Nat,
         NEW c, NEW d \in Calls, d # c, Untouched(d), Grows(c)
  PROVE  OwnOK(d)'
<1>1. PhaseOK(d)'
  BY PhaseStays DEF TxsInv, OwnOK, Untouched, Grows
<1>2. \A n : /\ ApproveBy(d, n)' <=> ApproveBy(d, n)
             /\ CreateBy(d, n)' <=> CreateBy(d, n)
             /\ ApproveBy(d, n) \/ CreateBy(d, n)
                  => n \in 1..Len(wallet) /\ n \in 1..Len(wallet') /\ wallet'[n] = wallet[n]
  BY OwnTxsStay
<1>3. HandedBy(d)' = HandedBy(d)
  BY HandedStays DEF Untouched, SameCall
<1>4. ApproveTx(d)' = ApproveTx(d) /\ CreateDepositTx(d)' = CreateDepositTx(d)
  BY MeantStays DEF Untouched, SameCall
<1>5. TxsOK(d)'
  BY <1>2, <1>3, <1>4 DEF TxsInv, OwnOK, TxsOK
<1>6. NonceOK(d)' /\ HashesOK(d)'
  BY <1>2 DEF TxsInv, OwnOK, NonceOK, HashesOK, Untouched, SameCall
<1> QED BY <1>1, <1>5, <1>6 DEF OwnOK

(* A step of c that broadcasts nothing and moves neither step nor nonce    *)
(* once something is handed over.                                          *)
LEMMA TxsStay ==
  ASSUME NEW c, TxsOK(c), UNCHANGED wallet, HandedBy(c)' = HandedBy(c),
         \/ HandedBy(c) = 0
         \/ request'[c] = request[c] /\ digest'[c] = digest[c]
  PROVE  TxsOK(c)'
<1>1. \A n : /\ ApproveBy(c, n)' <=> ApproveBy(c, n)
             /\ CreateBy(c, n)' <=> CreateBy(c, n)
  BY DEF ApproveBy, CreateBy, TxBy
<1>2. CASE HandedBy(c) = 0
  BY <1>1, <1>2 DEF TxsOK
<1>3. CASE request'[c] = request[c] /\ digest'[c] = digest[c]
  <2>1. ApproveTx(c)' = ApproveTx(c) /\ CreateDepositTx(c)' = CreateDepositTx(c)
    BY <1>3, MeantStays
  <2> QED BY <1>1, <2>1 DEF TxsOK
<1> QED BY <1>2, <1>3

-----------------------------------------------------------------------------
(* One lemma per action of a call *)

(* What the lemmas below take from the types. *)
LEMMA Lengths == TypeOK => Len(wallet) \in Nat /\ Len(receipts) \in Nat /\ Len(deposits) \in Nat
BY DEF TypeOK

(* A step of c that leaves wallet, hashes and nonce alone. *)
LEMMA LocalKeepsTxs ==
  ASSUME IInv, IInv', TxsInv, NEW c \in Calls,
         UNCHANGED <<wallet, nonce, hashes>>, makers \subseteq makers',
         \A d \in Calls : d # c => SameCall(d),
         PhaseOK(c)',
         \/ step'[c] = step[c]
         \/ step[c] = 0 /\ step'[c] = 1,
         \/ step[c] = 0
         \/ request'[c] = request[c] /\ digest'[c] = digest[c]
  PROVE  TxsInv'
<1>1. OwnOK(c) /\ Len(wallet) \in Nat /\ Len(wallet') \in Nat /\ step[c] \in 0..3
  BY Lengths DEF TxsInv, IInv, TypeOK
<1>2. step[c] = 0 => nonce[c] = 0 /\ HandedBy(c) = 0
  BY <1>1 DEF OwnOK, PhaseOK, HandedBy
<1>3. HandedBy(c)' = HandedBy(c)
  BY <1>1, <1>2 DEF HandedBy
<1>4. TxsOK(c)'
  BY <1>1, <1>2, <1>3, TxsStay DEF OwnOK
<1>5. \A n : (ApproveBy(c, n)' <=> ApproveBy(c, n)) /\ (CreateBy(c, n)' <=> CreateBy(c, n))
  BY DEF ApproveBy, CreateBy, TxBy
<1>6. NonceOK(c)'
  BY <1>1, <1>2, <1>5 DEF OwnOK, NonceOK
<1>7. HashesOK(c)'
  <2>1. hashes[c] \in Seq(Nat)
    BY DEF IInv, TypeOK
  <2> QED BY <1>1, <1>5, <2>1, SMTT(30) DEF OwnOK, HashesOK
<1>8. Grows(c)
  BY <1>1 DEF Grows
<1>9. \A d \in Calls : d # c => OwnOK(d)'
  BY <1>1, <1>8, OthersKeepTheirs DEF Untouched
<1> QED BY <1>4, <1>6, <1>7, <1>9 DEF OwnOK, TxsInv

LEMMA RefuseKeepsTxs ==
  ASSUME IInv, IInv', TxsInv, NEW c \in Calls, NEW r \in Requests, Refuse(c, r)
  PROVE  TxsInv'
<1>1. /\ pc[c] = "idle" /\ pc'[c] = "raised"
      /\ UNCHANGED <<wallet, nonce, hashes, makers, step, digest>>
      /\ \A d \in Calls : d # c => SameCall(d)
  BY DEF IInv, TypeOK, Refuse, Call, Raise, SameCall, chainVars
<1>2. step[c] = 0 /\ nonce[c] = 0
  BY <1>1 DEF TxsInv, OwnOK, PhaseOK
<1>3. PhaseOK(c)'
  BY <1>1, <1>2 DEF PhaseOK
<1> QED BY <1>1, <1>2, <1>3, LocalKeepsTxs

LEMMA StartPostKeepsTxs ==
  ASSUME IInv, IInv', TxsInv, NEW c \in Calls, NEW r \in Requests, StartPost(c, r)
  PROVE  TxsInv'
<1>1. /\ pc[c] = "idle" /\ pc'[c] = "post" /\ request'[c] = r /\ r.supplied = None
      /\ UNCHANGED <<wallet, nonce, hashes, makers, step, digest>>
      /\ \A d \in Calls : d # c => SameCall(d)
  BY DEF IInv, TypeOK, StartPost, Call, SameCall, chainVars
<1>2. step[c] = 0 /\ nonce[c] = 0
  BY <1>1 DEF TxsInv, OwnOK, PhaseOK
<1>3. PhaseOK(c)'
  BY <1>1, <1>2 DEF PhaseOK
<1> QED BY <1>1, <1>2, <1>3, LocalKeepsTxs

(* Encoding moves step from 0 to 1, or raises where it was. *)
LEMMA EncodeSteps ==
  ASSUME IInv, NEW c \in Calls, NEW r, NEW d, Encode(c, r, d), step[c] = 0
  PROVE  /\ digest'[c] = d
         /\ \/ pc'[c] = "sign" /\ step'[c] = 1
            \/ pc'[c] = "raised" /\ step'[c] = 0
         /\ \A e \in Calls : e # c => /\ pc'[e] = pc[e] /\ error'[e] = error[e]
                                      /\ digest'[e] = digest[e] /\ step'[e] = step[e]
BY DEF IInv, TypeOK, Encode, Raise

LEMMA SkipPostKeepsTxs ==
  ASSUME IInv, IInv', TxsInv, NEW c \in Calls, NEW r \in Requests, SkipPost(c, r)
  PROVE  TxsInv'
<1>1. /\ pc[c] = "idle" /\ request' = [request EXCEPT ![c] = r]
      /\ Encode(c, r, r.supplied) /\ CashoutError(r) = Ok
      /\ UNCHANGED <<wallet, nonce, hashes, depositId, makers>>
  BY DEF SkipPost, Call, chainVars
<1>2. request'[c] = r /\ \A d \in Calls : d # c => request'[d] = request[d]
  BY <1>1 DEF IInv, TypeOK
<1>3. step[c] = 0 /\ nonce[c] = 0
  BY <1>1 DEF TxsInv, OwnOK, PhaseOK
<1>4. /\ digest'[c] = r.supplied
      /\ \/ pc'[c] = "sign" /\ step'[c] = 1
         \/ pc'[c] = "raised" /\ step'[c] = 0
      /\ \A d \in Calls : d # c => SameCall(d)
  BY <1>1, <1>2, <1>3, EncodeSteps DEF SameCall
<1>5. PhaseOK(c)'
  <2>1. DigestOK(c)'
    BY <1>2, <1>4 DEF DigestOK
  <2>2. request'[c] \in Accepted
    BY <1>1, <1>2 DEF Accepted
  <2> QED BY <1>1, <1>3, <1>4, <2>1, <2>2 DEF PhaseOK
<1> QED BY <1>1, <1>3, <1>4, <1>5, LocalKeepsTxs

LEMMA CuratorReceivesKeepsTxs ==
  ASSUME IInv, IInv', TxsInv, NEW c \in Calls, CuratorReceives(c)
  PROVE  TxsInv'
<1>1. /\ pc[c] = "post" /\ pc'[c] = "posted" /\ makers' = makers \cup {RecordOf(c)}
      /\ UNCHANGED <<wallet, nonce, hashes, step, digest, request>>
      /\ \A d \in Calls : d # c => SameCall(d)
  BY DEF IInv, TypeOK, CuratorReceives, SameCall, chainVars, RecordOf
<1>2. step[c] = 0 /\ nonce[c] = 0 /\ request[c].supplied = None
  BY <1>1 DEF TxsInv, OwnOK, PhaseOK
<1>3. PhaseOK(c)'
  BY <1>1, <1>2 DEF PhaseOK, RecordOf
<1> QED BY <1>1, <1>2, <1>3, LocalKeepsTxs

LEMMA CuratorAnswersKeepsTxs ==
  ASSUME IInv, IInv', TxsInv, NEW c \in Calls, CuratorAnswers(c)
  PROVE  TxsInv'
<1>1. /\ pc[c] = "posted" /\ Encode(c, request[c], DigestOf(request[c]))
      /\ UNCHANGED <<wallet, nonce, hashes, depositId, makers, request>>
  BY DEF CuratorAnswers, chainVars
<1>2. /\ step[c] = 0 /\ nonce[c] = 0 /\ request[c].supplied = None
      /\ RecordOf(c) \in makers
  BY <1>1 DEF TxsInv, OwnOK, PhaseOK
<1>3. request[c] \in Accepted
  BY <1>1 DEF IInv, CallOK, Accepted
<1>4. /\ digest'[c] = DigestOf(request[c])
      /\ \/ pc'[c] = "sign" /\ step'[c] = 1
         \/ pc'[c] = "raised" /\ step'[c] = 0
      /\ \A d \in Calls : d # c => SameCall(d)
  BY <1>1, <1>2, EncodeSteps DEF SameCall
<1>5. PhaseOK(c)'
  <2>1. DigestOK(c)'
    BY <1>1, <1>2, <1>4 DEF DigestOK, RecordOf, DigestOf
  <2> QED BY <1>1, <1>2, <1>3, <1>4, <2>1 DEF PhaseOK
<1> QED BY <1>1, <1>2, <1>4, <1>5, LocalKeepsTxs

(* An exception leaves step, nonce and the digest where they were. *)
LEMMA RaiseKeepsTxs ==
  ASSUME IInv, IInv', TxsInv, NEW c \in Calls, NEW e, Raise(c, e),
         UNCHANGED <<request, digest, step, nonce, hashes, depositId, makers, wallet>>
  PROVE  TxsInv'
<1>1. pc'[c] = "raised" /\ \A d \in Calls : d # c => SameCall(d)
  BY DEF IInv, TypeOK, Raise, SameCall
<1>2. DigestOK(c) => DigestOK(c)'
  BY DigestStays
<1>3. PhaseOK(c)'
  BY <1>1, <1>2 DEF TxsInv, OwnOK, PhaseOK
<1> QED BY <1>1, <1>3, LocalKeepsTxs

LEMMA FailsKeepTxs ==
  ASSUME IInv, IInv', TxsInv, NEW c \in Calls, CuratorFails(c) \/ SignerRaises(c)
  PROVE  TxsInv'
BY RaiseKeepsTxs DEF CuratorFails, SignerRaises, chainVars

(* Broadcasting puts one transaction at the next nonce. *)
LEMMA BroadcastAppends ==
  ASSUME TypeOK, NEW tx, wallet' = Append(wallet, tx)
  PROVE  /\ Len(wallet) \in Nat /\ Len(wallet') = Len(wallet) + 1
         /\ wallet'[Len(wallet) + 1] = tx
         /\ \A n \in 1..Len(wallet) : wallet'[n] = wallet[n]
         /\ \A n : n \in 1..Len(wallet') <=> n \in 1..Len(wallet) \/ n = Len(wallet) + 1
<1>1. Len(wallet) \in Nat /\ wallet \in Seq(Approves \cup Creates \cup Hooks)
  BY DEF TypeOK
<1>2. Len(wallet') = Len(wallet) + 1
  BY <1>1
<1>3. wallet'[Len(wallet) + 1] = tx /\ \A n \in 1..Len(wallet) : wallet'[n] = wallet[n]
  BY <1>1
<1>4. \A n : n \in 1..Len(wallet') <=> n \in 1..Len(wallet) \/ n = Len(wallet) + 1
  BY <1>1, <1>2
<1> QED BY <1>1, <1>2, <1>3, <1>4

(* Whose the transactions are once one of c is appended. *)
LEMMA BroadcastOwners ==
  ASSUME TypeOK, NEW c, NEW tx, wallet' = Append(wallet, tx), tx.call = c
  PROVE  \A n : /\ ApproveBy(c, n)' <=> \/ ApproveBy(c, n)
                                        \/ n = Len(wallet) + 1 /\ tx.kind = "approve"
                /\ CreateBy(c, n)' <=> \/ CreateBy(c, n)
                                       \/ n = Len(wallet) + 1 /\ tx.kind = "createDeposit"
<1>1. /\ Len(wallet) \in Nat /\ wallet'[Len(wallet) + 1] = tx
      /\ \A n \in 1..Len(wallet) : wallet'[n] = wallet[n]
      /\ \A n : n \in 1..Len(wallet') <=> n \in 1..Len(wallet) \/ n = Len(wallet) + 1
  BY BroadcastAppends
<1> QED BY <1>1 DEF ApproveBy, CreateBy, TxBy

(* Appending a transaction of c does not disturb what the others have. *)
LEMMA BroadcastGrows ==
  ASSUME TypeOK, NEW c, NEW tx, wallet' = Append(wallet, tx), tx.call = c,
         UNCHANGED makers
  PROVE  Grows(c) /\ Len(wallet) \in Nat /\ Len(wallet') \in Nat
<1>1. /\ Len(wallet) \in Nat /\ Len(wallet') = Len(wallet) + 1
      /\ wallet'[Len(wallet) + 1] = tx
      /\ \A n \in 1..Len(wallet) : wallet'[n] = wallet[n]
      /\ \A n : n \in 1..Len(wallet') <=> n \in 1..Len(wallet) \/ n = Len(wallet) + 1
  BY BroadcastAppends
<1> QED BY <1>1 DEF Grows

LEMMA SignerBroadcastsKeepsTxs ==
  ASSUME IInv, IInv', TxsInv, NEW c \in Calls, SignerBroadcasts(c)
  PROVE  TxsInv'
<1> DEFINE tx == Txs(c)[step[c]]
           at == Len(wallet) + 1
<1>1. /\ pc[c] = "sign" /\ wallet' = Append(wallet, tx) /\ nonce'[c] = at /\ pc'[c] = "wait"
      /\ UNCHANGED <<request, digest, step, hashes, makers, depositId>>
      /\ \A d \in Calls : d # c => SameCall(d)
  BY DEF IInv, TypeOK, SignerBroadcasts, Broadcast, SameCall
<1>2. /\ nonce[c] = 0 /\ step[c] \in {1, 2} /\ PhaseOK(c) /\ TxsOK(c) /\ HashesOK(c)
      /\ request[c] \in Accepted /\ DigestOK(c)
  BY <1>1 DEF IInv, CallOK, TxsInv, OwnOK, PhaseOK
<1>3. tx.call = c /\ tx = IF step[c] = 1 THEN ApproveTx(c) ELSE CreateDepositTx(c)
  BY <1>2 DEF Txs, ApproveTx, CreateDepositTx
<1>4. /\ step[c] = 1 => tx.kind = "approve"
      /\ step[c] = 2 => tx.kind = "createDeposit"
  BY <1>3 DEF ApproveTx, CreateDepositTx
<1> HIDE DEF tx
<1>5. TypeOK
  BY DEF IInv
<1>6. \A n : /\ ApproveBy(c, n)' <=> ApproveBy(c, n) \/ (n = at /\ tx.kind = "approve")
             /\ CreateBy(c, n)' <=> CreateBy(c, n) \/ (n = at /\ tx.kind = "createDeposit")
  BY <1>1, <1>3, <1>5, BroadcastOwners
<1>7. /\ Len(wallet) \in Nat /\ wallet'[at] = tx /\ at \in 1..Len(wallet')
      /\ \A n \in 1..Len(wallet) : wallet'[n] = wallet[n] /\ n < at /\ n \in 1..Len(wallet')
      /\ \A n : n \in 1..Len(wallet') <=> n \in 1..Len(wallet) \/ n = at
  BY <1>1, <1>5, BroadcastAppends
<1> HIDE DEF at
<1>8. \A n : ApproveBy(c, n) \/ CreateBy(c, n) => n \in 1..Len(wallet)
  BY DEF ApproveBy, CreateBy, TxBy
<1>9. HandedBy(c) = step[c] - 1 /\ HandedBy(c)' = step[c]
  BY <1>1, <1>2, <1>7 DEF HandedBy
<1>10. ApproveTx(c)' = ApproveTx(c) /\ CreateDepositTx(c)' = CreateDepositTx(c)
  BY <1>1, MeantStays
<1>11. TxsOK(c)'
  <2>1. CASE step[c] = 1
    <3>1. \A n : ~ApproveBy(c, n) /\ ~CreateBy(c, n)
      BY <1>2, <1>8, <1>9, <2>1 DEF TxsOK
    <3>2. \A n : (ApproveBy(c, n)' <=> n = at) /\ ~CreateBy(c, n)'
      BY <1>4, <1>6, <2>1, <3>1
    <3>3. wallet'[at] = ApproveTx(c)' /\ HandedBy(c)' = 1
      BY <1>3, <1>7, <1>9, <1>10, <2>1
    <3> QED BY <1>7, <3>2, <3>3 DEF TxsOK
  <2>2. CASE step[c] = 2
    <3>1. \A n : ~CreateBy(c, n)
      BY <1>2, <1>8, <1>9, <2>2 DEF TxsOK
    <3>2. \A n : (CreateBy(c, n)' <=> n = at) /\ (ApproveBy(c, n)' <=> ApproveBy(c, n))
      BY <1>4, <1>6, <2>2, <3>1
    <3>3. wallet'[at] = CreateDepositTx(c)' /\ HandedBy(c)' = 2
      BY <1>3, <1>7, <1>9, <1>10, <2>2
    <3>4. \A n : ApproveBy(c, n) => wallet'[n] = ApproveTx(c)' /\ n < at /\ n \in 1..Len(wallet')
      BY <1>2, <1>7, <1>8, <1>10 DEF TxsOK
    <3>5. \E n \in 1..Len(wallet) : ApproveBy(c, n)
      BY <1>2, <1>9, <2>2 DEF TxsOK
    <3>6. \A m, n : ApproveBy(c, m) /\ ApproveBy(c, n) => m = n
      BY <1>2, <1>8 DEF TxsOK
    <3> QED BY <1>7, <3>2, <3>3, <3>4, <3>5, <3>6 DEF TxsOK
  <2> QED BY <1>2, <2>1, <2>2
<1>12. NonceOK(c)'
  BY <1>1, <1>2, <1>4, <1>6 DEF NonceOK
<1>13. HashesOK(c)'
  BY <1>1, <1>2, <1>6 DEF HashesOK
<1>14. PhaseOK(c)'
  <2>1. DigestOK(c)'
    BY <1>1, <1>2, DigestStays
  <2> QED BY <1>1, <1>2, <2>1 DEF PhaseOK
<1>15. \A d \in Calls : d # c => OwnOK(d)'
  <2>1. Grows(c) /\ Len(wallet) \in Nat /\ Len(wallet') \in Nat
    BY <1>1, <1>3, <1>5, BroadcastGrows
  <2> QED BY <1>1, <2>1, OthersKeepTheirs DEF Untouched
<1> QED BY <1>11, <1>12, <1>13, <1>14, <1>15 DEF OwnOK, TxsInv

(* The signer's answer settles the transaction it was called with, and     *)
(* the hash it gives, if any, is the one of that transaction.              *)
LEMMA SignerReturnsKeepsTxs ==
  ASSUME IInv, IInv', TxsInv, NEW c \in Calls, NEW style, SignerReturns(c, style)
  PROVE  TxsInv'
<1>1. /\ pc[c] = "wait" /\ nonce'[c] = 0 /\ step'[c] = step[c] + 1
      /\ pc'[c] = IF step[c] = 2 THEN "returned" ELSE "sign"
      /\ UNCHANGED <<request, digest, makers, wallet>>
  BY DEF IInv, TypeOK, SignerReturns, LastStep, Txs, chainVars
<1>2. \A d \in Calls : d # c => Untouched(d)
  BY DEF IInv, TypeOK, SignerReturns, Untouched, SameCall
<1>3. hashes'[c] = hashes[c] \/ hashes'[c] = Append(hashes[c], nonce[c])
  <2> DEFINE hash == ExtractTxHash(Result(style, nonce[c]))
  <2>1. hash = None \/ hash = nonce[c]
    BY DEF ExtractTxHash, Result
  <2>2. hashes'[c] = IF hash # None THEN Append(hashes[c], hash) ELSE hashes[c]
    BY DEF IInv, TypeOK, SignerReturns
  <2> HIDE DEF hash
  <2> QED BY <2>1, <2>2
<1>4. /\ step[c] \in {1, 2} /\ nonce[c] \in 1..Len(wallet) /\ hashes[c] \in Seq(Nat)
      /\ Len(wallet) \in Nat
  BY <1>1, Lengths DEF IInv, CallOK, TypeOK
<1>5. OwnOK(c) /\ nonce[c] # 0 /\ nonce[c] \in Nat
  BY <1>4 DEF TxsInv
<1>6. HandedBy(c)' = HandedBy(c)
  BY <1>1, <1>4, <1>5 DEF HandedBy
<1>7. TxsOK(c)'
  BY <1>1, <1>5, <1>6, TxsStay DEF OwnOK
<1>8. NonceOK(c)'
  BY <1>1 DEF NonceOK
<1>9. \A n : (ApproveBy(c, n)' <=> ApproveBy(c, n)) /\ (CreateBy(c, n)' <=> CreateBy(c, n))
  BY <1>1 DEF ApproveBy, CreateBy, TxBy
<1>10. HashesOK(c)'
  <2> DEFINE old == hashes[c]
             new == hashes'[c]
  <2>1. /\ Len(old) \in Nat /\ NonceOK(c) /\ HashesOK(c)
        /\ Len(old) = 0 \/ Len(old) < step[c]
    BY <1>4, <1>5 DEF OwnOK, HashesOK
  <2>2. /\ step[c] = 1 => ApproveBy(c, nonce[c]) /\ Len(old) = 0
        /\ step[c] = 2 => CreateBy(c, nonce[c]) /\ (Len(old) = 0 \/ Len(old) = 1)
    <3>1. /\ step[c] = 1 => ApproveBy(c, nonce[c])
          /\ step[c] = 2 => CreateBy(c, nonce[c])
      BY <1>5, <2>1 DEF NonceOK, ApproveBy, CreateBy, TxBy
    <3>2. /\ step[c] = 1 => Len(old) = 0
          /\ step[c] = 2 => Len(old) = 0 \/ Len(old) = 1
      <4>1. ASSUME NEW l \in Nat, NEW s, l = 0 \/ l < s
            PROVE  (s = 1 => l = 0) /\ (s = 2 => l = 0 \/ l = 1)
        BY <4>1
      <4> QED BY <2>1, <4>1
    <3> QED BY <3>1, <3>2
  <2>3. /\ \A i \in 1..Len(old) : ApproveBy(c, old[i]) \/ CreateBy(c, old[i])
        /\ Len(old) = 1 /\ step[c] = 2 => ApproveBy(c, old[1])
    BY <2>1 DEF HashesOK
  <2>4. HashesOK(c)' <=>
          /\ Len(new) = 0 \/ Len(new) < step[c] + 1
          /\ \A i \in 1..Len(new) : ApproveBy(c, new[i]) \/ CreateBy(c, new[i])
          /\ Len(new) = 1 /\ step[c] + 1 = 2 => ApproveBy(c, new[1])
          /\ Len(new) = 2 => ApproveBy(c, new[1]) /\ CreateBy(c, new[2])
    BY <1>1 DEF HashesOK, ApproveBy, CreateBy, TxBy
  <2>5. CASE new = old
    BY <1>4, <2>1, <2>2, <2>3, <2>4, <2>5
  <2>6. CASE new = Append(old, nonce[c])
    <3>1. /\ Len(new) = Len(old) + 1 /\ new[Len(old) + 1] = nonce[c]
          /\ \A i \in 1..Len(old) : new[i] = old[i]
      BY <1>4, <1>5, <2>6
    <3> HIDE DEF old, new
    <3>2. CASE Len(old) = 0
      BY <1>4, <2>2, <2>4, <3>1, <3>2
    <3>3. CASE Len(old) = 1 /\ step[c] = 2
      BY <2>2, <2>3, <2>4, <3>1, <3>3
    <3> QED BY <1>4, <2>2, <3>2, <3>3
  <2> QED BY <1>3, <2>5, <2>6
<1>11. PhaseOK(c)'
  <2>1. request[c] \in Accepted /\ DigestOK(c)'
    BY <1>1, <1>4, <1>5, DigestStays DEF OwnOK, PhaseOK
  <2> QED BY <1>1, <1>4, <2>1 DEF PhaseOK
<1>12. \A d \in Calls : d # c => OwnOK(d)'
  <2>1. Grows(c) /\ Len(wallet') \in Nat
    BY <1>1, <1>4 DEF Grows
  <2> QED BY <1>2, <1>4, <2>1, OthersKeepTheirs
<1> QED BY <1>7, <1>8, <1>10, <1>11, <1>12 DEF OwnOK, TxsInv

(* The host's follow-up is a transaction of another kind. *)
LEMMA AttachHookKeepsTxs ==
  ASSUME IInv, IInv', TxsInv, NEW c \in Calls, AttachHook(c)
  PROVE  TxsInv'
<1> DEFINE tx == SetRateManagerTx(c)
<1>1. /\ wallet' = Append(wallet, tx)
      /\ UNCHANGED <<pc, request, error, digest, step, nonce, hashes, depositId, makers>>
  BY DEF AttachHook, Broadcast
<1>2. tx.call = c /\ tx.kind = "setRateManager"
  BY DEF SetRateManagerTx
<1> HIDE DEF tx
<1>3. TypeOK
  BY DEF IInv
<1>4. \A n : (ApproveBy(c, n)' <=> ApproveBy(c, n)) /\ (CreateBy(c, n)' <=> CreateBy(c, n))
  BY <1>1, <1>2, <1>3, BroadcastOwners
<1>5. /\ Len(wallet) \in Nat
      /\ \A n \in 1..Len(wallet) : wallet'[n] = wallet[n]
      /\ \A n : n \in 1..Len(wallet') <=> n \in 1..Len(wallet) \/ n = Len(wallet) + 1
  BY <1>1, <1>3, BroadcastAppends
<1>6. \A n : ApproveBy(c, n) \/ CreateBy(c, n) => n \in 1..Len(wallet) /\ n \in 1..Len(wallet')
  BY <1>5 DEF ApproveBy, CreateBy, TxBy
<1>7. OwnOK(c)
  BY DEF TxsInv
<1>8. TxsOK(c)'
  <2>1. HandedBy(c)' = HandedBy(c)
    BY <1>1, HandedStays
  <2>2. ApproveTx(c)' = ApproveTx(c) /\ CreateDepositTx(c)' = CreateDepositTx(c)
    BY <1>1, MeantStays
  <2> QED BY <1>4, <1>5, <1>6, <1>7, <2>1, <2>2 DEF OwnOK, TxsOK
<1>9. NonceOK(c)' /\ HashesOK(c)'
  BY <1>1, <1>4, <1>7 DEF OwnOK, NonceOK, HashesOK
<1>10. PhaseOK(c)'
  BY <1>1, <1>7, PhaseStays DEF OwnOK, SameCall
<1>11. \A d \in Calls : d # c => OwnOK(d)'
  <2>1. Grows(c) /\ Len(wallet') \in Nat
    BY <1>1, <1>2, <1>3, BroadcastGrows
  <2> QED BY <1>1, <1>5, <2>1, OthersKeepTheirs DEF Untouched, SameCall
<1> QED BY <1>8, <1>9, <1>10, <1>11 DEF OwnOK, TxsInv

(* Chain, follow-ups that raise, and stutters: nothing of the calls moves. *)
LEMMA ElsewhereKeepsTxs ==
  ASSUME TypeOK, TxsInv, UNCHANGED <<callVars, makers, wallet>> \/ (\E c \in Calls : HookRaises(c))
  PROVE  TxsInv'
<1>1. UNCHANGED <<pc, request, error, digest, step, nonce, hashes, depositId, makers, wallet>>
  BY DEF callVars, HookRaises, chainVars
<1>2. Foreign \notin Calls /\ Grows(Foreign) /\ Len(wallet) \in Nat /\ Len(wallet') \in Nat
  BY <1>1, CallsAssumption, Lengths DEF Grows
<1>3. \A d \in Calls : d # Foreign /\ Untouched(d)
  BY <1>1, <1>2 DEF Untouched, SameCall
<1> QED BY <1>2, <1>3, OthersKeepTheirs DEF TxsInv

-----------------------------------------------------------------------------
(* The invariant *)

LEMMA InitHasNoTxs == Init => TxsInv
<1> SUFFICES ASSUME Init, NEW c \in Calls PROVE OwnOK(c)
  BY DEF TxsInv
<1>1. /\ pc[c] = "idle" /\ step[c] = 0 /\ nonce[c] = 0 /\ hashes[c] = <<>> /\ wallet = <<>>
  BY DEF Init, ChainInit
<1>2. HandedBy(c) = 0
  BY <1>1 DEF HandedBy
<1> QED BY <1>1, <1>2 DEF OwnOK, PhaseOK, TxsOK, NonceOK, HashesOK

LEMMA StepKeepsTxs == IInv /\ TxsInv /\ [Next]_vars => TxsInv'
<1> SUFFICES ASSUME IInv, TxsInv, [Next]_vars PROVE TxsInv'
  OBVIOUS
<1>1. IInv'
  BY StepIsSafe
<1>2. TypeOK
  BY DEF IInv
<1>3. CASE UNCHANGED vars
  BY <1>2, <1>3, ElsewhereKeepsTxs DEF vars, chainVars
<1>4. ASSUME NEW c \in Calls, HostCalls(c)
      PROVE  TxsInv'
  BY <1>1, <1>4, RefuseKeepsTxs, StartPostKeepsTxs, SkipPostKeepsTxs DEF HostCalls
<1>5. ASSUME NEW c \in Calls, CuratorReceives(c) \/ CuratorEnds(c)
      PROVE  TxsInv'
  BY <1>1, <1>5, CuratorReceivesKeepsTxs, CuratorAnswersKeepsTxs, FailsKeepTxs DEF CuratorEnds
<1>6. ASSUME NEW c \in Calls, SignerEnds(c)
      PROVE  TxsInv'
  BY <1>1, <1>6, SignerBroadcastsKeepsTxs, SignerReturnsKeepsTxs, FailsKeepTxs DEF SignerEnds
<1>7. ASSUME NEW c \in Calls, AttachHook(c) \/ HookRaises(c)
      PROVE  TxsInv'
  BY <1>1, <1>2, <1>7, AttachHookKeepsTxs, ElsewhereKeepsTxs
<1>8. CASE Chain
  <2>1. UNCHANGED <<callVars, makers, wallet>>
    BY <1>8 DEF Chain, ChainNext, Mine, MineApprove, MineCreateDeposit, RevertCreateDeposit,
                MineSetRateManager, MineRevert, ForeignDeposit
  <2> QED BY <1>2, <2>1, ElsewhereKeepsTxs
<1> QED BY <1>3, <1>4, <1>5, <1>6, <1>7, <1>8 DEF Next

LEMMA TxsAlways == Spec => []TxsInv
BY InitHasNoTxs, StepKeepsTxs, AlwaysSafe, PTL DEF Spec

(* However calls interleave and whatever their signers return, the hashes  *)
(* cashout() reports are of the call's own transactions, and when there    *)
(* are two they are the approve and, after it, the createDeposit.          *)
THEOREM HashesAreOnesOwn == Spec => []HashesAreMine
<1>1. TypeOK /\ TxsInv => HashesAreMine
  <2> SUFFICES ASSUME TypeOK, TxsInv, NEW c \in Calls
               PROVE  /\ \A i \in 1..Len(hashes[c]) : TxBy(c, hashes[c][i])
                      /\ Len(hashes[c]) = 2 => /\ ApproveBy(c, hashes[c][1])
                                               /\ CreateBy(c, hashes[c][2])
                                               /\ hashes[c][1] < hashes[c][2]
    BY DEF HashesAreMine
  <2>1. TxsOK(c) /\ HashesOK(c)
    BY DEF TxsInv, OwnOK
  <2>2. \A n : ApproveBy(c, n) \/ CreateBy(c, n) => TxBy(c, n) /\ n \in 1..Len(wallet)
    BY DEF ApproveBy, CreateBy, TxBy
  <2> QED BY <2>1, <2>2 DEF TxsOK, HashesOK
<1> QED BY <1>1, TypesHold, TxsAlways, PTL
=============================================================================

------------------------------- MODULE Cashout -------------------------------
(***************************************************************************)
(* Offramp.cashout: from the caller's request to the two transactions the  *)
(* host's signer submits, with the curator, the signer and the chain it    *)
(* runs against, and the Best follow-up the host makes from its result.    *)
(*                                                                         *)
(* Calls are cash-outs of one host wallet.  Nothing in the client keeps    *)
(* two of them apart: Sequential says whether the host does.               *)
(*                                                                         *)
(*   idle -> post -> posted -> sign <-> wait -> returned                   *)
(*                                                                         *)
(* and raised from everywhere but idle's success.  "post" is the curator   *)
(* request on its way, "posted" the maker record minted and the answer on  *)
(* its way back, "sign" the signer called with txs[step] and nothing       *)
(* broadcast yet, "wait" that transaction broadcast as wallet[nonce].      *)
(***************************************************************************)
EXTENDS CashoutRules, BaseChain

CONSTANTS
  Calls,                        \* cash-outs the host makes
  Requests,                     \* what it may ask of each
  SignerStyles,                 \* what its signer returns, see Result
  Sequential,                   \* the host makes one call at a time
  PlatformsNeedingAttestation

ASSUME CallsAssumption == Foreign \notin Calls
ASSUME SequentialAssumption == Sequential \in BOOLEAN
ASSUME SignerStylesAssumption ==
  SignerStyles \subseteq {"hash", "receipt", "keyed", "labelled", "none"}

VARIABLES
  pc, request, error,
  digest,       \* payee_details_hash
  step,         \* place in prepared.txs of the transaction being signed
  nonce,        \* its nonce once broadcast, 0 before
  hashes,       \* tx_hashes collected
  depositId,    \* deposit_id collected
  hook,         \* the host's setRateManager follow-up
  makers        \* the curator's maker records

callVars == <<pc, request, error, digest, step, nonce, hashes, depositId, hook>>
vars     == <<callVars, makers, chainVars>>

Ended  == {"returned", "raised"}
Active(c) == pc[c] \notin Ended \cup {"idle"}

Init ==
  /\ pc = [c \in Calls |-> "idle"]
  /\ request = [c \in Calls |-> None]
  /\ error = [c \in Calls |-> None]
  /\ digest = [c \in Calls |-> None]
  /\ step = [c \in Calls |-> 0]
  /\ nonce = [c \in Calls |-> 0]
  /\ hashes = [c \in Calls |-> <<>>]
  /\ depositId = [c \in Calls |-> None]
  /\ hook = [c \in Calls |-> "none"]
  /\ makers = {}
  /\ ChainInit

(* The exception e leaves cashout(). *)
Raise(c, e) ==
  /\ pc' = [pc EXCEPT ![c] = "raised"]
  /\ error' = [error EXCEPT ![c] = e]

-----------------------------------------------------------------------------
(* prepare() *)

(* The host calls cashout(r). *)
Call(c, r) ==
  /\ pc[c] = "idle"
  /\ Sequential => \A other \in Calls : ~Active(other)
  /\ request' = [request EXCEPT ![c] = r]
  /\ UNCHANGED <<nonce, hashes, depositId, hook, makers, chainVars>>

Refuse(c, r) ==
  /\ Call(c, r)
  /\ CashoutError(r) # Ok
  /\ Raise(c, CashoutError(r))
  /\ UNCHANGED <<digest, step>>

StartPost(c, r) ==
  /\ Call(c, r)
  /\ CashoutError(r) = Ok
  /\ r.supplied = None
  /\ pc' = [pc EXCEPT ![c] = "post"]
  /\ UNCHANGED <<error, digest, step>>

(* approve_tx and create_deposit_tx: both are encoded, or neither is. *)
Encode(c, r, d) ==
  /\ digest' = [digest EXCEPT ![c] = d]
  /\ \/ /\ EncodeError(r, d) = Ok
        /\ pc' = [pc EXCEPT ![c] = "sign"]
        /\ step' = [step EXCEPT ![c] = 1]
        /\ UNCHANGED error
     \/ /\ EncodeError(r, d) # Ok
        /\ Raise(c, EncodeError(r, d))
        /\ UNCHANGED step

(* A payee_details_hash the caller brings spares the POST. *)
SkipPost(c, r) ==
  /\ Call(c, r)
  /\ CashoutError(r) = Ok
  /\ r.supplied # None
  /\ Encode(c, r, r.supplied)

(* What each request makes the client post, and the digest the curator    *)
(* gives that maker.                                                       *)
Handle == [r \in Requests |-> NormalizePayee(r.platform, r.payee)]
DigestOf(r) == <<r.platform, Handle[r]>>

(* The curator mints the maker record, and only then answers. *)
CuratorReceives(c) ==
  /\ pc[c] = "post"
  /\ pc' = [pc EXCEPT ![c] = "posted"]
  /\ makers' = makers \cup
       {[call |-> c, platform |-> request[c].platform, handle |-> Handle[request[c]]]}
  /\ UNCHANGED <<request, error, digest, step, nonce, hashes, depositId, hook, chainVars>>

CuratorAnswers(c) ==
  /\ pc[c] = "posted"
  /\ Encode(c, request[c], DigestOf(request[c]))
  /\ UNCHANGED <<request, nonce, hashes, depositId, hook, makers, chainVars>>

(* A variant with no timeout on the request (EveryCallEnds).               *)
CuratorHangs(c) ==
  /\ pc[c] = "posted"
  /\ Raise(c, "CURATOR")
  /\ UNCHANGED <<request, digest, step, nonce, hashes, depositId, hook, makers, chainVars>>

(* A rejection, a transport failure or the client's timeout, before or     *)
(* after the record is minted, or an answer without a digest.  On a        *)
(* platform that needs an attestation an error that says so is translated. *)
CuratorFails(c) ==
  /\ pc[c] \in {"post", "posted"}
  /\ \/ Raise(c, "CURATOR")
     \/ /\ request[c].platform \in PlatformsNeedingAttestation
        /\ Raise(c, "PAYEE_VERIFICATION_REQUIRED")
  /\ UNCHANGED <<request, digest, step, nonce, hashes, depositId, hook, makers, chainVars>>

-----------------------------------------------------------------------------
(* The loop of cashout() over prepared.txs. *)

UnitsOf(c) == ParseUsdcAmount(request[c].amount)

(* A variant that approves more than it deposits, against which            *)
(* NoAllowanceOutlivesItsDeposit is tried.                                 *)
GenerousApproveTx(c) == [kind |-> "approve", call |-> c, units |-> UnitsOf(c) + 1]

ApproveTx(c) == [kind |-> "approve", call |-> c, units |-> UnitsOf(c)]

(* A variant that prices every deposit in USD (DepositsMatchTheirCalls).   *)
DollarDepositTx(c) ==
  [kind |-> "createDeposit", call |-> c, units |-> UnitsOf(c),
   platform |-> request[c].platform, currency |-> "USD", digest |-> digest[c]]

CreateDepositTx(c) ==
  [kind |-> "createDeposit", call |-> c, units |-> UnitsOf(c),
   platform |-> request[c].platform, currency |-> request[c].currency,
   digest |-> digest[c]]

(* A variant in the wrong order (HashesAreMine and the allowance).         *)
SwappedTxs(c) == <<CreateDepositTx(c), ApproveTx(c)>>

Txs(c) == <<ApproveTx(c), CreateDepositTx(c)>>

(* A variant whose return sits inside the loop (ReturnedIsMined).          *)
ReturnsAtOnce(c) == TRUE

LastStep(c) == step[c] = Len(Txs(c))

(* The id in the first DepositReceived of the logs. *)
DepositLog(logs) == FirstWhere(logs, LAMBDA l : l.topic = "DepositReceived")

(* A variant that trusts the first log (BestFollowUpFindsItsDeposit).      *)
FirstLogId(logs) ==
  IF logs # <<>> /\ logs[1].topic = "DepositReceived" THEN logs[1].first ELSE None

LoggedId(logs) ==
  IF DepositLog(logs) <= Len(logs) THEN logs[DepositLog(logs)].first ELSE None

(* What signer(tx) gives back for transaction n: its bare hash, the mined  *)
(* receipt, a mapping with the hash and the deposit id the host read off   *)
(* the receipt, a mapping with the hash and the number of the request      *)
(* under "id", as an RPC envelope has, or None.                            *)
Result(style, n) ==
  [shape |-> CASE style = "hash" -> "text"
               [] style = "none" -> "none"
               [] OTHER -> "mapping",
   hash  |-> IF style = "none" THEN None ELSE n,
   key   |-> IF style = "keyed" THEN LoggedId(receipts[n].logs) ELSE None,
   id    |-> IF style = "labelled" THEN n ELSE None,
   logs  |-> IF style = "receipt" THEN receipts[n].logs ELSE <<>>]

ExtractTxHash(result) == result.hash

(* A variant that does not look at the topic (TypeOK).                     *)
AnyTopicId(result) ==
  IF result.shape = "mapping" /\ result.logs # <<>> THEN result.logs[1].first ELSE None

(* A variant that asks the escrow for its newest deposit instead of        *)
(* reading the receipt (DepositIdIsMine, HooksManageTheirOwn).             *)
NewestDepositId(result) ==
  IF result.shape = "mapping" /\ deposits # <<>> THEN Len(deposits) ELSE None

(* The keys deposit_id and depositId, then id, then the logs. *)
ExtractDepositId(result) ==
  CASE result.shape # "mapping" -> None
    [] result.shape = "mapping" /\ result.key # None -> result.key
    [] result.shape = "mapping" /\ result.key = None /\ result.id # None -> result.id
    [] OTHER -> LoggedId(result.logs)

SignerBroadcasts(c) ==
  /\ pc[c] = "sign"
  /\ pc' = [pc EXCEPT ![c] = "wait"]
  /\ Broadcast(Txs(c)[step[c]])
  /\ nonce' = [nonce EXCEPT ![c] = Len(wallet) + 1]
  /\ UNCHANGED <<request, error, digest, step, hashes, depositId, hook, makers,
                 receipts, allowance, deposits>>

SignerReturns(c, style) ==
  /\ pc[c] = "wait"
  /\ style \in {"receipt", "keyed"} => Mined(nonce[c])
  /\ LET result == Result(style, nonce[c])
         hash   == ExtractTxHash(result)
     IN  /\ hashes' = [hashes EXCEPT ![c] = IF hash # None THEN Append(@, hash) ELSE @]
         /\ depositId' = [depositId EXCEPT ![c] =
                            IF @ # None THEN @ ELSE ExtractDepositId(result)]
  /\ nonce' = [nonce EXCEPT ![c] = 0]
  /\ step' = [step EXCEPT ![c] = @ + 1]
  /\ pc' = [pc EXCEPT ![c] = IF LastStep(c) THEN "returned" ELSE "sign"]
  /\ UNCHANGED <<request, error, digest, hook, makers, chainVars>>

(* The user declines, or the signer gives up on a transaction it already   *)
(* broadcast.                                                              *)
SignerRaises(c) ==
  /\ pc[c] \in {"sign", "wait"}
  /\ Raise(c, "SIGNER")
  /\ UNCHANGED <<request, digest, step, nonce, hashes, depositId, hook, makers, chainVars>>

-----------------------------------------------------------------------------
(* The host's Best follow-up: signer(encode_delegate_hook(deposit_id)).    *)
HookAsked(c) == /\ pc[c] = "returned"
                /\ request[c].mode = "best"
                /\ hook[c] = "none"

SetRateManagerTx(c) == [kind |-> "setRateManager", call |-> c, id |-> depositId[c]]

AttachHook(c) ==
  /\ HookAsked(c)
  /\ depositId[c] # None
  /\ Broadcast(SetRateManagerTx(c))
  /\ hook' = [hook EXCEPT ![c] = "sent"]
  /\ UNCHANGED <<pc, request, error, digest, step, nonce, hashes, depositId, makers,
                 receipts, allowance, deposits>>

(* int(None) *)
HookRaises(c) ==
  /\ HookAsked(c)
  /\ depositId[c] = None
  /\ hook' = [hook EXCEPT ![c] = "TypeError"]
  /\ UNCHANGED <<pc, request, error, digest, step, nonce, hashes, depositId, makers,
                 chainVars>>

-----------------------------------------------------------------------------
HostCalls(c)  == \E r \in Requests : Refuse(c, r) \/ StartPost(c, r) \/ SkipPost(c, r)
CuratorEnds(c) == CuratorAnswers(c) \/ CuratorFails(c)
SignerEnds(c) == \/ SignerBroadcasts(c)
                 \/ \E style \in SignerStyles : SignerReturns(c, style)
                 \/ SignerRaises(c)
Chain == ChainNext /\ UNCHANGED <<callVars, makers>>

Next ==
  \/ \E c \in Calls :
       \/ HostCalls(c)
       \/ CuratorReceives(c)
       \/ CuratorEnds(c)
       \/ SignerEnds(c)
       \/ AttachHook(c)
       \/ HookRaises(c)
  \/ Chain

Spec == Init /\ [][Next]_vars

(* The curator request ends by an answer or by httpx's timeout, the host's *)
(* signer returns or raises, and broadcast transactions are mined.         *)
Fairness ==
  /\ \A c \in Calls : WF_vars(CuratorEnds(c)) /\ WF_vars(SignerEnds(c))
  /\ WF_vars(Mine /\ UNCHANGED <<callVars, makers>>)

FairSpec == Spec /\ Fairness

-----------------------------------------------------------------------------
(* Properties *)

CheckErrors  == {"mode", "amount", "InvalidOperation", "OverflowError", "platform",
                 "currency", "payee"}
EncodeErrors == CheckErrors \cup {"overflow", "UnicodeEncodeError", "codes", "digest", "range"}
Errors == EncodeErrors \cup {"signer", "CURATOR", "PAYEE_VERIFICATION_REQUIRED", "SIGNER"}

(* The model value of "nothing" is neither an error nor a deposit's id, and *)
(* amounts are numbers.                                                    *)
ASSUME NoneAssumption == None \notin Errors \cup Nat
ASSUME RequestsAssumption == \A r \in Requests : r.amount.value \in Int

Handles == {Handle[r] : r \in Requests}
Digests == {r.supplied : r \in Requests}
             \cup {DigestOf(r) : r \in Requests}
Units   == {ParseUsdcAmount(r.amount) : r \in {q \in Requests : PrepareError(q) = Ok}}

Approves == [kind : {"approve"}, call : Calls, units : Units]
Creates  == [kind : {"createDeposit"}, call : Calls, units : Units,
             platform : PaymentMethods, currency : Feeds, digest : Digests]
Hooks    == [kind : {"setRateManager"}, call : Calls, id : Nat \ {0}]

OwnDeposits == [by : Calls, units : Units, platform : PaymentMethods, currency : Feeds,
                digest : Digests, managed : BOOLEAN]
ForeignRow  == [by : {Foreign}, units : {0}, platform : {Foreign}, currency : {Foreign},
                digest : {Foreign}, managed : {FALSE}]

Outcomes == {"success", "CurrencyNotSupported", "allowance", "other"}
Logs     == [topic : {"Approval", "Transfer"}, first : {OwnerTopic}]
              \cup [topic : {"DepositReceived"}, first : Nat \ {0}]

(* The types of the variables of Cashout and of the chain it runs against. *)
TypeOK ==
  /\ pc \in [Calls -> {"idle", "post", "posted", "sign", "wait", "returned", "raised"}]
  /\ request \in [Calls -> Requests \cup {None}]
  /\ error \in [Calls -> Errors \cup {None}]
  /\ digest \in [Calls -> Digests \cup {None}]
  /\ step \in [Calls -> 0..3]
  /\ nonce \in [Calls -> Nat]
  /\ hashes \in [Calls -> Seq(Nat)]
  /\ depositId \in [Calls -> (Nat \ {0}) \cup {None}]
  /\ hook \in [Calls -> {"none", "sent", "TypeError"}]
  /\ makers \subseteq [call : Calls, platform : PaymentMethods, handle : Handles]
  /\ wallet \in Seq(Approves \cup Creates \cup Hooks)
  /\ receipts \in Seq([outcome : Outcomes, logs : Seq(Logs)])
  /\ allowance \in Nat
  /\ deposits \in Seq(OwnDeposits \cup ForeignRow)

TxBy(c, n)       == n \in 1..Len(wallet) /\ wallet[n].call = c
ApproveBy(c, n)  == TxBy(c, n) /\ wallet[n].kind = "approve"
CreateBy(c, n)   == TxBy(c, n) /\ wallet[n].kind = "createDeposit"
MinedWith(n, o)  == Mined(n) /\ receipts[n].outcome = o

(* "Settle every local check before the curator POST" (offramp.py:92): a   *)
(* cash-out that prepare() refuses has minted no maker record and handed   *)
(* the signer nothing; the pair, feed, platform, amount and payee checks   *)
(* the encoders repeat never fail after the POST.                          *)
RefusedTouchesNothing ==
  \A c \in Calls :
    error[c] \in CheckErrors \cup {"signer", "range"}
      => /\ \A m \in makers : m.call # c
         /\ \A n \in 1..Len(wallet) : ~TxBy(c, n)

(* The same of every error that needs no answer from outside: the width of *)
(* the amount and the attribution codes as well.                           *)
LocalErrorsPrecedeThePost ==
  \A c \in Calls :
    error[c] \in EncodeErrors \cup {"signer"} => \A m \in makers : m.call # c

StaleRow(tx) == tx.currency \in Registry[tx.platform] /\ ~Carried(tx)

(* CurrencyNotSupported, the revert that comes after a signed approve      *)
(* (CHANGELOG #34), is met only where the copy of the onchain registry the *)
(* client ships is behind: on a pair the copy has and the registry has not.*)
PairRevertsAreStaleRows ==
  \A n \in 1..Len(receipts) :
    receipts[n].outcome = "CurrencyNotSupported" => StaleRow(wallet[n])

(* The deposit id cashout() reports is the id of a deposit this call made, *)
(* whoever else deposits in between.  Of signers whose mappings have an    *)
(* "id" that is something else it is not true.                             *)
DepositIdIsMine ==
  \A c \in Calls :
    depositId[c] # None
      => depositId[c] \in 1..Len(deposits) /\ deposits[depositId[c]].by = c

(* The hashes cashout() reports are the call's own transactions, the       *)
(* approve before the createDeposit, each once.                            *)
HashesAreMine ==
  \A c \in Calls :
    /\ \A i \in 1..Len(hashes[c]) : TxBy(c, hashes[c][i])
    /\ Len(hashes[c]) = 2 => /\ ApproveBy(c, hashes[c][1])
                             /\ CreateBy(c, hashes[c][2])
                             /\ hashes[c][1] < hashes[c][2]

(* A deposit holds what its call asked for, pays the payee of that call,   *)
(* and is the only deposit of that call.                                   *)
DepositsMatchTheirCalls ==
  \A i \in 1..Len(deposits) :
    LET c == deposits[i].by
        r == request[c]
    IN  c # Foreign
          => /\ deposits[i].units = ParseUsdcAmount(r.amount)
             /\ deposits[i].platform = r.platform
             /\ deposits[i].currency = r.currency
             /\ \/ deposits[i].digest = r.supplied
                \/ /\ r.supplied = None
                   /\ deposits[i].digest = DigestOf(r)
                   /\ [call |-> c, platform |-> r.platform, handle |-> Handle[r]] \in makers
             /\ \A j \in 1..Len(deposits) : deposits[j].by = c => j = i

(* A deposit gets the Delegate rate manager only by the follow-up of the   *)
(* very cash-out that made it: one that asked for Best, has returned, and  *)
(* reported this deposit's id, which is the id its setRateManager names.   *)
(* A follow-up never reaches the deposit of another cash-out.              *)
HooksManageTheirOwn ==
  /\ \A i \in 1..Len(deposits) :
       deposits[i].managed
         => \E n \in 1..Len(receipts) :
              /\ wallet[n].kind = "setRateManager" /\ MinedWith(n, "success")
              /\ wallet[n].id = i /\ wallet[n].call = deposits[i].by
  /\ \A n \in 1..Len(wallet) :
       wallet[n].kind = "setRateManager"
         => LET c == wallet[n].call
            IN  /\ pc[c] = "returned" /\ request[c].mode = "best"
                /\ wallet[n].id = depositId[c]
                /\ wallet[n].id \in 1..Len(deposits) /\ deposits[wallet[n].id].by = c

(* USDC the wallet still lets EscrowV2 pull belongs to a cash-out without  *)
(* a deposit: a call that deposited leaves no allowance of its own behind. *)
NoAllowanceOutlivesItsDeposit ==
  allowance > 0
    => \E n \in 1..Len(receipts) :
         /\ wallet[n].kind = "approve"
         /\ MinedWith(n, "success")
         /\ \A m \in (n + 1)..Len(receipts) : ~(wallet[m].kind = "approve" /\ MinedWith(m, "success"))
         /\ \A i \in 1..Len(deposits) : deposits[i].by # wallet[n].call

(* A createDeposit that finds too little allowance had its own approve     *)
(* fail, or another call's transaction mined in between.                   *)
AllowanceLostToAnother ==
  \A n \in 1..Len(receipts) :
    receipts[n].outcome = "allowance"
      => \E a \in 1..(n - 1) :
           /\ ApproveBy(wallet[n].call, a)
           /\ \/ receipts[a].outcome # "success"
              \/ \E m \in (a + 1)..(n - 1) :
                   wallet[m].call # wallet[n].call /\ wallet[m].kind # "setRateManager"

(* A host that makes one call at a time loses an allowance only when the   *)
(* approve itself reverted, which cashout() does not look at.              *)
SequentialKeepsItsAllowance ==
  \A n \in 1..Len(receipts) :
    receipts[n].outcome = "allowance"
      => \E a \in 1..(n - 1) :
           ApproveBy(wallet[n].call, a) /\ receipts[a].outcome # "success"

(* README.md:73-82: a Best cash-out makes a deposit, then its follow-up is *)
(* encoded for it.  The follow-up raises only when the call made no        *)
(* deposit, and then none of it is mined later.                            *)
BestFollowUpFindsItsDeposit ==
  \A c \in Calls :
    hook[c] = "TypeError" => \A i \in 1..Len(deposits) : deposits[i].by # c

(* The same of a host that follows README.md:79-82 to the letter and waits *)
(* for its deposit: a follow-up made once the deposit is mined encodes.    *)
BestFollowUpEncodes ==
  [][\A c \in Calls, i \in 1..Len(deposits) :
       deposits[i].by = c /\ hook'[c] = "TypeError" => hook[c] = "TypeError"]_vars

(* Every cash-out ends, in a result or in an exception. *)
EveryCallEnds == \A c \in Calls : Active(c) ~> pc[c] \in Ended

(* A cash-out that returned gets its createDeposit mined. *)
ReturnedIsMined ==
  \A c \in Calls :
    pc[c] = "returned" ~> \E n \in 1..Len(wallet) : CreateBy(c, n) /\ Mined(n)

-----------------------------------------------------------------------------
(* The abstract state of each call.  It was refused when it was raised     *)
(* before anything left the process.                                       *)
Accepted == {r \in Requests : CashoutError(r) = Ok}

WasRefused(c) ==
  /\ pc[c] = "raised"
  /\ \/ request[c] \notin Accepted
     \/ request[c].supplied # None /\ step[c] = 0

OutcomeOf(c) ==
  CASE pc[c] = "idle"     -> "idle"
    [] pc[c] = "returned" -> "returned"
    [] pc[c] = "raised"   -> IF WasRefused(c) THEN "refused" ELSE "failed"
    [] OTHER              -> "open"

HandedBy(c) ==
  IF step[c] = 0 THEN 0 ELSE step[c] - 1 + (IF nonce[c] # 0 THEN 1 ELSE 0)

Contract == INSTANCE CashoutContract WITH
  outcome <- [c \in Calls |-> OutcomeOf(c)],
  exposed <- [c \in Calls |-> \E m \in makers : m.call = c],
  handed  <- [c \in Calls |-> HandedBy(c)],
  settled <- [c \in Calls |-> \E i \in 1..Len(deposits) : deposits[i].by = c]

(* Cashout implements the contract: see CashoutContract. *)
KeepsTheContract == Contract!Spec
=============================================================================

-------------------------- MODULE CashoutRefinement --------------------------
(***************************************************************************)
(* Cashout implements CashoutContract, for any calls, requests, tables,    *)
(* signers and length of the chain: every step of a call, the curator, the *)
(* signer or the chain is a step of the contract for one call, or changes  *)
(* nothing the contract talks about.                                       *)
(***************************************************************************)
EXTENDS CashoutLedgerProofs

Exposed(c) == \E m \in makers : m.call = c

(* The contract sees nothing of a step for d. *)
Unseen(d) ==
  /\ OutcomeOf(d)' = OutcomeOf(d)
  /\ Exposed(d)' <=> Exposed(d)
  /\ HandedBy(d)' = HandedBy(d)
  /\ Deposited(d)' <=> Deposited(d)

LEMMA UnseenByAll ==
  ASSUME \A d \in Calls : Unseen(d)
  PROVE  UNCHANGED Contract!vars
BY DEF Unseen, Exposed, Deposited, Contract!vars

(* The four components of the contract's state, and when they are left     *)
(* alone or changed at one call.                                           *)
LEMMA OutcomeBecomes ==
  ASSUME NEW c \in Calls, NEW o, OutcomeOf(c)' = o,
         \A d \in Calls : d # c => Unseen(d)
  PROVE  Contract!Become(c, o)
BY DEF Unseen, Contract!Become

LEMMA ChangesOutcome ==
  ASSUME NEW c \in Calls, NEW from, NEW to, OutcomeOf(c) = from, OutcomeOf(c)' = to,
         \A d \in Calls : d # c => Unseen(d),
         Exposed(c)' <=> Exposed(c), HandedBy(c)' = HandedBy(c), Deposited(c)' <=> Deposited(c)
  PROVE  /\ from = "idle" /\ to = "refused" => Contract!Refuse(c)
         /\ from = "idle" /\ to = "open" => Contract!Open(c)
         /\ from = "open" /\ to = "failed" => Contract!Fail(c)
         /\ from = "open" /\ to = "returned" /\ HandedBy(c) = 2 => Contract!Return(c)
<1>1. Contract!Become(c, to)
  BY OutcomeBecomes
<1>2. UNCHANGED <<[d \in Calls |-> \E m \in makers : m.call = d],
                  [d \in Calls |-> HandedBy(d)],
                  [d \in Calls |-> \E i \in 1..Len(deposits) : deposits[i].by = d]>>
  BY DEF Unseen, Exposed, Deposited
<1> QED BY <1>1, <1>2 DEF Contract!Refuse, Contract!Open, Contract!Fail, Contract!Return

(* The maker record of a call is seen, a transaction of it is counted, its *)
(* deposit is seen.                                                        *)
LEMMA ExposesOne ==
  ASSUME NEW c \in Calls, OutcomeOf(c) = "open", HandedBy(c) = 0, ~Exposed(c), Exposed(c)',
         \A d \in Calls : d # c => Unseen(d),
         OutcomeOf(c)' = OutcomeOf(c), HandedBy(c)' = HandedBy(c), Deposited(c)' <=> Deposited(c)
  PROVE  Contract!Expose(c)
<1>1. UNCHANGED <<[d \in Calls |-> OutcomeOf(d)], [d \in Calls |-> HandedBy(d)],
                  [d \in Calls |-> \E i \in 1..Len(deposits) : deposits[i].by = d]>>
  BY DEF Unseen, Deposited
<1>2. [d \in Calls |-> \E m \in makers : m.call = d]'
        = [[d \in Calls |-> \E m \in makers : m.call = d] EXCEPT ![c] = TRUE]
  BY DEF Unseen, Exposed
<1> QED BY <1>1, <1>2 DEF Contract!Expose, Exposed

LEMMA HandsOne ==
  ASSUME NEW c \in Calls, OutcomeOf(c) = "open", HandedBy(c) \in {0, 1},
         HandedBy(c)' = HandedBy(c) + 1, \A d \in Calls : d # c => Unseen(d),
         OutcomeOf(c)' = OutcomeOf(c), Exposed(c)' <=> Exposed(c), Deposited(c)' <=> Deposited(c)
  PROVE  Contract!Hand(c)
<1>1. UNCHANGED <<[d \in Calls |-> OutcomeOf(d)], [d \in Calls |-> \E m \in makers : m.call = d],
                  [d \in Calls |-> \E i \in 1..Len(deposits) : deposits[i].by = d]>>
  BY DEF Unseen, Exposed, Deposited
<1>2. [d \in Calls |-> HandedBy(d)]'
        = [[d \in Calls |-> HandedBy(d)] EXCEPT ![c] = HandedBy(c) + 1]
  BY DEF Unseen
<1> QED BY <1>1, <1>2 DEF Contract!Hand

LEMMA SettlesOne ==
  ASSUME NEW c \in Calls, HandedBy(c) = 2, ~Deposited(c), Deposited(c)',
         \A d \in Calls : d # c => Unseen(d),
         OutcomeOf(c)' = OutcomeOf(c), Exposed(c)' <=> Exposed(c), HandedBy(c)' = HandedBy(c)
  PROVE  Contract!Settle(c)
<1>1. UNCHANGED <<[d \in Calls |-> OutcomeOf(d)], [d \in Calls |-> \E m \in makers : m.call = d],
                  [d \in Calls |-> HandedBy(d)]>>
  BY DEF Unseen, Exposed
<1>2. [d \in Calls |-> \E i \in 1..Len(deposits) : deposits[i].by = d]'
        = [[d \in Calls |-> \E i \in 1..Len(deposits) : deposits[i].by = d] EXCEPT ![c] = TRUE]
  <2> DEFINE has(d) == \E i \in 1..Len(deposits) : deposits[i].by = d
  <2>1. has(c)' = TRUE
    BY DEF Deposited
  <2>2. \A d \in Calls : d # c => has(d)' = has(d)
    BY DEF Unseen, Deposited
  <2> HIDE DEF has
  <2>3. [d \in Calls |-> has(d)]' = [[d \in Calls |-> has(d)] EXCEPT ![c] = TRUE]
    BY <2>1, <2>2
  <2> QED BY <2>3 DEF has
<1> QED BY <1>1, <1>2 DEF Contract!Settle, Deposited

-----------------------------------------------------------------------------
(* Frames *)

(* The contract's view of a call depends on pc, request, step and nonce,   *)
(* on the records and on the deposits in its name.                         *)
LEMMA SameView ==
  ASSUME NEW d, pc'[d] = pc[d], request'[d] = request[d], step'[d] = step[d], nonce'[d] = nonce[d]
  PROVE  OutcomeOf(d)' = OutcomeOf(d) /\ HandedBy(d)' = HandedBy(d)
BY DEF OutcomeOf, WasRefused, HandedBy

LEMMA OtherCallsUnseen ==
  ASSUME NEW c \in Calls, UNCHANGED deposits, \A m \in makers' : m \in makers \/ m.call = c,
         makers \subseteq makers', \A d \in Calls : d # c => SameCall(d)
  PROVE  /\ \A d \in Calls : d # c => Unseen(d)
         /\ Deposited(c)' <=> Deposited(c)
         /\ UNCHANGED makers => (Exposed(c)' <=> Exposed(c))
<1>1. ASSUME NEW d \in Calls, d # c
      PROVE  Unseen(d)
  <2>1. OutcomeOf(d)' = OutcomeOf(d) /\ HandedBy(d)' = HandedBy(d)
    BY <1>1, SameView DEF SameCall
  <2>2. (Exposed(d)' <=> Exposed(d)) /\ (Deposited(d)' <=> Deposited(d))
    BY <1>1 DEF Exposed, Deposited
  <2> QED BY <2>1, <2>2 DEF Unseen
<1> QED BY <1>1 DEF Deposited, Exposed

LEMMA UnseenWhenUnchanged ==
  ASSUME NEW d, UNCHANGED <<pc, request, step, nonce, makers>>, Deposited(d)' <=> Deposited(d)
  PROVE  Unseen(d)
<1>1. OutcomeOf(d)' = OutcomeOf(d) /\ HandedBy(d)' = HandedBy(d)
  BY SameView
<1> QED BY <1>1 DEF Unseen, Exposed

-----------------------------------------------------------------------------
(* Each action is a step of the contract *)

LEMMA HostCallsInContract ==
  ASSUME IInv, TxsInv, NEW c \in Calls, HostCalls(c)
  PROVE  Contract!Refuse(c) \/ Contract!Open(c)
<1>1. PICK r \in Requests : Refuse(c, r) \/ StartPost(c, r) \/ SkipPost(c, r)
  BY DEF HostCalls
<1>2. /\ pc[c] = "idle" /\ request'[c] = r /\ UNCHANGED <<nonce, makers, deposits>>
      /\ \A d \in Calls : d # c => SameCall(d)
  BY <1>1 DEF IInv, TypeOK, Refuse, StartPost, SkipPost, Call, Encode, Raise, SameCall, chainVars
<1>3. step[c] = 0 /\ nonce[c] = 0 /\ HandedBy(c) = 0 /\ OutcomeOf(c) = "idle"
  BY <1>2 DEF TxsInv, OwnOK, PhaseOK, HandedBy, OutcomeOf
<1>4. /\ \A d \in Calls : d # c => Unseen(d)
      /\ Deposited(c)' <=> Deposited(c)
      /\ Exposed(c)' <=> Exposed(c)
  BY <1>2, OtherCallsUnseen
<1>5. \/ pc'[c] = "raised" /\ step'[c] = 0 /\ (r \notin Accepted \/ r.supplied # None)
      \/ pc'[c] = "post" /\ step'[c] = 0
      \/ pc'[c] = "sign" /\ step'[c] = 1
  <2>1. CASE Refuse(c, r)
    BY <1>3, <2>1 DEF IInv, TypeOK, Refuse, Raise, Accepted
  <2>2. CASE StartPost(c, r)
    BY <1>3, <2>2 DEF IInv, TypeOK, StartPost
  <2>3. CASE SkipPost(c, r)
    BY <1>3, <2>3, EncodeSteps DEF SkipPost
  <2> QED BY <1>1, <2>1, <2>2, <2>3
<1>6. OutcomeOf(c)' \in {"refused", "open"} /\ HandedBy(c)' = 0
  BY <1>2, <1>3, <1>5 DEF OutcomeOf, WasRefused, HandedBy
<1> QED BY <1>3, <1>4, <1>6, ChangesOutcome

LEMMA CuratorReceivesInContract ==
  ASSUME IInv, TxsInv, NEW c \in Calls, CuratorReceives(c)
  PROVE  Contract!Expose(c)
<1>1. /\ pc[c] = "post" /\ pc'[c] = "posted" /\ makers' = makers \cup {RecordOf(c)}
      /\ UNCHANGED <<request, step, nonce, deposits>>
      /\ \A d \in Calls : d # c => SameCall(d)
  BY DEF IInv, TypeOK, CuratorReceives, SameCall, chainVars, RecordOf
<1>2. RecordOf(c).call = c
  BY DEF RecordOf
<1>3. /\ OutcomeOf(c) = "open" /\ OutcomeOf(c)' = "open"
      /\ HandedBy(c) = 0 /\ HandedBy(c)' = 0
  BY <1>1 DEF TxsInv, OwnOK, PhaseOK, OutcomeOf, HandedBy
<1>4. ~Exposed(c) /\ Exposed(c)'
  BY <1>1, <1>2 DEF IInv, TraceOK, Traceless, Exposed
<1>5. (\A d \in Calls : d # c => Unseen(d)) /\ (Deposited(c)' <=> Deposited(c))
  BY <1>1, <1>2, OtherCallsUnseen
<1> QED BY <1>3, <1>4, <1>5, ExposesOne

(* An exception after something left the process is a failure. *)
LEMMA RaiseInContract ==
  ASSUME IInv, TxsInv, NEW c \in Calls, pc[c] \in {"post", "posted", "sign", "wait"},
         pc'[c] = "raised", \A d \in Calls : d # c => SameCall(d),
         UNCHANGED <<request, step, nonce, makers, deposits>>
  PROVE  Contract!Fail(c)
<1>1. request[c] \in Accepted /\ (request[c].supplied = None \/ step[c] # 0)
  BY DEF IInv, CallOK, TxsInv, OwnOK, PhaseOK, Accepted
<1>2. OutcomeOf(c) = "open" /\ OutcomeOf(c)' = "failed" /\ HandedBy(c)' = HandedBy(c)
  BY <1>1 DEF OutcomeOf, WasRefused, HandedBy
<1>3. /\ \A d \in Calls : d # c => Unseen(d)
      /\ Deposited(c)' <=> Deposited(c)
      /\ Exposed(c)' <=> Exposed(c)
  BY OtherCallsUnseen
<1> QED BY <1>2, <1>3, ChangesOutcome

LEMMA FailuresInContract ==
  ASSUME IInv, TxsInv, NEW c \in Calls, CuratorFails(c) \/ SignerRaises(c)
  PROVE  Contract!Fail(c)
<1>1. /\ pc[c] \in {"post", "posted", "sign", "wait"} /\ pc'[c] = "raised"
      /\ \A d \in Calls : d # c => SameCall(d)
      /\ UNCHANGED <<request, step, nonce, makers, deposits>>
  BY DEF IInv, TypeOK, CuratorFails, SignerRaises, Raise, SameCall, chainVars
<1> QED BY <1>1, RaiseInContract

LEMMA CuratorAnswersInContract ==
  ASSUME IInv, TxsInv, NEW c \in Calls, CuratorAnswers(c)
  PROVE  Contract!Fail(c) \/ UNCHANGED Contract!vars
<1>1. /\ pc[c] = "posted" /\ Encode(c, request[c], DigestOf(request[c]))
      /\ UNCHANGED <<request, nonce, makers, deposits, depositId>>
  BY DEF CuratorAnswers, chainVars
<1>2. step[c] = 0 /\ nonce[c] = 0
  BY <1>1 DEF TxsInv, OwnOK, PhaseOK
<1>3. /\ \/ pc'[c] = "sign" /\ step'[c] = 1
         \/ pc'[c] = "raised" /\ step'[c] = 0
      /\ \A d \in Calls : d # c => SameCall(d)
  BY <1>1, <1>2, EncodeSteps DEF SameCall
<1>4. CASE pc'[c] = "sign"
  <2>1. OutcomeOf(c)' = OutcomeOf(c) /\ HandedBy(c)' = HandedBy(c)
    BY <1>1, <1>2, <1>3, <1>4 DEF OutcomeOf, HandedBy
  <2>2. \A d \in Calls : Unseen(d)
    BY <1>1, <1>3, <2>1, OtherCallsUnseen DEF Unseen
  <2> QED BY <2>2, UnseenByAll
<1>5. CASE pc'[c] = "raised"
  <2>1. UNCHANGED step
    BY <1>1, <1>2, <1>3, <1>5 DEF Encode, Raise, IInv, TypeOK
  <2> QED BY <1>1, <1>3, <1>5, <2>1, RaiseInContract
<1> QED BY <1>3, <1>4, <1>5

LEMMA SignerBroadcastsInContract ==
  ASSUME IInv, TxsInv, NEW c \in Calls, SignerBroadcasts(c)
  PROVE  Contract!Hand(c)
<1>1. /\ pc[c] = "sign" /\ pc'[c] = "wait" /\ nonce'[c] = Len(wallet) + 1
      /\ UNCHANGED <<request, step, makers, deposits>>
      /\ \A d \in Calls : d # c => SameCall(d)
  BY DEF IInv, TypeOK, SignerBroadcasts, SameCall
<1>2. step[c] \in {1, 2} /\ nonce[c] = 0 /\ Len(wallet) \in Nat
  BY <1>1, Lengths DEF IInv, CallOK, TxsInv, OwnOK, PhaseOK
<1>3. HandedBy(c) \in {0, 1} /\ HandedBy(c)' = HandedBy(c) + 1
  BY <1>1, <1>2 DEF HandedBy
<1>4. OutcomeOf(c) = "open" /\ OutcomeOf(c)' = "open"
  BY <1>1 DEF OutcomeOf
<1>5. /\ \A d \in Calls : d # c => Unseen(d)
      /\ Deposited(c)' <=> Deposited(c)
      /\ Exposed(c)' <=> Exposed(c)
  BY <1>1, OtherCallsUnseen
<1> QED BY <1>3, <1>4, <1>5, HandsOne

LEMMA SignerReturnsInContract ==
  ASSUME IInv, TxsInv, NEW c \in Calls, NEW style, SignerReturns(c, style)
  PROVE  Contract!Return(c) \/ UNCHANGED Contract!vars
<1>1. /\ pc[c] = "wait" /\ nonce'[c] = 0 /\ step'[c] = step[c] + 1
      /\ pc'[c] = IF step[c] = 2 THEN "returned" ELSE "sign"
      /\ UNCHANGED <<request, makers, deposits>>
      /\ \A d \in Calls : d # c => SameCall(d)
  BY DEF IInv, TypeOK, SignerReturns, LastStep, Txs, SameCall, chainVars
<1>2. step[c] \in {1, 2} /\ nonce[c] # 0
  BY <1>1, Lengths DEF IInv, CallOK
<1>3. HandedBy(c) = step[c] /\ HandedBy(c)' = HandedBy(c)
  BY <1>1, <1>2 DEF HandedBy
<1>4. /\ \A d \in Calls : d # c => Unseen(d)
      /\ Deposited(c)' <=> Deposited(c)
      /\ Exposed(c)' <=> Exposed(c)
  BY <1>1, OtherCallsUnseen
<1>5. CASE step[c] = 1
  <2>1. OutcomeOf(c)' = OutcomeOf(c)
    BY <1>1, <1>5 DEF OutcomeOf
  <2> QED BY <1>3, <1>4, <2>1, UnseenByAll DEF Unseen
<1>6. CASE step[c] = 2
  <2>1. OutcomeOf(c) = "open" /\ OutcomeOf(c)' = "returned"
    BY <1>1, <1>6 DEF OutcomeOf
  <2> QED BY <1>3, <1>4, <1>6, <2>1, ChangesOutcome
<1> QED BY <1>2, <1>5, <1>6

LEMMA ChainInContract ==
  ASSUME IInv, TxsInv, LedgerInv, Chain
  PROVE  (\E c \in Calls : Contract!Settle(c)) \/ UNCHANGED Contract!vars
<1>1. /\ UNCHANGED <<pc, request, step, nonce, makers>> /\ RowsStay
      /\ MineCreateDeposit \/ NoNewRow
  BY ChainOnlyMines DEF ChainStep, HistoryStays
<1>2. CASE NoNewRow
  <2>1. \A d \in Calls : Unseen(d)
    BY <1>1, <1>2, SameOwners, UnseenWhenUnchanged
  <2> QED BY <2>1, UnseenByAll
<1>3. CASE MineCreateDeposit
  <2>1. PICK c \in Calls : c = NextTx.call
    BY <1>3, DepositAdds
  <2>2. /\ CreateBy(c, Next1) /\ Len(deposits) \in Nat
        /\ Len(deposits') = Len(deposits) + 1 /\ deposits'[Len(deposits) + 1].by = c
        /\ \A i \in 1..Len(deposits) : deposits'[i] = deposits[i]
    BY <1>3, <2>1, DepositAdds, Lengths DEF IInv
  <2>3. ~Deposited(c) /\ Deposited(c)'
    <3>1. ~Mined(Next1)
      BY Lengths DEF IInv, Mined, Next1
    <3> QED BY <2>2, <3>1, NotYetDeposited DEF LedgerInv, Deposited
  <2>4. HandedBy(c) = 2
    BY <2>2 DEF TxsInv, OwnOK, TxsOK, CreateBy, TxBy
  <2>5. \A d \in Calls : d # c => (Deposited(d)' <=> Deposited(d))
    BY <2>2 DEF Deposited
  <2>6. \A d \in Calls : d # c => Unseen(d)
    BY <1>1, <2>5, UnseenWhenUnchanged
  <2>7. OutcomeOf(c)' = OutcomeOf(c) /\ HandedBy(c)' = HandedBy(c) /\ (Exposed(c)' <=> Exposed(c))
    BY <1>1, SameView DEF Exposed
  <2> QED BY <2>3, <2>4, <2>6, <2>7, SettlesOne
<1> QED BY <1>1, <1>2, <1>3

LEMMA StepInContract ==
  IInv /\ TxsInv /\ LedgerInv /\ [Next]_vars => [Contract!Next]_(Contract!vars)
<1> SUFFICES ASSUME IInv, TxsInv, LedgerInv, [Next]_vars
             PROVE  Contract!Next \/ UNCHANGED Contract!vars
  OBVIOUS
<1>1. ASSUME UNCHANGED <<pc, request, step, nonce, makers, deposits>>
      PROVE  UNCHANGED Contract!vars
  <2>1. \A d \in Calls : Unseen(d)
    BY <1>1, UnseenWhenUnchanged DEF Deposited
  <2> QED BY <2>1, UnseenByAll
<1>2. CASE UNCHANGED vars
  BY <1>1, <1>2 DEF vars, callVars, chainVars
<1>3. ASSUME NEW c \in Calls, HostCalls(c)
      PROVE  Contract!Next
  BY <1>3, HostCallsInContract DEF Contract!Next
<1>4. ASSUME NEW c \in Calls, CuratorReceives(c) \/ CuratorEnds(c)
      PROVE  Contract!Next \/ UNCHANGED Contract!vars
  BY <1>4, CuratorReceivesInContract, CuratorAnswersInContract, FailuresInContract
     DEF CuratorEnds, Contract!Next
<1>5. ASSUME NEW c \in Calls, SignerEnds(c)
      PROVE  Contract!Next \/ UNCHANGED Contract!vars
  BY <1>5, SignerBroadcastsInContract, SignerReturnsInContract, FailuresInContract
     DEF SignerEnds, Contract!Next
<1>6. ASSUME NEW c \in Calls, AttachHook(c) \/ HookRaises(c)
      PROVE  UNCHANGED Contract!vars
  BY <1>1, <1>6 DEF AttachHook, HookRaises, chainVars
<1>7. CASE Chain
  BY <1>7, ChainInContract DEF Contract!Next
<1> QED BY <1>2, <1>3, <1>4, <1>5, <1>6, <1>7 DEF Next

LEMMA InitInContract == Init => Contract!Init
BY DEF Init, ChainInit, Contract!Init, OutcomeOf, HandedBy

(* A cash-out keeps its contract: a refusal leaves no trace, a result      *)
(* comes only after both transactions were handed to the signer, an        *)
(* exception takes nothing back, and a deposit is made once, out of two    *)
(* transactions handed over, whatever the curator, the signer, the chain   *)
(* and the other calls do.                                                 *)
THEOREM CashoutKeepsTheContract == Spec => KeepsTheContract
<1>1. Init => Contract!Init
  BY InitInContract
<1>2. IInv /\ TxsInv /\ LedgerInv /\ [Next]_vars => [Contract!Next]_(Contract!vars)
  BY StepInContract
<1> QED BY <1>1, <1>2, LedgerAlways, PTL DEF Spec, KeepsTheContract, Contract!Spec
=============================================================================

# A TLA+ verification of usdctofiat

`usdctofiat` is a synchronous Python client for cashing out USDC on Base: it
checks a request, has a public service (the curator) hash the payee, encodes an
`approve` and an EscrowV2 `createDeposit`, and hands both to a signer callback
of its host. It holds no key and stores nothing. What makes it hard is that
everything it relies on is outside the process: the curator may mint a record
and lose the answer, the signer may raise after it broadcast, several cash-outs
and other makers share the chain, and USDC's allowance is one number per wallet.

Source paths below are relative to `src/usdctofiat/` in the repository.

## 1. The system

| Component | State | Operations | Works with |
| --- | --- | --- | --- |
| `offramp.py` façade | none between calls; per call: prepared transactions, hashes, deposit id | `prepare`, `cashout`, `estimate`, `withdraw`, `watch`, `deposits`, `encode_delegate_hook` | all below |
| `calldata.py` checks | none | amount, platform, pair, feed, payee | tables of `constants.py` |
| `calldata.py` encoding and parsing | none | `approve_tx`, `create_deposit_tx`, `set_rate_manager_tx`, `withdraw_tx`, `extract_tx_hash`, `extract_deposit_id` | attribution, signer results |
| `attribution.py` | locked at construction | `lock_attribution`, `codes`, `erc8021_suffix`, `parse_erc8021` | every transaction |
| `curator.py` | maker records at the service | `create_payee_hash` | `prepare` |
| `oracle.py` | none | `rate` | `estimate` |
| `indexer.py` | none | `deposits`, `deposit`, `watch` | host polling |
| `constants.py`, `types.py`, `errors.py` | tables, records | | |
| `examples/agno` | a signer | one JSON tool per call | façade |
| external: signer and wallet, Base (USDC, EscrowV2, registries), curator, indexer | wallet, allowance, deposits, records | | |

The hard behaviours are the ones `PROJECT.json` lists as hazards, each at its
line: overlapping cash-outs of one wallet, partial failure between the two
transactions, local checks that run too late, ids read out of other people's
logs, copies of onchain tables, payee spellings that hash differently, referrers
that read differently once joined, an indexer that lags the chain and serves
other escrows, replies to an agent after a signer gave up.

## 2. Modules

| Module | Models | Correspondence |
| --- | --- | --- |
| `Texts` | the `str` methods the client uses | a text is a sequence of tokens; capitals are tokens folded by a constant map |
| `PayeeNames` | `normalize_payee`, `_normalize_paypal_me_username` | one operator per branch that is more than a strip |
| `CashoutRules` | every check of `prepare()` and of the encoders, in order | `PrepareError(r)` is the exception `prepare(r)` raises before the POST, `EncodeError(r, d)` the one raised after it |
| `PairTables` | feeds, platforms and pairs of `constants.py`; the table of the README | sets and a function of sets |
| `BaseChain` | external: the maker's wallet, USDC's allowance, EscrowV2 | one action per outcome of a mined transaction |
| `Cashout` | `Offramp.cashout` with curator, signer and chain | see below |
| `CashoutContract` | what one cash-out promises its host | abstract specification that `Cashout` implements |
| `AttributionLock` | `lock_attribution`, `Attribution.codes`, `parse_erc8021` | one step per referrer |
| `OracleRate` | `Offramp.estimate` and `Oracle.rate` | `idle -> asked -> served -> quoted` while the feed publishes and the clock ticks |
| `CashoutRulesProofs`, `CashoutProofs`, `CashoutLedgerProofs` | theorems about a cash-out, each module on top of the one before | section 5 |
| `ClientChecksProofs` | theorems about the pure parts | section 5 |
| `CashoutRefinement` | the proof that `Cashout` implements `CashoutContract` | section 5 |
| `AttributionLockProofs`, `OracleRateProofs`, `ToolkitProofs` | theorems about the other components | section 5 |
| `PayeeHash` | `Curator._request`, `_extract_hash`, `create_payee_hash`, `_bytes32` | a JSON value is null, text, list or the number of an object, an object before the ones inside it; `CreatePayeeHash(platform, reply)` is a digest or the code raised |
| `UsdcAmount` | `parse_usdc_amount` in decimal arithmetic | a number is a coefficient and an exponent, the context a number of digits |
| `ClientChecks` | the inputs of the pure parts and their properties | a user edits a request, a handle, an amount or an answer one place at a time |
| `Indexer` | the two queries of `indexer.py` and the errors of their answers | operators on the sequence of deposits the indexer has |
| `DepositLifecycle` | `withdraw`, `watch`, `deposits`, `prepare` without a signer, over deposits that are drained and closed | see below |
| `Toolkit` | `examples/agno/usdctofiat_tools.py` | one action per tool, guarded by the flags of the constructor |
| `MC*` | small instances | section 3 |

`Cashout` composes `CashoutRules` and `BaseChain`. A call goes

    idle -> post -> posted -> sign <-> wait -> returned        (raised from each)

`Refuse` is `prepare()` raising before the POST, `StartPost` the POST leaving,
`SkipPost` a caller that brings its digest. `CuratorReceives` mints the record;
`CuratorAnswers` returns the digest and encodes both transactions or neither,
which is what building the list `txs` does; `CuratorFails` stands for an HTTP
error, an envelope with `success: false`, a timeout before or after the record is
minted, and an answer without a digest. `SignerBroadcasts`, `SignerReturns` and
`SignerRaises` are one turn of the loop over `prepared.txs`: between broadcast
and return anything else may happen, and after a broadcast the signer may still
raise. `AttachHook` and `HookRaises` are the host's
`signer(encode_delegate_hook(order.deposit_id))`.

A signer returns one of what the repository's tests and docs show: a hash, a
receipt, a mapping that carries the deposit id, or nothing; or, as `labelled`, a
mapping with the hash and an `id` that is something else, which
`extract_deposit_id` takes for the deposit's (`calldata.py:369`). A receipt exists
only for a mined transaction, and its status is not looked at, by the code or here.

`Toolkit` extends `DepositLifecycle`, which extends `Indexer`. A call goes

    idle -> asked -> idle          deposits() or watch(), answered from Indexed
    idle -> sign -> wait -> idle   cashout() or withdraw() with a signer

and a call that is refused, fails or returns unsigned transactions ends where it
began. `blocks` are the chain's states from the one the indexer serves to the
present one: `AnswerDeposits` and `AnswerWatch` read the first, transactions and
takers append, `IndexerAdvances` drops the first. `outcome` is what the call
returned, and in `Toolkit` the JSON reply: `unsigned` for `{"signed": false}` or
a bare unsigned transaction, `result` for a signed one, `error` for
`{error, code}`. `HostSigns` is the host broadcasting an unsigned reply, once.
`known` are the deposits a host was shown, by a listing or by a receipt, and only
those are watched and withdrawn, by either of the two ids a row carries.
`createDeposit` stands for the whole of `prepared.txs`, which is `Cashout`'s
matter. `closings` remembers, for the properties, which deposit a withdraw closed
and which one was meant.

Definitions named as variants in a comment are not part of the specification:
each changes one definition as a plausible bug would, and the property named in
the comment fails with it in place (`mutants` in `PROJECT.json`).

### Abstractions

- mode, platform and currency are already stripped and folded (the code folds
  each where it uses it); an amount is a kind and a number; a payee is tokens.
- A transaction's hash is its nonce. One account's transactions are mined in
  nonce order. A broadcast transaction is never dropped, only not yet mined; it
  may revert for any reason.
- The curator's digest is a function of platform and handle.
- ABI bytes are records. `access_policy_required`, the attribution summary and
  the shape of messages are left out.
- `str.replace` drops tokens: two halves of a protocol that meet when a protocol
  between them is dropped do not make a new one.
- `estimate()` and the chain read one clock, in seconds. The rate is the answer
  it is computed from; the inversion and its decimal places are left out. How
  long a call takes is not bounded.
- Of a deposit's row the two ids, the depositor and whether it is open are kept;
  the order of a page is left out, what falls off it is not. Deposits are listed
  in the order of their blocks.
- A text in a curator's answer is its prefix, its length, whether it is
  hexadecimal and whether a newline follows.
- Attribution codes are a length and whether they are ASCII.
- What `prepare()` raised is one error in `DepositLifecycle`; `Cashout` tells its
  errors apart.
- `Sequential` describes the host, not the client: the client has no lock.

## 3. What is checked

Runs that pass:

| Run | Question | Bounds |
| --- | --- | --- |
| `cashout_overlap` | two cash-outs of one wallet interleave, others deposit; each keeps to `CashoutContract` and ends | 2 calls, 4 requests (Fast and Best, different amounts and platforms, one refused before the POST and one after), signers receipt/none, one foreign deposit, an onchain registry equal to the client's copy |
| `cashout_sequential` | one cash-out after another, over accepted and refused requests | 2 calls, 10 requests (7 of them refused, each for another reason, one over a row the onchain registry has lost), signers receipt/keyed/labelled, 1 foreign deposit |
| `client_checks` | the pure parts: requests over the whole shipped tables, spellings of a handle, amounts, answers of the curator | 11 platforms, 35 currencies, 13 amounts around each limit, 3 modes, 3 payees; 7 platforms and spellings from small sets, a name that is a host and a blank after a sigil among them; numbers of up to 6 digits and 4 decimals against a context of 3 digits; answers of four objects, inside one another by `responseObject`, `data` or a list, with a digest, another one, a text that is none, or nothing in each place, and lists that are empty or begin with junk; no text ends in a newline |
| `toolkit` | an agent makes, lists, watches and withdraws deposits | 2 kits, 2 calls that may sign, 3 deposits in 2 escrows of 2 depositors, a page of 2, an indexer one state behind, signers hash/receipt |
| `attribution_lock` | referrer lists | 8 kinds of referrer, up to 2 + 2 + 1 of them |
| `oracle_rate` | a feed publishes and time passes while an estimate is out | 6 requests (2 of them priced off a feed, 3 refused), 3 rounds, answers 0 and 1, clock up to 5, an answer is stale after 2 |

The properties, by what could go wrong:

- *Whose is it.* `DepositIdIsMine`, `HashesAreMine`, `DepositsMatchTheirCalls`:
  ids, hashes and deposits belong to the call that reports them. The first is about
  signers that are not `labelled`: with an `id` that is something else it fails.
- *The one allowance.* `NoAllowanceOutlivesItsDeposit`: what EscrowV2 may still
  pull belongs to a cash-out without a deposit. `AllowanceLostToAnother`: a
  createDeposit short of allowance had its own approve fail, or another call's
  transaction in between. `SequentialKeepsItsAllowance`: without overlap, only
  the former.
- *Too late.* `RefusedTouchesNothing`, `EncodesWhatItPrepared`: no check of
  `prepare()` fails after the curator POST. `PairRevertsAreStaleRows`: a pair
  reverts after a signed approve only where the client's copy of the registry has a
  row that the registry has lost; that one the client cannot see.
- *Best.* `BestFollowUpFindsItsDeposit`: a follow-up raises only when there is no
  deposit, and then none comes. `HooksManageTheirOwn`: of two overlapping Best
  cash-outs neither follow-up reaches the other's deposit, though
  `encode_delegate_hook` takes any id; a deposit is managed only by the
  setRateManager of the call that made and reported it.
- *Tables.* `AcceptsThePublishedPairs`: the accepted pairs are exactly the
  README's.
- *Amounts.* `HumanAmountsAreTruncated`: within the digits of the decimal context
  every whole base unit that was written is deposited and no more; beyond them
  the amount is off by at most half a unit of the last digit kept.
- *Digests.* The known places of an answer are the named fields and the first items
  of the lists, of the answer and of every object reached from it by
  `responseObject`, `data` or the first item of a list (`KnownObjects`, the least
  such set). `DigestIsTheCurators`: what goes into `createDeposit` are the 32 bytes
  of a digest at a known place of an answer that is no failure. It holds of answers
  without a text that ends in a newline, which is what `client_checks` has;
  `newline_digest` shows it violated by one. `EveryKnownPlaceIsRead`: an answer
  with a digest at any known place is not refused, whatever stands at the others.
- *Which deposit.* `WithdrawClosesWhatWasShown`: a withdraw made from a row or a
  receipt closes that deposit, with equal ids in other escrows.
  `WatchFindsWhatIsIndexed`: "not found" is only ever lag.
- *Nothing lost.* `ListingNamesMyDeposits`: a deposit whose cash-out raised after
  the broadcast is in the listing once indexed, if the page has room.
- *Nothing twice.* `RepliesTellWhatWasSigned`: a reply says of its transaction
  whether it is in the wallet, and one call puts one there, also when the host
  signs what an unsigned reply left to it.
- *Names.* `PaypalSpellingsAgree`, `HandleIsStable`.
- *Codes.* `CodesAreLocked`, `OneMarkerOnTheWire`, `CodesDecodeAsLocked`,
  `FirstMentionLeads`.
- *Price.* `QuoteIsOfTheFeed`: no failure becomes a rate of one. `StaleIsTrue`:
  `stale` means the feed was silent too long at `as_of`, whatever it published
  while the call was out.
- *Progress.* `EveryCallEnds`, `ReturnedIsMined`.
- *The promise.* `KeepsTheContract`: a refusal leaves no trace, a result comes
  after both transactions, a deposit comes once and out of both.

Why the bounds are enough: the allowance is lost between two calls, an id is
mistaken between one call and one foreign deposit, and the wallet of a later call
starts where an earlier one left it (a dangling allowance, or a follow-up still to
be mined). One USDC is 10 base units and the widest uint256 is 50, so a value
sits on either side of every comparison. A follow-up is mistaken between two Best
calls that overlap, and a row is stale when one is. A digest is hidden by a name, a
list or an object before it, in the answer and one level down. A quote is wrong about its feed with one round
before the call, one during it and one unfinished. A row is mistaken for another
with two deposits of one id in two escrows; a page overflows with three deposits;
a call is confused with an earlier one when there are two; an indexer one state
behind shows a drained deposit as open and a new one not at all. A product of two
more digits than the context has is rounded up, down and to even. Deadlock is not
checked where hosts stop calling, referrer lists end or an estimate is given once;
it is in `client_checks`.

Runs that end in a violation each show a disagreement between code and text:

| Run | What the code does | What the text says |
| --- | --- | --- |
| `codes_after_post` | codes over 255 bytes are refused after the maker record is minted | `offramp.py:91` |
| `hash_signer_follow_up` | a signer that returns the hash has no deposit id, the follow-up raises `TypeError` with the deposit mined, which stays without its manager | README lines 29 and 79 |
| `newline_digest` | a digest followed by a newline is taken, and hashed into `createDeposit` instead of decoded | `curator.py:14`, `CHANGELOG.md:119`, `test_curator.py:67` |
| `comma_referrer` | a referrer with a comma brings a second `peer-ref-*` code | README line 60 |
| `paypal_tail` | a bare PayPal name keeps a `?` or `#` tail | `CHANGELOG.md:16` |
| `resume_key` | a composite key is "not found" | the `watch` tool's docstring, `usdctofiat_tools.py:180` |

One more was met while modelling and has no run: mercadopago with its own ARS is
refused by `oracle_feed_for`, as a currency, where `offramp.py:95` says that such a
platform should say so itself. `AcceptsThePublishedPairs` asks for one of the two.

## 4. Fairness

`cashout_overlap` assumes, and only it, weak fairness of three things: the
curator request ends (`httpx.Client(timeout=30)`, so an answer or an exception),
the host's signer call ends, by returning or raising, and Base mines what was
broadcast. The code justifies the first; the other two are what a synchronous
callback and a live chain mean. Nothing forces the host to call, the curator to
accept, or the follow-up to be made, and no fairness of one outcome over another
is assumed: `EveryCallEnds` is satisfied by exceptions. `ReturnedIsMined` says
mined, not successful.

## 5. What is proved

For every value of the constants, with TLAPS:

| Theorem | Statement |
| --- | --- |
| `CashoutProofs!TypesHold` | `Spec => []TypeOK` |
| `CashoutProofs!DepositIdsAreOnesOwn` | if `LabelFree`, `Spec => []DepositIdIsMine` |
| `CashoutProofs!RefusalsLeaveNoTrace` | `Spec => []RefusedTouchesNothing` |
| `CashoutProofs!OnlyStaleRowsRevert` | `Spec => []PairRevertsAreStaleRows`, for any onchain registry |
| `CashoutProofs!HashesAreOnesOwn` | `Spec => []HashesAreMine` |
| `CashoutLedgerProofs!DepositsAreAsAsked` | `Spec => []DepositsMatchTheirCalls` |
| `CashoutLedgerProofs!HooksReachTheirOwn` | if `LabelFree`, `Spec => []HooksManageTheirOwn` |
| `CashoutLedgerProofs!AllowanceIsUsedUp` | `Spec => []NoAllowanceOutlivesItsDeposit` |
| `CashoutLedgerProofs!ShortOnlyByOthers` | `Spec => []AllowanceLostToAnother` |
| `CashoutLedgerProofs!OneAtATimeKeepsItsAllowance` | if `Sequential`, `Spec => []SequentialKeepsItsAllowance` |
| `CashoutLedgerProofs!FollowUpsFindTheirDeposit` | if signers return receipts or ids, `Spec => []BestFollowUpFindsItsDeposit` |
| `CashoutRefinement!CashoutKeepsTheContract` | `Spec => KeepsTheContract`, the refinement of `CashoutContract` |
| `CashoutRulesProofs!EncodersAgreeWithPrepare` | after `prepare()` accepts, the encoders fail only for width, codes or digest |
| `CashoutRulesProofs!OnlyPricedPairsAreTaken` | with mode and amount right, `prepare()` blames platform or currency exactly when the pair is not both settled and priced |
| `CashoutRulesProofs!HandlesAreStable` | a handle handed back as the payee is posted again, outside paypal and monzo and unless a blank follows the sigil |
| `OracleRateProofs!StaleMeansSilent` | `Spec => []StaleIsTrue` |
| `OracleRateProofs!QuotesComeFromTheFeed` | `Spec => []QuoteIsOfTheFeed` |
| `AttributionLockProofs!AttributionIsLocked` | `Spec => []CodesAreLocked` |
| `AttributionLockProofs!FirstMentionsLead` | `Spec => []FirstMentionLeads` |
| `AttributionLockProofs!OneMarkerIsDecoded` | if `CommaFree`, `Spec => []OneMarkerOnTheWire` |
| `AttributionLockProofs!LockedCodesAreDecoded` | if `CommaFree`, `Spec => []CodesDecodeAsLocked` |
| `ToolkitProofs!TypeCorrect` | `Spec => []TypeOK`: no host is shown a place outside EscrowV2 |
| `ToolkitProofs!WithdrawsWhatWasShown` | `Spec => []WithdrawClosesWhatWasShown` |
| `ToolkitProofs!RepliesAreTrue` | `Spec => []RepliesTellWhatWasSigned` |
| `ToolkitProofs!WatchFinds` | `Spec => WatchFindsWhatIsIndexed` |
| `ToolkitProofs!ListingNames` | `Spec => ListingNamesMyDeposits` |
| `ClientChecksProofs!PublishedPairsAreTaken` | `Spec => []AcceptsThePublishedPairs` |
| `ClientChecksProofs!PreparedIsEncoded` | `Spec => []EncodesWhatItPrepared` |
| `ClientChecksProofs!AmountsAreTruncated` | `Spec => []HumanAmountsAreTruncated` |
| `ClientChecksProofs!PaypalNamesAgree` | `Spec => []PaypalSpellingsAgree` |
| `ClientChecksProofs!HandlesStay` | `Spec => []HandleIsStable` |
| `ClientChecksProofs!DigestsComeFromTheCurator` | if `NewlineFree`, `Spec => []DigestIsTheCurators` |
| `ClientChecksProofs!KnownPlacesAreRead` | `Spec => []EveryKnownPlaceIsRead` |

Among them is every invariant and action property the passing runs check.

The inductive invariant of `CashoutProofs` is `TypeOK` and three parts. `CallOK`:
a call past `idle` has an accepted request unless it raised, and its nonce is of
its own transaction. `TraceOK`: before the POST a call has no record and no
transaction, before encoding no transaction. `ChainOK`: every createDeposit in
the wallet keeps to the pair table, a receipt that refuses one for its pair is of a
stale row, and every `DepositReceived` in a receipt names a deposit of the call that
signed that transaction. None of the four
properties they give is inductive alone: an id comes out of a receipt, so receipts must be
tied to deposits, and a late local error is only impossible because the request
in hand passed `prepare()`, which is `EncodersAgreeWithPrepare`. The proof has
one lemma per action; steps of other calls and of the chain go through two frame
lemmas, since transactions and deposits are only ever appended.

The second half of `CashoutProofs` adds `TxsInv`, per call: `step` and `nonce`
alone tell which of its two transactions are in the wallet (`HandedBy`), wherever the call is and also
after it raised; each is there at most once, with the content the request and the
digest give it, the approve before the createDeposit; nonce and hashes are theirs.
The hashes are a call's own because the wallet only grows and nobody else writes
in its name, which only an account of what each call wrote shows to be lasting.

`CashoutLedgerProofs` ties the chain to that in three layers.

- `LedgerInv` holds always. A deposit of this wallet was made by a mined
  createDeposit with its content (`MadeOK`), so it is as its call asked and alone,
  the createDeposit being the call's only one. What is left of the allowance was
  granted by the last approve mined with success, whose call has no deposit yet
  (`GrantOK`): with a deposit it would have used all of it up. That approve's whole
  amount is left while nothing but rate managers was set since (`WholeOK`), so a
  createDeposit finds it missing only when its own approve failed or another
  transaction came in between. `HooksOK`, beside it, says that every setRateManager
  in the wallet is of a call that returned in Best mode, names the id that call
  reported, and that this is a deposit of that call (`OwnHook`): which is
  `DepositIdIsMine`, kept because neither the id nor the deposit changes later. It
  needs `LabelFree`.
- `AloneInv` needs `Sequential`: one call is past `idle` and not ended, and since
  its approve nothing is in the wallet but its own createDeposit and follow-ups of
  calls that returned. `WholeOK` then leaves only the approve's own failure.
- `ReadInv` needs `ReadsReceipts`, that no signer returns a bare hash or nothing
  (`hash_signer_follow_up` shows what happens otherwise): a call that returned
  without an id has a createDeposit that did not succeed, and a mined receipt
  stays what it is, so no deposit comes for it later either.

`CashoutRefinement` maps a call's `pc`, request and `step` to the contract's outcome, the
curator's records to `exposed`, `HandedBy` to `handed` and the deposits to
`settled`, and shows of each action that it is one step of the contract for its
call or a stutter, and leaves the other calls as the contract sees them. `TxsInv`
is what makes a broadcast `Hand`, a return `Return` (both were handed over) and a
mined createDeposit `Settle` (out of both, and the first).

`AttributionLockProofs` ties the loop to what the caller passed: the queue is the
rest of it, and the extras are first mentioned among the items looked at, in the
order they were kept (`OrderInv`). What the codes decode to needs `CommaFree`, that
no referrer holds a comma: `comma_referrer` shows what goes wrong without it. `TokenCodes` then says the codes are single tokens, none of them empty,
reserved or a marker behind the first two, and `FlattenSingles` that joining and
cutting gives single tokens back. It is an induction along the sequence, argued as
the library's theorems allow: by the least place where a claim fails
(`LeastNatural`, from the well-foundedness of `<`), so that no predicate has to be
handed to a theorem.

`CashoutRulesProofs` is about single requests. The checks of `prepare()` run in
order and the first failure decides (`FirstErrorIsAResult`), which gives both what
is left for the encoders and whom a refusal blames. `HandlesAreStable` rests on what
`lstrip`, `rstrip` and `lower` leave of any text (`LStripCut`, `RStripCut`,
`LowerFolds`). A blank after the sigil is excluded because the code is not stable
there: "@ alice" is posted as " alice", and that, handed back, as "alice".

`ClientChecksProofs` has what `ClientChecks` says of each input. Its invariant is
`TypeOK` alone, what the edits of a user may reach; the work is in the operators,
for inputs of any length.

- Amounts: `TenTo` grows and adds up in its exponents, a number has `Digits(n)`
  digits exactly when it is below that power, and rounding to even moves it by half
  of the last digit kept at most. Of an amount with no more digits than the context
  keeps, only zeros are dropped (`ShortNumbersAreExact`), and `Parse` is then the
  exact `ParseUsdcAmount` that `Cashout` uses.
- Pairs: the README lists of every platform the currencies that are in the registry
  and have a feed, row by row; the rest is `OnlyPricedPairsAreTaken`.
- PayPal: a spelling is its core between blanks, and no part of the core begins or
  ends with one (`Solid`), so `strip` finds the core (`StripBetween`). Cutting at a
  separator goes through every part that lacks it (`CutFurtherOn`), which finds the
  host, drops the tail and leaves the segment with the sigils and the name.
- Handles: what is posted is in lower case or a link that is left alone
  (`PaypalIsLeft`), or holds no protocol and no sigil in front (`MonzoIsLeft`), so
  the second pass finds nothing to take off. The premise `IsName` is needed: "@ alice"
  is posted as " alice", a user called "paypal.me" is a host the second time, and what
  follows a "monzo.me/" may hold another one.
- Digests: whatever is found in a known object is a digest that stands at a known
  place (`FoundAreKnown`), by the number of the object, since an object's number is
  below those inside it; so the depth of an answer does not matter. For the other
  direction, the objects in which nothing is found hold nothing at their known
  places and only such objects are inside them (`EmptyObject`); when the answer is
  one of them they include every known object, which is the least closed set.

The recursive functions are shown to exist place by place, `TenTo` and `kept` of
`Without` by `IterationExists` and `found` of `FoundIn` by `SearchExists`, from the
last object back. They are argued about by the least place where a claim fails
(`LeastPlace`).

`OracleRateProofs` needs that finished rounds are stamped in the order they are
published and that the node answers with a round no older than the latest at
`as_of`: an answer too old at `as_of` then leaves nothing younger among them.

`ToolkitProofs` strengthens its properties by what they lean on. `MinedInv`: a
withdraw in the wallet was meant for the deposit of EscrowV2 it names, which needs
that only such deposits are ever `known`. `CallInv` and `TurnInv`: a call that is
with the signer has a number no transaction in the wallet has, and so has an
unsigned reply, until it is broadcast; a host that signs a reply uses it up.
What a read answers needs the book (`BookInv`): in every chain state the indexer
may yet show EscrowV2 numbers its deposits from one on, and a number in a receipt
of this wallet is that of a deposit of this wallet there, since the next number is
always one above all of them; and that a read is asked by the owner's address or
by a key of the place it is about (`AskInv`).

Assumptions used: folding a token once is enough and makes no mark of it, reserved
names have no capitals and are no `peer-ref-*` (`NamesAssumption`); the pair table has a row per platform (a test pins it), amounts are
integers, the signer returns one of the five shapes, and `None` is none of the errors, numbers
and rows. `ClientChecks` names what its inputs are: the tables are the shipped ones
(`ShippedAssumption`), every choice has a member (`InputsAssumption`,
`AnswersAssumption`), an object is inside one of a smaller number
(`AnswersAssumption`), digits are digits and the bound `MaxDigits` has room for the
product (`NumbersAssumption`, `DecimalAssumption`), and the parts of a spelling are
what their names say while host, sigil and name are any text (`SpellingsAssumption`).
Some theorems have a hypothesis of their own, on the host: `Sequential`
is a host that waits for one cash-out before the next, `ReadsReceipts` one whose
signer returns receipts or the id it read off one, `LabelFree` one whose signer puts
nothing else under `id`, `CommaFree` one whose referrers hold no comma; and
`NewlineFree` is on the curator: no text of its answers ends in a newline. They are
what runs check (`cashout_sequential`, `cashout_overlap`, `attribution_lock`,
`client_checks`), and no other theorem needs them. Where `ReadsReceipts` or
`CommaFree` or `NewlineFree` fails, a run has the counterexample
(`hash_signer_follow_up`, `comma_referrer`, `newline_digest`).

Only model-checked: liveness (`EveryCallEnds`, `ReturnedIsMined`), which is out of
the prover's reach. The six statements of section 3 the code does not keep have a
counterexample each; `OneMarkerOnTheWire` and `DigestIsTheCurators` are proved under
the hypotheses above.

## 6. Not modelled

- What `estimate` says of a round with `updatedAt` 0 (no time, never stale) and of
  a round younger than `as_of` is in the model; no property is stated about it.
- The toolkit's `estimate`, which moves nothing, and the `TypeError`s of both
  constructors on key-like arguments and on a default mode.
- The setRateManager follow-up of a Best deposit made through the toolkit: no tool
  makes it. `Cashout` has the follow-up a host makes with the client.
- `outstandingIntentAmount` and partial fills: takers drain a deposit or do not.
- An answer of the curator that never ends, JSON that nests deeper than Python
  recurses, and an attestation in `extra`, which `prepare()` does not pass.
- ABI encoding, keccak, checksums, addresses: data.
- A retry by the host after a raise. The second call is in the model (any number
  of calls with the same request); nothing ties it to the first, in the code
  either.

## 7. Plan

1. What a result with an unrelated `id` should mean (`calldata.py:369`), if a text of
   the repository comes to say it: `labelled` signers are in the model.
2. A node that serves an older block than the latest, in `OracleRate`, if the client
   comes to check the round it is given.
3. Liveness of `Cashout` as a proof, once the prover has ENABLED.

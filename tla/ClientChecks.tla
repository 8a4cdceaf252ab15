----------------------------- MODULE ClientChecks -----------------------------
(***************************************************************************)
(* The pure parts of the client over the inputs its callers and the        *)
(* curator can give them.  subject says which one a behaviour is about;    *)
(* its user then edits one place at a time of                              *)
(*                                                                         *)
(*   request              what prepare() is asked                          *)
(*   platform, spelling   the ways a user writes one payment handle        *)
(*   amount               a human amount, digit by digit                   *)
(*   platform, reply      what the curator answers                         *)
(*                                                                         *)
(* so every combination of the inputs is reached.                          *)
(***************************************************************************)
EXTENDS UsdcAmount, PairTables

CONSTANTS
  Subjects,        \* of "request", "payee", "amount", "reply"
  Inputs,          \* field of a request |-> what may be passed there
  Tokens,          \* of the spellings of a handle
  Spellings,       \* part of a spelling |-> the texts that may stand there
  Platforms,       \* subject |-> the platforms it is about
  Kinds,           \* of amounts
  Coefficients,    \* amounts that are not written digit by digit
  WrittenDigits,   \* digits a user tries
  MaxWritten,      \* bound: digits of a written amount
  MaxDecimals,     \* bound: how many of them are decimals
  Members,         \* object of an answer |-> its keys |-> the values there
  Bodies           \* answers, the first of these objects or a bare value

Curator == INSTANCE PayeeHash

(* f has one of the choices in every place. *)
Chosen(f, choices) ==
  /\ f = [x \in DOMAIN choices |-> f[x]]
  /\ \A x \in DOMAIN choices : f[x] \in choices[x]

AnyOf(choices) == [x \in DOMAIN choices |-> CHOOSE v \in choices[x] : TRUE]

RequestFields == {"mode", "amount", "platform", "currency", "payee", "supplied", "signer"}

(* The cash-outs asked for are over the tables the client ships. *)
ASSUME ShippedAssumption ==
  /\ PaymentMethods = PaymentMethodHashes
  /\ Registry = PaymentMethodCurrencies
  /\ Feeds = ChainlinkOracleFeeds

ASSUME InputsAssumption ==
  /\ DOMAIN Inputs = RequestFields
  /\ \A f \in RequestFields : Inputs[f] # {}
  /\ \A a \in Inputs["amount"] : a.value \in Int
  /\ \A p \in Inputs["platform"], h \in Inputs["payee"] : <<p, h>> \notin {None, ZeroDigest}

SpellingParts == {"blank", "protocol", "www", "host", "sigil", "name", "path", "tail"}

(* What the parts of a spelling are; the host, the sigil and the name can  *)
(* be any text.                                                            *)
ASSUME SpellingsAssumption ==
  /\ DOMAIN Spellings = SpellingParts
  /\ \A p \in SpellingParts : Spellings[p] # {} /\ Spellings[p] \subseteq Seq(Tokens)
  /\ \A s \in Spellings["blank"] : \A i \in 1..Len(s) : s[i] = Blank
  /\ \A s \in Spellings["protocol"] : s = <<>> \/ Lower(s) \in {<<t>> : t \in Protocols}
  /\ \A s \in Spellings["www"] : Lower(s) \in {<<>>, <<"www.">>}
  /\ \A s \in Spellings["path"] :
       /\ s # <<>> => s[1] = "/" /\ s[Len(s)] # Blank
       /\ \A i \in 1..Len(s) : s[i] \notin {"?", "#"}
  /\ \A s \in Spellings["tail"] : s # <<>> => s[1] \in {"?", "#"} /\ s[Len(s)] # Blank

ASSUME NumbersAssumption ==
  /\ WrittenDigits \subseteq 0..9
  /\ MaxWritten \in Nat /\ MaxWritten + Places <= MaxDigits
  /\ MaxDecimals \in 0..MaxDigits
  /\ "human" \in Kinds
  /\ \A c \in Coefficients : c \in Int /\ c < TenTo[MaxWritten]

(* Objects are inside one another, and None is no text. *)
IsInside(value, i) ==
  /\ value.kind = "text" => value.text # None
  /\ value.kind = "object" => value.at \in (i + 1)..Len(Members)

IsAnswer(value, i) ==
  /\ IsInside(value, i)
  /\ (value.kind = "list" /\ value.items # <<>>) => IsInside(Head(value.items), i)

ASSUME AnswersAssumption ==
  /\ Len(Members) \in Nat /\ DOMAIN Members = 1..Len(Members)
  /\ \A i \in DOMAIN Members : \A key \in DOMAIN Members[i] :
       /\ Members[i][key] # {}
       /\ \A value \in Members[i][key] : IsAnswer(value, i)
  /\ Bodies # {} /\ \A body \in Bodies : IsAnswer(body, 0)

VARIABLES subject, request, platform, spelling, amount, reply
vars == <<subject, request, platform, spelling, amount, reply>>

TypeOK ==
  /\ subject \in Subjects
  /\ Chosen(request, Inputs)
  /\ platform \in Platforms[subject]
  /\ Chosen(spelling, Spellings)
  /\ amount \in [kind : Kinds, coef : Int, exp : 0..MaxDecimals]
  /\ amount.coef < TenTo[MaxWritten]
  /\ reply \in [sent : {"transport", "status", "ok"}, says : BOOLEAN, body : Bodies,
                objects : {[i \in DOMAIN Members |-> reply.objects[i]]}]
  /\ \A i \in DOMAIN Members : Chosen(reply.objects[i], Members[i])

Init == /\ subject \in Subjects
        /\ request = AnyOf(Inputs)
        /\ platform \in Platforms[subject]
        /\ spelling = AnyOf(Spellings)
        /\ amount = [kind |-> "human", coef |-> 0, exp |-> 0]
        /\ \E body \in IF subject = "reply" THEN Bodies ELSE {CHOOSE b \in Bodies : TRUE} :
             reply = [sent |-> "ok", says |-> FALSE, body |-> body,
                      objects |-> [i \in DOMAIN Members |-> AnyOf(Members[i])]]

-----------------------------------------------------------------------------
Ask == /\ subject = "request"
       /\ \E f \in DOMAIN Inputs : \E v \in Inputs[f] :
            request' = [request EXCEPT ![f] = v]
       /\ UNCHANGED <<subject, platform, spelling, amount, reply>>

Spell == /\ subject = "payee"
         /\ \E p \in DOMAIN Spellings : \E text \in Spellings[p] :
              spelling' = [spelling EXCEPT ![p] = text]
         /\ UNCHANGED <<subject, request, platform, amount, reply>>

Amount(a) == /\ subject = "amount"
             /\ amount' = a
             /\ UNCHANGED <<subject, request, platform, spelling, reply>>

(* One more digit, or the point moves by one. *)
Write == \E digit \in WrittenDigits :
           /\ amount.coef >= 0 /\ 10 * amount.coef + digit < TenTo[MaxWritten]
           /\ Amount([amount EXCEPT !.coef = 10 * @ + digit])
Point == amount.exp < MaxDecimals /\ Amount([amount EXCEPT !.exp = @ + 1])
Other == \E k \in Kinds, c \in Coefficients : Amount([kind |-> k, coef |-> c, exp |-> 0])

Answer(r) == /\ subject = "reply"
             /\ reply' = r
             /\ UNCHANGED <<subject, request, platform, spelling, amount>>

(* The objects of a body are edited while it has any. *)
EditBody == /\ reply.body.kind = "object"
            /\ \E i \in DOMAIN Members : \E key \in DOMAIN Members[i] :
                 \E value \in Members[i][key] :
                   Answer([reply EXCEPT !.objects[i][key] = value])
EndRequest == \E sent \in {"transport", "status", "ok"}, says \in BOOLEAN :
                Answer([reply EXCEPT !.sent = sent, !.says = says])

Next == Ask \/ Spell \/ Write \/ Point \/ Other \/ EditBody \/ EndRequest

Spec == Init /\ [][Next]_vars

-----------------------------------------------------------------------------
(* Properties of a request *)

Digest == <<request.platform, request.payee>>
Published(p) == IF p \in DOMAIN ReadmeTable THEN ReadmeTable[p] ELSE {}

(* prepare() takes a platform and a currency exactly when the README's     *)
(* table of pairs lists them, whatever else the request says: no other     *)
(* check of prepare() widens or narrows the published set.                 *)
AcceptsThePublishedPairs ==
  LET pairOk == request.currency \in Published(request.platform)
      error  == PrepareError(request)
  IN  /\ error = Ok => pairOk
      /\ (~pairOk /\ RequireMode(request.mode) = Ok /\ AmountError(request.amount) = Ok)
           => error \in {"platform", "currency"}
      /\ pairOk => error \notin {"platform", "currency"}

(* What prepare() accepts locally, the encoders accept once a digest is    *)
(* known: the only local errors left after the curator POST are the width  *)
(* of a uint256, the ERC-8021 codes (their one-byte length, or a character *)
(* that is not ASCII) and the digest.                                      *)
EncodesWhatItPrepared ==
  PrepareError(request) = Ok
    => /\ EncodeError(request, Digest) \in {Ok, "overflow", "UnicodeEncodeError", "codes"}
       /\ EncodeError(request, ZeroDigest) \in {"overflow", "UnicodeEncodeError", "codes", "digest"}

-----------------------------------------------------------------------------
(* Properties of a handle *)

(* The text as typed: the parts of the spelling in order. *)
Text == spelling.blank \o (spelling.protocol \o (spelling.www \o (spelling.host \o
          (spelling.sigil \o (spelling.name \o (spelling.path \o (spelling.tail \o
             spelling.blank)))))))

Handle == NormalizePayee(platform, Text)

PaypalHosts == {<<"paypal.me", "/">>, <<"paypal.com", "/", "paypalme", "/">>}

(* A text none of whose tokens the client looks for. *)
IsWord(name) ==
  /\ name # <<>>
  /\ \A i \in 1..Len(name) :
       Lower(name)[i] \notin Marks \cup Protocols \cup {"www.", "paypal.me", "paypal.com"}

(* Every way to write a PayPal.me name, a link to it or the bare name with *)
(* any number of sigils, posts the one handle the curator hashes for it: a *)
(* payment to the real username then matches the deposit                   *)
(* (_normalize_paypal_me_username).                                        *)
PaypalSpellingsAgree ==
  ( /\ platform = "paypal"
    /\ IsWord(spelling.name)
    /\ \A i \in 1..Len(spelling.sigil) : spelling.sigil[i] = "@"
    /\ \/ Lower(spelling.host) \in PaypalHosts
       \/ /\ spelling.protocol = <<>> /\ spelling.www = <<>>
          /\ spelling.host = <<>> /\ spelling.path = <<>> /\ spelling.tail = <<>> )
  => Handle = Lower(spelling.name)

(* What is left of a handle is a name: no blank came out in front of it or *)
(* behind it, and it is not a link, or another sigil, to be cut in turn.   *)
IsName(p, handle) ==
  /\ handle # <<>>
  /\ handle[1] # Blank /\ handle[Len(handle)] # Blank
  /\ p = "paypal" => handle[1] # "@" /\ Host(handle) \notin {<<"paypal.me">>, <<"paypal.com">>}
  /\ p = "monzo" => MonzoLinks(handle) = {}

(* A handle the client posted is what it posts again when the host hands   *)
(* that handle back as the payee, for every branch of normalize_payee: the *)
(* second cash-out of a payee reaches the first one's maker record.        *)
HandleIsStable ==
  IsName(platform, Handle) => NormalizePayee(platform, Handle) = Handle

(* "The transform now lowercases, strips a leading @, drops ?/# tails"     *)
(* (CHANGELOG.md:16): no PayPal username keeps a query or fragment tail.   *)
PaypalHandleHasNoTail ==
  ( /\ platform = "paypal"
    /\ spelling.protocol = <<>> /\ spelling.www = <<>>
    /\ spelling.host = <<>> \/ Lower(spelling.host) \in PaypalHosts )
  => ~ Holds(Handle, {"?", "#"})

-----------------------------------------------------------------------------
(* Properties of an amount *)

(* A human amount of at most as many digits as the decimal context has     *)
(* deposits every whole base unit of what was written and no more, as      *)
(* CashoutRules has it.  With more digits human * 10^6 is rounded before   *)
(* int() truncates it: the deposit can then exceed what was written, by no *)
(* more than half a unit of the last digit kept.                           *)
HumanAmountsAreTruncated ==
  LET parsed  == Parse(amount)
      product == Product(amount)
      slack   == TenTo[Excess(product)] \div 2
      unit    == TenTo[amount.exp]
      parts   == [kind |-> "human", value |-> amount.coef]
      exact   == Digits(amount.coef) <= Precision
  IN  (amount.kind = "human" /\ amount.coef > 0) =>
        /\ exact => parsed.units = product \div unit
        /\ parsed.units * unit <= product + slack
        /\ product <= (parsed.units + 1) * unit + slack
        /\ (exact /\ unit = SubUnits * TenTo[Places])
             => AmountError(parts) = parsed.error /\ ParseUsdcAmount(parts) = parsed.units

-----------------------------------------------------------------------------
(* Properties of an answer *)

Hash == Curator!CreatePayeeHash(platform, reply)

(* The places an answer may have its digest at, as curator.py:92 and the   *)
(* tests name them: a field of a known name or the first item of a list,   *)
(* in the answer or in an object it holds at such a place.                 *)
FirstItems(object) ==
  {Head(value.items) : value \in {v \in {Curator!Field(object, k) : k \in Curator!ListKeys} :
                                    v.kind = "list" /\ v.items # <<>>}}

Said(object) == {Curator!Field(object, k) : k \in Curator!TextKeys} \cup FirstItems(object)

Inside(object) ==
  LET held == {Curator!Field(object, k) : k \in {"responseObject", "data"}}
                \cup FirstItems(object)
  IN  {value.at : value \in {v \in held : v.kind = "object"}}

(* The least set of objects with the answer and all that is inside it. *)
KnownObjects ==
  {i \in DOMAIN Members :
     \A R \in SUBSET DOMAIN Members :
       (reply.body.at \in R /\ \A j \in R : Inside(reply.objects[j]) \subseteq R) => i \in R}

KnownTexts ==
  LET values == IF reply.body.kind = "object"
                  THEN UNION {Said(reply.objects[i]) : i \in KnownObjects}
                  ELSE {reply.body}
  IN  {value.text : value \in {v \in values : v.kind = "text"}}

Answered ==
  /\ reply.sent = "ok"
  /\ reply.body.kind = "object"
       => Curator!Field(reply.objects[reply.body.at], "success") # [kind |-> "false"]

Is32Bytes(text) == text.prefixed /\ text.hex /\ text.digits = 64 /\ ~text.newline

(* "anything that is not a 32-byte hex digest is a curator response we do  *)
(* not understand" (curator.py:14): what create_payee_hash returns is a    *)
(* 32-byte digest that stands at a known place of an answer that is not a  *)
(* failure, and _bytes32 encodes its own 32 bytes and not a keccak of it.  *)
DigestIsTheCurators ==
  Hash.digest # None =>
    /\ Answered
    /\ Hash.digest \in KnownTexts
    /\ Is32Bytes(Hash.digest)
    /\ Curator!Bytes32(Hash.digest).word = "padded"

(* "The live envelope carries the digest at                                *)
(* responseObject.hashedOnchainId" (curator.py:92), "older curator answers *)
(* put the digest at the top level. Keep reading them" (test_curator.py).  *)
(* An answer with a digest at any known place, however deep, is not        *)
(* refused: no placeholder at another name, no list that is empty, or      *)
(* whose first item is no digest, and no object without one hides it.      *)
EveryKnownPlaceIsRead ==
  (Answered /\ \E text \in KnownTexts : Is32Bytes(text)) => Hash.digest # None
=============================================================================

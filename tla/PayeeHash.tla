------------------------------ MODULE PayeeHash ------------------------------
(***************************************************************************)
(* How the curator answers and its text becomes a bytes32: curator.py,     *)
(* _request, _extract_hash and create_payee_hash, and calldata's _bytes32. *)
(*                                                                         *)
(* A JSON value is null, a text, a list or an object:                      *)
(*   [kind |-> "null"], [kind |-> "text", text], [kind |-> "list", items], *)
(*   [kind |-> "object", at].                                              *)
(* The objects of an answer are numbered, an object before the ones inside *)
(* it: objects[at] maps the keys of an object to values.                   *)
(* A text is [name, prefixed, hex, digits, newline]: which text it is,     *)
(* whether it starts with 0x, whether the rest is hexadecimal and how long *)
(* it is, and whether a newline follows.  A reply is                       *)
(* [sent, says, body, objects]: how the request ended ("transport",        *)
(* "status" for 400 and above, or "ok"), whether what came back speaks of  *)
(* a verification, and the body with its objects.                          *)
(***************************************************************************)
EXTENDS Integers, Sequences

CONSTANTS
  None,
  PlatformsNeedingAttestation

Null == [kind |-> "null"]

(* payload.get(key) *)
Field(object, key) == IF key \in DOMAIN object THEN object[key] ELSE Null

(* A variant that takes any text (DigestIsTheCurators).                    *)
AnyText(value) == value.kind = "text"

(* PAYEE_HASH.match of a text: "$" also matches before a final newline. *)
IsDigest(value) ==
  /\ value.kind = "text"
  /\ value.text.prefixed /\ value.text.hex /\ value.text.digits = 64

DigestOf(value)     == IF IsDigest(value) THEN value.text ELSE None
OrElse(text, other) == IF text # None THEN text ELSE other

TextKeys == {"hashedOnchainId", "hashed_onchain_id", "payeeDetailsHash",
             "payee_details_hash", "hash"}
ListKeys == {"payeeDetailsHashes", "hashedOnchainIds", "hashes"}

(* The first digest among the named fields. *)
NamedDigest(object) ==
  LET At(key) == DigestOf(Field(object, key)) IN
  OrElse(At("hashedOnchainId"), OrElse(At("hashed_onchain_id"),
    OrElse(At("payeeDetailsHash"), OrElse(At("payee_details_hash"), At("hash")))))

(* found is what the objects further in hold. *)
NestedDigest(value, found) == IF value.kind = "object" THEN found[value.at] ELSE None

(* Of a list only the first item is looked at. *)
ListedDigest(value, found) ==
  IF value.kind # "list" \/ value.items = <<>> THEN None
  ELSE OrElse(DigestOf(Head(value.items)), NestedDigest(Head(value.items), found))

(* A variant where a list with an item is the end of the search            *)
(* (EveryKnownPlaceIsRead).                                                *)
ListsDecide(object, found) ==
  LET Value(key) == Field(object, key)
      lists == {key \in ListKeys : Value(key).kind = "list" /\ Value(key).items # <<>>}
  IN  OrElse(NamedDigest(object),
        IF lists # {}
          THEN ListedDigest(Value(CHOOSE key \in lists : TRUE), found)
          ELSE OrElse(NestedDigest(Value("responseObject"), found),
                      NestedDigest(Value("data"), found)))

ObjectDigest(object, found) ==
  LET Listed(key) == ListedDigest(Field(object, key), found)
      Nested(key) == NestedDigest(Field(object, key), found)
  IN  OrElse(NamedDigest(object),
        OrElse(Listed("payeeDetailsHashes"), OrElse(Listed("hashedOnchainIds"),
          OrElse(Listed("hashes"), OrElse(Nested("responseObject"), Nested("data"))))))

FoundIn(objects) ==
  LET found[i \in 1..Len(objects)] == ObjectDigest(objects[i], found) IN found

(* _extract_hash *)
ExtractHash(reply) ==
  OrElse(DigestOf(reply.body), NestedDigest(reply.body, FoundIn(reply.objects)))

-----------------------------------------------------------------------------
(* _request: a 2xx envelope with success: false is a failure as well. *)
Failed(reply) ==
  \/ reply.sent # "ok"
  \/ /\ reply.body.kind = "object"
     /\ Field(reply.objects[reply.body.at], "success") = [kind |-> "false"]

Raised(code)   == [raised |-> code, digest |-> None]
Returned(text) == [raised |-> None, digest |-> text]

(* create_payee_hash.  Only what _request raised is translated: an answer  *)
(* without a digest stays a CuratorError whatever it says.                 *)
CreatePayeeHash(platform, reply) ==
  CASE Failed(reply) ->
         Raised(IF platform \in PlatformsNeedingAttestation /\ reply.says
                  THEN "PAYEE_VERIFICATION_REQUIRED" ELSE "CURATOR")
    [] ~Failed(reply) /\ ExtractHash(reply) = None -> Raised("CURATOR")
    [] OTHER -> Returned(ExtractHash(reply))

(* _bytes32 of a text: hexadecimal of at most 32 bytes is taken as it is,  *)
(* padded on the left, any other text is hashed, a newline included.       *)
Bytes32(text) ==
  IF text.hex /\ text.digits <= 64 /\ ~text.newline
    THEN [word |-> "padded", of |-> text.name]
    ELSE [word |-> "keccak", of |-> text.name]
=============================================================================

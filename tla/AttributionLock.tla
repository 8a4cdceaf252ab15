--------------------------- MODULE AttributionLock ---------------------------
(***************************************************************************)
(* lock_attribution, one item of the caller's referrers at a time, and the *)
(* ERC-8021 codes the result puts on every transaction.                    *)
(*                                                                         *)
(* An item is None or a stripped text cut at its commas: the sequence of   *)
(* the parts a decoder of the codes would see, each a token or empty.      *)
(***************************************************************************)
EXTENDS Texts, SequencesExt

CONSTANTS
  None,
  Items,          \* what a caller may pass as one referrer
  MaxReferrers,   \* bound: items in each of the two list arguments
  PeerRefs        \* lower-case tokens that start with "peer-ref-"

ASSUME BoundAssumption == MaxReferrers \in Nat
ASSUME ItemsAssumption == None \notin Items

Source    == "galleonlabs"       \* DISTRIBUTION_REFERRER
PeerRef   == "peer-ref-TOFIAT"   \* PEER_REF
Reserved  == {"peer-cash", "zkp2p-cash", "plugin-peer-cash"}

(* The product's marker starts with "peer-ref-"; the source and the        *)
(* reserved names do not, and have no capitals.                            *)
ASSUME NamesAssumption ==
  /\ PeerRef \in DOMAIN Folded /\ Folded[PeerRef] \in PeerRefs
  /\ \A name \in {Source} \cup Reserved : name \notin DOMAIN Folded \cup PeerRefs

VARIABLES
  queue,     \* items not looked at yet: referrers, extra_referrers, referrer
  extras,    \* the referrers kept so far
  passed     \* what the caller passed, for the properties

vars == <<queue, extras, passed>>

Arguments(n) == UNION {[1..k -> Items \cup {None}] : k \in 0..n}

Init ==
  /\ \E referrers \in Arguments(MaxReferrers), more \in Arguments(MaxReferrers),
        referrer \in Arguments(1) : passed = referrers \o more \o referrer
  /\ queue = passed
  /\ extras = <<>>

(* _is_competing_referral, on the whole text of an item. *)
Nothing == ""
Empty(item) == item = <<Nothing>>

(* A variant that only knows its own marker (OneMarkerOnTheWire).          *)
OwnMarkerOnly(item) ==
  Empty(item) \/ Lower(item) \in {<<w>> : w \in Reserved \cup {"tofiat", Source, "peer-ref-tofiat"}}

(* A variant that takes a blank for an extra (CodesDecodeAsLocked).        *)
BlankIsAnExtra(item) ==
  \/ Lower(item) \in {<<w>> : w \in Reserved \cup {"tofiat", Source}}
  \/ StartsWith(Lower(item), PeerRefs)

Competing(item) ==
  \/ Empty(item)
  \/ Lower(item) \in {<<w>> : w \in Reserved \cup {"tofiat", Source}}
  \/ StartsWith(Lower(item), PeerRefs)

(* A variant without `if text not in extras` (CodesAreLocked).             *)
KeepsRepeats(item) == ~Competing(item)

Kept(item) ==
  /\ ~Competing(item)
  /\ \A i \in 1..Len(extras) : extras[i] # item

(* A variant that puts a new extra in front (FirstMentionLeads).           *)
LookAndPrepend ==
  /\ queue # <<>>
  /\ queue' = Tail(queue)
  /\ extras' = IF Head(queue) # None /\ Kept(Head(queue))
                 THEN <<Head(queue)>> \o extras ELSE extras
  /\ UNCHANGED passed

(* One turn of the inner loop. *)
Look ==
  /\ queue # <<>>
  /\ queue' = Tail(queue)
  /\ extras' = IF Head(queue) # None /\ Kept(Head(queue))
                 THEN Append(extras, Head(queue)) ELSE extras
  /\ UNCHANGED passed

Next == Look
Spec == Init /\ [][Next]_vars

-----------------------------------------------------------------------------
(* Attribution.codes *)
Codes == <<<<Source>>, <<PeerRef>>>> \o extras

(* ",".join(codes), cut again at every comma. *)
Joined == FlattenSeq(Codes)

(* parse_erc8021 gives back the parts that are not empty. *)
ParseErc8021 ==
  FlattenSeq([i \in 1..Len(Joined) |-> IF Joined[i] = Nothing THEN <<>> ELSE <<Joined[i]>>])

Marker(part) == Lower(<<part>>)[1] \in PeerRefs

-----------------------------------------------------------------------------
TypeOK ==
  /\ queue \in Seq(Items \cup {None})
  /\ extras \in Seq(Items)

(* The codes lead with the source and the product's marker; no other code  *)
(* is the source, a reserved name or a peer-ref-* marker, and none repeats.*)
CodesAreLocked ==
  /\ Codes[1] = <<Source>> /\ Codes[2] = <<PeerRef>>
  /\ \A i \in 3..Len(Codes) : ~Competing(Codes[i])
  /\ \A i, j \in 1..Len(Codes) : Codes[i] = Codes[j] => i = j

(* "Inbound referral_code and peer-ref-* values are discarded" (README.md: *)
(* 60): a decoder of the codes finds one peer-ref-* marker, the product's  *)
(* own, right after the source, and no reserved name anywhere.             *)
OneMarkerOnTheWire ==
  /\ ParseErc8021[1] = Source
  /\ {i \in 1..Len(ParseErc8021) : Marker(ParseErc8021[i])} = {2}
  /\ ParseErc8021[2] = PeerRef
  /\ \A i \in 1..Len(ParseErc8021) : ParseErc8021[i] \notin Reserved

(* parse_erc8021 gives back the codes that were locked, none dropped. *)
CodesDecodeAsLocked ==
  /\ Len(ParseErc8021) = Len(Codes)
  /\ \A i \in 1..Len(Codes) : Codes[i] = <<ParseErc8021[i]>>

(* In the end nothing a caller may add is lost, and the extras keep the    *)
(* order the caller first named them in.                                   *)
FirstMentionLeads ==
  queue = <<>>
    => /\ \A i \in 1..Len(passed) :
            passed[i] # None /\ ~Competing(passed[i])
              => \E k \in 1..Len(extras) : extras[k] = passed[i]
       /\ \A k, l \in 1..Len(extras) :
            k < l => FirstOf(passed, {extras[k]}) < FirstOf(passed, {extras[l]})
=============================================================================

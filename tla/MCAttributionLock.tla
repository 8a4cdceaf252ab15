-------------------------- MODULE MCAttributionLock --------------------------
(***************************************************************************)
(* Referrers a caller may pass: plain ones, the product's own and reserved *)
(* names, another product's marker with and without capitals, and, for the *)
(* comma run, a text that joins two parts.                                 *)
(***************************************************************************)
EXTENDS AttributionLock

MCFolded == "TOFIAT" :> "tofiat" @@ "Peer-Ref-EVIL" :> "peer-ref-evil"
              @@ "peer-ref-TOFIAT" :> "peer-ref-tofiat"
MCPeerRefs == {"peer-ref-evil", "peer-ref-tofiat"}

PlainItems == {<<"">>, <<"acme">>, <<"bridge">>, <<"TOFIAT">>, <<"galleonlabs">>,
               <<"zkp2p-cash">>, <<"Peer-Ref-EVIL">>, <<"peer-ref-TOFIAT">>}
JoinedItems == {<<"acme">>, <<"acme", "peer-ref-evil">>}
=============================================================================

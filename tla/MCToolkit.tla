------------------------------ MODULE MCToolkit ------------------------------
(***************************************************************************)
(* Two hosts of the toolkit: one injects a signer and leaves the flags     *)
(* alone, one injects none, turns a flag off and overrides it with all.    *)
(***************************************************************************)
EXTENDS Toolkit

WithSigner    == [enable |-> Flags, all |-> FALSE, signer |-> TRUE]
WithoutSigner == [enable |-> Flags \ {"withdraw"}, all |-> TRUE, signer |-> FALSE]
TwoHosts == {WithSigner, WithoutSigner}
=============================================================================

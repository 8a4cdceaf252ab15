--------------------------- MODULE CashoutContract ---------------------------
(***************************************************************************)
(* What one cash-out promises its host, whatever the curator, the signer   *)
(* and the chain do: a refusal leaves no trace, a result comes only after  *)
(* both transactions were handed over, an exception may come at any point  *)
(* and says nothing about what was already handed over, and a deposit is   *)
(* made once, only out of two transactions handed over.                    *)
(***************************************************************************)
EXTENDS Integers

CONSTANT Calls

VARIABLES
  outcome,   \* "idle", "open", "refused", "failed" or "returned"
  exposed,   \* the curator holds a maker record for the call
  handed,    \* transactions broadcast for it, of approve and createDeposit
  settled    \* its deposit exists

vars == <<outcome, exposed, handed, settled>>

Init ==
  /\ outcome = [c \in Calls |-> "idle"]
  /\ exposed = [c \in Calls |-> FALSE]
  /\ handed = [c \in Calls |-> 0]
  /\ settled = [c \in Calls |-> FALSE]

Become(c, o) == outcome' = [outcome EXCEPT ![c] = o]

Refuse(c) == /\ outcome[c] = "idle"
             /\ Become(c, "refused")
             /\ UNCHANGED <<exposed, handed, settled>>

Open(c) == /\ outcome[c] = "idle"
           /\ Become(c, "open")
           /\ UNCHANGED <<exposed, handed, settled>>

Expose(c) == /\ outcome[c] = "open"
             /\ handed[c] = 0
             /\ ~exposed[c]
             /\ exposed' = [exposed EXCEPT ![c] = TRUE]
             /\ UNCHANGED <<outcome, handed, settled>>

Hand(c) == /\ outcome[c] = "open"
           /\ handed[c] < 2
           /\ handed' = [handed EXCEPT ![c] = @ + 1]
           /\ UNCHANGED <<outcome, exposed, settled>>

Fail(c) == /\ outcome[c] = "open"
           /\ Become(c, "failed")
           /\ UNCHANGED <<exposed, handed, settled>>

Return(c) == /\ outcome[c] = "open"
             /\ handed[c] = 2
             /\ Become(c, "returned")
             /\ UNCHANGED <<exposed, handed, settled>>

(* The deposit may come after the call ended, in a result or otherwise. *)
Settle(c) == /\ handed[c] = 2
             /\ ~settled[c]
             /\ settled' = [settled EXCEPT ![c] = TRUE]
             /\ UNCHANGED <<outcome, exposed, handed>>

Next == \E c \in Calls :
          \/ Refuse(c) \/ Open(c) \/ Expose(c) \/ Hand(c)
          \/ Fail(c) \/ Return(c) \/ Settle(c)

Spec == Init /\ [][Next]_vars
=============================================================================

-------------------------------- MODULE Texts --------------------------------
(***************************************************************************)
(* The text operations of the client (str methods), on token sequences.    *)
(*                                                                         *)
(* Punctuation the code looks for ("@", "$", "/", "?", "#", a blank, a     *)
(* protocol, "www.") is a token of its own, a word is one token, and       *)
(* Folded maps a token written with capitals to its lower-case form.       *)
(* Other tokens are their own lower case.                                  *)
(***************************************************************************)
EXTENDS Integers, Sequences

CONSTANT Folded    \* token with capitals |-> the same token in lower case

Blank == " "
Marks == {Blank, "@", "$", "/", "?", "#"}    \* what a text is stripped of or cut at

(* A token is folded once, and no mark has or is a lower case. *)
ASSUME FoldedAssumption ==
  \A t \in DOMAIN Folded : t \notin Marks /\ Folded[t] \notin DOMAIN Folded \cup Marks

(* str.lower() *)
Lower(s) == [i \in 1..Len(s) |->
               IF s[i] \in DOMAIN Folded THEN Folded[s[i]] ELSE s[i]]

(* The place of the first token of s with P, one past the end when none is. *)
FirstWhere(s, P(_)) ==
  CHOOSE i \in 1..(Len(s) + 1) :
    /\ i <= Len(s) => P(s[i])
    /\ \A j \in 1..(i - 1) : ~P(s[j])

FirstOf(s, T) == FirstWhere(s, LAMBDA t : t \in T)

Before(s, T) == SubSeq(s, 1, FirstOf(s, T) - 1)
After(s, T)  == SubSeq(s, FirstOf(s, T) + 1, Len(s))
Holds(s, T)  == FirstOf(s, T) <= Len(s)

(* str.lstrip(c) and str.strip() *)
LStrip(s, c) == SubSeq(s, FirstWhere(s, LAMBDA t : t # c), Len(s))

RStrip(s, c) ==
  LET upto == CHOOSE i \in 0..Len(s) :
                /\ \A j \in (i + 1)..Len(s) : s[j] = c
                /\ i = 0 \/ s[i] # c
  IN  SubSeq(s, 1, upto)

Strip(s) == RStrip(LStrip(s, Blank), Blank)

StartsWith(s, T) == s # <<>> /\ s[1] \in T
DropFirst(s, T)  == IF StartsWith(s, T) THEN Tail(s) ELSE s

(* str.replace(t, "") for every t of T *)
Without(s, T) ==
  LET kept[i \in 0..Len(s)] ==
        IF i = 0 THEN <<>>
        ELSE IF s[i] \in T THEN kept[i - 1] ELSE Append(kept[i - 1], s[i])
  IN  kept[Len(s)]
=============================================================================

------------------------ MODULE AttributionLockProofs ------------------------
(***************************************************************************)
(* The attribution lock holds for every caller: whatever is passed as      *)
(* referrers, the codes lead with the source and the product's marker.     *)
(***************************************************************************)
EXTENDS AttributionLock, SequenceTheorems, WellFoundedInduction, TLAPS

(* The two leading codes are themselves refused as extras. *)
LEMMA LeadingCodesCompete == Competing(<<Source>>) /\ Competing(<<PeerRef>>)
<1>1. Lower(<<Source>>) = <<Source>>
  BY NamesAssumption DEF Lower
<1>2. Lower(<<PeerRef>>) = <<Folded[PeerRef]>>
  BY NamesAssumption DEF Lower
<1>3. StartsWith(Lower(<<PeerRef>>), PeerRefs)
  BY <1>2, NamesAssumption DEF StartsWith
<1>4. Lower(<<Source>>) \in {<<w>> : w \in Reserved \cup {"tofiat", Source}}
  BY <1>1
<1>5. QED
  BY <1>3, <1>4 DEF Competing

(* Every referrer the caller passes is None or an item. *)
LEMMA InitTyped == Init => TypeOK
<1> SUFFICES ASSUME Init PROVE TypeOK
  OBVIOUS
<1>1. PICK r \in Arguments(MaxReferrers), m \in Arguments(MaxReferrers),
           s \in Arguments(1) : passed = r \o m \o s
  BY DEF Init
<1>2. \A n \in Nat : Arguments(n) \subseteq Seq(Items \cup {None})
  BY DEF Arguments
<1>3. passed \in Seq(Items \cup {None})
  BY <1>1, <1>2, BoundAssumption
<1>4. QED
  BY <1>3 DEF Init, TypeOK

(* The extras kept so far: no competing referral, and no repeat. *)
Clean ==
  /\ \A i \in 1..Len(extras) : ~Competing(extras[i])
  /\ \A i, j \in 1..Len(extras) : extras[i] = extras[j] => i = j

IInv == TypeOK /\ Clean

(* Nothing is kept before the first item is looked at. *)
LEMMA InitClean == Init => IInv
<1> SUFFICES ASSUME Init PROVE IInv
  OBVIOUS
<1>1. Len(extras) = 0
  BY DEF Init
<1>2. 1..Len(extras) = {}
  BY <1>1
<1>3. Clean
  BY <1>2 DEF Clean
<1> QED BY <1>3, InitTyped DEF IInv

(* One turn of the loop keeps the extras clean. *)
LEMMA LookKeepsClean == IInv /\ [Next]_vars => IInv'
<1> SUFFICES ASSUME IInv, [Next]_vars PROVE IInv'
  OBVIOUS
<1>1. CASE UNCHANGED vars
  BY <1>1 DEF IInv, TypeOK, Clean, vars, Competing
<1>2. CASE Look
  <2> DEFINE item == Head(queue)
  <2>1. queue \in Seq(Items \cup {None}) /\ queue # <<>> /\ extras \in Seq(Items)
    BY <1>2 DEF IInv, TypeOK, Look
  <2>2. item \in Items \cup {None} /\ queue' \in Seq(Items \cup {None})
    BY <1>2, <2>1 DEF Look
  <2>3. CASE item # None /\ Kept(item)
    <3>1. extras' = Append(extras, item) /\ item \in Items
      BY <1>2, <2>2, <2>3 DEF Look
    <3>2. extras' \in Seq(Items) /\ Len(extras') = Len(extras) + 1
      BY <2>1, <3>1
    <3>3. \A i \in 1..Len(extras') :
            extras'[i] = IF i <= Len(extras) THEN extras[i] ELSE item
      BY <2>1, <3>1, <3>2
    <3>4. \A i \in 1..Len(extras) : extras[i] # item
      BY <2>3 DEF Kept
    <3>5. ~Competing(item)
      BY <2>3 DEF Kept
    <3>6. Clean'
      BY <2>1, <3>2, <3>3, <3>4, <3>5 DEF IInv, Clean, Competing
    <3>7. QED
      BY <2>2, <3>2, <3>6 DEF IInv, TypeOK
  <2>4. CASE ~(item # None /\ Kept(item))
    <3>1. extras' = extras
      BY <1>2, <2>4 DEF Look
    <3>2. QED
      BY <2>1, <2>2, <3>1 DEF IInv, TypeOK, Clean, Competing
  <2>5. QED
    BY <2>3, <2>4
<1>3. QED
  BY <1>1, <1>2 DEF Next

(* Clean extras behind the two leading codes are what CodesAreLocked says. *)
LEMMA CleanIsLocked == IInv => CodesAreLocked
<1> SUFFICES ASSUME IInv PROVE CodesAreLocked
  OBVIOUS
<1> DEFINE codes == <<<<Source>>, <<PeerRef>>>> \o extras
<1>1. extras \in Seq(Items) /\ Clean
  BY DEF IInv, TypeOK
<1>2. Len(codes) = Len(extras) + 2 /\ codes[1] = <<Source>> /\ codes[2] = <<PeerRef>>
  BY <1>1
<1>3. \A i \in 3..Len(codes) : i - 2 \in 1..Len(extras) /\ codes[i] = extras[i - 2]
  BY <1>1, <1>2
<1>4. \A i \in 3..Len(codes) : ~Competing(codes[i])
  BY <1>1, <1>3 DEF Clean
<1>5. Source # PeerRef
  BY DEF Source, PeerRef
<1>6. <<Source>> # <<PeerRef>>
  BY <1>5
<1>7. \A i \in 3..Len(codes) : codes[i] # <<Source>> /\ codes[i] # <<PeerRef>>
  BY <1>4, LeadingCodesCompete
<1>8. \A i, j \in 3..Len(codes) : codes[i] = codes[j] => i = j
  <2> TAKE i, j \in 3..Len(codes)
  <2> HAVE codes[i] = codes[j]
  <2>1. extras[i - 2] = extras[j - 2]
    BY <1>3
  <2>2. i - 2 = j - 2
    BY <1>1, <1>3, <2>1 DEF Clean
  <2>3. QED
    BY <1>1, <1>2, <2>2
<1>9. \A i, j \in 1..Len(codes) : codes[i] = codes[j] => i = j
  <2> TAKE i, j \in 1..Len(codes)
  <2> HAVE codes[i] = codes[j]
  <2>1. Len(codes) \in Nat
    BY <1>1, <1>2
  <2>2. (i \in 3..Len(codes) \/ i = 1 \/ i = 2) /\ (j \in 3..Len(codes) \/ j = 1 \/ j = 2)
    BY <2>1
  <2> HIDE DEF codes
  <2>3. QED
    BY <1>2, <1>6, <1>7, <1>8, <2>2
<1>10. codes = Codes
  BY DEF Codes
<1> HIDE DEF codes
<1>11. QED
  BY <1>2, <1>4, <1>9, <1>10 DEF CodesAreLocked

(* For any referrers, however many: the source and the product's marker    *)
(* lead, nothing that competes with them follows, nothing repeats.         *)
THEOREM AttributionIsLocked == Spec => []CodesAreLocked
<1>1. Init => IInv
  BY InitClean
<1>2. IInv /\ [Next]_vars => IInv'
  BY LookKeepsClean
<1>3. QED
  BY <1>1, <1>2, CleanIsLocked, PTL DEF Spec
-----------------------------------------------------------------------------
(* What the caller passed, up to the item the loop has come to, against    *)
(* the extras made of it.                                                  *)

(* Items looked at so far. *)
looked == Len(passed) - Len(queue)

(* The queue is the rest of what was passed; everything kept was first     *)
(* mentioned among the items looked at, in the order it was kept.          *)
OrderInv ==
  /\ passed \in Seq(Items \cup {None})
  /\ Len(queue) <= Len(passed)
  /\ \A i \in 1..Len(queue) : queue[i] = passed[looked + i]
  /\ \A i \in 1..looked :
       passed[i] # None /\ ~Competing(passed[i])
         => \E k \in 1..Len(extras) : extras[k] = passed[i]
  /\ \A k \in 1..Len(extras) : FirstOf(passed, {extras[k]}) \in 1..looked
  /\ \A k, l \in 1..Len(extras) :
       k < l => FirstOf(passed, {extras[k]}) < FirstOf(passed, {extras[l]})

(* FirstOf finds the place that holds the token and has none before it. *)
LEMMA FirstMention ==
  ASSUME NEW S, NEW s \in Seq(S), NEW m \in 1..Len(s),
         \A j \in 1..(m - 1) : s[j] # s[m]
  PROVE  FirstOf(s, {s[m]}) = m
<1> DEFINE x == s[m]
           first(i) == /\ i <= Len(s) => s[i] \in {x}
                       /\ \A j \in 1..(i - 1) : ~(s[j] \in {x})
<1>1. FirstOf(s, {x}) = CHOOSE i \in 1..(Len(s) + 1) : first(i)
  BY DEF FirstOf, FirstWhere
<1>2. m \in 1..(Len(s) + 1) /\ first(m)
  OBVIOUS
<1>3. ASSUME NEW i \in 1..(Len(s) + 1), first(i) PROVE i = m
  <2>1. ~(m < i)
    BY <1>3
  <2>2. ~(i < m)
    BY <1>3
  <2> QED BY <2>1, <2>2
<1> HIDE DEF first
<1> QED BY <1>1, <1>2, <1>3

LEMMA InitInOrder == Init => OrderInv
<1> SUFFICES ASSUME Init PROVE OrderInv
  OBVIOUS
<1>1. passed \in Seq(Items \cup {None}) /\ queue = passed /\ Len(extras) = 0
  BY InitTyped DEF Init, TypeOK
<1>2. looked = 0
  BY <1>1 DEF looked
<1> QED BY <1>1, <1>2 DEF OrderInv

LEMMA LookKeepsOrder == IInv /\ OrderInv /\ [Next]_vars => OrderInv'
<1> SUFFICES ASSUME IInv, OrderInv, [Next]_vars PROVE OrderInv'
  OBVIOUS
<1>1. CASE UNCHANGED vars
  BY <1>1 DEF OrderInv, vars, looked, Competing
<1>2. CASE Look
  <2> DEFINE item == Head(queue)
             here == looked + 1
  <2>1. /\ queue \in Seq(Items \cup {None}) /\ queue # <<>> /\ extras \in Seq(Items)
        /\ passed \in Seq(Items \cup {None}) /\ passed' = passed
        /\ queue' = Tail(queue)
    BY <1>2 DEF IInv, TypeOK, Look, OrderInv
  <2>2. /\ looked \in Nat /\ looked' = here /\ here \in 1..Len(passed)
        /\ Len(queue') <= Len(passed')
    BY <2>1 DEF looked, OrderInv
  <2>3. item = passed[here]
    BY <2>1 DEF OrderInv
  <2>4. \A i \in 1..Len(queue') : queue'[i] = passed'[looked' + i]
    <3> TAKE i \in 1..Len(queue')
    <3>1. i + 1 \in 1..Len(queue) /\ queue'[i] = queue[i + 1]
      BY <2>1
    <3>2. queue[i + 1] = passed[looked + (i + 1)]
      BY <3>1 DEF OrderInv
    <3>3. looked' + i = looked + (i + 1)
      BY <2>2
    <3> QED BY <2>1, <3>1, <3>2, <3>3
  <2>5. \A i \in 1..here : i \in 1..looked \/ i = here
    BY <2>2
  <2>a. \A x \in 1..looked : x \in 1..here /\ x < here
    BY <2>2
  <2>6. CASE item # None /\ Kept(item)
    <3>1. extras' = Append(extras, item)
      BY <1>2, <2>6 DEF Look
    <3>2. /\ Len(extras') = Len(extras) + 1 /\ extras'[Len(extras) + 1] = item
          /\ \A k \in 1..Len(extras) : extras'[k] = extras[k] /\ k \in 1..Len(extras')
          /\ Len(extras) + 1 \in 1..Len(extras')
      BY <2>1, <3>1
    <3>3. \A k \in 1..Len(extras') : k \in 1..Len(extras) \/ k = Len(extras) + 1
      BY <2>1, <3>2
    <3>4. \A j \in 1..(here - 1) : passed[j] # passed[here]
      <4> SUFFICES ASSUME NEW j \in 1..looked, passed[j] = passed[here] PROVE FALSE
        BY <2>2
      <4>1. \E k \in 1..Len(extras) : extras[k] = item
        BY <2>3, <2>6 DEF Kept, OrderInv
      <4> QED BY <2>6, <4>1 DEF Kept
    <3>5. FirstOf(passed, {item}) = here
      BY <2>1, <2>2, <2>3, <3>4, FirstMention
    <3>6. \A i \in 1..looked' :
            passed'[i] # None /\ ~Competing(passed'[i])
              => \E k \in 1..Len(extras') : extras'[k] = passed'[i]
      <4> SUFFICES ASSUME NEW i \in 1..here, passed[i] # None, ~Competing(passed[i])
                   PROVE  \E k \in 1..Len(extras') : extras'[k] = passed[i]
        BY <2>1, <2>2 DEF Competing
      <4>1. CASE i \in 1..looked
        BY <3>2, <4>1 DEF OrderInv
      <4>2. CASE i = here
        BY <2>3, <3>2, <4>2
      <4> QED BY <2>5, <4>1, <4>2
    <3>7. \A k \in 1..Len(extras) : FirstOf(passed, {extras[k]}) \in 1..looked
      BY DEF OrderInv
    <3>8. \A k, l \in 1..Len(extras) :
            k < l => FirstOf(passed, {extras[k]}) < FirstOf(passed, {extras[l]})
      BY DEF OrderInv
    <3> DEFINE place(k) == FirstOf(passed, {extras'[k]})
    <3>9. \A k \in 1..Len(extras) : place(k) = FirstOf(passed, {extras[k]})
      BY <3>2
    <3>10. place(Len(extras) + 1) = here
      BY <3>2, <3>5
    <3> HIDE DEF place
    <3>a. \A k \in 1..Len(extras) : place(k) \in 1..here /\ place(k) < here
      BY <2>a, <3>7, <3>9
    <3>b. here \in 1..here
      BY <2>2
    <3>11. \A k \in 1..Len(extras') : place(k) \in 1..here
      BY <3>3, <3>10, <3>a, <3>b
    <3>12. \A k, l \in 1..Len(extras') : k < l => place(k) < place(l)
      <4> SUFFICES ASSUME NEW k \in 1..Len(extras'), NEW l \in 1..Len(extras'), k < l
                   PROVE  place(k) < place(l)
        OBVIOUS
      <4>1. k \in 1..Len(extras)
        BY <2>1, <3>2, <3>3
      <4>2. CASE l \in 1..Len(extras)
        BY <3>8, <3>9, <4>1, <4>2
      <4>3. CASE l = Len(extras) + 1
        BY <3>10, <3>a, <4>1, <4>3
      <4> QED BY <3>3, <4>2, <4>3
    <3>13. \A k : place(k) = FirstOf(passed', {extras'[k]})
      BY <2>1 DEF place
    <3> QED BY <2>1, <2>2, <2>4, <3>6, <3>11, <3>12, <3>13 DEF OrderInv
  <2>7. CASE ~(item # None /\ Kept(item))
    <3>1. extras' = extras
      BY <1>2, <2>7 DEF Look
    <3>2. passed[here] # None /\ ~Competing(passed[here])
            => \E k \in 1..Len(extras) : extras[k] = passed[here]
      BY <2>3, <2>7 DEF Kept
    <3>3. \A i \in 1..here :
            passed[i] # None /\ ~Competing(passed[i])
              => \E k \in 1..Len(extras) : extras[k] = passed[i]
      BY <2>5, <3>2 DEF OrderInv
    <3>4. /\ \A k \in 1..Len(extras) : FirstOf(passed, {extras[k]}) \in 1..here
          /\ \A k, l \in 1..Len(extras) :
               k < l => FirstOf(passed, {extras[k]}) < FirstOf(passed, {extras[l]})
      BY <2>a DEF OrderInv
    <3> QED BY <2>1, <2>2, <2>4, <3>1, <3>3, <3>4 DEF OrderInv, Competing
  <2> QED BY <2>6, <2>7
<1> QED BY <1>1, <1>2 DEF Next

(* For any referrers: when the loop is done nothing a caller may add is    *)
(* lost, and the extras are in the order they were first named in.         *)
THEOREM FirstMentionsLead == Spec => []FirstMentionLeads
<1>1. Init => IInv /\ OrderInv
  BY InitClean, InitInOrder
<1>2. IInv /\ OrderInv /\ [Next]_vars => IInv' /\ OrderInv'
  BY LookKeepsClean, LookKeepsOrder
<1>3. OrderInv => FirstMentionLeads
  <2> SUFFICES ASSUME OrderInv, queue = <<>> PROVE looked = Len(passed)
    BY DEF OrderInv, FirstMentionLeads
  <2> QED BY DEF OrderInv, looked
<1> QED BY <1>1, <1>2, <1>3, PTL DEF Spec

-----------------------------------------------------------------------------
(* What the codes decode to.  Induction over a sequence is over the least  *)
(* place where a claim fails.                                              *)

(* A set of numbers that is not empty has a least one. *)
LEMMA LeastNatural ==
  ASSUME NEW T, T \subseteq Nat, T # {}
  PROVE  \E x \in T : \A y \in T : x <= y
<1> DEFINE R == {ss \in Nat \X Nat : ss[1] < ss[2]}
<1>1. IsWellFoundedOn(R, Nat)
  BY NatLessThanWellFounded DEF OpToRel
<1>2. PICK x \in T : \A y \in T : ~ (<<y, x>> \in R)
  <2> HIDE DEF R
  <2> QED BY <1>1, WFMin
<1>3. ASSUME NEW y \in T PROVE x <= y
  <2>1. <<y, x>> \in Nat \X Nat /\ ~ (y < x)
    BY <1>2
  <2> QED BY <2>1
<1> QED BY <1>3

(* Two sequences agree at the places of a set; agreement is handed on from *)
(* each place to the next.                                                 *)
Agree(f, g, S) == \A i \in S : f[i] = g[i]
Onwards(f, g, first, last) ==
  \A i \in first..last : i # first /\ f[i - 1] = g[i - 1] => f[i] = g[i]

(* Agreement at the first place that is handed on reaches the last. *)
LEMMA AgreeStepByStep ==
  ASSUME NEW first \in Nat, NEW last \in Nat, NEW f, NEW g,
         f[first] = g[first], Onwards(f, g, first, last)
  PROVE  Agree(f, g, first..last)
<1> DEFINE T == {i \in first..last : f[i] # g[i]}
<1> SUFFICES ASSUME T # {} PROVE FALSE
  BY DEF Agree
<1>1. PICK x \in T : \A y \in T : x <= y
  <2>1. T \subseteq Nat
    OBVIOUS
  <2> HIDE DEF T
  <2> QED BY <2>1, LeastNatural
<1>2. x \in first..last /\ f[x] # g[x]
  OBVIOUS
<1>3. x # first /\ x - 1 \in first..last /\ ~(x <= x - 1)
  BY <1>2
<1>4. f[x - 1] = g[x - 1]
  BY <1>1, <1>3
<1> QED BY <1>2, <1>3, <1>4 DEF Onwards

(* One-token texts, put one after the other, are the sequence of tokens. *)
LEMMA FlattenSingles ==
  ASSUME NEW S, NEW u \in Seq(S), Len(u) > 0,
         NEW s \in Seq(Seq(S)), Len(s) = Len(u), \A i \in 1..Len(u) : s[i] = <<u[i]>>
  PROVE  FlattenSeq(s) = u
<1> DEFINE n == Len(u)
           G == [i \in 1..n |-> SubSeq(u, 1, i)]
           Step(f) == [i \in 1..n |-> IF i = 1 THEN s[i] ELSE f[i - 1] \o s[i]]
           flatten == CHOOSE f : f = Step(f)
<1>1. FlattenSeq(s) = flatten[n]
  BY DEF FlattenSeq
<1>2. n \in Nat /\ n > 0
  OBVIOUS
<1>3. SubSeq(u, 1, 1) = <<u[1]>>
  <2>1. u[1] \in S
    BY <1>2
  <2>2. SubSeq(u, 1, 1) = SubSeq(u, 1, 0) \o <<u[1]>>
    BY <1>2, SubSeqRecursiveSecond
  <2>3. SubSeq(u, 1, 0) = <<>>
    BY SubSeqEmpty
  <2>4. <<>> \o <<u[1]>> = <<u[1]>>
    <3>1. <<u[1]>> \in Seq(S)
      BY <2>1
    <3> QED BY <3>1, ConcatEmptySeq
  <2> QED BY <2>2, <2>3, <2>4, Zenon
<1>4. \A i \in 2..n : SubSeq(u, 1, i) = SubSeq(u, 1, i - 1) \o s[i]
  <2> TAKE i \in 2..n
  <2>1. SubSeq(u, 1, i) = SubSeq(u, 1, i - 1) \o <<u[i]>>
    <3>1. 1 \in 1..Len(u) /\ i \in 1..Len(u)
      BY <1>2
    <3> QED BY <3>1, SubSeqRecursiveSecond
  <2>2. s[i] = <<u[i]>>
    BY <1>2
  <2> QED BY <2>1, <2>2, Zenon
<1>5. G = Step(G)
  <2>1. ASSUME NEW i \in 1..n 
        PROVE SubSeq(u, 1, i) = IF i = 1 THEN s[i] ELSE G[i - 1] \o s[i]
    <3>1. CASE i = 1
      BY <1>2, <1>3, <3>1
    <3>2. CASE i # 1
      <4>1. i \in 2..n /\ i - 1 \in 1..n
        BY <1>2, <3>2
      <4>2. G[i - 1] = SubSeq(u, 1, i - 1)
        BY <4>1, Zenon
      <4> QED BY <1>4, <3>2, <4>1, <4>2, Zenon
    <3> QED BY <3>1, <3>2
  <2> HIDE DEF n
  <2> QED BY <2>1, Zenon
<1>6. flatten = Step(flatten)
  <2> HIDE DEF Step, G, n
  <2> QED BY <1>5, Zenon
<1>7. \A i \in 1..n : flatten[i] = IF i = 1 THEN s[i] ELSE flatten[i - 1] \o s[i]
  <2> HIDE DEF flatten, n, G
  <2> QED BY <1>6
<1>8. Agree(flatten, G, 1..n)
  <2>1. 1 \in 1..n /\ G[1] = SubSeq(u, 1, 1)
    BY <1>2
  <2>2. flatten[1] = s[1] /\ s[1] = <<u[1]>>
    <3> HIDE DEF flatten, G
    <3> QED BY <1>7, <2>1
  <2>3. flatten[1] = G[1]
    BY <1>3, <2>1, <2>2, Zenon
  <2>4. \A i \in 2..n : flatten[i] = flatten[i - 1] \o s[i]
    <3> TAKE i \in 2..n
    <3>1. i \in 1..n /\ i # 1
      BY <1>2
    <3> HIDE DEF flatten, n, G
    <3> QED BY <1>7, <3>1, Zenon
  <2>5. \A i \in 2..n : G[i] = G[i - 1] \o s[i]
    <3> TAKE i \in 2..n
    <3>1. i \in 1..n /\ i - 1 \in 1..n
      BY <1>2
    <3>2. G[i] = SubSeq(u, 1, i) /\ G[i - 1] = SubSeq(u, 1, i - 1)
      BY <3>1, Zenon
    <3> QED BY <1>4, <3>2, Zenon
  <2>6. Onwards(flatten, G, 1, n)
    <3>1. \A i \in 1..n : i # 1 => i \in 2..n
      BY <1>2
    <3> HIDE DEF flatten, n, G
    <3> QED BY <3>1, <2>4, <2>5, Zenon DEF Onwards
  <2> HIDE DEF flatten, n, G
  <2> QED BY <1>2, <2>3, <2>6, AgreeStepByStep
<1>9. G[n] = u
  <2>1. n \in 1..n
    BY <1>2
  <2>2. G[n] = SubSeq(u, 1, n)
    BY <2>1, Zenon
  <2> QED BY <2>2, SubSeqFull, Zenon
<1> QED
  <2> HIDE DEF flatten, n, G
  <2> QED BY <1>1, <1>2, <1>8, <1>9 DEF Agree

-----------------------------------------------------------------------------
(* No referrer holds a comma: each is one part. *)
CommaFree == \A item \in Items : item = <<item[1]>>

Tokens == {Source, PeerRef} \cup {item[1] : item \in Items}
Token(i) == Codes[i][1]

(* The codes, one token each: the two leading ones, then no token that is  *)
(* empty, reserved or a peer-ref-* marker.                                 *)
TokenCodes ==
  /\ Codes \in Seq(Seq(Tokens)) /\ Len(Codes) \in Nat /\ Len(Codes) >= 2
  /\ \A i \in 1..Len(Codes) : Token(i) \in Tokens /\ Codes[i] = <<Token(i)>>
  /\ Token(1) = Source /\ Token(2) = PeerRef
  /\ \A i \in 3..Len(Codes) : ~Competing(<<Token(i)>>)

LEMMA CodesAreTokens == ASSUME CommaFree, IInv PROVE TokenCodes
<1> DEFINE codes == <<<<Source>>, <<PeerRef>>>> \o extras
<1>1. extras \in Seq(Items) /\ Clean
  BY DEF IInv, TypeOK
<1>2. /\ Len(codes) \in Nat /\ Len(codes) = Len(extras) + 2
      /\ codes[1] = <<Source>> /\ codes[2] = <<PeerRef>>
  BY <1>1
<1>3. \A i \in 3..Len(codes) : i - 2 \in 1..Len(extras) /\ codes[i] = extras[i - 2]
  BY <1>1, <1>2
<1>4. \A i \in 3..Len(codes) : codes[i] \in Items /\ ~Competing(codes[i])
  BY <1>1, <1>3 DEF Clean
<1>5. \A i \in 1..Len(codes) : i = 1 \/ i = 2 \/ i \in 3..Len(codes)
  BY <1>2
<1>6. /\ \A i \in 1..Len(codes) : codes[i] = <<codes[i][1]>> /\ codes[i][1] \in Tokens
      /\ codes[1][1] = Source /\ codes[2][1] = PeerRef
  <2>1. \A i \in 3..Len(codes) : codes[i] = <<codes[i][1]>> /\ codes[i][1] \in Tokens
    <3> HIDE DEF codes
    <3> QED BY <1>4 DEF CommaFree, Tokens
  <2>2. <<Source>>[1] = Source /\ <<PeerRef>>[1] = PeerRef
    OBVIOUS
  <2>3. Source \in Tokens /\ PeerRef \in Tokens
    BY DEF Tokens
  <2> HIDE DEF codes
  <2> QED BY <1>2, <1>5, <2>1, <2>2, <2>3
<1>7. codes \in Seq(Seq(Tokens))
  <2>1. \A w \in Tokens : <<w>> \in Seq(Tokens)
    OBVIOUS
  <2>2. Items \subseteq Seq(Tokens) /\ <<Source>> \in Seq(Tokens) /\ <<PeerRef>> \in Seq(Tokens)
    BY <2>1 DEF CommaFree, Tokens
  <2>3. extras \in Seq(Seq(Tokens)) /\ <<<<Source>>, <<PeerRef>>>> \in Seq(Seq(Tokens))
    BY <1>1, <2>2
  <2> QED BY <2>3
<1>8. codes = Codes
  BY DEF Codes
<1> HIDE DEF codes
<1> QED BY <1>2, <1>4, <1>6, <1>7, <1>8 DEF TokenCodes, Token

(* One-token codes, none of them empty, come back as they went out. *)
LEMMA TokensComeBack ==
  ASSUME CommaFree, IInv
  PROVE  /\ Len(ParseErc8021) = Len(Codes)
         /\ \A i \in 1..Len(Codes) : ParseErc8021[i] = Token(i)
<1> DEFINE n == Len(Codes)
           u == [i \in 1..n |-> Token(i)]
           pieces == [i \in 1..n |-> <<Token(i)>>]
<1>1. TokenCodes
  BY CodesAreTokens
<1>2. /\ u \in Seq(Tokens) /\ Len(u) = n /\ Len(u) > 0
      /\ \A i \in 1..n : u[i] = Token(i)
  BY <1>1 DEF TokenCodes
<1>3. Joined = u
  <2>1. \A i \in 1..Len(u) : Codes[i] = <<u[i]>>
    BY <1>1, <1>2 DEF TokenCodes
  <2> HIDE DEF u
  <2> QED BY <1>1, <1>2, <2>1, FlattenSingles DEF TokenCodes, Joined
<1>4. \A i \in 1..n : Token(i) # Nothing
  <2>1. Source # Nothing /\ PeerRef # Nothing
    BY Zenon DEF Source, PeerRef, Nothing
  <2>2. \A i \in 3..n : Token(i) # Nothing
    BY <1>1 DEF TokenCodes, Competing, Empty
  <2> QED BY <1>1, <2>1, <2>2 DEF TokenCodes
<1>5. ParseErc8021 = FlattenSeq(pieces)
  <2>1. [i \in 1..Len(Joined) |->
           IF Joined[i] = Nothing THEN <<>> ELSE <<Joined[i]>>] = pieces
    BY <1>2, <1>3, <1>4
  <2> QED BY <2>1 DEF ParseErc8021
<1>6. ParseErc8021 = u
  <2>1. /\ pieces \in Seq(Seq(Tokens)) /\ Len(pieces) = Len(u)
        /\ \A i \in 1..Len(u) : pieces[i] = <<u[i]>>
    BY <1>1, <1>2 DEF TokenCodes
  <2> HIDE DEF u, pieces
  <2> QED BY <1>2, <1>5, <2>1, FlattenSingles
<1> QED
  <2> HIDE DEF u
  <2> QED BY <1>2, <1>6

(* For any referrers without a comma: a decoder of the codes finds one     *)
(* peer-ref-* marker, the product's, right after the source, and no        *)
(* reserved name.                                                          *)
THEOREM OneMarkerIsDecoded == ASSUME CommaFree PROVE Spec => []OneMarkerOnTheWire
<1>1. Init => IInv
  BY InitClean
<1>2. IInv /\ [Next]_vars => IInv'
  BY LookKeepsClean
<1>3. IInv => OneMarkerOnTheWire
  <2> SUFFICES ASSUME IInv PROVE OneMarkerOnTheWire
    OBVIOUS
  <2> DEFINE n == Len(Codes)
  <2>1. TokenCodes
    BY CodesAreTokens
  <2>2. Len(ParseErc8021) = n /\ \A i \in 1..n : ParseErc8021[i] = Token(i)
    BY TokensComeBack
  <2>3. ~Marker(Source) /\ Marker(PeerRef)
    BY NamesAssumption DEF Marker, Lower
  <2>4. Source \notin Reserved /\ PeerRef \notin Reserved
    BY DEF Source, PeerRef, Reserved
  <2>5. ASSUME NEW w, ~Competing(<<w>>) PROVE ~Marker(w) /\ w \notin Reserved
    <3>1. Lower(<<w>>) = <<Lower(<<w>>)[1]>>
      BY DEF Lower
    <3>2. ~Marker(w)
      BY <2>5, <3>1 DEF Competing, StartsWith, Marker
    <3>3. ASSUME w \in Reserved PROVE Lower(<<w>>) = <<w>>
      BY <3>3, NamesAssumption DEF Lower
    <3> QED BY <2>5, <3>2, <3>3 DEF Competing
  <2>6. \A i \in 3..n : ~Marker(Token(i)) /\ Token(i) \notin Reserved
    BY <2>1, <2>5 DEF TokenCodes
  <2>7. \A i \in 1..n : i = 1 \/ i = 2 \/ i \in 3..n
    BY <2>1 DEF TokenCodes
  <2>8. 1 \in 1..n /\ 2 \in 1..n /\ Token(1) = Source /\ Token(2) = PeerRef
    BY <2>1 DEF TokenCodes
  <2> HIDE DEF n
  <2>9. \A i \in 1..n : Marker(Token(i)) <=> i = 2
    BY <2>3, <2>6, <2>7, <2>8
  <2> QED BY <2>2, <2>4, <2>6, <2>7, <2>8, <2>9 DEF OneMarkerOnTheWire
<1> QED BY <1>1, <1>2, <1>3, PTL DEF Spec

(* For any referrers without a comma: every code that was locked is        *)
(* decoded again, in its place, and nothing else is.                       *)
THEOREM LockedCodesAreDecoded == ASSUME CommaFree PROVE Spec => []CodesDecodeAsLocked
<1>1. Init => IInv
  BY InitClean
<1>2. IInv /\ [Next]_vars => IInv'
  BY LookKeepsClean
<1>3. IInv => CodesDecodeAsLocked
  BY CodesAreTokens, TokensComeBack DEF TokenCodes, CodesDecodeAsLocked
<1> QED BY <1>1, <1>2, <1>3, PTL DEF Spec
=============================================================================

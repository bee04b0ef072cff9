----------------------------- MODULE ListFacts -----------------------------
(***************************************************************************)
(* What the proofs need to know of numbers and of the kernel's lists: the  *)
(* least element of a set, and what list_add and list_del do to a list     *)
(* that is modelled as a sequence.                                         *)
(***************************************************************************)
EXTENDS Integers, Sequences, SequencesExt, SequenceTheorems, FiniteSetTheorems,
        WellFoundedInduction, TLAPS

\* A set of natural numbers that is not empty has a least element.  The library
\* states this with an operator parameter; here it follows from the fact that
\* strict inclusion of finite sets is well-founded.
LEMMA LeastElement ==
  ASSUME NEW S \in SUBSET Nat, NEW n \in S
  PROVE  \E m \in S : \A k \in S : m <= k
<1> DEFINE Below(x) == {j \in S : j <= x}
           T == {Below(m) : m \in S}
<1>1. \A m \in S : IsFiniteSet(Below(m))
  <2> TAKE m \in S
  <2>1. Below(m) \in SUBSET Nat /\ m \in Nat /\ \A k \in Below(m) : k <= m
    OBVIOUS
  <2>2. QED BY <2>1, FS_BoundedSetOfNaturals
<1>2. T \subseteq FiniteSubsetsOf(Nat) /\ T # {}
  BY <1>1 DEF FiniteSubsetsOf
<1>3. PICK X \in T : \A Y \in T : ~(<<Y, X>> \in StrictSubsetOrdering(Nat))
  BY <1>2, FS_StrictSubsetOrderingWellFounded, WFMin
<1>4. PICK m \in S : X = Below(m)
  OBVIOUS
<1>5. ASSUME NEW k \in S, k < m PROVE FALSE
  <2>1. Below(k) \subseteq Below(m) /\ m \in Below(m) /\ m \notin Below(k)
    <3>1. k \in Nat /\ m \in Nat /\ k < m
      BY <1>5
    <3>2. \A j \in S : j \in Nat /\ (j <= k => j <= m)
      BY <3>1
    <3>3. m \in Below(m) /\ m \notin Below(k)
      BY <3>1
    <3>4. Below(k) \subseteq Below(m)
      BY <3>1, <3>2
    <3>5. QED BY <3>3, <3>4
  <2>2. <<Below(k), X>> \in StrictSubsetOrdering(Nat)
    BY <2>1, <1>4 DEF StrictSubsetOrdering
  <2>3. QED BY <2>2, <1>3
<1>6. QED BY <1>5

\* list_add_tail in front of position p: one element more, the others keep
\* their order.
LEMMA InsertAtFacts ==
  ASSUME NEW T, NEW l \in Seq(T), NEW t \in T, NEW p \in 1..Len(l)+1
  PROVE  /\ InsertAt(l, p, t) \in Seq(T)
         /\ Len(InsertAt(l, p, t)) = Len(l) + 1
         /\ \A i \in 1..Len(l)+1 :
              InsertAt(l, p, t)[i] = IF i < p THEN l[i] ELSE IF i = p THEN t ELSE l[i-1]
<1> DEFINE a == SubSeq(l, 1, p-1)
           b == SubSeq(l, p, Len(l))
<1>1. Len(l) \in Nat /\ p \in Int /\ \A i \in 1..Len(l) : l[i] \in T
  BY LenProperties, ElementOfSeq
<1>2. /\ a \in Seq(T) /\ Len(a) = p - 1
      /\ \A i \in 1..p-1 : a[i] = l[i]
  BY <1>1
<1>3. /\ b \in Seq(T) /\ Len(b) = Len(l) - p + 1
      /\ \A i \in 1..Len(l)-p+1 : b[i] = l[p+i-1]
  BY <1>1
<1>4. InsertAt(l, p, t) = (a \o <<t>>) \o b
  BY DEF InsertAt
<1> HIDE DEF a, b
<1> DEFINE c == a \o <<t>>
<1>5. c \in Seq(T) /\ Len(c) = p /\ \A i \in 1..p : c[i] = IF i < p THEN l[i] ELSE t
  BY <1>1, <1>2
<1> HIDE DEF c
<1>6. c \o b \in Seq(T) /\ Len(c \o b) = Len(l) + 1
  <2>1. c \o b \in Seq(T) /\ Len(c \o b) = Len(c) + Len(b)
    BY <1>3, <1>5, ConcatProperties
  <2>2. QED BY <1>1, <1>3, <1>5, <2>1
<1>7. ASSUME NEW i \in 1..Len(l)+1
      PROVE  (c \o b)[i] = IF i < p THEN l[i] ELSE IF i = p THEN t ELSE l[i-1]
  <2>1. CASE i < p
    BY <1>1, <1>3, <1>5, <2>1
  <2>2. CASE i = p
    BY <1>1, <1>3, <1>5, <2>2
  <2>3. CASE i > p
    <3>1. i - p \in 1..Len(l)-p+1
      BY <1>1, <2>3
    <3>2. (c \o b)[i] = b[i - p]
      BY <1>1, <1>3, <1>5, <2>3
    <3>3. QED BY <1>1, <1>3, <2>3, <3>1, <3>2
  <2>4. i < p \/ i = p \/ i > p
    BY <1>1
  <2>5. QED BY <2>1, <2>2, <2>3, <2>4
<1>8. QED BY <1>4, <1>6, <1>7 DEF c

\* list_del at position p: the later elements move up.
LEMMA RemoveAtFacts ==
  ASSUME NEW T, NEW l \in Seq(T), NEW p \in 1..Len(l)
  PROVE  /\ RemoveAt(l, p) \in Seq(T)
         /\ Len(RemoveAt(l, p)) = Len(l) - 1
         /\ \A i \in 1..Len(l)-1 :
              RemoveAt(l, p)[i] = IF i < p THEN l[i] ELSE l[i+1]
<1> DEFINE a == SubSeq(l, 1, p-1)
           b == SubSeq(l, p+1, Len(l))
<1>1. Len(l) \in Nat /\ p \in Int /\ \A i \in 1..Len(l) : l[i] \in T
  BY LenProperties, ElementOfSeq
<1>2. /\ a \in Seq(T) /\ Len(a) = p - 1
      /\ \A i \in 1..p-1 : a[i] = l[i]
  BY <1>1
<1>3. /\ b \in Seq(T) /\ Len(b) = Len(l) - p
      /\ \A i \in 1..Len(l)-p : b[i] = l[p+i]
  BY <1>1
<1>4. RemoveAt(l, p) = a \o b
  BY DEF RemoveAt
<1> HIDE DEF a, b
<1>5. a \o b \in Seq(T) /\ Len(a \o b) = Len(l) - 1
  <2>1. a \o b \in Seq(T) /\ Len(a \o b) = Len(a) + Len(b)
    BY <1>2, <1>3, ConcatProperties
  <2>2. QED BY <1>1, <1>2, <1>3, <2>1
<1>6. ASSUME NEW i \in 1..Len(l)-1
      PROVE  (a \o b)[i] = IF i < p THEN l[i] ELSE l[i+1]
  <2>1. CASE i < p
    BY <1>1, <1>2, <1>3, <2>1
  <2>2. CASE ~(i < p)
    <3>1. i - (p - 1) \in 1..Len(l)-p
      BY <1>1, <2>2
    <3>2. (a \o b)[i] = b[i - (p - 1)]
      BY <1>1, <1>2, <1>3, <2>2
    <3>3. QED BY <1>1, <1>3, <2>2, <3>1, <3>2
  <2>3. QED BY <2>1, <2>2
<1>7. QED BY <1>4, <1>5, <1>6

=============================================================================

-------------------------- MODULE WaitListsProofs --------------------------
(***************************************************************************)
(* Proofs about WaitLists for any tasks and priorities: the two lists of   *)
(* the futex plist fit each other, a UX task that queues up for an rwsem   *)
(* leaves nobody plain ahead whom it could have lent its tags to, a        *)
(* promised mutex is handed over.                                          *)
(***************************************************************************)
EXTENDS WaitLists, ListFacts

----------------------------------------------------------------------------
(* Facts about positions and lists.                                        *)

\* A place for a new element is in front of an old one or behind them all.
LEMMA InListOrBehind ==
  ASSUME NEW n \in Nat, NEW k \in 1..n+1
  PROVE  k <= n \/ k = n + 1
OBVIOUS

\* The first position of a set, or the one behind the list.
LEMMA FirstInFacts ==
  ASSUME NEW n \in Nat, NEW S \in SUBSET (1..n)
  PROVE  /\ FirstIn(S, n) \in 1..n+1
         /\ FirstIn(S, n) \in S \/ FirstIn(S, n) = n + 1
         /\ \A j \in 1..n : j < FirstIn(S, n) => j \notin S
<1>1. CASE S = {}
  BY <1>1 DEF FirstIn
<1>2. CASE S # {}
  <2>1. PICK m \in S : TRUE
    BY <1>2
  <2>2. S \in SUBSET Nat
    OBVIOUS
  <2>3. \E i \in S : \A j \in S : i <= j
    BY <2>1, <2>2, LeastElement
  <2> DEFINE f == CHOOSE i \in S : \A j \in S : i <= j
  <2>4. f \in S /\ \A j \in S : f <= j
    BY <2>3
  <2>5. FirstIn(S, n) = f
    BY <1>2 DEF FirstIn
  <2> HIDE DEF f
  <2>6. QED BY <2>4, <2>5
<1>3. QED BY <1>1, <1>2

\* List m is l with t as its element number p.
Inserted(m, T, l, p, t) ==
  /\ m \in Seq(T) /\ Len(m) = Len(l) + 1
  /\ \A i \in 1..Len(l)+1 : m[i] = IF i < p THEN l[i] ELSE IF i = p THEN t ELSE l[i-1]

\* InsertBefore is list_add_tail in front of a position, or at the end.
LEMMA InsertBeforeFacts ==
  ASSUME NEW T, NEW l \in Seq(T), NEW t \in T, NEW p \in 1..Len(l)+1
  PROVE  Inserted(InsertBefore(l, p, t), T, l, p, t)
<1>1. Len(l) \in Nat /\ DOMAIN l = 1..Len(l)
  BY LenProperties
<1>2. CASE p \in DOMAIN l
  <2>1. InsertBefore(l, p, t) = InsertAt(l, p, t)
    BY <1>2 DEF InsertBefore
  <2>2. /\ InsertAt(l, p, t) \in Seq(T) /\ Len(InsertAt(l, p, t)) = Len(l) + 1
        /\ \A i \in 1..Len(l)+1 :
             InsertAt(l, p, t)[i] = IF i < p THEN l[i] ELSE IF i = p THEN t ELSE l[i-1]
    BY InsertAtFacts
  <2>3. QED BY <2>1, <2>2 DEF Inserted
<1>3. CASE p \notin DOMAIN l
  <2>1. p = Len(l) + 1
    BY <1>1, <1>3
  <2>2. InsertBefore(l, p, t) = Append(l, t)
    BY <1>3 DEF InsertBefore
  <2>3. /\ Append(l, t) \in Seq(T) /\ Len(Append(l, t)) = Len(l) + 1
        /\ Append(l, t)[Len(l)+1] = t
        /\ \A i \in 1..Len(l) : Append(l, t)[i] = l[i]
    BY AppendProperties
  <2>4. QED BY <1>1, <2>1, <2>2, <2>3 DEF Inserted
<1>4. QED BY <1>2, <1>3

\* The function that Without computes exists, and it keeps only waiters of the
\* list that are not in S.
LEMMA WithoutFacts ==
  ASSUME NEW T, NEW l \in Seq(T), NEW S
  PROVE  /\ Without(l, S) \in Seq(T)
         /\ \A i \in DOMAIN Without(l, S) :
              /\ Without(l, S)[i].task \notin S
              /\ \E j \in DOMAIN l : Without(l, S)[i] = l[j]
<1> DEFINE n == Len(l)
           Step(f, i) == IF i = 0 THEN <<>>
                         ELSE IF l[i].task \in S THEN f[i - 1] ELSE Append(f[i - 1], l[i])
           Computes(f, m) == f = [i \in 0..m |-> Step(f, i)]
           rest == CHOOSE f : Computes(f, n)
<1>1. n \in Nat /\ DOMAIN l = 1..n
  BY LenProperties
<1>2. Without(l, S) = rest[n]
  BY DEF Without
<1>3. \E f : Computes(f, n)
  <2> DEFINE Missing == {m \in Nat : ~\E f : Computes(f, m)}
  <2>1. SUFFICES ASSUME Missing # {} PROVE FALSE
    BY <1>1
  <2>2. PICK m \in Missing : \A k \in Missing : m <= k
    <3>1. PICK m \in Missing : TRUE
      BY <2>1
    <3>2. Missing \in SUBSET Nat
      OBVIOUS
    <3> HIDE DEF Missing
    <3>3. QED BY <3>1, <3>2, LeastElement
  <2>3. m # 0
    <3> DEFINE z == [i \in 0..0 |-> <<>>]
    <3>1. z = [i \in 0..0 |-> Step(z, i)]
      OBVIOUS
    <3>2. Computes(z, 0)
      BY <3>1
    <3>3. QED BY <3>2
  <2>4. m - 1 \in Nat /\ m - 1 \notin Missing
    <3>1. m \in Nat
      OBVIOUS
    <3>2. ~(m <= m - 1)
      BY <3>1
    <3> HIDE DEF Missing
    <3>3. QED BY <2>2, <2>3, <3>1, <3>2
  <2>5. PICK g : Computes(g, m - 1)
    BY <2>4
  <2> DEFINE h == [i \in 0..m |-> IF i = m THEN Step(g, m) ELSE g[i]]
  <2>6. h = [i \in 0..m |-> Step(h, i)]
    <3>1. ASSUME NEW i \in 0..m PROVE h[i] = Step(h, i)
      <4>1. CASE i = 0
        BY <2>3, <2>5, <4>1
      <4>2. CASE i # 0
        <5>1. i - 1 \in 0..m /\ i - 1 # m /\ h[i - 1] = g[i - 1]
          BY <4>2
        <5>2. Step(h, i) = Step(g, i)
          BY <5>1
        <5>3. h[i] = Step(g, i)
          <6>1. CASE i = m
            BY <6>1
          <6>2. CASE i # m
            <7>1. i \in 0..m-1
              BY <6>2
            <7>2. h[i] = g[i]
              BY <2>5, <6>2, <7>1
            <7>3. g[i] = Step(g, i)
              BY <2>5, <7>1
            <7>4. QED BY <7>2, <7>3
          <6>3. QED BY <6>1, <6>2
        <5>4. QED BY <5>2, <5>3
      <4>3. QED BY <4>1, <4>2
    <3>2. QED BY <3>1
  <2>7. Computes(h, m)
    BY <2>6
  <2>8. QED BY <2>7
<1>4. Computes(rest, n)
  BY <1>3
<1> HIDE DEF rest
<1> DEFINE Good(s) == /\ s \in Seq(T)
                      /\ \A i \in DOMAIN s : /\ s[i].task \notin S
                                             /\ \E j \in DOMAIN l : s[i] = l[j]
<1>5. ASSUME NEW s, Good(s), NEW i \in DOMAIN l, l[i].task \notin S PROVE Good(Append(s, l[i]))
  <2>1. l[i] \in T /\ Len(s) \in Nat /\ DOMAIN s = 1..Len(s)
    BY <1>1, <1>5, LenProperties, ElementOfSeq
  <2> DEFINE a == Append(s, l[i])
  <2>2. /\ a \in Seq(T) /\ Len(a) = Len(s) + 1 /\ a[Len(s)+1] = l[i]
        /\ \A j \in 1..Len(s) : a[j] = s[j]
    BY <1>5, <2>1, AppendProperties
  <2> HIDE DEF a
  <2>3. DOMAIN a = 1..Len(s)+1
    BY <2>2, LenProperties
  <2>4. Good(a)
    BY <1>5, <2>1, <2>2, <2>3
  <2>5. QED BY <2>4 DEF a
<1>6. \A i \in 0..n : Good(rest[i])
  <2> DEFINE Bad == {i \in 0..n : ~Good(rest[i])}
  <2>1. SUFFICES ASSUME Bad # {} PROVE FALSE
    OBVIOUS
  <2>2. PICK m \in Bad : \A k \in Bad : m <= k
    <3>1. PICK m \in Bad : TRUE
      BY <2>1
    <3>2. Bad \in SUBSET Nat
      BY <1>1
    <3> HIDE DEF Bad
    <3>3. QED BY <3>1, <3>2, LeastElement
  <2>3. m \in 0..n /\ ~Good(rest[m]) /\ rest[m] = Step(rest, m)
    BY <1>4, <2>2
  <2>4. CASE m = 0
    <3>1. rest[m] = <<>>
      BY <2>3, <2>4
    <3>2. Good(<<>>)
      BY EmptySeq
    <3>3. QED BY <2>3, <3>1, <3>2
  <2>5. CASE m # 0
    <3>1. m - 1 \in 0..n /\ m - 1 \notin Bad /\ m \in DOMAIN l
      BY <1>1, <2>2, <2>3, <2>5
    <3>2. Good(rest[m - 1])
      BY <3>1
    <3>3. CASE l[m].task \in S
      BY <2>3, <2>5, <3>2, <3>3
    <3>4. CASE l[m].task \notin S
      <4>1. rest[m] = Append(rest[m - 1], l[m])
        BY <2>3, <2>5, <3>4
      <4> HIDE DEF Good
      <4>2. QED BY <1>5, <2>3, <3>1, <3>2, <3>4, <4>1
    <3>5. QED BY <3>3, <3>4
  <2>6. QED BY <2>4, <2>5
<1>7. Good(rest[n])
  BY <1>1, <1>6
<1>8. QED BY <1>2, <1>7

----------------------------------------------------------------------------
(* The inductive invariant.                                                *)

Waiters == [task : Tasks, type : {"R", "W"}, age : 0..2]
Places  == {"run", "spin", "mutex", "rwsem", "futex"}
Waits   == [key : Keys \union {None}, prio : 0..FairPrio, late : BOOLEAN]

\* Who is in the list of a lock waits there, and who waits for the mutex is in
\* its list.
LocksOK ==
  /\ tag \in [Tasks -> UxKinds \union {"none", "timeout"}]
  /\ at \in [Tasks -> Places]
  /\ mutex \in [owner : Tasks \union {None}, handoff : BOOLEAN, list : Seq(Tasks)]
  /\ rwsem \in [owner : Tasks \union {None, Readers}, list : Seq(Waiters)]
  /\ \A t \in Tasks : at[t] = "mutex" => \E i \in DOMAIN mutex.list : mutex.list[i] = t
  /\ \A i \in DOMAIN rwsem.list : at[rwsem.list[i].task] = "rwsem"

\* The plist has every futex waiter once.
PlistOK ==
  /\ nodes \in Seq(Tasks)
  /\ circle \in Seq(Tasks)
  /\ wait \in [Tasks -> Waits]
  /\ \A i, j \in DOMAIN nodes : nodes[i] = nodes[j] => i = j
  /\ \A t \in Tasks : at[t] = "futex" <=> \E i \in DOMAIN nodes : nodes[i] = t
  /\ PlistConsistent

WaitInv == LocksOK /\ PlistOK

\* A step of the mutex or the rwsem leaves the futex plist alone.
LEMMA PlistUntouched ==
  ASSUME PlistOK, UNCHANGED <<nodes, circle, wait>>,
         \A t \in Tasks : at'[t] = "futex" <=> at[t] = "futex"
  PROVE  PlistOK'
BY DEF PlistOK, PlistConsistent, FirstOfPrio, Prio

\* A futex wait begins or ends without the two other locks.
LEMMA LocksUntouched ==
  ASSUME LocksOK, UNCHANGED <<tag, mutex, rwsem>>, at' \in [Tasks -> Places],
         \A t \in Tasks : /\ at'[t] = "mutex" => at[t] = "mutex"
                          /\ at[t] = "rwsem" => at'[t] = "rwsem"
  PROVE  LocksOK'
<1>1. \A i \in DOMAIN rwsem.list : rwsem.list[i].task \in Tasks
  <2> TAKE i \in DOMAIN rwsem.list
  <2>1. rwsem.list \in Seq(Waiters)
    BY DEF LocksOK
  <2>2. rwsem.list[i] \in Waiters
    BY <2>1, LenProperties
  <2>3. QED BY <2>2 DEF Waiters
<1>2. QED BY <1>1 DEF LocksOK

\* Lent tags are tags.
LEMMA LendTyped ==
  ASSUME LocksOK, NEW t, NEW tos, NEW kind \in {"mutex", "rwsem"}
  PROVE  LendTo(t, tos, kind) \in [Tasks -> UxKinds \union {"none", "timeout"}]
<1>1. Twice(kind) \in UxKinds /\ kind \in UxKinds
  BY DEF Twice, UxKinds
<1>2. \A u \in Tasks : tag[u] \in UxKinds \union {"none", "timeout"}
  BY DEF LocksOK
<1>3. QED BY <1>1, <1>2 DEF LendTo

\* The place of a new mutex waiter is in the list or at its end, and behind a
\* first waiter that was promised the mutex.
LEMMA MutexPosInRange ==
  ASSUME NEW l \in Seq(Tasks), NEW handoff \in BOOLEAN
  PROVE  /\ MutexPos(l, handoff) \in 1..Len(l)+1
         /\ handoff /\ l # <<>> => MutexPos(l, handoff) # 1
<1> DEFINE S == {i \in DOMAIN l : /\ ~(handoff /\ i = 1)
                                  /\ ~IsUx(l[i]) /\ ~NotFair(l[i])}
<1>1. Len(l) \in Nat /\ DOMAIN l = 1..Len(l) /\ (l # <<>> => Len(l) # 0)
  BY LenProperties, EmptySeq
<1>2. S \in SUBSET (1..Len(l))
  BY <1>1
<1>3. MutexPos(l, handoff) = FirstIn(S, Len(l))
  BY DEF MutexPos
<1>4. handoff => 1 \notin S
  OBVIOUS
<1> HIDE DEF S
<1>5. /\ FirstIn(S, Len(l)) \in 1..Len(l)+1
      /\ FirstIn(S, Len(l)) \in S \/ FirstIn(S, Len(l)) = Len(l) + 1
  BY <1>1, <1>2, FirstInFacts
<1>6. QED BY <1>1, <1>3, <1>4, <1>5

\* The place of a new rwsem waiter: it leaves ahead only waiters that it passes
\* or joins.
LEMMA RwsemPosFacts ==
  ASSUME NEW l \in Seq(Waiters), NEW t, NEW type, NEW promised
  PROVE  /\ RwsemPos(t, type, l, promised) \in 1..Len(l)+1
         /\ \A j \in 1..Len(l) : j < RwsemPos(t, type, l, promised) =>
              Passed(t, l, promised, j) \/ Joins(t, type, l, promised, j)
<1> DEFINE S == {i \in DOMAIN l : /\ ~Passed(t, l, promised, i)
                                  /\ ~Joins(t, type, l, promised, i)}
<1>1. Len(l) \in Nat /\ DOMAIN l = 1..Len(l)
  BY LenProperties
<1>2. S \in SUBSET (1..Len(l))
  BY <1>1
<1>3. RwsemPos(t, type, l, promised) = FirstIn(S, Len(l))
  BY DEF RwsemPos
<1>4. \A j \in 1..Len(l) : j \notin S => Passed(t, l, promised, j) \/ Joins(t, type, l, promised, j)
  BY <1>1
<1> HIDE DEF S
<1>5. /\ FirstIn(S, Len(l)) \in 1..Len(l)+1
      /\ \A j \in 1..Len(l) : j < FirstIn(S, Len(l)) => j \notin S
  BY <1>1, <1>2, FirstInFacts
<1>6. QED BY <1>3, <1>4, <1>5

\* The waiter's place, with the kernel's choice for one that does not jump.
LEMMA MutexWaitPos ==
  ASSUME LocksOK, NEW t \in Tasks, MutexWait(t)
  PROVE  \E pos \in 1..Len(mutex.list)+1 :
           /\ mutex' = [mutex EXCEPT !.list = InsertBefore(@, pos, t)]
           /\ mutex.handoff /\ mutex.list # <<>> => pos # 1
<1>1. /\ mutex.list \in Seq(Tasks) /\ mutex.handoff \in BOOLEAN
      /\ Len(mutex.list) \in Nat /\ (mutex.list # <<>> => Len(mutex.list) # 0)
  BY LenProperties, EmptySeq DEF LocksOK
<1>2. /\ MutexPos(mutex.list, mutex.handoff) \in 1..Len(mutex.list)+1
      /\ mutex.handoff /\ mutex.list # <<>> => MutexPos(mutex.list, mutex.handoff) # 1
  BY <1>1, MutexPosInRange
<1>3. Len(mutex.list)+1 \in 1..Len(mutex.list)+1 /\ (mutex.list # <<>> => Len(mutex.list)+1 # 1)
  BY <1>1
<1>4. \/ mutex' = [mutex EXCEPT !.list = InsertBefore(@, MutexPos(mutex.list, mutex.handoff), t)]
      \/ mutex' = [mutex EXCEPT !.list = InsertBefore(@, Len(mutex.list)+1, t)]
  BY DEF MutexWait
<1>5. QED BY <1>2, <1>3, <1>4

----------------------------------------------------------------------------
(* The steps of the mutex and the rwsem.                                   *)

\* A new waiter has its place in the list.
LEMMA MutexWaitInv ==
  ASSUME WaitInv, NEW t \in Tasks, MutexWait(t)
  PROVE  WaitInv'
<1>1. LocksOK /\ PlistOK /\ at \in [Tasks -> Places]
  BY DEF WaitInv, LocksOK
<1>2. PICK pos \in 1..Len(mutex.list)+1 :
        mutex' = [mutex EXCEPT !.list = InsertBefore(@, pos, t)]
  BY <1>1, MutexWaitPos
<1>3. /\ at[t] \in {"run", "spin"} /\ at' = [at EXCEPT ![t] = "mutex"]
      /\ UNCHANGED <<rwsem, nodes, circle, wait>>
      /\ tag' \in [Tasks -> UxKinds \union {"none", "timeout"}]
  <2>1. \A tos : LendTo(t, tos, "mutex") \in [Tasks -> UxKinds \union {"none", "timeout"}]
    BY <1>1, LendTyped
  <2>2. QED BY <2>1 DEF MutexWait
<1> DEFINE l == mutex.list
           k == InsertBefore(l, pos, t)
<1>4. l \in Seq(Tasks) /\ Len(l) \in Nat /\ DOMAIN l = 1..Len(l) /\ pos \in 1..Len(l)+1
  BY <1>1, LenProperties DEF LocksOK
<1> HIDE DEF l
<1>5. /\ k \in Seq(Tasks) /\ Len(k) = Len(l) + 1
      /\ \A i \in 1..Len(l)+1 : k[i] = IF i < pos THEN l[i] ELSE IF i = pos THEN t ELSE l[i-1]
  <2>1. l \in Seq(Tasks) /\ pos \in 1..Len(l)+1
    BY <1>4
  <2>2. Inserted(k, Tasks, l, pos, t)
    BY <2>1, InsertBeforeFacts
  <2>3. QED BY <2>2 DEF Inserted
<1>6. mutex' \in [owner : Tasks \union {None}, handoff : BOOLEAN, list : Seq(Tasks)] /\ mutex'.list = k
  BY <1>1, <1>2, <1>5 DEF LocksOK, l
<1> HIDE DEF k
<1>7. DOMAIN k = 1..Len(l)+1
  BY <1>5, LenProperties
<1>8. ASSUME NEW u \in Tasks, at'[u] = "mutex" PROVE \E i \in DOMAIN k : k[i] = u
  <2>1. CASE u = t
    <3>1. pos \in DOMAIN k /\ k[pos] = t
      BY <1>4, <1>5, <1>7
    <3>2. QED BY <2>1, <3>1
  <2>2. CASE u # t
    <3>1. at[u] = "mutex"
      BY <1>1, <1>3, <1>8, <2>2
    <3>2. PICK i \in DOMAIN l : l[i] = u
      BY <1>1, <3>1 DEF LocksOK, l
    <3>3. CASE i < pos
      <4>1. i \in DOMAIN k /\ k[i] = u
        BY <1>4, <1>5, <1>7, <3>2, <3>3
      <4>2. QED BY <4>1
    <3>4. CASE ~(i < pos)
      <4>1. i + 1 \in DOMAIN k /\ k[i+1] = u
        BY <1>4, <1>5, <1>7, <3>2, <3>4
      <4>2. QED BY <4>1
    <3>5. QED BY <3>3, <3>4
  <2>3. QED BY <2>1, <2>2
<1>9. \A i \in DOMAIN rwsem.list : at'[rwsem.list[i].task] = "rwsem"
  BY <1>1, <1>3 DEF LocksOK
<1>10. LocksOK'
  BY <1>1, <1>3, <1>6, <1>8, <1>9 DEF LocksOK, Places
<1>11. PlistOK'
  BY <1>1, <1>3, PlistUntouched
<1>12. QED BY <1>10, <1>11 DEF WaitInv

\* The first waiter leaves the list with the lock.
LEMMA MutexTakeInv ==
  ASSUME WaitInv, NEW t \in Tasks, MutexTake(t)
  PROVE  WaitInv'
<1>1. LocksOK /\ PlistOK /\ at \in [Tasks -> Places]
  BY DEF WaitInv, LocksOK
<1>2. /\ at[t] \in {"run", "spin", "mutex"} /\ at' = [at EXCEPT ![t] = "run"]
      /\ at[t] = "mutex" => mutex.list[1] = t
      /\ mutex' = [owner |-> t, handoff |-> mutex.handoff /\ at[t] # "mutex",
                   list |-> IF at[t] = "mutex" THEN Tail(mutex.list) ELSE mutex.list]
      /\ UNCHANGED <<tag, rwsem, nodes, circle, wait>>
  BY DEF MutexTake
<1> DEFINE l == mutex.list
           k == mutex'.list
<1>3. l \in Seq(Tasks) /\ Len(l) \in Nat /\ DOMAIN l = 1..Len(l)
  BY <1>1, LenProperties DEF LocksOK
<1>4. CASE at[t] # "mutex"
  <2>1. k = l /\ mutex' \in [owner : Tasks \union {None}, handoff : BOOLEAN, list : Seq(Tasks)]
    BY <1>2, <1>3, <1>4
  <2>2. \A u \in Tasks : /\ at'[u] = "mutex" => at[u] = "mutex"
                         /\ at[u] = "rwsem" => at'[u] = "rwsem"
    BY <1>1, <1>2, <1>4
  <2>3. \A i \in DOMAIN rwsem.list : at'[rwsem.list[i].task] = "rwsem"
    BY <1>1, <1>2, <1>4 DEF LocksOK
  <2>4. LocksOK'
    <3>1. at' \in [Tasks -> Places]
      BY <1>1, <1>2 DEF Places
    <3>2. UNCHANGED <<tag, rwsem>>
      BY <1>2
    <3>3. \A u \in Tasks : at'[u] = "mutex" => \E i \in DOMAIN mutex'.list : mutex'.list[i] = u
      BY <1>1, <2>1, <2>2 DEF LocksOK
    <3>4. QED BY <1>1, <2>1, <2>3, <3>1, <3>2, <3>3 DEF LocksOK
  <2>5. PlistOK'
    BY <1>1, <1>2, PlistUntouched
  <2>6. QED BY <2>4, <2>5 DEF WaitInv
<1>5. CASE at[t] = "mutex"
  <2>1. k = Tail(l) /\ l # <<>>
    BY <1>1, <1>2, <1>3, <1>5 DEF LocksOK
  <2>2. /\ Tail(l) \in Seq(Tasks) /\ Len(Tail(l)) = Len(l) - 1
        /\ \A i \in 1..Len(l)-1 : Tail(l)[i] = l[i+1]
    BY <1>3, <2>1, HeadTailProperties
  <2>3. DOMAIN k = 1..Len(l)-1
    BY <2>1, <2>2, LenProperties
  <2>4. mutex' \in [owner : Tasks \union {None}, handoff : BOOLEAN, list : Seq(Tasks)]
    BY <1>2, <1>5, <2>2
  <2> HIDE DEF k
  <2>5. ASSUME NEW u \in Tasks, at'[u] = "mutex" PROVE \E i \in DOMAIN k : k[i] = u
    <3>1. u # t /\ at[u] = "mutex"
      BY <1>1, <1>2, <2>5
    <3>2. PICK i \in DOMAIN l : l[i] = u
      BY <1>1, <3>1 DEF LocksOK
    <3>3. i # 1
      BY <1>2, <1>5, <3>1, <3>2
    <3>4. i - 1 \in DOMAIN k /\ k[i-1] = u
      BY <1>3, <2>1, <2>2, <2>3, <3>2, <3>3
    <3>5. QED BY <3>4
  <2>6. \A i \in DOMAIN rwsem.list : at'[rwsem.list[i].task] = "rwsem"
    BY <1>1, <1>2, <1>5 DEF LocksOK
  <2>7. LocksOK'
    <3>1. at' \in [Tasks -> Places]
      BY <1>1, <1>2 DEF Places
    <3>2. UNCHANGED <<tag, rwsem>>
      BY <1>2
    <3>3. \A u \in Tasks : at'[u] = "mutex" => \E i \in DOMAIN mutex'.list : mutex'.list[i] = u
      BY <2>5 DEF k
    <3>4. QED BY <1>1, <2>4, <2>6, <3>1, <3>2, <3>3 DEF LocksOK
  <2>8. PlistOK'
    BY <1>1, <1>2, PlistUntouched
  <2>9. QED BY <2>7, <2>8 DEF WaitInv
<1>6. QED BY <1>4, <1>5

\* Spinning, promising and unlocking change no list.
LEMMA MutexRestInv ==
  ASSUME WaitInv, MutexHandoff \/ \E t \in Tasks : Spin(t) \/ MutexUnlock(t)
  PROVE  WaitInv'
<1>1. LocksOK /\ PlistOK /\ at \in [Tasks -> Places]
  BY DEF WaitInv, LocksOK
<1>2. /\ UNCHANGED <<rwsem, nodes, circle, wait>>
      /\ \A u \in Tasks : at'[u] # at[u] => at[u] = "run" /\ at'[u] = "spin"
      /\ at' \in [Tasks -> Places]
  BY <1>1 DEF MutexHandoff, Spin, MutexUnlock, Places
<1>3. /\ mutex' \in [owner : Tasks \union {None}, handoff : BOOLEAN, list : Seq(Tasks)]
      /\ mutex'.list = mutex.list
  <2>1. mutex \in [owner : Tasks \union {None}, handoff : BOOLEAN, list : Seq(Tasks)]
    BY <1>1 DEF LocksOK
  <2>2. \/ mutex' = [mutex EXCEPT !.handoff = TRUE]
        \/ mutex' = [mutex EXCEPT !.owner = None]
        \/ mutex' = mutex
    BY DEF MutexHandoff, Spin, MutexUnlock
  <2>3. QED BY <2>1, <2>2
<1>4. tag' \in [Tasks -> UxKinds \union {"none", "timeout"}]
  <2>1. tag \in [Tasks -> UxKinds \union {"none", "timeout"}]
    BY <1>1 DEF LocksOK
  <2>2. ASSUME NEW t \in Tasks, MutexUnlock(t)
        PROVE  tag' \in [Tasks -> UxKinds \union {"none", "timeout"}]
    BY <2>1, <2>2 DEF MutexUnlock
  <2>3. QED BY <2>1, <2>2 DEF MutexHandoff, Spin
<1>5. \A i \in DOMAIN rwsem.list : at'[rwsem.list[i].task] = "rwsem"
  <2>1. \A i \in DOMAIN rwsem.list : rwsem.list[i].task \in Tasks
    <3>1. rwsem.list \in Seq(Waiters)
      BY <1>1 DEF LocksOK
    <3>2. \A i \in DOMAIN rwsem.list : rwsem.list[i] \in Waiters
      BY <3>1, LenProperties
    <3>3. QED BY <3>2 DEF Waiters
  <2>2. QED BY <1>1, <1>2, <2>1 DEF LocksOK
<1>6. LocksOK'
  BY <1>1, <1>2, <1>3, <1>4, <1>5 DEF LocksOK
<1>7. PlistOK'
  <2>1. \A u \in Tasks : at'[u] = "futex" <=> at[u] = "futex"
    BY <1>2
  <2>2. QED BY <1>1, <1>2, <2>1, PlistUntouched
<1>8. QED BY <1>6, <1>7 DEF WaitInv

\* A new rwsem waiter has its place in the list.
LEMMA RwsemWaitPos ==
  ASSUME LocksOK, NEW t \in Tasks, NEW type \in {"R", "W"}, RwsemWait(t, type)
  PROVE  \E pos \in 1..Len(rwsem.list)+1 :
           /\ rwsem' = [rwsem EXCEPT !.list = InsertBefore(@, pos, Waiter(t, type))]
           /\ rwsem.list # <<>> /\ IsUx(t) =>
                pos = RwsemPos(t, type, rwsem.list, rwsem.list # <<>> /\ rwsem.list[1].age > 0)
<1> DEFINE l == rwsem.list
           promised == l # <<>> /\ l[1].age > 0
           pos == IF l # <<>> /\ IsUx(t) THEN RwsemPos(t, type, l, promised) ELSE Len(l) + 1
<1>1. l \in Seq(Waiters) /\ Len(l) \in Nat
  BY LenProperties DEF LocksOK
<1>2. RwsemPos(t, type, l, promised) \in 1..Len(l)+1
  BY <1>1, RwsemPosFacts
<1>3. pos \in 1..Len(l)+1
  BY <1>1, <1>2
<1>4. rwsem' = [rwsem EXCEPT !.list = InsertBefore(@, pos, Waiter(t, type))]
  BY DEF RwsemWait
<1>5. l # <<>> /\ IsUx(t) => pos = RwsemPos(t, type, l, promised)
  OBVIOUS
<1> HIDE DEF pos, promised
<1>6. QED BY <1>3, <1>4, <1>5 DEF promised

\* The list has the new waiter once, between those before and behind its place.
LEMMA RwsemWaitList ==
  ASSUME LocksOK, NEW t \in Tasks, NEW type \in {"R", "W"}, NEW pos \in 1..Len(rwsem.list)+1,
         rwsem' = [rwsem EXCEPT !.list = InsertBefore(@, pos, Waiter(t, type))]
  PROVE  /\ rwsem' \in [owner : Tasks \union {None, Readers}, list : Seq(Waiters)]
         /\ DOMAIN rwsem'.list = 1..Len(rwsem.list)+1
         /\ \A i \in 1..Len(rwsem.list)+1 :
              rwsem'.list[i] = IF i < pos THEN rwsem.list[i]
                               ELSE IF i = pos THEN Waiter(t, type) ELSE rwsem.list[i-1]
<1> DEFINE l == rwsem.list
           k == InsertBefore(l, pos, Waiter(t, type))
<1>1. l \in Seq(Waiters) /\ Len(l) \in Nat
  BY LenProperties DEF LocksOK
<1>2. Waiter(t, type) \in Waiters
  BY DEF Waiter, Waiters
<1>3. /\ k \in Seq(Waiters) /\ Len(k) = Len(l) + 1
      /\ \A i \in 1..Len(l)+1 :
           k[i] = IF i < pos THEN l[i] ELSE IF i = pos THEN Waiter(t, type) ELSE l[i-1]
  <2>1. Inserted(k, Waiters, l, pos, Waiter(t, type))
    BY <1>1, <1>2, InsertBeforeFacts
  <2>2. QED BY <2>1 DEF Inserted
<1> HIDE DEF k
<1>4. DOMAIN k = 1..Len(l)+1
  BY <1>3, LenProperties
<1>5. rwsem' \in [owner : Tasks \union {None, Readers}, list : Seq(Waiters)] /\ rwsem'.list = k
  BY <1>3 DEF LocksOK, k
<1>6. QED BY <1>3, <1>4, <1>5

\* Waiting keeps the list true to who waits.
LEMMA RwsemWaitInv ==
  ASSUME WaitInv, NEW t \in Tasks, NEW type \in {"R", "W"}, RwsemWait(t, type)
  PROVE  WaitInv'
<1>1. LocksOK /\ PlistOK /\ at \in [Tasks -> Places]
  BY DEF WaitInv, LocksOK
<1>2. PICK pos \in 1..Len(rwsem.list)+1 :
        rwsem' = [rwsem EXCEPT !.list = InsertBefore(@, pos, Waiter(t, type))]
  BY <1>1, RwsemWaitPos
<1>3. /\ at[t] = "run" /\ at' = [at EXCEPT ![t] = "rwsem"]
      /\ UNCHANGED <<mutex, nodes, circle, wait>>
      /\ tag' \in [Tasks -> UxKinds \union {"none", "timeout"}]
  <2>1. \A tos : LendTo(t, tos, "rwsem") \in [Tasks -> UxKinds \union {"none", "timeout"}]
    BY <1>1, LendTyped
  <2>2. QED BY <2>1 DEF RwsemWait
<1> DEFINE l == rwsem.list
           k == rwsem'.list
<1>4. /\ rwsem' \in [owner : Tasks \union {None, Readers}, list : Seq(Waiters)]
      /\ DOMAIN k = 1..Len(l)+1
      /\ \A i \in 1..Len(l)+1 :
           k[i] = IF i < pos THEN l[i] ELSE IF i = pos THEN Waiter(t, type) ELSE l[i-1]
  BY <1>1, <1>2, RwsemWaitList
<1>5. Len(l) \in Nat /\ DOMAIN l = 1..Len(l) /\ \A i \in DOMAIN l : l[i] \in Waiters
  BY <1>1, LenProperties DEF LocksOK
<1> HIDE DEF k
<1>6. ASSUME NEW i \in DOMAIN k PROVE at'[k[i].task] = "rwsem"
  <2>1. \A j \in DOMAIN l : at'[l[j].task] = "rwsem"
    BY <1>1, <1>3, <1>5 DEF LocksOK, Waiters
  <2>2. CASE i = pos
    <3>1. k[i].task = t
      BY <1>4, <2>2 DEF Waiter
    <3>2. QED BY <1>1, <1>3, <3>1
  <2>3. CASE i < pos
    <3>1. i \in DOMAIN l /\ k[i] = l[i]
      BY <1>4, <1>5, <2>3
    <3>2. QED BY <2>1, <3>1
  <2>4. CASE i > pos
    <3>1. i - 1 \in DOMAIN l /\ k[i] = l[i-1]
      BY <1>4, <1>5, <2>4
    <3>2. QED BY <2>1, <3>1
  <2>5. QED BY <1>4, <1>5, <2>2, <2>3, <2>4
<1>7. \A u \in Tasks : at'[u] = "mutex" => at[u] = "mutex"
  BY <1>1, <1>3
<1>8. LocksOK'
  BY <1>1, <1>3, <1>4, <1>6, <1>7 DEF LocksOK, Places, k
<1>9. PlistOK'
  BY <1>1, <1>3, PlistUntouched
<1>10. QED BY <1>8, <1>9 DEF WaitInv

\* Those who are granted the rwsem leave the list, and no one else.
LEMMA RwsemGrantInv ==
  ASSUME WaitInv, RwsemGrant
  PROVE  WaitInv'
<1>1. LocksOK /\ PlistOK /\ at \in [Tasks -> Places]
  BY DEF WaitInv, LocksOK
<1> DEFINE l == rwsem.list
           w == l[1]
           gets == IF w.type = "W" THEN {w.task}
                   ELSE {l[i].task : i \in {i \in DOMAIN l : l[i].type = "R"}}
           k == Without(l, gets)
<1>2. /\ l # <<>>
      /\ rwsem' = [owner |-> IF w.type = "W" THEN w.task ELSE Readers, list |-> k]
      /\ at' = [t \in Tasks |-> IF t \in gets THEN "run" ELSE at[t]]
      /\ UNCHANGED <<tag, mutex, nodes, circle, wait>>
  BY DEF RwsemGrant
<1>3. l \in Seq(Waiters) /\ Len(l) \in Nat /\ DOMAIN l = 1..Len(l) /\ Len(l) # 0
  BY <1>1, <1>2, LenProperties, EmptySeq DEF LocksOK
<1>4. \A i \in DOMAIN l : l[i] \in Waiters /\ l[i].task \in Tasks
  <2>1. \A i \in DOMAIN l : l[i] \in Waiters
    BY <1>3, LenProperties
  <2>2. QED BY <2>1 DEF Waiters
<1>5. 1 \in DOMAIN l
  BY <1>3
<1>6. \A t \in gets : t \in Tasks /\ at[t] = "rwsem"
  <2>1. \A i \in DOMAIN l : at[l[i].task] = "rwsem"
    BY <1>1 DEF LocksOK
  <2>2. \A t \in gets : \E i \in DOMAIN l : t = l[i].task
    BY <1>5
  <2>3. QED BY <1>4, <2>1, <2>2
<1>7. w.task \in Tasks
  BY <1>4, <1>5
<1> HIDE DEF gets, w
<1>8. /\ k \in Seq(Waiters)
      /\ \A i \in DOMAIN k : k[i].task \notin gets /\ \E j \in DOMAIN l : k[i] = l[j]
  <2>1. /\ Without(l, gets) \in Seq(Waiters)
        /\ \A i \in DOMAIN Without(l, gets) :
             /\ Without(l, gets)[i].task \notin gets
             /\ \E j \in DOMAIN l : Without(l, gets)[i] = l[j]
    <3> HIDE DEF l
    <3>1. QED BY <1>3, WithoutFacts
  <2>2. QED BY <2>1
<1> HIDE DEF k
<1>9. rwsem' \in [owner : Tasks \union {None, Readers}, list : Seq(Waiters)] /\ rwsem'.list = k
  BY <1>2, <1>7, <1>8
<1>10. /\ at' \in [Tasks -> Places]
       /\ \A t \in Tasks : /\ at'[t] = "mutex" => at[t] = "mutex"
                           /\ at'[t] = "futex" <=> at[t] = "futex"
                           /\ t \notin gets => at'[t] = at[t]
  BY <1>1, <1>2, <1>6 DEF Places
<1>11. ASSUME NEW i \in DOMAIN k PROVE at'[k[i].task] = "rwsem"
  <2>1. PICK j \in DOMAIN l : k[i] = l[j]
    BY <1>8
  <2>2. l[j].task \in Tasks /\ at[l[j].task] = "rwsem"
    BY <1>1, <1>4 DEF LocksOK
  <2>3. l[j].task \notin gets
    BY <1>8, <2>1
  <2>4. QED BY <1>10, <2>1, <2>2, <2>3
<1>12. LocksOK'
  BY <1>1, <1>2, <1>9, <1>10, <1>11 DEF LocksOK
<1>13. PlistOK'
  BY <1>1, <1>2, <1>10, PlistUntouched
<1>14. QED BY <1>12, <1>13 DEF WaitInv

\* A waiter's age does not move it.
LEMMA RwsemAgeInv ==
  ASSUME WaitInv, NEW i, RwsemAge(i)
  PROVE  WaitInv'
<1>1. LocksOK /\ PlistOK
  BY DEF WaitInv
<1> DEFINE l == rwsem.list
           v == [l[i] EXCEPT !.age = @ + 1]
           k == [l EXCEPT ![i] = v]
<1>2. /\ i \in DOMAIN l /\ l[i].age < 2
      /\ rwsem' = [rwsem EXCEPT !.list = k]
      /\ UNCHANGED <<tag, at, mutex, nodes, circle, wait>>
  BY DEF RwsemAge
<1>3. l \in Seq(Waiters) /\ DOMAIN l = 1..Len(l)
  BY <1>1, LenProperties DEF LocksOK
<1>4. l[i] \in Waiters
  BY <1>2, <1>3, LenProperties
<1>5. v \in Waiters /\ v.task = l[i].task
  BY <1>2, <1>4 DEF Waiters
<1> HIDE DEF v
<1>6. k \in Seq(Waiters)
  BY <1>2, <1>3, <1>5, ExceptSeq
<1>7. DOMAIN k = DOMAIN l /\ \A j \in DOMAIN l : k[j].task = l[j].task
  BY <1>5
<1> HIDE DEF k
<1>8. rwsem' \in [owner : Tasks \union {None, Readers}, list : Seq(Waiters)] /\ rwsem'.list = k
  BY <1>1, <1>2, <1>6 DEF LocksOK
<1>9. LocksOK'
  BY <1>1, <1>2, <1>7, <1>8 DEF LocksOK
<1>10. PlistOK'
  BY <1>1, <1>2, PlistUntouched
<1>11. QED BY <1>9, <1>10 DEF WaitInv

\* Taking a free rwsem, releasing it, and tags that change change no list.
LEMMA RwsemRestInv ==
  ASSUME WaitInv,
         \/ RwsemRelease
         \/ \E t \in Tasks : \/ \E type \in {"R", "W"} : RwsemTake(t, type)
                             \/ \E k \in OtherKinds \union {"none"} : TagsChange(t, k)
  PROVE  WaitInv'
<1>1. LocksOK /\ PlistOK
  BY DEF WaitInv
<1>2. UNCHANGED <<at, mutex, nodes, circle, wait>>
  BY DEF RwsemRelease, RwsemTake, TagsChange
<1>3. /\ rwsem' \in [owner : Tasks \union {None, Readers}, list : Seq(Waiters)]
      /\ rwsem'.list = rwsem.list
  <2>1. rwsem \in [owner : Tasks \union {None, Readers}, list : Seq(Waiters)]
    BY <1>1 DEF LocksOK
  <2>2. rwsem' = rwsem \/ \E o \in Tasks \union {None, Readers} : rwsem' = [rwsem EXCEPT !.owner = o]
    BY DEF RwsemRelease, RwsemTake, TagsChange
  <2>3. QED BY <2>1, <2>2
<1>4. tag' \in [Tasks -> UxKinds \union {"none", "timeout"}]
  <2>1. tag \in [Tasks -> UxKinds \union {"none", "timeout"}]
    BY <1>1 DEF LocksOK
  <2>2. CASE RwsemRelease
    BY <2>1, <2>2 DEF RwsemRelease
  <2>3. CASE \E t \in Tasks, type \in {"R", "W"} : RwsemTake(t, type)
    BY <2>1, <2>3 DEF RwsemTake
  <2>4. CASE \E t \in Tasks, k \in OtherKinds \union {"none"} : TagsChange(t, k)
    BY <2>1, <2>4, KindsAssumption DEF TagsChange
  <2>5. QED BY <2>2, <2>3, <2>4
<1>5. LocksOK'
  BY <1>1, <1>2, <1>3, <1>4 DEF LocksOK
<1>6. PlistOK'
  BY <1>1, <1>2, PlistUntouched
<1>7. QED BY <1>5, <1>6 DEF WaitInv

----------------------------------------------------------------------------
(* The plist as two lists and a priority of each task.                     *)

First(n, pr, i) == \A j \in 1..i - 1 : pr[n[j]] # pr[n[i]]

Sorted(n, pr)    == \A i, j \in DOMAIN n : i < j => pr[n[i]] <= pr[n[j]]
Ascending(c, pr) == \A i, j \in DOMAIN c : i < j => pr[c[i]] < pr[c[j]]
Leads(n, c, pr)  == \A i \in DOMAIN c : \E j \in DOMAIN n : n[j] = c[i] /\ First(n, pr, j)
Covers(n, c, pr) == \A j \in DOMAIN n : \E i \in DOMAIN c : pr[c[i]] = pr[n[j]]

Fits(n, c, pr) == Sorted(n, pr) /\ Ascending(c, pr) /\ Leads(n, c, pr) /\ Covers(n, c, pr)
Once(n)        == \A i, j \in DOMAIN n : n[i] = n[j] => i = j

Priorities == [t \in Tasks |-> wait[t].prio]

\* The elements of a list are tasks, and their priorities numbers.
LEMMA PrioritiesTyped ==
  ASSUME NEW n \in Seq(Tasks), NEW pr \in [Tasks -> Int]
  PROVE  /\ Len(n) \in Nat /\ DOMAIN n = 1..Len(n)
         /\ \A j \in DOMAIN n : n[j] \in Tasks /\ pr[n[j]] \in Int
         /\ \A j \in 1..Len(n) : n[j] \in Tasks /\ pr[n[j]] \in Int
<1>1. Len(n) \in Nat /\ DOMAIN n = 1..Len(n)
  BY LenProperties
<1>2. \A j \in 1..Len(n) : n[j] \in Tasks
  BY <1>1, ElementOfSeq
<1>3. QED BY <1>1, <1>2

\* The same, spelled out for waits that have a priority.
Spelled(n, c, w) ==
  /\ \A i, j \in DOMAIN n : i < j => w[n[i]].prio <= w[n[j]].prio
  /\ \A i, j \in DOMAIN c : i < j => w[c[i]].prio < w[c[j]].prio
  /\ \A i \in DOMAIN c : \E j \in DOMAIN n :
       n[j] = c[i] /\ \A x \in 1..j - 1 : w[n[x]].prio # w[n[j]].prio
  /\ \A j \in DOMAIN n : \E i \in DOMAIN c : w[c[i]].prio = w[n[j]].prio

\* The two say the same.
LEMMA FitsSpelled ==
  ASSUME NEW n \in Seq(Tasks), NEW c \in Seq(Tasks), NEW w, NEW pr,
         \A t \in Tasks : pr[t] = w[t].prio
  PROVE  Fits(n, c, pr) <=> Spelled(n, c, w)
<1>1. /\ \A i \in DOMAIN n : n[i] \in Tasks
      /\ \A i \in DOMAIN c : c[i] \in Tasks
      /\ Len(n) \in Nat /\ DOMAIN n = 1..Len(n)
  BY LenProperties
<1>2. /\ \A i \in DOMAIN n : pr[n[i]] = w[n[i]].prio
      /\ \A i \in DOMAIN c : pr[c[i]] = w[c[i]].prio
  BY <1>1
<1>3. \A i \in DOMAIN n :
        First(n, pr, i) <=> \A x \in 1..i - 1 : w[n[x]].prio # w[n[i]].prio
  <2> TAKE i \in DOMAIN n
  <2>1. \A x \in 1..i - 1 : x \in DOMAIN n
    BY <1>1
  <2>2. QED BY <1>2, <2>1 DEF First
<1>4. Sorted(n, pr) <=> \A i, j \in DOMAIN n : i < j => w[n[i]].prio <= w[n[j]].prio
  BY <1>2 DEF Sorted
<1>5. Ascending(c, pr) <=> \A i, j \in DOMAIN c : i < j => w[c[i]].prio < w[c[j]].prio
  BY <1>2 DEF Ascending
<1>6. Leads(n, c, pr) <=>
        \A i \in DOMAIN c : \E j \in DOMAIN n :
          n[j] = c[i] /\ \A x \in 1..j - 1 : w[n[x]].prio # w[n[j]].prio
  BY <1>3 DEF Leads
<1>7. Covers(n, c, pr) <=>
        \A j \in DOMAIN n : \E i \in DOMAIN c : w[c[i]].prio = w[n[j]].prio
  BY <1>2 DEF Covers
<1>8. QED BY <1>4, <1>5, <1>6, <1>7 DEF Fits, Spelled

\* The property is Fits of the plist, before and after a step.
LEMMA FitsMeans ==
  /\ nodes \in Seq(Tasks) /\ circle \in Seq(Tasks) =>
       (PlistConsistent <=> Fits(nodes, circle, Priorities))
  /\ nodes' \in Seq(Tasks) /\ circle' \in Seq(Tasks) =>
       (PlistConsistent' <=> Fits(nodes', circle', Priorities'))
<1>1. /\ \A t \in Tasks : Priorities[t] = wait[t].prio
      /\ \A t \in Tasks : Priorities'[t] = wait'[t].prio
  BY DEF Priorities
<1>2. /\ PlistConsistent <=> Spelled(nodes, circle, wait)
      /\ PlistConsistent' <=> Spelled(nodes', circle', wait')
  BY DEF PlistConsistent, FirstOfPrio, Prio, Spelled
<1>3. QED BY <1>1, <1>2, FitsSpelled

\* Only the priorities of listed tasks matter.
LEMMA FitsDepends ==
  ASSUME NEW n \in Seq(Tasks), NEW c \in Seq(Tasks), NEW pr, NEW qr, Fits(n, c, pr),
         \A i \in DOMAIN n : qr[n[i]] = pr[n[i]]
  PROVE  Fits(n, c, qr)
<1>1. DOMAIN n = 1..Len(n) /\ Len(n) \in Nat
  BY LenProperties
<1>2. \A i \in DOMAIN c : qr[c[i]] = pr[c[i]]
  BY DEF Fits, Leads
<1>3. \A i \in DOMAIN n : First(n, pr, i) => First(n, qr, i)
  <2> TAKE i \in DOMAIN n
  <2>1. \A j \in 1..i - 1 : j \in DOMAIN n
    BY <1>1
  <2>2. QED BY <2>1 DEF First
<1>4. Sorted(n, qr) /\ Ascending(c, qr)
  BY <1>2 DEF Fits, Sorted, Ascending
<1>5. Leads(n, c, qr) /\ Covers(n, c, qr)
  BY <1>2, <1>3 DEF Fits, Leads, Covers
<1>6. QED BY <1>4, <1>5 DEF Fits

\* The first later priority in the prio_list leads to the place in the
\* node_list: equal and earlier priorities before it, later ones behind.
LEMMA AddPlace ==
  ASSUME NEW n \in Seq(Tasks), NEW c \in Seq(Tasks), NEW pr \in [Tasks -> Int],
         Fits(n, c, pr), NEW p \in Int, NEW k \in 1..Len(c)+1,
         \A m \in 1..Len(c) : m < k => pr[c[m]] <= p,
         NEW b \in 1..Len(n)+1,
         k = Len(c) + 1 => b = Len(n) + 1,
         k <= Len(c) => p < pr[c[k]] /\ b <= Len(n) /\ n[b] = c[k] /\ First(n, pr, b)
  PROVE  /\ \A j \in 1..Len(n) : j < b => pr[n[j]] <= p
         /\ \A j \in 1..Len(n) : j >= b => p < pr[n[j]]
<1>1. /\ Len(n) \in Nat /\ DOMAIN n = 1..Len(n) /\ Len(c) \in Nat /\ DOMAIN c = 1..Len(c)
      /\ \A j \in 1..Len(n) : pr[n[j]] \in Int
      /\ \A m \in 1..Len(c) : pr[c[m]] \in Int
  BY LenProperties
<1>2. ASSUME NEW j \in 1..Len(n), j < b PROVE pr[n[j]] <= p
  <2>1. PICK m \in 1..Len(c) : pr[c[m]] = pr[n[j]]
    BY <1>1 DEF Fits, Covers
  <2>2. CASE k <= Len(c)
    <3>1. b \in 1..Len(n) /\ j \in 1..b - 1 /\ k \in 1..Len(c)
      BY <1>1, <1>2, <2>2
    <3>2. pr[n[j]] <= pr[n[b]] /\ pr[n[j]] # pr[n[b]] /\ n[b] = c[k]
      BY <1>1, <1>2, <2>2, <3>1 DEF Fits, Sorted, First
    <3>3. pr[c[m]] < pr[c[k]]
      BY <1>1, <2>1, <3>1, <3>2
    <3>4. ~(k <= m)
      <4>1. k < m => pr[c[k]] < pr[c[m]]
        BY <1>1, <3>1 DEF Fits, Ascending
      <4>2. QED BY <1>1, <3>1, <3>3, <4>1
    <3>5. QED BY <1>1, <2>1, <3>4
  <2>3. CASE k = Len(c) + 1
    BY <1>1, <2>1, <2>3
  <2>4. k <= Len(c) \/ k = Len(c) + 1
    BY <1>1, InListOrBehind
  <2>5. QED BY <2>2, <2>3, <2>4
<1>3. ASSUME NEW j \in 1..Len(n), j >= b PROVE p < pr[n[j]]
  <2>1. k <= Len(c)
    BY <1>1, <1>3
  <2>2. b \in 1..Len(n) /\ p < pr[n[b]]
    BY <1>1, <2>1
  <2>3. b < j => pr[n[b]] <= pr[n[j]]
    BY <1>1, <2>2 DEF Fits, Sorted
  <2>4. QED BY <1>1, <1>3, <2>2, <2>3
<1>4. QED BY <1>2, <1>3

\* What stands from place k on stands one further after an insertion there.
LEMMA PlaceBehind ==
  ASSUME NEW len \in Nat, NEW k \in 1..len+1, NEW m \in 1..len, m >= k
  PROVE  m + 1 \in 1..len+1 /\ ~(m + 1 < k) /\ m + 1 # k /\ (m + 1) - 1 = m
OBVIOUS

\* plist_add with an equal priority in the prio_list, or a new entry there.
LEMMA AddFits ==
  ASSUME NEW n \in Seq(Tasks), NEW c \in Seq(Tasks), NEW pr \in [Tasks -> Int],
         Fits(n, c, pr), NEW t \in Tasks, NEW p \in Int, pr[t] = p,
         NEW k \in 1..Len(c)+1, NEW b \in 1..Len(n)+1,
         \A m \in 1..Len(c) : m < k => pr[c[m]] <= p,
         \A m \in 1..Len(c) : m >= k => p < pr[c[m]],
         \A j \in 1..Len(n) : j < b => pr[n[j]] <= p,
         \A j \in 1..Len(n) : j >= b => p < pr[n[j]]
  PROVE  LET N == InsertBefore(n, b, t)
         IN  IF k > 1 /\ pr[c[k - 1]] = p THEN Fits(N, c, pr)
             ELSE Fits(N, InsertBefore(c, k, t), pr)
<1>1. /\ Len(n) \in Nat /\ DOMAIN n = 1..Len(n) /\ Len(c) \in Nat /\ DOMAIN c = 1..Len(c)
      /\ \A j \in 1..Len(n) : pr[n[j]] \in Int
      /\ \A m \in 1..Len(c) : pr[c[m]] \in Int
  BY PrioritiesTyped
<1> DEFINE N == InsertBefore(n, b, t)
           C == InsertBefore(c, k, t)
<1>2. /\ N \in Seq(Tasks) /\ Len(N) = Len(n) + 1
      /\ \A i \in 1..Len(n)+1 : N[i] = IF i < b THEN n[i] ELSE IF i = b THEN t ELSE n[i-1]
  <2>1. Inserted(N, Tasks, n, b, t)
    BY InsertBeforeFacts
  <2>2. QED BY <2>1 DEF Inserted
<1>3. /\ C \in Seq(Tasks) /\ Len(C) = Len(c) + 1
      /\ \A i \in 1..Len(c)+1 : C[i] = IF i < k THEN c[i] ELSE IF i = k THEN t ELSE c[i-1]
  <2>1. Inserted(C, Tasks, c, k, t)
    BY InsertBeforeFacts
  <2>2. QED BY <2>1 DEF Inserted
<1> HIDE DEF N, C
<1>4. DOMAIN N = 1..Len(n)+1 /\ DOMAIN C = 1..Len(c)+1
  BY <1>2, <1>3, LenProperties
<1>5. Sorted(N, pr)
  <2> SUFFICES ASSUME NEW i \in 1..Len(n)+1, NEW j \in 1..Len(n)+1, i < j
               PROVE  pr[N[i]] <= pr[N[j]]
    BY <1>4 DEF Sorted
  <2>1. \A x, y \in 1..Len(n) : x < y => pr[n[x]] <= pr[n[y]]
    BY <1>1 DEF Fits, Sorted
  <2>2. CASE j < b
    BY <1>1, <1>2, <2>1, <2>2
  <2>3. CASE j = b
    BY <1>1, <1>2, <2>3
  <2>4. CASE j > b /\ i < b
    <3>1. N[i] = n[i] /\ N[j] = n[j-1] /\ i \in 1..Len(n) /\ j - 1 \in 1..Len(n) /\ j - 1 >= b
      BY <1>1, <1>2, <2>4
    <3>2. pr[n[i]] <= p /\ p < pr[n[j-1]]
      BY <2>4, <3>1
    <3>3. QED BY <1>1, <3>1, <3>2
  <2>5. CASE i = b
    <3>1. N[i] = t /\ N[j] = n[j-1] /\ j - 1 \in 1..Len(n) /\ j - 1 >= b
      BY <1>1, <1>2, <2>5
    <3>2. p < pr[n[j-1]] /\ pr[n[j-1]] \in Int
      BY <1>1, <3>1
    <3>3. QED BY <3>1, <3>2
  <2>6. CASE i > b
    <3>1. /\ N[i] = n[i-1] /\ N[j] = n[j-1] /\ i - 1 \in 1..Len(n) /\ j - 1 \in 1..Len(n)
          /\ i - 1 < j - 1
      BY <1>1, <1>2, <2>6
    <3>2. QED BY <2>1, <3>1
  <2>7. QED BY <1>1, <2>2, <2>3, <2>4, <2>5, <2>6
<1>6. ASSUME NEW j \in 1..Len(n), First(n, pr, j)
      PROVE  \E i \in 1..Len(n)+1 : N[i] = n[j] /\ First(N, pr, i)
  <2>1. CASE j < b
    <3>1. j \in 1..Len(n)+1 /\ N[j] = n[j] /\ \A x \in 1..j-1 : N[x] = n[x]
      <4>1. \A x \in 1..Len(n)+1 : x < b => N[x] = n[x]
        BY <1>2
      <4>2. j \in 1..Len(n)+1 /\ \A x \in 1..j-1 : x \in 1..Len(n)+1 /\ x < b
        BY <1>1, <2>1
      <4>3. QED BY <2>1, <4>1, <4>2
    <3>2. First(N, pr, j)
      BY <1>6, <3>1 DEF First
    <3>3. QED BY <3>1, <3>2
  <2>2. CASE j >= b
    <3>1. j + 1 \in 1..Len(n)+1 /\ N[j+1] = n[j]
      <4>1. j + 1 \in 1..Len(n)+1 /\ ~(j + 1 < b) /\ j + 1 # b /\ (j + 1) - 1 = j
        BY <1>1, <2>2, PlaceBehind
      <4>2. N[j+1] = n[(j + 1) - 1]
        BY <1>2, <4>1
      <4>3. QED BY <4>1, <4>2
    <3>2. ASSUME NEW x \in 1..j PROVE pr[N[x]] # pr[n[j]]
      <4>1. CASE x < b
        BY <1>1, <1>2, <1>6, <2>2, <4>1 DEF First
      <4>2. CASE x = b
        <5>1. N[x] = t /\ p < pr[n[j]]
          BY <1>1, <1>2, <2>2, <4>2
        <5>2. QED BY <1>1, <5>1
      <4>3. CASE x > b
        <5>1. x - 1 \in 1..j - 1 /\ N[x] = n[x-1]
          BY <1>1, <1>2, <2>2, <4>3
        <5>2. QED BY <1>6, <5>1 DEF First
      <4>4. QED BY <1>1, <4>1, <4>2, <4>3
    <3>3. First(N, pr, j + 1)
      BY <1>1, <3>1, <3>2 DEF First
    <3>4. QED BY <3>1, <3>3
  <2>3. QED BY <1>1, <2>1, <2>2
<1>7. \A m \in 1..Len(c) : \E i \in 1..Len(n)+1 : N[i] = c[m] /\ First(N, pr, i)
  <2> TAKE m \in 1..Len(c)
  <2>1. PICK j \in 1..Len(n) : n[j] = c[m] /\ First(n, pr, j)
    BY <1>1 DEF Fits, Leads
  <2>2. QED BY <1>6, <2>1
<1>8. \A i \in 1..Len(n)+1 : i # b => \E m \in 1..Len(c) : pr[c[m]] = pr[N[i]]
  <2> TAKE i \in 1..Len(n)+1
  <2> HAVE i # b
  <2>1. PICK j \in 1..Len(n) : N[i] = n[j]
    <3>1. CASE i < b
      <4>1. i \in 1..Len(n) /\ N[i] = n[i]
        BY <1>1, <1>2, <3>1
      <4>2. QED BY <4>1
    <3>2. CASE i > b
      <4>1. i - 1 \in 1..Len(n) /\ N[i] = n[i-1]
        BY <1>1, <1>2, <3>2
      <4>2. QED BY <4>1
    <3>3. QED BY <1>1, <3>1, <3>2
  <2>2. QED BY <1>1, <2>1 DEF Fits, Covers
<1>9. N[b] = t
  BY <1>1, <1>2
<1>10. CASE k > 1 /\ pr[c[k - 1]] = p
  <2>1. k - 1 \in 1..Len(c)
    BY <1>1, <1>10
  <2>2. Covers(N, c, pr)
    BY <1>1, <1>4, <1>8, <1>9, <1>10, <2>1 DEF Covers
  <2>3. Leads(N, c, pr)
    BY <1>1, <1>4, <1>7 DEF Leads
  <2>4. Fits(N, c, pr)
    BY <1>5, <2>2, <2>3 DEF Fits
  <2>5. QED BY <1>10, <2>4 DEF N
<1>11. CASE ~(k > 1 /\ pr[c[k - 1]] = p)
  <2>1. ASSUME NEW m \in 1..Len(c) PROVE pr[c[m]] # p
    <3>1. CASE m >= k
      BY <1>1, <3>1
    <3>2. CASE m < k - 1
      <4>1. k - 1 \in 1..Len(c) /\ pr[c[m]] < pr[c[k-1]] /\ pr[c[k-1]] <= p
        <5>1. k - 1 \in 1..Len(c) /\ k - 1 < k
          BY <1>1, <3>2
        <5>2. pr[c[m]] < pr[c[k-1]]
          BY <1>1, <3>2, <5>1 DEF Fits, Ascending
        <5>3. QED BY <5>1, <5>2
      <4>2. QED BY <1>1, <4>1
    <3>3. CASE m = k - 1
      BY <1>1, <1>11, <3>3
    <3>4. m >= k \/ m < k - 1 \/ m = k - 1
      BY <1>1
    <3>5. QED BY <3>1, <3>2, <3>3, <3>4
  <2>2. First(N, pr, b)
    <3> SUFFICES ASSUME NEW j \in 1..b - 1 PROVE pr[N[j]] # p
      BY <1>9 DEF First
    <3>1. j \in 1..Len(n)+1 /\ j # b
      BY <1>1
    <3>2. PICK m \in 1..Len(c) : pr[c[m]] = pr[N[j]]
      BY <1>8, <3>1
    <3>3. QED BY <2>1, <3>2
  <2>3. Ascending(C, pr)
    <3> SUFFICES ASSUME NEW i \in 1..Len(c)+1, NEW j \in 1..Len(c)+1, i < j
                 PROVE  pr[C[i]] < pr[C[j]]
      BY <1>4 DEF Ascending
    <3>1. \A x, y \in 1..Len(c) : x < y => pr[c[x]] < pr[c[y]]
      BY <1>1 DEF Fits, Ascending
    <3>2. CASE j < k
      BY <1>1, <1>3, <3>1, <3>2
    <3>3. CASE j = k
      <4>1. i \in 1..Len(c) /\ C[i] = c[i] /\ C[j] = t /\ pr[c[i]] <= p
        BY <1>1, <1>3, <3>3
      <4>2. QED BY <1>1, <2>1, <4>1
    <3>4. CASE j > k /\ i < k
      <4>1. C[i] = c[i] /\ C[j] = c[j-1] /\ i \in 1..Len(c) /\ j - 1 \in 1..Len(c) /\ j - 1 >= k
        BY <1>1, <1>3, <3>4
      <4>2. pr[c[i]] <= p /\ p < pr[c[j-1]]
        BY <3>4, <4>1
      <4>3. QED BY <1>1, <4>1, <4>2
    <3>5. CASE i = k
      <4>1. C[i] = t /\ C[j] = c[j-1] /\ j - 1 \in 1..Len(c) /\ j - 1 >= k
        BY <1>1, <1>3, <3>5
      <4>2. QED BY <4>1
    <3>6. CASE i > k
      <4>1. /\ C[i] = c[i-1] /\ C[j] = c[j-1] /\ i - 1 \in 1..Len(c) /\ j - 1 \in 1..Len(c)
            /\ i - 1 < j - 1
        BY <1>1, <1>3, <3>6
      <4>2. QED BY <3>1, <4>1
    <3>7. QED BY <1>1, <3>2, <3>3, <3>4, <3>5, <3>6
  <2>4. Leads(N, C, pr)
    <3> SUFFICES ASSUME NEW i \in 1..Len(c)+1
                 PROVE  \E j \in 1..Len(n)+1 : N[j] = C[i] /\ First(N, pr, j)
      BY <1>4 DEF Leads
    <3>1. CASE i = k
      <4>1. C[i] = N[b]
        BY <1>3, <1>9, <3>1
      <4>2. QED BY <2>2, <4>1
    <3>2. CASE i < k
      <4>1. i \in 1..Len(c) /\ C[i] = c[i]
        BY <1>1, <1>3, <3>2
      <4>2. QED BY <1>7, <4>1
    <3>3. CASE i > k
      <4>1. i - 1 \in 1..Len(c) /\ C[i] = c[i-1]
        BY <1>1, <1>3, <3>3
      <4>2. QED BY <1>7, <4>1
    <3>4. QED BY <1>1, <3>1, <3>2, <3>3
  <2>5. \A m \in 1..Len(c) : \E i \in 1..Len(c)+1 : C[i] = c[m]
    <3> TAKE m \in 1..Len(c)
    <3>1. CASE m < k
      <4>1. m \in 1..Len(c)+1
        BY <1>1
      <4>2. C[m] = c[m]
        BY <1>3, <3>1, <4>1
      <4>3. QED BY <4>1, <4>2
    <3>2. CASE m >= k
      <4>1. m + 1 \in 1..Len(c)+1 /\ C[m+1] = c[m]
        <5>1. m + 1 \in 1..Len(c)+1 /\ ~(m + 1 < k) /\ m + 1 # k /\ (m + 1) - 1 = m
          BY <1>1, <3>2, PlaceBehind
        <5>2. C[m+1] = c[(m + 1) - 1]
          BY <1>3, <5>1
        <5>3. QED BY <5>1, <5>2
      <4>2. QED BY <4>1
    <3>3. QED BY <1>1, <3>1, <3>2
  <2>6. Covers(N, C, pr)
    <3> SUFFICES ASSUME NEW j \in 1..Len(n)+1
                 PROVE  \E i \in 1..Len(c)+1 : pr[C[i]] = pr[N[j]]
      BY <1>4 DEF Covers
    <3>1. CASE j = b
      <4>1. k \in 1..Len(c)+1 /\ C[k] = N[j]
        BY <1>3, <1>9, <3>1
      <4>2. QED BY <4>1
    <3>2. CASE j # b
      <4>1. PICK m \in 1..Len(c) : pr[c[m]] = pr[N[j]]
        BY <1>8, <3>2
      <4>2. PICK i \in 1..Len(c)+1 : C[i] = c[m]
        BY <2>5
      <4>3. QED BY <4>1, <4>2
    <3>3. QED BY <3>1, <3>2
  <2>7. Fits(N, C, pr)
    BY <1>5, <2>3, <2>4, <2>6 DEF Fits
  <2>8. QED BY <1>11, <2>7 DEF N, C
<1>12. QED BY <1>10, <1>11

\* The first node of each priority is in the prio_list, and only those are.
LEMMA FirstsAreListed ==
  ASSUME NEW n \in Seq(Tasks), NEW c \in Seq(Tasks), NEW pr \in [Tasks -> Int],
         Fits(n, c, pr), Once(n), NEW j \in DOMAIN n
  PROVE  First(n, pr, j) <=> \E m \in DOMAIN c : c[m] = n[j]
<1>1. Len(n) \in Nat /\ DOMAIN n = 1..Len(n)
  BY LenProperties
<1>2. ASSUME First(n, pr, j) PROVE \E m \in DOMAIN c : c[m] = n[j]
  <2>1. PICK m \in DOMAIN c : pr[c[m]] = pr[n[j]]
    BY DEF Fits, Covers
  <2>2. PICK x \in DOMAIN n : n[x] = c[m] /\ First(n, pr, x)
    BY DEF Fits, Leads
  <2>3. ~(x < j)
    <3>1. x < j => x \in 1..j - 1
      BY <1>1
    <3>2. QED BY <1>2, <2>1, <2>2, <3>1 DEF First
  <2>4. ~(j < x)
    <3>1. j < x => j \in 1..x - 1
      BY <1>1
    <3>2. QED BY <2>1, <2>2, <3>1 DEF First
  <2>5. x = j
    BY <1>1, <2>3, <2>4
  <2>6. QED BY <2>2, <2>5
<1>3. ASSUME NEW m \in DOMAIN c, c[m] = n[j] PROVE First(n, pr, j)
  BY <1>3 DEF Fits, Leads, Once
<1>4. QED BY <1>2, <1>3

\* What is left in the node_list: everything else, in order, and a node that
\* was the first of its priority still is.
LEMMA RestOfNodes ==
  ASSUME NEW n \in Seq(Tasks), NEW pr \in [Tasks -> Int], Sorted(n, pr), NEW i \in DOMAIN n
  PROVE  LET N == RemoveAt(n, i)
         IN  /\ N \in Seq(Tasks)
             /\ DOMAIN N = 1..Len(n)-1
             /\ Sorted(N, pr)
             /\ \A j \in DOMAIN n : j # i => \E x \in DOMAIN N : N[x] = n[j]
             /\ \A x \in DOMAIN N : \E j \in DOMAIN n : j # i /\ N[x] = n[j]
             /\ \A j \in DOMAIN n : j # i /\ First(n, pr, j) =>
                  \E x \in DOMAIN N : N[x] = n[j] /\ First(N, pr, x)
<1> DEFINE N == RemoveAt(n, i)
<1>1. /\ Len(n) \in Nat /\ DOMAIN n = 1..Len(n) /\ i \in 1..Len(n)
      /\ \A j \in 1..Len(n) : pr[n[j]] \in Int
  <2>1. Len(n) \in Nat /\ DOMAIN n = 1..Len(n)
    BY LenProperties
  <2>2. \A j \in 1..Len(n) : n[j] \in Tasks
    BY <2>1, ElementOfSeq
  <2>3. QED BY <2>1, <2>2
<1>2. /\ N \in Seq(Tasks) /\ Len(N) = Len(n) - 1
      /\ \A x \in 1..Len(n)-1 : N[x] = IF x < i THEN n[x] ELSE n[x+1]
  <2>1. i \in 1..Len(n)
    BY <1>1
  <2>2. QED BY <2>1, RemoveAtFacts
<1> HIDE DEF N
<1>3. DOMAIN N = 1..Len(n)-1
  BY <1>2, LenProperties
<1> DEFINE From(x) == IF x < i THEN x ELSE x + 1
<1>4. \A x \in 1..Len(n)-1 : From(x) \in 1..Len(n) /\ From(x) # i /\ N[x] = n[From(x)]
  <2> TAKE x \in 1..Len(n)-1
  <2>1. CASE x < i
    <3>1. From(x) = x /\ x \in 1..Len(n) /\ x # i
      BY <1>1, <2>1
    <3>2. QED BY <1>2, <2>1, <3>1
  <2>2. CASE ~(x < i)
    <3>1. From(x) = x + 1 /\ x + 1 \in 1..Len(n) /\ x + 1 # i
      BY <1>1, <2>2
    <3>2. QED BY <1>2, <2>2, <3>1
  <2>3. QED BY <2>1, <2>2
<1>5. \A x, y \in 1..Len(n)-1 : x < y => From(x) < From(y)
  BY <1>1
<1>6. \A j \in 1..Len(n) : j # i => \E x \in 1..Len(n)-1 : From(x) = j
  <2> TAKE j \in 1..Len(n)
  <2> HAVE j # i
  <2>1. CASE j < i
    <3>1. j \in 1..Len(n)-1 /\ From(j) = j
      BY <1>1, <2>1
    <3>2. QED BY <3>1
  <2>2. CASE j > i
    <3>1. j - 1 \in 1..Len(n)-1 /\ From(j - 1) = j
      BY <1>1, <2>2
    <3>2. QED BY <3>1
  <2>3. QED BY <1>1, <2>1, <2>2
<1> HIDE DEF From
<1>7. Sorted(N, pr)
  <2> SUFFICES ASSUME NEW x \in 1..Len(n)-1, NEW y \in 1..Len(n)-1, x < y
               PROVE  pr[N[x]] <= pr[N[y]]
    BY <1>3 DEF Sorted
  <2>1. pr[n[From(x)]] <= pr[n[From(y)]]
    BY <1>1, <1>4, <1>5 DEF Sorted
  <2>2. QED BY <1>4, <2>1
<1>8. \A j \in DOMAIN n : j # i => \E x \in DOMAIN N : N[x] = n[j]
  BY <1>1, <1>3, <1>4, <1>6
<1>9. \A x \in DOMAIN N : \E j \in DOMAIN n : j # i /\ N[x] = n[j]
  BY <1>1, <1>3, <1>4
<1>10. ASSUME NEW j \in DOMAIN n, j # i, First(n, pr, j)
       PROVE  \E x \in DOMAIN N : N[x] = n[j] /\ First(N, pr, x)
  <2>1. PICK x \in 1..Len(n)-1 : From(x) = j
    BY <1>1, <1>6, <1>10
  <2>2. ASSUME NEW y \in 1..x - 1 PROVE pr[N[y]] # pr[N[x]]
    <3>1. y \in 1..Len(n)-1 /\ y < x
      BY <1>1
    <3>2. From(y) \in 1..Len(n) /\ From(y) < j
      BY <1>4, <1>5, <2>1, <3>1
    <3>3. From(y) \in 1..j - 1
      BY <1>1, <3>2
    <3>4. pr[n[From(y)]] # pr[n[j]]
      BY <1>10, <3>3 DEF First
    <3>5. QED BY <1>4, <2>1, <3>1, <3>4
  <2>3. First(N, pr, x)
    BY <2>2 DEF First
  <2>4. QED BY <1>3, <1>4, <2>1, <2>3
<1>11. QED BY <1>2, <1>3, <1>7, <1>8, <1>9, <1>10 DEF N

\* plist_del: the prio_list loses the node, or the next node takes its place
\* there, and the lists still fit.
LEMMA DelFits ==
  ASSUME NEW n \in Seq(Tasks), NEW c \in Seq(Tasks), NEW pr \in [Tasks -> Int],
         Fits(n, c, pr), Once(n), NEW i \in DOMAIN n
  PROVE  LET N == RemoveAt(n, i)
             next == IF i < Len(n) THEN n[i + 1] ELSE n[i]
         IN  /\ (\A m \in DOMAIN c : c[m] # n[i]) => Fits(N, c, pr)
             /\ \A k \in DOMAIN c : c[k] = n[i] =>
                  IF \E m \in DOMAIN c : c[m] = next THEN Fits(N, RemoveAt(c, k), pr)
                  ELSE Fits(N, [c EXCEPT ![k] = next], pr)
<1> DEFINE N == RemoveAt(n, i)
           t == n[i]
           next == IF i < Len(n) THEN n[i + 1] ELSE t
<1>1. /\ Len(n) \in Nat /\ DOMAIN n = 1..Len(n) /\ i \in 1..Len(n)
      /\ Len(c) \in Nat /\ DOMAIN c = 1..Len(c)
      /\ \A j \in DOMAIN n : n[j] \in Tasks /\ pr[n[j]] \in Int
      /\ \A m \in DOMAIN c : c[m] \in Tasks /\ pr[c[m]] \in Int
  BY PrioritiesTyped
<1>2. /\ Sorted(n, pr) /\ Ascending(c, pr) /\ Leads(n, c, pr) /\ Covers(n, c, pr)
  BY DEF Fits
<1>3. /\ N \in Seq(Tasks)
      /\ DOMAIN N = 1..Len(n)-1
      /\ Sorted(N, pr)
      /\ \A x \in DOMAIN N : \E j \in DOMAIN n : j # i /\ N[x] = n[j]
      /\ \A j \in DOMAIN n : j # i /\ First(n, pr, j) =>
           \E x \in DOMAIN N : N[x] = n[j] /\ First(N, pr, x)
  BY <1>2, RestOfNodes
<1>4. \A x \in 1..Len(n)-1 : N[x] = IF x < i THEN n[x] ELSE n[x+1]
  BY <1>1, RemoveAtFacts
<1> HIDE DEF N
<1>5. \A j \in DOMAIN n : First(n, pr, j) <=> \E m \in DOMAIN c : c[m] = n[j]
  BY FirstsAreListed
<1>6. \A m \in DOMAIN c : c[m] # t => \E x \in DOMAIN N : N[x] = c[m] /\ First(N, pr, x)
  <2> TAKE m \in DOMAIN c
  <2> HAVE c[m] # t
  <2>1. PICK j \in DOMAIN n : n[j] = c[m] /\ First(n, pr, j)
    BY <1>2 DEF Leads
  <2>2. j # i
    BY <2>1
  <2>3. QED BY <1>3, <2>1, <2>2
<1>7. \A x \in DOMAIN N : \E m \in DOMAIN c : pr[c[m]] = pr[N[x]]
  <2> TAKE x \in DOMAIN N
  <2>1. PICK j \in DOMAIN n : N[x] = n[j]
    BY <1>3
  <2>2. QED BY <1>2, <2>1 DEF Covers
<1>8. ASSUME \A m \in DOMAIN c : c[m] # t PROVE Fits(N, c, pr)
  <2>1. Leads(N, c, pr)
    BY <1>6, <1>8 DEF Leads
  <2>2. Covers(N, c, pr)
    BY <1>7 DEF Covers
  <2>3. QED BY <1>2, <1>3, <2>1, <2>2 DEF Fits
<1>9. ASSUME NEW k \in DOMAIN c, c[k] = t
      PROVE  First(n, pr, i) /\ \A m \in DOMAIN c : m # k => c[m] # t /\ pr[c[m]] # pr[t]
  <2>1. First(n, pr, i)
    BY <1>5, <1>9
  <2>2. ASSUME NEW m \in DOMAIN c, m # k PROVE pr[c[m]] # pr[t]
    <3>1. m < k => pr[c[m]] < pr[c[k]]
      BY <1>2 DEF Ascending
    <3>2. k < m => pr[c[k]] < pr[c[m]]
      BY <1>2 DEF Ascending
    <3>3. QED BY <1>1, <1>9, <2>2, <3>1, <3>2
  <2>3. QED BY <2>1, <2>2
<1>10. ASSUME NEW k \in DOMAIN c, c[k] = t, ~\E m \in DOMAIN c : c[m] = next
       PROVE  Fits(N, [c EXCEPT ![k] = next], pr)
  <2> DEFINE C == [c EXCEPT ![k] = next]
  <2>1. i < Len(n) /\ i + 1 \in DOMAIN n /\ next = n[i + 1]
    BY <1>1, <1>10
  <2>2. pr[next] = pr[t]
    <3>1. ~First(n, pr, i + 1)
      BY <1>5, <1>10, <2>1
    <3>2. PICK j \in 1..(i + 1) - 1 : pr[n[j]] = pr[n[i + 1]]
      BY <3>1 DEF First
    <3>3. j \in DOMAIN n /\ j <= i
      BY <1>1, <2>1
    <3>4. pr[n[j]] <= pr[t] /\ pr[t] <= pr[n[i + 1]]
      <4>1. j < i => pr[n[j]] <= pr[n[i]]
        BY <1>2, <3>3 DEF Sorted
      <4>2. i < i + 1 => pr[n[i]] <= pr[n[i + 1]]
        BY <1>2, <2>1 DEF Sorted
      <4>3. j < i \/ j = i
        BY <1>1, <3>3
      <4>4. QED BY <1>1, <3>3, <4>1, <4>2, <4>3
    <3>5. QED BY <1>1, <2>1, <3>2, <3>3, <3>4
  <2> HIDE DEF next
  <2>3. DOMAIN C = DOMAIN c /\ \A m \in DOMAIN c : C[m] = IF m = k THEN next ELSE c[m]
    OBVIOUS
  <2> HIDE DEF C
  <2>4. \A m \in DOMAIN c : pr[C[m]] = pr[c[m]]
    BY <1>10, <2>2, <2>3
  <2>5. Ascending(C, pr)
    BY <1>2, <2>3, <2>4 DEF Ascending
  <2>6. Covers(N, C, pr)
    BY <1>7, <2>3, <2>4 DEF Covers
  <2>7. N[i] = next /\ First(N, pr, i) /\ i \in DOMAIN N
    <3>1. i \in 1..Len(n)-1 /\ ~(i < i)
      BY <1>1, <2>1
    <3>2. N[i] = next
      BY <1>4, <2>1, <3>1
    <3>3. ASSUME NEW x \in 1..i - 1 PROVE pr[N[x]] # pr[next]
      <4>1. x \in 1..Len(n)-1 /\ x < i
        <5>1. Len(n) \in Int /\ i \in 1..Len(n)-1
          BY <1>1, <3>1
        <5>2. QED BY <5>1
      <4>2. N[x] = n[x]
        BY <1>4, <4>1
      <4>3. pr[n[x]] # pr[n[i]]
        BY <1>9, <1>10 DEF First
      <4>4. QED BY <2>2, <4>2, <4>3
    <3>4. QED BY <1>3, <3>1, <3>2, <3>3 DEF First
  <2>8. Leads(N, C, pr)
    <3> SUFFICES ASSUME NEW m \in DOMAIN c
                 PROVE  \E x \in DOMAIN N : N[x] = C[m] /\ First(N, pr, x)
      BY <2>3 DEF Leads
    <3>1. CASE m = k
      BY <2>3, <2>7, <3>1
    <3>2. CASE m # k
      BY <1>6, <1>9, <1>10, <2>3, <3>2
    <3>3. QED BY <3>1, <3>2
  <2>9. Fits(N, C, pr)
    BY <1>3, <2>5, <2>6, <2>8 DEF Fits
  <2>10. QED BY <2>9 DEF C
<1>11. ASSUME NEW k \in DOMAIN c, c[k] = t, \E m \in DOMAIN c : c[m] = next
       PROVE  Fits(N, RemoveAt(c, k), pr)
  <2> DEFINE C == RemoveAt(c, k)
  <2>1. \A j \in DOMAIN n : j # i => pr[n[j]] # pr[t]
    <3> TAKE j \in DOMAIN n
    <3> HAVE j # i
    <3>1. CASE j < i
      <4>1. j \in 1..i - 1
        BY <1>1, <3>1
      <4>2. QED BY <1>9, <1>11, <4>1 DEF First
    <3>2. CASE j > i
      <4>1. i + 1 \in DOMAIN n /\ next = n[i + 1] /\ i \in 1..(i + 1) - 1
        BY <1>1, <3>2
      <4>2. First(n, pr, i + 1)
        BY <1>5, <1>11, <4>1
      <4>3. pr[n[i]] # pr[n[i + 1]]
        BY <4>1, <4>2 DEF First
      <4>4. pr[n[i]] <= pr[n[i + 1]]
        <5>1. i < i + 1 /\ i \in DOMAIN n
          BY <1>1
        <5>2. QED BY <1>2, <4>1, <5>1 DEF Sorted
      <4>5. pr[n[i + 1]] <= pr[n[j]]
        <5>1. i + 1 < j => pr[n[i + 1]] <= pr[n[j]]
          BY <1>2, <4>1 DEF Sorted
        <5>2. i + 1 < j \/ i + 1 = j
          BY <1>1, <3>2
        <5>3. QED BY <1>1, <4>1, <5>1, <5>2
      <4>6. QED BY <1>1, <4>1, <4>3, <4>4, <4>5
    <3>3. QED BY <1>1, <3>1, <3>2
  <2> HIDE DEF next
  <2>2. /\ Sorted(c, pr)
    <3>1. \A x, y \in DOMAIN c : x < y => pr[c[x]] < pr[c[y]]
      BY <1>2 DEF Ascending
    <3>2. QED BY <1>1, <3>1 DEF Sorted
  <2>3. /\ DOMAIN C = 1..Len(c)-1
        /\ \A m \in DOMAIN c : m # k => \E x \in DOMAIN C : C[x] = c[m]
        /\ \A x \in DOMAIN C : \E m \in DOMAIN c : m # k /\ C[x] = c[m]
    BY <2>2, RestOfNodes
  <2>4. \A x \in 1..Len(c)-1 : C[x] = IF x < k THEN c[x] ELSE c[x+1]
    <3>1. k \in 1..Len(c)
      BY <1>1
    <3>2. QED BY <3>1, RemoveAtFacts
  <2> HIDE DEF C
  <2>5. Ascending(C, pr)
    <3> SUFFICES ASSUME NEW x \in 1..Len(c)-1, NEW y \in 1..Len(c)-1, x < y
                 PROVE  pr[C[x]] < pr[C[y]]
      BY <2>3 DEF Ascending
    <3> DEFINE From(z) == IF z < k THEN z ELSE z + 1
    <3>1. From(x) \in DOMAIN c /\ C[x] = c[From(x)]
      <4>1. CASE x < k
        BY <1>1, <2>4, <4>1
      <4>2. CASE ~(x < k)
        BY <1>1, <2>4, <4>2
      <4>3. QED BY <4>1, <4>2
    <3>2. From(y) \in DOMAIN c /\ C[y] = c[From(y)]
      <4>1. CASE y < k
        BY <1>1, <2>4, <4>1
      <4>2. CASE ~(y < k)
        BY <1>1, <2>4, <4>2
      <4>3. QED BY <4>1, <4>2
    <3>3. From(x) < From(y)
      <4>1. k \in Int /\ x \in Int /\ y \in Int
        BY <1>1
      <4>2. CASE x < k
        BY <4>1, <4>2
      <4>3. CASE ~(x < k)
        BY <4>1, <4>3
      <4>4. QED BY <4>2, <4>3
    <3> HIDE DEF From
    <3>4. QED BY <1>2, <3>1, <3>2, <3>3 DEF Ascending
  <2>6. Leads(N, C, pr)
    <3> SUFFICES ASSUME NEW x \in DOMAIN C
                 PROVE  \E y \in DOMAIN N : N[y] = C[x] /\ First(N, pr, y)
      BY DEF Leads
    <3>1. PICK m \in DOMAIN c : m # k /\ C[x] = c[m]
      BY <2>3
    <3>2. c[m] # t
      BY <1>9, <1>11, <3>1
    <3>3. QED BY <1>6, <3>1, <3>2
  <2>7. Covers(N, C, pr)
    <3> SUFFICES ASSUME NEW x \in DOMAIN N PROVE \E y \in DOMAIN C : pr[C[y]] = pr[N[x]]
      BY DEF Covers
    <3>1. PICK j \in DOMAIN n : j # i /\ N[x] = n[j]
      BY <1>3
    <3>2. PICK m \in DOMAIN c : pr[c[m]] = pr[n[j]]
      BY <1>2 DEF Covers
    <3>3. m # k
      BY <1>11, <2>1, <3>1, <3>2
    <3>4. PICK y \in DOMAIN C : C[y] = c[m]
      BY <2>3, <3>3
    <3>5. QED BY <3>1, <3>2, <3>4
  <2>8. Fits(N, C, pr)
    BY <1>3, <2>5, <2>6, <2>7 DEF Fits
  <2>9. QED BY <2>8 DEF C
<1>12. QED BY <1>8, <1>10, <1>11 DEF N

----------------------------------------------------------------------------
(* The steps of the futex bucket.                                          *)

\* A task that a list has once is where Index says.
LEMMA IndexFacts ==
  ASSUME NEW l \in Seq(Tasks), Once(l), NEW i \in DOMAIN l
  PROVE  Index(l, l[i]) = i
BY DEF Index, Once

\* The prio_list's tasks are nodes of the plist.
LEMMA CircleInNodes ==
  ASSUME PlistOK, NEW m \in DOMAIN circle
  PROVE  circle[m] \in Tasks /\ \E j \in DOMAIN nodes : nodes[j] = circle[m]
BY DEF PlistOK, PlistConsistent

\* A task that is not listed may get any priority.
LEMMA OutsiderPriority ==
  ASSUME PlistOK, NEW t \in Tasks, \A i \in DOMAIN nodes : nodes[i] # t, NEW p
  PROVE  /\ Fits(nodes, circle, [Priorities EXCEPT ![t] = p])
         /\ \A m \in DOMAIN circle : [Priorities EXCEPT ![t] = p][circle[m]] = Prio(circle[m])
<1> DEFINE qr == [Priorities EXCEPT ![t] = p]
<1>1. nodes \in Seq(Tasks) /\ circle \in Seq(Tasks) /\ PlistConsistent
  BY DEF PlistOK
<1>2. \A i \in DOMAIN nodes : nodes[i] \in Tasks
  BY <1>1, LenProperties
<1>3. \A u \in Tasks : u # t => qr[u] = Priorities[u] /\ Priorities[u] = Prio(u)
  BY DEF Priorities, Prio
<1> HIDE DEF qr
<1>4. Fits(nodes, circle, Priorities)
  BY <1>1, FitsMeans
<1>5. \A i \in DOMAIN nodes : qr[nodes[i]] = Priorities[nodes[i]]
  BY <1>2, <1>3
<1>6. Fits(nodes, circle, qr)
  BY <1>1, <1>4, <1>5, FitsDepends
<1>7. \A m \in DOMAIN circle : qr[circle[m]] = Prio(circle[m])
  BY <1>3, CircleInNodes
<1>8. QED BY <1>6, <1>7 DEF qr

\* trans_plist_add keeps the lists fitting for the new waiter's priority.
LEMMA PlistAddFits ==
  ASSUME PlistOK, NEW t \in Tasks, \A i \in DOMAIN nodes : nodes[i] # t,
         NEW p \in 0..FairPrio, PlistAdd(t, p)
  PROVE  /\ Fits(nodes', circle', [Priorities EXCEPT ![t] = p])
         /\ circle' \in Seq(Tasks)
         /\ \E b \in 1..Len(nodes)+1 : nodes' = InsertBefore(nodes, b, t)
<1> DEFINE pr == [Priorities EXCEPT ![t] = p]
           k == CircleAt(p)
           b == IF k \in DOMAIN circle THEN Index(nodes, circle[k]) ELSE Len(nodes) + 1
<1>1. /\ nodes \in Seq(Tasks) /\ circle \in Seq(Tasks) /\ Once(nodes)
      /\ Len(nodes) \in Nat /\ DOMAIN nodes = 1..Len(nodes)
      /\ Len(circle) \in Nat /\ DOMAIN circle = 1..Len(circle)
      /\ \A m \in DOMAIN circle : circle[m] \in Tasks
  BY LenProperties DEF PlistOK, Once
<1>2. Fits(nodes, circle, pr) /\ \A m \in DOMAIN circle : pr[circle[m]] = Prio(circle[m])
  BY OutsiderPriority
<1>3. pr \in [Tasks -> Int] /\ pr[t] = p
  <2>1. \A u \in Tasks : wait[u].prio \in Int
    <3>1. \A u \in Tasks : wait[u] \in Waits
      BY DEF PlistOK
    <3>2. QED BY <3>1 DEF Waits, FairPrio
  <2>2. p \in Int
    BY DEF FairPrio
  <2>3. QED BY <2>1, <2>2 DEF Priorities
<1>4. /\ nodes' = InsertBefore(nodes, b, t)
      /\ circle' = IF k > 1 /\ Prio(circle[k - 1]) = p THEN circle
                   ELSE InsertBefore(circle, k, t)
  BY DEF PlistAdd
<1> HIDE DEF pr
<1>5. /\ k \in 1..Len(circle)+1
      /\ k <= Len(circle) => p < pr[circle[k]]
      /\ \A m \in 1..Len(circle) : m < k => pr[circle[m]] <= p
  <2> DEFINE S == {i \in DOMAIN circle : p < Prio(circle[i])}
  <2>1. S \in SUBSET (1..Len(circle)) /\ k = FirstIn(S, Len(circle))
    BY <1>1 DEF CircleAt
  <2>2. /\ \A m \in S : p < pr[circle[m]]
        /\ \A m \in 1..Len(circle) : m \notin S => pr[circle[m]] <= p
    <3>1. p \in Int /\ \A m \in DOMAIN circle : pr[circle[m]] \in Int
      BY <1>1, <1>3 DEF FairPrio
    <3>2. QED BY <1>1, <1>2, <3>1
  <2> HIDE DEF S, k
  <2>3. /\ k \in 1..Len(circle)+1
        /\ k \in S \/ k = Len(circle) + 1
        /\ \A m \in 1..Len(circle) : m < k => m \notin S
    BY <1>1, <2>1, FirstInFacts
  <2>4. k <= Len(circle) => k \in S
    BY <1>1, <2>3
  <2>5. QED BY <2>2, <2>3, <2>4
<1> HIDE DEF k
<1>6. /\ b \in 1..Len(nodes)+1
      /\ k = Len(circle) + 1 => b = Len(nodes) + 1
      /\ k <= Len(circle) => b <= Len(nodes) /\ nodes[b] = circle[k] /\ First(nodes, pr, b)
  <2>1. CASE k <= Len(circle)
    <3>1. k \in DOMAIN circle /\ k # Len(circle) + 1
      BY <1>1, <1>5, <2>1
    <3>2. PICK j \in DOMAIN nodes : nodes[j] = circle[k] /\ First(nodes, pr, j)
      BY <1>2, <3>1 DEF Fits, Leads
    <3>3. b = j
      BY <1>1, <3>1, <3>2, IndexFacts
    <3>4. QED BY <1>1, <2>1, <3>1, <3>2, <3>3
  <2>2. CASE k = Len(circle) + 1
    <3>1. k \notin DOMAIN circle /\ ~(k <= Len(circle))
      BY <1>1, <2>2
    <3>2. b = Len(nodes) + 1
      BY <3>1
    <3>3. QED BY <1>1, <3>1, <3>2
  <2>3. QED BY <1>1, <1>5, <2>1, <2>2, InListOrBehind
<1> HIDE DEF b
<1>7. p \in Int
  BY DEF FairPrio
<1>8. /\ \A j \in 1..Len(nodes) : j < b => pr[nodes[j]] <= p
      /\ \A j \in 1..Len(nodes) : j >= b => p < pr[nodes[j]]
  <2>1. k <= Len(circle) =>
          p < pr[circle[k]] /\ b <= Len(nodes) /\ nodes[b] = circle[k] /\ First(nodes, pr, b)
    BY <1>5, <1>6
  <2>2. nodes \in Seq(Tasks) /\ circle \in Seq(Tasks)
    BY <1>1
  <2>3. Fits(nodes, circle, pr) /\ pr \in [Tasks -> Int]
    BY <1>2, <1>3
  <2>4. \A m \in 1..Len(circle) : m < k => pr[circle[m]] <= p
    BY <1>5
  <2>5. k \in 1..Len(circle)+1 /\ b \in 1..Len(nodes)+1 /\ (k = Len(circle) + 1 => b = Len(nodes) + 1)
    BY <1>5, <1>6
  <2>6. QED BY <1>7, <2>1, <2>2, <2>3, <2>4, <2>5, AddPlace
<1>9. \A m \in 1..Len(circle) : m >= k => p < pr[circle[m]]
  <2> TAKE m \in 1..Len(circle)
  <2> HAVE m >= k
  <2>1. k \in DOMAIN circle /\ p < pr[circle[k]]
    BY <1>1, <1>5
  <2>2. k < m => pr[circle[k]] < pr[circle[m]]
    BY <1>1, <1>2, <2>1 DEF Fits, Ascending
  <2>3. pr[circle[k]] \in Int /\ pr[circle[m]] \in Int
    BY <1>1, <1>3, <2>1
  <2>4. k < m \/ k = m
    BY <1>1, <1>5
  <2>5. QED BY <1>7, <2>1, <2>2, <2>3, <2>4
<1>10. IF k > 1 /\ pr[circle[k - 1]] = p THEN Fits(InsertBefore(nodes, b, t), circle, pr)
       ELSE Fits(InsertBefore(nodes, b, t), InsertBefore(circle, k, t), pr)
  <2>1. nodes \in Seq(Tasks) /\ circle \in Seq(Tasks)
    BY <1>1
  <2>2. Fits(nodes, circle, pr) /\ pr \in [Tasks -> Int] /\ pr[t] = p
    BY <1>2, <1>3
  <2>3. \A m \in 1..Len(circle) : m < k => pr[circle[m]] <= p
    BY <1>5
  <2>4. k \in 1..Len(circle)+1 /\ b \in 1..Len(nodes)+1
    BY <1>5, <1>6
  <2>5. QED BY <1>7, <1>8, <1>9, <2>1, <2>2, <2>3, <2>4, AddFits
<1>11. k > 1 => pr[circle[k - 1]] = Prio(circle[k - 1])
  <2>1. k > 1 => k - 1 \in DOMAIN circle
    BY <1>1, <1>5
  <2>2. QED BY <1>2, <2>1
<1>12. Fits(nodes', circle', pr)
  BY <1>4, <1>10, <1>11
<1>13. circle' \in Seq(Tasks)
  <2>1. circle \in Seq(Tasks) /\ k \in 1..Len(circle)+1
    BY <1>1, <1>5
  <2>2. Inserted(InsertBefore(circle, k, t), Tasks, circle, k, t)
    BY <2>1, InsertBeforeFacts
  <2>3. QED BY <1>1, <1>4, <2>2 DEF Inserted
<1>14. QED BY <1>4, <1>6, <1>12, <1>13 DEF pr

\* A task starts to wait on the bucket, and is in its node_list once.
LEMMA FutexWaitInv ==
  ASSUME WaitInv, NEW t \in Tasks, NEW key \in Keys, FutexWait(t, key)
  PROVE  WaitInv'
<1>1. LocksOK /\ PlistOK /\ at \in [Tasks -> Places] /\ wait \in [Tasks -> Waits]
  BY DEF WaitInv, LocksOK, PlistOK
<1>2. /\ at[t] = "run" /\ at' = [at EXCEPT ![t] = "futex"]
      /\ UNCHANGED <<tag, mutex, rwsem>>
  BY DEF FutexWait
<1>3. PICK p \in 0..FairPrio :
        PlistAdd(t, p) /\ wait' = [wait EXCEPT ![t] = [key |-> key, prio |-> p, late |-> FALSE]]
  <2> DEFINE p == IF NotFair(t) THEN RtPrio[t]
                  ELSE IF IsUx(t) /\ ~FairStarves(key) THEN FairPrio - 1
                  ELSE FairPrio
  <2>1. NotFair(t) => RtPrio[t] \in 0..FairPrio - 1
    BY PrioAssumption DEF NotFair
  <2>2. p \in 0..FairPrio
    BY <2>1 DEF FairPrio
  <2>3. PlistAdd(t, p) /\ wait' = [wait EXCEPT ![t] = [key |-> key, prio |-> p, late |-> FALSE]]
    BY DEF FutexWait
  <2> HIDE DEF p
  <2>4. QED BY <2>2, <2>3
<1>4. \A i \in DOMAIN nodes : nodes[i] # t
  BY <1>1, <1>2 DEF PlistOK
<1>5. /\ Fits(nodes', circle', [Priorities EXCEPT ![t] = p])
      /\ circle' \in Seq(Tasks)
      /\ \E b \in 1..Len(nodes)+1 : nodes' = InsertBefore(nodes, b, t)
  BY <1>1, <1>3, <1>4, PlistAddFits
<1>6. PICK b \in 1..Len(nodes)+1 : nodes' = InsertBefore(nodes, b, t)
  BY <1>5
<1> DEFINE n == nodes
           N == InsertBefore(n, b, t)
<1>7. /\ n \in Seq(Tasks) /\ Len(n) \in Nat /\ DOMAIN n = 1..Len(n) /\ Once(n)
      /\ b \in 1..Len(n)+1 /\ nodes' = N
  BY <1>1, <1>6, LenProperties DEF PlistOK, Once
<1> HIDE DEF n
<1>8. /\ N \in Seq(Tasks) /\ Len(N) = Len(n) + 1
      /\ \A i \in 1..Len(n)+1 : N[i] = IF i < b THEN n[i] ELSE IF i = b THEN t ELSE n[i-1]
  <2>1. n \in Seq(Tasks) /\ b \in 1..Len(n)+1
    BY <1>7
  <2>2. Inserted(N, Tasks, n, b, t)
    BY <2>1, InsertBeforeFacts
  <2>3. QED BY <2>2 DEF Inserted
<1> HIDE DEF N
<1>9. DOMAIN N = 1..Len(n)+1
  BY <1>8, LenProperties
<1>10. wait' \in [Tasks -> Waits] /\ Priorities' = [Priorities EXCEPT ![t] = p]
  <2>1. [key |-> key, prio |-> p, late |-> FALSE] \in Waits
    BY DEF Waits
  <2>2. wait' \in [Tasks -> Waits]
    BY <1>1, <1>3, <2>1
  <2>3. \A u \in Tasks : wait'[u].prio = IF u = t THEN p ELSE wait[u].prio
    BY <1>1, <1>3
  <2>4. QED BY <2>2, <2>3 DEF Priorities
<1>11. PlistConsistent'
  BY <1>5, <1>7, <1>8, <1>10, FitsMeans
<1>12. ASSUME NEW i \in DOMAIN N, NEW j \in DOMAIN N, N[i] = N[j] PROVE i = j
  <2>1. \A x \in DOMAIN N : x # b => N[x] # t
    <3> TAKE x \in DOMAIN N
    <3>1. x < b => x \in DOMAIN n /\ N[x] = n[x]
      BY <1>7, <1>8, <1>9
    <3>2. x > b => x - 1 \in DOMAIN n /\ N[x] = n[x-1]
      BY <1>7, <1>8, <1>9
    <3>3. QED BY <1>4, <1>7, <1>9, <3>1, <3>2 DEF n
  <2>2. CASE i = b \/ j = b
    <3>1. N[b] = t
      BY <1>7, <1>8
    <3>2. QED BY <1>12, <2>1, <2>2, <3>1
  <2>3. CASE i # b /\ j # b
    <3> DEFINE From(x) == IF x < b THEN x ELSE x - 1
    <3>1. From(i) \in DOMAIN n /\ N[i] = n[From(i)]
      BY <1>7, <1>8, <1>9, <2>3
    <3>2. From(j) \in DOMAIN n /\ N[j] = n[From(j)]
      BY <1>7, <1>8, <1>9, <2>3
    <3>3. From(i) = From(j) => i = j
      BY <1>7, <1>9, <2>3
    <3> HIDE DEF From
    <3>4. QED BY <1>7, <1>12, <3>1, <3>2, <3>3 DEF Once
  <2>4. QED BY <2>2, <2>3
<1>13. ASSUME NEW u \in Tasks PROVE at'[u] = "futex" <=> \E i \in DOMAIN N : N[i] = u
  <2>1. CASE u = t
    <3>1. b \in DOMAIN N /\ N[b] = t
      BY <1>7, <1>8, <1>9
    <3>2. QED BY <1>1, <1>2, <2>1, <3>1
  <2>2. CASE u # t
    <3>1. at'[u] = "futex" <=> \E i \in DOMAIN n : n[i] = u
      BY <1>1, <1>2, <2>2 DEF PlistOK, n
    <3>2. ASSUME NEW i \in DOMAIN n PROVE \E x \in DOMAIN N : N[x] = n[i]
      <4>1. CASE i < b
        <5>1. i \in DOMAIN N /\ N[i] = n[i]
          BY <1>7, <1>8, <1>9, <4>1
        <5>2. QED BY <5>1
      <4>2. CASE ~(i < b)
        <5>1. i + 1 \in DOMAIN N /\ N[i+1] = n[i]
          BY <1>7, <1>8, <1>9, <4>2
        <5>2. QED BY <5>1
      <4>3. QED BY <4>1, <4>2
    <3>3. ASSUME NEW x \in DOMAIN N, N[x] = u PROVE \E i \in DOMAIN n : n[i] = u
      <4>1. x # b
        BY <1>7, <1>8, <2>2, <3>3
      <4>2. CASE x < b
        <5>1. x \in DOMAIN n /\ N[x] = n[x]
          BY <1>7, <1>8, <1>9, <4>2
        <5>2. QED BY <3>3, <5>1
      <4>3. CASE x > b
        <5>1. x - 1 \in DOMAIN n /\ N[x] = n[x-1]
          BY <1>7, <1>8, <1>9, <4>3
        <5>2. QED BY <3>3, <5>1
      <4>4. QED BY <1>7, <1>9, <4>1, <4>2, <4>3
    <3>4. QED BY <3>1, <3>2, <3>3
  <2>3. QED BY <2>1, <2>2
<1>14. PlistOK'
  BY <1>5, <1>7, <1>8, <1>10, <1>11, <1>12, <1>13 DEF PlistOK
<1>15. LocksOK'
  BY <1>1, <1>2, LocksUntouched DEF Places
<1>16. QED BY <1>14, <1>15 DEF WaitInv

\* plist_del leaves two lists that fit.
LEMMA PlistDelFits ==
  ASSUME PlistOK, NEW i \in DOMAIN nodes, PlistDel(nodes[i])
  PROVE  /\ nodes' = RemoveAt(nodes, i)
         /\ Fits(nodes', circle', Priorities)
         /\ circle' \in Seq(Tasks)
<1> DEFINE t == nodes[i]
           next == IF i < Len(nodes) THEN nodes[i + 1] ELSE t
<1>1. /\ nodes \in Seq(Tasks) /\ circle \in Seq(Tasks) /\ Once(nodes)
      /\ Len(nodes) \in Nat /\ DOMAIN nodes = 1..Len(nodes)
      /\ Len(circle) \in Nat /\ DOMAIN circle = 1..Len(circle)
      /\ t \in Tasks
  BY LenProperties DEF PlistOK, Once
<1>2. next \in Tasks
  <2>1. i < Len(nodes) => i + 1 \in DOMAIN nodes
    BY <1>1
  <2>2. QED BY <1>1, <2>1
<1>3. Index(nodes, t) = i
  BY <1>1, IndexFacts
<1>4. /\ nodes' = RemoveAt(nodes, i)
      /\ circle' = IF ~Contains(circle, t) THEN circle
                   ELSE IF Contains(circle, next) THEN RemoveAt(circle, Index(circle, t))
                   ELSE [circle EXCEPT ![Index(circle, t)] = next]
  BY <1>3 DEF PlistDel
<1>5. Priorities \in [Tasks -> Int] /\ Fits(nodes, circle, Priorities)
  <2>1. \A u \in Tasks : wait[u] \in Waits
    BY DEF PlistOK
  <2>2. \A u \in Tasks : wait[u].prio \in Int
    BY <2>1 DEF Waits, FairPrio
  <2>3. Fits(nodes, circle, Priorities)
    BY <1>1, FitsMeans DEF PlistOK
  <2>4. QED BY <2>2, <2>3 DEF Priorities
<1>6. /\ (\A m \in DOMAIN circle : circle[m] # t) => Fits(RemoveAt(nodes, i), circle, Priorities)
      /\ \A k \in DOMAIN circle : circle[k] = t =>
           IF \E m \in DOMAIN circle : circle[m] = next
           THEN Fits(RemoveAt(nodes, i), RemoveAt(circle, k), Priorities)
           ELSE Fits(RemoveAt(nodes, i), [circle EXCEPT ![k] = next], Priorities)
  BY <1>1, <1>5, DelFits
<1>7. \A u : Contains(circle, u) <=> \E m \in DOMAIN circle : circle[m] = u
  BY <1>1 DEF Contains
<1> HIDE DEF next, t
<1>8. CASE ~Contains(circle, t)
  BY <1>1, <1>4, <1>6, <1>7, <1>8
<1>9. CASE Contains(circle, t)
  <2> DEFINE k == Index(circle, t)
  <2>1. k \in DOMAIN circle /\ circle[k] = t
    BY <1>7, <1>9 DEF Index
  <2> HIDE DEF k
  <2>2. CASE Contains(circle, next)
    <3>1. circle' = RemoveAt(circle, k)
      BY <1>4, <1>9, <2>2 DEF k
    <3>2. RemoveAt(circle, k) \in Seq(Tasks)
      BY <1>1, <2>1, RemoveAtFacts
    <3>3. QED BY <1>4, <1>6, <1>7, <2>1, <2>2, <3>1, <3>2
  <2>3. CASE ~Contains(circle, next)
    <3>1. circle' = [circle EXCEPT ![k] = next]
      BY <1>4, <1>9, <2>3 DEF k
    <3>2. [circle EXCEPT ![k] = next] \in Seq(Tasks)
      BY <1>1, <1>2, <2>1, ExceptSeq
    <3>3. QED BY <1>4, <1>6, <1>7, <2>1, <2>3, <3>1, <3>2
  <2>4. QED BY <2>2, <2>3
<1>10. QED BY <1>8, <1>9

\* A task that leaves the bucket is in no list of it any more.
LEMMA FutexLeaveInv ==
  ASSUME WaitInv, NEW t \in Tasks, FutexLeave(t)
  PROVE  WaitInv'
<1>1. LocksOK /\ PlistOK /\ at \in [Tasks -> Places] /\ wait \in [Tasks -> Waits]
  BY DEF WaitInv, LocksOK, PlistOK
<1>2. /\ at[t] = "futex" /\ at' = [at EXCEPT ![t] = "run"]
      /\ wait' = [wait EXCEPT ![t] = [key |-> None, prio |-> FairPrio, late |-> FALSE]]
      /\ UNCHANGED <<tag, mutex, rwsem>>
      /\ PlistDel(t)
  BY DEF FutexLeave
<1>3. PICK i \in DOMAIN nodes : nodes[i] = t
  BY <1>1, <1>2 DEF PlistOK
<1>4. nodes' = RemoveAt(nodes, i) /\ Fits(nodes', circle', Priorities) /\ circle' \in Seq(Tasks)
  BY <1>1, <1>2, <1>3, PlistDelFits
<1> DEFINE n == nodes
           N == RemoveAt(n, i)
<1>5. /\ n \in Seq(Tasks) /\ Len(n) \in Nat /\ DOMAIN n = 1..Len(n) /\ Once(n)
      /\ i \in 1..Len(n) /\ n[i] = t /\ nodes' = N
  BY <1>1, <1>3, <1>4, LenProperties DEF PlistOK, Once
<1> HIDE DEF n
<1>6. /\ N \in Seq(Tasks) /\ Len(N) = Len(n) - 1
      /\ \A x \in 1..Len(n)-1 : N[x] = IF x < i THEN n[x] ELSE n[x+1]
  <2>1. n \in Seq(Tasks) /\ i \in 1..Len(n)
    BY <1>5
  <2>2. QED BY <2>1, RemoveAtFacts
<1> HIDE DEF N
<1>7. DOMAIN N = 1..Len(n)-1
  BY <1>6, LenProperties
<1> DEFINE From(x) == IF x < i THEN x ELSE x + 1
<1>8. ASSUME NEW x \in DOMAIN N PROVE From(x) \in DOMAIN n /\ From(x) # i /\ N[x] = n[From(x)]
  <2>1. CASE x < i
    BY <1>5, <1>6, <1>7, <2>1
  <2>2. CASE ~(x < i)
    BY <1>5, <1>6, <1>7, <2>2
  <2>3. QED BY <2>1, <2>2
<1>9. ASSUME NEW x \in DOMAIN N, NEW y \in DOMAIN N, From(x) = From(y) PROVE x = y
  BY <1>5, <1>7, <1>9
<1>10. ASSUME NEW j \in DOMAIN n, j # i PROVE \E x \in DOMAIN N : N[x] = n[j]
  <2>1. CASE j < i
    <3>1. j \in DOMAIN N /\ N[j] = n[j]
      BY <1>5, <1>6, <1>7, <2>1
    <3>2. QED BY <3>1
  <2>2. CASE j > i
    <3>1. j - 1 \in DOMAIN N /\ From(j - 1) = j
      BY <1>5, <1>7, <2>2
    <3>2. N[j-1] = n[j]
      BY <1>8, <3>1
    <3>3. QED BY <3>1, <3>2
  <2>3. QED BY <1>5, <1>10, <2>1, <2>2
<1> HIDE DEF From
<1>11. ASSUME NEW x \in DOMAIN N PROVE N[x] # t
  BY <1>5, <1>8 DEF Once
<1>12. ASSUME NEW x \in DOMAIN N, NEW y \in DOMAIN N, N[x] = N[y] PROVE x = y
  BY <1>5, <1>8, <1>9, <1>12 DEF Once
<1>13. ASSUME NEW u \in Tasks PROVE at'[u] = "futex" <=> \E x \in DOMAIN N : N[x] = u
  <2>1. CASE u = t
    BY <1>1, <1>2, <1>11, <2>1
  <2>2. CASE u # t
    <3>1. at'[u] = "futex" <=> \E j \in DOMAIN n : n[j] = u
      BY <1>1, <1>2, <2>2 DEF PlistOK, n
    <3>2. ASSUME NEW j \in DOMAIN n, n[j] = u PROVE \E x \in DOMAIN N : N[x] = u
      BY <1>5, <1>10, <2>2, <3>2
    <3>3. ASSUME NEW x \in DOMAIN N, N[x] = u PROVE \E j \in DOMAIN n : n[j] = u
      BY <1>8, <3>3
    <3>4. QED BY <3>1, <3>2, <3>3
  <2>3. QED BY <2>1, <2>2
<1>14. wait' \in [Tasks -> Waits] /\ \A u \in Tasks : u # t => Priorities'[u] = Priorities[u]
  <2>1. [key |-> None, prio |-> FairPrio, late |-> FALSE] \in Waits
    BY DEF Waits, FairPrio
  <2>2. QED BY <1>1, <1>2, <2>1 DEF Priorities
<1>15. PlistConsistent'
  <2>1. \A x \in DOMAIN N : Priorities'[N[x]] = Priorities[N[x]]
    <3>1. \A x \in DOMAIN N : N[x] \in Tasks
      BY <1>6
    <3>2. QED BY <1>11, <1>14, <3>1
  <2>2. Fits(N, circle', Priorities')
    <3>1. Fits(N, circle', Priorities)
      BY <1>4, <1>5
    <3>2. N \in Seq(Tasks) /\ circle' \in Seq(Tasks)
      BY <1>4, <1>6
    <3>3. QED BY <2>1, <3>1, <3>2, FitsDepends
  <2>3. QED BY <1>4, <1>5, <1>6, <2>2, FitsMeans
<1>16. PlistOK'
  BY <1>4, <1>5, <1>6, <1>12, <1>13, <1>14, <1>15 DEF PlistOK
<1>17. LocksOK'
  BY <1>1, <1>2, LocksUntouched DEF Places
<1>18. QED BY <1>16, <1>17 DEF WaitInv

\* A late waiter keeps its place.
LEMMA FutexLateInv ==
  ASSUME WaitInv, NEW t \in Tasks, FutexLate(t)
  PROVE  WaitInv'
<1>1. /\ LocksOK /\ PlistOK /\ wait \in [Tasks -> Waits] /\ PlistConsistent
      /\ nodes \in Seq(Tasks) /\ circle \in Seq(Tasks) /\ at \in [Tasks -> Places]
  BY DEF WaitInv, PlistOK, LocksOK
<1>2. /\ UNCHANGED <<tag, at, mutex, rwsem, nodes, circle>>
      /\ wait' = [wait EXCEPT ![t].late = TRUE]
  BY DEF FutexLate
<1>3. wait' \in [Tasks -> Waits] /\ \A u \in Tasks : wait'[u].prio = wait[u].prio
  BY <1>1, <1>2 DEF Waits
<1>4. Priorities' = Priorities
  BY <1>3 DEF Priorities
<1>5. PlistConsistent'
  BY <1>1, <1>2, <1>4, FitsMeans
<1>6. PlistOK'
  BY <1>1, <1>2, <1>3, <1>5 DEF PlistOK
<1>7. LocksOK'
  BY <1>1, <1>2, LocksUntouched
<1>8. QED BY <1>6, <1>7 DEF WaitInv

----------------------------------------------------------------------------
(* The theorems.                                                           *)

\* Nobody waits at first.
LEMMA InitInv == Init => WaitInv
<1> SUFFICES ASSUME Init PROVE WaitInv
  OBVIOUS
<1>1. LocksOK
  BY EmptySeq DEF Init, LocksOK, Places, Waiters
<1>2. PlistOK
  BY EmptySeq DEF Init, PlistOK, PlistConsistent, Waits, FairPrio
<1>3. QED BY <1>1, <1>2 DEF WaitInv

\* Every step keeps the lists true to who waits where.
LEMMA NextInv == WaitInv /\ [Next]_vars => WaitInv'
<1> SUFFICES ASSUME WaitInv, [Next]_vars PROVE WaitInv'
  OBVIOUS
<1>1. CASE \E t \in Tasks : MutexWait(t)
  BY <1>1, MutexWaitInv
<1>2. CASE \E t \in Tasks : MutexTake(t)
  BY <1>2, MutexTakeInv
<1>3. CASE MutexHandoff \/ \E t \in Tasks : Spin(t) \/ MutexUnlock(t)
  BY <1>3, MutexRestInv
<1>4. CASE \E t \in Tasks, type \in {"R", "W"} : RwsemWait(t, type)
  BY <1>4, RwsemWaitInv
<1>5. CASE RwsemGrant
  BY <1>5, RwsemGrantInv
<1>6. CASE \E i : RwsemAge(i)
  BY <1>6, RwsemAgeInv
<1>7. CASE \/ RwsemRelease
           \/ \E t \in Tasks : \/ \E type \in {"R", "W"} : RwsemTake(t, type)
                               \/ \E k \in OtherKinds \union {"none"} : TagsChange(t, k)
  BY <1>7, RwsemRestInv
<1>8. CASE \E t \in Tasks : \E k \in Keys : FutexWait(t, k)
  BY <1>8, FutexWaitInv
<1>9. CASE \E t \in Tasks : FutexLeave(t)
  BY <1>9, FutexLeaveInv
<1>10. CASE \E t \in Tasks : FutexLate(t)
  BY <1>10, FutexLateInv
<1>11. CASE UNCHANGED vars
  BY <1>11 DEF vars, WaitInv, LocksOK, PlistOK, PlistConsistent, FirstOfPrio, Prio
<1>12. QED
  BY <1>1, <1>2, <1>3, <1>4, <1>5, <1>6, <1>7, <1>8, <1>9, <1>10, <1>11 DEF Next

\* Whoever waits for the mutex or on the bucket is in its list, and whoever is
\* in the list of the rwsem or the bucket waits there, whatever the order of
\* waits, grants, timeouts and wake-ups.
THEOREM WaitInvariant == Spec => []WaitInv
BY InitInv, NextInv, PTL DEF Spec

\* The futex plist: sorted by priority with the first of each priority in the
\* prio_list, whatever UX, fair and real-time tasks trans_plist_add mixes.
THEOREM PlistStaysConsistent == Spec => []PlistConsistent
<1>1. WaitInv => PlistConsistent
  BY DEF WaitInv, PlistOK
<1>2. QED BY <1>1, WaitInvariant, PTL

\* Only the first waiter itself leaves the front of the list, with the mutex.
LEMMA FrontStays ==
  ASSUME WaitInv, Next, mutex.handoff, mutex.list # <<>>, at'[mutex.list[1]] = "mutex"
  PROVE  mutex'.list[1] = mutex.list[1]
<1>1. LocksOK /\ at \in [Tasks -> Places]
  BY DEF WaitInv, LocksOK
<1>2. /\ mutex.list \in Seq(Tasks) /\ Len(mutex.list) \in Nat /\ Len(mutex.list) # 0
      /\ mutex \in [owner : Tasks \union {None}, handoff : BOOLEAN, list : Seq(Tasks)]
  BY <1>1, LenProperties, EmptySeq DEF LocksOK
<1>3. ASSUME NEW t \in Tasks, MutexWait(t) PROVE mutex'.list[1] = mutex.list[1]
  <2>1. PICK pos \in 1..Len(mutex.list)+1 :
          mutex' = [mutex EXCEPT !.list = InsertBefore(@, pos, t)] /\ pos # 1
    BY <1>1, <1>3, MutexWaitPos
  <2> DEFINE l == mutex.list
             k == InsertBefore(l, pos, t)
  <2>2. mutex'.list = k
    BY <1>2, <2>1
  <2>3. l \in Seq(Tasks) /\ pos \in 1..Len(l)+1 /\ 1 \in 1..Len(l)+1 /\ 1 < pos
    BY <1>2, <2>1
  <2> HIDE DEF l
  <2>4. \A i \in 1..Len(l)+1 : k[i] = IF i < pos THEN l[i] ELSE IF i = pos THEN t ELSE l[i-1]
    <3>1. Inserted(k, Tasks, l, pos, t)
      BY <2>3, InsertBeforeFacts
    <3>2. QED BY <3>1 DEF Inserted
  <2> HIDE DEF k
  <2>5. k[1] = l[1]
    BY <2>3, <2>4
  <2>6. QED BY <2>2, <2>5 DEF l
<1>4. ASSUME NEW t \in Tasks, MutexTake(t) PROVE mutex'.list[1] = mutex.list[1]
  <2>1. CASE at[t] = "mutex"
    <3>1. mutex.list[1] = t /\ at'[t] = "run"
      BY <1>1, <1>4, <2>1 DEF MutexTake
    <3>2. QED BY <3>1
  <2>2. CASE at[t] # "mutex"
    BY <1>4, <2>2 DEF MutexTake
  <2>3. QED BY <2>1, <2>2
<1>5. CASE MutexHandoff \/ \E t \in Tasks : MutexUnlock(t)
  BY <1>2, <1>5 DEF MutexHandoff, MutexUnlock
<1>6. CASE UNCHANGED mutex
  BY <1>6
<1>7. QED
  BY <1>3, <1>4, <1>5, <1>6
     DEF Next, Spin, FutexLeave, FutexLate, RwsemWait, RwsemTake, FutexWait, TagsChange,
         RwsemGrant, RwsemRelease, RwsemAge

\* mutex_list_insert_ux never queues a UX task ahead of a first waiter that was
\* promised the mutex: it stays the first until it has it.
THEOREM PromiseIsKept == Spec => HandoffIsKept
<1>1. WaitInv /\ [Next]_vars =>
        [mutex.handoff /\ mutex.list # <<>> /\ at'[mutex.list[1]] = "mutex"
           => mutex.list'[1] = mutex.list[1]]_vars
  BY FrontStays
<1>2. QED BY <1>1, WaitInvariant, PTL DEF Spec, HandoffIsKept

\* Whoever a UX waiter leaves ahead of it in the rwsem's list, and could lend
\* its tags to, has UX tags afterwards.
LEMMA LentOnTheWay ==
  ASSUME WaitInv, NEW t \in Tasks, NEW type \in {"R", "W"}, RwsemWait(t, type), IsUx(t),
         rwsem.list # <<>>, NEW i \in DOMAIN rwsem'.list, rwsem'.list[i].task = t,
         NEW j \in 1..i - 1, Lends(t, rwsem.list[j].task, "rwsem")
  PROVE  tag'[rwsem.list[j].task] \in UxKinds
<1> DEFINE l == rwsem.list
           promised == l # <<>> /\ l[1].age > 0
           w == l[j].task
<1>1. LocksOK
  BY DEF WaitInv
<1>2. /\ l \in Seq(Waiters) /\ Len(l) \in Nat /\ DOMAIN l = 1..Len(l)
      /\ \A x \in DOMAIN l : l[x].task \in Tasks /\ at[l[x].task] = "rwsem"
  <2>1. l \in Seq(Waiters)
    BY <1>1 DEF LocksOK
  <2>2. \A x \in DOMAIN l : l[x] \in Waiters
    BY <2>1, LenProperties
  <2>3. QED BY <1>1, <2>1, <2>2, LenProperties DEF LocksOK, Waiters
<1>3. PICK pos \in 1..Len(l)+1 :
        /\ rwsem' = [rwsem EXCEPT !.list = InsertBefore(@, pos, Waiter(t, type))]
        /\ pos = RwsemPos(t, type, l, promised)
  BY <1>1, RwsemWaitPos
<1>4. /\ DOMAIN rwsem'.list = 1..Len(l)+1
      /\ \A x \in 1..Len(l)+1 :
           rwsem'.list[x] = IF x < pos THEN l[x]
                            ELSE IF x = pos THEN Waiter(t, type) ELSE l[x-1]
  BY <1>1, <1>3, RwsemWaitList
<1>5. at[t] = "run" /\ tag' = LendTo(t, RwsemLent(t, type, l, promised) \union {rwsem.owner}, "rwsem")
  BY DEF RwsemWait
<1> HIDE DEF l, promised
<1>6. i = pos
  <2>1. CASE i < pos
    <3>1. i \in DOMAIN l /\ rwsem'.list[i] = l[i]
      BY <1>2, <1>4, <2>1
    <3>2. QED BY <1>2, <1>5, <3>1
  <2>2. CASE i > pos
    <3>1. i - 1 \in DOMAIN l /\ rwsem'.list[i] = l[i-1]
      BY <1>2, <1>4, <2>2
    <3>2. QED BY <1>2, <1>5, <3>1
  <2>3. QED BY <1>2, <1>4, <2>1, <2>2
<1>7. j \in 1..Len(l) /\ j < pos
  BY <1>2, <1>6
<1>8. w \in Tasks /\ NoTag(w) /\ w \notin RtTasks /\ Lends(t, w, "rwsem")
  BY <1>2, <1>7 DEF Lends, NoTag, l
<1> HIDE DEF w
<1>9. Passed(t, l, promised, j) \/ Joins(t, type, l, promised, j)
  <2>1. \A x \in 1..Len(l) : x < RwsemPos(t, type, l, promised) =>
          Passed(t, l, promised, x) \/ Joins(t, type, l, promised, x)
    BY <1>2, RwsemPosFacts
  <2>2. QED BY <1>3, <1>7, <2>1
<1>10. w \in RwsemLent(t, type, l, promised)
  <2>1. CASE Passed(t, l, promised, j)
    <3>1. promised /\ j = 1
      BY <1>8, <2>1 DEF Passed, IsUx, NotFair, NoTag, UxKinds, w
    <3>2. QED BY <1>2, <1>7, <3>1 DEF RwsemLent, w
  <2>2. CASE Joins(t, type, l, promised, j)
    BY <1>2, <1>3, <1>7, <2>2 DEF RwsemLent, w
  <2>3. QED BY <1>9, <2>1, <2>2
<1>11. tag'[w] \in {"rwsem", Twice("rwsem")}
  BY <1>5, <1>8, <1>10 DEF LendTo
<1>12. QED BY <1>11 DEF UxKinds, Twice, w, l

\* A UX task does not queue up for the rwsem behind a plain task that it could have
\* lent its tags to: rwsem_list_insert_ux passes plain waiters or helps them.
THEOREM UxWaitsBehindHelpers == Spec => NobodyPlainAhead
<1>1. WaitInv /\ [Next]_vars =>
        [\A t \in Tasks, type \in {"R", "W"} :
           RwsemWait(t, type) /\ IsUx(t) /\ rwsem.list # <<>> =>
             \A i \in DOMAIN rwsem.list' :
               rwsem.list'[i].task = t =>
                 \A j \in 1..i - 1 : LET w == rwsem.list[j].task IN
                   tag'[w] \in UxKinds \/ NotFair(w) \/ ~Lends(t, w, "rwsem")]_vars
  BY LentOnTheWay
<1>2. QED BY <1>1, WaitInvariant, PTL DEF Spec, NobodyPlainAhead

=============================================================================

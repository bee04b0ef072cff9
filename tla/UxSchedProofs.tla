--------------------------- MODULE UxSchedProofs ---------------------------
(***************************************************************************)
(* Safety of UxSched and of UxShare for any tasks, CPUs, requests, hooks   *)
(* and bounds.  The scheduler's inductive invariant IInv adds to the       *)
(* listed properties only what the kernel guarantees about rq->curr: the   *)
(* tick deletes the running task from the list of the ticking CPU, which   *)
(* is the right list only because a listed task is queued at home and a    *)
(* running task runs at home.  The second half of the module is about the  *)
(* inheritance hooks, whose every step is a step of the scheduler.         *)
(***************************************************************************)
EXTENDS UxShare, ListFacts

----------------------------------------------------------------------------
(***************************************************************************)
(* Facts about the operators of UxTags: what inserting into and deleting   *)
(* from a UX list does to its length, its members and their uniqueness,    *)
(* and that the tag operations stay in Tags.                               *)
(***************************************************************************)

\* insert_ux_into_list finds a position: in the list or at its end.
LEMMA InsertPosInRange ==
  ASSUME NEW T, NEW l \in Seq(T), NEW g, NEW w
  PROVE  InsertPos(l, g, w) \in 1..Len(l)+1
<1> DEFINE Lower(p) == p = Len(l) + 1 \/ HigherPrio(g, w[l[p]].tags)
           S == {p \in 1..Len(l)+1 : Lower(p)}
<1>1. Len(l) \in Nat /\ S \in SUBSET Nat /\ Len(l) + 1 \in S
  BY LenProperties
<1>2. PICK p \in S : \A k \in S : p <= k
  BY <1>1, LeastElement
<1>3. /\ p \in 1..Len(l)+1
      /\ p = Len(l) + 1 \/ HigherPrio(g, w[l[p]].tags)
      /\ \A q \in 1..p-1 : ~HigherPrio(g, w[l[q]].tags)
  <2>1. ASSUME NEW q \in 1..p-1 PROVE ~HigherPrio(g, w[l[q]].tags)
    <3>1. q \in 1..Len(l)+1 /\ q < p
      BY <1>1
    <3>2. q \notin S
      BY <3>1, <1>1, <1>2
    <3>3. QED BY <3>1, <3>2
  <2>2. QED BY <2>1
<1>4. QED BY <1>3 DEF InsertPos

\* insert_ux_into_list adds exactly the task, and never a second copy.
LEMMA InsertUxFacts ==
  ASSUME NEW T, NEW l \in Seq(T), NEW t \in T, NEW w
  PROVE  /\ InsertUx(l, t, w) \in Seq(T)
         /\ \A u : Listed(InsertUx(l, t, w), u) <=> Listed(l, u) \/ u = t
         /\ Distinct(l) /\ ~Listed(l, t) => Distinct(InsertUx(l, t, w))
<1> DEFINE p == InsertPos(l, w[t].tags, w)
           r == InsertUx(l, t, w)
<1>1. p \in 1..Len(l)+1 /\ Len(l) \in Nat
  BY InsertPosInRange, LenProperties
<1>2. /\ r \in Seq(T) /\ Len(r) = Len(l) + 1
      /\ \A i \in 1..Len(l)+1 : r[i] = IF i < p THEN l[i] ELSE IF i = p THEN t ELSE l[i-1]
  <2>1. r = InsertAt(l, p, t)
    BY DEF InsertUx
  <2> HIDE DEF p, r
  <2>2. /\ InsertAt(l, p, t) \in Seq(T) /\ Len(InsertAt(l, p, t)) = Len(l) + 1
        /\ \A i \in 1..Len(l)+1 :
             InsertAt(l, p, t)[i] = IF i < p THEN l[i] ELSE IF i = p THEN t ELSE l[i-1]
    BY <1>1, InsertAtFacts
  <2>3. QED BY <2>1, <2>2
<1> HIDE DEF p, r
<1>3. DOMAIN l = 1..Len(l) /\ DOMAIN r = 1..Len(l)+1
  BY <1>2, LenProperties
<1>4. ASSUME NEW u PROVE Listed(r, u) <=> Listed(l, u) \/ u = t
  <2>1. ASSUME NEW i \in DOMAIN r, r[i] = u PROVE Listed(l, u) \/ u = t
    <3>1. CASE i < p
      BY <1>1, <1>2, <1>3, <2>1, <3>1 DEF Listed
    <3>2. CASE i = p
      BY <1>2, <1>3, <2>1, <3>2
    <3>3. CASE i > p
      <4>1. i - 1 \in DOMAIN l /\ l[i-1] = u
        BY <1>1, <1>2, <1>3, <2>1, <3>3
      <4>2. QED BY <4>1 DEF Listed
    <3>4. QED BY <1>1, <1>3, <3>1, <3>2, <3>3
  <2>2. ASSUME NEW i \in DOMAIN l, l[i] = u PROVE Listed(r, u)
    <3>1. CASE i < p
      BY <1>1, <1>2, <1>3, <2>2, <3>1 DEF Listed
    <3>2. CASE ~(i < p)
      <4>1. i + 1 \in DOMAIN r /\ r[i+1] = u
        BY <1>1, <1>2, <1>3, <2>2, <3>2
      <4>2. QED BY <4>1 DEF Listed
    <3>3. QED BY <3>1, <3>2
  <2>3. r[p] = t /\ p \in DOMAIN r
    BY <1>1, <1>2, <1>3
  <2>4. QED BY <2>1, <2>2, <2>3 DEF Listed
<1>5. ASSUME Distinct(l), ~Listed(l, t) PROVE Distinct(r)
  <2>1. SUFFICES ASSUME NEW i \in DOMAIN r, NEW j \in DOMAIN r, r[i] = r[j], i < j
                 PROVE  FALSE
    BY <1>1, <1>3 DEF Distinct
  <2>2. \A k \in 1..Len(l) : l[k] # t
    BY <1>3, <1>5 DEF Listed
  <2>3. \A k, m \in 1..Len(l) : l[k] = l[m] => k = m
    BY <1>3, <1>5 DEF Distinct
  <2>4. QED BY <1>1, <1>2, <1>3, <2>1, <2>2, <2>3
<1>6. QED BY <1>2, <1>4, <1>5 DEF r

\* list_del_init takes out the task and nothing else.
LEMMA DeleteUxFacts ==
  ASSUME NEW T, NEW l \in Seq(T), NEW t, Listed(l, t)
  PROVE  /\ DeleteUx(l, t) \in Seq(T)
         /\ Distinct(l) => /\ Distinct(DeleteUx(l, t))
                           /\ \A u : Listed(DeleteUx(l, t), u) <=> Listed(l, u) /\ u # t
<1> DEFINE p == CHOOSE i \in DOMAIN l : l[i] = t
           r == DeleteUx(l, t)
<1>1. DOMAIN l = 1..Len(l) /\ Len(l) \in Nat
  BY LenProperties
<1>2. p \in 1..Len(l) /\ l[p] = t
  BY <1>1 DEF Listed
<1>3. /\ r \in Seq(T) /\ Len(r) = Len(l) - 1
      /\ \A i \in 1..Len(l)-1 : r[i] = IF i < p THEN l[i] ELSE l[i+1]
  BY <1>2, RemoveAtFacts DEF DeleteUx
<1> HIDE DEF p, r
<1>4. DOMAIN r = 1..Len(l)-1
  BY <1>3, LenProperties
<1>5. ASSUME Distinct(l)
      PROVE  Distinct(r) /\ \A u : Listed(r, u) <=> Listed(l, u) /\ u # t
  <2>1. \A k, m \in 1..Len(l) : l[k] = l[m] => k = m
    BY <1>1, <1>5 DEF Distinct
  <2>2. Distinct(r)
    <3>1. SUFFICES ASSUME NEW i \in DOMAIN r, NEW j \in DOMAIN r, r[i] = r[j], i < j
                   PROVE  FALSE
      BY <1>1, <1>4 DEF Distinct
    <3>2. QED BY <1>1, <1>2, <1>3, <1>4, <2>1, <3>1
  <2>3. ASSUME NEW u, Listed(r, u) PROVE Listed(l, u) /\ u # t
    <3>1. PICK i \in DOMAIN r : r[i] = u
      BY <2>3 DEF Listed
    <3>2. PICK k \in DOMAIN l : l[k] = u /\ k # p
      <4>1. CASE i < p
        BY <1>1, <1>2, <1>3, <1>4, <3>1, <4>1
      <4>2. CASE ~(i < p)
        <5>1. i + 1 \in DOMAIN l /\ l[i+1] = u /\ i + 1 # p
          BY <1>1, <1>2, <1>3, <1>4, <3>1, <4>2
        <5>2. QED BY <5>1
      <4>3. QED BY <4>1, <4>2
    <3>3. QED BY <1>1, <1>2, <2>1, <3>2 DEF Listed
  <2>4. ASSUME NEW u, Listed(l, u), u # t PROVE Listed(r, u)
    <3>1. PICK i \in DOMAIN l : l[i] = u
      BY <2>4 DEF Listed
    <3>2. CASE i < p
      BY <1>1, <1>2, <1>3, <1>4, <3>1, <3>2 DEF Listed
    <3>3. CASE ~(i < p)
      <4>1. i - 1 \in DOMAIN r /\ r[i-1] = u
        BY <1>1, <1>2, <1>3, <1>4, <2>4, <3>1, <3>3
      <4>2. QED BY <4>1 DEF Listed
    <3>4. QED BY <3>2, <3>3
  <2>5. QED BY <2>2, <2>3, <2>4
<1>6. QED BY <1>3, <1>5 DEF r

----------------------------------------------------------------------------
(* The tag operations.                                                     *)

\* The dynamic priority saturates at both ends, and a flag is one of UxFlags.
LEMMA TagsTyped ==
  /\ NoTags \in Tags /\ NoShare \in Shares
  /\ \A g \in Tags : /\ InitDprio(g) \in Tags /\ RaiseDprio(g) \in Tags
                     /\ LowerDprio(g) \in Tags /\ RebaseDprio(g) \in Tags
                     /\ \A f \in UxFlags : SetFlag(g, f) \in Tags /\ ClearFlag(g, f) \in Tags
<1>1. NoTags \in Tags /\ NoShare \in Shares
  <2>1. 0 \in 0..DprioMax /\ 0 \in Slices /\ 0 \in 0..HoldLimit+1
    BY DprioAssumption, SliceAssumption, HoldLimitAssumption
  <2>2. QED BY <2>1 DEF NoTags, Tags, NoShare, Shares
<1>2. ASSUME NEW g \in Tags
      PROVE  /\ InitDprio(g) \in Tags /\ RaiseDprio(g) \in Tags
             /\ LowerDprio(g) \in Tags /\ RebaseDprio(g) \in Tags
  <2>1. DprioBase \in 0..DprioMax /\ g.dprio \in 0..DprioMax /\ DprioMax \in Nat
    BY DprioAssumption DEF Tags
  <2>2. \A d \in 0..DprioMax : [g EXCEPT !.dprio = d] \in Tags
    BY DEF Tags
  <2>3. QED BY <2>1, <2>2 DEF InitDprio, RaiseDprio, LowerDprio, RebaseDprio
<1>3. ASSUME NEW g \in Tags, NEW f \in UxFlags
      PROVE  SetFlag(g, f) \in Tags /\ ClearFlag(g, f) \in Tags
  BY DEF SetFlag, ClearFlag, Tags
<1>4. QED BY <1>1, <1>2, <1>3

\* update_ux_pending hands out nothing but the three tag words it was given.
LEMMA PendingTyped ==
  ASSUME NEW cur \in Tags, NEW pend \in Tags, NEW req \in Tags
  PROVE  PendingDecision(cur, pend, req)
           \in [ignore : BOOLEAN, tags : Tags, pending : Tags]
<1>1. ASSUME NEW ig \in BOOLEAN, NEW g \in Tags, NEW q \in Tags
      PROVE  Verdict(ig, g, q) \in [ignore : BOOLEAN, tags : Tags, pending : Tags]
  BY DEF Verdict
<1>2. /\ Overlap(cur, req) \in [ignore : BOOLEAN, tags : Tags, pending : Tags]
      /\ Restore(cur, pend) \in [ignore : BOOLEAN, tags : Tags, pending : Tags]
  BY <1>1, TagsTyped DEF Overlap, Restore
<1>3. QED BY <1>1, <1>2 DEF PendingDecision

----------------------------------------------------------------------------
(* The inductive invariant.                                                *)

CurrAtHome ==
  \A c \in Cpus : curr[c] # Idle => se[curr[c]].cpu = c /\ se[curr[c]].on_rq # "no"

ListsOK ==
  /\ ux_list \in [Cpus -> Seq(Tasks)]
  /\ refs \in [Tasks -> Int]
  /\ NoDuplicates
  /\ RefBalance

IInv == TypeOK /\ NoDuplicates /\ RefBalance /\ ListedAtHome /\ CurrAtHome

----------------------------------------------------------------------------
(* What the list operations do to the lists.                               *)

\* A listed task is on one list only.
LEMMA OneHome ==
  ASSUME IInv, NEW t \in Tasks, NEW c \in Cpus, Listed(ux_list[c], t), NEW d \in Cpus
  PROVE  (Listed(ux_list[d], t) <=> d = c) /\ Queued(t, c)
BY DEF IInv, ListedAtHome, Queued

\* insert_ux_into_list with get_task_struct.
LEMMA LinkStep ==
  ASSUME ListsOK, NEW t \in Tasks, NEW c \in Cpus, NEW w, ~OnUxList(t), Link(t, c, w)
  PROVE  /\ ListsOK'
         /\ \A d \in Cpus, u \in Tasks :
              Listed(ux_list'[d], u) <=> Listed(ux_list[d], u) \/ (d = c /\ u = t)
<1> DEFINE l == InsertUx(ux_list[c], t, w)
<1>1. ux_list[c] \in Seq(Tasks) /\ Distinct(ux_list[c]) /\ ~Listed(ux_list[c], t)
  BY DEF ListsOK, NoDuplicates, OnUxList
<1>2. /\ l \in Seq(Tasks) /\ Distinct(l)
      /\ \A u : Listed(l, u) <=> Listed(ux_list[c], u) \/ u = t
  BY <1>1, InsertUxFacts
<1>3. ux_list' = [ux_list EXCEPT ![c] = l] /\ refs' = [refs EXCEPT ![t] = @ + 1]
  BY DEF Link
<1> HIDE DEF l
<1>4. \A d \in Cpus : ux_list'[d] = IF d = c THEN l ELSE ux_list[d]
  BY <1>3 DEF ListsOK
<1>5. \A d \in Cpus, u \in Tasks :
        Listed(ux_list'[d], u) <=> Listed(ux_list[d], u) \/ (d = c /\ u = t)
  BY <1>2, <1>4
<1>6. ux_list' \in [Cpus -> Seq(Tasks)] /\ refs' \in [Tasks -> Int]
  BY <1>2, <1>3 DEF ListsOK
<1>7. NoDuplicates'
  BY <1>2, <1>4 DEF ListsOK, NoDuplicates
<1>8. RefBalance'
  <2>1. \A u \in Tasks : OnUxList(u)' <=> OnUxList(u) \/ u = t
    BY <1>5 DEF OnUxList
  <2>2. \A u \in Tasks : refs'[u] = IF u = t THEN refs[u] + 1 ELSE refs[u]
    BY <1>3 DEF ListsOK
  <2>3. QED BY <2>1, <2>2 DEF ListsOK, RefBalance
<1>9. QED BY <1>5, <1>6, <1>7, <1>8 DEF ListsOK

\* list_del_init with put_task_struct.
LEMMA UnlinkStep ==
  ASSUME ListsOK, NEW t \in Tasks, OnUxList(t), Unlink(t)
  PROVE  /\ ListsOK'
         /\ \A d \in Cpus, u \in Tasks :
              Listed(ux_list'[d], u) <=> Listed(ux_list[d], u) /\ u # t
<1>1. \A d \in Cpus : ux_list[d] \in Seq(Tasks) /\ Distinct(ux_list[d])
  BY DEF ListsOK, NoDuplicates
<1>2. \A d \in Cpus : ux_list'[d] = IF Listed(ux_list[d], t)
                                      THEN DeleteUx(ux_list[d], t) ELSE ux_list[d]
  BY DEF Unlink
<1>3. ASSUME NEW d \in Cpus
      PROVE  /\ ux_list'[d] \in Seq(Tasks) /\ Distinct(ux_list'[d])
             /\ \A u : Listed(ux_list'[d], u) <=> Listed(ux_list[d], u) /\ u # t
  <2>1. CASE Listed(ux_list[d], t)
    BY <1>1, <1>2, <2>1, DeleteUxFacts
  <2>2. CASE ~Listed(ux_list[d], t)
    BY <1>1, <1>2, <2>2
  <2>3. QED BY <2>1, <2>2
<1>4. ux_list' \in [Cpus -> Seq(Tasks)] /\ refs' \in [Tasks -> Int]
  BY <1>3 DEF ListsOK, Unlink
<1>5. NoDuplicates'
  BY <1>3 DEF NoDuplicates
<1>6. RefBalance'
  <2>1. \A u \in Tasks : OnUxList(u)' <=> OnUxList(u) /\ u # t
    BY <1>3 DEF OnUxList
  <2>2. \A u \in Tasks : refs'[u] = IF u = t THEN refs[u] - 1 ELSE refs[u]
    BY DEF ListsOK, Unlink
  <2>3. QED BY <2>1, <2>2 DEF ListsOK, RefBalance
<1>7. QED BY <1>3, <1>4, <1>5, <1>6 DEF ListsOK

\* A step that leaves the lists and the references alone.
LEMMA ListsUnchanged ==
  ASSUME ListsOK, UNCHANGED <<ux_list, refs>>
  PROVE  ListsOK' /\ \A d \in Cpus, u \in Tasks : Listed(ux_list'[d], u) <=> Listed(ux_list[d], u)
BY DEF ListsOK, NoDuplicates, RefBalance, OnUxList

\* The lists of a state that satisfies the invariant are in order.
LEMMA IInvLists == IInv => ListsOK
BY DEF IInv, ListsOK, TypeOK

\* enqueue_ux_task adds at most the task, to the list of the run queue it joins.
LEMMA EnqueueStep ==
  ASSUME IInv, NEW t \in Tasks, NEW c \in Cpus, EnqueueUx(t, c)
  PROVE  /\ ListsOK' /\ kwin' \in {"closed", "open", "expired"}
         /\ \A d \in Cpus, u \in Tasks :
              Listed(ux_list'[d], u) => Listed(ux_list[d], u) \/ (d = c /\ u = t)
<1>1. kwin' \in {"closed", "open", "expired"}
  BY DEF EnqueueUx, IInv, TypeOK
<1>2. CASE UNCHANGED <<ux_list, refs>>
  BY <1>1, <1>2, IInvLists, ListsUnchanged
<1>3. CASE ~OnUxList(t) /\ Link(t, c, ts)
  BY <1>1, <1>3, IInvLists, LinkStep
<1>4. QED BY <1>2, <1>3 DEF EnqueueUx

\* The tail of the tagging functions adds at most the task, and only to the list
\* of the run queue it is queued on.
LEMMA LinkIfStep ==
  ASSUME IInv, NEW t \in Tasks, NEW cond, NEW w, LinkIf(cond, t, w)
  PROVE  /\ ListsOK'
         /\ \A d \in Cpus, u \in Tasks : Listed(ux_list'[d], u) => Queued(u, d)
<1>1. \A d \in Cpus, u \in Tasks : Listed(ux_list[d], u) => Queued(u, d)
  BY DEF IInv, ListedAtHome
<1>2. CASE UNCHANGED <<ux_list, refs>>
  BY <1>1, <1>2, IInvLists, ListsUnchanged
<1>3. CASE CheckTaskOnRq(t) /\ ~OnUxList(t) /\ Link(t, se[t].cpu, w)
  <2>1. se[t].cpu \in Cpus
    BY DEF IInv, TypeOK, SchedEntity
  <2>2. /\ ListsOK'
        /\ \A d \in Cpus, u \in Tasks :
             Listed(ux_list'[d], u) <=> Listed(ux_list[d], u) \/ (d = se[t].cpu /\ u = t)
    BY <1>3, <2>1, IInvLists, LinkStep
  <2>3. Queued(t, se[t].cpu)
    BY <1>3 DEF CheckTaskOnRq, Queued
  <2>4. QED BY <1>1, <2>2, <2>3
<1>4. QED BY <1>2, <1>3 DEF LinkIf

\* Clearing inherited tags, and initialising, give proper task records.
LEMMA TaskTyped ==
  /\ FreshTask \in TransTask
  /\ \A x \in TransTask : ClearTags(x) \in TransTask /\ InitTask(x) \in TransTask
BY TagsTyped DEF FreshTask, TransTask, ClearTags, InitTask

\* dequeue_ux_task leaves the task on no list.
LEMMA DequeueStep ==
  ASSUME IInv, NEW t \in Tasks, NEW sleep \in BOOLEAN, NEW iowait \in BOOLEAN,
         DequeueUx(t, sleep, iowait)
  PROVE  /\ ListsOK' /\ kwin' \in {"closed", "open", "expired"}
         /\ ts' \in [Tasks -> TransTask]
         /\ \A d \in Cpus, u \in Tasks :
              Listed(ux_list'[d], u) => Listed(ux_list[d], u) /\ u # t
<1>1. kwin' \in {"closed", "open", "expired"}
  BY DEF DequeueUx, IInv, TypeOK
<1>2. ts' \in [Tasks -> TransTask]
  <2> DEFINE y == IF OnUxList(t) /\ ShareOver(ts[t], sleep) THEN ClearTags(ts[t]) ELSE ts[t]
  <2>1. ts \in [Tasks -> TransTask]
    BY DEF IInv, TypeOK
  <2>2. y \in TransTask
    BY <2>1, TaskTyped
  <2>3. ts' = [ts EXCEPT ![t] = IF se[t].running THEN y ELSE [y EXCEPT !.total_run = 0]]
    BY DEF DequeueUx
  <2> HIDE DEF y
  <2>4. [y EXCEPT !.total_run = 0] \in TransTask
    BY <2>2 DEF TransTask
  <2>5. QED BY <2>1, <2>2, <2>3, <2>4
<1>3. CASE OnUxList(t)
  <2>1. Unlink(t)
    BY <1>3 DEF DequeueUx
  <2>2. QED BY <1>1, <1>2, <1>3, <2>1, IInvLists, UnlinkStep
<1>4. CASE ~OnUxList(t)
  <2>1. UNCHANGED <<ux_list, refs>>
    BY <1>4 DEF DequeueUx
  <2>2. \A d \in Cpus : ~Listed(ux_list[d], t)
    BY <1>4 DEF OnUxList
  <2>3. QED BY <1>1, <1>2, <2>1, <2>2, IInvLists, ListsUnchanged
<1>5. QED BY <1>3, <1>4

----------------------------------------------------------------------------
(* The steps.                                                              *)

\* The first candidate of a CPU's list is a task queued on that CPU.
LEMMA PickTyped ==
  ASSUME IInv, NEW c \in Cpus, NEW t \in PickNext(c)
  PROVE  t = Idle \/ (t \in Tasks /\ Queued(t, c))
<1> DEFINE U == UxCandidates(c)
           i == CHOOSE i \in U : \A j \in U : i <= j
<1>1. ux_list[c] \in Seq(Tasks)
  BY DEF IInv, TypeOK
<1>2. \A k \in U : k \in Nat /\ ux_list[c][k] \in Tasks /\ Queued(ux_list[c][k], c)
  BY <1>1, LenProperties, ElementOfSeq DEF UxCandidates
<1>3. U # {} => i \in U
  BY <1>2, LeastElement
<1>4. CASE t = ux_list[c][i] /\ U # {}
  BY <1>2, <1>3, <1>4
<1>5. CASE t \in Tasks /\ Queued(t, c)
  BY <1>5
<1>6. QED BY <1>4, <1>5 DEF PickNext

\* A task that moves nowhere keeps a listed task at home.
LEMMA HomeKept ==
  ASSUME ListedAtHome,
         \A d \in Cpus, u \in Tasks : Listed(ux_list'[d], u) => Listed(ux_list[d], u),
         \A u \in Tasks : OnUxList(u)' => se'[u].cpu = se[u].cpu /\ se'[u].on_rq = se[u].on_rq
  PROVE  ListedAtHome'
BY DEF ListedAtHome, Queued, OnUxList

\* rq->curr changes only in Schedule and Deactivate.
LEMMA CurrKept ==
  ASSUME CurrAtHome, UNCHANGED curr,
         \A c \in Cpus : curr[c] # Idle =>
            se'[curr[c]].cpu = se[curr[c]].cpu /\ se'[curr[c]].on_rq # "no"
  PROVE  CurrAtHome'
BY DEF CurrAtHome

\* android_vh_scheduler_tick_hook deletes and inserts on the list of its own CPU.
LEMMA TickInv == ASSUME IInv, NEW c \in Cpus, NEW d \in 1..MaxCharge, Tick(c, d) PROVE IInv'
<1> DEFINE t == curr[c]
           x == ts[t]
           aged == [x EXCEPT !.period = IF x.tags.share # {} THEN Cap(@ + d) ELSE @]
           charged == [aged EXCEPT !.total_run = Cap(@ + d)]
<1>1. /\ t # Idle /\ UNCHANGED <<se, curr, features, scene, kwin>>
      /\ IF OnUxList(t)
           THEN /\ ts' = [ts EXCEPT ![t] = charged]
                /\ \/ Unlink(t)
                   \/ /\ ux_list' = [ux_list EXCEPT ![c] = InsertUx(DeleteUx(@, t), t, ts)]
                      /\ UNCHANGED refs
           ELSE ts' = [ts EXCEPT ![t] = aged] /\ UNCHANGED <<ux_list, refs>>
  BY DEF Tick
<1>2. t \in Tasks /\ x \in TransTask
  BY <1>1 DEF IInv, TypeOK
<1>3. aged \in TransTask /\ charged \in TransTask
  <2>1. \A n \in Nat : Cap(n + d) \in Nat
    BY RunAssumption DEF Cap
  <2>2. x.period \in Nat /\ x.total_run \in Nat
    BY <1>2 DEF TransTask
  <2>3. aged \in TransTask
    BY <1>2, <2>1, <2>2 DEF TransTask
  <2>4. aged.total_run \in Nat
    BY <2>3 DEF TransTask
  <2> HIDE DEF aged
  <2>5. QED BY <2>1, <2>3, <2>4 DEF TransTask
<1> HIDE DEF aged, charged
<1>4. ts' \in [Tasks -> TransTask]
  BY <1>1, <1>2, <1>3 DEF IInv, TypeOK
<1>5. ListsOK' /\ \A e \in Cpus, u \in Tasks : Listed(ux_list'[e], u) => Listed(ux_list[e], u)
  <2>1. CASE UNCHANGED <<ux_list, refs>>
    BY <2>1, IInvLists, ListsUnchanged
  <2>2. CASE OnUxList(t) /\ Unlink(t)
    BY <1>2, <2>2, IInvLists, UnlinkStep
  <2>3. CASE /\ OnUxList(t) /\ UNCHANGED refs
             /\ ux_list' = [ux_list EXCEPT ![c] = InsertUx(DeleteUx(@, t), t, ts)]
    <3> DEFINE k == DeleteUx(ux_list[c], t)
               l == InsertUx(k, t, ts)
    <3>1. Listed(ux_list[c], t)
      <4>1. PICK e \in Cpus : Listed(ux_list[e], t)
        BY <2>3 DEF OnUxList
      <4>2. Queued(t, e) /\ se[t].cpu = c
        BY <1>1, <1>2, <4>1 DEF IInv, ListedAtHome, CurrAtHome
      <4>3. QED BY <4>1, <4>2 DEF Queued
    <3>2. ux_list[c] \in Seq(Tasks) /\ Distinct(ux_list[c])
      BY DEF IInv, TypeOK, NoDuplicates
    <3>3. /\ k \in Seq(Tasks) /\ Distinct(k)
          /\ \A u : Listed(k, u) <=> Listed(ux_list[c], u) /\ u # t
      BY <3>1, <3>2, DeleteUxFacts
    <3> HIDE DEF k
    <3>4. /\ l \in Seq(Tasks) /\ Distinct(l)
          /\ \A u : Listed(l, u) <=> Listed(k, u) \/ u = t
      BY <1>2, <3>3, InsertUxFacts
    <3>5. ux_list' = [ux_list EXCEPT ![c] = l]
      BY <2>3 DEF k
    <3> HIDE DEF l
    <3>6. ux_list \in [Cpus -> Seq(Tasks)] /\ ListsOK
      BY IInvLists DEF ListsOK
    <3>7. \A e \in Cpus : ux_list'[e] = IF e = c THEN l ELSE ux_list[e]
      BY <3>5, <3>6
    <3>8. \A u : Listed(l, u) <=> Listed(ux_list[c], u)
      BY <3>1, <3>3, <3>4
    <3>9. \A e \in Cpus, u \in Tasks : Listed(ux_list'[e], u) <=> Listed(ux_list[e], u)
      BY <3>7, <3>8
    <3>10. ux_list' \in [Cpus -> Seq(Tasks)] /\ NoDuplicates'
      BY <3>4, <3>5, <3>6, <3>7 DEF ListsOK, NoDuplicates
    <3>11. RefBalance' /\ refs' \in [Tasks -> Int]
      BY <2>3, <3>6, <3>9 DEF ListsOK, RefBalance, OnUxList
    <3>12. QED BY <3>9, <3>10, <3>11 DEF ListsOK
  <2>4. QED BY <1>1, <2>1, <2>2, <2>3
<1>6. ListedAtHome' /\ CurrAtHome'
  BY <1>1, <1>5, HomeKept, CurrKept DEF IInv, CurrAtHome
<1>7. QED BY <1>1, <1>4, <1>5, <1>6 DEF IInv, TypeOK, ListsOK

\* Steps that touch neither lists nor tasks but for fields of one task that no
\* list depends on.
LEMMA QuietStepInv ==
  ASSUME IInv, UNCHANGED <<ux_list, refs, curr>>,
         ts' \in [Tasks -> TransTask], se' \in [Tasks -> SchedEntity],
         \A u \in Tasks : se'[u].cpu = se[u].cpu /\ se'[u].on_rq = se[u].on_rq,
         features' \in SUBSET Features, scene' \in SUBSET Scenes,
         kwin' \in {"closed", "open", "expired"}
  PROVE  IInv'
<1>1. ListsOK' /\ \A d \in Cpus, u \in Tasks : Listed(ux_list'[d], u) <=> Listed(ux_list[d], u)
  BY IInvLists, ListsUnchanged
<1>2. ListedAtHome' /\ CurrAtHome'
  <2>1. \A c \in Cpus : curr[c] # Idle => curr[c] \in Tasks
    BY DEF IInv, TypeOK
  <2>2. QED BY <1>1, <2>1, HomeKept, CurrKept DEF IInv, CurrAtHome
<1>3. QED BY <1>1, <1>2 DEF IInv, TypeOK, ListsOK

\* pick_next_ux_fair and the kernel's pick make a task current that is queued here.
LEMMA ScheduleInv == ASSUME IInv, NEW c \in Cpus, Schedule(c) PROVE IInv'
<1>1. PICK t \in PickNext(c) : curr' = [curr EXCEPT ![c] = t]
  BY DEF Schedule
<1>2. t = Idle \/ (t \in Tasks /\ Queued(t, c))
  BY PickTyped
<1>3. UNCHANGED <<ts, se, ux_list, refs, features, scene, kwin>>
  BY DEF Schedule
<1>4. TypeOK'
  BY <1>1, <1>2, <1>3 DEF IInv, TypeOK
<1>5. ListsOK' /\ ListedAtHome'
  BY <1>3, IInvLists, ListsUnchanged DEF IInv, ListedAtHome, Queued
<1>6. CurrAtHome'
  BY <1>1, <1>2, <1>3 DEF IInv, TypeOK, CurrAtHome, Queued
<1>7. QED BY <1>4, <1>5, <1>6 DEF IInv, ListsOK

\* A task that goes to sleep leaves its list with the run queue.
LEMMA DeactivateInv ==
  ASSUME IInv, NEW t \in Tasks, NEW w \in BOOLEAN, Deactivate(t, w)
  PROVE  IInv'
<1>1. /\ ListsOK' /\ kwin' \in {"closed", "open", "expired"}
      /\ ts' \in [Tasks -> TransTask]
      /\ \A d \in Cpus, u \in Tasks :
           Listed(ux_list'[d], u) => Listed(ux_list[d], u) /\ u # t
  BY DequeueStep DEF Deactivate
<1>2. PICK c \in Cpus : curr[c] = t /\ curr' = [curr EXCEPT ![c] = Idle]
  BY DEF Deactivate
<1>3. PICK l \in {"live", "exiting", "dead"} \union {se[t].life} :
        se' = [se EXCEPT ![t] = [@ EXCEPT !.on_rq = "no", !.life = l]]
  BY DEF Deactivate
<1>4. l \in {"live", "exiting", "dead", "free"}
  BY <1>3 DEF IInv, TypeOK, SchedEntity
<1>5. TypeOK'
  <2>1. se' \in [Tasks -> SchedEntity] /\ curr' \in [Cpus -> Tasks \union {Idle}]
    <3>1. se \in [Tasks -> SchedEntity] /\ curr \in [Cpus -> Tasks \union {Idle}]
      BY DEF IInv, TypeOK
    <3>2. [se[t] EXCEPT !.on_rq = "no", !.life = l] \in SchedEntity
      BY <1>4, <3>1 DEF SchedEntity
    <3>3. QED BY <1>2, <1>3, <3>1, <3>2
  <2>2. QED BY <1>1, <2>1 DEF IInv, TypeOK, ListsOK, Deactivate
<1>6. \A u \in Tasks : u # t => se'[u] = se[u]
  BY <1>3 DEF IInv, TypeOK
<1>7. ListedAtHome'
  BY <1>1, <1>6 DEF IInv, ListedAtHome, Queued
<1>8. CurrAtHome'
  <2>1. \A d \in Cpus : curr[d] = t => d = c
    BY <1>2, TasksAssumption DEF IInv, CurrAtHome
  <2>2. \A d \in Cpus : curr'[d] # Idle => curr'[d] = curr[d] /\ curr[d] # t /\ curr[d] \in Tasks
    BY <1>2, <2>1 DEF IInv, TypeOK
  <2>3. QED BY <1>6, <2>2 DEF IInv, CurrAtHome
<1>9. QED BY <1>1, <1>5, <1>7, <1>8 DEF IInv, ListsOK

\* A wake-up lists the task, if at all, on the CPU it is queued on.
LEMMA ActivateInv ==
  ASSUME IInv, NEW t \in Tasks, NEW c \in Cpus, Activate(t, c)
  PROVE  IInv'
<1>1. /\ ListsOK' /\ kwin' \in {"closed", "open", "expired"}
      /\ \A d \in Cpus, u \in Tasks :
           Listed(ux_list'[d], u) => Listed(ux_list[d], u) \/ (d = c /\ u = t)
  BY EnqueueStep DEF Activate
<1>2. /\ se' = [se EXCEPT ![t] = [@ EXCEPT !.cpu = c, !.on_rq = "queued", !.running = TRUE]]
      /\ UNCHANGED <<ts, curr, features, scene>> /\ se[t].on_rq = "no"
  BY DEF Activate
<1>3. TypeOK'
  <2>1. se' \in [Tasks -> SchedEntity]
    <3>1. se \in [Tasks -> SchedEntity]
      BY DEF IInv, TypeOK
    <3>2. [se[t] EXCEPT !.cpu = c, !.on_rq = "queued", !.running = TRUE] \in SchedEntity
      BY <3>1 DEF SchedEntity
    <3>3. QED BY <1>2, <3>1, <3>2
  <2>2. QED BY <1>1, <1>2, <2>1 DEF IInv, TypeOK, ListsOK
<1>4. /\ \A u \in Tasks : u # t => se'[u] = se[u]
      /\ se'[t].cpu = c /\ se'[t].on_rq = "queued"
  BY <1>2 DEF IInv, TypeOK, SchedEntity
<1>5. \A d \in Cpus : ~Listed(ux_list[d], t) /\ curr[d] # t
  BY <1>2, TasksAssumption DEF IInv, ListedAtHome, Queued, CurrAtHome
<1>6. ListedAtHome'
  BY <1>1, <1>4, <1>5 DEF IInv, ListedAtHome, Queued
<1>7. CurrAtHome'
  BY <1>2, <1>4, <1>5 DEF IInv, TypeOK, CurrAtHome
<1>8. QED BY <1>1, <1>3, <1>6, <1>7 DEF IInv, ListsOK

\* A task between two run queues is on no list.
LEMMA DetachInv ==
  ASSUME IInv, NEW t \in Tasks, NEW c \in Cpus, NEW rt \in BOOLEAN, Detach(t, c, rt)
  PROVE  IInv'
<1>1. /\ ListsOK' /\ kwin' \in {"closed", "open", "expired"}
      /\ ts' \in [Tasks -> TransTask]
      /\ \A d \in Cpus, u \in Tasks :
           Listed(ux_list'[d], u) => Listed(ux_list[d], u) /\ u # t
  BY DequeueStep DEF Detach
<1>2. /\ se' = [se EXCEPT ![t] = [@ EXCEPT !.cpu = c, !.rt = rt, !.on_rq = "moving"]]
      /\ c # se[t].cpu => \A d \in Cpus : curr[d] # t
      /\ UNCHANGED <<curr, features, scene>>
  BY DEF Detach
<1>3. TypeOK'
  <2>1. se' \in [Tasks -> SchedEntity]
    <3>1. se \in [Tasks -> SchedEntity]
      BY DEF IInv, TypeOK
    <3>2. [se[t] EXCEPT !.cpu = c, !.rt = rt, !.on_rq = "moving"] \in SchedEntity
      BY <3>1 DEF SchedEntity
    <3>3. QED BY <1>2, <3>1, <3>2
  <2>2. QED BY <1>1, <1>2, <2>1 DEF IInv, TypeOK, ListsOK
<1>4. /\ \A u \in Tasks : u # t => se'[u] = se[u]
      /\ se'[t].cpu = c /\ se'[t].on_rq = "moving"
  BY <1>2 DEF IInv, TypeOK, SchedEntity
<1>5. ListedAtHome'
  BY <1>1, <1>4 DEF IInv, ListedAtHome, Queued
<1>6. CurrAtHome'
  BY <1>2, <1>4 DEF IInv, TypeOK, CurrAtHome
<1>7. QED BY <1>1, <1>3, <1>5, <1>6 DEF IInv, ListsOK

\* Migration ends on the list, if any, of the new run queue.
LEMMA AttachInv == ASSUME IInv, NEW t \in Tasks, Attach(t) PROVE IInv'
<1>1. se[t].cpu \in Cpus
  BY DEF IInv, TypeOK, SchedEntity
<1>2. /\ ListsOK' /\ kwin' \in {"closed", "open", "expired"}
      /\ \A d \in Cpus, u \in Tasks :
           Listed(ux_list'[d], u) => Listed(ux_list[d], u) \/ (d = se[t].cpu /\ u = t)
  BY <1>1, EnqueueStep DEF Attach
<1>3. /\ se' = [se EXCEPT ![t].on_rq = "queued"]
      /\ UNCHANGED <<ts, curr, features, scene>>
  BY DEF Attach
<1>4. TypeOK'
  <2>1. se' \in [Tasks -> SchedEntity]
    <3>1. se \in [Tasks -> SchedEntity] /\ se[t] \in SchedEntity
      BY DEF IInv, TypeOK
    <3>2. [se[t] EXCEPT !.on_rq = "queued"] \in SchedEntity
      BY <3>1 DEF SchedEntity
    <3>3. QED BY <1>3, <3>1, <3>2
  <2>2. QED BY <1>2, <1>3, <2>1 DEF IInv, TypeOK, ListsOK
<1>5. /\ \A u \in Tasks : u # t => se'[u] = se[u]
      /\ se'[t].cpu = se[t].cpu /\ se'[t].on_rq = "queued"
  BY <1>3 DEF IInv, TypeOK, SchedEntity
<1>6. ListedAtHome'
  BY <1>2, <1>5 DEF IInv, ListedAtHome, Queued
<1>7. CurrAtHome'
  BY <1>3, <1>5 DEF IInv, TypeOK, CurrAtHome
<1>8. QED BY <1>2, <1>4, <1>6, <1>7 DEF IInv, ListsOK

\* The steps of the kernel that only change how a task stands with the scheduler.
LEMMA EntityStepInv ==
  ASSUME IInv, NEW t \in Tasks,
         \/ SetSleeping(t) \/ WakeQueued(t) \/ Exit(t) \/ FreeTask(t) \/ Fork(t)
  PROVE  IInv'
<1>1. /\ ts \in [Tasks -> TransTask] /\ se \in [Tasks -> SchedEntity]
      /\ features \in SUBSET Features /\ scene \in SUBSET Scenes
      /\ kwin \in {"closed", "open", "expired"}
  BY DEF IInv, TypeOK
<1>2. ts' \in [Tasks -> TransTask]
  BY <1>1, TaskTyped DEF SetSleeping, WakeQueued, Exit, FreeTask, Fork
<1>3. PICK e \in SchedEntity : /\ se' = [se EXCEPT ![t] = e]
                               /\ e.cpu = se[t].cpu /\ e.on_rq = se[t].on_rq
  <2>1. \A r \in BOOLEAN : LET e == [se[t] EXCEPT !.running = r]
                           IN e \in SchedEntity /\ e.cpu = se[t].cpu /\ e.on_rq = se[t].on_rq
    BY <1>1 DEF SchedEntity
  <2>2. \A l \in {"live", "exiting"} :
          LET e == [se[t] EXCEPT !.life = l]
          IN e \in SchedEntity /\ e.cpu = se[t].cpu /\ e.on_rq = se[t].on_rq
    BY <1>1 DEF SchedEntity
  <2>3. LET e == [se[t] EXCEPT !.life = "free", !.rt = FALSE]
        IN e \in SchedEntity /\ e.cpu = se[t].cpu /\ e.on_rq = se[t].on_rq
    BY <1>1 DEF SchedEntity
  <2>4. CASE SetSleeping(t)
    BY <2>1, <2>4 DEF SetSleeping
  <2>5. CASE WakeQueued(t)
    BY <2>1, <2>5 DEF WakeQueued
  <2>6. CASE Exit(t)
    BY <2>2, <2>6 DEF Exit
  <2>7. CASE FreeTask(t)
    BY <2>3, <2>7 DEF FreeTask
  <2>8. CASE Fork(t)
    BY <2>2, <2>8 DEF Fork
  <2>9. QED BY <2>4, <2>5, <2>6, <2>7, <2>8
<1>4. UNCHANGED <<ux_list, refs, curr, features, scene, kwin>>
  BY DEF SetSleeping, WakeQueued, Exit, FreeTask, Fork
<1>5. /\ se' \in [Tasks -> SchedEntity]
      /\ \A u \in Tasks : se'[u].cpu = se[u].cpu /\ se'[u].on_rq = se[u].on_rq
  BY <1>1, <1>3
<1>6. QED BY <1>1, <1>2, <1>4, <1>5, QuietStepInv

\* set_ux_tags_to_task lists the task at most once and only where it is queued.
LEMMA SetUxTagsInv ==
  ASSUME IInv, NEW t \in Tasks, NEW req \in Requests, SetUxTags(t, req)
  PROVE  IInv'
<1> DEFINE x == ts[t]
           v == PendingDecision(x.tags, x.pending, req)
           y == InitTask([x EXCEPT !.pending = v.pending])
           g == IF v.tags = NoTags THEN NoTags ELSE InitDprio(v.tags)
           z == [y EXCEPT !.tags = g, !.share = NoShare, !.period = 0,
                          !.magic = @ /\ g # NoTags]
           cond == CheckTagsOk(g) /\ ~("KWORKER" \in g.flags /\ kwin = "closed")
<1>1. /\ UNCHANGED <<se, curr, features, scene, kwin>>
      /\ IF v.ignore
           THEN /\ ts' = [ts EXCEPT ![t].pending = v.pending]
                /\ UNCHANGED <<ux_list, refs>>
           ELSE ts' = [ts EXCEPT ![t] = z] /\ LinkIf(cond, t, ts')
  BY DEF SetUxTags
<1>2. ts \in [Tasks -> TransTask] /\ x \in TransTask
  BY DEF IInv, TypeOK
<1>3. v \in [ignore : BOOLEAN, tags : Tags, pending : Tags]
  <2>1. x.tags \in Tags /\ x.pending \in Tags /\ req \in Tags
    BY <1>2, RequestsAssumption DEF TransTask
  <2>2. QED BY <2>1, PendingTyped
<1> HIDE DEF v
<1>4. [x EXCEPT !.pending = v.pending] \in TransTask
  BY <1>2, <1>3 DEF TransTask
<1>5. z \in TransTask
  <2>1. y \in TransTask
    BY <1>4, TaskTyped
  <2>2. g \in Tags
    BY <1>3, TagsTyped
  <2> HIDE DEF y, g
  <2>3. QED BY <2>1, <2>2, TagsTyped DEF TransTask
<1> HIDE DEF z, cond
<1>6. ts' \in [Tasks -> TransTask]
  BY <1>1, <1>2, <1>4, <1>5
<1>7. ListsOK' /\ \A d \in Cpus, u \in Tasks : Listed(ux_list'[d], u) => Queued(u, d)
  <2>1. CASE UNCHANGED <<ux_list, refs>>
    BY <2>1, IInvLists, ListsUnchanged DEF IInv, ListedAtHome
  <2>2. CASE LinkIf(cond, t, ts')
    BY <2>2, LinkIfStep
  <2>3. QED BY <1>1, <2>1, <2>2
<1>8. ListedAtHome' /\ CurrAtHome'
  BY <1>1, <1>7 DEF IInv, ListedAtHome, Queued, CurrAtHome
<1>9. QED BY <1>1, <1>6, <1>7, <1>8 DEF IInv, TypeOK, ListsOK

\* The requests that change a priority or a mark in place.
LEMMA RetagStepInv ==
  ASSUME IInv, NEW t \in Tasks,
         (\E s \in Shifts : ConvertUxPrio(t, s)) \/ (\E on \in BOOLEAN : AbinderMark(t, on))
  PROVE  IInv'
<1>1. ts \in [Tasks -> TransTask] /\ ts[t] \in TransTask /\ ts[t].tags \in Tags
  BY DEF IInv, TypeOK, TransTask
<1>2. PICK g \in Tags : ts' = [ts EXCEPT ![t].tags = g]
  <2>1. CASE \E s \in Shifts : ConvertUxPrio(t, s)
    BY <1>1, <2>1, TagsTyped, ShiftsAssumption DEF ConvertUxPrio, Shifted
  <2>2. CASE \E on \in BOOLEAN : AbinderMark(t, on)
    <3>1. "ABINDER" \in UxFlags
      BY DEF UxFlags
    <3>2. QED BY <1>1, <2>2, <3>1, TagsTyped DEF AbinderMark
  <2>3. QED BY <2>1, <2>2
<1>3. [ts[t] EXCEPT !.tags = g] \in TransTask
  BY <1>1, <1>2 DEF TransTask
<1>4. ts' \in [Tasks -> TransTask]
  BY <1>1, <1>2, <1>3
<1>5. UNCHANGED <<se, ux_list, refs, curr, features, scene, kwin>>
  BY DEF ConvertUxPrio, AbinderMark
<1>6. QED BY <1>4, <1>5, QuietStepInv DEF IInv, TypeOK

\* Scene, features and the kworker window.
LEMMA MaskStepInv ==
  ASSUME IInv,
         \/ \E s \in SceneSets, cancel \in BOOLEAN : SetScene(s, cancel)
         \/ \E f \in FeatureSets : SetFeatures(f)
         \/ WindowExpires
         \/ UNCHANGED schedVars
  PROVE  IInv'
<1>1. UNCHANGED <<ts, se, ux_list, refs, curr>>
  BY DEF SetScene, SetFeatures, WindowExpires, schedVars
<1>2. features' \in SUBSET Features /\ scene' \in SUBSET Scenes
  BY MasksAssumption DEF SetScene, SetFeatures, WindowExpires, schedVars, IInv, TypeOK
<1>3. kwin' \in {"closed", "open", "expired"}
  BY DEF SetScene, SetFeatures, WindowExpires, schedVars, IInv, TypeOK
<1>4. QED BY <1>1, <1>2, <1>3, QuietStepInv DEF IInv, TypeOK

----------------------------------------------------------------------------
(* The theorems.                                                           *)

\* Nothing is listed, referenced or running at the start.
LEMMA InitInv == Init => IInv
<1> SUFFICES ASSUME Init PROVE IInv
  OBVIOUS
<1>1. TypeOK
  <2>1. ts \in [Tasks -> TransTask]
    BY TaskTyped DEF Init
  <2>2. se \in [Tasks -> SchedEntity]
    <3> DEFINE e(c) == [cpu |-> c, on_rq |-> "no", running |-> FALSE, rt |-> FALSE,
                        life |-> "live"]
    <3>1. \A c \in Cpus : e(c) \in SchedEntity
      BY DEF SchedEntity
    <3>2. se \in [Tasks -> {e(c) : c \in Cpus}]
      BY DEF Init
    <3> HIDE DEF e
    <3>3. QED BY <3>1, <3>2
  <2>3. features \in SUBSET Features
    BY MasksAssumption DEF Init
  <2>4. ux_list \in [Cpus -> Seq(Tasks)] /\ refs \in [Tasks -> Int]
    BY DEF Init
  <2>5. QED BY <2>1, <2>2, <2>3, <2>4 DEF Init, TypeOK
<1>2. \A c \in Cpus, t \in Tasks : ~Listed(ux_list[c], t)
  BY DEF Init, Listed
<1>3. NoDuplicates
  BY DEF Init, NoDuplicates, Distinct
<1>4. QED BY <1>1, <1>2, <1>3 DEF Init, IInv, RefBalance, OnUxList, ListedAtHome, CurrAtHome

\* Every step of the kernel and of userland keeps the invariant.
LEMMA StepInv == IInv /\ [Next]_schedVars => IInv'
<1> SUFFICES ASSUME IInv, [Next]_schedVars PROVE IInv'
  OBVIOUS
<1>1. CASE Kernel
  <2>1. CASE \E c \in Cpus : Schedule(c) \/ \E d \in 1..MaxCharge : Tick(c, d)
    BY <2>1, ScheduleInv, TickInv
  <2>2. ASSUME NEW t \in Tasks, \E w \in BOOLEAN : Deactivate(t, w) PROVE IInv'
    BY <2>2, DeactivateInv
  <2>3. ASSUME NEW t \in Tasks, NEW c \in Cpus,
               Activate(t, c) \/ \E rt \in BOOLEAN : Detach(t, c, rt)
        PROVE  IInv'
    BY <2>3, ActivateInv, DetachInv
  <2>4. ASSUME NEW t \in Tasks, Attach(t) PROVE IInv'
    BY <2>4, AttachInv
  <2>5. ASSUME NEW t \in Tasks,
               SetSleeping(t) \/ WakeQueued(t) \/ Exit(t) \/ FreeTask(t) \/ Fork(t)
        PROVE  IInv'
    BY <2>5, EntityStepInv
  <2>6. CASE WindowExpires
    BY <2>6, MaskStepInv
  <2>7. QED BY <1>1, <2>1, <2>2, <2>3, <2>4, <2>5, <2>6 DEF Kernel
<1>2. CASE Userland
  <2>1. ASSUME NEW t \in Tasks, NEW req \in Requests, SetUxTags(t, req) PROVE IInv'
    BY <2>1, SetUxTagsInv
  <2>2. ASSUME NEW t \in Tasks,
               (\E s \in Shifts : ConvertUxPrio(t, s)) \/ (\E on \in BOOLEAN : AbinderMark(t, on))
        PROVE  IInv'
    BY <2>2, RetagStepInv
  <2>3. CASE \/ \E s \in SceneSets, cancel \in BOOLEAN : SetScene(s, cancel)
             \/ \E f \in FeatureSets : SetFeatures(f)
    BY <2>3, MaskStepInv
  <2>4. QED BY <1>2, <2>1, <2>2, <2>3 DEF Userland
<1>3. CASE UNCHANGED schedVars
  BY <1>3, MaskStepInv
<1>4. QED BY <1>1, <1>2, <1>3 DEF Next

\* The inductive invariant: types, list uniqueness, reference balance, listed tasks
\* queued at home, and current tasks belonging to their CPU.
THEOREM InvariantHolds == Spec => []IInv
BY InitInv, StepInv, PTL DEF Spec

\* Every variable keeps its type: in particular tags and shares fit their bit
\* fields and no list ever holds anything but tasks.
THEOREM TypeCorrect == Spec => []TypeOK
<1>1. IInv => TypeOK
  BY DEF IInv
<1>2. QED BY <1>1, InvariantHolds, PTL

\* get_task_struct and put_task_struct are balanced over the UX lists.
THEOREM ReferencesBalanced == Spec => []RefBalance
<1>1. IInv => RefBalance
  BY DEF IInv
<1>2. QED BY <1>1, InvariantHolds, PTL

\* A task on a UX list is queued on the run queue of that list.
THEOREM ListedTasksAtHome == Spec => []ListedAtHome
<1>1. IInv => ListedAtHome
  BY DEF IInv
<1>2. QED BY <1>1, InvariantHolds, PTL

\* No UX list holds a task twice.
THEOREM NoTaskListedTwice == Spec => []NoDuplicates
<1>1. IInv => NoDuplicates
  BY DEF IInv
<1>2. QED BY <1>1, InvariantHolds, PTL

----------------------------------------------------------------------------
(* What a step may make of one task's trans_task_struct.  The properties   *)
(* below look at four of its fields; everything else in a step is noise.   *)

SameTags(x, y) ==
  y.tags = x.tags /\ y.share = x.share /\ y.pending = x.pending /\ y.magic = x.magic

\* set_ux_tags_to_task, for a request that is put off and one that is granted.
Granted(x, req) ==
  LET v == PendingDecision(x.tags, x.pending, req)
      y == InitTask([x EXCEPT !.pending = v.pending])
      g == IF v.tags = NoTags THEN NoTags ELSE InitDprio(v.tags)
  IN [y EXCEPT !.tags = g, !.share = NoShare, !.period = 0, !.magic = @ /\ g # NoTags]

Asked(x, y, req) ==
  LET v == PendingDecision(x.tags, x.pending, req)
  IN \/ v.ignore /\ y = [x EXCEPT !.pending = v.pending]
     \/ ~v.ignore /\ y = Granted(x, req)

Retagged(x, y) ==
  \/ CheckTagsOk(x.tags) /\ \E s \in Shifts : SameTags([x EXCEPT !.tags = Shifted(@, s)], y)
  \/ SameTags([x EXCEPT !.tags = SetFlag(@, "ABINDER")], y)
  \/ SameTags([x EXCEPT !.tags = ClearFlag(@, "ABINDER")], y)

TaskStep(t) ==
  \/ SameTags(ts[t], ts'[t])
  \/ ts[t].tags.share # {} /\ SameTags(ClearTags(ts[t]), ts'[t])
  \/ ~Alive(t) /\ ts'[t] = FreshTask
  \/ \E req \in Requests : SetUxTags(t, req) /\ Asked(ts[t], ts'[t], req)
  \/ Retagged(ts[t], ts'[t])

\* Leaving a run queue changes the tags of a task only by ending its share.
LEMMA DequeueTask ==
  ASSUME IInv, NEW t \in Tasks, NEW sleep \in BOOLEAN, NEW iowait \in BOOLEAN,
         DequeueUx(t, sleep, iowait)
  PROVE  /\ \A u \in Tasks \ {t} : ts'[u] = ts[u]
         /\ SameTags(ts[t], ts'[t])
              \/ (ts[t].tags.share # {} /\ SameTags(ClearTags(ts[t]), ts'[t]))
<1> DEFINE x == ts[t]
           y == IF OnUxList(t) /\ ShareOver(x, sleep) THEN ClearTags(x) ELSE x
<1>1. ts' = [ts EXCEPT ![t] = IF se[t].running THEN y ELSE [y EXCEPT !.total_run = 0]]
  BY DEF DequeueUx
<1>2. ts \in [Tasks -> TransTask] /\ x \in TransTask /\ ClearTags(x) \in TransTask
  BY TaskTyped DEF IInv, TypeOK
<1>3. \A z \in TransTask : SameTags(z, [z EXCEPT !.total_run = 0]) /\ SameTags(z, z)
  BY DEF TransTask, SameTags
<1>4. y \in TransTask /\ SameTags(y, ts'[t])
  <2>1. y \in TransTask
    BY <1>2
  <2> HIDE DEF y
  <2>2. QED BY <1>1, <1>2, <1>3, <2>1
<1>5. y = x \/ (x.tags.share # {} /\ y = ClearTags(x))
  BY DEF ShareOver
<1>6. QED BY <1>1, <1>2, <1>4, <1>5

\* A tick changes no tags, only the runtime charged.
LEMMA TickTask ==
  ASSUME IInv, NEW c \in Cpus, NEW d \in 1..MaxCharge, Tick(c, d), NEW u \in Tasks
  PROVE  SameTags(ts[u], ts'[u])
<1> DEFINE t == curr[c]
           x == ts[t]
           aged == [x EXCEPT !.period = IF x.tags.share # {} THEN Cap(@ + d) ELSE @]
           charged == [aged EXCEPT !.total_run = Cap(@ + d)]
<1>1. t # Idle /\ (ts' = [ts EXCEPT ![t] = charged] \/ ts' = [ts EXCEPT ![t] = aged])
  BY DEF Tick
<1>2. t \in Tasks /\ ts \in [Tasks -> TransTask] /\ x \in TransTask
  BY <1>1 DEF IInv, TypeOK
<1>3. SameTags(x, aged) /\ SameTags(x, charged)
  BY <1>2 DEF TransTask, SameTags
<1> HIDE DEF aged, charged
<1>4. QED BY <1>1, <1>2, <1>3 DEF SameTags

\* Every step changes the tags of a task in one of the ways of TaskStep.
LEMMA TaskSteps ==
  ASSUME IInv, [Next]_schedVars, NEW u \in Tasks
  PROVE  TaskStep(u)
<1>1. ts \in [Tasks -> TransTask] /\ ts[u] \in TransTask
  BY DEF IInv, TypeOK
<1>2. ts'[u] = ts[u] => TaskStep(u)
  BY DEF TaskStep, SameTags
<1>3. CASE \E c \in Cpus, d \in 1..MaxCharge : Tick(c, d)
  BY <1>3, TickTask DEF TaskStep
<1>4. ASSUME NEW t \in Tasks, (\E w \in BOOLEAN : Deactivate(t, w))
                              \/ (\E c \in Cpus, rt \in BOOLEAN : Detach(t, c, rt))
      PROVE  TaskStep(u)
  <2>1. PICK sleep \in BOOLEAN, iowait \in BOOLEAN : DequeueUx(t, sleep, iowait)
    BY <1>4 DEF Deactivate, Detach
  <2>2. QED BY <1>2, <2>1, DequeueTask DEF TaskStep
<1>5. ASSUME NEW t \in Tasks, FreeTask(t) \/ Fork(t)
      PROVE  TaskStep(u)
  <2>1. ts' = [ts EXCEPT ![t] = FreshTask] /\ ~Alive(t)
    BY <1>5 DEF FreeTask, Fork, Alive
  <2>2. QED BY <1>1, <1>2, <2>1 DEF TaskStep
<1>6. ASSUME NEW t \in Tasks, NEW req \in Requests, SetUxTags(t, req)
      PROVE  TaskStep(u)
  <2>1. CASE u # t
    <3>1. ts'[u] = ts[u]
      BY <1>1, <1>6, <2>1 DEF SetUxTags
    <3>2. QED BY <1>2, <3>1
  <2>2. CASE u = t
    <3>1. Asked(ts[t], ts'[t], req)
      BY <1>1, <1>6, <2>2 DEF SetUxTags, Asked, Granted
    <3>2. QED BY <1>6, <2>2, <3>1 DEF TaskStep
  <2>3. QED BY <2>1, <2>2
<1>7. ASSUME NEW t \in Tasks,
             (\E s \in Shifts : ConvertUxPrio(t, s)) \/ (\E on \in BOOLEAN : AbinderMark(t, on))
      PROVE  TaskStep(u)
  <2>1. \/ CheckTagsOk(ts[t].tags) /\ \E s \in Shifts : ts' = [ts EXCEPT ![t].tags = Shifted(@, s)]
        \/ ts' = [ts EXCEPT ![t].tags = SetFlag(@, "ABINDER")]
        \/ ts' = [ts EXCEPT ![t].tags = ClearFlag(@, "ABINDER")]
    BY <1>7 DEF ConvertUxPrio, AbinderMark
  <2>2. u # t => ts'[u] = ts[u]
    BY <1>1, <2>1
  <2>3. u = t => Retagged(ts[t], ts'[t])
    BY <1>1, <2>1 DEF Retagged, SameTags
  <2>4. QED BY <1>2, <2>2, <2>3 DEF TaskStep
<1>8. CASE UNCHANGED ts
  BY <1>2, <1>8
<1>9. QED
  BY <1>3, <1>4, <1>5, <1>6, <1>7, <1>8
  DEF Next, Kernel, Userland, Schedule, SetSleeping, WakeQueued, Attach, Activate, Exit,
      WindowExpires, SetScene, SetFeatures, schedVars

----------------------------------------------------------------------------
(* Overlapping requests.                                                   *)

\* A task is marked initialised when it has a UX priority or a share, and what
\* waits for it is a template: it has a priority and no share bits.
Settled(x) ==
  /\ x.magic <=> CheckTagsOk(x.tags) \/ x.tags.share # {}
  /\ x.pending = NoTags \/ (CheckTagsOk(x.pending) /\ x.pending.share = {})

\* Without inheritance no tags have share bits, and what waits is the weaker.
Weaker(x) ==
  x.tags.share = {} /\ (x.pending = NoTags \/ x.pending.sprio <= x.tags.sprio)

StackInv == IInv /\ \A t \in Tasks : Settled(ts[t]) /\ Weaker(ts[t])

\* However the two words of a task stand, two cancels in a row leave no tags.
LEMMA CancelTwice ==
  ASSUME NEW cur, NEW pend
  PROVE  LET v == PendingDecision(cur, pend, NoTags)
             w == PendingDecision(IF v.ignore THEN cur ELSE v.tags, v.pending, NoTags)
         IN ~w.ignore /\ w.tags = NoTags
<1>1. CASE cur = NoTags \/ cur.share # {} \/ pend = NoTags
  BY <1>1 DEF PendingDecision, Verdict
<1>2. CASE ~(cur = NoTags \/ cur.share # {} \/ pend = NoTags)
  BY <1>2 DEF PendingDecision, Restore, Verdict
<1>3. QED BY <1>1, <1>2

\* What update_ux_pending decides for a settled task: whatever it puts in force or
\* remembers is a template or nothing.
LEMMA DecisionSettled ==
  ASSUME NEW x \in TransTask, Settled(x), NEW req \in Requests,
         NEW v, v = PendingDecision(x.tags, x.pending, req)
  PROVE  /\ v \in [ignore : BOOLEAN, tags : Tags, pending : Tags]
         /\ ~v.ignore => v.tags = NoTags \/ (CheckTagsOk(v.tags) /\ v.tags.share = {})
         /\ x.magic \/ v.ignore =>
              v.pending = NoTags \/ (CheckTagsOk(v.pending) /\ v.pending.share = {})
<1>1. /\ x.tags \in Tags /\ x.pending \in Tags /\ req \in Tags
      /\ req = NoTags \/ (CheckTagsOk(req) /\ req.share = {})
  BY RequestsAssumption DEF TransTask
<1>2. v \in [ignore : BOOLEAN, tags : Tags, pending : Tags]
  BY <1>1, PendingTyped
<1>3. CASE x.tags = NoTags \/ x.tags.share # {} \/ (req = NoTags /\ x.pending = NoTags)
  BY <1>1, <1>2, <1>3 DEF PendingDecision, Verdict, Settled
<1>4. CASE ~(x.tags = NoTags \/ x.tags.share # {} \/ (req = NoTags /\ x.pending = NoTags))
  BY <1>1, <1>2, <1>4 DEF PendingDecision, Overlap, Restore, Verdict, Settled
<1>5. QED BY <1>2, <1>3, <1>4

\* A granted request: the tags are the decision's, the share is gone, and only a
\* task that was marked remembers anything.
LEMMA GrantedFacts ==
  ASSUME NEW x \in TransTask, Settled(x), NEW req \in Requests,
         NEW v, v = PendingDecision(x.tags, x.pending, req), ~v.ignore
  PROVE  LET y == Granted(x, req) IN
         /\ y.tags.sprio = v.tags.sprio /\ y.tags.share = {} /\ y.share = NoShare
         /\ y.magic <=> CheckTagsOk(y.tags)
         /\ y.pending = IF x.magic THEN v.pending ELSE NoTags
<1> DEFINE r == InitTask([x EXCEPT !.pending = v.pending])
           g == IF v.tags = NoTags THEN NoTags ELSE InitDprio(v.tags)
<1>1. /\ v.tags \in Tags /\ v.pending \in Tags
      /\ v.tags = NoTags \/ (CheckTagsOk(v.tags) /\ v.tags.share = {})
  BY DecisionSettled
<1>2. g \in Tags /\ g.sprio = v.tags.sprio /\ g.share = {}
  <2>1. g \in Tags
    BY <1>1, TagsTyped
  <2>2. g.sprio = v.tags.sprio /\ g.share = v.tags.share
    BY <1>1 DEF InitDprio, Tags
  <2>3. QED BY <1>1, <2>1, <2>2 DEF NoTags
<1>3. g # NoTags <=> CheckTagsOk(g)
  BY <1>1, <1>2 DEF CheckTagsOk, NoTags
<1>4. r \in TransTask /\ r.magic /\ r.pending = IF x.magic THEN v.pending ELSE NoTags
  <2>1. [x EXCEPT !.pending = v.pending] \in TransTask
    BY <1>1 DEF TransTask
  <2>2. r \in TransTask
    BY <2>1, TaskTyped
  <2>3. r.magic /\ r.pending = IF x.magic THEN v.pending ELSE NoTags
    BY <2>1 DEF InitTask, TransTask, FreshTask
  <2>4. QED BY <2>2, <2>3
<1>5. Granted(x, req) = [r EXCEPT !.tags = g, !.share = NoShare, !.period = 0,
                                  !.magic = @ /\ g # NoTags]
  BY DEF Granted
<1> HIDE DEF r, g
<1>6. QED BY <1>2, <1>3, <1>4, <1>5 DEF TransTask

\* Shifting a dynamic priority, or changing a flag, keeps the other fields.
LEMMA TagFields ==
  ASSUME NEW g \in Tags
  PROVE  /\ \A f : /\ SetFlag(g, f).sprio = g.sprio /\ ClearFlag(g, f).sprio = g.sprio
                   /\ SetFlag(g, f).share = g.share /\ ClearFlag(g, f).share = g.share
                   /\ SetFlag(g, f).slice = g.slice /\ ClearFlag(g, f).slice = g.slice
         /\ \A s \in Shifts : /\ Shifted(g, s).sprio = g.sprio
                              /\ Shifted(g, s).share = g.share
                              /\ Shifted(g, s).slice = g.slice
                              /\ Shifted(g, s).flags = g.flags
<1>1. \A f : /\ SetFlag(g, f).sprio = g.sprio /\ ClearFlag(g, f).sprio = g.sprio
             /\ SetFlag(g, f).share = g.share /\ ClearFlag(g, f).share = g.share
             /\ SetFlag(g, f).slice = g.slice /\ ClearFlag(g, f).slice = g.slice
  BY DEF SetFlag, ClearFlag, Tags
<1>2. \A d : LET h == [g EXCEPT !.dprio = d] IN
        h.sprio = g.sprio /\ h.share = g.share /\ h.slice = g.slice /\ h.flags = g.flags
  BY DEF Tags
<1>3. QED
  BY <1>1, <1>2, ShiftsAssumption DEF Shifted, RaiseDprio, LowerDprio, RebaseDprio

\* Retagging in place keeps a task's priority, share, mark and pending request.
LEMMA RetaggedFields ==
  ASSUME NEW x \in TransTask, NEW y, Retagged(x, y)
  PROVE  /\ y.tags.sprio = x.tags.sprio /\ y.tags.share = x.tags.share
         /\ y.share = x.share /\ y.pending = x.pending /\ y.magic = x.magic
<1>1. x.tags \in Tags
  BY DEF TransTask
<1>2. \A g : SameTags([x EXCEPT !.tags = g], y) =>
        y.tags = g /\ y.share = x.share /\ y.pending = x.pending /\ y.magic = x.magic
  BY DEF SameTags, TransTask
<1>3. CASE \E s \in Shifts : SameTags([x EXCEPT !.tags = Shifted(@, s)], y)
  <2>1. PICK s \in Shifts : SameTags([x EXCEPT !.tags = Shifted(x.tags, s)], y)
    BY <1>3
  <2>2. y.tags = Shifted(x.tags, s)
    BY <1>2, <2>1
  <2>3. QED BY <1>1, <1>2, <2>1, <2>2, TagFields
<1>4. CASE \/ SameTags([x EXCEPT !.tags = SetFlag(@, "ABINDER")], y)
           \/ SameTags([x EXCEPT !.tags = ClearFlag(@, "ABINDER")], y)
  <2>1. y.tags = SetFlag(x.tags, "ABINDER") \/ y.tags = ClearFlag(x.tags, "ABINDER")
    BY <1>2, <1>4
  <2>2. y.share = x.share /\ y.pending = x.pending /\ y.magic = x.magic
    BY <1>2, <1>4
  <2>3. QED BY <1>1, <2>1, <2>2, TagFields
<1>5. QED BY <1>3, <1>4 DEF Retagged

\* A cleared share leaves nothing but the pending request.
LEMMA ClearedFields ==
  ASSUME NEW x \in TransTask
  PROVE  /\ ClearTags(x).tags = NoTags /\ ClearTags(x).share = NoShare
         /\ ~ClearTags(x).magic /\ ClearTags(x).pending = x.pending
BY DEF ClearTags, TransTask

\* A settled task stays settled.
LEMMA SettledStep ==
  ASSUME IInv, NEW t \in Tasks, Settled(ts[t]), TaskStep(t)
  PROVE  Settled(ts'[t])
<1>1. ts[t] \in TransTask
  BY DEF IInv, TypeOK
<1>2. CASE SameTags(ts[t], ts'[t])
  BY <1>2 DEF SameTags, Settled
<1>3. CASE SameTags(ClearTags(ts[t]), ts'[t])
  BY <1>1, <1>3, ClearedFields DEF SameTags, Settled, NoTags, CheckTagsOk
<1>4. CASE ts'[t] = FreshTask
  BY <1>4 DEF FreshTask, Settled, NoTags, CheckTagsOk
<1>5. ASSUME NEW req \in Requests, Asked(ts[t], ts'[t], req) PROVE Settled(ts'[t])
  <2> DEFINE v == PendingDecision(ts[t].tags, ts[t].pending, req)
  <2>1. CASE v.ignore
    <3>1. ts'[t] = [ts[t] EXCEPT !.pending = v.pending]
      BY <1>5, <2>1 DEF Asked
    <3>2. v.pending = NoTags \/ (CheckTagsOk(v.pending) /\ v.pending.share = {})
      BY <1>1, <2>1, DecisionSettled
    <3> HIDE DEF v
    <3>3. QED BY <1>1, <3>1, <3>2 DEF Settled, TransTask
  <2>2. CASE ~v.ignore
    <3>1. ts'[t] = Granted(ts[t], req)
      BY <1>5, <2>2 DEF Asked
    <3>2. ts[t].magic =>
            v.pending = NoTags \/ (CheckTagsOk(v.pending) /\ v.pending.share = {})
      BY <1>1, DecisionSettled
    <3>3. /\ ts'[t].tags.share = {}
          /\ ts'[t].magic <=> CheckTagsOk(ts'[t].tags)
          /\ ts'[t].pending = IF ts[t].magic THEN v.pending ELSE NoTags
      BY <1>1, <2>2, <3>1, GrantedFacts
    <3> HIDE DEF v
    <3>4. QED BY <3>2, <3>3 DEF Settled
  <2>3. QED BY <2>1, <2>2
<1>6. CASE Retagged(ts[t], ts'[t])
  BY <1>1, <1>6, RetaggedFields DEF Settled, CheckTagsOk
<1>7. QED BY <1>2, <1>3, <1>4, <1>5, <1>6 DEF TaskStep

\* Without inheritance, what is remembered of two requests stays the weaker one.
LEMMA WeakerStep ==
  ASSUME IInv, NEW t \in Tasks, Settled(ts[t]), Weaker(ts[t]), TaskStep(t)
  PROVE  Weaker(ts'[t])
<1>1. ts[t] \in TransTask /\ ts[t].tags \in Tags /\ ts[t].pending \in Tags
  BY DEF IInv, TypeOK, TransTask
<1>2. CASE SameTags(ts[t], ts'[t])
  BY <1>2 DEF SameTags, Weaker
<1>3. CASE ts[t].tags.share # {} /\ SameTags(ClearTags(ts[t]), ts'[t])
  BY <1>3 DEF Weaker
<1>4. CASE ts'[t] = FreshTask
  BY <1>4 DEF FreshTask, Weaker, NoTags
<1>5. ASSUME NEW req \in Requests, Asked(ts[t], ts'[t], req) PROVE Weaker(ts'[t])
  <2> DEFINE v == PendingDecision(ts[t].tags, ts[t].pending, req)
  <2>1. req \in Tags /\ v \in [ignore : BOOLEAN, tags : Tags, pending : Tags]
    BY <1>1, DecisionSettled, RequestsAssumption
  <2>2. /\ v.ignore => v.pending = NoTags \/ v.pending.sprio <= ts[t].tags.sprio
        /\ ~v.ignore => v.pending = NoTags \/ v.pending.sprio <= v.tags.sprio
    <3>1. ts[t].tags = NoTags => ts[t].pending = NoTags
      BY <1>1 DEF Weaker, Settled, NoTags, CheckTagsOk, Tags
    <3>2. CASE ts[t].tags = NoTags \/ (req = NoTags /\ ts[t].pending = NoTags)
      BY <3>1, <3>2 DEF PendingDecision, Verdict
    <3>3. CASE ~(ts[t].tags = NoTags \/ (req = NoTags /\ ts[t].pending = NoTags))
      <4>1. ts[t].tags.sprio \in Int /\ req.sprio \in Int /\ ts[t].pending.sprio \in Int
        BY <1>1, <2>1 DEF Tags
      <4>2. QED
        BY <3>3, <4>1 DEF Weaker, PendingDecision, Overlap, Restore, Verdict
    <3>4. QED BY <3>2, <3>3
  <2>3. CASE v.ignore
    <3>1. ts'[t] = [ts[t] EXCEPT !.pending = v.pending]
      BY <1>5, <2>3 DEF Asked
    <3> HIDE DEF v
    <3>2. QED BY <1>1, <2>2, <2>3, <3>1 DEF Weaker, TransTask
  <2>4. CASE ~v.ignore
    <3>1. ts'[t] = Granted(ts[t], req)
      BY <1>5, <2>4 DEF Asked
    <3>2. /\ ts'[t].tags.share = {} /\ ts'[t].tags.sprio = v.tags.sprio
          /\ ts'[t].pending = IF ts[t].magic THEN v.pending ELSE NoTags
      BY <1>1, <2>4, <3>1, GrantedFacts
    <3> HIDE DEF v
    <3>3. QED BY <2>2, <2>4, <3>2 DEF Weaker
  <2>5. QED BY <2>3, <2>4
<1>6. CASE Retagged(ts[t], ts'[t])
  BY <1>1, <1>6, RetaggedFields DEF Weaker
<1>7. QED BY <1>2, <1>3, <1>4, <1>5, <1>6 DEF TaskStep

\* The invariant of overlapping requests.
LEMMA StackInvHolds == Spec => []StackInv
<1>1. Init => StackInv
  <2> SUFFICES ASSUME Init PROVE \A t \in Tasks : Settled(ts[t]) /\ Weaker(ts[t])
    BY InitInv DEF StackInv
  <2>1. \A t \in Tasks : ts[t] = FreshTask
    BY DEF Init
  <2>2. Settled(FreshTask) /\ Weaker(FreshTask)
    BY DEF FreshTask, Settled, Weaker, NoTags, CheckTagsOk
  <2>3. QED BY <2>1, <2>2
<1>2. StackInv /\ [Next]_schedVars => StackInv'
  <2> SUFFICES ASSUME StackInv, [Next]_schedVars PROVE StackInv'
    OBVIOUS
  <2>1. IInv /\ IInv'
    BY StepInv DEF StackInv
  <2>2. ASSUME NEW t \in Tasks PROVE Settled(ts'[t]) /\ Weaker(ts'[t])
    BY <2>1, TaskSteps, SettledStep, WeakerStep DEF StackInv
  <2>3. QED BY <2>1, <2>2 DEF StackInv
<1>3. QED BY <1>1, <1>2, PTL DEF Spec

\* Of two overlapping requests the one that waits never has the higher priority,
\* and nothing waits for a task whose tags are gone.
THEOREM WaitingIsWeaker == Spec => []PendingIsWeaker
<1>1. StackInv => PendingIsWeaker
  BY DEF StackInv, Weaker, PendingIsWeaker
<1>2. QED BY <1>1, StackInvHolds, PTL

\* Two cancels in a row clear a task however requests were stacked on it.
THEOREM CancelsClear == Spec => []TwoCancelsClear
<1>1. TwoCancelsClear
  BY CancelTwice DEF TwoCancelsClear
<1>2. QED BY <1>1, PTL

----------------------------------------------------------------------------
(* Eligible tasks stay listed.                                             *)

\* get_ux_state_type returns UX_STATE_REAL when none of its reasons applies.
Eligible(t) ==
  /\ "DEFAULT" \in features /\ ~se[t].rt /\ CheckTagsOk(ts[t].tags)
  /\ ~(KworkerType(t) /\ kwin = "closed")
  /\ se[t].life = "live" /\ ~(ts[t].total_run > RunLimit(t))

\* It is the code's is_ux_task, spelled out.
LEMMA UxIsEligible ==
  ASSUME NEW t
  PROVE  (IsUxTask(t) <=> Eligible(t)) /\ (IsUxTask(t)' <=> Eligible(t)')
<1>1. IsUxTask(t) <=> Eligible(t)
  BY DEF IsUxTask, UxState, Eligible
<1>2. IsUxTask(t)' <=> Eligible(t)'
  BY DEF IsUxTask, UxState, Eligible
<1>3. QED BY <1>1, <1>2

\* The run limit follows from the slice, the share, the type and the scene.
LEMMA LimitKept ==
  ASSUME NEW t \in Tasks, UNCHANGED scene, ts[t].tags \in Tags, ts'[t].tags \in Tags,
         CheckTagsOk(ts[t].tags), ts'[t].tags.sprio = ts[t].tags.sprio,
         ts'[t].tags.slice = ts[t].tags.slice, ts'[t].tags.share = ts[t].tags.share,
         KworkerType(t)' <=> KworkerType(t)
  PROVE  RunLimit(t)' = RunLimit(t)
<1>1. \A g \in Tags : CheckTagsOk(g) => RunSlice(g) = SliceLen[g.slice]
  BY DEF RunSlice, IgnoreShare, CheckTagsOk, NoTags, Tags
<1>2. RunSlice(ts[t].tags)' = RunSlice(ts[t].tags)
  BY <1>1 DEF CheckTagsOk
<1>3. QED BY <1>2 DEF RunLimit

\* A step that leaves all of this alone, or only closes the kworker window, makes
\* nobody eligible.
LEMMA NotMadeEligible ==
  ASSUME IInv, NEW t \in Tasks, UNCHANGED <<features, scene>>, ts' \in [Tasks -> TransTask],
         se'[t].rt = se[t].rt, se'[t].life = se[t].life,
         ts'[t].total_run = ts[t].total_run,
         ts'[t].tags.sprio = ts[t].tags.sprio, ts'[t].tags.slice = ts[t].tags.slice,
         ts'[t].tags.share = ts[t].tags.share,
         KworkerType(t)' <=> KworkerType(t),
         KworkerType(t) /\ kwin = "closed" => kwin' = "closed",
         IsUxTask(t)'
  PROVE  IsUxTask(t)
<1>1. ts[t].tags \in Tags /\ ts'[t].tags \in Tags
  BY DEF IInv, TypeOK, TransTask
<1>2. Eligible(t)'
  BY UxIsEligible
<1>3. CheckTagsOk(ts[t].tags)
  BY <1>2 DEF Eligible, CheckTagsOk
<1>4. RunLimit(t)' = RunLimit(t)
  BY <1>1, <1>3, LimitKept
<1>5. Eligible(t)
  BY <1>2, <1>3, <1>4 DEF Eligible
<1>6. QED BY <1>5, UxIsEligible

\* A step that also leaves the task's place alone misses nobody it did not miss before.
LEMMA NotMadeMissed ==
  ASSUME NEW t \in Tasks, IsUxTask(t)' => IsUxTask(t), OnUxList(t) => OnUxList(t)',
         se'[t].on_rq = se[t].on_rq, se'[t].running = se[t].running, Missed(t)'
  PROVE  Missed(t)
BY DEF Missed

\* A task that a step does not touch is missed only if the kworker window opens.
LEMMA OthersKept ==
  ASSUME IInv, NEW t \in Tasks, UNCHANGED <<features, scene>>, ts' \in [Tasks -> TransTask],
         se'[t] = se[t], ts'[t] = ts[t], OnUxList(t) => OnUxList(t)',
         KworkerType(t) /\ kwin = "closed" => kwin' = "closed",
         Missed(t)'
  PROVE  Missed(t)
<1>1. KworkerType(t)' <=> KworkerType(t)
  BY DEF KworkerType
<1>2. IsUxTask(t)' => IsUxTask(t)
  BY <1>1, NotMadeEligible
<1>3. QED BY <1>2, NotMadeMissed

\* What enqueue_ux_task does with an eligible task: it ends on a list, or it is a
\* kworker that came too late and is not eligible any more.
LEMMA EnqueueLists ==
  ASSUME IInv, NEW t \in Tasks, NEW c \in Cpus, EnqueueUx(t, c)
  PROVE  /\ kwin' = kwin \/ kwin' = "closed"
         /\ \A u \in Tasks : OnUxList(u) => OnUxList(u)'
         /\ IsUxTask(t) => OnUxList(t)' \/ (KworkerType(t) /\ kwin' = "closed")
<1>1. kwin' = kwin \/ kwin' = "closed"
  BY DEF EnqueueUx
<1>2. CASE UNCHANGED <<ux_list, refs>>
  <2>1. \A u \in Tasks : OnUxList(u) <=> OnUxList(u)'
    BY <1>2 DEF OnUxList
  <2>2. CASE ~OnUxList(t)
    <3>1. \A w : Link(t, c, w) => refs' # refs
      BY DEF Link, IInv, TypeOK
    <3>2. IsUxTask(t) => KworkerLate(t) /\ kwin' = "closed"
      BY <1>2, <2>2, <3>1 DEF EnqueueUx
    <3>3. QED BY <1>1, <2>1, <3>2 DEF KworkerLate
  <2>3. QED BY <1>1, <2>1, <2>2
<1>3. CASE ~OnUxList(t) /\ Link(t, c, ts)
  <2>1. \A d \in Cpus, u \in Tasks :
          Listed(ux_list'[d], u) <=> Listed(ux_list[d], u) \/ (d = c /\ u = t)
    BY <1>3, IInvLists, LinkStep
  <2>2. QED BY <1>1, <2>1 DEF OnUxList
<1>4. QED BY <1>2, <1>3 DEF EnqueueUx

\* The tick takes a task off the list only when it is over its limit.
LEMMA TickMisses ==
  ASSUME IInv, IInv', NEW c \in Cpus, NEW d \in 1..MaxCharge, Tick(c, d),
         NEW u \in Tasks, Missed(u)'
  PROVE  Missed(u)
<1> DEFINE t == curr[c]
           x == ts[t]
           aged == [x EXCEPT !.period = IF x.tags.share # {} THEN Cap(@ + d) ELSE @]
           charged == [aged EXCEPT !.total_run = Cap(@ + d)]
<1>1. /\ t # Idle /\ UNCHANGED <<se, curr, features, scene, kwin>>
      /\ IF OnUxList(t)
           THEN /\ ts' = [ts EXCEPT ![t] = charged]
                /\ IF charged.total_run > RunLimit(t)
                     THEN Unlink(t)
                     ELSE ux_list' = [ux_list EXCEPT ![c] = InsertUx(DeleteUx(@, t), t, ts)]
           ELSE ts' = [ts EXCEPT ![t] = aged] /\ UNCHANGED <<ux_list, refs>>
  BY DEF Tick
<1>2. /\ t \in Tasks /\ x \in TransTask /\ ts \in [Tasks -> TransTask]
      /\ ts' \in [Tasks -> TransTask]
  BY <1>1 DEF IInv, TypeOK
<1>3. /\ aged.total_run = x.total_run /\ aged.tags = x.tags
      /\ charged.tags = x.tags
  BY <1>2 DEF TransTask
<1> HIDE DEF aged, charged
<1>4. ts'[u].tags = ts[u].tags /\ KworkerType(u)' = KworkerType(u)
  BY <1>1, <1>2, <1>3 DEF KworkerType
<1>5. CASE ts'[u].total_run = ts[u].total_run /\ (OnUxList(u) => OnUxList(u)')
  <2>1. IsUxTask(u)' => IsUxTask(u)
    BY <1>1, <1>2, <1>4, <1>5, NotMadeEligible
  <2>2. QED BY <1>1, <1>5, <2>1, NotMadeMissed
<1>6. CASE ~OnUxList(t)
  <2>1. ts'[u].total_run = ts[u].total_run /\ (OnUxList(u) => OnUxList(u)')
    BY <1>1, <1>2, <1>3, <1>6 DEF OnUxList
  <2>2. QED BY <1>5, <2>1
<1>7. CASE OnUxList(t) /\ Unlink(t) /\ charged.total_run > RunLimit(t)
  <2>1. \A e \in Cpus, w \in Tasks : Listed(ux_list'[e], w) <=> Listed(ux_list[e], w) /\ w # t
    BY <1>2, <1>7, IInvLists, UnlinkStep
  <2>2. CASE u # t
    <3>1. ts'[u].total_run = ts[u].total_run /\ (OnUxList(u) => OnUxList(u)')
      BY <1>1, <1>2, <1>7, <2>1, <2>2 DEF OnUxList
    <3>2. QED BY <1>5, <3>1
  <2>3. CASE u = t
    <3>1. RunLimit(u)' = RunLimit(u)
      BY <1>1, <1>4 DEF RunLimit, KworkerType
    <3>2. ts'[u].total_run > RunLimit(u)'
      BY <1>1, <1>2, <1>7, <2>3, <3>1
    <3>3. ~IsUxTask(u)'
      BY <3>2, UxIsEligible DEF Eligible
    <3>4. QED BY <3>3 DEF Missed
  <2>4. QED BY <2>2, <2>3
<1>8. CASE OnUxList(t) /\ ux_list' = [ux_list EXCEPT ![c] = InsertUx(DeleteUx(@, t), t, ts)]
  <2>1. Listed(ux_list[c], t)
    <3>1. PICK e \in Cpus : Listed(ux_list[e], t)
      BY <1>8 DEF OnUxList
    <3>2. Queued(t, e) /\ se[t].cpu = c
      BY <1>1, <1>2, <3>1 DEF IInv, ListedAtHome, CurrAtHome
    <3>3. QED BY <3>1, <3>2 DEF Queued
  <2>2. ux_list[c] \in Seq(Tasks) /\ Distinct(ux_list[c])
    BY DEF IInv, TypeOK, NoDuplicates
  <2>3. /\ DeleteUx(ux_list[c], t) \in Seq(Tasks)
        /\ \A w : Listed(DeleteUx(ux_list[c], t), w) <=> Listed(ux_list[c], w) /\ w # t
    BY <2>1, <2>2, DeleteUxFacts
  <2>4. \A w : Listed(InsertUx(DeleteUx(ux_list[c], t), t, ts), w) <=> Listed(ux_list[c], w)
    BY <1>2, <2>1, <2>3, InsertUxFacts
  <2>5. \A e \in Cpus, w \in Tasks : Listed(ux_list'[e], w) <=> Listed(ux_list[e], w)
    BY <1>8, <2>4 DEF IInv, TypeOK
  <2>6. OnUxList(u) <=> OnUxList(u)'
    BY <2>5 DEF OnUxList
  <2>7. CASE u # t
    <3>1. ts'[u].total_run = ts[u].total_run
      BY <1>1, <1>2, <1>8, <2>7
    <3>2. QED BY <1>5, <2>6, <3>1
  <2>8. CASE u = t
    BY <1>8, <2>6, <2>8 DEF Missed
  <2>9. QED BY <2>7, <2>8
<1>9. QED BY <1>1, <1>6, <1>7, <1>8

\* What the code does not follow up.
Excused(t) ==
  \/ scene' # scene \/ features' # features
  \/ KworkerType(t) /\ kwin' = "open"
  \/ ~se[t].running /\ se[t].on_rq = "queued"

\* A task that joins a run queue is listed then and there.
LEMMA ArrivalMisses ==
  ASSUME IInv, IInv', NEW t \in Tasks, NEW c \in Cpus,
         Activate(t, c) \/ (Attach(t) /\ c = se[t].cpu),
         NEW u \in Tasks, Missed(u)'
  PROVE  Missed(u)
<1>1. /\ EnqueueUx(t, c) /\ UNCHANGED <<ts, features, scene>>
      /\ ts' \in [Tasks -> TransTask]
  BY DEF Activate, Attach, IInv, TypeOK
<1>2. /\ \A w \in Tasks : w # t => se'[w] = se[w]
      /\ se'[t].rt = se[t].rt /\ se'[t].life = se[t].life
  <2>1. se \in [Tasks -> SchedEntity] /\ se[t] \in SchedEntity
    BY DEF IInv, TypeOK
  <2>2. CASE Activate(t, c)
    <3>1. se' = [se EXCEPT ![t] = [se[t] EXCEPT !.cpu = c, !.on_rq = "queued", !.running = TRUE]]
      BY <2>1, <2>2 DEF Activate
    <3>2. QED BY <2>1, <3>1 DEF SchedEntity
  <2>3. CASE Attach(t)
    BY <2>1, <2>3 DEF Attach, SchedEntity
  <2>4. QED BY <2>2, <2>3
<1>3. /\ kwin' = kwin \/ kwin' = "closed"
      /\ OnUxList(u) => OnUxList(u)'
      /\ IsUxTask(t) => OnUxList(t)' \/ (KworkerType(t) /\ kwin' = "closed")
  BY <1>1, EnqueueLists
<1>4. CASE u # t
  BY <1>1, <1>2, <1>3, <1>4, OthersKept
<1>5. CASE u = t
  <2>1. KworkerType(t)' <=> KworkerType(t)
    BY <1>1 DEF KworkerType
  <2>2. IsUxTask(t)' => IsUxTask(t)
    BY <1>1, <1>2, <1>3, <2>1, NotMadeEligible
  <2>3. KworkerType(t) /\ kwin' = "closed" => ~IsUxTask(t)'
    BY <2>1, UxIsEligible DEF Eligible
  <2>4. QED BY <1>3, <1>5, <2>2, <2>3 DEF Missed
<1>6. QED BY <1>4, <1>5

\* A task that leaves a run queue is not queued; others notice nothing but the
\* kworker window.
LEMMA DepartureMisses ==
  ASSUME IInv, IInv', NEW t \in Tasks,
         \/ \E w \in BOOLEAN : Deactivate(t, w)
         \/ \E c \in Cpus, rt \in BOOLEAN : Detach(t, c, rt),
         NEW u \in Tasks, Missed(u)'
  PROVE  Missed(u) \/ Excused(u)
<1>1. PICK sleep \in BOOLEAN, iowait \in BOOLEAN : DequeueUx(t, sleep, iowait)
  BY DEF Deactivate, Detach
<1>2. /\ UNCHANGED <<features, scene>> /\ ts' \in [Tasks -> TransTask]
      /\ se'[t].on_rq # "queued" /\ \A w \in Tasks : w # t => se'[w] = se[w]
  <2>1. se \in [Tasks -> SchedEntity] /\ ts' \in [Tasks -> TransTask]
    BY DEF IInv, TypeOK
  <2>2. se'[t].on_rq # "queued" /\ \A w \in Tasks : w # t => se'[w] = se[w]
    <3>1. \A l : [se[t] EXCEPT !.on_rq = "no", !.life = l].on_rq = "no"
      BY <2>1 DEF SchedEntity
    <3>2. \A c, rt : [se[t] EXCEPT !.cpu = c, !.rt = rt, !.on_rq = "moving"].on_rq = "moving"
      BY <2>1 DEF SchedEntity
    <3>3. CASE \E w \in BOOLEAN : Deactivate(t, w)
      <4>1. PICK l : se' = [se EXCEPT ![t] = [se[t] EXCEPT !.on_rq = "no", !.life = l]]
        BY <2>1, <3>3 DEF Deactivate
      <4>2. QED BY <2>1, <3>1, <4>1
    <3>4. CASE \E c \in Cpus, rt \in BOOLEAN : Detach(t, c, rt)
      <4>1. PICK c, rt : se' = [se EXCEPT ![t] = [se[t] EXCEPT !.cpu = c, !.rt = rt,
                                                                !.on_rq = "moving"]]
        BY <2>1, <3>4 DEF Detach
      <4>2. QED BY <2>1, <3>2, <4>1
    <3>5. QED BY <3>3, <3>4
  <2>3. UNCHANGED <<features, scene>>
    BY DEF Deactivate, Detach
  <2>4. QED BY <2>1, <2>2, <2>3
<1>3. u # t
  BY <1>2 DEF Missed
<1>4. ts'[u] = ts[u] /\ se'[u] = se[u]
  BY <1>1, <1>2, <1>3, DequeueTask
<1>5. OnUxList(u) => OnUxList(u)'
  <2>1. CASE OnUxList(t)
    <3>1. \A d \in Cpus, w \in Tasks : Listed(ux_list'[d], w) <=> Listed(ux_list[d], w) /\ w # t
      BY <1>1, <2>1, IInvLists, UnlinkStep DEF DequeueUx
    <3>2. QED BY <1>3, <3>1 DEF OnUxList
  <2>2. CASE ~OnUxList(t)
    BY <1>1, <2>2 DEF DequeueUx, OnUxList
  <2>3. QED BY <2>1, <2>2
<1>6. CASE KworkerType(u) /\ kwin' = "open"
  BY <1>6 DEF Excused
<1>7. CASE ~(KworkerType(u) /\ kwin' = "open")
  <2>1. kwin' \in {kwin, "closed", "open"}
    BY <1>1 DEF DequeueUx
  <2>2. KworkerType(u) /\ kwin = "closed" => kwin' = "closed"
    BY <1>7, <2>1
  <2>3. QED BY <1>2, <1>4, <1>5, <2>2, OthersKept
<1>8. QED BY <1>6, <1>7

\* A request that is granted to a runnable task lists it.
LEMMA RequestMisses ==
  ASSUME IInv, IInv', NEW t \in Tasks, NEW req \in Requests, SetUxTags(t, req),
         NEW u \in Tasks, Missed(u)'
  PROVE  Missed(u)
<1> DEFINE x == ts[t]
           v == PendingDecision(x.tags, x.pending, req)
           g == IF v.tags = NoTags THEN NoTags ELSE InitDprio(v.tags)
           cond == CheckTagsOk(g) /\ ~("KWORKER" \in g.flags /\ kwin = "closed")
<1>1. /\ UNCHANGED <<se, features, scene, kwin>>
      /\ ts \in [Tasks -> TransTask] /\ ts' \in [Tasks -> TransTask]
  BY DEF SetUxTags, IInv, TypeOK
<1>2. CASE v.ignore
  <2>1. ts' = [ts EXCEPT ![t].pending = v.pending] /\ UNCHANGED <<ux_list, refs>>
    BY <1>2 DEF SetUxTags
  <2>2. ts'[u].total_run = ts[u].total_run /\ ts'[u].tags = ts[u].tags
    BY <1>1, <2>1 DEF TransTask
  <2>3. (KworkerType(u)' <=> KworkerType(u)) /\ (OnUxList(u) <=> OnUxList(u)')
    BY <2>1, <2>2 DEF KworkerType, OnUxList
  <2>4. QED BY <1>1, <2>2, <2>3, NotMadeEligible, NotMadeMissed
<1>3. CASE ~v.ignore
  <2>1. /\ \A w \in Tasks : w # t => ts'[w] = ts[w]
        /\ ts'[t] = Granted(x, req) /\ LinkIf(cond, t, ts')
    BY <1>1, <1>3 DEF SetUxTags, Granted
  <2>2. OnUxList(u) => OnUxList(u)'
    <3>1. CASE UNCHANGED <<ux_list, refs>>
      BY <3>1 DEF OnUxList
    <3>2. CASE ~OnUxList(t) /\ Link(t, se[t].cpu, ts')
      <4>1. se[t].cpu \in Cpus
        BY DEF IInv, TypeOK, SchedEntity
      <4>2. \A d \in Cpus, w \in Tasks :
              Listed(ux_list'[d], w) <=> Listed(ux_list[d], w) \/ (d = se[t].cpu /\ w = t)
        BY <3>2, <4>1, IInvLists, LinkStep
      <4>3. QED BY <4>2 DEF OnUxList
    <3>3. QED BY <2>1, <3>1, <3>2 DEF LinkIf
  <2>3. CASE u # t
    BY <1>1, <2>1, <2>2, <2>3, OthersKept
  <2>4. CASE u = t
    <3>1. ts'[t].tags = g
      <4>1. x \in TransTask /\ x.tags \in Tags /\ x.pending \in Tags /\ req \in Tags
        BY <1>1, RequestsAssumption DEF TransTask
      <4>2. v.pending \in Tags
        BY <4>1, PendingTyped
      <4> HIDE DEF v
      <4>3. [x EXCEPT !.pending = v.pending] \in TransTask
        BY <4>1, <4>2 DEF TransTask
      <4>4. InitTask([x EXCEPT !.pending = v.pending]) \in TransTask
        BY <4>3, TaskTyped
      <4>5. Granted(x, req) =
              [InitTask([x EXCEPT !.pending = v.pending]) EXCEPT
                 !.tags = g, !.share = NoShare, !.period = 0, !.magic = @ /\ g # NoTags]
        BY DEF Granted, v
      <4> HIDE DEF g
      <4>6. QED BY <2>1, <4>4, <4>5 DEF TransTask
    <3>2. Eligible(t)' /\ CheckTaskOnRq(t) /\ ~OnUxList(t)'
      BY <1>1, <2>4, UxIsEligible DEF Missed, CheckTaskOnRq
    <3>3. cond
      BY <1>1, <3>1, <3>2 DEF Eligible, KworkerType
    <3>4. Link(t, se[t].cpu, ts')
      BY <2>1, <2>2, <2>4, <3>2, <3>3 DEF LinkIf
    <3>5. se[t].cpu \in Cpus /\ ~OnUxList(t)
      BY <2>2, <2>4, <3>2 DEF IInv, TypeOK, SchedEntity
    <3>6. Listed(ux_list'[se[t].cpu], t)
      BY <3>4, <3>5, IInvLists, LinkStep
    <3>7. QED BY <3>2, <3>5, <3>6 DEF OnUxList
  <2>5. QED BY <2>3, <2>4
<1>4. QED BY <1>2, <1>3

\* Shifting a priority or changing the async mark makes nobody eligible.
LEMMA RetagMisses ==
  ASSUME IInv, IInv', NEW t \in Tasks,
         (\E s \in Shifts : ConvertUxPrio(t, s)) \/ (\E on \in BOOLEAN : AbinderMark(t, on)),
         NEW u \in Tasks, Missed(u)'
  PROVE  Missed(u)
<1>1. /\ UNCHANGED <<se, ux_list, refs, features, scene, kwin>>
      /\ ts \in [Tasks -> TransTask] /\ ts' \in [Tasks -> TransTask]
  BY DEF ConvertUxPrio, AbinderMark, IInv, TypeOK
<1>2. \/ \E s \in Shifts : ts' = [ts EXCEPT ![t].tags = Shifted(@, s)]
      \/ ts' = [ts EXCEPT ![t].tags = SetFlag(@, "ABINDER")]
      \/ ts' = [ts EXCEPT ![t].tags = ClearFlag(@, "ABINDER")]
  BY DEF ConvertUxPrio, AbinderMark
<1>3. OnUxList(u) <=> OnUxList(u)'
  BY <1>1 DEF OnUxList
<1>4. CASE u # t
  BY <1>1, <1>2, <1>3, <1>4, OthersKept
<1>5. CASE u = t
  <2>1. PICK g : ts' = [ts EXCEPT ![t].tags = g] /\ g.sprio = ts[t].tags.sprio
                   /\ g.slice = ts[t].tags.slice /\ g.share = ts[t].tags.share
                   /\ ("KWORKER" \in g.flags <=> "KWORKER" \in ts[t].tags.flags)
    <3>1. ts[t].tags \in Tags
      BY <1>1 DEF TransTask
    <3>2. CASE \E s \in Shifts : ts' = [ts EXCEPT ![t].tags = Shifted(@, s)]
      <4>1. PICK s \in Shifts : ts' = [ts EXCEPT ![t].tags = Shifted(ts[t].tags, s)]
        BY <1>1, <3>2
      <4> WITNESS Shifted(ts[t].tags, s)
      <4>2. QED BY <3>1, <4>1, TagFields
    <3>3. CASE ts' = [ts EXCEPT ![t].tags = SetFlag(@, "ABINDER")]
      <4>1. SetFlag(ts[t].tags, "ABINDER").flags = ts[t].tags.flags \union {"ABINDER"}
        BY <3>1 DEF SetFlag, Tags
      <4>2. ts' = [ts EXCEPT ![t].tags = SetFlag(ts[t].tags, "ABINDER")]
        BY <1>1, <3>3
      <4> WITNESS SetFlag(ts[t].tags, "ABINDER")
      <4>3. QED BY <3>1, <4>1, <4>2, TagFields
    <3>4. CASE ts' = [ts EXCEPT ![t].tags = ClearFlag(@, "ABINDER")]
      <4>1. ClearFlag(ts[t].tags, "ABINDER").flags = ts[t].tags.flags \ {"ABINDER"}
        BY <3>1 DEF ClearFlag, Tags
      <4>2. ts' = [ts EXCEPT ![t].tags = ClearFlag(ts[t].tags, "ABINDER")]
        BY <1>1, <3>4
      <4> WITNESS ClearFlag(ts[t].tags, "ABINDER")
      <4>3. QED BY <3>1, <4>1, <4>2, TagFields
    <3>5. QED BY <1>2, <3>2, <3>3, <3>4
  <2>2. ts'[t].tags = g /\ ts'[t].total_run = ts[t].total_run
    BY <1>1, <2>1 DEF TransTask
  <2>3. KworkerType(t)' <=> KworkerType(t)
    BY <2>1, <2>2 DEF KworkerType
  <2>4. IsUxTask(t)' => IsUxTask(t)
    BY <1>1, <2>1, <2>2, <2>3, NotMadeEligible
  <2>5. QED BY <1>1, <1>3, <1>5, <2>4, NotMadeMissed
<1>6. QED BY <1>4, <1>5

\* The other steps change a task's standing with the kernel scheduler, who runs, or
\* what the whole system does.
LEMMA StandingMisses ==
  ASSUME IInv, IInv', NEW t \in Tasks,
         SetSleeping(t) \/ WakeQueued(t) \/ Exit(t) \/ FreeTask(t) \/ Fork(t),
         NEW u \in Tasks, Missed(u)'
  PROVE  Missed(u) \/ Excused(u)
<1>1. /\ UNCHANGED <<ux_list, refs, features, scene, kwin>>
      /\ ts' \in [Tasks -> TransTask] /\ ts \in [Tasks -> TransTask]
      /\ se' \in [Tasks -> SchedEntity] /\ se \in [Tasks -> SchedEntity]
  BY DEF SetSleeping, WakeQueued, Exit, FreeTask, Fork, IInv, TypeOK
<1>2. CASE u # t
  <2>1. ts'[u] = ts[u] /\ se'[u] = se[u]
    BY <1>1, <1>2 DEF SetSleeping, WakeQueued, Exit, FreeTask, Fork
  <2>2. OnUxList(u) <=> OnUxList(u)'
    BY <1>1 DEF OnUxList
  <2>3. QED BY <1>1, <2>1, <2>2, OthersKept
<1>3. CASE u = t
  <2>1. CASE SetSleeping(t)
    BY <1>1, <1>3, <2>1 DEF SetSleeping, Missed, SchedEntity
  <2>2. CASE WakeQueued(t)
    BY <1>3, <2>2 DEF WakeQueued, Excused
  <2>3. CASE Exit(t)
    <3>1. se'[t].life # "live"
      BY <1>1, <2>3 DEF Exit, SchedEntity
    <3>2. QED BY <1>3, <3>1, UxIsEligible DEF Eligible, Missed
  <2>4. CASE FreeTask(t) \/ Fork(t)
    <3>1. ~CheckTagsOk(ts'[t].tags)
      BY <1>1, <2>4 DEF FreeTask, Fork, FreshTask, NoTags, CheckTagsOk
    <3>2. QED BY <1>3, <3>1, UxIsEligible DEF Eligible, Missed
  <2>5. QED BY <2>1, <2>2, <2>3, <2>4
<1>4. QED BY <1>2, <1>3

\* Nor does picking, or a switch of scene or features, take a task off a list
\* that it should stand on.
LEMMA SwitchMisses ==
  ASSUME IInv, IInv',
         \/ \E c \in Cpus : Schedule(c)
         \/ \E s \in SceneSets, cancel \in BOOLEAN : SetScene(s, cancel)
         \/ \E f \in FeatureSets : SetFeatures(f)
         \/ WindowExpires \/ UNCHANGED schedVars,
         NEW u \in Tasks, Missed(u)'
  PROVE  Missed(u) \/ Excused(u)
<1>1. /\ UNCHANGED <<ts, se, ux_list, refs>>
      /\ kwin = "closed" => kwin' = "closed"
  BY DEF Schedule, SetScene, SetFeatures, WindowExpires, schedVars
<1>2. CASE UNCHANGED <<features, scene>>
  <2>1. OnUxList(u) <=> OnUxList(u)'
    BY <1>1 DEF OnUxList
  <2>2. QED BY <1>1, <1>2, <2>1, OthersKept DEF IInv, TypeOK
<1>3. CASE ~UNCHANGED <<features, scene>>
  BY <1>3 DEF Excused
<1>4. QED BY <1>2, <1>3

\* A step makes a task missed only where it is excused.
LEMMA EligibleStep ==
  ASSUME IInv, [Next]_schedVars, NEW u \in Tasks, Missed(u)'
  PROVE  Missed(u) \/ Excused(u)
<1>1. IInv'
  BY StepInv
<1>2. CASE Kernel
  <2>1. CASE \E c \in Cpus, d \in 1..MaxCharge : Tick(c, d)
    BY <1>1, <2>1, TickMisses
  <2>2. CASE \E c \in Cpus : Schedule(c)
    BY <1>1, <2>2, SwitchMisses
  <2>3. ASSUME NEW t \in Tasks,
               SetSleeping(t) \/ WakeQueued(t) \/ Exit(t) \/ FreeTask(t) \/ Fork(t)
        PROVE  Missed(u) \/ Excused(u)
    BY <1>1, <2>3, StandingMisses
  <2>4. ASSUME NEW t \in Tasks,
               \/ \E w \in BOOLEAN : Deactivate(t, w)
               \/ \E c \in Cpus, rt \in BOOLEAN : Detach(t, c, rt)
        PROVE  Missed(u) \/ Excused(u)
    BY <1>1, <2>4, DepartureMisses
  <2>5. ASSUME NEW t \in Tasks, NEW c \in Cpus, Activate(t, c)
        PROVE  Missed(u) \/ Excused(u)
    BY <1>1, <2>5, ArrivalMisses
  <2>6. ASSUME NEW t \in Tasks, Attach(t) PROVE Missed(u) \/ Excused(u)
    <3>1. se[t].cpu \in Cpus
      BY DEF IInv, TypeOK, SchedEntity
    <3>2. QED BY <1>1, <2>6, <3>1, ArrivalMisses
  <2>7. CASE WindowExpires
    BY <1>1, <2>7, SwitchMisses
  <2>8. QED BY <1>2, <2>1, <2>2, <2>3, <2>4, <2>5, <2>6, <2>7 DEF Kernel
<1>3. CASE Userland
  <2>1. ASSUME NEW t \in Tasks, NEW req \in Requests, SetUxTags(t, req)
        PROVE  Missed(u) \/ Excused(u)
    BY <1>1, <2>1, RequestMisses
  <2>2. ASSUME NEW t \in Tasks,
               (\E s \in Shifts : ConvertUxPrio(t, s)) \/ (\E on \in BOOLEAN : AbinderMark(t, on))
        PROVE  Missed(u) \/ Excused(u)
    BY <1>1, <2>2, RetagMisses
  <2>3. CASE \/ \E s \in SceneSets, cancel \in BOOLEAN : SetScene(s, cancel)
             \/ \E f \in FeatureSets : SetFeatures(f)
    BY <1>1, <2>3, SwitchMisses
  <2>4. QED BY <1>3, <2>1, <2>2, <2>3 DEF Userland
<1>4. CASE UNCHANGED schedVars
  BY <1>1, <1>4, SwitchMisses
<1>5. QED BY <1>2, <1>3, <1>4 DEF Next

\* A runnable, eligible task leaves the lists, or is kept off them, only by a switch
\* of scene or features, a kworker window that opens, or a wake-up after it was
\* tagged on its way to sleep.
THEOREM EligibleTasksStayListed == Spec => EligibleStaysListed
<1>1. IInv /\ [Next]_schedVars =>
        [\A t \in Tasks : Missed(t)' /\ ~Missed(t) =>
           \/ scene' # scene \/ features' # features
           \/ KworkerType(t) /\ kwin' = "open"
           \/ ~se[t].running /\ se[t].on_rq = "queued"]_schedVars
  BY EligibleStep DEF Excused
<1>2. QED BY <1>1, InvariantHolds, PTL DEF Spec, EligibleStaysListed

----------------------------------------------------------------------------
(***************************************************************************)
(* Inheritance.  The hooks read the tasks without a lock; the proofs       *)
(* therefore say what a context has read (OpOK): facts that held of the    *)
(* lender once and that no later step of anybody can make false of the     *)
(* local variables.                                                        *)
(***************************************************************************)

\* The limit was checked before: what is about to be lent is short of it.
LentShort(o) ==
  /\ \A k \in ShareTypes : o.share.nr[k] <= ShareLimit[k]
  /\ o.pc \in {"apply", "walk"} => o.share.nr[o.kind] < ShareLimit[o.kind]

\* Tags that are lent along a chain carry the bit of that chain.
LentMarked(o) ==
  /\ o.pc = "share" => o.kind \in o.tags.share
  /\ o.pc \in {"apply", "walk"} /\ o.share.nr[o.kind] # 0 => o.kind \in o.tags.share

\* A hook works on tasks as long as it is under way.
LentTo(o) ==
  /\ o.pc \in {"apply", "hold", "unset"} => o.to \in Tasks
  /\ o.pc \in {"tags", "leader", "share"} =>
       o.from \in Tasks /\ (o.todo = {} => o.to \in Tasks)

OpOK(o) == o \in Op /\ LentShort(o) /\ LentMarked(o) /\ LentTo(o)

\* A task's share word: within its limit, there when the bits are there, and gone
\* when they are gone.
ShareOK(x) ==
  /\ \A k \in ShareTypes : x.share.nr[k] <= ShareLimit[k]
  /\ IF x.tags.share = {} THEN x.share = NoShare
     ELSE x.share.hold > 0 /\ \E k \in x.tags.share : x.share.nr[k] > 0

ShareInv ==
  /\ IInv
  /\ op \in [Ctx -> Op] /\ \A h \in Ctx : OpOK(op[h])
  /\ \A t \in Tasks : Settled(ts[t]) /\ ShareOK(ts[t])

----------------------------------------------------------------------------
(* Local variables of the hooks.                                           *)

\* The values the constants supply have their types.
LEMMA LentTyped ==
  /\ NoOp \in Op /\ OpOK(NoOp)
  /\ \A g \in Tags : \A s \in Slices : ChangeSlice(g, s) \in Tags /\ ChangeSlice(g, s).share = g.share
  /\ \A g \in Tags : \A f \in UxFlags : ClearFlag(g, f).share = g.share /\ ClearFlag(g, f) \in Tags
<1>1. NoOp \in Op
  BY TagsTyped, SliceAssumption DEF NoOp, Op, Steps, ShareTypes
<1>2. OpOK(NoOp)
  <2>1. \A k \in ShareTypes : NoShare.nr[k] = 0 /\ ShareLimit[k] \in Nat \ {0}
    BY ShareLimitAssumption DEF NoShare
  <2>2. QED BY <1>1, <2>1 DEF OpOK, NoOp, LentShort, LentMarked, LentTo
<1>3. \A g \in Tags : \A s \in Slices : ChangeSlice(g, s) \in Tags /\ ChangeSlice(g, s).share = g.share
  BY DEF ChangeSlice, Tags
<1>4. \A g \in Tags : \A f \in UxFlags : ClearFlag(g, f).share = g.share /\ ClearFlag(g, f) \in Tags
  BY TagsTyped DEF ClearFlag, Tags
<1>5. QED BY <1>1, <1>2, <1>3, <1>4

\* Everything the hooks hand on is ready to be applied to one task or to several.
LEMMA ReadyOK ==
  ASSUME NEW o \in Op, NEW g \in Tags, NEW s \in Shares,
         o.todo = {} => o.to \in Tasks,
         \A k \in ShareTypes : s.nr[k] <= ShareLimit[k],
         s.nr[o.kind] < ShareLimit[o.kind],
         s.nr[o.kind] # 0 => o.kind \in g.share
  PROVE  OpOK(Ready(o, g, s))
<1>1. Ready(o, g, s) \in Op
  <2>1. NoOp \in Op /\ o.kind \in ShareTypes /\ o.to \in Tasks \union {Idle} /\ o.todo \in SUBSET Tasks
    BY LentTyped DEF Op
  <2>2. "apply" \in Steps /\ "walk" \in Steps
    BY DEF Steps
  <2>3. QED BY <2>1, <2>2 DEF Ready, Op
<1>2. /\ Ready(o, g, s).pc = IF o.todo = {} THEN "apply" ELSE "walk"
      /\ Ready(o, g, s).kind = o.kind /\ Ready(o, g, s).to = o.to
      /\ Ready(o, g, s).tags = g /\ Ready(o, g, s).share = s
  BY DEF Ready, NoOp
<1>3. QED BY <1>1, <1>2 DEF OpOK, LentShort, LentMarked, LentTo

\* A hook that has read no share word has little to get wrong.
LEMMA FreshOK ==
  ASSUME NEW o \in Op, o.share = NoShare, o.pc # "share", LentTo(o)
  PROVE  OpOK(o)
<1>1. \A k \in ShareTypes : NoShare.nr[k] = 0 /\ ShareLimit[k] \in Nat \ {0}
  BY ShareLimitAssumption DEF NoShare
<1>2. o.kind \in ShareTypes
  BY DEF Op
<1>3. QED BY <1>1, <1>2 DEF OpOK, LentShort, LentMarked

\* A step of a hook that touches nothing but its local variables.
LEMMA LocalStep ==
  ASSUME ShareInv, NEW h \in Ctx, NEW o, OpOK(o), op' = [op EXCEPT ![h] = o],
         UNCHANGED schedVars
  PROVE  ShareInv'
<1>1. IInv'
  BY StepInv DEF ShareInv
<1>2. o \in Op /\ op' \in [Ctx -> Op] /\ \A i \in Ctx : OpOK(op'[i])
  BY DEF ShareInv, OpOK
<1>3. QED BY <1>1, <1>2 DEF ShareInv, schedVars

\* The types of what the instance lends.
LEMMA ConstantsTyped ==
  /\ Idle \notin Tasks
  /\ InitDprio(DefaultTags) \in Tags /\ RaiseDprio(InitDprio(FutexTags)) \in Tags
  /\ \A s \in LockSlices : s \in Slices
  /\ LaunchSlice \in Slices /\ AppSlice \in Slices /\ 0 \in Slices
  /\ \A p \in Leaders : p \in Tasks /\ Loopers[p] \subseteq Tasks /\ Loopers[p] # {}
  /\ \A t \in Waiters : t \in Tasks
  /\ \A k \in Kinds : k \in ShareTypes
  /\ NoShare \in Shares /\ NoTags \in Tags /\ "ABINDER" \in UxFlags
BY TagsTyped, LentAssumption, LoopersAssumption, PartiesAssumption, KindsAssumption,
   TasksAssumption, SliceAssumption DEF UxFlags

\* Every hook begins with local variables in order.
LEMMA LockOfferInv ==
  ASSUME ShareInv, NEW h \in Ctx, NEW k \in Kinds, NEW from \in Waiters, NEW to \in Tasks,
         NEW s \in LockSlices, LockOffer(h, k, from, to, s)
  PROVE  ShareInv'
<1> DEFINE step == [NoOp EXCEPT !.kind = k, !.from = from, !.to = to, !.slice = s]
           g == ChangeSlice(InitDprio(DefaultTags), s)
<1>1. /\ from \in Tasks /\ to \in Tasks /\ k \in ShareTypes /\ s \in Slices
      /\ g \in Tags /\ NoShare \in Shares
  BY ConstantsTyped, LentTyped
<1>2. step \in Op /\ [step EXCEPT !.pc = "tags"] \in Op
  BY <1>1, LentTyped DEF Op, NoOp, Steps
<1>3. OpOK([step EXCEPT !.pc = "tags"])
  BY <1>1, <1>2, FreshOK DEF NoOp, LentTo
<1>4. OpOK(Ready(step, g, NoShare))
  <2>1. step.todo = {} /\ step.to = to /\ step.kind = k
    BY DEF NoOp
  <2>2. \A j \in ShareTypes : NoShare.nr[j] = 0 /\ ShareLimit[j] \in Nat \ {0}
    BY ShareLimitAssumption DEF NoShare
  <2> HIDE DEF step, g
  <2>3. QED BY <1>1, <1>2, <2>1, <2>2, ReadyOK
<1>5. QED BY <1>3, <1>4, LocalStep DEF LockOffer, Begin

\* The hooks of binder and futex that start from nothing.
LEMMA OfferInv ==
  ASSUME ShareInv, NEW h \in Ctx,
         \/ \E from \in Waiters, to \in Tasks :
              BinderHold(h, from, to) \/ \E sync \in BOOLEAN : BinderOffer(h, from, to, sync)
         \/ \E from \in Waiters, proc \in Leaders, sf \in BOOLEAN : AsyncOffer(h, from, proc, sf)
         \/ \E from \in Waiters, to \in Tasks, proc \in Leaders, sync \in BOOLEAN :
              BinderRtOffer(h, from, to, proc, sync)
         \/ \E to \in Tasks, proc \in Leaders : BinderReceived(h, to, proc)
         \/ \E to \in Tasks : FutexOffer(h, to)
         \/ \E k \in Kinds, t \in Tasks : UnsetBegin(h, k, t)
  PROVE  ShareInv'
<1>1. \A t \in Tasks : ts[t].tags \in Tags
  BY DEF ShareInv, IInv, TypeOK, TransTask
<1>2. ASSUME NEW o \in Op, o.share = NoShare, o.pc # "share", LentTo(o), Begin(h, o)
      PROVE  ShareInv'
  BY <1>2, FreshOK, LocalStep DEF Begin
<1>3. CASE \E from \in Waiters, to \in Tasks : BinderHold(h, from, to)
  <2>1. PICK to \in Tasks : Begin(h, [NoOp EXCEPT !.pc = "hold", !.to = to])
    BY <1>3 DEF BinderHold
  <2>2. [NoOp EXCEPT !.pc = "hold", !.to = to] \in Op
    BY LentTyped DEF Op, NoOp, Steps
  <2>3. QED BY <1>2, <2>1, <2>2 DEF NoOp, LentTo
<1>4. CASE \E from \in Waiters, to \in Tasks, sync \in BOOLEAN : BinderOffer(h, from, to, sync)
  <2>1. PICK from \in Tasks, to \in Tasks, b \in BOOLEAN :
          Begin(h, [NoOp EXCEPT !.pc = "tags", !.from = from, !.to = to, !.boost = b])
    BY <1>4, ConstantsTyped DEF BinderOffer
  <2>2. [NoOp EXCEPT !.pc = "tags", !.from = from, !.to = to, !.boost = b] \in Op
    BY LentTyped DEF Op, NoOp, Steps
  <2>3. QED BY <1>2, <2>1, <2>2 DEF NoOp, LentTo
<1>5. CASE \E from \in Waiters, proc \in Leaders, sf \in BOOLEAN : AsyncOffer(h, from, proc, sf)
  <2>1. PICK p \in {"leader", "tags"}, from \in Tasks, s \in Slices, w \in (SUBSET Tasks) \ {{}} :
          Begin(h, [NoOp EXCEPT !.pc = p, !.from = from, !.slice = s, !.todo = w])
    BY <1>5, ConstantsTyped DEF AsyncOffer
  <2>2. [NoOp EXCEPT !.pc = p, !.from = from, !.slice = s, !.todo = w] \in Op
    BY LentTyped DEF Op, NoOp, Steps
  <2>3. QED BY <1>2, <2>1, <2>2 DEF NoOp, LentTo
<1>6. ASSUME NEW to \in Tasks, NEW g \in Tags,
             Begin(h, [NoOp EXCEPT !.pc = "apply", !.to = to, !.tags = g])
      PROVE  ShareInv'
  <2>1. [NoOp EXCEPT !.pc = "apply", !.to = to, !.tags = g] \in Op
    BY LentTyped DEF Op, NoOp, Steps
  <2>2. QED BY <1>2, <1>6, <2>1 DEF NoOp, LentTo
<1>7. CASE \E from \in Waiters, to \in Tasks, proc \in Leaders, sync \in BOOLEAN :
             BinderRtOffer(h, from, to, proc, sync)
  <2>1. PICK from \in Waiters, to \in Tasks, proc \in Leaders, sync \in BOOLEAN :
          BinderRtOffer(h, from, to, proc, sync)
    BY <1>7
  <2> DEFINE own == ~sync /\ "ABINDER" \in ts[from].tags.flags
             ok  == CheckTagsOk(ts[proc].tags)
             g   == IF own /\ ok THEN ts[proc].tags ELSE InitDprio(DefaultTags)
             r   == IF own /\ from \in SfSenders THEN RaiseDprio(g) ELSE g
  <2>2. g \in Tags
    BY <1>1, ConstantsTyped
  <2>3. r \in Tags
    BY <2>2, TagsTyped
  <2>4. Begin(h, [NoOp EXCEPT !.pc = "apply", !.to = to, !.tags = ClearFlag(r, "ABINDER")])
    BY <2>1 DEF BinderRtOffer
  <2> HIDE DEF r
  <2>5. ClearFlag(r, "ABINDER") \in Tags
    BY <2>3, ConstantsTyped, LentTyped
  <2>6. QED BY <1>6, <2>4, <2>5
<1>8. CASE \E to \in Tasks, proc \in Leaders : BinderReceived(h, to, proc)
  <2>1. PICK to \in Tasks, g \in Tags :
          Begin(h, [NoOp EXCEPT !.pc = "apply", !.to = to, !.tags = ClearFlag(g, "ABINDER")])
    BY <1>1, <1>8, ConstantsTyped DEF BinderReceived
  <2>2. ClearFlag(g, "ABINDER") \in Tags
    BY <2>1, ConstantsTyped, LentTyped
  <2>3. QED BY <1>6, <2>1, <2>2
<1>9. CASE \E to \in Tasks : FutexOffer(h, to)
  <2>1. PICK to \in Tasks : FutexOffer(h, to)
    BY <1>9
  <2>2. CASE Begin(h, [NoOp EXCEPT !.pc = "hold", !.kind = "FUTEX", !.to = to])
    <3>1. [NoOp EXCEPT !.pc = "hold", !.kind = "FUTEX", !.to = to] \in Op
      BY LentTyped DEF Op, NoOp, Steps, ShareTypes
    <3>2. QED BY <1>2, <2>2, <3>1 DEF NoOp, LentTo
  <2>3. CASE Begin(h, [NoOp EXCEPT !.pc = "apply", !.kind = "FUTEX", !.to = to,
                                   !.tags = RaiseDprio(InitDprio(FutexTags))])
    <3> DEFINE g == RaiseDprio(InitDprio(FutexTags))
    <3>1. g \in Tags
      BY ConstantsTyped
    <3> HIDE DEF g
    <3>2. [NoOp EXCEPT !.pc = "apply", !.kind = "FUTEX", !.to = to, !.tags = g] \in Op
      BY <3>1, LentTyped DEF Op, NoOp, Steps, ShareTypes
    <3>3. QED BY <1>2, <2>3, <3>2 DEF NoOp, LentTo, g
  <2>4. QED BY <2>1, <2>2, <2>3 DEF FutexOffer
<1>10. CASE \E k \in Kinds, t \in Tasks : UnsetBegin(h, k, t)
  <2>1. PICK k \in ShareTypes, t \in Tasks :
          Begin(h, [NoOp EXCEPT !.pc = "unset", !.kind = k, !.to = t])
    BY <1>10, ConstantsTyped DEF UnsetBegin
  <2>2. [NoOp EXCEPT !.pc = "unset", !.kind = k, !.to = t] \in Op
    BY LentTyped DEF Op, NoOp, Steps
  <2>3. QED BY <1>2, <2>1, <2>2 DEF NoOp, LentTo
<1>11. QED BY <1>3, <1>4, <1>5, <1>7, <1>8, <1>9, <1>10

----------------------------------------------------------------------------
(* The unlocked reads.                                                     *)

\* Whatever the route makes of the tags it lends, it keeps their share bits.
LEMMA LentKeeps ==
  ASSUME ShareInv, NEW h \in Ctx, NEW g \in Tags
  PROVE  Lent(h, g) \in Tags /\ Lent(h, g).share = g.share
<1>1. op[h].slice \in Slices
  BY DEF ShareInv, Op
<1>2. \A w \in Tags : RaiseDprio(w) \in Tags /\ RaiseDprio(w).share = w.share
  BY TagsTyped DEF RaiseDprio, Tags
<1>3. Boosted(h, g) \in Tags /\ Boosted(h, g).share = g.share
  BY <1>2, LentTyped, ConstantsTyped DEF Boosted
<1> DEFINE w == IF op[h].kind = "BINDER" /\ op[h].todo = {} THEN Boosted(h, g)
                ELSE ChangeSlice(g, op[h].slice)
<1>4. w \in Tags /\ w.share = g.share
  BY <1>1, <1>3, LentTyped
<1>5. Lent(h, g) = IF op[h].kind = "BINDER" THEN ClearFlag(w, "ABINDER") ELSE w
  BY DEF Lent
<1> HIDE DEF w
<1>6. ClearFlag(w, "ABINDER") \in Tags /\ ClearFlag(w, "ABINDER").share = w.share
  BY <1>4, LentTyped, ConstantsTyped
<1>7. QED BY <1>4, <1>5, <1>6

\* What a hook reads of the lender's tags and share word.
LEMMA ReadTagsInv == ASSUME ShareInv, NEW h \in Ctx, ReadTags(h) PROVE ShareInv'
<1> DEFINE o == op[h]
           g == ts[o.from].tags
<1>1. o.pc = "tags" /\ o \in Op /\ OpOK(o) /\ o.from \in Tasks
  BY DEF ReadTags, ShareInv, OpOK, LentTo
<1>2. g \in Tags
  BY <1>1 DEF ShareInv, IInv, TypeOK, TransTask
<1>3. ASSUME NEW w \in Tags, GoOn(h, Ready(o, Lent(h, w), NoShare)) PROVE ShareInv'
  <2>1. \A j \in ShareTypes : NoShare.nr[j] = 0 /\ ShareLimit[j] \in Nat \ {0}
    BY ShareLimitAssumption DEF NoShare
  <2>2. o.kind \in ShareTypes /\ (o.todo = {} => o.to \in Tasks) /\ NoShare \in Shares
    BY <1>1, ConstantsTyped DEF Op, OpOK, LentTo
  <2>3. Lent(h, w) \in Tags
    BY LentKeeps
  <2> HIDE DEF o
  <2>4. OpOK(Ready(o, Lent(h, w), NoShare))
    BY <1>1, <2>1, <2>2, <2>3, ReadyOK
  <2>5. QED BY <1>3, <2>4, LocalStep DEF GoOn
<1>4. CASE GiveUp(h)
  BY <1>4, LentTyped, LocalStep DEF GiveUp, GoOn
<1>5. CASE /\ CheckShareType(g, o.kind)
           /\ GoOn(h, [o EXCEPT !.pc = "share", !.tags = Lent(h, g)])
  <2> DEFINE n == [o EXCEPT !.pc = "share", !.tags = Lent(h, g)]
  <2>1. Lent(h, g) \in Tags /\ Lent(h, g).share = g.share
    BY <1>2, LentKeeps
  <2>2. /\ n \in Op /\ n.pc = "share" /\ n.tags.share = g.share /\ n.kind = o.kind
        /\ n.share = o.share /\ n.from = o.from /\ n.to = o.to /\ n.todo = o.todo
    BY <1>1, <2>1 DEF Op, Steps
  <2> HIDE DEF n
  <2>3. o.kind \in n.tags.share
    BY <1>5, <2>2 DEF CheckShareType
  <2>4. OpOK(n)
    BY <1>1, <2>2, <2>3 DEF OpOK, LentShort, LentMarked, LentTo
  <2>5. QED BY <1>5, <2>4, LocalStep DEF GoOn, n
<1>6. IgnoreShare(g) \in Tags
  BY <1>2 DEF IgnoreShare, Tags
<1>7. QED BY <1>2, <1>3, <1>4, <1>5, <1>6 DEF ReadTags

\* Async work reads the tags it lends on from the process's leader.
LEMMA ReadLeaderInv == ASSUME ShareInv, NEW h \in Ctx, ReadLeader(h) PROVE ShareInv'
<1> DEFINE o == op[h]
           g == ts[o.from].tags
           w == ClearFlag(ChangeSlice(RaiseDprio(g), o.slice), "ABINDER")
<1>1. o.pc = "leader" /\ o \in Op /\ OpOK(o) /\ o.from \in Tasks
  BY DEF ReadLeader, ShareInv, OpOK, LentTo
<1>2. w \in Tags
  <2>1. g \in Tags /\ o.slice \in Slices
    BY <1>1 DEF ShareInv, IInv, TypeOK, TransTask, Op
  <2>2. RaiseDprio(g) \in Tags
    BY <2>1, TagsTyped
  <2>3. QED BY <2>1, <2>2, LentTyped, ConstantsTyped
<1>3. CASE GoOn(h, Ready(o, w, NoShare))
  <2>1. \A j \in ShareTypes : NoShare.nr[j] = 0 /\ ShareLimit[j] \in Nat \ {0}
    BY ShareLimitAssumption DEF NoShare
  <2>2. o.kind \in ShareTypes /\ (o.todo = {} => o.to \in Tasks) /\ NoShare \in Shares
    BY <1>1, ConstantsTyped DEF Op, OpOK, LentTo
  <2> HIDE DEF o, w
  <2>3. OpOK(Ready(o, w, NoShare))
    BY <1>1, <1>2, <2>1, <2>2, ReadyOK
  <2>4. QED BY <1>3, <2>3, LocalStep DEF GoOn
<1>4. CASE GiveUp(h)
  BY <1>4, LentTyped, LocalStep DEF GiveUp, GoOn
<1>5. QED BY <1>3, <1>4 DEF ReadLeader

\* The share word read here is within its limits, and short of the one that counts.
LEMMA ReadShareInv == ASSUME ShareInv, NEW h \in Ctx, ReadShare(h) PROVE ShareInv'
<1> DEFINE o == op[h]
           s == ts[o.from].share
<1>1. /\ o.pc = "share" /\ o \in Op /\ OpOK(o) /\ o.from \in Tasks
      /\ o.kind \in ShareTypes /\ o.kind \in o.tags.share /\ o.tags \in Tags
      /\ o.todo = {} => o.to \in Tasks
  BY DEF ReadShare, ShareInv, OpOK, LentTo, LentMarked, Op
<1>2. s \in Shares /\ \A k \in ShareTypes : s.nr[k] <= ShareLimit[k]
  BY <1>1 DEF ShareInv, IInv, TypeOK, TransTask, ShareOK
<1>3. CASE ~ChainEnds(s, o.kind) /\ GoOn(h, Ready(o, o.tags, s))
  <2>1. s.nr[o.kind] < ShareLimit[o.kind]
    <3>1. s.nr[o.kind] \in Nat /\ ShareLimit[o.kind] \in Nat
      BY <1>1, <1>2, ShareLimitAssumption DEF Shares
    <3>2. QED BY <1>3, <3>1 DEF ChainEnds
  <2> HIDE DEF o, s
  <2>2. OpOK(Ready(o, o.tags, s))
    BY <1>1, <1>2, <2>1, ReadyOK
  <2>3. QED BY <1>3, <2>2, LocalStep DEF GoOn
<1>4. CASE GiveUp(h)
  BY <1>4, LentTyped, LocalStep DEF GiveUp, GoOn
<1>5. QED BY <1>3, <1>4 DEF ReadShare

\* Walking on keeps what is lent.
LEMMA WalkOnOK ==
  ASSUME NEW o \in Op, o.pc \in {"apply", "walk"}, OpOK(o), NEW rest \in SUBSET o.todo
  PROVE  OpOK(WalkOn(o, rest))
<1> DEFINE n == [o EXCEPT !.pc = "walk", !.to = Idle, !.todo = rest]
<1>1. /\ n \in Op /\ n.pc = "walk" /\ n.kind = o.kind /\ n.share = o.share /\ n.tags = o.tags
  BY DEF Op, Steps
<1> HIDE DEF n
<1>2. OpOK(n)
  BY <1>1 DEF OpOK, LentShort, LentMarked, LentTo
<1>3. QED BY <1>2, LentTyped DEF WalkOn, n

\* The walk over a process's threads takes the next one, or ends.
LEMMA WalkThreadsInv == ASSUME ShareInv, NEW h \in Ctx, WalkThreads(h) PROVE ShareInv'
<1> DEFINE o == op[h]
<1>1. o.pc = "walk" /\ o \in Op /\ OpOK(o) /\ o.todo \subseteq Tasks
  BY DEF WalkThreads, ShareInv, OpOK, Op
<1>2. PICK t \in o.todo : \/ GoOn(h, [o EXCEPT !.pc = "apply", !.to = t, !.todo = @ \ {t}])
                          \/ GoOn(h, WalkOn(o, o.todo \ {t}))
  BY DEF WalkThreads
<1>3. CASE GoOn(h, [o EXCEPT !.pc = "apply", !.to = t, !.todo = @ \ {t}])
  <2> DEFINE n == [o EXCEPT !.pc = "apply", !.to = t, !.todo = @ \ {t}]
  <2>1. /\ n \in Op /\ n.pc = "apply" /\ n.kind = o.kind /\ n.share = o.share
        /\ n.tags = o.tags /\ n.to \in Tasks
    BY <1>1 DEF Op, Steps
  <2> HIDE DEF n
  <2>2. OpOK(n)
    BY <1>1, <2>1 DEF OpOK, LentShort, LentMarked, LentTo
  <2>3. QED BY <1>3, <2>2, LocalStep DEF GoOn, n
<1>4. CASE GoOn(h, WalkOn(o, o.todo \ {t}))
  <2>1. OpOK(WalkOn(o, o.todo \ {t}))
    BY <1>1, WalkOnOK
  <2>2. QED BY <1>4, <2>1, LocalStep DEF GoOn
<1>5. QED BY <1>2, <1>3, <1>4

----------------------------------------------------------------------------
(* The locked steps.                                                       *)

\* A hook that changes one task under its run-queue lock.
LEMMA LockedStep ==
  ASSUME ShareInv, NEW h \in Ctx, NEW t \in Tasks, NEW x \in TransTask, NEW o,
         Settled(x), ShareOK(x), OpOK(o),
         ts' = [ts EXCEPT ![t] = x], op' = [op EXCEPT ![h] = o],
         UNCHANGED <<se, curr, features, scene, kwin>>,
         ListsOK', \A d \in Cpus, u \in Tasks : Listed(ux_list'[d], u) => Queued(u, d)
  PROVE  ShareInv'
<1>1. ts \in [Tasks -> TransTask] /\ ts' \in [Tasks -> TransTask]
  BY DEF ShareInv, IInv, TypeOK
<1>2. ListedAtHome' /\ CurrAtHome'
  BY DEF ShareInv, IInv, ListedAtHome, Queued, CurrAtHome
<1>3. IInv'
  BY <1>1, <1>2 DEF ShareInv, IInv, TypeOK, ListsOK
<1>4. o \in Op /\ op' \in [Ctx -> Op] /\ \A i \in Ctx : OpOK(op'[i])
  BY DEF ShareInv, OpOK
<1>5. \A u \in Tasks : Settled(ts'[u]) /\ ShareOK(ts'[u])
  BY <1>1 DEF ShareInv
<1>6. QED BY <1>3, <1>4, <1>5 DEF ShareInv

\* Inheriting once more: the bit is there whenever the count is.
LEMMA SharedTask ==
  ASSUME NEW x \in TransTask, Settled(x), NEW o, OpOK(o), o.pc = "apply"
  PROVE  LET z == [InitTask(x) EXCEPT
                     !.tags = IncShareTags(ClearFlag(o.tags, "ONESHOT"), o.share, o.kind),
                     !.share = IncShare(o.share, o.kind), !.period = 0]
         IN z \in TransTask /\ Settled(z) /\ ShareOK(z)
<1> DEFINE y == InitTask(x)
           g == IncShareTags(ClearFlag(o.tags, "ONESHOT"), o.share, o.kind)
           s == IncShare(o.share, o.kind)
           z == [y EXCEPT !.tags = g, !.share = s, !.period = 0]
<1>1. /\ o.tags \in Tags /\ o.share \in Shares /\ o.kind \in ShareTypes
      /\ \A k \in ShareTypes : o.share.nr[k] <= ShareLimit[k]
      /\ o.share.nr[o.kind] < ShareLimit[o.kind]
      /\ o.share.nr[o.kind] # 0 => o.kind \in o.tags.share
  BY DEF OpOK, Op, LentShort, LentMarked
<1>2. y \in TransTask /\ y.magic
      /\ (y.pending = NoTags \/ (CheckTagsOk(y.pending) /\ y.pending.share = {}))
  BY TaskTyped DEF InitTask, FreshTask, Settled, TransTask
<1>3. g \in Tags /\ o.kind \in g.share
  <2>1. ClearFlag(o.tags, "ONESHOT") \in Tags /\ ClearFlag(o.tags, "ONESHOT").share = o.tags.share
    BY <1>1, LentTyped DEF UxFlags
  <2>2. QED BY <1>1, <2>1 DEF IncShareTags, Tags
<1>4. /\ s \in Shares /\ s.hold = 1 /\ s.nr[o.kind] > 0
      /\ \A k \in ShareTypes : s.nr[k] <= ShareLimit[k]
  <2>1. o.share.nr \in [ShareTypes -> Nat] /\ ShareLimit \in [ShareTypes -> Nat] /\ 1 \in 0..HoldLimit+1
    BY <1>1, ShareLimitAssumption, HoldLimitAssumption DEF Shares
  <2>2. QED BY <1>1, <2>1 DEF IncShare, Shares
<1> HIDE DEF y, g, s
<1>5. /\ z \in TransTask /\ z.tags = g /\ z.share = s /\ z.magic /\ z.pending = y.pending
  BY <1>2, <1>3, <1>4 DEF TransTask
<1> HIDE DEF z
<1>6. Settled(z)
  BY <1>2, <1>3, <1>5 DEF Settled
<1>7. ShareOK(z)
  <2>1. z.tags.share # {}
    BY <1>3, <1>5
  <2>2. z.share.hold > 0 /\ z.share.nr[o.kind] > 0
    BY <1>4, <1>5
  <2>3. QED BY <1>3, <1>4, <1>5, <2>1, <2>2 DEF ShareOK
<1>8. QED BY <1>5, <1>6, <1>7 DEF z, y, g, s

\* A share is set: word, bits, marks and list of the receiver change together.
LEMMA SetUxShareInv == ASSUME ShareInv, NEW h \in Ctx, SetUxShare(h) PROVE ShareInv'
<1> DEFINE o == op[h]
           t == o.to
           z == [InitTask(ts[t]) EXCEPT
                   !.tags = IncShareTags(ClearFlag(o.tags, "ONESHOT"), o.share, o.kind),
                   !.share = IncShare(o.share, o.kind), !.period = 0]
<1>1. /\ o.pc = "apply" /\ o \in Op /\ OpOK(o) /\ t \in Tasks
      /\ ts' = [ts EXCEPT ![t] = z] /\ LinkIf(TRUE, t, ts')
      /\ op' = [op EXCEPT ![h] = WalkOn(o, o.todo)]
      /\ UNCHANGED <<se, curr, features, scene, kwin>>
  BY DEF SetUxShare, ShareInv, OpOK, LentTo
<1>2. ts[t] \in TransTask /\ Settled(ts[t]) /\ IInv
  BY <1>1 DEF ShareInv, IInv, TypeOK
<1>3. z \in TransTask /\ Settled(z) /\ ShareOK(z)
  BY <1>1, <1>2, SharedTask
<1>4. OpOK(WalkOn(o, o.todo))
  BY <1>1, WalkOnOK
<1> HIDE DEF z, t, o
<1>5. ListsOK' /\ \A d \in Cpus, u \in Tasks : Listed(ux_list'[d], u) => Queued(u, d)
  BY <1>1, <1>2, LinkIfStep
<1>6. QED BY <1>1, <1>3, <1>4, <1>5, LockedStep

\* A hold counts one more lock and keeps the tags.
LEMMA HoldInv == ASSUME ShareInv, NEW h \in Ctx, UpdateUxShareHold(h) PROVE ShareInv'
<1> DEFINE o == op[h]
           t == o.to
           x == ts[t]
           z == [x EXCEPT !.tags = ClearFlag(@, "ONESHOT"), !.share = IncHold(@, o.kind)]
<1>1. /\ o.pc = "hold" /\ o \in Op /\ OpOK(o) /\ t \in Tasks
      /\ op' = [op EXCEPT ![h] = NoOp]
      /\ UNCHANGED <<se, ux_list, refs, curr, features, scene, kwin>>
  BY DEF UpdateUxShareHold, ShareInv, OpOK, LentTo
<1>2. ts \in [Tasks -> TransTask] /\ x \in TransTask /\ Settled(x) /\ ShareOK(x)
  BY <1>1 DEF ShareInv, IInv, TypeOK
<1>3. /\ ListsOK'
      /\ \A d \in Cpus, u \in Tasks : Listed(ux_list'[d], u) => Queued(u, d)
  BY <1>1, IInvLists, ListsUnchanged DEF ShareInv, IInv, ListedAtHome
<1>4. CASE UNCHANGED ts
  <2>1. ts' = [ts EXCEPT ![t] = x]
    BY <1>1, <1>2, <1>4
  <2> HIDE DEF x, t, o
  <2>2. QED BY <1>1, <1>2, <1>3, <2>1, LockedStep, LentTyped
<1>5. CASE CheckShareType(x.tags, o.kind) /\ ts' = [ts EXCEPT ![t].tags = ClearFlag(@, "ONESHOT"),
                                                              ![t].share = IncHold(@, o.kind)]
  <2>1. ts' = [ts EXCEPT ![t] = z]
    BY <1>1, <1>2, <1>5
  <2>2. /\ IncHold(x.share, o.kind) \in Shares /\ IncHold(x.share, o.kind).nr = x.share.nr
        /\ IncHold(x.share, o.kind).hold >= x.share.hold
    <3>1. x.share \in Shares /\ x.share.hold \in 0..HoldLimit+1 /\ HoldLimit \in Nat
      BY <1>2, HoldLimitAssumption DEF TransTask, Shares
    <3>2. x.share.hold <= HoldLimit => x.share.hold + 1 \in 0..HoldLimit+1
      BY <3>1
    <3>3. QED BY <3>1, <3>2 DEF IncHold, Shares
  <2>3. ClearFlag(x.tags, "ONESHOT") \in Tags /\ ClearFlag(x.tags, "ONESHOT").share = x.tags.share
    BY <1>2, LentTyped DEF TransTask, UxFlags
  <2>4. /\ z \in TransTask /\ z.magic = x.magic /\ z.pending = x.pending
        /\ z.tags.share = x.tags.share /\ z.share.nr = x.share.nr
        /\ z.share.hold >= x.share.hold
    BY <1>2, <2>2, <2>3 DEF TransTask
  <2>5. z.tags.sprio = x.tags.sprio
    BY <1>2, TagFields DEF TransTask
  <2>6. x.tags.share # {} /\ x.share.hold > 0 /\ z.share.hold > 0
    <3>1. x.tags.share # {} /\ x.share.hold > 0
      <4>1. x.tags.share # {}
        BY <1>5 DEF CheckShareType
      <4>2. QED BY <1>2, <4>1 DEF ShareOK
    <3> HIDE DEF z
    <3>2. x.share.hold \in Int /\ z.share.hold \in Int
      <4>1. \A s \in Shares : s.hold \in Int
        BY HoldLimitAssumption DEF Shares
      <4>2. x.share \in Shares /\ z.share \in Shares
        BY <1>2, <2>4 DEF TransTask
      <4>3. QED BY <4>1, <4>2
    <3> HIDE DEF x
    <3>3. QED BY <2>4, <3>1, <3>2
  <2>7. Settled(z) /\ ShareOK(z)
    <3> HIDE DEF z
    <3>1. Settled(z)
      <4>1. CheckTagsOk(z.tags) <=> CheckTagsOk(x.tags)
        BY <2>5 DEF CheckTagsOk
      <4>2. QED BY <1>2, <2>4, <4>1 DEF Settled
    <3>2. ShareOK(z)
      BY <1>2, <2>4, <2>6 DEF ShareOK
    <3>3. QED BY <3>1, <3>2
  <2> HIDE DEF z
  <2> HIDE DEF x, t, o
  <2>8. QED BY <1>1, <1>3, <2>1, <2>4, <2>7, LockedStep, LentTyped
<1>6. QED BY <1>4, <1>5 DEF UpdateUxShareHold

\* A task without share bits and without a share word is in order.
LEMMA NothingShared ==
  ASSUME NEW x, x.tags.share = {}, x.share = NoShare
  PROVE  ShareOK(x)
<1>1. \A k \in ShareTypes : NoShare.nr[k] = 0 /\ ShareLimit[k] \in Nat \ {0}
  BY ShareLimitAssumption DEF NoShare
<1>2. QED BY <1>1 DEF ShareOK

\* Giving a share back, when others hold it still: the count of holders goes down.
LEMMA HeldTask ==
  ASSUME NEW x \in TransTask, Settled(x), ShareOK(x), NEW k \in ShareTypes,
         CheckShareType(DecShareTags(x.tags, x.share, k), k)
  PROVE  LET z == [x EXCEPT !.tags = DecShareTags(x.tags, x.share, k), !.share = DecShare(@, k)]
         IN z \in TransTask /\ Settled(z) /\ ShareOK(z)
<1> DEFINE s == DecShare(x.share, k)
           z == [x EXCEPT !.share = s]
<1>1. x.tags \in Tags /\ x.share \in Shares
  BY DEF TransTask
<1>2. HoldLeft(x.share) # 0 /\ DecShareTags(x.tags, x.share, k) = x.tags
  <2>1. CASE HoldLeft(x.share) = 0
    <3>1. DecShareTags(x.tags, x.share, k).share = x.tags.share \ {k}
      BY <1>1, <2>1 DEF DecShareTags, Tags
    <3>2. QED BY <3>1 DEF CheckShareType
  <2>2. QED BY <2>1 DEF DecShareTags
<1>3. s \in Shares /\ s.nr = x.share.nr /\ s.hold > 0
  <2>1. x.share.hold \in 0..HoldLimit+1 /\ HoldLimit \in Nat
    BY <1>1, HoldLimitAssumption DEF Shares
  <2>2. HoldLeft(x.share) \in 0..HoldLimit+1 /\ HoldLeft(x.share) > 0
    BY <1>2, <2>1 DEF HoldLeft
  <2>3. s = [nr |-> x.share.nr, hold |-> HoldLeft(x.share)]
    BY <1>2 DEF DecShare
  <2>4. QED BY <1>1, <2>2, <2>3 DEF Shares
<1> HIDE DEF s
<1>4. z \in TransTask /\ z.tags = x.tags /\ z.share = s /\ z.magic = x.magic /\ z.pending = x.pending
  BY <1>3 DEF TransTask
<1>5. x.tags.share # {}
  BY <1>2 DEF CheckShareType
<1>6. z = [x EXCEPT !.tags = DecShareTags(x.tags, x.share, k), !.share = DecShare(@, k)]
  BY <1>2 DEF s, TransTask
<1> HIDE DEF z
<1>7. Settled(z) /\ ShareOK(z)
  BY <1>3, <1>4, <1>5 DEF Settled, ShareOK
<1>8. QED BY <1>4, <1>6, <1>7

\* Taking back a share clears its bits with its last hold.
LEMMA UnsetInv == ASSUME ShareInv, NEW h \in Ctx, UnsetUxShare(h) PROVE ShareInv'
<1> DEFINE o == op[h]
           t == o.to
           x == ts[t]
           g == DecShareTags(x.tags, x.share, o.kind)
<1>1. /\ o.pc = "unset" /\ o \in Op /\ OpOK(o) /\ t \in Tasks /\ o.kind \in ShareTypes
      /\ op' = [op EXCEPT ![h] = NoOp]
      /\ UNCHANGED <<se, curr, features, scene, kwin>>
  BY DEF UnsetUxShare, ShareInv, OpOK, LentTo, Op
<1>2. /\ ts \in [Tasks -> TransTask] /\ x \in TransTask /\ Settled(x) /\ ShareOK(x)
      /\ IInv /\ OpOK(NoOp)
  BY <1>1, LentTyped DEF ShareInv, IInv, TypeOK
<1>3. UNCHANGED <<ux_list, refs>> =>
        ListsOK' /\ \A d \in Cpus, u \in Tasks : Listed(ux_list'[d], u) => Queued(u, d)
  BY <1>1, IInvLists, ListsUnchanged DEF ShareInv, IInv, ListedAtHome
<1>4. CASE UNCHANGED <<ts, ux_list, refs>>
  <2>1. ts' = [ts EXCEPT ![t] = x]
    BY <1>1, <1>2, <1>4
  <2> HIDE DEF x, t, o
  <2>2. QED BY <1>1, <1>2, <1>3, <1>4, <2>1, LockedStep
<1>5. CASE /\ CheckShareType(g, o.kind) /\ UNCHANGED <<ux_list, refs>>
           /\ ts' = [ts EXCEPT ![t].tags = g, ![t].share = DecShare(@, o.kind)]
  <2> DEFINE z == [x EXCEPT !.tags = g, !.share = DecShare(@, o.kind)]
  <2>1. ts' = [ts EXCEPT ![t] = z]
    BY <1>1, <1>2, <1>5
  <2>2. z \in TransTask /\ Settled(z) /\ ShareOK(z)
    BY <1>1, <1>2, <1>5, HeldTask
  <2> HIDE DEF z, x, t, o
  <2>3. QED BY <1>1, <1>2, <1>3, <1>5, <2>1, <2>2, LockedStep
<1>6. CASE /\ UNCHANGED <<ux_list, refs>>
           /\ ts' = [ts EXCEPT ![t].tags = SetFlag(@, "ONESHOT")]
  <2> DEFINE z == [x EXCEPT !.tags = SetFlag(@, "ONESHOT")]
  <2>1. ts' = [ts EXCEPT ![t] = z]
    BY <1>1, <1>2, <1>6
  <2>2. x.tags \in Tags /\ SetFlag(x.tags, "ONESHOT") \in Tags
    BY <1>2, TagsTyped DEF TransTask, UxFlags
  <2>3. /\ z \in TransTask /\ z.share = x.share /\ z.magic = x.magic /\ z.pending = x.pending
        /\ z.tags.share = x.tags.share /\ z.tags.sprio = x.tags.sprio
    BY <1>2, <2>2, TagFields DEF TransTask
  <2> HIDE DEF z
  <2>4. Settled(z) /\ ShareOK(z)
    <3>1. CheckTagsOk(z.tags) <=> CheckTagsOk(x.tags)
      BY <2>3 DEF CheckTagsOk
    <3>2. Settled(z)
      BY <1>2, <2>3, <3>1 DEF Settled
    <3>3. ShareOK(z)
      BY <1>2, <2>3 DEF ShareOK
    <3>4. QED BY <3>2, <3>3
  <2> HIDE DEF x, t, o
  <2>5. QED BY <1>1, <1>2, <1>3, <1>6, <2>1, <2>3, <2>4, LockedStep
<1>7. CASE /\ ts' = [ts EXCEPT ![t] = ClearTags(x)]
           /\ IF OnUxList(t) THEN Unlink(t) ELSE UNCHANGED <<ux_list, refs>>
  <2>1. ClearTags(x) \in TransTask /\ Settled(ClearTags(x)) /\ ShareOK(ClearTags(x))
    <3>1. ClearTags(x) \in TransTask
      BY <1>2, TaskTyped
    <3>2. /\ ClearTags(x).tags = NoTags /\ ClearTags(x).share = NoShare
          /\ ~ClearTags(x).magic /\ ClearTags(x).pending = x.pending
      BY <1>2, ClearedFields
    <3>3. NoTags.share = {} /\ ~CheckTagsOk(NoTags)
      BY DEF NoTags, CheckTagsOk
    <3>4. QED BY <1>2, <3>1, <3>2, <3>3, NothingShared DEF Settled
  <2>2. CASE OnUxList(t) /\ Unlink(t)
    <3>1. ListsOK' /\ \A d \in Cpus, u \in Tasks : Listed(ux_list'[d], u) => Listed(ux_list[d], u)
      BY <1>1, <1>2, <2>2, IInvLists, UnlinkStep
    <3>2. \A d \in Cpus, u \in Tasks : Listed(ux_list'[d], u) => Queued(u, d)
      BY <1>2, <3>1 DEF IInv, ListedAtHome
    <3> HIDE DEF x, t, o
    <3>3. QED BY <1>1, <1>2, <1>7, <2>1, <3>1, <3>2, LockedStep
  <2>3. CASE UNCHANGED <<ux_list, refs>>
    <3> HIDE DEF x, t, o
    <3>1. QED BY <1>1, <1>2, <1>3, <1>7, <2>1, <2>3, LockedStep
  <2>4. QED BY <1>7, <2>2, <2>3
<1>8. QED BY <1>4, <1>5, <1>6, <1>7 DEF UnsetUxShare

----------------------------------------------------------------------------
(* The theorems.                                                           *)

\* The scheduler core and userland keep share words and share bits together: they
\* change neither, or reset both.
LEMMA ShareTaskStep ==
  ASSUME IInv, NEW t \in Tasks, Settled(ts[t]), ShareOK(ts[t]), TaskStep(t)
  PROVE  ShareOK(ts'[t])
<1>1. ts[t] \in TransTask /\ NoTags.share = {}
  BY DEF IInv, TypeOK, NoTags
<1>2. CASE SameTags(ts[t], ts'[t])
  BY <1>2 DEF SameTags, ShareOK
<1>3. CASE SameTags(ClearTags(ts[t]), ts'[t])
  BY <1>1, <1>3, ClearedFields, NothingShared DEF SameTags
<1>4. CASE ts'[t] = FreshTask
  <2>1. FreshTask.tags = NoTags /\ FreshTask.share = NoShare
    BY DEF FreshTask
  <2>2. QED BY <1>1, <1>4, <2>1, NothingShared
<1>5. ASSUME NEW req \in Requests, Asked(ts[t], ts'[t], req) PROVE ShareOK(ts'[t])
  <2> DEFINE v == PendingDecision(ts[t].tags, ts[t].pending, req)
  <2>1. CASE v.ignore
    <3>1. ts'[t] = [ts[t] EXCEPT !.pending = v.pending]
      BY <1>5, <2>1 DEF Asked
    <3> HIDE DEF v
    <3>2. ts'[t].tags = ts[t].tags /\ ts'[t].share = ts[t].share
      BY <1>1, <3>1 DEF TransTask
    <3>3. QED BY <3>2 DEF ShareOK
  <2>2. CASE ~v.ignore
    <3>1. ts'[t] = Granted(ts[t], req)
      BY <1>5, <2>2 DEF Asked
    <3>2. ts'[t].tags.share = {} /\ ts'[t].share = NoShare
      BY <1>1, <2>2, <3>1, GrantedFacts
    <3>3. QED BY <3>2, NothingShared
  <2>3. QED BY <2>1, <2>2
<1>6. CASE Retagged(ts[t], ts'[t])
  BY <1>1, <1>6, RetaggedFields DEF ShareOK
<1>7. QED BY <1>2, <1>3, <1>4, <1>5, <1>6 DEF TaskStep

\* At the start nothing is lent and no hook runs.
LEMMA ShareInitInv == ShareInit => ShareInv
<1> SUFFICES ASSUME ShareInit PROVE ShareInv
  OBVIOUS
<1>1. IInv /\ \A t \in Tasks : ts[t] = FreshTask
  BY InitInv DEF ShareInit, Init
<1>2. op \in [Ctx -> Op] /\ \A h \in Ctx : OpOK(op[h])
  BY LentTyped DEF ShareInit
<1>3. Settled(FreshTask) /\ ShareOK(FreshTask)
  <2>1. FreshTask.tags = NoTags /\ FreshTask.share = NoShare /\ NoTags.share = {}
    BY DEF FreshTask, NoTags
  <2>2. QED BY <2>1, NothingShared DEF FreshTask, Settled, NoTags, CheckTagsOk
<1>4. QED BY <1>1, <1>2, <1>3 DEF ShareInv

\* Every step of the scheduler core, of userland and of the hooks.
LEMMA ShareStepInv == ShareInv /\ [ShareNext]_vars => ShareInv'
<1> SUFFICES ASSUME ShareInv, [ShareNext]_vars PROVE ShareInv'
  OBVIOUS
<1>1. CASE [Next]_schedVars /\ UNCHANGED op
  <2>1. IInv /\ IInv'
    BY <1>1, StepInv DEF ShareInv
  <2>2. \A t \in Tasks : Settled(ts'[t]) /\ ShareOK(ts'[t])
    BY <1>1, <2>1, TaskSteps, SettledStep, ShareTaskStep DEF ShareInv
  <2>3. QED BY <1>1, <2>1, <2>2 DEF ShareInv
<1>2. ASSUME NEW h \in Ctx, Hook(h) PROVE ShareInv'
  <2>1. CASE \E from \in Waiters, to \in Tasks, k \in Kinds, s \in LockSlices :
               LockOffer(h, k, from, to, s)
    BY <2>1, LockOfferInv
  <2>2. CASE \E from \in Waiters, to \in Tasks, proc \in Leaders : Transaction(h, from, to, proc)
    BY <2>2, OfferInv DEF Transaction
  <2>3. CASE \/ \E to \in Tasks :
                  FutexOffer(h, to) \/ \E proc \in Leaders : BinderReceived(h, to, proc)
             \/ \E from \in Waiters, proc \in Leaders, sf \in BOOLEAN : AsyncOffer(h, from, proc, sf)
             \/ \E k \in Kinds, t \in Tasks : UnsetBegin(h, k, t)
    BY <2>3, OfferInv
  <2>4. CASE ReadTags(h) \/ ReadLeader(h) \/ ReadShare(h) \/ WalkThreads(h)
    BY <2>4, ReadTagsInv, ReadLeaderInv, ReadShareInv, WalkThreadsInv
  <2>5. CASE SetUxShare(h) \/ UpdateUxShareHold(h) \/ UnsetUxShare(h)
    BY <2>5, SetUxShareInv, HoldInv, UnsetInv
  <2>6. QED BY <1>2, <2>1, <2>2, <2>3, <2>4, <2>5 DEF Hook
<1>3. QED BY <1>1, <1>2 DEF ShareNext, vars

\* The inductive invariant of inheritance: that of the scheduler core, plus what each
\* context has read and how the share words, marks and pending requests of the tasks
\* hang together.
THEOREM ShareInvariantHolds == ShareSpec => []ShareInv
BY ShareInitInv, ShareStepInv, PTL DEF ShareSpec

\* Chains of inheritance are bounded for any number of contexts: the limit is checked
\* without a lock, but on the very copy of the share word that is applied later.
THEOREM ChainsBounded == ShareSpec => []ShareBounded
<1>1. ShareInv => ShareBounded
  BY DEF ShareInv, ShareOK, ShareBounded
<1>2. QED BY <1>1, ShareInvariantHolds, PTL

\* A task's share word is there exactly as long as its share bits are, whatever hooks
\* overwrite each other's work.
THEOREM ShareWordMatchesBits == ShareSpec => []ShareMatchesTags
<1>1. ShareInv => ShareMatchesTags
  BY DEF ShareInv, ShareOK, ShareMatchesTags
<1>2. QED BY <1>1, ShareInvariantHolds, PTL

\* The mark that makes a task's time count is set exactly when it has a priority or a
\* share.
THEOREM MarkMatchesTags == ShareSpec => []MagicMatchesTags
<1>1. ShareInv => MagicMatchesTags
  BY DEF ShareInv, Settled, MagicMatchesTags
<1>2. QED BY <1>1, ShareInvariantHolds, PTL

\* Inheritance keeps task references and list entries balanced too.
THEOREM SharedReferencesBalanced == ShareSpec => []RefBalance
<1>1. ShareInv => RefBalance
  BY DEF ShareInv, IInv
<1>2. QED BY <1>1, ShareInvariantHolds, PTL

\* The unlocked part of every hook leaves the scheduler core alone.
LEMMA HooksLook ==
  ASSUME NEW h \in Ctx, Hook(h)
  PROVE  \/ UNCHANGED schedVars
         \/ SetUxShare(h) \/ UpdateUxShareHold(h) \/ UnsetUxShare(h)
<1>1. ASSUME NEW o, Begin(h, o) PROVE UNCHANGED schedVars
  BY <1>1 DEF Begin
<1>2. ASSUME NEW o, GoOn(h, o) PROVE UNCHANGED schedVars
  BY <1>2 DEF GoOn
<1>3. ASSUME NEW from, NEW to, NEW k, NEW s, LockOffer(h, k, from, to, s)
      PROVE  UNCHANGED schedVars
  BY <1>1, <1>3 DEF LockOffer
<1>5. ASSUME NEW from, NEW to, NEW proc, Transaction(h, from, to, proc)
      PROVE  UNCHANGED schedVars
  <2>1. CASE BinderHold(h, from, to)
    BY <1>1, <2>1 DEF BinderHold
  <2>2. ASSUME NEW sync, BinderOffer(h, from, to, sync) PROVE UNCHANGED schedVars
    BY <1>1, <2>2 DEF BinderOffer
  <2>3. ASSUME NEW sync, BinderRtOffer(h, from, to, proc, sync) PROVE UNCHANGED schedVars
    BY <1>1, <2>3 DEF BinderRtOffer
  <2>4. QED BY <1>5, <2>1, <2>2, <2>3 DEF Transaction
<1>6. ASSUME NEW from, NEW proc, NEW sf, AsyncOffer(h, from, proc, sf)
      PROVE  UNCHANGED schedVars
  BY <1>1, <1>6 DEF AsyncOffer
<1>7. ASSUME NEW to, NEW proc, BinderReceived(h, to, proc) \/ FutexOffer(h, to)
      PROVE  UNCHANGED schedVars
  <2>1. BinderReceived(h, to, proc) => \E o : Begin(h, o)
    BY DEF BinderReceived
  <2>2. FutexOffer(h, to) => \E o : Begin(h, o)
    BY DEF FutexOffer
  <2>3. QED BY <1>1, <1>7, <2>1, <2>2
<1>8. ASSUME NEW k, NEW t, UnsetBegin(h, k, t) PROVE UNCHANGED schedVars
  BY <1>1, <1>8 DEF UnsetBegin
<1>4. CASE ReadTags(h) \/ ReadLeader(h) \/ ReadShare(h) \/ WalkThreads(h)
  BY <1>2, <1>4 DEF ReadTags, ReadLeader, ReadShare, WalkThreads, GiveUp
<1>9. QED BY <1>3, <1>4, <1>5, <1>6, <1>7, <1>8 DEF Hook

\* What the hook of a context has seen, when it turns to a task.
LEMMA TurnsTo ==
  ASSUME op \in [Ctx -> Op], NEW h \in Ctx, NEW o, op' = [op EXCEPT ![h] = o], Sees
  PROVE  /\ op'[h] = o /\ saw' \in [Ctx -> BOOLEAN]
         /\ saw'[h] => o.to # Idle /\ IF o.to = op[h].to THEN saw[h] ELSE StaticTags(o.to)
         /\ \A i \in Ctx \ {h} : op'[i] = op[i] /\ (saw'[i] => saw[i])
<1>1. op'[h] = o /\ \A i \in Ctx \ {h} : op'[i] = op[i]
  OBVIOUS
<1>2. \A i \in Ctx : saw'[i] = (/\ op'[i].to # Idle
                              /\ IF op'[i].to = op[i].to THEN saw[i] ELSE StaticTags(op'[i].to))
  BY DEF Sees
<1>3. saw' \in [Ctx -> BOOLEAN]
  BY DEF Sees
<1>4. QED BY <1>1, <1>2, <1>3

\* A hook that sees tags of its own on the task it turns to is about to apply those
\* of a futex; every other one has looked for their absence, or for a share.
SawOK ==
  /\ saw \in [Ctx -> BOOLEAN]
  /\ \A h \in Ctx : saw[h] => op[h].kind = "FUTEX" /\ op[h].pc = "apply"

\* A task without tags, or with a share, has no tags of its own.
LEMMA NotStatic ==
  ASSUME NEW t
  PROVE  /\ UxState(t) = "NO_TAG" => ~StaticTags(t)
         /\ \A k : CheckShareType(ts[t].tags, k) => ~StaticTags(t)
<1>1. UxState(t) = "NO_TAG" => ~CheckTagsOk(ts[t].tags)
  BY DEF UxState
<1>2. ASSUME NEW k, CheckShareType(ts[t].tags, k) PROVE ts[t].tags.share # {}
  BY <1>2 DEF CheckShareType
<1>3. QED BY <1>1, <1>2 DEF StaticTags

\* A hook that begins has turned to a task from none.
LEMMA BeginSees ==
  ASSUME ShareInv, NEW h \in Ctx, NEW o, Begin(h, o), Sees,
         o.to # Idle => ~StaticTags(o.to) \/ (o.kind = "FUTEX" /\ o.pc = "apply")
  PROVE  saw'[h] => op'[h].kind = "FUTEX" /\ op'[h].pc = "apply"
<1>1. op \in [Ctx -> Op] /\ op[h] = NoOp /\ op' = [op EXCEPT ![h] = o] /\ NoOp.to = Idle
  BY DEF ShareInv, Begin, NoOp
<1>2. QED BY <1>1, TurnsTo

\* A hook that goes on works on the task it has turned to, or on none.
LEMMA GoOnSees ==
  ASSUME ShareInv, SawOK, NEW h \in Ctx, op[h].pc # "apply", NEW o, op' = [op EXCEPT ![h] = o], Sees,
         o.to \in {op[h].to, Idle} \/ ~StaticTags(o.to)
  PROVE  ~saw'[h]
<1>1. op \in [Ctx -> Op] /\ ~saw[h]
  BY DEF ShareInv, SawOK
<1>2. QED BY <1>1, TurnsTo

\* What a hook has seen after each of its steps.
LEMMA SawStep ==
  ASSUME ShareInv, SawOK, NEW h \in Ctx, Hook(h), Sees
  PROVE  SawOK'
<1> DEFINE Good == saw'[h] => op'[h].kind = "FUTEX" /\ op'[h].pc = "apply"
           Mine == \E o : op' = [op EXCEPT ![h] = o]
<1>1. op \in [Ctx -> Op] /\ NoOp.to = Idle
  BY DEF ShareInv, NoOp
<1>2. ASSUME NEW o, Begin(h, o), o.to # Idle => ~StaticTags(o.to) \/ (o.kind = "FUTEX" /\ o.pc = "apply")
      PROVE  Good /\ Mine
  <2>1. Good
    BY <1>2, BeginSees
  <2>2. QED BY <1>2, <2>1 DEF Begin
<1>3. ASSUME NEW o, op[h].pc # "apply", GoOn(h, o), o.to \in {op[h].to, Idle} \/ ~StaticTags(o.to)
      PROVE  Good /\ Mine
  <2>1. op' = [op EXCEPT ![h] = o]
    BY <1>3 DEF GoOn
  <2>2. QED BY <1>3, <2>1, GoOnSees
<1> HIDE DEF Good, Mine
<1>4. ASSUME NEW from, NEW to, NEW k, NEW s, LockOffer(h, k, from, to, s) PROVE Good /\ Mine
  <2> DEFINE step == [NoOp EXCEPT !.kind = k, !.from = from, !.to = to, !.slice = s]
             o1 == [step EXCEPT !.pc = "tags"]
             o2 == Ready(step, ChangeSlice(InitDprio(DefaultTags), s), NoShare)
  <2>1. UxState(to) = "NO_TAG" /\ (Begin(h, o1) \/ Begin(h, o2))
    BY <1>4 DEF LockOffer
  <2>2. o1.to = to /\ o2.to = to
    BY DEF NoOp, Ready
  <2> HIDE DEF o1, o2
  <2>3. QED BY <1>2, <2>1, <2>2, NotStatic
<1>5. ASSUME NEW from, NEW to, NEW proc, Transaction(h, from, to, proc) PROVE Good /\ Mine
  <2>1. CASE BinderHold(h, from, to)
    <3> DEFINE o == [NoOp EXCEPT !.pc = "hold", !.to = to]
    <3>1. Begin(h, o) /\ CheckShareType(ts[to].tags, "BINDER") /\ o.to = to
      BY <2>1 DEF BinderHold, NoOp
    <3> HIDE DEF o
    <3>2. QED BY <1>2, <3>1, NotStatic
  <2>2. ASSUME NEW sync, BinderOffer(h, from, to, sync) PROVE Good /\ Mine
    <3> DEFINE o == [NoOp EXCEPT !.pc = "tags", !.from = from, !.to = to,
                                 !.boost = sync /\ from \in Mains]
    <3>1. Begin(h, o) /\ (UxState(to) = "NO_TAG" \/ ~CheckTagsOk(ts[to].tags)) /\ o.to = to
      BY <2>2 DEF BinderOffer, NoOp
    <3> HIDE DEF o
    <3>2. QED BY <1>2, <3>1, NotStatic DEF StaticTags
  <2>3. ASSUME NEW sync, BinderRtOffer(h, from, to, proc, sync) PROVE Good /\ Mine
    <3>1. PICK g : Begin(h, [NoOp EXCEPT !.pc = "apply", !.to = to, !.tags = g])
      BY <2>3 DEF BinderRtOffer
    <3> DEFINE o == [NoOp EXCEPT !.pc = "apply", !.to = to, !.tags = g]
    <3>2. UxState(to) = "NO_TAG" /\ o.to = to
      BY <2>3 DEF BinderRtOffer, NoOp
    <3>3. Begin(h, o)
      BY <3>1
    <3> HIDE DEF o
    <3>4. QED BY <1>2, <3>2, <3>3, NotStatic
  <2>4. QED BY <1>5, <2>1, <2>2, <2>3 DEF Transaction
<1>6. ASSUME NEW from, NEW proc, NEW sf, AsyncOffer(h, from, proc, sf) PROVE Good /\ Mine
  <2> DEFINE o == [NoOp EXCEPT !.pc = IF sf THEN "leader" ELSE "tags",
                               !.from = IF sf THEN proc ELSE from,
                               !.slice = IF sf THEN 0 ELSE AppSlice, !.todo = Loopers[proc]]
  <2>1. Begin(h, o) /\ o.to = Idle
    BY <1>6 DEF AsyncOffer, NoOp
  <2> HIDE DEF o
  <2>2. QED BY <1>2, <2>1
<1>7. ASSUME NEW to, NEW proc, BinderReceived(h, to, proc) PROVE Good /\ Mine
  <2>1. PICK g : Begin(h, [NoOp EXCEPT !.pc = "apply", !.to = to, !.tags = g])
    BY <1>7 DEF BinderReceived
  <2> DEFINE o == [NoOp EXCEPT !.pc = "apply", !.to = to, !.tags = g]
  <2>2. UxState(to) = "NO_TAG" /\ o.to = to
    BY <1>7 DEF BinderReceived, NoOp
  <2>3. Begin(h, o)
    BY <2>1
  <2> HIDE DEF o
  <2>4. QED BY <1>2, <2>2, <2>3, NotStatic
<1>8. ASSUME NEW to, FutexOffer(h, to) PROVE Good /\ Mine
  <2> DEFINE o1 == [NoOp EXCEPT !.pc = "hold", !.kind = "FUTEX", !.to = to]
             o2 == [NoOp EXCEPT !.pc = "apply", !.kind = "FUTEX", !.to = to,
                                !.tags = RaiseDprio(InitDprio(FutexTags))]
  <2>1. (Begin(h, o1) /\ CheckShareType(ts[to].tags, "FUTEX")) \/ Begin(h, o2)
    BY <1>8 DEF FutexOffer
  <2>2. o1.to = to /\ o2.kind = "FUTEX" /\ o2.pc = "apply"
    BY DEF NoOp
  <2> HIDE DEF o1, o2
  <2>3. QED BY <1>2, <2>1, <2>2, NotStatic
<1>9. ASSUME NEW k \in Kinds, NEW t \in Tasks, UnsetBegin(h, k, t) PROVE Good /\ Mine
  <2> DEFINE o == [NoOp EXCEPT !.pc = "unset", !.kind = k, !.to = t]
  <2>1. Begin(h, o) /\ ts[t].share.nr[k] # 0 /\ o.to = t
    BY <1>9 DEF UnsetBegin, NoOp
  <2>2. ts[t].tags.share # {}
    <3>1. NoShare.nr[k] = 0
      BY KindsAssumption DEF NoShare
    <3>2. QED BY <2>1, <3>1 DEF ShareInv, ShareOK
  <2> HIDE DEF o
  <2>3. QED BY <1>2, <2>1, <2>2 DEF StaticTags
<1>10. ASSUME ReadTags(h) \/ ReadLeader(h) \/ ReadShare(h) PROVE Good /\ Mine
  <2>1. op[h].pc # "apply"
    BY <1>10 DEF ReadTags, ReadLeader, ReadShare
  <2>2. \A g, s : Ready(op[h], g, s).to = op[h].to
    BY DEF Ready, NoOp
  <2>3. \A g : [op[h] EXCEPT !.pc = "share", !.tags = g].to = op[h].to
    BY <1>1 DEF Op
  <2>4. \E o : GoOn(h, o) /\ o.to \in {op[h].to, Idle}
    <3>1. CASE ReadTags(h)
      <4>1. \/ GoOn(h, NoOp) \/ \E w : GoOn(h, Ready(op[h], w, NoShare))
            \/ \E g : GoOn(h, [op[h] EXCEPT !.pc = "share", !.tags = g])
        BY <3>1 DEF ReadTags, GiveUp
      <4>2. QED BY <1>1, <2>2, <2>3, <4>1
    <3>2. CASE ReadLeader(h)
      <4>1. GoOn(h, NoOp) \/ \E w : GoOn(h, Ready(op[h], w, NoShare))
        BY <3>2 DEF ReadLeader, GiveUp
      <4>2. QED BY <1>1, <2>2, <4>1
    <3>3. CASE ReadShare(h)
      <4>1. GoOn(h, NoOp) \/ \E g, s : GoOn(h, Ready(op[h], g, s))
        BY <3>3 DEF ReadShare, GiveUp
      <4>2. QED BY <1>1, <2>2, <4>1
    <3>4. QED BY <1>10, <3>1, <3>2, <3>3
  <2>5. QED BY <1>3, <2>1, <2>4
<1>11. \A o \in Op : \A rest : WalkOn(o, rest).to = Idle
  BY <1>1 DEF WalkOn, Op
<1>12. ASSUME WalkThreads(h) PROVE Good /\ Mine
  <2>1. op[h].pc # "apply" /\ op[h] \in Op
    BY <1>1, <1>12 DEF WalkThreads
  <2>2. PICK t : \/ /\ UxState(t) = "NO_TAG"
                    /\ GoOn(h, [op[h] EXCEPT !.pc = "apply", !.to = t, !.todo = @ \ {t}])
                 \/ GoOn(h, WalkOn(op[h], op[h].todo \ {t}))
    BY <1>12 DEF WalkThreads
  <2> DEFINE o1 == [op[h] EXCEPT !.pc = "apply", !.to = t, !.todo = @ \ {t}]
             o2 == WalkOn(op[h], op[h].todo \ {t})
  <2>3. o1.to = t /\ o2.to = Idle
    BY <1>11, <2>1 DEF Op
  <2>4. (UxState(t) = "NO_TAG" /\ GoOn(h, o1)) \/ GoOn(h, o2)
    BY <2>2
  <2> HIDE DEF o1, o2
  <2>5. QED BY <1>3, <2>1, <2>3, <2>4, NotStatic
<1>13. ASSUME SetUxShare(h) \/ UpdateUxShareHold(h) \/ UnsetUxShare(h) PROVE Good /\ Mine
  <2>1. PICK o : op' = [op EXCEPT ![h] = o] /\ o.to = Idle
    <3>1. op[h] \in Op
      BY <1>1
    <3>2. CASE SetUxShare(h)
      BY <1>11, <3>1, <3>2 DEF SetUxShare
    <3>3. CASE UpdateUxShareHold(h) \/ UnsetUxShare(h)
      BY <1>1, <3>3 DEF UpdateUxShareHold, UnsetUxShare
    <3>4. QED BY <1>13, <3>2, <3>3
  <2>2. ~saw'[h]
    BY <1>1, <2>1, TurnsTo
  <2>3. QED BY <2>1, <2>2 DEF Good, Mine
<1>14. Good /\ Mine
  BY <1>4, <1>5, <1>6, <1>7, <1>8, <1>9, <1>10, <1>12, <1>13 DEF Hook
<1>15. PICK o : op' = [op EXCEPT ![h] = o]
  BY <1>14 DEF Mine
<1>16. saw' \in [Ctx -> BOOLEAN] /\ \A i \in Ctx \ {h} : op'[i] = op[i] /\ (saw'[i] => saw[i])
  BY <1>1, <1>15, TurnsTo
<1>17. QED BY <1>14, <1>16 DEF SawOK, Good

\* No hook but a futex one is on its way to a task on which it saw tags of its own.
LEMMA SawHolds == ShareSpec => [](ShareInv /\ SawOK)
<1>1. ShareInit => SawOK
  BY DEF ShareInit, SawOK
<1>2. ShareInv /\ SawOK /\ [ShareNext]_vars => SawOK'
  <2>1. ASSUME SawOK, UNCHANGED <<op, saw>> PROVE SawOK'
    BY <2>1 DEF SawOK
  <2>2. QED BY <2>1, SawStep DEF ShareNext, vars
<1>3. QED BY <1>1, <1>2, ShareInvariantHolds, PTL DEF ShareSpec

\* Share words and the hooks' copies of tags fit their bit fields.
THEOREM ShareTypeCorrect == ShareSpec => []ShareTypeOK
<1>1. ShareInv /\ SawOK => ShareTypeOK
  BY DEF ShareInv, IInv, SawOK, ShareTypeOK
<1>2. QED BY <1>1, SawHolds, PTL

\* A step takes static tags away only as StaticKept says.
LEMMA StaticStep ==
  ASSUME ShareInv, SawOK, [ShareNext]_vars, NEW t \in Tasks,
         StaticTags(t), ~StaticTags(t)', Alive(t)
  PROVE  \/ \E req \in Requests : SetUxTags(t, req)
         \/ \E h \in Ctx : /\ op[h].to = t /\ op[h].pc \in {"apply", "unset"}
                           /\ saw[h] => op[h].kind = "FUTEX" /\ op[h].pc = "apply"
<1>1. ts \in [Tasks -> TransTask] /\ ts[t] \in TransTask /\ IInv
  BY DEF ShareInv, IInv, TypeOK
<1>2. ts'[t].tags # ts[t].tags
  BY DEF StaticTags
<1>3. CASE [Next]_schedVars
  <2>1. TaskStep(t)
    BY <1>1, <1>3, TaskSteps
  <2>2. ~SameTags(ts[t], ts'[t])
    BY <1>2 DEF SameTags
  <2>3. ~Retagged(ts[t], ts'[t])
    BY <1>1, RetaggedFields DEF StaticTags, CheckTagsOk
  <2>4. QED BY <2>1, <2>2, <2>3 DEF TaskStep, StaticTags
<1>4. ASSUME NEW h \in Ctx, Hook(h)
      PROVE  op[h].to = t /\ op[h].pc \in {"apply", "unset"}
  <2>1. CASE UNCHANGED schedVars
    BY <1>2, <2>1 DEF schedVars
  <2>2. CASE SetUxShare(h) \/ UnsetUxShare(h)
    <3>1. op[h].pc \in {"apply", "unset"} /\ op[h].to \in Tasks
      BY <2>2 DEF SetUxShare, UnsetUxShare, ShareInv, OpOK, LentTo
    <3>2. \E x : ts' = [ts EXCEPT ![op[h].to] = x]
      <4>1. CASE SetUxShare(h)
        BY <4>1 DEF SetUxShare
      <4>2. CASE UnsetUxShare(h) /\ UNCHANGED ts
        <5>1. ts' = [ts EXCEPT ![op[h].to] = ts[op[h].to]]
          BY <1>1, <4>2
        <5>2. QED BY <5>1
      <4>3. CASE UnsetUxShare(h) /\ ~UNCHANGED ts
        BY <1>2, <2>2, <4>3 DEF UnsetUxShare
      <4>4. QED BY <2>2, <4>1, <4>2, <4>3
    <3>3. QED BY <1>1, <1>2, <3>1, <3>2
  <2>3. CASE UpdateUxShareHold(h)
    BY <1>1, <1>2, <2>3 DEF UpdateUxShareHold, CheckShareType, StaticTags
  <2>4. QED BY <1>4, <2>1, <2>2, <2>3, HooksLook
<1>5. QED BY <1>3, <1>4 DEF ShareNext, vars, SawOK

\* What userland gave to a live task is taken away by userland and by hooks that saw
\* the task without it, and otherwise only by a futex hook on a task that is not fair.
THEOREM StaticTagsKept == ShareSpec => StaticKept
<1>1. ShareInv /\ SawOK /\ [ShareNext]_vars =>
        [\A t \in Tasks :
           StaticTags(t) /\ ~StaticTags(t)' /\ Alive(t) =>
             \/ \E req \in Requests : SetUxTags(t, req)
             \/ \E h \in Ctx : /\ op[h].to = t /\ op[h].pc \in {"apply", "unset"}
                               /\ saw[h] => op[h].kind = "FUTEX" /\ op[h].pc = "apply"]_vars
  BY StaticStep
<1>2. QED BY <1>1, SawHolds, PTL DEF ShareSpec, StaticKept

=============================================================================

------------------------------ MODULE WaitLists ------------------------------
(***************************************************************************)
(* The wait lists of the kernel's blocking primitives, as trans_mutex.c,   *)
(* trans_rwsem.c and trans_futex.c order them: one mutex, one rwsem and    *)
(* one futex hash bucket.  A UX task that has to wait is queued ahead of   *)
(* plain tasks, lends its tags to the ones it leaves ahead of it and to    *)
(* the owner, and a plain task may not spin past a waiting UX task.        *)
(*                                                                         *)
(* The locks themselves (who gets them, when a waiter leaves) are the      *)
(* kernel's; they are modelled from what the hooks rely on.  The share     *)
(* counts of a lent tag are UxShare's subject.                             *)
(***************************************************************************)
EXTENDS Integers, Sequences, SequencesExt, FiniteSets

CONSTANTS
  Tasks,
  RtTasks,      \* real-time tasks
  SfTasks,      \* real-time tasks with a surfaceflinger tag
  RtPrio,       \* real-time task -> its priority, below MAX_RT_PRIO
  Keys,         \* futex keys that hash to the bucket
  OtherKinds,   \* where a task's tags may come from outside the three locks
  None

UxKinds == {"own", "binder", "mutex", "mutex twice", "rwsem", "rwsem twice"}

ASSUME TasksAssumption == RtTasks \subseteq Tasks /\ SfTasks \subseteq RtTasks /\ None \notin Tasks
\* MAX_RT_PRIO is 100; a UX task waits with the priority before it.
FairPrio == 100
ASSUME KindsAssumption == OtherKinds \subseteq UxKinds \union {"timeout"}
ASSUME PrioAssumption == RtPrio \in [RtTasks -> 0..FairPrio - 1]

VARIABLES
  tag,        \* task -> where its UX tags come from
  at,         \* task -> "run", "spin" or the list it waits in
  mutex,      \* the mutex: owner, MUTEX_FLAG_HANDOFF, waiters
  rwsem,      \* the rwsem: owner, waiters with their type and age
  nodes,      \* the bucket's plist: node_list
  circle,     \* the bucket's plist: prio_list, starting at the first node
  wait        \* task -> key, priority and age of its futex wait

vars == <<tag, at, mutex, rwsem, nodes, circle, wait>>

Readers == "readers"

\* is_ux_task, and the states it reports for the others.
IsUx(t)    == t \notin RtTasks /\ tag[t] \in UxKinds
NotFair(t) == t \in RtTasks
NoTag(t)   == t \notin RtTasks /\ tag[t] = "none"
Target(t)  == t \in SfTasks               \* check_sf_target, check_overlayengine_target

Init ==
  /\ tag = [t \in Tasks |-> "none"]
  /\ at = [t \in Tasks |-> "run"]
  /\ mutex = [owner |-> None, handoff |-> FALSE, list |-> <<>>]
  /\ rwsem = [owner |-> None, list |-> <<>>]
  /\ nodes = <<>> /\ circle = <<>>
  /\ wait = [t \in Tasks |-> [key |-> None, prio |-> FairPrio, late |-> FALSE]]

----------------------------------------------------------------------------
(* Lending: mutex_set_ux_share and rwsem_set_ux_share.  Tags of one's own  *)
(* or lent by binder are lent on; tags lent by a lock only along a chain   *)
(* of locks of that kind, and only twice (g_ux_share_limit).               *)

Twice(kind) == IF kind = "mutex" THEN "mutex twice" ELSE "rwsem twice"

Lends(from, to, kind) ==
  /\ NoTag(to) /\ to # from
  /\ \/ IsUx(from) /\ tag[from] \in {"own", "binder", kind}
     \/ ~IsUx(from) /\ Target(from)

LendTo(from, tos, kind) ==
  [t \in Tasks |-> IF t \notin tos \/ ~Lends(from, t, kind) THEN tag[t]
                   ELSE IF tag[from] = kind THEN Twice(kind) ELSE kind]

Index(l, x) == CHOOSE i \in DOMAIN l : l[i] = x
InsertBefore(l, i, x) == IF i \in DOMAIN l THEN InsertAt(l, i, x) ELSE Append(l, x)
FirstIn(S, n) == IF S = {} THEN n + 1 ELSE CHOOSE i \in S : \A j \in S : i <= j

----------------------------------------------------------------------------
(* The mutex.                                                              *)

\* mutex_list_insert_ux: before the first plain waiter, but never before a
\* first waiter that has been promised the lock.
\* Mutant: the promise is forgotten.
MutexPosAlways(l, handoff) ==
  FirstIn({i \in DOMAIN l : ~IsUx(l[i]) /\ ~NotFair(l[i])}, Len(l))
MutexPos(l, handoff) ==
  FirstIn({i \in DOMAIN l : /\ ~(handoff /\ i = 1)
                            /\ ~IsUx(l[i]) /\ ~NotFair(l[i])}, Len(l))

\* android_vh_alter_mutex_list_add_hook and android_vh_mutex_wait_start_hook.
MutexWait(t) ==
  LET l      == mutex.list
      jumps  == l # <<>> /\ (IsUx(t) \/ Target(t))
      pos    == IF jumps THEN MutexPos(l, mutex.handoff) ELSE Len(l) + 1
      lendTo == (IF jumps /\ mutex.handoff THEN {l[1]} ELSE {}) \union {mutex.owner}
  IN  /\ at[t] \in {"run", "spin"} /\ mutex.owner \notin {None, t}
      /\ mutex' = [mutex EXCEPT !.list = InsertBefore(@, pos, t)]
      /\ tag' = LendTo(t, lendTo, "mutex")
      /\ at' = [at EXCEPT ![t] = "mutex"]
      /\ UNCHANGED <<rwsem, nodes, circle, wait>>

\* android_vh_mutex_can_spin_on_owner_hook.
MaySpin(t) ==
  mutex.list # <<>> /\ (IsUx(mutex.list[1]) \/ Target(mutex.list[1]))
    => IsUx(t) \/ NotFair(t)

Spin(t) ==
  /\ at[t] = "run" /\ mutex.owner \notin {None, t} /\ MaySpin(t)
  /\ at' = [at EXCEPT ![t] = "spin"]
  /\ UNCHANGED <<tag, mutex, rwsem, nodes, circle, wait>>

\* The kernel's mutex: a free lock without waiters goes to anyone, with
\* waiters to the first of them or to a spinner, a promised one to the first.
MutexTake(t) ==
  /\ mutex.owner = None
  /\ \/ at[t] \in {"run", "spin"} /\ mutex.list = <<>>
     \/ at[t] = "spin" /\ ~mutex.handoff
     \/ at[t] = "mutex" /\ mutex.list[1] = t
  /\ mutex' = [owner |-> t,
               handoff |-> mutex.handoff /\ at[t] # "mutex",
               list |-> IF at[t] = "mutex" THEN Tail(mutex.list) ELSE mutex.list]
  /\ at' = [at EXCEPT ![t] = "run"]
  /\ UNCHANGED <<tag, rwsem, nodes, circle, wait>>

\* A first waiter that was woken and did not get the lock asks for it.
MutexHandoff ==
  /\ mutex.owner # None /\ mutex.list # <<>> /\ ~mutex.handoff
  /\ mutex' = [mutex EXCEPT !.handoff = TRUE]
  /\ UNCHANGED <<tag, at, rwsem, nodes, circle, wait>>

\* mutex_unset_ux_share from the unlock path.
MutexUnlock(t) ==
  /\ mutex.owner = t /\ at[t] = "run"
  /\ mutex' = [mutex EXCEPT !.owner = None]
  /\ tag' = [tag EXCEPT ![t] = IF @ \in {"mutex", "mutex twice"} THEN "none" ELSE @]
  /\ UNCHANGED <<at, rwsem, nodes, circle, wait>>

----------------------------------------------------------------------------
(* The rwsem.                                                              *)

Waiter(t, type) == [task |-> t, type |-> type, age |-> 0]

\* rwsem_list_insert_ux.  A waiter is passed when it is UX or real-time.  The
\* first waiter is lent the tags before that is decided when it has been
\* promised the lock or waits past its timeout.  (WAITERS_UX_LIMIT, 50
\* waiters, is not reached.)
Passed(t, l, promised, i) ==
  \/ IsUx(l[i].task) \/ NotFair(l[i].task)
  \/ promised /\ i = 1 /\ Lends(t, l[i].task, "rwsem")
ReaderAhead(t, l, promised, i) ==
  \E j \in 1..i - 1 : Passed(t, l, promised, j) /\ l[j].type = "R"

\* The waiters a reader leaves ahead: plain writers until a UX reader is
\* passed; the ones a writer leaves ahead: plain readers behind a UX reader.
Joins(t, type, l, promised, i) ==
  /\ ~Passed(t, l, promised, i)
  /\ l[i].type # type
  /\ (type = "W") = ReaderAhead(t, l, promised, i)

RwsemPos(t, type, l, promised) ==
  FirstIn({i \in DOMAIN l : /\ ~Passed(t, l, promised, i)
                            /\ ~Joins(t, type, l, promised, i)}, Len(l))

\* Mutant: a reader that passes writers lends them nothing.
RwsemLentOnPromise(t, type, l, promised) ==
  {l[i].task : i \in {i \in DOMAIN l : promised /\ i = 1}}

\* Who is lent the tags on the way.  A reader stops at its place; a writer
\* walks on to the end of the list, and to the waiter it overtakes when that
\* has waited past its timeout.
RwsemLent(t, type, l, promised) ==
  LET pos == RwsemPos(t, type, l, promised)
  IN  {l[i].task : i \in
        {i \in DOMAIN l :
           \/ promised /\ i = 1
           \/ Joins(t, type, l, promised, i) /\ (type = "R" => i < pos)
           \/ type = "W" /\ i = pos /\ l[i].age = 2}}

\* android_vh_alter_rwsem_list_add_hook and android_vh_rwsem_wake_hook.
RwsemWait(t, type) ==
  LET l        == rwsem.list
      jumps    == l # <<>> /\ IsUx(t)
      promised == l # <<>> /\ l[1].age > 0
      pos      == IF jumps THEN RwsemPos(t, type, l, promised) ELSE Len(l) + 1
      lendTo   == IF jumps THEN RwsemLent(t, type, l, promised) ELSE {}
  IN  /\ at[t] = "run" /\ rwsem.owner \notin {None, t}
      /\ (type = "R" => rwsem.owner # Readers \/ l # <<>>)
      /\ rwsem' = [rwsem EXCEPT !.list = InsertBefore(@, pos, Waiter(t, type))]
      /\ tag' = LendTo(t, lendTo \union {rwsem.owner}, "rwsem")
      /\ at' = [at EXCEPT ![t] = "rwsem"]
      /\ UNCHANGED <<mutex, nodes, circle, wait>>

\* The waiters that are not in S, in their order.
Without(l, S) ==
  LET rest[i \in 0..Len(l)] == IF i = 0 THEN <<>>
                               ELSE IF l[i].task \in S THEN rest[i - 1]
                               ELSE Append(rest[i - 1], l[i])
  IN  rest[Len(l)]

\* The kernel's rwsem: a free one goes to the first waiter, readers together.
RwsemGrant ==
  LET w    == rwsem.list[1]
      gets == IF w.type = "W" THEN {w.task}
              ELSE {rwsem.list[i].task : i \in {i \in DOMAIN rwsem.list : rwsem.list[i].type = "R"}}
  IN  /\ rwsem.owner = None /\ rwsem.list # <<>>
      /\ rwsem' = [owner |-> IF w.type = "W" THEN w.task ELSE Readers,
                   list |-> Without(rwsem.list, gets)]
      /\ at' = [t \in Tasks |-> IF t \in gets THEN "run" ELSE at[t]]
      /\ UNCHANGED <<tag, mutex, nodes, circle, wait>>

RwsemTake(t, type) ==
  /\ at[t] = "run" /\ rwsem.owner = None /\ rwsem.list = <<>>
  /\ rwsem' = [rwsem EXCEPT !.owner = IF type = "W" THEN t ELSE Readers]
  /\ UNCHANGED <<tag, at, mutex, nodes, circle, wait>>

\* rwsem_unset_ux_share from the release path of a writer.
RwsemRelease ==
  /\ rwsem.owner # None /\ (rwsem.owner \in Tasks => at[rwsem.owner] = "run")
  /\ tag' = [t \in Tasks |-> IF t = rwsem.owner /\ tag[t] \in {"rwsem", "rwsem twice"}
                                 THEN "none" ELSE tag[t]]
  /\ rwsem' = [rwsem EXCEPT !.owner = None]
  /\ UNCHANGED <<at, mutex, nodes, circle, wait>>

\* A waiter's timeout passes (1), and another RWSEM_WAITER_TIMEOUT (2).
RwsemAge(i) ==
  /\ i \in DOMAIN rwsem.list /\ rwsem.list[i].age < 2
  /\ rwsem' = [rwsem EXCEPT !.list[i].age = @ + 1]
  /\ UNCHANGED <<tag, at, mutex, nodes, circle, wait>>

----------------------------------------------------------------------------
(* The futex bucket: a plist, whose node_list is sorted by priority and    *)
(* whose prio_list links the first node of each priority.                  *)

Prio(t) == wait[t].prio

\* trans_plist_add, a copy of the kernel's plist_add: walk the prio_list to the
\* first later priority, and join it unless the one before it is the node's.
\* Mutant: an equal priority counts as later.
CircleAtEqual(p)  == FirstIn({i \in DOMAIN circle : p <= Prio(circle[i])}, Len(circle))
CircleAt(p)       == FirstIn({i \in DOMAIN circle : p < Prio(circle[i])}, Len(circle))
PlistAdd(t, p) ==
  LET k == CircleAt(p)
      before == IF k \in DOMAIN circle THEN Index(nodes, circle[k])
                ELSE Len(nodes) + 1
  IN  /\ nodes' = InsertBefore(nodes, before, t)
      /\ circle' = IF k > 1 /\ Prio(circle[k - 1]) = p THEN circle
                   ELSE InsertBefore(circle, k, t)

\* The kernel's plist_del: the next node takes the place of a first one,
\* unless it has a place of its own.
PlistDel(t) ==
  LET i == Index(nodes, t)
      next == IF i < Len(nodes) THEN nodes[i + 1] ELSE t
  IN  /\ nodes' = RemoveAt(nodes, i)
      /\ circle' = IF ~Contains(circle, t) THEN circle
                   ELSE IF Contains(circle, next) THEN RemoveAt(circle, Index(circle, t))
                   ELSE [circle EXCEPT ![Index(circle, t)] = next]

\* get_top_fair_waiter and check_waiter_timeout: a fair waiter for the same
\* key that has slept too long keeps UX tasks in the normal order.
FairWaiters(k) == {i \in DOMAIN nodes : wait[nodes[i]].key = k /\ Prio(nodes[i]) = FairPrio}
FairStarves(k) == FairWaiters(k) # {} /\ wait[nodes[FirstIn(FairWaiters(k), 0)]].late

\* android_vh_alter_futex_plist_add_hook, else the kernel's own plist_add.
FutexWait(t, k) ==
  LET p == IF NotFair(t) THEN RtPrio[t]
           ELSE IF IsUx(t) /\ ~FairStarves(k) THEN FairPrio - 1
           ELSE FairPrio
  IN  /\ at[t] = "run"
      /\ PlistAdd(t, p)
      /\ wait' = [wait EXCEPT ![t] = [key |-> k, prio |-> p, late |-> FALSE]]
      /\ at' = [at EXCEPT ![t] = "futex"]
      /\ UNCHANGED <<tag, mutex, rwsem>>

\* A wake-up, a signal or a timeout.
FutexLeave(t) ==
  /\ at[t] = "futex"
  /\ PlistDel(t)
  /\ wait' = [wait EXCEPT ![t] = [key |-> None, prio |-> FairPrio, late |-> FALSE]]
  /\ at' = [at EXCEPT ![t] = "run"]
  /\ UNCHANGED <<tag, mutex, rwsem>>

FutexLate(t) ==
  /\ at[t] = "futex" /\ ~wait[t].late
  /\ wait' = [wait EXCEPT ![t].late = TRUE]
  /\ UNCHANGED <<tag, at, mutex, rwsem, nodes, circle>>

----------------------------------------------------------------------------
\* Requests, binder, other locks and the run limit change a task's tags at any
\* time.
TagsChange(t, k) ==
  /\ t \notin RtTasks /\ tag[t] # k
  /\ tag[t] = "none" \/ k \in {"none", "timeout"}
  /\ tag' = [tag EXCEPT ![t] = k]
  /\ UNCHANGED <<at, mutex, rwsem, nodes, circle, wait>>

Next ==
  \/ \E t \in Tasks : \/ MutexWait(t) \/ Spin(t) \/ MutexTake(t) \/ MutexUnlock(t)
                      \/ FutexLeave(t) \/ FutexLate(t)
                      \/ \E type \in {"R", "W"} : RwsemWait(t, type) \/ RwsemTake(t, type)
                      \/ \E k \in Keys : FutexWait(t, k)
                      \/ \E k \in OtherKinds \union {"none"} : TagsChange(t, k)
  \/ MutexHandoff \/ RwsemGrant \/ RwsemRelease
  \/ \E i \in 1..Cardinality(Tasks) : RwsemAge(i)

Spec == Init /\ [][Next]_vars

----------------------------------------------------------------------------
(* Properties.                                                             *)

\* The two lists of the futex plist fit each other whatever mix of UX, fair
\* and real-time waiters comes and goes: the nodes are sorted by priority and
\* the prio_list is the first node of each priority, in order.
FirstOfPrio(i) == \A j \in 1..i - 1 : Prio(nodes[j]) # Prio(nodes[i])
PlistConsistent ==
  /\ \A i, j \in DOMAIN nodes : i < j => Prio(nodes[i]) <= Prio(nodes[j])
  /\ \A i, j \in DOMAIN circle : i < j => Prio(circle[i]) < Prio(circle[j])
  /\ \A i \in DOMAIN circle : \E j \in DOMAIN nodes : nodes[j] = circle[i] /\ FirstOfPrio(j)
  /\ \A j \in DOMAIN nodes : \E i \in DOMAIN circle : Prio(circle[i]) = Prio(nodes[j])

\* A UX task does not queue up for the rwsem behind a plain task that it could have
\* lent its tags to: whoever it leaves ahead is UX or real-time afterwards.  What
\* becomes of those tags while both wait is not decided here.
NobodyPlainAhead ==
  [][\A t \in Tasks, type \in {"R", "W"} :
       RwsemWait(t, type) /\ IsUx(t) /\ rwsem.list # <<>> =>
         \A i \in DOMAIN rwsem.list' :
           rwsem.list'[i].task = t =>
             \A j \in 1..i - 1 : LET w == rwsem.list[j].task IN
               tag'[w] \in UxKinds \/ NotFair(w) \/ ~Lends(t, w, "rwsem")]_vars

\* The first waiter that was promised the mutex is still the first one until it
\* has it, whoever queues up meanwhile.
HandoffIsKept ==
  [][mutex.handoff /\ mutex.list # <<>> /\ at'[mutex.list[1]] = "mutex"
       => mutex.list'[1] = mutex.list[1]]_vars
=============================================================================

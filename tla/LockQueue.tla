----------------------------- MODULE LockQueue -----------------------------
(***************************************************************************)
(* The lock queue of each CPU: tasks that were protected when they were    *)
(* put on the run queue, which the fair class picks when no UX task is     *)
(* there.  The enqueue, dequeue and pick hooks run with the run-queue lock *)
(* held, and so does the first tag request (task_rq_lock), so each is one  *)
(* step.  How a task's protection comes and goes is LockProtect; LockInfo  *)
(* implements it.  UX eligibility is a Boolean here, UxSched computes it.  *)
(* lock_tuner has its default: pick lock tasks, whatever the load and      *)
(* however long they ran.                                                  *)
(***************************************************************************)
EXTENDS Integers, Sequences, SequencesExt, FiniteSets

CONSTANTS
  Tasks, Cpus,
  Nobody,       \* an idle CPU's current task, and the rq of an unlisted task
  Mains,        \* main threads (is_topapp)
  Changing,     \* tasks that leave and join the fair class
  Tagged,       \* tasks that become UX tasks and cease to be
  Mortal,       \* tasks that may exit (and be forked again)
  MaxLockTasks  \* MAX_LOCK_TASKS (5 in the code)

ASSUME TasksAssumption == Nobody \notin Tasks \union Cpus
ASSUME LimitAssumption == MaxLockTasks \in Nat

VARIABLES
  lock,       \* protection of each task: prot of LockProtect
  se,         \* what the scheduler knows of each task
  lock_list,  \* trq->lock_queue->lock_list of each CPU
  nr_tasks,   \* trq->lock_queue->nr_tasks
  enable,     \* trq->lock_queue->enable: others than main threads may join
  rq,         \* tts->rq, the run queue whose list a task is on
  refs,       \* task references the lock lists hold
  curr,       \* rq->curr
  protect     \* FEATURE_LOCK_PROTECT is on and the scene is not SS_BENCH

queueVars == <<lock, se, lock_list, nr_tasks, enable, rq, refs, curr, protect>>

SchedEntity == [cpu : Cpus, on_rq : {"no", "queued", "moving"}, fair : BOOLEAN,
                ux : BOOLEAN, init : BOOLEAN, life : {"live", "exiting", "dead"}]

QueueTypeOK ==
  /\ lock \in [Tasks -> {"none", "fresh", "late"}]
  /\ se \in [Tasks -> SchedEntity]
  /\ lock_list \in [Cpus -> Seq(Tasks)]
  /\ nr_tasks \in [Cpus -> Nat]
  /\ enable \in [Cpus -> BOOLEAN]
  /\ rq \in [Tasks -> Cpus \union {Nobody}]
  /\ refs \in [Tasks -> 0..1]
  /\ curr \in [Cpus -> Tasks \union {Nobody}]
  /\ protect \in BOOLEAN

QueueInit ==
  /\ lock = [t \in Tasks |-> "none"]
  /\ se \in [Tasks -> {[cpu |-> c, on_rq |-> "no", fair |-> TRUE, ux |-> FALSE,
                        init |-> FALSE, life |-> "live"] : c \in Cpus}]
  /\ lock_list = [c \in Cpus |-> <<>>]
  /\ nr_tasks = [c \in Cpus |-> 0]
  /\ enable = [c \in Cpus |-> TRUE]
  /\ rq = [t \in Tasks |-> Nobody]
  /\ refs = [t \in Tasks |-> 0]
  /\ curr = [c \in Cpus |-> Nobody]
  /\ protect = TRUE

----------------------------------------------------------------------------
(* The queue.  A task's lock_entry is on at most one list.                 *)

OnList(t) == \E c \in Cpus : Contains(lock_list[c], t)
Forgotten(ts) == [t \in Tasks |-> IF t \in ts THEN "none" ELSE lock[t]]

\* dec_task_count: an empty queue is open to every task again.
\* Mutant: reopened one task too late.
ReopenBelow(n, open) == open \/ n < 0
Reopen(n, open) == open \/ n <= 0

\* inc_task_count and dec_task_count take and return a task reference.
\* Mutant: it is not returned.
KeepRef(t) == UNCHANGED refs
DropRef(t) == refs' = [refs EXCEPT ![t] = @ - 1]
TakeRef(t) == refs' = [refs EXCEPT ![t] = @ + 1]

\* list_del_init.
Unlinked(l, t) == RemoveAt(l, CHOOSE i \in DOMAIN l : l[i] = t)

Delist(t, c) ==
  /\ lock_list' = [d \in Cpus |-> IF Contains(lock_list[d], t)
                                   THEN Unlinked(lock_list[d], t) ELSE lock_list[d]]
  /\ rq' = [rq EXCEPT ![t] = Nobody]
  /\ DropRef(t)
  /\ nr_tasks' = [nr_tasks EXCEPT ![c] = @ - 1]
  /\ enable' = [enable EXCEPT ![c] = Reopen(nr_tasks'[c], @)]

\* dequeue_locking_task and dequeue_locktask_on_fork; c is the run queue whose
\* list is locked and counted.
\* Mutant: nothing is taken off while protection is switched off.
DequeueProtected(t, c) ==
  IF OnList(t) /\ protect THEN Delist(t, c)
  ELSE UNCHANGED <<lock_list, nr_tasks, enable, rq, refs>>
Dequeue(t, c) ==
  IF OnList(t) THEN Delist(t, c)
  ELSE UNCHANGED <<lock_list, nr_tasks, enable, rq, refs>>

\* Main threads join whatever the number of tasks on the list.
\* Mutant: the number is not looked at.
NeverFull(t, c) == FALSE
Full(t, c) == t \notin Mains /\ nr_tasks[c] > MaxLockTasks

\* enqueue_locking_task, up to the question whether the task is protected.
Considered(t, c) ==
  /\ protect
  /\ t \in Mains \/ enable[c]
  /\ ~OnList(t)
  /\ se[t].fair /\ ~se[t].ux

Enqueue(t, c) ==
  IF ~Considered(t, c) \/ lock[t] # "fresh"
    THEN /\ lock' = IF Considered(t, c) THEN Forgotten({t}) ELSE lock
         /\ UNCHANGED <<lock_list, nr_tasks, enable, rq, refs>>
  ELSE IF Full(t, c)
    THEN /\ enable' = [enable EXCEPT ![c] = FALSE]
         /\ UNCHANGED <<lock, lock_list, nr_tasks, rq, refs>>
  ELSE /\ lock_list' = [lock_list EXCEPT ![c] = Append(@, t)]
       /\ nr_tasks' = [nr_tasks EXCEPT ![c] = @ + 1]
       /\ rq' = [rq EXCEPT ![t] = c]
       /\ TakeRef(t)
       /\ UNCHANGED <<lock, enable>>

----------------------------------------------------------------------------
(* The scheduler.                                                          *)

Queued(t, c) == se[t].on_rq = "queued" /\ se[t].cpu = c
Runnable(c)  == {t \in Tasks : Queued(t, c)}

\* trans_pick_next_lock_task looks at the list from its head, forgets the
\* locks of tasks that are late, and stops at the first task it can run.
Asked(c) == {i \in DOMAIN lock_list[c] :
               LET t == lock_list[c][i] IN protect /\ se[t].fair /\ ~se[t].ux}
Usable(c) == {i \in Asked(c) :
                LET t == lock_list[c][i]
                IN lock[t] = "fresh" /\ se[t].life = "live" /\ se[t].cpu = c}
First(is) == CHOOSE i \in is : \A j \in is : i <= j
Passed(c) == {lock_list[c][i] : i \in {j \in Asked(c) : Usable(c) # {} => j < First(Usable(c))}}

Pick(c) ==
  LET rts == {t \in Runnable(c) : ~se[t].fair}
      uxs == {t \in Runnable(c) : se[t].fair /\ se[t].ux}
  IN CASE rts # {} -> [who |-> rts, late |-> {}]
       [] rts = {} /\ uxs # {} -> [who |-> uxs, late |-> {}]
       [] rts = {} /\ uxs = {} /\ Runnable(c) = {} -> [who |-> {Nobody}, late |-> {}]
       [] OTHER ->
            [who  |-> IF Usable(c) # {} THEN {lock_list[c][First(Usable(c))]} ELSE Runnable(c),
             late |-> {t \in Passed(c) : lock[t] = "late"}]

Schedule(c) ==
  /\ \A t \in Tasks : se[t].cpu = c => se[t].on_rq # "moving"
  /\ \E t \in Pick(c).who : curr' = [curr EXCEPT ![c] = t]
  /\ lock' = Forgotten(Pick(c).late)
  /\ UNCHANGED <<se, lock_list, nr_tasks, enable, rq, refs, protect>>

Deactivate(t) ==
  /\ se[t].on_rq = "queued"
  /\ \E c \in Cpus : curr[c] = t /\ curr' = [curr EXCEPT ![c] = Nobody]
  /\ Dequeue(t, se[t].cpu)
  /\ se' = [se EXCEPT ![t].on_rq = "no",
                      ![t].life = IF @ = "exiting" THEN "dead" ELSE @]
  /\ UNCHANGED <<lock, protect>>

Activate(t, c) ==
  /\ se[t].on_rq = "no" /\ se[t].life # "dead"
  /\ Enqueue(t, c)
  /\ se' = [se EXCEPT ![t].cpu = c, ![t].on_rq = "queued"]
  /\ UNCHANGED <<curr, protect>>

\* Migration and a change of class, as in UxSched.
Detach(t, c, fair) ==
  /\ se[t].on_rq = "queued" /\ <<c, fair>> # <<se[t].cpu, se[t].fair>>
  /\ c # se[t].cpu => \A d \in Cpus : curr[d] # t
  /\ fair # se[t].fair => t \in Changing
  /\ Dequeue(t, se[t].cpu)
  /\ se' = [se EXCEPT ![t].cpu = c, ![t].fair = fair, ![t].on_rq = "moving"]
  /\ UNCHANGED <<lock, curr, protect>>

Attach(t) ==
  /\ se[t].on_rq = "moving"
  /\ Enqueue(t, se[t].cpu)
  /\ se' = [se EXCEPT ![t].on_rq = "queued"]
  /\ UNCHANGED <<curr, protect>>

Exit(t) ==
  /\ t \in Mortal /\ se[t].life = "live" /\ \E c \in Cpus : curr[c] = t
  /\ se' = [se EXCEPT ![t].life = "exiting"]
  /\ UNCHANGED <<lock, lock_list, nr_tasks, enable, rq, refs, curr, protect>>

\* android_vh_free_task_hook and android_vh_dup_task_struct_hook: the last
\* reference frees the task, a new one takes its place.
FreeAndFork(t) ==
  /\ se[t].life = "dead" /\ refs[t] = 0
  /\ lock' = Forgotten({t})
  /\ se' = [se EXCEPT ![t].life = "live", ![t].ux = FALSE, ![t].init = FALSE,
                      ![t].fair = TRUE]
  /\ UNCHANGED <<lock_list, nr_tasks, enable, rq, refs, curr, protect>>

----------------------------------------------------------------------------
(* Everything else that changes what the queue reads.                      *)

\* Locks are taken, released, waited for and timed out: the steps of
\* LockProtect.
LockStep(t, p) ==
  /\ se[t].life # "dead" /\ p # lock[t]
  /\ p = "late" => lock[t] = "fresh"
  /\ lock' = [lock EXCEPT ![t] = p]
  /\ UNCHANGED <<se, lock_list, nr_tasks, enable, rq, refs, curr, protect>>

\* A task becomes a UX task.  The first time (trans_task_struct_init) takes it
\* off the lock list, by the run queue it remembers, and forgets its locks.
Tag(t) ==
  /\ t \in Tagged /\ se[t].life # "dead" /\ se[t].on_rq # "moving" /\ ~se[t].ux
  /\ se' = [se EXCEPT ![t].ux = TRUE, ![t].init = TRUE]
  /\ IF se[t].init
       THEN UNCHANGED <<lock, lock_list, nr_tasks, enable, rq, refs>>
       ELSE /\ lock' = Forgotten({t})
            /\ IF rq[t] = Nobody
                 THEN UNCHANGED <<lock_list, nr_tasks, enable, rq, refs>>
                 ELSE Dequeue(t, rq[t])
  /\ UNCHANGED <<curr, protect>>

\* It ceases to be one: tags cancelled (the next request initialises the task
\* again) or run out (not).
Untag(t, init) ==
  /\ se[t].ux
  /\ se' = [se EXCEPT ![t].ux = FALSE, ![t].init = init]
  /\ UNCHANGED <<lock, lock_list, nr_tasks, enable, rq, refs, curr, protect>>

Switch ==
  /\ protect' = ~protect
  /\ UNCHANGED <<lock, se, lock_list, nr_tasks, enable, rq, refs, curr>>

QueueNext ==
  \/ \E c \in Cpus : Schedule(c)
  \/ \E t \in Tasks :
       \/ Deactivate(t) \/ Attach(t) \/ Exit(t) \/ FreeAndFork(t) \/ Tag(t)
       \/ \E init \in BOOLEAN : Untag(t, init)
       \/ \E p \in {"none", "fresh", "late"} : LockStep(t, p)
       \/ \E c \in Cpus : Activate(t, c) \/ \E fair \in BOOLEAN : Detach(t, c, fair)
  \/ Switch

QueueSpec == QueueInit /\ [][QueueNext]_queueVars

----------------------------------------------------------------------------
(* Correctness.                                                            *)

\* nr_tasks, which is read without the list lock, is the length of the list;
\* a listed task holds one reference and remembers its list; an unlisted task
\* holds none.
QueueBalanced ==
  /\ \A c \in Cpus : nr_tasks[c] = Len(lock_list[c])
  /\ \A t \in Tasks : refs[t] = IF OnList(t) THEN 1 ELSE 0
  /\ \A t \in Tasks, c \in Cpus : Contains(lock_list[c], t) <=> rq[t] = c

\* A listed task is queued on that CPU: pick never hands another CPU's task, or
\* a sleeping one, to the scheduler, whatever feature switches, class changes
\* and tag requests come in between.
ListedAtHome ==
  \A c \in Cpus, t \in Tasks : Contains(lock_list[c], t) => Queued(t, c)

\* A queue closed to all but main threads still has a task whose removal opens
\* it: it cannot stay closed for ever with nobody on it.
ClosedOnlyWhileBusy == \A c \in Cpus : ~enable[c] => nr_tasks[c] > 0

Others(l) == {i \in DOMAIN l : l[i] \notin Mains}

\* "Each CPU is capable of enqueuing up to five locked tasks", main threads
\* apart, says the comment above either comparison with MAX_LOCK_TASKS.
QueueBounded == \A c \in Cpus : Cardinality(Others(lock_list[c])) <= MaxLockTasks

\* What the comparisons do keep: one task more.  Main threads, which join and
\* leave without limit and are counted with the others, never make room for a
\* second one.
OverByOne == \A c \in Cpus : Cardinality(Others(lock_list[c])) <= MaxLockTasks + 1

=============================================================================

------------------------------ MODULE LockInfo ------------------------------
(***************************************************************************)
(* struct task_lock_info of one task: how trans_locking.c counts the locks *)
(* that a task holds or waits for, from the hooks that the kernel's lock   *)
(* slow paths and the scheduler call.  The hooks work on the current task; *)
(* only the wake-up hook, the timeout and the initialisation run elsewhere.*)
(*                                                                         *)
(* Time is abstract.  A start stamp in jiffies is "now" or "past"; the     *)
(* stamp of a wait in nanoseconds is "short" or, once OPT_SPIN_THRESHOLD_US*)
(* is over, "long".  The lock code and the sleeping and waking of the task *)
(* are external: which locks it really holds, and which it waits for.      *)
(***************************************************************************)
EXTENDS Naturals

CONSTANTS
  Used,        \* lock types the task uses
  MayAbandon,  \* those whose wait can end without the lock (a signal)
  MaxHeld,     \* bound: most locks of a type held at once
  MaxDepth     \* bound: highest depth of a type

LockTypes == {"mutex", "rtmutex", "rwsem"}
Locks     == LockTypes \union {"total"}
Stamps    == {"none", "now", "past"}
Waits     == {"none", "short", "long"}

ASSUME TypesAssumption == Used \subseteq LockTypes /\ MayAbandon \subseteq Used
ASSUME BoundsAssumption == MaxHeld \in Nat /\ MaxDepth \in Nat

VARIABLES
  info,    \* tts->lockinfo
  held,    \* locks of each type the task really holds
  wait,    \* type of lock in whose slow path it is, or "none"
  state,   \* "running", or the sleep it announced: "D" or "I"
  asleep,  \* off the CPU until woken
  abandoned \* a wait ended without its lock since the record was last cleared

infoVars == <<info, held, wait, state, asleep, abandoned>>

TaskLockInfo == [depth : [Locks -> Nat], start : [Locks -> Stamps],
                 dstart : [LockTypes -> Waits], ops : LockTypes \union {"none"}]
NoLocks == [depth |-> [l \in Locks |-> 0], start |-> [l \in Locks |-> "none"],
            dstart |-> [k \in LockTypes |-> "none"], ops |-> "none"]

TypeOK ==
  /\ info \in TaskLockInfo
  /\ held \in [LockTypes -> Nat]
  /\ wait \in LockTypes \union {"none"}
  /\ state \in {"running", "D", "I"}
  /\ asleep \in BOOLEAN
  /\ abandoned \in BOOLEAN

Init ==
  /\ info = NoLocks
  /\ held = [k \in LockTypes |-> 0]
  /\ wait = "none"
  /\ state = "running"
  /\ asleep = FALSE
  /\ abandoned = FALSE

----------------------------------------------------------------------------
(* The hooks.  A lock of type k counts in its own record and in the total. *)

Own(k) == {k, "total"}
Stamp(start, ls)  == [l \in Locks |-> IF l \in ls THEN "now" ELSE start[l]]
IncDepth(depth, k) == [l \in Locks |-> IF l \in Own(k) THEN depth[l] + 1 ELSE depth[l]]
\* Mutant: the total is forgotten.
DecDepthOfType(depth, k) ==
  [l \in Locks |-> IF l = k /\ depth[l] > 0 THEN depth[l] - 1 ELSE depth[l]]
DecDepth(depth, k) ==
  [l \in Locks |-> IF l \in Own(k) /\ depth[l] > 0 THEN depth[l] - 1 ELSE depth[l]]
NotCounted(i, k) == {l \in Own(k) : i.depth[l] = 0}

\* record_lock_starttime with a time: the lock was taken.  After a wait the
\* depth has been counted already, and the stamps start again.
\* Mutants: the mark of the wait stays; the depth is counted once more; every
\* lock starts the stamps again.
RecordAcquireKeepMark(i, k) ==
  IF i.ops # "none" THEN [i EXCEPT !.start = Stamp(@, Own(k))]
  ELSE [i EXCEPT !.start = Stamp(@, NotCounted(i, k)), !.depth = IncDepth(@, k)]
RecordAcquireTwice(i, k) ==
  [i EXCEPT !.start = Stamp(@, NotCounted(i, k)), !.depth = IncDepth(@, k), !.ops = "none"]
RecordAcquireRestart(i, k) ==
  [i EXCEPT !.start = Stamp(@, Own(k)), !.ops = "none",
            !.depth = IF i.ops # "none" THEN @ ELSE IncDepth(@, k)]
RecordAcquire(i, k) ==
  IF i.ops # "none" THEN [i EXCEPT !.start = Stamp(@, Own(k)), !.ops = "none"]
  ELSE [i EXCEPT !.start = Stamp(@, NotCounted(i, k)), !.depth = IncDepth(@, k)]

\* record_lock_starttime without a time: the lock is about to be released.
\* Mutant: the first release clears the stamps.
RecordReleaseStamps(i, k) ==
  [i EXCEPT !.depth = DecDepth(@, k),
            !.start = [l \in Locks |-> IF l \in Own(k) THEN "none" ELSE @[l]]]
RecordRelease(i, k) ==
  LET d == DecDepth(i.depth, k)
  IN [i EXCEPT !.depth = d,
               !.start = [l \in Locks |-> IF l \in Own(k) /\ d[l] = 0 THEN "none" ELSE @[l]]]

\* lock_wait_start: the lock counts as held from here on, unless the stamp of
\* an earlier wait is still there.
LockWaitStart(i, k) ==
  IF i.dstart[k] # "none" THEN [i EXCEPT !.ops = k]
  ELSE [i EXCEPT !.dstart[k] = "short", !.start = Stamp(@, NotCounted(i, k)),
                 !.depth = IncDepth(@, k), !.ops = k]

\* sched_waking_dstate_end: a short wait was a spin and refreshes nothing.
DstateEnd(i) ==
  IF i.ops = "none" THEN i
  ELSE [i EXCEPT !.dstart[i.ops] = "none",
                 !.start = IF i.dstart[i.ops] = "long" THEN Stamp(@, Own(i.ops)) ELSE @]

\* task_inlock_protect: a task that holds locks is protected until its jiffy
\* is over.
TimedOut(i) == i.depth["total"] # 0 /\ i.start["total"] = "past"

----------------------------------------------------------------------------
(* What happens to the task.                                               *)

OnCpu == ~asleep /\ state = "running"
Idle  == OnCpu /\ wait = "none"
Clear == info' = NoLocks /\ abandoned' = FALSE

AcquireLock(k) ==
  /\ Idle /\ held[k] < MaxHeld
  /\ info' = RecordAcquire(info, k)
  /\ held' = [held EXCEPT ![k] = @ + 1]
  /\ UNCHANGED <<wait, state, asleep, abandoned>>

ReleaseLock(k) ==
  /\ Idle /\ held[k] > 0
  /\ info' = RecordRelease(info, k)
  /\ held' = [held EXCEPT ![k] = @ - 1]
  /\ UNCHANGED <<wait, state, asleep, abandoned>>

BeginWait(k) ==
  /\ Idle /\ held[k] < MaxHeld /\ info.depth[k] < MaxDepth
  /\ info' = LockWaitStart(info, k)
  /\ wait' = k
  /\ UNCHANGED <<held, state, asleep, abandoned>>

\* The slow path takes the lock, after a sleep or by spinning ...
EndWait ==
  /\ wait # "none" /\ ~asleep
  /\ info' = RecordAcquire(info, wait)
  /\ held' = [held EXCEPT ![wait] = @ + 1]
  /\ wait' = "none" /\ state' = "running"
  /\ UNCHANGED <<asleep, abandoned>>

\* ... or gives up; no hook tells.
AbandonWait ==
  /\ wait \in MayAbandon /\ ~asleep
  /\ wait' = "none" /\ state' = "running" /\ abandoned' = TRUE
  /\ UNCHANGED <<info, held, asleep>>

SetState(s) ==
  /\ OnCpu
  /\ state' = s
  /\ UNCHANGED <<info, held, wait, asleep, abandoned>>

\* sched_switch_prev: only a preempted task and one in D state keep what is
\* recorded.  A task that announced a sleep may still be preempted first.
SwitchOut(sleep) ==
  /\ ~asleep /\ state # "running"
  /\ IF state = "D" THEN UNCHANGED <<info, abandoned>> ELSE Clear
  /\ asleep' = sleep
  /\ UNCHANGED <<held, wait, state>>

WakeUp ==
  /\ state # "running"
  /\ info' = DstateEnd(info)
  /\ state' = "running" /\ asleep' = FALSE
  /\ UNCHANGED <<held, wait, abandoned>>

\* Somebody looks at the task too late: task_inlock_protect clears it.
Timeout ==
  /\ TimedOut(info) /\ Clear
  /\ UNCHANGED <<held, wait, state, asleep>>

\* trans_task_struct_init, at the first tag request for the task.
InitTask ==
  /\ Clear
  /\ UNCHANGED <<held, wait, state, asleep>>

Jiffy ==
  /\ info' = [info EXCEPT !.start = [l \in Locks |-> IF @[l] = "now" THEN "past" ELSE @[l]]]
  /\ UNCHANGED <<held, wait, state, asleep, abandoned>>

WaitLasts(k) ==
  /\ info.dstart[k] = "short"
  /\ info' = [info EXCEPT !.dstart[k] = "long"]
  /\ UNCHANGED <<held, wait, state, asleep, abandoned>>

Next ==
  \/ \E k \in Used : AcquireLock(k) \/ ReleaseLock(k) \/ BeginWait(k) \/ WaitLasts(k)
  \/ EndWait \/ AbandonWait \/ WakeUp
  \/ \E s \in {"D", "I"} : SetState(s)
  \/ \E sleep \in BOOLEAN : SwitchOut(sleep)
  \/ Timeout \/ InitTask \/ Jiffy

Spec == Init /\ [][Next]_infoVars

----------------------------------------------------------------------------
(* Correctness.                                                            *)

\* A counted lock has a start, for every type and for the total.  Without one
\* the timeout test lock_start && time_after(..) never fires and the task would
\* be protected for as long as the count stays.
StartWhileCounted == \A l \in Locks : info.depth[l] # 0 => info.start[l] # "none"

\* The total never exceeds the sum of the types, although each saturates at
\* zero on its own when locks are released that a timeout or a sleep had
\* forgotten: no task is protected on account of a lock that no type counts.
TotalAtMostSum ==
  info.depth["total"] <= info.depth["mutex"] + info.depth["rtmutex"] + info.depth["rwsem"]

\* Every counted lock is held, or waited for by a wait that is still recorded:
\* spins, forgotten records and stale wait stamps may make the count too low,
\* never too high.  Only an abandoned wait does that, until the record is cleared.
CountedIsHeld ==
  ~abandoned => \A k \in LockTypes :
    info.depth[k] <= held[k] + IF wait = k /\ info.ops = k THEN 1 ELSE 0

\* The recorded reason to wait is the present one: the mark of an earlier wait
\* would make the next lock uncounted and refresh its stamps.
MarkIsWait == ~abandoned /\ info.ops # "none" => wait = info.ops

\* The promise of LockProtect: only a wait extends the protection.
Prot(i) == IF i.depth["total"] = 0 THEN "none"
           ELSE IF i.start["total"] = "past" THEN "late" ELSE "fresh"

Promise == INSTANCE LockProtect WITH prot <- Prot(info), waiting <- (info.ops # "none")

PromiseSpec == Promise!Spec

=============================================================================

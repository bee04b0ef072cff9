# Verification of the UAS scheduler module

This directory holds TLA+ models of the Transsion UAS kernel module, the TLC
configurations that check small instances of them, and TLAPS proofs for every
size. The sources are in `src/vendor-module/kernel/android/uas/performance/`;
unless another path is given, file names below are relative to its
`kernel_module/src/`. The code supports kernels from 4.14 to 6.12; the models
follow the 6.1 configuration (no `sched_delayed`, and the hooks that 6.1 calls).

## The system

UAS gives threads that the user notices ("UX tasks") preference over other
fair-class threads. Userland tags a thread through an ioctl; vendor hooks in the
kernel scheduler keep the tagged runnable threads of each CPU in a list sorted
by priority and let the fair class pick from that list first. A tag is a word of
bit fields: static and dynamic priority, run slice, share bits, flags. A task
that ran longer than its slice loses the preference until it sleeps. When a UX
task waits for a lock or a binder reply, its tags are lent to the task it waits
for.

| component | state it keeps | operations | who else touches it |
|---|---|---|---|
| UX scheduler core: `sched_common.c`, `sched_common.h`, `trans_fair.c` | `trans_task_struct` of each task (tags, share word, pending tags, magic, run total), `ux_list` of each CPU, scene, feature mask | enqueue, dequeue, tick, pick, set tags, shift priority | every other component reads the tags, most without a lock |
| Inheritance: `trans_mutex.c`, `trans_rwsem.c`, `trans_binder.c`, `trans_futex.c` | share word and share bits | set, hold, take back a share; order of waiter lists | run in the waiter's or the receiver's context, change a task that runs elsewhere |
| Driver interface: `sched_main.c`, `trans_proc.c` | features (static keys), scene | ioctls and proc files | calls the core |
| Target threads: `trans_target.c` | tables of thread names, one work slot | rename hook, work item, walk over a thread group | called by renames and by tag requests, calls the core |
| Control blocks: `trans_pcb.c` | allocation of `trans_task_struct` | fork and free hooks | calls the core, the lock queue and the account |
| UX kworkers: `trans_workqueue.c` | window `g_ux_kworker_enable`, kworker count | open and close the window, tag a kworker that starts work | called inside enqueue and dequeue |
| UX account: `trans_sched_info.c` | list of tagged threads, id references | record, delete, audit | called after a tag request, outside its lock |
| Lock protection: `trans_locking.c` | lock depth and start per task, a queue of lock holders per CPU | count locks, enqueue, dequeue, pick | called by scheduler and lock hooks |
| Balancing: `trans_balance.c` | per-CPU push and pull state | pull on tick and on idle, push by irq work | reads lists and tags of all CPUs |
| Load tracking, XMU, tracing: `trans_loading.c`, `trans_xmu.c`, `trans_trace.c` | utilisation windows, counters, statistics | updated by scheduler hooks | read by balancing |
| Userland: `../../sched`, `../../framework`, `../../trankeythread` | configuration with cloud update, BPF maps of wake-ups | ioctls; recognition of key threads | the driver |
| Elsewhere in the repository | kernel demos, wake-queue simulations (`src/vendor-module/model`), the QEMU workflow (`src/go.sh`, `src/lib`) | | independent of UAS |

What is hard about it: the core is called on many CPUs, under the run-queue lock
of one task at a time; the inheritance hooks decide on unlocked reads and act
under the lock later; list membership, references, marks and tags must stay
consistent over sleeps, migration, class changes, exits and switches of feature
and scene; preference must end; and equal tasks must take turns. `PROJECT.json`
lists each hazard at its line with the properties that cover it.

What makes each component correct: for the core, that the lists hold exactly
eligible tasks of their CPU, with one reference each, and that preference is
bounded; for inheritance, that chains are bounded, that a share is taken back as
a whole and that tags userland gave are not destroyed; for the driver, that
masks and tags stay available values; for the kworkers, that the window closes
and the count returns to zero; for the account, that it agrees with the tags;
for lock protection, that depth and start agree and the queue is bounded and
balanced; for balancing, that a push handshake ends in one of its outcomes and tasks move
only where they may; for load tracking, that time is charged once and decays; for
target threads, that a thread has the tags of its own name and not of another.

## Modules

`UxTags` has no state. It holds the tag word, the share word and the pure
operations on them: priority comparison and shifts, share counting, the decision
table of `update_ux_pending`, and sorted insertion into a list.

`UxSched` extends it with the core. One action is one hook or request, because
the code runs each between `task_rq_lock` and `task_rq_unlock` or in a hook with
the run-queue lock held:

| actions | code |
|---|---|
| `Activate`, `Attach` (with `EnqueueUx`) | `android_rvh_enqueue_task_hook` |
| `Deactivate`, `Detach` (with `DequeueUx`) | `android_rvh_dequeue_task_hook` |
| `Tick` | `android_vh_scheduler_tick_hook`, `update_ux_runtime` |
| `Schedule` | `android_rvh_replace_next_task_fair_hook`, `pick_next_ux_fair` |
| `SetUxTags`, `AbinderMark`, `ConvertUxPrio` | `set_ux_tags_to_task`, `abinder_set_ux_tags`, `convert_ux_prio` |
| `SetScene`, `SetFeatures` | the ioctls of the same purpose, `set_uas_feature_state` |
| `Fork`, `FreeTask` | `trans_pcb.c` |
| `WindowExpires` | three jiffies pass since the kworker window opened |
| `SetSleeping`, `WakeQueued`, `Exit` | the kernel: `set_current_state`, a wake-up of a task still queued, `do_exit` |

State: `ts` is the control block, `se` what the kernel knows of a task (CPU,
`on_rq`, whether it is in `TASK_RUNNING`, class, life), `ux_list` and `curr` the
run queues, `refs` the references the lists hold. Migration and class change are
a `Detach` and an `Attach`, with `on_rq` "moving" in between; `task_rq_lock`
waits for such a task (`Lockable`). Time is counted in units of `UX_RUN_SLICE`
and passes only in `Tick`.

`UxShare` extends `UxSched` with hook contexts. A context reads the states of
both tasks, then the lender's tags, then its share word, and then acts under the
lock of the receiver; every other action may come between those steps. Async work
that no thread waits for yet (`AsyncOffer`) reads the tags once, from the sender or
the leader of the process (`ReadLeader`), and walks over the process's binder
threads (`WalkThreads`), one locked update after another. The auxiliary variable `saw`
remembers of each hook whether the task it turned to had tags of its own then.

`LockProtect`, `LockInfo` and `LockQueue` model `trans_locking.c`. They are
separate from `UxSched`: the queue asks only whether a task is a UX task (a
Boolean there), and the UX lists know nothing of locks.

`LockProtect` is the abstract specification: a task is protected from the first
of nested locks for one jiffy, and only a wait starts the jiffy again.
`LockInfo` is the record of one task (`tts->lockinfo`: depth, start, dstart for
each type and in total, and the mark `ops`), and refines it with
`Prot(info)` and `info.ops # "none"`:

| actions of `LockInfo` | code |
|---|---|
| `AcquireLock`, `EndWait` (with `RecordAcquire`) | `record_lock_starttime` with a time |
| `ReleaseLock` (with `RecordRelease`) | `record_lock_starttime` with 0 |
| `BeginWait` (with `LockWaitStart`) | `lock_wait_start` |
| `WakeUp` (with `DstateEnd`) | `sched_waking_dstate_end` |
| `SwitchOut` | `sched_switch_prev` |
| `Timeout` | the branch of `task_inlock_protect` that clears the record |
| `InitTask` | `trans_task_struct_init` |
| `SetState`, `AbandonWait`, `Jiffy`, `WaitLasts` | the kernel and the clock |

`held`, `wait`, `state` and `asleep` are the truth the record is compared with;
`abandoned` remembers a wait that ended without its lock.
A start stamp is "now" or "past" (`time_after(jiffies, start)`), the stamp of a
wait "short" or "long" (`OPT_SPIN_THRESHOLD_US`). A hook that reads the record
of another task (`Timeout`, `WakeUp`, `InitTask`) is one step; so the plain races
on it between two CPUs are not modelled.

`LockQueue` has the queue of each CPU (`lock_list`, `nr_tasks`, `enable`), the run
queue each task remembers (`rq`) and the references the lists hold. `Enqueue`,
`Dequeue` and `Pick` are `enqueue_locking_task`, `dequeue_locking_task` (and
`dequeue_locktask_on_fork`) and `trans_pick_next_lock_task`, called from the same
hooks as in `UxSched`. Whether a task holds locks changes by `LockStep` at any
time, which allows every behaviour of `LockProtect`. `lock_tuner` has its default: its rules for high load
and running time, and the tick and wake-up preemption they steer, are left out.

`UxAccount` models `trans_sched_info.c` and the order in which a request reaches
it. A caller checks (`Ioctl`, `Check`), changes the tags under the run-queue lock
(`Apply`), updates the account after releasing it (`Account`), and may arm the
audit (`Finish`). The audit (`TimerFires`, `AuditBegin`, `AuditLook`, `Liquidate`,
`AuditEnd`) takes the list away, debits or cleans record by record, and splices
the rest back. Tags are one of four classes here. A task struct that is freed may
be used again with a new pid.

`WaitLists` models the order of waiters: `MutexWait` with `MutexPos`
(`mutex_list_insert_ux`), `RwsemWait` with `RwsemPos` (`rwsem_list_insert_ux`),
`FutexWait` with `PlistAdd` and `CircleAt` (`trans_plist_add`), the refusal to spin
past a UX waiter (`MaySpin`), and lending to those that stay ahead (`RwsemLent`).
The locks themselves (`MutexTake`, `MutexHandoff`, `RwsemGrant` and so on) are the
kernel's and are modelled as far as the hooks rely on them. Of tags only their
origin is kept, which decides whether they can be lent on.

`CpuOrder` has no state: the clusters, and the orders in which CPUs are walked
(`calc_order_idx`). `Balance` extends it with `trans_balance.c`:

| actions of `Balance` | code |
|---|---|
| `Wake`, `WakeLowest`, `Enqueue` | `balance_on_wakeup_ux`, `trans_select_task_rq_rt`, `trans_find_lowest_rq`, the kernel's enqueue |
| `Tick` | `__trans_tick_balance`: pull of a runnable or of a running task |
| `Switch`, `ScanRecord` | `wakeup_irqwb`: the look at little CPUs, then the record of the request and the irq_work |
| `IrqWork` | `irqwb_workfn` |
| `StopStarts`, `StopPull`, `StopPush`, `StopEnds` | the stopper thread with `trans_active_load_balance_cpu_stop` or `irqwb_cpu_stop_migrate` |
| `GoIdle`, `NewidleEnds` | `__trans_newidle_balance`, and the return to the scheduler after tasks may have come |
| `Exit` | a task enters `do_exit` (`PF_EXITING`) |
| `TimesOut`, changes of mask and flag, CPUs going away, `KernelKick` | the rest of the kernel and of UAS |

What a CPU sees of another without its lock is a step of its own. The mask that comes
with an RT wake-up is what the filter left or, if the wake-up is synchronous, any set of
CPUs (`RtMasks`): the code calls `cpumask_full`, which tests and does not fill. Load is not
part of it: where the code compares loads, any order is possible.

`Loading` models `trans_loading.c` for one task: the elapsed time by scene
(`get_task_time`), its scaling by capacity and share of a period, decay,
`accumulate_loading`, the estimate, and the hooks that call them. The inverse
table is in halves of its words, and arithmetic is that of the code except that
values stay below its word sizes. `Requeue` is a class, nice or affinity change of a task
that is queued or runs. `caught` remembers that the task was preempted or requeued on its
way to sleep, when its stamps do not fit (see Observations), until it wakes up with a load
on the scale.

`Targets` models `trans_target.c`: `Rename`, `Post` and `TagHelper` are the rename
hook with the points where another thread may come in between, `Work` is the work
item with its steps, and `Call`, `Collect`, `TagTarget`, `Return` are the ioctl that
walks a thread group. All of them but the work item tag through `SetUxTags`, which is
`set_ux_tags_to_task` with the request that waits (`AfterRequest`, `Overlap`, `Cancelled`);
threads of an app may also inherit tags (`Lend`, `LentEnds`). The array of a name's
targets is the set of their places in the group's list, taken from the first on.
`matched`, `alone` and `behind` are auxiliary: the tasks that ever had a name, the only
target posted, and the helpers that were named while a request of their leader waited or
an ioctl ran.

These five modules are separate from `UxSched`. They use of it only whether a
task is UX and that a tag change takes effect under the run-queue lock; each
makes that change at any time its callers may.

Abstractions. Preferred-core bits, statistics and tracing are left
out. Priorities keep their order but not their bit patterns; the dynamic
priority and the slices have fewer values in the instances than in the code
(`DprioMax`, `SliceLen`). Runtimes above `MaxRun` are not told apart; the named
assumption `RunAssumption` keeps `MaxRun` above every limit it is compared with.
The hooks hold references to the tasks they work on (`InUse`).

`MCUxSched` and `MCUxShare` give the constants their values for TLC.
`MCLocks` (the record of a task and the queues side by side), `MCUxAccount`,
`MCWaitLists`, `MCBalance`, `MCLoading` and `MCTargets` do the same for the other modules. The modules named `...Proofs` hold the proofs about `UxSched` and `UxShare`
(one module, since `UxShare` extends `UxSched`), `LockInfo` and `LockQueue` (`LockProofs`),
`Balance`, `UxAccount`, `WaitLists`, `Targets` and `Loading`; `ListFacts` has the lemmas
they share. `LockQueue` calls its initial predicate and specification `QueueInit` and
`QueueSpec`, because `LockProofs` speaks of both modules of the lock protection.

## Runs

| run | instance | what it shows |
|---|---|---|
| `sched` | 2 tasks, 2 CPUs, one request and its cancellation, animations, exit and fork of one task, fairness | lists and references are consistent (`NoDuplicates`, `ListedAtHome`, `RefBalance`); preference ends (`PreferenceEnds`), equal tasks take turns (`TakesTurns`) |
| `stack` | 1 task, three requests of different strength, one of them for a kworker, all shifts, scenes, async marks, three feature masks | two cancels clear a task (`TwoCancelsClear`), what waits is the weaker request (`PendingIsWeaker`), a runnable eligible task stays listed (`EligibleStaysListed`) |
| `share_locks` | 2 tasks that lend to each other over mutexes, two hooks at once | chains are bounded (`ShareBounded`), references balance, share word and bits agree (`ShareMatchesTags`), own tags are lost only to userland and to hooks that did not see them (`StaticKept`) |
| `share_calls` | futex, rwsem and binder hooks of every kind, async work offered to the threads of a process, a lender that is surfaceflinger, marked and of changing class | types and hold counts (`ShareTypeOK`), share word and bits agree, a task is marked exactly while tagged (`MagicMatchesTags`), `StaticKept` again |
| `locks` | the record of 1 task with 2 lock types, up to 2 locks of a type held, waits that end without the lock; beside it, the queues of 2 CPUs with 3 tasks, one a main thread, limit 0, one task that changes class, is tagged, exits and is forked again | a counted lock can time out (`StartWhileCounted`), counts are never too high (`TotalAtMostSum`, `CountedIsHeld`), the mark of a wait ends with it (`MarkIsWait`), `LockInfo` implements `LockProtect` (`PromiseSpec`); lists, counts, references and remembered run queues agree (`QueueBalanced`), listed tasks are queued there (`ListedAtHome`), a closed queue is not empty (`ClosedOnlyWhileBusy`), tasks that are not main threads exceed the limit by one at most (`OverByOne`) |
| `lock_limit` | the queues with limit 1 | refutes a comment, see Findings |
| `account` | 1 task struct that two tasks use in turn, one caller that tags and one that cancels, one id, the audit | no record is lost (`RecordsSurviveAudit`), the audit acts on the task it has a record of (`AuditHitsItsDebtor`), debtors are worked off and lose their tags (`DebtorsCleared`) |
| `waits` | 3 fair tasks and a real-time one, a mutex, an rwsem and a futex bucket | the plist is well formed (`PlistConsistent`), nobody plain that could be lent tags is left ahead when a UX task queues up for the rwsem (`NobodyPlainAhead`), a promised mutex is handed over (`HandoffIsKept`) |
| `balance` | a little and a big CPU, 2 UX tasks (one pinned by the vendor, the other may exit), 1 surfaceflinger task | see below |
| `push_stuck` | 1 little CPU, 2 big ones, nothing else changes | refutes a comment, see Findings |
| `loading` | 1 task, 2 capacities, 3 steps of the clock, each within a period, most of one, or hundreds | sum, average and estimate stay on their scale (`LoadOnScale`), sleep is not load (`SleepDecays`) |
| `targets` | an app with 2 helpers, 3 system threads of which 2 share a pid, an exact and a plain request, 4 events: names given (2 at most), an exit, ioctls, tags inherited | threads have tags of their own names (`TagsWhereNamed`), helpers follow their leader (`HelpersFollow`), a lone target is tagged (`TargetIsTagged`) |

`balance` shows that the one stop work of a run queue is never queued again before the
stopper is through with it, neither by another CPU for the same balance nor for another
one (`StopWorkOnce` counts), that tasks go only where their affinity allows it at that moment
(`MovesWhereAllowed`) and to CPUs of at least the same capacity (`MovesUphill`), and that a
CPU does not go idle on a task that came while the newidle balance had dropped the lock
(`IdleMeansEmpty`).

Bounds. Two tasks and two CPUs are enough for every interaction a list or a
share has: one holder and one waiter, a task at home and elsewhere, two list
neighbours, a chain that runs back and forth between two tasks until the limit.
Two contexts make every pair of unlocked steps overlap; with one lock type, since
the mutex and rwsem hooks are the same code. `MaxRun` is above every
limit: in the runs that charge tasks, running out of a slice, of a doubled slice and of a launch bonus all
occur. Share limits are 2 (the code has 2 and 3), so the limit is reached.
`HoldLimit` is 1 in the share runs (3 in the code), and there is one slice and one
dynamic priority, since running down is the question of the other two runs. A lock that lends out a binder
share (`IgnoreShare` in `ReadTags`) is modelled but in no run: it takes three tasks
to come up beside a target. So is the slice a main thread lends during a launch
(`Boosted`). A process has one binder thread; the walk's limits of 15 tagged and 150
visited threads are left out.
For locks, `MaxHeld` 2 gives nesting of each type and `MaxDepth` 3 one wait more
than that; two types are enough for the total to differ from each type. A limit
of 0 instead of 5 fills the queue with two tasks. The record and the queues share no state
(`HooksAreLockSteps` is what joins them); in `locks` one of them moves while the other is
in an initial state.

`account`: `HpMax` is 1 (3 in the code), so a debtor is forgiven once; two pids give
one reuse of the struct; the reference limit 2 is reached by duplicates of one
task's record. `waits`: `OneLock` lets one of the three locks be in use at a time;
they share only tags, which `TagsChange` changes as another lock would. The
futex limit of 50 waiters (`WAITERS_UX_LIMIT`) is not reached. `balance`: `OneChange`
allows one deviation (a late task, a task for little CPUs, a changed mask, a CPU
out of service; an exiting task comes on top) and `TwoBalance` two CPUs in the middle of a balance at a time. Two
CPUs leave out that a walk passes over a CPU; a run with a third CPU and two
tasks (847,000 states) found no violation either, but takes too long to keep.
`loading`: three clock steps give every pair of consecutive scenes after the first;
four steps with a shorter far span ran through 20 million states without a
violation. `targets`: the bounds are in the guards (`MaxEvents`, `MaxNames`, `MaxExits`, and in
`RenameHelper` at most `APPS_TARGETS_SLOTS` helpers of a name in an app; what happens to a
third is under Observations). Four events are a request, a second one on top of it, a
name, and the cancel that brings back the request that waits.

Symmetry is used where no action and no constant names one of the values: CPUs in
`locks`, contexts and tasks in `share_locks`, fair tasks in `waits`, UX tasks in
`push_stuck`. No run with symmetry checks liveness.

`CHECK_DEADLOCK` is off where a bound ends the behaviour: `account` (pids),
`loading` (steps of the clock) and `targets` (names and calls).

Exceptions the properties name. `EligibleStaysListed` allows a task to be missed
after a switch of scene or feature, after the kworker window opens again, and
when a task that was tagged while it announced its sleep is woken before it left
the run queue: the code does not list those until their next enqueue.
`StaticKept` allows a hook that saw no tags of the task's own when it turned to it (`saw`) to
overwrite or clear those that userland set in between: `set_ux_share` and `unset_ux_share`
do not look again under the lock. It also allows a futex hook to take over the tags of a
task that is not fair (`trans_futex.c:41`); no run has a tagged task outside the fair class
under a futex hook, the theorem covers it. `ShareMatchesTags` asks for one share bit with a count, not
for exactly one bit: an async receiver can carry the bit of its leader's share as
well. `NobodyPlainAhead` allows whom the UX task could not lend to: its tags
may themselves be lent once too often. `LoadOnScale` leaves out a task that was
preempted or requeued on its way to sleep, until it wakes up with a load on the scale;
`HelpersFollow` a helper that was named while a request of its leader waited or an ioctl
ran, and inherited tags; `TargetIsTagged` a target posted while another is: see
Observations.

Fairness. In `sched` the tick of a busy CPU is weakly fair. `Schedule` is strongly
fair: the kernel's own tick asks for a reschedule again and again, and the
run-queue lock is a queued spin lock, so one of these gets its turn however often
other CPUs move tasks under it. A task taken off a run queue is put on the next
(`Attach` is weakly fair, it is the second half of one migration). Nothing else is
fair: tasks may sleep for ever, userland may stop. Both properties assume that
userland stops changing tags, scenes and features
(`Quiet`), because each such request may give fresh preference. The instance has
no real-time task: one that never sleeps starves every UX task, which is what
real-time means. In `account` a request or an audit that has started goes on and
an armed timer expires; that audits start again and again is an assumption
inside `DebtorsCleared`. In `targets` a work item and a rename hook that have
started go on; nothing in them waits.

Each property is also checked against a mutant of the code, named in
`PROJECT.json` and defined next to the original, that TLC must refute.

## Findings

`push_stuck`: the stopper of an irq_work push (`irqwb_cpu_stop_migrate`) leaves
`active_balance` at 1 when it finds no target (`trans_balance.c:3241`, `goto out`),
although its comment says the state "is cleared unconditionally to avoid reusing
stale requests" (`trans_balance.c:3212`). Two big CPUs that leave a critical task
at the same time reach that path. Both find no pending request on the little CPU
(`:3604`). The first records its request (`:3653`), the irq_work sets `active_balance`
and queues the stopper. The second records its own; its irq_work finds
`active_balance` set, gives up and erases the record (`:3466`). The stopper then reads
no target. From then on nothing clears `active_balance`: the tick pull
(`:1564`), the push (`:3376`) and the kernel's active balance take the CPU for busy.

`lock_limit`: "Each CPU is capable of enqueuing up to five locked tasks"
(`trans_locking.c:444`, `:464`), but the comparison below either comment is
`nr_tasks > MAX_LOCK_TASKS` (`:446`, `:466`), so a CPU that lists five takes a sixth.
`OverByOne` says that it stays at that.

## Observations

Behaviour the models show that contradicts no promise strictly, or that a
property excludes by name.

- `trans_locking.c`: `dstart` is cleared only by a wake-up, so a wait that ended by
  spinning leaves it set and the next wait of that type is marked but not counted
  (`:808` "needs to be pre-marked"). A record cleared while a lock is held lets the
  total reach 0 before a type does (`:78` says otherwise). Neither breaks
  `LockProtect`: protection may start later or end earlier than the comments suggest,
  never last longer. "it needs to be removed from the list" (`:553`) stands above
  a `continue` that leaves the task on the list; it is taken off when it sleeps or moves.
- Account: two callers that cancel one task at once can delete a record made after
  the first cancel. Tasks that were lent tags before userland tagged them are never
  recorded. A cancel during the audit finds no record and leaves it to the audit.
  The id limit is compared (`sched_main.c:484`) before the record is made, and
  against a list that is empty while the audit holds it, so it can be exceeded.
- Inheritance: a hook that found no tags, or a share, overwrites or clears what userland
  set before the hook gets the lock (`trans_mutex.c:38`, `:94`). A futex hook overwrites
  tags a task has of its own while it is not in the fair class (`trans_futex.c:41`).
- Balance: "RT should not preempt UX task" (`trans_balance.c:1214`) holds neither for
  a CPU whose task is exiting, which stays in the mask although UX tasks are queued there
  (`:1090`), nor for a synchronous wake-up, whose mask `cpumask_full` (`:958`) only tests;
  the choice is then among whatever the mask holds. A request of which `irq_work_queue_on` reports that the (single, global)
  work is still queued stays recorded without a work (`:3665`), and the CPU is
  skipped as pending until some work runs there. The fallback choice of the
  stopper (`__detach_running_ux`, `__detach_running_rt`) checks neither `UX_FLAG_CPU_L` nor the vendor's
  pinning. `__pull_runnable_task` gives up at the first CPU without a candidate.
  Two wake-ups may choose the same CPU, since neither holds the other's lock.
- Loading: a task preempted between `set_current_state` and its sleep has no
  enqueue stamp that fits; after a migration all time since its arrival is
  charged at once. A class, nice or affinity change in that window is a dequeue that
  clears the enqueue stamp (`trans_loading.c:1260`) of a task that runs on; the next
  scene charges the whole clock (`:474`). In both orders the average can exceed the
  1024 its comment names (`:716`), up to 1046 (`LoadStaysNearScale`).
  `within_margin` compares two consecutive averages, so a low but steady load keeps the
  estimate where it is (`:1037` "only decay"). A contribution of one nanosecond
  scales to 0 on a slow CPU, past the guard that keeps it at least 1 (`:1219`).
- Targets: the work item has one slot. A target posted before the last one was
  taken replaces it, and one posted between the read and `target = NULL` is erased
  (`:211`, `:239`). A rename that read its leader's tags before an ioctl cleared them
  leaves the helper tagged (`:385`); so does one that read inherited tags, when the
  leader's end. A helper that is named while a request of its leader waits gets the tags
  but not the waiting request: one cancel leaves the leader tagged with that request
  (`sched_common.c:133`) and clears the helper. In the walk over a group, `UX_FLAG_CPU_L` of one entry
  sticks to the later ones (`:479`). A third helper of one name is not found (`:443`).

## Proofs

The theorems hold for every value of the constants that satisfies the named
assumptions of the modules: any number of tasks, CPUs, hooks, requests and
locks, any limits. What the assumptions ask beyond types is what the code or the
device guarantees: a request is one of the driver's templates, with a static
priority and no share bits (`RequestsAssumption`); hooks work on tasks
(`PartiesAssumption`) and a process has binder threads (`LoopersAssumption`); capacities
are known and positive and form one to three clusters, otherwise
`build_trans_cpu_array` panics (`CapacityAssumption`, `ClustersAssumption`; a CPU of
unknown capacity is in no cluster and left out), and CPUs are numbered from small to big
(`LittleFirstAssumption`: the code takes the first cluster for little and never looks); UX and real-time tasks of
`Balance` are distinct and so are its sentinels (`KindsAssumption`); a thread is in one group's list
once, leaders, helpers and system threads are different threads, and no name is in both
tables (`GroupAssumption`, `TasksAssumption`, `TablesAssumption`), and no request there is an
inherited tag (`RequestsAssumption` of `Targets`); the run queue's clock
is past 0 when a task is created and never goes back (`UptimeAssumption`, `SpansAssumption`).

Each proof follows one plan. An invariant `Inv` is found that implies the property
and that every step keeps; one lemma per action shows the latter, with one step
for each conjunct the action can disturb; the theorem puts them together. An
action property is then shown of each step from a state of the invariant. The
invariants were checked by TLC on the instances above before they were
proved. `ListFacts` has what several proofs need of sequences: a set of numbers
has a least element (`LeastElement`, which gives the positions that `CHOOSE` picks),
and what `InsertAt` and `RemoveAt` do to the members of a list and their order.

### `UxSchedProofs`: the scheduler

    IInv     == TypeOK /\ NoDuplicates /\ RefBalance /\ ListedAtHome /\ CurrAtHome
    StackInv == IInv /\ \A t \in Tasks : Settled(ts[t]) /\ Weaker(ts[t])

- `TypeCorrect`, `ReferencesBalanced`, `NoTaskListedTwice`, `ListedTasksAtHome` rest on
  `IInv`. Its parts need each other: `RefBalance` fails if a task could be on two
  lists, which `ListedAtHome` excludes because a task is queued on one CPU only;
  `Unlink` takes one reference, which balances only without duplicates; and
  `Tick` deletes `curr[c]` from the list of `c`, the list it is on only because the
  current task of a CPU belongs to that CPU (`CurrAtHome`).
- `WaitingIsWeaker` and `CancelsClear` rest on `StackInv`: the mark goes with the
  tags, a pending request is a request (`Settled`), and without inheritance the
  pending one is never the stronger (`Weaker`). `CancelsClear` follows because the
  first cancel can put only the weaker request in force and leaves none behind it.
- `EligibleTasksStayListed` is an action property: one lemma per action says for
  which tasks the action can end with a runnable eligible task off the list, and
  these are the exceptions `EligibleStaysListed` names.
- `InsertUxFacts` and `DeleteUxFacts`: `insert_ux_into_list` and `list_del_init` add or
  remove exactly the task and keep the others, in order and distinct.

### `UxSchedProofs`: inheritance

`ShareInv` adds to `IInv` and `Settled` a predicate on each task (`ShareOK`) and one on the
local variables of each hook (`OpOK`). The hooks read without a lock, so `OpOK`
may say only what no step of anybody else can make false: the tags and counts a
hook is about to apply were read short of the limit (`LentShort`), carry the bit
of the chain they belong to (`LentMarked`), and go to a task (`LentTo`). Because
`set_ux_share` overwrites the share word with the one the hook carries, rather than adding to what
is there, a stale check is enough. Hence `ShareTypeCorrect`, `ChainsBounded`,
`ShareWordMatchesBits`, `MarkMatchesTags`; `SharedReferencesBalanced` because every step of
a hook is a step of the scheduler. `StaticTagsKept`, an action property, needs `SawOK`: a hook
that saw own tags on the task it turned to is on its way nowhere, or is a futex hook
about to apply. Each hook turns to a task in the step that looks at it (`SawStep`).

### `LockProofs`: the record of a task

- `TypeCorrect`, `CountsHaveStart`, `TotalBounded`: `TypeOK`, `StartWhileCounted` and
  `TotalAtMostSum` are inductive together, as `Sound(info)`, a predicate on the
  record, so that each hook is one lemma about the record it returns. A start may
  not be cleared while its depth is not zero, and the release of a lock that is
  no longer counted may not take more from a type than from the total (`DecBounded`).
- `PromiseKept`: `Spec => PromiseSpec`, the refinement of `LockProtect`. The same
  lemmas say how each hook changes `Prot`, the abstract protection.
- `CountsAreHeld` and `MarkIsCurrent`: the invariant `TrueToTask` needs the mark of a
  wait beside the counts, since a stale mark makes a lock uncounted. A wait abandoned
  breaks it, clearing the record restores it; `TrueUnlessAbandoned` says so.

### `LockProofs`: the queues

- `QueueNeverStuck`: for the flag only the count matters (`CountInv`); the lemmas
  `DequeueKeeps` and `EnqueueKeeps` ignore the lists.
- `CountsMatchLists`, `ListedTasksAtHome`, `OthersBounded`, `QueueTypeCorrect`: `QueueInv` needs all of
  them at once. `list_del_init` takes a task off whatever list it is on while
  `dec_task_count` counts down the CPU it is dequeued from; the two agree only
  because a listed task is queued where it is listed (`ListedAtHome`).
- `HooksAreLockSteps` joins the two modules. `LockQueue` lets the protection of a task
  change at any time, but only become late when it was fresh (`LockStep`); by the
  refinement of `LockProtect` no hook of `LockInfo` does anything else.

### `BalanceProofs`

`Inv` is `PlaceInv` (types of tasks and CPUs) and `PushInv`: for the request and the
stop work of a CPU (`PushOK`), stop work that is queued or runs was queued once and only
while `active_balance` is set, and every target recorded in either belongs to a larger
cluster. What a target was chosen for may be stale when it is used; its cluster never is.
`StepOK` is then shown of each action from `Inv`. This gives `WorkQueuedOnce`; `TasksMoveUp`,
with `LargerCluster`, which gets from cluster numbers to capacities by
`LittleFirstAssumption`; and `TasksStayInMask`, for which the looks at the mask under the last
lock taken are what counts. `IdleCpuIsEmpty` is about the last look of the newidle balance.

### `UxAccountProofs`

    AccountInv == TypeOK /\ CallersOK /\ AuditOK /\ FreedOwesNothing /\ RecordsSurviveAudit

`RecordsAreKept` says that the record of a live task that owes is on the list or in
the audit's copy. It needs the others: callers add and delete by pid and struct,
and the record settled next must still be its task's.
`DebtorIsTheRecordedTask` follows from `AuditOK`: between the search and
the settlement the audit and the callers hold a reference, so the task is not
freed and its struct not used again; a freed task owes nothing, so a new owner of
the struct starts without debt.

### `WaitListsProofs`

`WaitInv` says that the lists and the places of the tasks agree (`LocksOK`) and that
each futex waiter is in the bucket once, with the plist in shape (`PlistOK`).

- `PlistStaysConsistent`: consistency is written as `Fits`, a relation between the list of all
  nodes, the circle of one node per priority and the priorities. The lemmas on
  `PlistAdd` and `PlistDel` show that it survives; the hard case of the deletion is a
  leader whose place in the circle passes to the next node of its priority.
- `PromiseIsKept`: no hook inserts in front of a waiter that was promised the mutex.
- `UxWaitsBehindHelpers`: everyone left ahead of a UX rwsem waiter was passed by the walk,
  which lent its tags or could not.

### `TargetsProofs`

    TargetInv == TypeOK /\ PostOK /\ NamedOK /\ HelperOK /\ PendingOK /\ FollowOK

`TagsMatchNames` rests on `PostOK`: the two fields of a table entry are written one after
the other and read later, so they may belong to different tasks; but the task field is
always one that had the name, and the work item compares it with the task it
found before it tags. `HelpersAreLikeLeaders` rests on `FollowOK`. Between ioctls
(`Quiet`) a helper is in step with its leader, in the request in force and in the one that
waits (`InStep`), and a rename under way holds tags of a leader without a waiting request.
During an ioctl (`Walking`) a helper the walk has in hand or whose name is still ahead is
as its leader was, so that the same request or cancel makes of it what it made of the
leader (`WillBe`). For that a task without tags of its own must have no request that waits
(`PendingOK`), since inherited tags are overwritten without a look at it. That the walk
finds everyone of a name needs that an app has no more of them than slots (`HelperOK`),
which is the bound on `RenameHelper`.

### `LoadingProofs`

    LoadInv == LoadTypeOK /\ Started /\ (caught \/ LoadFits)

- `LoadTypeCorrect`: whatever the hooks do, also to a task whose stamps no longer fit, no
  stamp is ahead of the clock and the sum is cut at the greatest one.
- `LoadStaysOnScale`: a charge must not be longer than the time since the last update.
  In every scene but a wake-up the time of a task is the time since it was put on the
  run queue (`TimeSinceEnqueue`), if the waits it counted fit before it was queued or
  arrived (`FitsUntil`), and the last update is no later than the time already charged.
  `LoadFits` says this of each place the task can be. The second update of a task going
  to sleep finds the enqueue time gone and falls back on the arrival; it adds nothing
  because the first update charged for longer (`LeavingUpdates`). A task caught in state S
  is back in `LoadFits` with the first wake-up that finds its load on the scale, because a
  wake-up makes all stamps anew.
- What is added must also fit on top of what decayed: `DecayAdds`, the rounding of
  `mul_u64_u32_shr` never makes more of two parts than of the whole, and `DecayWhole`,
  every row of the table but the first takes a whole period off the greatest sum. The
  tables are opened only in `TableRows` and `RowsLose`. With the sum in range the quotient
  of `trans_scale_load` is at most 1024, and the estimate is a mean of such values.
- `LoadStaysNearScale` holds of every task, caught or not: the sum is cut at `LOAD_AVG_MAX`
  and the divisor is at most a period less.
- `SleepOnlyDecays` needs no fitting stamps: the enqueue time is recorded before the
  time is asked for, which then is 0 (`WakingUpdate`).

### Only model-checked

Liveness (`PreferenceEnds`, `TakesTurns`, `DebtorsCleared`, `TargetIsTagged`) is out of the
prover's reach. The refutations of `push_stuck` and `lock_limit` are TLC's. Everything else the runs
check is a theorem.

## What is left

To prove: every safety property the runs check is a theorem. What remains needs a
prover for liveness, or a model of the parts below.

To model: the guess that the last receiver of a binder node receives again
(`g_ux_abinder`), and the tagging of uas-service threads; the kworker count and the execute-start hook; wake-up preemption between UX tasks and of lock
holders; the rules of `lock_tuner` and the hysteresis of `update_cpu_load`.

Not modelled, and why, is listed per component in `PROJECT.json`: output and
statistics (tracing, XMU counters, proc files that only print), userland
configuration (XML parsing, file and network I/O around a thin client of the
ioctls), key-thread recognition (heuristics without a contract), and demos and
simulations that are independent of UAS.

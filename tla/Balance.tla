------------------------------- MODULE Balance -------------------------------
(***************************************************************************)
(* Where UX and RT tasks run (trans_balance.c): the choice of a CPU for a  *)
(* waking task, the pull of critical tasks by the tick and by a CPU that   *)
(* goes idle, and the push a big CPU asks of a little one (irq_work        *)
(* balance).  A migration is a hand-shake of several CPUs: a request is    *)
(* recorded in the run queue of the source, its stopper thread takes the   *)
(* task off, and the task is put on the destination afterwards.            *)
(*                                                                         *)
(* Other CPUs are looked at without their locks, so everything a CPU has   *)
(* seen may have changed when it acts.  Steps end where another CPU can    *)
(* run in between.                                                         *)
(***************************************************************************)
EXTENDS CpuOrder

CONSTANTS
  Tasks, UxTasks, RtTasks,
  SfTasks,        \* real-time tasks that serve surfaceflinger
  Pipeline,       \* tasks the vendor's scheduler has pinned
  Mortal,         \* tasks that may exit; another thread comes in their place
  Rebound,        \* tasks whose affinity and CPU_L flag change
  Pausable,       \* CPUs that are halted or taken out of service
  Kicked,         \* CPUs the kernel's own active balance takes a task off
  None,
  NotRead         \* the target of stop work that has not looked for it yet

ASSUME KindsAssumption ==
  /\ UxTasks \subseteq Tasks /\ RtTasks \subseteq Tasks /\ UxTasks \intersect RtTasks = {}
  /\ SfTasks \subseteq RtTasks /\ Pipeline \subseteq Tasks
  /\ Rebound \union Mortal \subseteq Tasks /\ Pausable \subseteq Cpus /\ Kicked \subseteq Cpus
  /\ None \notin Tasks \union Cpus /\ NotRead \notin Cpus \union {None}

VARIABLES
  cpu,        \* task -> task_cpu
  st,         \* task -> "run", "ready", "sleep", "waking" or "moving"
  late,       \* UX tasks that have used up their run limit
  exiting,    \* tasks in do_exit (PF_EXITING)
  cpuL,       \* tasks with UX_FLAG_CPU_L
  mask,       \* task -> CPUs it may run on
  avail,      \* CPU -> "up", "halted" or "inactive"
  lb,         \* CPU -> rq->active_balance and push_cpu, and its trans_rq.lb
  stop,       \* CPU -> stop work: function, the target it has read, and how often it
              \* was queued since the stopper was last through with it
  irqwork,    \* CPU irqwb_work is pending on, or None
  scan,       \* CPU -> push request its wakeup_irqwb is about to record
  newidle     \* CPU -> kind of task it ran before it went idle, or "no"

vars == <<cpu, st, late, exiting, cpuL, mask, avail, lb, stop, irqwork, scan, newidle>>
taskVars == <<cpu, st, late, exiting, cpuL, mask>>
pushVars == <<lb, stop, irqwork, scan>>

NoRequest == [active |-> FALSE, push |-> None, pid |-> None, type |-> "none",
              irqPid |-> None, irqPush |-> None]
NoWork == [fn |-> "none", target |-> None, times |-> 0]
QueueWork(work, fn) == [fn |-> fn, target |-> NotRead, times |-> work.times + 1]

Init ==
  /\ cpu \in [Tasks -> Cpus]
  /\ st = [t \in Tasks |-> "sleep"]
  /\ late = {} /\ exiting = {} /\ cpuL = {}
  /\ mask = [t \in Tasks |-> Cpus]
  /\ avail = [c \in Cpus |-> "up"]
  /\ lb = [c \in Cpus |-> NoRequest]
  /\ stop = [c \in Cpus |-> NoWork]
  /\ irqwork = None
  /\ scan = [c \in Cpus |-> None]
  /\ newidle = [c \in Cpus |-> "no"]

----------------------------------------------------------------------------
(* What a CPU sees of another.                                             *)

Queued(c)    == {t \in Tasks : cpu[t] = c /\ st[t] \in {"run", "ready"}}
Running(c)   == {t \in Tasks : cpu[t] = c /\ st[t] = "run"}
Stopping(c)  == stop[c].fn # "none" /\ stop[c].target # NotRead
\* has_ux_tasks and has_runnable_ux_tasks: the list holds the running UX task,
\* and no task that has used up its limit.
HasUx(c)         == (Queued(c) \intersect UxTasks) \ late # {}
HasRunnableRt(c) == Queued(c) \intersect RtTasks # {}
HasRt(c)         == HasRunnableRt(c) \/ Stopping(c)
PipelineCpu(c)   == Running(c) \intersect Pipeline # {}
Up(c)            == avail[c] = "up"
Active(c)        == avail[c] # "inactive"
CanMigrate(t, c) == c \in mask[t]
Critical(t)      == t \in RtTasks \/ t \in UxTasks \ late

----------------------------------------------------------------------------
(* The CPU of a waking task.                                               *)

\* is_orig_cpu_available.  strong: a key scene, or a load that little CPUs do
\* not fit.
OrigAvailable(t, c, strong) ==
  /\ ~HasUx(c) /\ ~HasRt(c)
  /\ t \in UxTasks \union SfTasks => (strong # IsLittle(c))

\* find_available_cpu: the CPU it finds, or None when it leaves the choice as it
\* was.  An empty among stands for no mask.
Find(t, orig, among, strong) ==
  LET walk == IF t \in UxTasks \union SfTasks THEN CriticalWalk(t \in cpuL)
              ELSE RtWalk(Cluster(orig))
      found == {c \in mask[t] : /\ OnWalk(walk, c) /\ (among # {} => c \in among)
                                /\ Up(c) /\ ~HasRt(c) /\ ~HasUx(c) /\ ~PipelineCpu(c)}
  IN  IF ClusterNr <= 1 \/ OrigAvailable(t, orig, strong) \/ found = {} THEN None
      ELSE FirstOn(walk, found)
Choose(t, orig, among, strong) ==
  IF Find(t, orig, among, strong) = None THEN orig ELSE Find(t, orig, among, strong)

\* balance_on_wakeup_ux.
SelectUx(t, orig, strong) ==
  IF t \in Pipeline \/ t \in late THEN orig ELSE Choose(t, orig, {}, strong)

\* trans_select_task_rq_rt.
SelectRt(t, orig, among, strong) ==
  IF ~HasUx(orig) /\ ~HasRt(orig) /\ (t \in Pipeline \/ t \notin SfTasks) THEN orig
  ELSE Choose(t, orig, among, strong)

\* filterout_on_wakeup_rt.
FilteredOut(t, c, strong) ==
  HasUx(c) \/ HasRt(c) \/ PipelineCpu(c) \/ (t \in SfTasks /\ strong /\ IsLittle(c))

\* adjust_rt_lowest_mask, trans_find_lowest_rq and the hook around them.  A CPU whose
\* task is exiting stays in the mask, whoever else is queued there.  The
\* round robin of trans_find_lowest_rq is any of the CPUs it may give.
SpareUx(among) ==
  {c \in among : Running(c) \intersect exiting # {} \/ (~HasUx(c) /\ ~PipelineCpu(c))}
LowestRq(t, best, among, strong) ==
  LET idx == IF t \in SfTasks /\ strong /\ ClusterNr > 1 THEN 1 ELSE 0
      search == {c \in SpareUx(among) : Cluster(c) = idx}
  IN  IF OrigAvailable(t, best, strong) \/ SpareUx(among) = {} THEN {best}
      ELSE IF search # {} THEN search
      ELSE IF cpu[t] \in SpareUx(among) THEN {cpu[t]}
      ELSE {CHOOSE c \in SpareUx(among) : \A d \in SpareUx(among) : c <= d}

\* The mask that comes with an RT wake-up: what the filter left, or, if the wake-up
\* is synchronous, whatever the memory held. cpumask_full, which is to widen it,
\* only tests it.
RtMasks(t, strong) == {{c \in mask[t] : ~FilteredOut(t, c, strong)}} \union SUBSET Cpus

PlaceOn(t, c) ==
  /\ cpu' = [cpu EXCEPT ![t] = c]
  /\ st' = [st EXCEPT ![t] = "waking"]
  /\ UNCHANGED <<late, exiting, cpuL, mask, avail, newidle>> /\ UNCHANGED pushVars

Wake(t) == \E orig \in mask[t], strong \in BOOLEAN :
  /\ st[t] = "sleep"
  /\ \/ t \notin RtTasks
        /\ PlaceOn(t, IF t \in UxTasks THEN SelectUx(t, orig, strong) ELSE orig)
     \/ t \in RtTasks
        /\ \E among \in RtMasks(t, strong) : PlaceOn(t, SelectRt(t, orig, among, strong))
WakeLowest(t) == \E among \in SUBSET mask[t] \ {{}}, strong \in BOOLEAN :
  /\ st[t] = "sleep" /\ t \in RtTasks
  /\ \E best \in among : \E c \in LowestRq(t, best, among, strong) : PlaceOn(t, c)

Enqueue(t) ==
  /\ st[t] \in {"waking", "moving"} /\ scan[cpu[t]] = None
  /\ st' = [st EXCEPT ![t] = "ready"]
  /\ UNCHANGED <<cpu, late, exiting, cpuL, mask, avail, newidle>> /\ UNCHANGED pushVars

----------------------------------------------------------------------------
(* Taking a task off a run queue.                                          *)

\* __pick_runnable_ux and __pick_runnable_rt; the order of the two lists is not
\* kept.
PickRunnable(src, dst, ux) ==
  {t \in Queued(src) \ (cpuL \union Pipeline) :
     /\ st[t] = "ready" /\ CanMigrate(t, dst)
     /\ IF ux THEN t \in UxTasks \ late ELSE t \in SfTasks}

\* __detach_running_ux and __detach_running_rt: the recorded task if it is still
\* queued and may move, else any of the kind that may.
\* Mutant: the recorded task is not asked again whether it may move.
DetachRecorded(src, dst, pid, ux) ==
  LET ofKind == IF ux THEN {t \in Queued(src) : t \notin RtTasks} ELSE Queued(src) \intersect RtTasks
      may == {t \in ofKind : CanMigrate(t, dst)}
  IN  IF pid \in ofKind THEN {pid}
      ELSE {t \in may : IF ux THEN t \in UxTasks ELSE t \in SfTasks}
Detach(src, dst, pid, ux) ==
  LET ofKind == IF ux THEN {t \in Queued(src) : t \notin RtTasks} ELSE Queued(src) \intersect RtTasks
      may == {t \in ofKind : CanMigrate(t, dst)}
  IN  IF pid \in may THEN {pid}
      ELSE {t \in may : IF ux THEN t \in UxTasks ELSE t \in SfTasks}

\* deactivate_task and set_task_cpu; attach_one_task is Enqueue.
MoveTo(t, dst) ==
  /\ cpu' = [cpu EXCEPT ![t] = dst]
  /\ st' = [st EXCEPT ![t] = "moving"]

----------------------------------------------------------------------------
(* The tick of a CPU that is not little: __trans_tick_balance.             *)

\* trigger_tickpull_balance.
TickPulls(c) ==
  /\ ~IsLittle(c) /\ Up(c)
  /\ ~HasUx(c) /\ ~HasRt(c) /\ ~PipelineCpu(c)

\* __pull_running_task: the tasks it may ask for.
Wanted(t, dst, ux) ==
  /\ st[t] = "run" /\ t \notin Pipeline /\ CanMigrate(t, dst)
  /\ IF ux THEN t \in UxTasks \ cpuL ELSE t \in RtTasks
Sources(c, walk) == {s \in Cpus \ {c} : OnWalk(walk, s) /\ Up(s)}
RunningSources(c, ux) ==
  {s \in Sources(c, PullRunningWalk(Cluster(c))) :
     ~lb[s].active /\ \E t \in Running(s) : Wanted(t, c, ux)}

\* trans_kick_active_balance and the stop work it pays for.
PullRunning(c, ux) ==
  LET s == FirstOn(PullRunningWalk(Cluster(c)), RunningSources(c, ux))
  IN  \E t \in Running(s) :
        /\ lb' = [lb EXCEPT ![s] = [@ EXCEPT !.active = TRUE, !.push = c, !.pid = t,
                                             !.type = IF ux THEN "ux" ELSE "rt"]]
        /\ stop' = [stop EXCEPT ![s] = QueueWork(@, "pull")]
        /\ UNCHANGED <<cpu, st, late, exiting, cpuL, mask, avail, irqwork, scan, newidle>>

\* __pull_runnable_task: it looks at the first CPU of the walk that is up, and
\* gives up when there is nothing to pull.
RunnableFrom(c, ux) ==
  LET walk == PullRunnableWalk(Cluster(c))
      S    == Sources(c, walk)
  IN  IF S = {} THEN {} ELSE PickRunnable(FirstOn(walk, S), c, ux)
PullRunnable(c, ux) == \E t \in RunnableFrom(c, ux) :
  /\ MoveTo(t, c)
  /\ UNCHANGED <<late, exiting, cpuL, mask, avail, newidle>> /\ UNCHANGED pushVars

Tick(c) ==
  /\ TickPulls(c) /\ scan[c] = None /\ newidle[c] = "no"
  /\ IF RunningSources(c, TRUE) # {} THEN PullRunning(c, TRUE)
     ELSE IF RunnableFrom(c, TRUE) # {} THEN PullRunnable(c, TRUE)
     ELSE IF RunningSources(c, FALSE) # {} THEN PullRunning(c, FALSE)
     ELSE PullRunnable(c, FALSE)

----------------------------------------------------------------------------
(* The stopper thread of a CPU.                                            *)

\* It takes over the CPU; both functions read their target before they lock.
StopStarts(c) ==
  /\ stop[c].target = NotRead /\ scan[c] = None /\ newidle[c] = "no"
  /\ stop' = [stop EXCEPT ![c].target =
                IF stop[c].fn = "push" THEN lb[c].irqPush ELSE lb[c].push]
  /\ st' = [t \in Tasks |-> IF t \in Running(c) THEN "ready" ELSE st[t]]
  /\ UNCHANGED <<cpu, late, exiting, cpuL, mask, avail, lb, irqwork, scan, newidle>>

StopEnds(c) ==
  /\ stop' = [stop EXCEPT ![c] = [NoWork EXCEPT !.fn = "done"]]
  /\ UNCHANGED <<late, exiting, cpuL, mask, avail, irqwork, scan, newidle>>
Moves(c, S) == IF S = {} THEN UNCHANGED <<cpu, st>>
               ELSE \E t \in S : MoveTo(t, stop[c].target)

\* trans_active_load_balance_cpu_stop.
StopPull(c) ==
  LET dst == stop[c].target
      found == IF Active(c) /\ Active(dst) /\ lb[c].active
               THEN Detach(c, dst, lb[c].pid, lb[c].type = "ux") ELSE {}
  IN  /\ Stopping(c) /\ stop[c].fn = "pull"
      /\ lb' = [lb EXCEPT ![c] = [@ EXCEPT !.pid = None, !.type = "none", !.active = FALSE,
                                             !.push = None]]
      /\ Moves(c, found) /\ StopEnds(c)

\* irqwb_cpu_stop_migrate; without a target it leaves the run queue alone.
StopPush(c) ==
  LET dst == stop[c].target
      found == IF /\ Active(c) /\ Active(dst) /\ lb[c].active
                  /\ ~HasUx(dst) /\ ~HasRunnableRt(dst)
               THEN IF Detach(c, dst, lb[c].irqPid, TRUE) # {}
                    THEN Detach(c, dst, lb[c].irqPid, TRUE)
                    ELSE Detach(c, dst, lb[c].irqPid, FALSE)
               ELSE {}
  IN  /\ Stopping(c) /\ stop[c].fn = "push"
      /\ IF dst = None THEN UNCHANGED <<cpu, st, lb>>
         ELSE /\ lb' = [lb EXCEPT ![c] = [@ EXCEPT !.irqPid = None, !.irqPush = None,
                                                   !.active = FALSE]]
              /\ Moves(c, found)
      /\ StopEnds(c)

\* The kernel's own active balance shares the flag, push_cpu and the stop work.
\* push_cpu is read only by the work the flag was raised for, and not kept after.
KernelKick(c) ==
  /\ ~lb[c].active
  /\ lb' = [lb EXCEPT ![c].active = TRUE]
  /\ stop' = [stop EXCEPT ![c] = QueueWork(@, "kernel")]
  /\ UNCHANGED <<cpu, st, late, exiting, cpuL, mask, avail, irqwork, scan, newidle>>
StopKernel(c) ==
  /\ Stopping(c) /\ stop[c].fn = "kernel"
  /\ lb' = [lb EXCEPT ![c].active = FALSE]
  /\ UNCHANGED <<cpu, st>> /\ StopEnds(c)

----------------------------------------------------------------------------
(* The push: wakeup_irqwb on the CPU a critical task leaves, irqwb_workfn  *)
(* on the little CPU.                                                      *)

\* The little CPUs wakeup_irqwb finds: running a UX or surfaceflinger task that
\* may come here, and without a push request.
PushSources(c) ==
  {l \in LittleCpus : /\ lb[l].irqPid = None
                      /\ \E t \in Running(l) \ (cpuL \union exiting) :
                            t \in UxTasks \union SfTasks /\ CanMigrate(t, c)}

\* What it has seen it records, and queues irqwb_work; the one work is queued
\* only if it is not pending.  The rotating start makes any source the first.
ScanRecord(c) ==
  LET l == scan[c].source IN
  /\ scan[c] # None
  /\ lb' = [lb EXCEPT ![l] = [@ EXCEPT !.irqPid = scan[c].task, !.irqPush = c]]
  /\ irqwork' = IF irqwork = None THEN l ELSE irqwork
  /\ scan' = [scan EXCEPT ![c] = None]
  /\ UNCHANGED <<cpu, st, late, exiting, cpuL, mask, avail, stop, newidle>>

\* trigger_irqwb.
\* Mutant: a request that is already under way is not noticed.
TriggerPushTwice(c, dst) ==
  /\ Cardinality(Queued(c)) + (IF stop[c].fn # "none" THEN 1 ELSE 0) > 1
  /\ HasUx(c) \/ HasRt(c)
  /\ ~HasUx(dst) /\ ~HasRunnableRt(dst)
TriggerPush(c, dst) ==
  /\ Cardinality(Queued(c)) + (IF stop[c].fn # "none" THEN 1 ELSE 0) > 1
  /\ HasUx(c) \/ HasRt(c)
  /\ ~lb[c].active
  /\ ~HasUx(dst) /\ ~HasRunnableRt(dst)

IrqWork(c) ==
  LET dst == lb[c].irqPush
      push == dst # None /\ TriggerPush(c, dst)
  IN  /\ irqwork = c /\ scan[c] = None
      /\ irqwork' = None
      /\ lb' = [lb EXCEPT ![c] = IF push THEN [@ EXCEPT !.active = TRUE]
                                 ELSE [@ EXCEPT !.irqPid = None, !.irqPush = None]]
      /\ stop' = IF push THEN [stop EXCEPT ![c] = QueueWork(@, "push")] ELSE stop
      /\ UNCHANGED <<cpu, st, late, exiting, cpuL, mask, avail, scan, newidle>>

----------------------------------------------------------------------------
(* Switching, and a CPU that runs out of tasks.                            *)

CanSchedule(c) == scan[c] = None /\ newidle[c] = "no" /\ stop[c].fn \in {"none", "done"}

\* The end of a switch to next, with the tasks in states: c looks for one to
\* help when it has left a critical task and has none left.
SwitchTo(c, leftCritical, next, states) ==
  LET looks == /\ leftCritical /\ ~IsLittle(c) /\ Up(c)
               /\ \A t \in Tasks : cpu'[t] = c /\ states[t] \in {"run", "ready"} => ~Critical(t)
  IN  /\ st' = IF next = None THEN states ELSE [states EXCEPT ![next] = "run"]
      /\ \/ /\ looks
            /\ \E l \in PushSources(c) : \E t \in Running(l) :
                 scan' = [scan EXCEPT ![c] = [source |-> l, task |-> t]]
         \/ ~(looks /\ PushSources(c) # {}) /\ UNCHANGED scan
      /\ stop' = IF stop[c].fn = "done" THEN [stop EXCEPT ![c] = NoWork] ELSE stop
      /\ UNCHANGED <<cpuL, mask, avail, lb, irqwork>>

\* What c runs leaves it: a task, the stopper, or nothing.
LeavesCritical(c, sleeps) ==
  \/ \E t \in Running(c) : Critical(t) \/ (sleeps /\ t \in UxTasks)
  \/ stop[c].fn = "done"
After(c, sleeps) ==
  [t \in Tasks |-> IF t \notin Running(c) THEN st[t] ELSE IF sleeps THEN "sleep" ELSE "ready"]
\* A run limit ends with the sleep, an exiting task with its last.
TasksAfter(c, sleeps) ==
  /\ late' = IF sleeps THEN late \ Running(c) ELSE late
  /\ exiting' = IF sleeps THEN exiting \ Running(c) ELSE exiting

Switch(c) == \E sleeps \in BOOLEAN, next \in Queued(c) \ Running(c) :
  /\ CanSchedule(c)
  /\ UNCHANGED <<cpu, newidle>>
  /\ TasksAfter(c, sleeps)
  /\ SwitchTo(c, LeavesCritical(c, sleeps), next, After(c, sleeps))

\* The last task sleeps.  __trans_newidle_balance comes first, unless the CPU is
\* not up or the kernel sees no CPU with two tasks.
GoIdle(c) ==
  /\ CanSchedule(c) /\ Queued(c) = Running(c)
  /\ Running(c) # {} \/ stop[c].fn = "done"
  /\ TasksAfter(c, TRUE)
  /\ UNCHANGED cpu
  /\ \/ /\ Up(c)
        /\ st' = After(c, TRUE)
        /\ stop' = [stop EXCEPT ![c] = NoWork]
        /\ newidle' = [newidle EXCEPT ![c] = IF LeavesCritical(c, TRUE) THEN "critical" ELSE "plain"]
        /\ UNCHANGED <<cpuL, mask, avail, lb, irqwork, scan>>
     \/ SwitchTo(c, LeavesCritical(c, TRUE), None, After(c, TRUE)) /\ UNCHANGED newidle

\* The tasks it may take: of the clusters up to its own, on the first CPU where
\* the look under both locks finds one.
NewidlePulls(c, ux) ==
  LET walk == NewidleWalk(Cluster(c))
      S == {s \in Sources(c, walk) : PickRunnable(s, c, ux) # {}}
  IN  IF S = {} \/ (~ux /\ HasRunnableRt(c)) THEN {} ELSE PickRunnable(FirstOn(walk, S), c, ux)

\* __newidle_pull_task: the locks were dropped, so the CPU may have tasks by now.
\* Handled, the kernel picks again; not handled, the CPU goes idle.
\* Mutant: only a task pulled here counts.
HandledPulled(pulled, queued) == pulled # {}
Handled(pulled, queued) == queued \union pulled # {}
NewidleEnds(c) ==
  LET may == IF NewidlePulls(c, TRUE) # {} THEN NewidlePulls(c, TRUE) ELSE NewidlePulls(c, FALSE)
  IN  /\ newidle[c] # "no"
      /\ newidle' = [newidle EXCEPT ![c] = "no"]
      /\ UNCHANGED <<late, exiting>>
      /\ \E pulled \in IF may = {} THEN {{}} ELSE {{t} : t \in may} :
           /\ cpu' = [t \in Tasks |-> IF t \in pulled THEN c ELSE cpu[t]]
           /\ \E next \in IF Handled(pulled, Queued(c)) THEN pulled \union Queued(c) ELSE {None} :
                SwitchTo(c, newidle[c] = "critical", next, st)

----------------------------------------------------------------------------
(* What userland and the machine change.                                   *)

\* A UX task uses up its run limit; the tick takes it off the list.
TimesOut(t) ==
  /\ t \in UxTasks \ late /\ st[t] = "run"
  /\ late' = late \union {t}
  /\ UNCHANGED <<cpu, st, exiting, cpuL, mask, avail, newidle>> /\ UNCHANGED pushVars

Exit(t) ==
  /\ st[t] = "run" /\ t \notin exiting
  /\ exiting' = exiting \union {t}
  /\ UNCHANGED <<cpu, st, late, cpuL, mask, avail, newidle>> /\ UNCHANGED pushVars

SetCpuL(t) ==
  /\ cpuL' = IF t \in cpuL THEN cpuL \ {t} ELSE cpuL \union {t}
  /\ UNCHANGED <<cpu, st, late, exiting, mask, avail, newidle>> /\ UNCHANGED pushVars

SetAffinity(t) ==
  /\ st[t] \in {"run", "ready", "sleep"}
  /\ mask' = [mask EXCEPT ![t] = IF @ = Cpus THEN {cpu[t]} ELSE Cpus]
  /\ UNCHANGED <<cpu, st, late, exiting, cpuL, avail, newidle>> /\ UNCHANGED pushVars

SetAvail(c, a) ==
  /\ avail' = [avail EXCEPT ![c] = a]
  /\ UNCHANGED newidle /\ UNCHANGED taskVars /\ UNCHANGED pushVars

Next ==
  \/ \E t \in Tasks : Wake(t) \/ WakeLowest(t) \/ Enqueue(t) \/ TimesOut(t)
  \/ \E t \in Mortal : Exit(t)
  \/ \E t \in Rebound : SetCpuL(t) \/ SetAffinity(t)
  \/ \E c \in Cpus : \/ Tick(c) \/ StopStarts(c) \/ StopPull(c) \/ StopPush(c)
                     \/ StopKernel(c) \/ ScanRecord(c) \/ IrqWork(c)
                     \/ Switch(c) \/ GoIdle(c) \/ NewidleEnds(c)
                     \/ c \in Kicked /\ KernelKick(c)
  \/ \E c \in Pausable, a \in {"up", "halted", "inactive"} : a # avail[c] /\ SetAvail(c, a)

Spec == Init /\ [][Next]_vars

----------------------------------------------------------------------------
(* Properties.                                                             *)

\* The stop work of a CPU (active_balance_work, one per run queue, shared with
\* the kernel's own balance) is never queued again before the stopper is through
\* with it: not by another CPU for the same balance, not for another one.
StopWorkOnce == \A c \in Cpus : stop[c].times <= 1

\* No task is put on a CPU outside its affinity mask, though the mask may change
\* between the choice, the request and the stopper's turn.
MovesWhereAllowed ==
  [][\A t \in Tasks : cpu'[t] # cpu[t] => cpu'[t] \in mask[t]]_vars

\* The balance moves a task to a CPU of the same or of more capacity, and the
\* stopper only to one of more.
MovesUphill ==
  [][\A t \in Tasks : cpu'[t] # cpu[t] /\ st[t] \in {"run", "ready"} =>
       /\ Capacity[cpu'[t]] >= Capacity[cpu[t]]
       /\ stop[cpu[t]].fn # stop'[cpu[t]].fn => Capacity[cpu'[t]] > Capacity[cpu[t]]]_vars

\* A CPU does not go idle while a task is queued on it, also when the task came
\* while the newidle balance had dropped the lock.
IdleMeansEmpty ==
  [][\A c \in Cpus : newidle[c] # "no" /\ newidle'[c] = "no" =>
       \A t \in Tasks : cpu'[t] = c /\ st'[t] = "ready" =>
         \E n \in Tasks : cpu'[n] = c /\ st'[n] = "run"]_vars

\* What everyone takes for "active balance already requested" is a request.
ActiveHasWork ==
  \A c \in Cpus : lb[c].active => stop[c].fn \in {"pull", "push", "kernel"}
=============================================================================

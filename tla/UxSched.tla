------------------------------ MODULE UxSched ------------------------------
(***************************************************************************)
(* The UX scheduler core: per-CPU lists of UX tasks, the hooks the kernel  *)
(* scheduler calls (enqueue, dequeue, tick, pick), and the requests        *)
(* userland makes through the driver (set or cancel tags, shift a          *)
(* priority, mark an async-binder task, change scene or features).         *)
(*                                                                         *)
(* Every action that the code runs between task_rq_lock and task_rq_unlock *)
(* (or in a hook called with the run-queue lock held) is one step.  The    *)
(* kernel scheduler itself (which task blocks, wakes, migrates, changes    *)
(* class, exits) is external and nondeterministic.  Time advances in units *)
(* of UX_RUN_SLICE and only in Tick.                                       *)
(***************************************************************************)
EXTENDS UxTags, FiniteSets

CONSTANTS
  Tasks, Cpus,
  Idle,         \* what an idle CPU runs
  Requests,     \* tags userland may ask for (NoTags cancels)
  Shifts,       \* priority shifts userland may ask for
  FeatureSets,  \* feature masks userland may install
  SceneSets,    \* scene masks userland may install
  Mains,        \* main threads (pid = tgid)
  RtTasks,      \* tasks whose scheduling class may change
  Mortal,       \* tasks that may exit (and be forked again)
  Marked,       \* tasks userland may mark as async-binder receivers
  MaxCharge,    \* bound: most slices one tick can charge
  MaxRun,       \* bound: runtimes above it are not told apart
  LaunchBonus   \* RUN_SLICE_32, granted to a main thread during launch

Features == {"DEFAULT", "UX_SHARE", "KWORKER"}
Scenes   == {"LAUNCH", "ANIMATION"}

ASSUME TasksAssumption == Idle \notin Tasks
\* is_available_ux_type: a request is one of the templates, all of which have a
\* static priority and no share bits, or it cancels.
ASSUME RequestsAssumption ==
  \A req \in Requests : req \in Tags /\ (req = NoTags \/ (CheckTagsOk(req) /\ req.share = {}))
ASSUME MasksAssumption == /\ FeatureSets \subseteq SUBSET Features /\ FeatureSets # {}
                          /\ SceneSets \subseteq SUBSET Scenes
ASSUME ShiftsAssumption == Shifts \subseteq {"RAISE", "LOWER", "REBASE"}
ASSUME RunAssumption == /\ MaxCharge \in Nat /\ MaxRun \in Nat /\ LaunchBonus \in Nat
                        /\ {"ANIMATION"} \in SceneSets =>
                             \A s \in Slices : SliceLen[s] + SliceLen[s] < MaxRun
                        /\ \A s \in Slices : SliceLen[s] + LaunchBonus < MaxRun

VARIABLES
  ts,        \* trans_task_struct of each task
  se,        \* what the kernel scheduler knows of each task
  ux_list,   \* trans_rq.ux_list of each CPU
  refs,      \* task references the UX lists hold
  curr,      \* rq->curr of each CPU
  features,  \* features switched on (g_uas_feature_state)
  scene,     \* g_sched_scene
  kwin       \* g_ux_kworker_enable: 0, in the future, or in the past

schedVars == <<ts, se, ux_list, refs, curr, features, scene, kwin>>

TransTask == [tags : Tags, share : Shares, pending : Tags, magic : BOOLEAN,
              total_run : Nat, period : Nat]
FreshTask == [tags |-> NoTags, share |-> NoShare, pending |-> NoTags,
              magic |-> FALSE, total_run |-> 0, period |-> 0]

SchedEntity == [cpu : Cpus, on_rq : {"no", "queued", "moving"}, running : BOOLEAN,
                rt : BOOLEAN, life : {"live", "exiting", "dead", "free"}]

TypeOK ==
  /\ ts \in [Tasks -> TransTask]
  /\ se \in [Tasks -> SchedEntity]
  /\ ux_list \in [Cpus -> Seq(Tasks)]
  /\ refs \in [Tasks -> Int]
  /\ curr \in [Cpus -> Tasks \union {Idle}]
  /\ features \in SUBSET Features
  /\ scene \in SUBSET Scenes
  /\ kwin \in {"closed", "open", "expired"}

Init ==
  /\ ts = [t \in Tasks |-> FreshTask]
  /\ se \in [Tasks -> {[cpu |-> c, on_rq |-> "no", running |-> FALSE,
                        rt |-> FALSE, life |-> "live"] : c \in Cpus}]
  /\ ux_list = [c \in Cpus |-> <<>>]
  /\ refs = [t \in Tasks |-> 0]
  /\ curr = [c \in Cpus |-> Idle]
  /\ features \in FeatureSets
  /\ scene = {}
  /\ kwin = "closed"

----------------------------------------------------------------------------
(* What the code asks about a task.                                        *)

Alive(t)    == se[t].life \in {"live", "exiting"}
OnUxList(t) == \E c \in Cpus : Listed(ux_list[c], t)

\* task_rq_lock waits for a task that is between two run queues.
Lockable(t) == se[t].on_rq # "moving"

\* check_task_on_rq: a task about to sleep does not count.
\* Mutants: any task will do; only the task on the CPU will do.
CheckNothing(t)   == TRUE
CheckTaskOnCpu(t) == se[t].running /\ \E c \in Cpus : curr[c] = t
CheckTaskOnRq(t) == se[t].running /\ se[t].on_rq = "queued"

KworkerType(t) == "KWORKER" \in ts[t].tags.flags
KworkerOn      == {"DEFAULT", "KWORKER"} \subseteq features

RunSlice(g) == IF IgnoreShare(g) = NoTags THEN 0 ELSE SliceLen[g.slice]

\* Mutant: an animation lifts the limit.
RunLimitLifted(t) ==
  LET base == RunSlice(ts[t].tags)
  IN IF ts[t].tags.share # {} \/ KworkerType(t) \/ "ANIMATION" \notin scene THEN base
     ELSE MaxRun

RunLimit(t) ==
  LET g == ts[t].tags
      base == RunSlice(g)
  IN IF g.share # {} \/ KworkerType(t) THEN base
     ELSE IF "LAUNCH" \in scene
            THEN IF t \in Mains /\ base # 0 THEN base + LaunchBonus ELSE base
     ELSE IF "ANIMATION" \in scene THEN base + base
     ELSE base

UxState(t) ==
  CASE "DEFAULT" \notin features         -> "NO_FEATURE"
    [] "DEFAULT" \in features /\ se[t].rt -> "NOT_FAIR"
    [] OTHER ->
       IF ~CheckTagsOk(ts[t].tags) THEN "NO_TAG"
       ELSE IF KworkerType(t) /\ kwin = "closed" THEN "KWORKER_DISABLE"
       ELSE IF se[t].life # "live" THEN "EXITING"
       ELSE IF ts[t].total_run > RunLimit(t) THEN "TIMEOUT"
       ELSE "REAL"

IsUxTask(t) == UxState(t) = "REAL"

----------------------------------------------------------------------------
(* List membership always comes with a task reference.                     *)

Link(t, c, w) ==
  /\ ux_list' = [ux_list EXCEPT ![c] = InsertUx(@, t, w)]
  /\ refs' = [refs EXCEPT ![t] = @ + 1]

\* Mutant: a deletion keeps the reference.
UnlinkKeepsRef(t) ==
  /\ ux_list' = [c \in Cpus |-> IF Listed(ux_list[c], t)
                                  THEN DeleteUx(ux_list[c], t) ELSE ux_list[c]]
  /\ UNCHANGED refs
Unlink(t) ==
  /\ ux_list' = [c \in Cpus |-> IF Listed(ux_list[c], t)
                                  THEN DeleteUx(ux_list[c], t) ELSE ux_list[c]]
  /\ refs' = [refs EXCEPT ![t] = @ - 1]

\* The tail of set_ux_tags_to_task and set_ux_share: a task that is running
\* or runnable and not listed yet joins the list of its run queue.
\* Mutant: the task may be listed already.
Relink(cond, t, w) ==
  IF cond /\ CheckTaskOnRq(t) THEN Link(t, se[t].cpu, w) ELSE UNCHANGED <<ux_list, refs>>
LinkIf(cond, t, w) ==
  IF cond /\ CheckTaskOnRq(t) /\ ~OnUxList(t)
    THEN Link(t, se[t].cpu, w)
    ELSE UNCHANGED <<ux_list, refs>>

----------------------------------------------------------------------------
(* Hooks called by the kernel scheduler with the run-queue lock held.      *)

\* set_ux_kworker_enable(.., false): a kworker that comes after the window
\* closes it and is refused; the feature switch closes it for everyone.
KworkerLate(t) == KworkerOn /\ KworkerType(t) /\ kwin = "expired"

EnqueueUx(t, c) ==
  IF ~IsUxTask(t)
    THEN UNCHANGED <<ux_list, refs, kwin>>
    ELSE /\ kwin' = IF ~KworkerOn \/ KworkerLate(t) THEN "closed" ELSE kwin
         /\ IF KworkerLate(t) \/ OnUxList(t)
              THEN UNCHANGED <<ux_list, refs>>
              ELSE Link(t, c, ts)

\* Leaving the run queue ends a one-shot share (on sleep) and a share that
\* has run longer than its slice, but only for a task that is still listed.
\* Mutant: sleeping ends tags of every origin.
OverOnSleep(x, sleep) == sleep \/ x.period > RunSlice(x.tags)
ShareOver(x, sleep) ==
  /\ x.tags.share # {}
  /\ ("ONESHOT" \in x.tags.flags /\ sleep) \/ x.period > RunSlice(x.tags)

\* Mutants: the mark stays; the share word stays.
ClearTagsKeepMagic(x) == [x EXCEPT !.tags = NoTags, !.share = NoShare, !.period = 0]
ClearTagsKeepShare(x) == [x EXCEPT !.tags = NoTags, !.period = 0, !.magic = FALSE]
ClearTags(x) == [x EXCEPT !.tags = NoTags, !.share = NoShare,
                          !.period = 0, !.magic = FALSE]

DequeueUx(t, sleep, iowait) ==
  LET x == ts[t]
      y == IF OnUxList(t) /\ ShareOver(x, sleep) THEN ClearTags(x) ELSE x
  IN /\ ts' = [ts EXCEPT ![t] =
                IF se[t].running THEN y ELSE [y EXCEPT !.total_run = 0]]
     /\ IF OnUxList(t)
          THEN /\ Unlink(t)
               /\ kwin' = IF ~iowait THEN kwin
                          ELSE IF ~KworkerOn THEN "closed"
                          ELSE IF CheckTagsOk(x.tags) THEN "open" ELSE kwin
          ELSE UNCHANGED <<ux_list, refs, kwin>>

Cap(n) == IF n > MaxRun THEN MaxRun ELSE n

\* android_vh_scheduler_tick_hook and update_ux_runtime: a tick that finds
\* at least one slice of runtime since the last charge charges it; the task
\* leaves the list when over its limit and is sorted in afresh otherwise.
Tick(c, d) ==
  LET t == curr[c]
      x == ts[t]
      aged == [x EXCEPT !.period = IF x.tags.share # {} THEN Cap(@ + d) ELSE @]
      charged == [aged EXCEPT !.total_run = Cap(@ + d)]
  IN /\ t # Idle /\ Lockable(t) /\ x.magic
     /\ IF OnUxList(t)
          THEN /\ ts' = [ts EXCEPT ![t] = charged]
               /\ IF charged.total_run > RunLimit(t)
                    THEN Unlink(t)
                    ELSE /\ ux_list' = [ux_list EXCEPT ![c] = InsertUx(DeleteUx(@, t), t, ts)]
                         /\ UNCHANGED refs
          ELSE ts' = [ts EXCEPT ![t] = aged] /\ UNCHANGED <<ux_list, refs>>
     /\ UNCHANGED <<se, curr, features, scene, kwin>>

----------------------------------------------------------------------------
(* The kernel scheduler.                                                   *)

Queued(t, c) == se[t].on_rq = "queued" /\ se[t].cpu = c

\* pick_next_ux_fair: the first listed task that is really eligible here.
UxCandidates(c) ==
  {i \in DOMAIN ux_list[c] :
     LET t == ux_list[c][i] IN Queued(t, c) /\ IsUxTask(t)}

PickNext(c) ==
  LET rts  == {t \in Tasks : Queued(t, c) /\ se[t].rt}
      fair == {t \in Tasks : Queued(t, c) /\ ~se[t].rt}
  IN IF rts # {} THEN rts
     ELSE IF UxCandidates(c) # {}
       THEN {ux_list[c][CHOOSE i \in UxCandidates(c) : \A j \in UxCandidates(c) : i <= j]}
     ELSE IF fair # {} THEN fair ELSE {Idle}

Schedule(c) ==
  /\ \A t \in Tasks : se[t].cpu = c => Lockable(t)
  /\ \E t \in PickNext(c) : curr' = [curr EXCEPT ![c] = t]
  /\ UNCHANGED <<ts, se, ux_list, refs, features, scene, kwin>>

\* set_current_state: the running task announces that it will sleep ...
SetSleeping(t) ==
  /\ \E c \in Cpus : curr[c] = t
  /\ se[t].running /\ se[t].on_rq = "queued"
  /\ se' = [se EXCEPT ![t].running = FALSE]
  /\ UNCHANGED <<ts, ux_list, refs, curr, features, scene, kwin>>

\* ... changes its mind, or is woken before it left the run queue ...
WakeQueued(t) ==
  /\ ~se[t].running /\ se[t].on_rq = "queued"
  /\ se' = [se EXCEPT ![t].running = TRUE]
  /\ UNCHANGED <<ts, ux_list, refs, curr, features, scene, kwin>>

\* ... or goes to sleep, for the last time if it is exiting.
Deactivate(t, iowait) ==
  /\ ~se[t].running /\ se[t].on_rq = "queued"
  /\ \E c \in Cpus : curr[c] = t /\ curr' = [curr EXCEPT ![c] = Idle]
  /\ DequeueUx(t, TRUE, iowait)
  /\ \E l \in IF se[t].life = "exiting" THEN {"exiting", "dead"} ELSE {se[t].life} :
       se' = [se EXCEPT ![t] = [@ EXCEPT !.on_rq = "no", !.life = l]]
  /\ UNCHANGED <<features, scene>>

Activate(t, c) ==
  /\ Alive(t) /\ se[t].on_rq = "no"
  /\ EnqueueUx(t, c)
  /\ se' = [se EXCEPT ![t] = [@ EXCEPT !.cpu = c, !.on_rq = "queued", !.running = TRUE]]
  /\ UNCHANGED <<ts, curr, features, scene>>

\* Migration, and a change of scheduling class, take a queued task off one
\* run queue and put it on the next; no locked operation sees it between.
Detach(t, c, rt) ==
  /\ se[t].on_rq = "queued" /\ <<c, rt>> # <<se[t].cpu, se[t].rt>>
  /\ c # se[t].cpu => \A d \in Cpus : curr[d] # t
  /\ rt # se[t].rt => t \in RtTasks
  /\ DequeueUx(t, FALSE, FALSE)
  /\ se' = [se EXCEPT ![t] = [@ EXCEPT !.cpu = c, !.rt = rt, !.on_rq = "moving"]]
  /\ UNCHANGED <<curr, features, scene>>

Attach(t) ==
  /\ se[t].on_rq = "moving"
  /\ EnqueueUx(t, se[t].cpu)
  /\ se' = [se EXCEPT ![t].on_rq = "queued"]
  /\ UNCHANGED <<ts, curr, features, scene>>

Exit(t) ==
  /\ t \in Mortal /\ se[t].life = "live" /\ \E c \in Cpus : curr[c] = t
  /\ se' = [se EXCEPT ![t].life = "exiting"]
  /\ UNCHANGED <<ts, ux_list, refs, curr, features, scene, kwin>>

\* The last reference frees the task and its trans_task_struct.
FreeTask(t) ==
  /\ se[t].life = "dead" /\ refs[t] = 0
  /\ ts' = [ts EXCEPT ![t] = FreshTask]
  /\ se' = [se EXCEPT ![t] = [@ EXCEPT !.life = "free", !.rt = FALSE]]
  /\ UNCHANGED <<ux_list, refs, curr, features, scene, kwin>>

Fork(t) ==
  /\ se[t].life = "free"
  /\ ts' = [ts EXCEPT ![t] = FreshTask]
  /\ se' = [se EXCEPT ![t].life = "live"]
  /\ UNCHANGED <<ux_list, refs, curr, features, scene, kwin>>

----------------------------------------------------------------------------
(* Requests from userland.                                                 *)

\* trans_task_struct_init: everything but the list node is reset.
\* Mutant: the mark is forgotten.
InitTaskUnmarked(x) == IF x.magic THEN x ELSE FreshTask
InitTask(x) == IF x.magic THEN x ELSE [FreshTask EXCEPT !.magic = TRUE]

\* set_ux_tags_to_task.  The futex and async-binder requests it dispatches
\* are AbinderMark below and the futex routes of UxShare.  The feature is
\* checked long before the lock is taken, so it may be off by now.
SetUxTags(t, req) ==
  LET x == ts[t]
      v == PendingDecision(x.tags, x.pending, req)
      y == InitTask([x EXCEPT !.pending = v.pending])
      g == IF v.tags = NoTags THEN NoTags ELSE InitDprio(v.tags)
      z == [y EXCEPT !.tags = g, !.share = NoShare, !.period = 0,
                     !.magic = @ /\ g # NoTags]
  IN /\ Alive(t) /\ Lockable(t)
     /\ req # NoTags \/ x.tags # NoTags
     /\ IF v.ignore
          THEN /\ ts' = [ts EXCEPT ![t].pending = v.pending]
               /\ UNCHANGED <<ux_list, refs>>
          ELSE /\ ts' = [ts EXCEPT ![t] = z]
               /\ LinkIf(CheckTagsOk(g) /\ ~("KWORKER" \in g.flags /\ kwin = "closed"),
                         t, ts')
     /\ UNCHANGED <<se, curr, features, scene, kwin>>

\* convert_ux_prio shifts the dynamic priority of any tagged task in place.
Shifted(g, s) == CASE s = "RAISE" -> RaiseDprio(g)
                   [] s = "LOWER" -> LowerDprio(g)
                   [] s = "REBASE" -> RebaseDprio(g)

ConvertUxPrio(t, s) ==
  /\ Alive(t) /\ Lockable(t)
  /\ CheckTagsOk(ts[t].tags)
  /\ ts' = [ts EXCEPT ![t].tags = Shifted(@, s)]
  /\ UNCHANGED <<se, ux_list, refs, curr, features, scene, kwin>>

\* abinder_set_ux_tags: only the mark changes, on any task.
AbinderMark(t, on) ==
  /\ t \in Marked /\ Alive(t) /\ Lockable(t)
  /\ ts' = [ts EXCEPT ![t].tags = IF on THEN SetFlag(@, "ABINDER")
                                        ELSE ClearFlag(@, "ABINDER")]
  /\ UNCHANGED <<se, ux_list, refs, curr, features, scene, kwin>>

SetScene(s, cancel) ==
  /\ "DEFAULT" \in features
  /\ scene' = IF cancel THEN scene \ s ELSE IF s = {} THEN {} ELSE scene \union s
  /\ UNCHANGED <<ts, se, ux_list, refs, curr, features, kwin>>

SetFeatures(f) ==
  /\ features' = f
  /\ UNCHANGED <<ts, se, ux_list, refs, curr, scene, kwin>>

\* The kworker window (three jiffies) runs out.
WindowExpires ==
  /\ kwin = "open"
  /\ kwin' = "expired"
  /\ UNCHANGED <<ts, se, ux_list, refs, curr, features, scene>>

----------------------------------------------------------------------------

Kernel ==
  \/ \E c \in Cpus : Schedule(c) \/ \E d \in 1..MaxCharge : Tick(c, d)
  \/ \E t \in Tasks :
       \/ SetSleeping(t) \/ WakeQueued(t) \/ Attach(t)
       \/ \E w \in BOOLEAN : Deactivate(t, w)
       \/ \E c \in Cpus : Activate(t, c) \/ \E rt \in BOOLEAN : Detach(t, c, rt)
       \/ Exit(t) \/ FreeTask(t) \/ Fork(t)
  \/ WindowExpires

Userland ==
  \/ \E t \in Tasks :
       \/ \E req \in Requests : SetUxTags(t, req)
       \/ \E s \in Shifts : ConvertUxPrio(t, s)
       \/ \E on \in BOOLEAN : AbinderMark(t, on)
  \/ \E s \in SceneSets, cancel \in BOOLEAN : SetScene(s, cancel)
  \/ \E f \in FeatureSets : SetFeatures(f)

Next == Kernel \/ Userland

Spec == Init /\ [][Next]_schedVars

\* The timer tick of a busy CPU keeps coming.  The tick of the kernel's own
\* scheduler asks for a reschedule again and again, and one of these gets its turn
\* at the run-queue lock, a queued spin lock, however often tasks are moved under
\* it.  A task that is taken off a run queue is put on the next.
FairSpec ==
  /\ Spec
  /\ \A c \in Cpus : /\ WF_schedVars(\E d \in 1..MaxCharge : Tick(c, d))
                     /\ SF_schedVars(Schedule(c))
  /\ \A t \in Tasks : WF_schedVars(Attach(t))

----------------------------------------------------------------------------
(* Correctness.                                                            *)

\* A UX list never holds a task twice.
NoDuplicates == \A c \in Cpus : Distinct(ux_list[c])

\* A listed task is queued on that very CPU: the list of a run queue never
\* offers pick_next_ux_fair a task that sleeps or has migrated away, although
\* tags come and go while tasks sleep, migrate and change class.
ListedAtHome ==
  \A c \in Cpus, t \in Tasks : Listed(ux_list[c], t) => Queued(t, c)

\* Every list entry holds exactly one task reference and every reference has
\* its entry: the four places that insert (set tags, set share, enqueue) and
\* the four that delete (dequeue, timeout, unset share) are balanced.
RefBalance == \A t \in Tasks : refs[t] = IF OnUxList(t) THEN 1 ELSE 0

\* The tick charges a task only when trans_task_struct is marked initialised,
\* so a task with a UX priority or a share but without the mark would never time
\* out, and one marked without either would never be set up afresh.
MagicMatchesTags ==
  \A t \in Tasks : ts[t].magic <=> CheckTagsOk(ts[t].tags) \/ ts[t].tags.share # {}

\* A runnable, eligible task that no list knows gets no preference until it is
\* queued again.  Only what the code does not follow up may bring that about: a
\* scene or feature switch, the kworker window opening again, and waking a task
\* that was tagged while it was about to sleep.
Missed(t) ==
  se[t].on_rq = "queued" /\ se[t].running /\ IsUxTask(t) /\ ~OnUxList(t)

EligibleStaysListed ==
  [][\A t \in Tasks : Missed(t)' /\ ~Missed(t) =>
       \/ scene' # scene \/ features' # features
       \/ KworkerType(t) /\ kwin' = "open"
       \/ ~se[t].running /\ se[t].on_rq = "queued"]_schedVars

\* What is remembered of two overlapping requests is always the weaker one, and
\* it never outlives the tags that were put over it.
PendingIsWeaker ==
  \A t \in Tasks : ts[t].pending = NoTags \/ ts[t].pending.sprio <= ts[t].tags.sprio

\* Userland stops changing tags, scene and features.
Quiet == <>[][Kernel]_schedVars

\* The preference is bounded: a UX task cannot keep the CPU as a UX task for
\* ever, whatever scene extends its limit; it sleeps, is replaced, or times out.
PreferenceEnds ==
  Quiet => \A c \in Cpus, t \in Tasks :
             []<>~(curr[c] = t /\ OnUxList(t) /\ IsUxTask(t))

\* Listed tasks of equal priority take turns: none waits for ever behind tasks
\* that wake, run and sleep, because equal tasks queue behind each other both
\* when they wake and when the tick sorts them in afresh.
TakesTurns ==
  Quiet => \A c \in Cpus, t \in Tasks :
             []<>~(Listed(ux_list[c], t) /\ IsUxTask(t) /\ curr[c] # t)

\* However requests were stacked on a task, two cancels in a row clear it.
TwoCancelsClear ==
  \A t \in Tasks :
    LET v == PendingDecision(ts[t].tags, ts[t].pending, NoTags)
        w == PendingDecision(IF v.ignore THEN ts[t].tags ELSE v.tags, v.pending, NoTags)
    IN ~w.ignore /\ w.tags = NoTags

=============================================================================

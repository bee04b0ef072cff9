------------------------------- MODULE Targets -------------------------------
(***************************************************************************)
(* Threads that become UX by their name (trans_target.c).  The rename hook *)
(* notes SurfaceFlinger's threads in a table and leaves the tagging to a   *)
(* work item that takes its target from one slot; helper threads of an app *)
(* it tags at once as their group leader is.  An ioctl that tags or clears *)
(* a group leader then walks the group for its helpers.  Both go through   *)
(* set_ux_tags_to_task, where requests overlap, and meet inherited tags.   *)
(*                                                                         *)
(* Bounds: a thread is named once, an app has at most APPS_TARGETS_SLOTS   *)
(* helpers of a name, one ioctl runs at a time and names a group leader;   *)
(* the features stay on and the threads of an app stay fair.  Inheritance  *)
(* is one step here; its own races are those of UxShare.                   *)
(***************************************************************************)
EXTENDS Naturals, Sequences, SequencesExt, FiniteSets

CONSTANTS
  Group,        \* group leader -> its other threads, in the order of the group's list
  SystemTasks,  \* threads with SYSTEM_SERVER_UID, none of them fair
  PidOf,        \* task -> pid; tasks of one pid live one after the other
  Unborn,       \* tasks that are not there at first
  Sf,           \* name -> tags, g_sf_targets
  Requests,     \* tags an ioctl may ask for
  Exact,        \* those of them with UX_FLAG_EXACT
  Prio,         \* tags -> static priority
  NoTask,       \* none of the tasks
  MaxNames, MaxExits, \* bounds: threads named, threads gone, and all of these
  MaxEvents           \* together with ioctls and inheritances

Leaders == DOMAIN Group
Helpers == UNION {ToSet(Group[l]) : l \in Leaders}
Tasks   == Leaders \cup Helpers \cup SystemTasks

\* g_apps_targets, its names folded to one with an affinity and one without.
AppTable == <<[comm |-> "mali", cpuL |-> TRUE], [comm |-> "hwui", cpuL |-> FALSE]>>
AppNames == {AppTable[i].comm : i \in DOMAIN AppTable}
APPS_TARGETS_SLOTS == 2

ASSUME TablesAssumption ==
  /\ DOMAIN Sf \cap (AppNames \cup {"other", "none"}) = {}
  /\ {Sf[n] : n \in DOMAIN Sf} \cap (Requests \cup {"lent", "none"}) = {}
  /\ {MaxNames, MaxExits, MaxEvents} \subseteq Nat
ASSUME RequestsAssumption ==
  /\ Requests \cap {"lent", "none"} = {} /\ Exact \subseteq Requests
  /\ Prio \in [Requests \cup {"lent"} -> Nat]
ASSUME TasksAssumption ==
  /\ Leaders \cap Helpers = {} /\ SystemTasks \cap (Leaders \cup Helpers) = {}
  /\ Unborn \cap Leaders = {} /\ NoTask \notin Tasks
\* A thread is in one group's list, once.
ASSUME GroupAssumption ==
  /\ Group \in [Leaders -> Seq(Helpers)]
  /\ \A l \in Leaders : \A i, j \in DOMAIN Group[l] : Group[l][i] = Group[l][j] => i = j
  /\ \A l, m \in Leaders : ToSet(Group[l]) \cap ToSet(Group[m]) # {} => l = m

VARIABLES
  comm, alive,         \* by task; "other" is a name of no table
  tags, pending,       \* by task: ux_tags, ux_pending
  hook,                \* by task: the rename in progress
  entry,               \* by name: pid and task of a g_sf_targets element
  slot,                \* g_sf_targets_work.target
  queued,              \* the work item is pending
  work,                \* ux_targets_work_func in progress
  call,                \* the ioctl in progress
  events,              \* events so far
  matched,             \* by name: tasks the hook ever matched
  behind,              \* helpers that were named while a request of their
                       \* leader waited or an ioctl ran
  alone                \* a target whose post overlapped no other

taskVars == <<comm, tags, pending, alive>>
sfVars   == <<entry, slot, queued, work, matched, alone>>
callVars == <<call, behind>>
vars     == <<taskVars, sfVars, hook, callVars, events>>

Untagged == [by |-> "none", cpuL |-> FALSE]
NoHook   == [step |-> 0, name |-> "other", tags |-> Untagged]
NoEntry  == [pid |-> 0, task |-> NoTask]
NoWork   == [step |-> "idle", name |-> "none", task |-> NoTask]
NoCall   == [leader |-> NoTask, by |-> "none", cpuL |-> FALSE, next |-> 1, found |-> {}]

Init ==
  /\ comm = [t \in Tasks |-> "other"] /\ tags = [t \in Tasks |-> Untagged]
  /\ pending = [t \in Tasks |-> Untagged]
  /\ alive = [t \in Tasks |-> t \notin Unborn]
  /\ hook = [t \in Tasks |-> NoHook]
  /\ entry = [n \in DOMAIN Sf |-> NoEntry] /\ slot = "none" /\ queued = FALSE /\ work = NoWork
  /\ call = NoCall /\ events = 0
  /\ matched = [n \in DOMAIN Sf |-> {}] /\ behind = {} /\ alone = NoTask

FindTask(pid) == {t \in Tasks : alive[t] /\ PidOf[t] = pid}
LeaderOf(t)   == CHOOSE l \in Leaders : t \in ToSet(Group[l])
Calling       == call.leader # NoTask

Event == events < MaxEvents /\ events' = events + 1

----------------------------------------------------------------------------
(* set_ux_tags_to_task.                                                    *)

\* update_ux_pending, of a request that comes on top of one in force: the one
\* with the higher priority is in force, the other waits.
Overlap(cur, req) ==
  IF Prio[req.by] > Prio[cur.by]
    THEN [tags |-> req, pending |-> cur] ELSE [tags |-> cur, pending |-> req]

\* ... and of a cancel while one waits: an exact request gives way to it.
Cancelled(cur, pend) ==
  [tags |-> IF cur.by \in Exact THEN pend ELSE cur, pending |-> Untagged]

\* What a request makes of a task's tags and of the request that waits.  A task
\* without tags is initialised, inherited tags are overwritten.
AfterRequest(cur, pend, req) ==
  CASE cur.by = "none" -> [tags |-> req, pending |-> IF req.by = "none" THEN pend ELSE Untagged]
    [] cur.by = "lent" \/ (cur.by # "none" /\ req.by = "none" /\ pend.by = "none")
         -> [tags |-> req, pending |-> pend]
    [] OTHER ->
         CASE req.by # "none" /\ pend.by = "none" -> Overlap(cur, req)
           [] req.by = "none" /\ pend.by # "none" -> Cancelled(cur, pend)
           [] OTHER -> [tags |-> cur, pending |-> pend]

SetUxTags(t, req) ==
  LET after == AfterRequest(tags[t], pending[t], req)
  IN  /\ tags' = [tags EXCEPT ![t] = after.tags]
      /\ pending' = [pending EXCEPT ![t] = after.pending]

\* A thread of an app that has no tags inherits some, until a lock is released
\* or the share runs out.
Lend(t) ==
  /\ t \in Leaders \cup Helpers /\ alive[t] /\ tags[t].by = "none"
  /\ tags' = [tags EXCEPT ![t] = [Untagged EXCEPT !.by = "lent"]]
  /\ UNCHANGED <<comm, pending, alive, hook, sfVars, callVars>>

LentEnds(t) ==
  /\ alive[t] /\ tags[t].by = "lent"
  /\ tags' = [tags EXCEPT ![t] = Untagged]
  /\ UNCHANGED <<comm, pending, alive, hook, sfVars, callVars>>

----------------------------------------------------------------------------
(* task_rename_hook; the kernel writes comm after it.                      *)

\* What sf_targets_init writes, in this order; step 5 is the return.
\* Mutant: the work is scheduled before its target is there.
OrderSwapped == <<"pid", "task", "work", "target">>
Order        == <<"pid", "task", "target", "work">>
Renamed      == Len(Order) + 1
SetTags      == Len(Order) + 2

Posting(t) == hook[t].step \in DOMAIN Order

\* sf_targets_init finds the name in its table.
RenameSf(t, n) ==
  /\ t \in SystemTasks /\ n \in DOMAIN Sf
  /\ hook' = [hook EXCEPT ![t] = [NoHook EXCEPT !.step = 1, !.name = n]]
  /\ matched' = [matched EXCEPT ![n] = @ \cup {t}]
  /\ alone' = IF ~queued /\ work = NoWork /\ ~\E u \in Tasks : Posting(u)
              THEN t ELSE NoTask
  /\ UNCHANGED <<taskVars, entry, slot, queued, work, callVars>>

\* apps_targets_init_tags: a helper is to get its leader's tags, if it has some,
\* but not the request that waits behind them.
Named(l, n) == {i \in DOMAIN Group[l] : n \in {comm[Group[l][i]], hook[Group[l][i]].name}}
RenameHelper(t, n) ==
  /\ t \in Helpers /\ n \in AppNames
  /\ Cardinality(Named(LeaderOf(t), n)) < APPS_TARGETS_SLOTS     \* the bound on an app
  /\ LET row == CHOOSE i \in DOMAIN AppTable : AppTable[i].comm = n
         of  == tags[LeaderOf(t)]
     IN  hook' = [hook EXCEPT ![t] =
           [step |-> IF of.by = "none" THEN Renamed ELSE SetTags, name |-> n,
            tags |-> [of EXCEPT !.cpuL = @ \/ AppTable[row].cpuL]]]
  /\ behind' = IF Calling \/ pending[LeaderOf(t)].by # "none" THEN behind \cup {t} ELSE behind
  /\ UNCHANGED <<taskVars, sfVars, call>>

Rename(t) ==
  /\ alive[t] /\ hook[t] = NoHook /\ comm[t] = "other"
  /\ Cardinality({u \in Tasks : hook[u] # NoHook \/ comm[u] # "other"}) < MaxNames
  /\ \E n \in DOMAIN Sf \cup AppNames : RenameSf(t, n) \/ RenameHelper(t, n)

\* The next write of sf_targets_init.
Post(t) ==
  /\ Posting(t)
  /\ LET what == Order[hook[t].step]
         n    == hook[t].name
     IN  /\ entry' = CASE what = "pid"  -> [entry EXCEPT ![n].pid = PidOf[t]]
                       [] what = "task" -> [entry EXCEPT ![n].task = t]
                       [] OTHER         -> entry
         /\ slot' = IF what = "target" THEN n ELSE slot
         /\ queued' = (queued \/ what = "work")
  /\ hook' = [hook EXCEPT ![t].step = @ + 1]
  /\ UNCHANGED <<taskVars, work, matched, alone, callVars>>

\* set_ux_tags_to_task, from apps_targets_init_tags.
TagHelper(t) ==
  /\ hook[t].step = SetTags
  /\ SetUxTags(t, hook[t].tags)
  /\ hook' = [hook EXCEPT ![t].step = Renamed]
  /\ UNCHANGED <<comm, alive, sfVars, callVars>>

WriteComm(t) ==
  /\ hook[t].step = Renamed
  /\ comm' = [comm EXCEPT ![t] = hook[t].name]
  /\ hook' = [hook EXCEPT ![t] = NoHook]
  /\ UNCHANGED <<tags, pending, alive, sfVars, callVars>>

----------------------------------------------------------------------------
(* ux_targets_work_func.                                                   *)

WorkStart ==
  /\ queued /\ work = NoWork
  /\ queued' = FALSE
  /\ work' = IF slot = "none" THEN NoWork ELSE [NoWork EXCEPT !.step = "find", !.name = slot]
  /\ UNCHANGED <<taskVars, hook, entry, slot, matched, alone, callVars>>

WorkFind ==
  /\ work.step = "find"
  /\ LET found == FindTask(entry[work.name].pid)
     IN  work' = IF found = {} THEN NoWork
                 ELSE [work EXCEPT !.step = "compare", !.task = CHOOSE t \in found : TRUE]
  /\ UNCHANGED <<taskVars, hook, entry, slot, queued, matched, alone, callVars>>

\* Mutant: the pid is all that counts.
SamePid(e, t) == TRUE
SameTask(e, t) == e.task = t

WorkCompare ==
  /\ work.step = "compare"
  /\ work' = IF SameTask(entry[work.name], work.task)
             THEN [work EXCEPT !.step = "set"] ELSE NoWork
  /\ UNCHANGED <<taskVars, hook, entry, slot, queued, matched, alone, callVars>>

\* Written under the run-queue lock, without update_ux_pending.
WorkSet ==
  /\ work.step = "set"
  /\ tags' = [tags EXCEPT ![work.task] = [by |-> Sf[work.name], cpuL |-> FALSE]]
  /\ work' = [work EXCEPT !.step = "clear"]
  /\ UNCHANGED <<comm, pending, alive, hook, entry, slot, queued, matched, alone, callVars>>

WorkClear ==
  /\ work.step = "clear"
  /\ slot' = "none" /\ work' = NoWork
  /\ UNCHANGED <<taskVars, hook, entry, queued, matched, alone, callVars>>

Work == WorkStart \/ WorkFind \/ WorkCompare \/ WorkSet \/ WorkClear

----------------------------------------------------------------------------
(* TRANS_SET_UX_TAGS on a group leader: set_ux_tags_by_pid, then           *)
(* set_ux_target_tags.                                                     *)

Call(l, by) ==
  /\ ~Calling
  /\ SetUxTags(l, [by |-> by, cpuL |-> FALSE])
  /\ call' = [NoCall EXCEPT !.leader = l, !.by = by]
  /\ behind' = behind \cup {t \in Helpers : hook[t] # NoHook}
  /\ UNCHANGED <<comm, alive, hook, sfVars>>

\* update_apps_targets: the first threads of a name in the group, by their places
\* in its list.
OfName(l, n, i) == alive[Group[l][i]] /\ comm[Group[l][i]] = n
\* Mutant: one slot short.
TargetsShort(l, n) ==
  {i \in DOMAIN Group[l] : OfName(l, n, i) /\ ~\E j \in 1..i - 1 : OfName(l, n, j)}
TargetsOf(l, n) ==
  {i \in DOMAIN Group[l] :
     OfName(l, n, i) /\ Cardinality({j \in 1..i - 1 : OfName(l, n, j)}) < APPS_TARGETS_SLOTS}

\* target_tags keeps an affinity it once took.
Collect ==
  /\ Calling /\ call.found = {} /\ call.next <= Len(AppTable)
  /\ LET row == AppTable[call.next]
         ts  == TargetsOf(call.leader, row.comm)
     IN  call' = [call EXCEPT !.next = @ + 1, !.found = ts,
                              !.cpuL = @ \/ (call.by # "none" /\ ts # {} /\ row.cpuL)]
  /\ UNCHANGED <<taskVars, hook, sfVars, behind>>

\* set_ux_tags_by_pid, which finds the task by its pid and compares.
TagTarget ==
  /\ call.found # {}
  /\ LET i == CHOOSE i \in call.found : \A j \in call.found : i <= j
         t == Group[call.leader][i]
     IN  /\ IF t \in FindTask(PidOf[t])
              THEN SetUxTags(t, [by |-> call.by, cpuL |-> call.cpuL])
              ELSE UNCHANGED <<tags, pending>>
         /\ call' = [call EXCEPT !.found = @ \ {i}]
  /\ UNCHANGED <<comm, alive, hook, sfVars, behind>>

Return ==
  /\ Calling /\ call.found = {} /\ call.next > Len(AppTable)
  /\ call' = NoCall
  /\ UNCHANGED <<taskVars, hook, sfVars, behind>>

----------------------------------------------------------------------------
(* Threads come and go.                                                    *)

Exit(t) ==
  /\ alive[t] /\ hook[t] = NoHook /\ t \notin Leaders
  /\ Cardinality({u \in Tasks \ Unborn : ~alive[u]}) < MaxExits
  /\ alive' = [alive EXCEPT ![t] = FALSE]
  /\ alone' = IF alone = t THEN NoTask ELSE alone
  /\ UNCHANGED <<comm, tags, pending, hook, entry, slot, queued, work, matched, callVars>>

\* A task that was named is not born again.
Born(t) ==
  /\ t \in Unborn /\ ~alive[t] /\ comm[t] = "other" /\ FindTask(PidOf[t]) = {} /\ tags[t] = Untagged
  /\ alive' = [alive EXCEPT ![t] = TRUE]
  /\ UNCHANGED <<comm, tags, pending, hook, sfVars, callVars>>

TaskStep(t) == Post(t) \/ TagHelper(t) \/ WriteComm(t)

Next ==
  \/ Event /\ \E t \in Tasks : Rename(t) \/ Exit(t) \/ Lend(t)
  \/ Event /\ \E l \in Leaders, by \in Requests \cup {"none"} : Call(l, by)
  \/ UNCHANGED events /\ \E t \in Tasks : TaskStep(t) \/ Born(t) \/ LentEnds(t)
  \/ UNCHANGED events /\ (Work \/ Collect \/ TagTarget \/ Return)

Spec == Init /\ [][Next]_vars

\* A rename hook and a work item, once started, go on: nothing in them waits.
FairSpec == /\ Spec
            /\ WF_vars(UNCHANGED events /\ Work)
            /\ \A t \in Tasks : WF_vars(UNCHANGED events /\ TaskStep(t))

----------------------------------------------------------------------------
(* Properties.                                                             *)

\* A work item finds its target by pid, some time after the rename: it never tags a
\* thread that was not renamed to a name the tags are for.
TagsWhereNamed ==
  \A t \in Tasks : tags[t].by \in {Sf[n] : n \in DOMAIN Sf} =>
    \E n \in DOMAIN Sf : tags[t].by = Sf[n] /\ t \in matched[n]

Own(w) == IF w.by = "lent" THEN "none" ELSE w.by

\* The helpers of an app have their leader's tags, inherited ones apart, and the
\* same request waits behind them, in whatever order they were named, requests of
\* any priority were stacked and cancelled, and tags were inherited.  A helper that
\* was named while a request of its leader waited, or an ioctl ran, falls behind.
HelpersFollow ==
  ~Calling =>
    \A l \in Leaders : \A t \in ToSet(Group[l]) \ behind :
      alive[t] /\ hook[t] = NoHook /\ comm[t] \in AppNames =>
        Own(tags[t]) = Own(tags[l]) /\ pending[t].by = pending[l].by

\* A target posted while no other is gets its tags, unless it exits or another is
\* posted meanwhile.
TargetIsTagged == (alone # NoTask) ~> (alone = NoTask \/ tags[alone].by # "none")

=============================================================================

------------------------------ MODULE UxShare ------------------------------
(***************************************************************************)
(* Inheritance of UX tags.  When a UX task waits for a mutex, an rwsem or  *)
(* a binder reply, hooks in the waiter's context lend its tags to the task *)
(* it waits for; other hooks take them back.  The hooks read the tasks     *)
(* without a lock and only the last step (set_ux_share, unset_ux_share,    *)
(* update_ux_share_hold) runs under task_rq_lock, so everything they read  *)
(* may be stale by then.  A hook invocation is a context h \in Ctx whose   *)
(* local variables are op[h]; each unlocked read is a step of its own.     *)
(***************************************************************************)
EXTENDS UxSched

CONSTANTS
  Ctx,          \* contexts in which hooks run at the same time
  Kinds,        \* the share types whose hooks run in this instance
  LockSlices,   \* run slices a lock route lends
  DefaultTags,  \* UX_TASK_TAGS_DEFAULT
  FutexTags,    \* UX_TASK_TAGS_FUTEX with the slice of a futex owner
  LaunchSlice,  \* UX_TASK_SLICE7, lent by a main thread during launch
  Targets,      \* surfaceflinger and overlay-engine tasks
  SfSenders,    \* targets that send async binder work
  Leaders,      \* process leaders (binder_proc->tsk) of receivers, all of them apps
  Loopers,      \* leader -> the binder threads of its process
  AppSlice,     \* UX_TASK_SLICE1, lent with async work of a marked sender
  Waiters       \* tasks that wait for others in this instance

ASSUME KindsAssumption == Kinds \subseteq ShareTypes
ASSUME PartiesAssumption == Waiters \subseteq Tasks /\ Leaders \subseteq Tasks
ASSUME LoopersAssumption == Loopers \in [Leaders -> (SUBSET Tasks) \ {{}}]
ASSUME LentAssumption == /\ LockSlices \subseteq Slices /\ {LaunchSlice, AppSlice} \subseteq Slices
                         /\ DefaultTags \in Tags /\ FutexTags \in Tags
                         /\ DefaultTags.share = {} /\ FutexTags.share = {}

VARIABLES
  op,           \* by context: the hook in progress and its local variables
  saw           \* by context: its hook found tags of its own on the task it turned to
vars == <<schedVars, op, saw>>

Steps == {"idle", "tags", "leader", "share", "walk", "apply", "hold", "unset"}
Op == [pc : Steps, kind : ShareTypes, from : Tasks \union {Idle},
       to : Tasks \union {Idle}, tags : Tags, share : Shares,
       slice : Slices, boost : BOOLEAN, todo : SUBSET Tasks]
NoOp == [pc |-> "idle", kind |-> "BINDER", from |-> Idle, to |-> Idle,
         tags |-> NoTags, share |-> NoShare, slice |-> 0, boost |-> FALSE,
         todo |-> {}]

ShareTypeOK == TypeOK /\ op \in [Ctx -> Op] /\ saw \in [Ctx -> BOOLEAN]

ShareInit == Init /\ op = [h \in Ctx |-> NoOp] /\ saw = [h \in Ctx |-> FALSE]

Sharing == {"DEFAULT", "UX_SHARE"} \subseteq features

\* A hook starts, goes on to its next step, or gives up.
Begin(h, step) == op[h] = NoOp /\ op' = [op EXCEPT ![h] = step] /\ UNCHANGED schedVars
GoOn(h, step)  == op' = [op EXCEPT ![h] = step] /\ UNCHANGED schedVars
GiveUp(h)      == GoOn(h, NoOp)

\* What is lent is known; it goes to the one receiver, or to all threads in turn.
Ready(o, g, s) ==
  [NoOp EXCEPT !.pc = IF o.todo = {} THEN "apply" ELSE "walk", !.kind = o.kind,
               !.to = o.to, !.tags = g, !.share = s, !.todo = o.todo]

----------------------------------------------------------------------------
(* The first, unlocked look at both tasks.                                 *)

\* mutex_set_ux_share and rwsem_set_ux_share: a UX waiter, or a target with a
\* real-time class, lends to an owner that has no tags.
\* Mutant: the owner's tags are not looked at.
LockOfferToAny(h, k, from, to, s) ==
  LET step == [NoOp EXCEPT !.kind = k, !.from = from, !.to = to, !.slice = s]
  IN /\ Sharing /\ from # to /\ Alive(from) /\ Alive(to) /\ IsUxTask(from)
     /\ Begin(h, [step EXCEPT !.pc = "tags"])
LockOffer(h, k, from, to, s) ==
  LET step == [NoOp EXCEPT !.kind = k, !.from = from, !.to = to, !.slice = s]
  IN /\ Sharing /\ from # to /\ Alive(from) /\ Alive(to) /\ to \notin Targets
     /\ UxState(to) = "NO_TAG"
     /\ \/ IsUxTask(from) /\ Begin(h, [step EXCEPT !.pc = "tags"])
        \/ /\ ~IsUxTask(from) /\ se[from].rt /\ from \in Targets
           /\ Begin(h, Ready(step, ChangeSlice(InitDprio(DefaultTags), s), NoShare))

\* binder_set_ux_share with a sender.  A receiver that is UX already only has
\* its hold raised, unless the hook runs when the receiver picks the work up.
BinderHold(h, from, to) ==
  /\ Sharing /\ from # to /\ Alive(from) /\ Alive(to)
  /\ IsUxTask(from) \/ se[from].rt
  /\ IsUxTask(to) /\ CheckShareType(ts[to].tags, "BINDER")
  /\ Begin(h, [NoOp EXCEPT !.pc = "hold", !.to = to])

BinderOffer(h, from, to, sync) ==
  /\ Sharing /\ from # to /\ Alive(from) /\ Alive(to) /\ to \notin Targets
  /\ IsUxTask(from)
  /\ \/ UxState(to) = "NO_TAG"
     \/ UxState(to) = "NOT_FAIR" /\ ~CheckTagsOk(ts[to].tags)
  /\ Begin(h, [NoOp EXCEPT !.pc = "tags", !.from = from, !.to = to,
                           !.boost = sync /\ from \in Mains])

\* set_uxbinder_transaction: which async work is UX work.  A thread is a sender of
\* surfaceflinger's by its name, which may change; others carry the mark.
AsyncWork(from, proc, sf) ==
  IF sf THEN from \in SfSenders /\ IsUxTask(proc)
        ELSE "ABINDER" \in ts[from].tags.flags

\* UX work that no thread waits for yet: abinder_set_threads_ux_share offers the
\* tags of the receivers' leader, or of the sender, to all threads of the process.
AsyncOffer(h, from, proc, sf) ==
  /\ Sharing /\ Alive(from) /\ Alive(proc)
  /\ AsyncWork(from, proc, sf)
  /\ Begin(h, [NoOp EXCEPT !.pc = IF sf THEN "leader" ELSE "tags",
                           !.from = IF sf THEN proc ELSE from,
                           !.slice = IF sf THEN 0 ELSE AppSlice, !.todo = Loopers[proc]])

\* A real-time sender has no tags to lend: the receiver gets the default tags,
\* or for async work of a marked sender those of its own process leader.
BinderRtOffer(h, from, to, proc, sync) ==
  LET own == ~sync /\ "ABINDER" \in ts[from].tags.flags
      ok  == CheckTagsOk(ts[proc].tags)
      g   == IF own /\ ok THEN ts[proc].tags ELSE InitDprio(DefaultTags)
  IN /\ Sharing /\ from # to /\ Alive(from) /\ Alive(to) /\ to \notin Targets
     /\ se[from].rt /\ UxState(to) = "NO_TAG"
     /\ ~(own /\ ~ok /\ from \in SfSenders)
     /\ Begin(h, [NoOp EXCEPT !.pc = "apply", !.to = to,
          !.tags = ClearFlag(IF own /\ from \in SfSenders THEN RaiseDprio(g) ELSE g,
                             "ABINDER")])

\* binder_set_ux_share without a sender: async work was received.
BinderReceived(h, to, proc) ==
  LET g == IF CheckTagsOk(ts[proc].tags) THEN ts[proc].tags ELSE InitDprio(DefaultTags)
  IN /\ Sharing /\ Alive(to) /\ to \notin Targets
     /\ UxState(to) = "NO_TAG"
     /\ Begin(h, [NoOp EXCEPT !.pc = "apply", !.to = to, !.tags = ClearFlag(g, "ABINDER")])

\* futex_set_ux_share: userland names the owner of a futex.  Any class will do.
FutexOffer(h, to) ==
  /\ "DEFAULT" \in features /\ Alive(to) /\ to \notin Targets
  /\ \/ /\ IsUxTask(to) /\ CheckShareType(ts[to].tags, "FUTEX")
        /\ Begin(h, [NoOp EXCEPT !.pc = "hold", !.kind = "FUTEX", !.to = to])
     \/ /\ UxState(to) \in {"NO_TAG", "NOT_FAIR"}
        /\ Begin(h, [NoOp EXCEPT !.pc = "apply", !.kind = "FUTEX", !.to = to,
                                 !.tags = RaiseDprio(InitDprio(FutexTags))])

----------------------------------------------------------------------------
(* The unlocked reads of what is lent.                                     *)

Boosted(h, g) ==
  IF "LAUNCH" \in scene /\ op[h].boost
    THEN IF g.dprio = DprioBase THEN RaiseDprio(ChangeSlice(g, LaunchSlice))
                                ELSE ChangeSlice(g, LaunchSlice)
    ELSE g

\* The tags as the receiver will get them: a lock route sets its slice, as does
\* async work; the binder route may boost a launch and drops the async mark.
Lent(h, g) ==
  LET sliced == IF op[h].kind = "BINDER" /\ op[h].todo = {} THEN Boosted(h, g)
                ELSE ChangeSlice(g, op[h].slice)
  IN  IF op[h].kind = "BINDER" THEN ClearFlag(sliced, "ABINDER") ELSE sliced

\* Tags of one's own are lent as they are, inherited tags only along a chain
\* of one type, but a lock may cut off the chain of a binder share.
ReadTags(h) ==
  LET o == op[h]
      g == ts[o.from].tags
      Lend(w) == GoOn(h, Ready(o, Lent(h, w), NoShare))
  IN /\ o.pc = "tags"
     /\ IF o.todo # {} /\ ~CheckTagsOk(g) THEN GiveUp(h)
        ELSE IF g.share = {} THEN Lend(g)
        ELSE IF CheckShareType(g, o.kind)
               THEN GoOn(h, [o EXCEPT !.pc = "share", !.tags = Lent(h, g)])
        ELSE IF o.kind # "BINDER" /\ CheckShareType(g, "BINDER") THEN Lend(IgnoreShare(g))
        ELSE GiveUp(h)

\* The tags of the leader, its share bits included, without its share word.
ReadLeader(h) ==
  LET o == op[h]
      g == ts[o.from].tags
  IN /\ o.pc = "leader"
     /\ IF CheckTagsOk(g)
          THEN GoOn(h, Ready(o, ClearFlag(ChangeSlice(RaiseDprio(g), o.slice), "ABINDER"), NoShare))
          ELSE GiveUp(h)

\* g_ux_share_limit ends the chain.
\* Mutant: off by one.
ChainEndsLate(s, k) == s.nr[k] > ShareLimit[k]
ChainEnds(s, k)     == s.nr[k] >= ShareLimit[k]

ReadShare(h) ==
  LET o == op[h]
      s == ts[o.from].share
  IN /\ o.pc = "share"
     /\ IF ChainEnds(s, o.kind)
          THEN GiveUp(h)
          ELSE GoOn(h, Ready(o, o.tags, s))

\* The walk goes on to the threads that are left, or ends.
WalkOn(o, rest) ==
  IF rest = {} THEN NoOp ELSE [o EXCEPT !.pc = "walk", !.to = Idle, !.todo = rest]

\* The next thread of the process: one that has no tags gets them.
WalkThreads(h) ==
  LET o == op[h] IN
  /\ o.pc = "walk"
  /\ \E t \in o.todo :
       IF Alive(t) /\ t \notin Targets /\ UxState(t) = "NO_TAG"
         THEN GoOn(h, [o EXCEPT !.pc = "apply", !.to = t, !.todo = @ \ {t}])
         ELSE GoOn(h, WalkOn(o, o.todo \ {t}))

----------------------------------------------------------------------------
(* The locked steps.                                                       *)

\* set_ux_share does not look again at the tags it overwrites.
SetUxShare(h) ==
  LET o == op[h]
      t == o.to
      y == InitTask(ts[t])
  IN /\ o.pc = "apply" /\ Lockable(t)
     /\ ts' = [ts EXCEPT ![t] =
          [y EXCEPT !.tags = IncShareTags(ClearFlag(o.tags, "ONESHOT"), o.share, o.kind),
                    !.share = IncShare(o.share, o.kind), !.period = 0]]
     /\ LinkIf(TRUE, t, ts')
     /\ op' = [op EXCEPT ![h] = WalkOn(o, o.todo)]
     /\ UNCHANGED <<se, curr, features, scene, kwin>>

\* update_ux_share_hold looks again under the lock.
UpdateUxShareHold(h) ==
  LET o == op[h]
      t == o.to
  IN /\ o.pc = "hold" /\ Lockable(t)
     /\ IF IsUxTask(t) /\ CheckShareType(ts[t].tags, o.kind)
          THEN ts' = [ts EXCEPT ![t].tags = ClearFlag(@, "ONESHOT"),
                                ![t].share = IncHold(@, o.kind)]
          ELSE UNCHANGED ts
     /\ op' = [op EXCEPT ![h] = NoOp]
     /\ UNCHANGED <<se, ux_list, refs, curr, features, scene, kwin>>

\* mutex_, rwsem_, binder_ and futex_unset_ux_share: the unlocked checks.
UnsetBegin(h, k, t) ==
  /\ Alive(t)
  /\ ts[t].share.nr[k] # 0 /\ ts[t].magic /\ "ONESHOT" \notin ts[t].tags.flags
  /\ Begin(h, [NoOp EXCEPT !.pc = "unset", !.kind = k, !.to = t])

\* unset_ux_share: the last holder takes the tags away; a binder share of a
\* listed task stays for one more run.
UnsetUxShare(h) ==
  LET o == op[h]
      t == o.to
      x == ts[t]
      g == DecShareTags(x.tags, x.share, o.kind)
  IN /\ o.pc = "unset" /\ Lockable(t)
     /\ \/ /\ x.tags = NoTags /\ x.share = NoShare
           /\ UNCHANGED <<ts, ux_list, refs>>
        \/ /\ ~(x.tags = NoTags /\ x.share = NoShare)
           /\ CheckShareType(g, o.kind)
           /\ ts' = [ts EXCEPT ![t].tags = g, ![t].share = DecShare(@, o.kind)]
           /\ UNCHANGED <<ux_list, refs>>
        \/ /\ ~(x.tags = NoTags /\ x.share = NoShare)
           /\ ~CheckShareType(g, o.kind) /\ OnUxList(t) /\ o.kind = "BINDER"
           /\ ts' = [ts EXCEPT ![t].tags = SetFlag(@, "ONESHOT")]
           /\ UNCHANGED <<ux_list, refs>>
        \/ /\ ~(x.tags = NoTags /\ x.share = NoShare)
           /\ ~CheckShareType(g, o.kind) /\ ~(OnUxList(t) /\ o.kind = "BINDER")
           /\ ts' = [ts EXCEPT ![t] = ClearTags(x)]
           /\ IF OnUxList(t) THEN Unlink(t) ELSE UNCHANGED <<ux_list, refs>>
     /\ op' = [op EXCEPT ![h] = NoOp]
     /\ UNCHANGED <<se, curr, features, scene, kwin>>

----------------------------------------------------------------------------

\* android_vh_binder_proc_transaction_finish_hook and android_vh_sync_txn_recvd_hook.
Transaction(h, from, to, proc) ==
  \/ BinderHold(h, from, to)
  \/ BinderOffer(h, from, to, TRUE)
  \/ BinderRtOffer(h, from, to, proc, TRUE)
  \/ \E sf \in BOOLEAN :
       /\ AsyncWork(from, proc, sf)
       /\ BinderOffer(h, from, to, FALSE) \/ BinderRtOffer(h, from, to, proc, FALSE)

Hook(h) ==
  \/ \E from \in Waiters, to \in Tasks :
       \/ \E k \in Kinds \ {"BINDER", "FUTEX"}, s \in LockSlices : LockOffer(h, k, from, to, s)
       \/ "BINDER" \in Kinds /\ \E proc \in Leaders : Transaction(h, from, to, proc)
  \/ \E to \in Tasks :
       \/ "FUTEX" \in Kinds /\ FutexOffer(h, to)
       \/ "BINDER" \in Kinds /\ \E proc \in Leaders : BinderReceived(h, to, proc)
  \/ /\ "BINDER" \in Kinds
     /\ \E from \in Waiters, proc \in Leaders, sf \in BOOLEAN : AsyncOffer(h, from, proc, sf)
  \/ \E k \in Kinds, t \in Tasks : UnsetBegin(h, k, t)
  \/ ReadTags(h) \/ ReadLeader(h) \/ ReadShare(h) \/ WalkThreads(h)
  \/ SetUxShare(h) \/ UpdateUxShareHold(h) \/ UnsetUxShare(h)

\* A hook holds references to the tasks it works on.
InUse(t) == \E h \in Ctx : t \in {op[h].from, op[h].to}

\* What a hook sees of the task it turns to; only StaticKept asks for it.
StaticTags(t) == CheckTagsOk(ts[t].tags) /\ ts[t].tags.share = {}
Sees ==
  saw' = [h \in Ctx |->
    /\ op'[h].to # Idle
    /\ IF op'[h].to = op[h].to THEN saw[h] ELSE StaticTags(op'[h].to)]

ShareNext ==
  \/ /\ Next /\ UNCHANGED <<op, saw>>
     /\ \A t \in Tasks : InUse(t) /\ se[t].life # "free" => se'[t].life # "free"
  \/ (\E h \in Ctx : Hook(h)) /\ Sees

ShareSpec == ShareInit /\ [][ShareNext]_vars

----------------------------------------------------------------------------
(* Correctness.                                                            *)

\* Inheritance chains are bounded whatever hooks of other contexts and requests
\* from userland do between the unlocked limit check and the locked update.
ShareBounded ==
  \A t \in Tasks, k \in ShareTypes : ts[t].share.nr[k] <= ShareLimit[k]

\* The share word and the share bits of the tags appear and disappear together:
\* a share that lost its bits could never be given back, and bits without a
\* count would never leave the task.
ShareMatchesTags ==
  \A t \in Tasks :
    IF ts[t].tags.share = {} THEN ts[t].share = NoShare
    ELSE /\ ts[t].share.hold > 0
         /\ \E k \in ts[t].tags.share : ts[t].share.nr[k] > 0

\* Tags that userland gave to a live task are lost only to userland and to a hook
\* that saw the task without them, when it turned to it: no timeout, sleep,
\* migration or class change takes them away, and no hook overwrites or clears what
\* it saw.  Only a futex hook takes over the tags of a task that is not fair.
StaticKept ==
  [][\A t \in Tasks :
       StaticTags(t) /\ ~StaticTags(t)' /\ Alive(t) =>
         \/ \E req \in Requests : SetUxTags(t, req)
         \/ \E h \in Ctx : /\ op[h].to = t /\ op[h].pc \in {"apply", "unset"}
                           /\ saw[h] => op[h].kind = "FUTEX" /\ op[h].pc = "apply"]_vars

=============================================================================

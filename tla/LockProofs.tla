----------------------------- MODULE LockProofs -----------------------------
(***************************************************************************)
(* Proofs about the two parts of the lock protection, for any tasks, CPUs, *)
(* lock types in use, limit and bounds.                                    *)
(*                                                                         *)
(* LockInfo: types, the two facts the timeout rests on, the upper bound of *)
(* the counts, and that LockInfo implements LockProtect.                   *)
(*                                                                         *)
(* LockQueue: the enable flag needs only the count.  That counts, lists,   *)
(* references and remembered run queues agree (QueueInv) needs to know     *)
(* besides that a listed task is queued on the CPU whose list it is on: it *)
(* is what makes list_del_init and dec_task_count work on the same CPU.    *)
(***************************************************************************)
EXTENDS LockInfo, LockQueue, ListFacts

IInv == TypeOK /\ StartWhileCounted /\ TotalAtMostSum

----------------------------------------------------------------------------
(* The hooks.                                                              *)

Bounded(depth) ==
  depth["total"] <= depth["mutex"] + depth["rtmutex"] + depth["rwsem"]

\* What every hook keeps: a well-typed record in which every counted lock has a
\* start and the total is at most the sum.
Sound(i) ==
  /\ i \in TaskLockInfo
  /\ \A l \in Locks : i.depth[l] # 0 => i.start[l] # "none"
  /\ Bounded(i.depth)

\* A forgotten record is sound (the memset of lockinfo).
LEMMA NoLocksSound == Sound(NoLocks) /\ NoLocks.ops = "none" /\ Prot(NoLocks) = "none"
BY DEF Sound, Bounded, Prot, NoLocks, TaskLockInfo, LockTypes, Locks, Stamps, Waits

\* What the parts of a record are, field by field.
LEMMA RecordParts ==
  ASSUME NEW i \in TaskLockInfo
  PROVE  /\ i = [depth |-> i.depth, start |-> i.start, dstart |-> i.dstart, ops |-> i.ops]
         /\ i.depth \in [Locks -> Nat] /\ i.start \in [Locks -> Stamps]
         /\ i.dstart \in [LockTypes -> Waits] /\ i.ops \in LockTypes \union {"none"}
BY DEF TaskLockInfo

\* Stamping touches the named records only and keeps the type.
LEMMA StampFacts ==
  ASSUME NEW start \in [Locks -> Stamps], NEW ls
  PROVE  /\ Stamp(start, ls) \in [Locks -> Stamps]
         /\ \A l \in Locks : Stamp(start, ls)[l] = IF l \in ls THEN "now" ELSE start[l]
BY DEF Stamp, Stamps

\* Counting up adds one to the lock and to the total.
LEMMA IncFacts ==
  ASSUME NEW depth \in [Locks -> Nat], NEW k \in LockTypes
  PROVE  /\ IncDepth(depth, k) \in [Locks -> Nat]
         /\ \A l \in Locks :
              IncDepth(depth, k)[l] = IF l \in Own(k) THEN depth[l] + 1 ELSE depth[l]
BY DEF IncDepth

\* Counting down takes at most one, from the lock and from the total.
LEMMA DecFacts ==
  ASSUME NEW depth \in [Locks -> Nat], NEW k \in LockTypes
  PROVE  /\ DecDepth(depth, k) \in [Locks -> Nat]
         /\ \A l \in Locks : DecDepth(depth, k)[l] =
              IF l \in Own(k) /\ depth[l] > 0 THEN depth[l] - 1 ELSE depth[l]
BY DEF DecDepth

\* Counting up keeps the total at most the sum ...
LEMMA IncBounded ==
  ASSUME NEW depth \in [Locks -> Nat], NEW k \in LockTypes, Bounded(depth)
  PROVE  Bounded(IncDepth(depth, k))
<1> DEFINE d == IncDepth(depth, k)
<1>1. \A l \in Locks : d[l] = IF l \in Own(k) THEN depth[l] + 1 ELSE depth[l]
  BY IncFacts
<1> HIDE DEF d
<1>2. /\ d["total"] = depth["total"] + 1
      /\ \A l \in LockTypes : d[l] = IF l = k THEN depth[l] + 1 ELSE depth[l]
  BY <1>1 DEF Own, Locks, LockTypes
<1>3. \A l \in Locks : depth[l] \in Nat
  OBVIOUS
<1>4. Bounded(d)
  BY <1>2, <1>3 DEF Bounded, Locks, LockTypes
<1> QED BY <1>4 DEF d

\* ... and so does counting down, with each counter saturating on its own.
LEMMA DecBounded ==
  ASSUME NEW depth \in [Locks -> Nat], NEW k \in LockTypes, Bounded(depth)
  PROVE  Bounded(DecDepth(depth, k))
<1> DEFINE d == DecDepth(depth, k)
<1>1. \A l \in Locks :
        d[l] = IF l \in Own(k) /\ depth[l] > 0 THEN depth[l] - 1 ELSE depth[l]
  BY DecFacts
<1> HIDE DEF d
<1>2. /\ d["total"] = IF depth["total"] > 0 THEN depth["total"] - 1 ELSE depth["total"]
      /\ \A l \in LockTypes :
           d[l] = IF l = k /\ depth[l] > 0 THEN depth[l] - 1 ELSE depth[l]
  BY <1>1 DEF Own, Locks, LockTypes
<1>3. \A l \in Locks : depth[l] \in Nat
  OBVIOUS
<1>4. Bounded(d)
  BY <1>2, <1>3 DEF Bounded, Locks, LockTypes
<1> QED BY <1>4 DEF d

\* record_lock_starttime with a time: after a wait it refreshes, else it counts.
AcquireKeeps(i, k, r) ==
  /\ Sound(r) /\ r.ops = "none"
  /\ i.ops # "none" => /\ r.depth = i.depth
                       /\ Prot(r) = IF Prot(i) = "none" THEN "none" ELSE "fresh"
  /\ i.ops = "none" => /\ r.depth = IncDepth(i.depth, k)
                       /\ Prot(r) = IF Prot(i) = "none" THEN "fresh" ELSE Prot(i)

\* A lock that is taken keeps the record sound; only after a wait does protection
\* start again.
LEMMA AcquireStep ==
  ASSUME NEW i, Sound(i), NEW k \in LockTypes
  PROVE  AcquireKeeps(i, k, RecordAcquire(i, k))
<1> DEFINE r == RecordAcquire(i, k)
           own == Stamp(i.start, Own(k))
           new == Stamp(i.start, NotCounted(i, k))
           dep == IncDepth(i.depth, k)
<1>1. i \in TaskLockInfo /\ Bounded(i.depth)
      /\ \A l \in Locks : i.depth[l] # 0 => i.start[l] # "none"
  BY DEF Sound, Bounded
<1>2. /\ i.depth \in [Locks -> Nat] /\ i.start \in [Locks -> Stamps]
      /\ i.dstart \in [LockTypes -> Waits] /\ i.ops \in LockTypes \union {"none"}
  BY <1>1, RecordParts
<1>3. /\ own \in [Locks -> Stamps]
      /\ \A l \in Locks : own[l] = IF l \in Own(k) THEN "now" ELSE i.start[l]
  BY <1>2, StampFacts
<1>4. /\ new \in [Locks -> Stamps]
      /\ \A l \in Locks : new[l] = IF l \in NotCounted(i, k) THEN "now" ELSE i.start[l]
  BY <1>2, StampFacts
<1>5. /\ dep \in [Locks -> Nat] /\ Bounded(dep)
      /\ \A l \in Locks : dep[l] = IF l \in Own(k) THEN i.depth[l] + 1 ELSE i.depth[l]
  BY <1>1, <1>2, IncFacts, IncBounded
<1>6. r = IF i.ops # "none" THEN [i EXCEPT !.start = own, !.ops = "none"]
                            ELSE [i EXCEPT !.start = new, !.depth = dep]
  BY DEF RecordAcquire
<1> SUFFICES AcquireKeeps(i, k, r)
  OBVIOUS
<1> HIDE DEF r, own, new, dep
<1>7. r \in TaskLockInfo
  BY <1>1, <1>3, <1>4, <1>5, <1>6 DEF TaskLockInfo
<1>8. CASE i.ops # "none"
  <2>1. r.depth = i.depth /\ r.start = own /\ r.ops = "none"
    BY <1>1, <1>6, <1>8 DEF TaskLockInfo
  <2>2. \A l \in Locks : r.depth[l] # 0 => r.start[l] # "none"
    BY <2>1, <1>1, <1>3
  <2>3. Prot(r) = IF Prot(i) = "none" THEN "none" ELSE "fresh"
    BY <2>1, <1>3 DEF Prot, Locks, Own
  <2>4. QED BY <2>1, <2>2, <2>3, <1>1, <1>7, <1>8 DEF AcquireKeeps, Sound
<1>9. CASE i.ops = "none"
  <2>1. r.depth = dep /\ r.start = new /\ r.ops = "none"
    BY <1>1, <1>6, <1>9 DEF TaskLockInfo
  <2>2. \A l \in Locks : dep[l] # 0 => new[l] # "none"
    BY <1>1, <1>2, <1>4, <1>5 DEF NotCounted
  <2>3. Prot(r) = IF Prot(i) = "none" THEN "fresh" ELSE Prot(i)
    <3>1. "total" \in Locks /\ "total" \in Own(k)
      BY DEF Locks, Own
    <3>2. dep["total"] = i.depth["total"] + 1 /\ i.depth["total"] \in Nat
      BY <3>1, <1>2, <1>5
    <3>3. new["total"] = IF i.depth["total"] = 0 THEN "now" ELSE i.start["total"]
      BY <3>1, <1>4 DEF NotCounted
    <3>4. QED BY <2>1, <3>2, <3>3 DEF Prot
  <2>4. Sound(r)
    BY <2>1, <2>2, <1>5, <1>7 DEF Sound
  <2>5. QED BY <2>1, <2>3, <2>4, <1>9 DEF AcquireKeeps, dep
<1>10. QED BY <1>2, <1>8, <1>9

\* record_lock_starttime without a time: protection ends or stays as it is.
ReleaseKeeps(i, k, r) ==
  /\ Sound(r) /\ r.ops = i.ops
  /\ r.depth = DecDepth(i.depth, k)
  /\ Prot(r) \in {Prot(i), "none"}

\* A release keeps the record sound and never adds protection.
LEMMA ReleaseStep ==
  ASSUME NEW i, Sound(i), NEW k \in LockTypes
  PROVE  ReleaseKeeps(i, k, RecordRelease(i, k))
<1> DEFINE r == RecordRelease(i, k)
           dep == DecDepth(i.depth, k)
           st == [l \in Locks |-> IF l \in Own(k) /\ dep[l] = 0 THEN "none" ELSE i.start[l]]
<1>1. i \in TaskLockInfo /\ Bounded(i.depth)
      /\ \A l \in Locks : i.depth[l] # 0 => i.start[l] # "none"
  BY DEF Sound, Bounded
<1>2. /\ i.depth \in [Locks -> Nat] /\ i.start \in [Locks -> Stamps]
      /\ i.dstart \in [LockTypes -> Waits] /\ i.ops \in LockTypes \union {"none"}
  BY <1>1, RecordParts
<1>3. /\ dep \in [Locks -> Nat] /\ Bounded(dep)
      /\ \A l \in Locks : dep[l] =
           IF l \in Own(k) /\ i.depth[l] > 0 THEN i.depth[l] - 1 ELSE i.depth[l]
  BY <1>1, <1>2, DecFacts, DecBounded
<1>4. r = [i EXCEPT !.depth = dep, !.start = st]
  BY DEF RecordRelease
<1> SUFFICES ReleaseKeeps(i, k, r)
  OBVIOUS
<1> HIDE DEF r, dep
<1>5. /\ st \in [Locks -> Stamps]
      /\ \A l \in Locks : st[l] = IF l \in Own(k) /\ dep[l] = 0 THEN "none" ELSE i.start[l]
  BY <1>2 DEF Stamps
<1> HIDE DEF st
<1>6. r \in TaskLockInfo /\ r.depth = dep /\ r.start = st /\ r.ops = i.ops
  BY <1>1, <1>3, <1>4, <1>5 DEF TaskLockInfo
<1>7. \A l \in Locks : dep[l] # 0 => st[l] # "none"
  BY <1>1, <1>2, <1>3, <1>5
<1>8. Prot(r) \in {Prot(i), "none"}
  BY <1>2, <1>3, <1>5, <1>6 DEF Prot, Locks
<1>9. QED BY <1>3, <1>6, <1>7, <1>8 DEF ReleaseKeeps, Sound, dep

\* lock_wait_start: the lock counts from now on, or only the mark is set.
WaitKeeps(i, k, r) ==
  /\ Sound(r) /\ r.ops = k
  /\ r.depth \in {i.depth, IncDepth(i.depth, k)}
  /\ Prot(r) = Prot(i) \/ (Prot(i) = "none" /\ Prot(r) = "fresh")

\* A wait that begins keeps the record sound; at most it starts protection.
LEMMA WaitStep ==
  ASSUME NEW i, Sound(i), NEW k \in LockTypes
  PROVE  WaitKeeps(i, k, LockWaitStart(i, k))
<1> DEFINE r == LockWaitStart(i, k)
           new == Stamp(i.start, NotCounted(i, k))
           dep == IncDepth(i.depth, k)
<1>1. i \in TaskLockInfo /\ Bounded(i.depth)
      /\ \A l \in Locks : i.depth[l] # 0 => i.start[l] # "none"
  BY DEF Sound, Bounded
<1>2. /\ i.depth \in [Locks -> Nat] /\ i.start \in [Locks -> Stamps]
      /\ i.dstart \in [LockTypes -> Waits] /\ i.ops \in LockTypes \union {"none"}
  BY <1>1, RecordParts
<1>3. /\ new \in [Locks -> Stamps]
      /\ \A l \in Locks : new[l] = IF l \in NotCounted(i, k) THEN "now" ELSE i.start[l]
  BY <1>2, StampFacts
<1>4. /\ dep \in [Locks -> Nat] /\ Bounded(dep)
      /\ \A l \in Locks : dep[l] = IF l \in Own(k) THEN i.depth[l] + 1 ELSE i.depth[l]
  BY <1>1, <1>2, IncFacts, IncBounded
<1>5. r = IF i.dstart[k] # "none" THEN [i EXCEPT !.ops = k]
          ELSE [i EXCEPT !.dstart[k] = "short", !.start = new, !.depth = dep, !.ops = k]
  BY DEF LockWaitStart
<1> SUFFICES WaitKeeps(i, k, r)
  OBVIOUS
<1> HIDE DEF r, new, dep
<1>6. CASE i.dstart[k] # "none"
  <2>1. r \in TaskLockInfo /\ r.depth = i.depth /\ r.start = i.start /\ r.ops = k
    BY <1>1, <1>5, <1>6 DEF TaskLockInfo
  <2>2. Prot(r) = Prot(i)
    BY <2>1 DEF Prot
  <2>3. QED BY <2>1, <2>2, <1>1 DEF WaitKeeps, Sound
<1>7. CASE i.dstart[k] = "none"
  <2>1. [i.dstart EXCEPT ![k] = "short"] \in [LockTypes -> Waits]
    BY <1>2 DEF Waits
  <2>2. r = [i EXCEPT !.dstart = [i.dstart EXCEPT ![k] = "short"],
                      !.start = new, !.depth = dep, !.ops = k]
    BY <1>1, <1>5, <1>7 DEF TaskLockInfo
  <2>3. r \in TaskLockInfo /\ r.depth = dep /\ r.start = new /\ r.ops = k
    BY <1>1, <1>3, <1>4, <2>1, <2>2 DEF TaskLockInfo
  <2>4. \A l \in Locks : dep[l] # 0 => new[l] # "none"
    BY <1>1, <1>2, <1>3, <1>4 DEF NotCounted
  <2>5. Prot(r) = IF Prot(i) = "none" THEN "fresh" ELSE Prot(i)
    <3>1. "total" \in Locks /\ "total" \in Own(k)
      BY DEF Locks, Own
    <3>2. dep["total"] = i.depth["total"] + 1 /\ i.depth["total"] \in Nat
      BY <3>1, <1>2, <1>4
    <3>3. new["total"] = IF i.depth["total"] = 0 THEN "now" ELSE i.start["total"]
      BY <3>1, <1>3 DEF NotCounted
    <3>4. QED BY <2>3, <3>2, <3>3 DEF Prot
  <2>6. Sound(r)
    BY <2>3, <2>4, <1>4 DEF Sound
  <2>7. QED BY <2>3, <2>5, <2>6 DEF WaitKeeps, dep
<1>8. QED BY <1>6, <1>7

\* sched_waking_dstate_end: it refreshes a recorded waiter or changes nothing
\* that protection depends on.
WakingKeeps(i, r) ==
  /\ Sound(r) /\ r.ops = i.ops /\ r.depth = i.depth
  /\ \/ Prot(r) = Prot(i)
     \/ i.ops # "none" /\ Prot(r) = IF Prot(i) = "none" THEN "none" ELSE "fresh"

\* A wake-up keeps the record sound and refreshes only what was protected.
LEMMA WakingStep ==
  ASSUME NEW i, Sound(i)
  PROVE  WakingKeeps(i, DstateEnd(i))
<1> DEFINE r == DstateEnd(i)
           own == Stamp(i.start, Own(i.ops))
           ds == [i.dstart EXCEPT ![i.ops] = "none"]
           st == IF i.dstart[i.ops] = "long" THEN own ELSE i.start
<1>1. i \in TaskLockInfo /\ Bounded(i.depth)
      /\ \A l \in Locks : i.depth[l] # 0 => i.start[l] # "none"
  BY DEF Sound, Bounded
<1>2. /\ i.depth \in [Locks -> Nat] /\ i.start \in [Locks -> Stamps]
      /\ i.dstart \in [LockTypes -> Waits] /\ i.ops \in LockTypes \union {"none"}
  BY <1>1, RecordParts
<1>3. /\ own \in [Locks -> Stamps]
      /\ \A l \in Locks : own[l] = IF l \in Own(i.ops) THEN "now" ELSE i.start[l]
  BY <1>2, StampFacts
<1>4. r = IF i.ops = "none" THEN i ELSE [i EXCEPT !.dstart[i.ops] = "none", !.start = st]
  BY DEF DstateEnd
<1>5. CASE i.ops = "none"
  BY <1>4, <1>5 DEF r, WakingKeeps
<1>6. CASE i.ops # "none"
  <2> SUFFICES WakingKeeps(i, r)
    OBVIOUS
  <2> HIDE DEF r, own
  <2>1. st \in [Locks -> Stamps]
        /\ \A l \in Locks : i.depth[l] # 0 => st[l] # "none"
    BY <1>1, <1>2, <1>3
  <2>2. st["total"] \in {i.start["total"], "now"}
    BY <1>3 DEF Own, Locks
  <2>3. ds \in [LockTypes -> Waits]
    BY <1>2 DEF Waits
  <2> HIDE DEF st
  <2>4. r = [i EXCEPT !.dstart = ds, !.start = st]
    BY <1>1, <1>4, <1>6 DEF TaskLockInfo
  <2> HIDE DEF ds
  <2>5. r \in TaskLockInfo /\ r.depth = i.depth /\ r.start = st /\ r.ops = i.ops
    BY <1>1, <2>1, <2>3, <2>4 DEF TaskLockInfo
  <2>6. \/ Prot(r) = Prot(i)
        \/ Prot(r) = IF Prot(i) = "none" THEN "none" ELSE "fresh"
    BY <2>2, <2>5 DEF Prot
  <2>7. QED BY <1>1, <1>6, <2>1, <2>5, <2>6 DEF WakingKeeps, Sound
<1>7. QED BY <1>5, <1>6

----------------------------------------------------------------------------
(* Steps.                                                                  *)

EnvTyped ==
  /\ held \in [LockTypes -> Nat]
  /\ wait \in LockTypes \union {"none"}
  /\ state \in {"running", "D", "I"}
  /\ asleep \in BOOLEAN
  /\ abandoned \in BOOLEAN

\* The invariant says that the record is sound and the surroundings are typed ...
LEMMA IInvIsSound == IInv <=> Sound(info) /\ EnvTyped
BY DEF IInv, Sound, Bounded, EnvTyped, TypeOK, StartWhileCounted, TotalAtMostSum

\* ... before and after a step.
LEMMA IInvIsSoundNext == IInv' <=> Sound(info') /\ EnvTyped'
BY DEF IInv, Sound, Bounded, EnvTyped, TypeOK, StartWhileCounted, TotalAtMostSum

\* The passing of time: only what was fresh becomes late.
LEMMA JiffyStep ==
  ASSUME Sound(info), Jiffy
  PROVE  /\ Sound(info') /\ info'.ops = info.ops /\ info'.depth = info.depth
         /\ Prot(info') = IF Prot(info) = "fresh" /\ info.start["total"] = "now"
                          THEN "late" ELSE Prot(info)
<1> DEFINE st == [l \in Locks |-> IF info.start[l] = "now" THEN "past" ELSE info.start[l]]
<1>1. /\ info \in TaskLockInfo /\ Bounded(info.depth)
      /\ \A l \in Locks : info.depth[l] # 0 => info.start[l] # "none"
  BY DEF Sound
<1>2. info.start \in [Locks -> Stamps]
  BY <1>1, RecordParts
<1>3. /\ st \in [Locks -> Stamps]
      /\ \A l \in Locks : st[l] = IF info.start[l] = "now" THEN "past" ELSE info.start[l]
  BY <1>2 DEF Stamps
<1>4. info' = [info EXCEPT !.start = st]
  BY DEF Jiffy
<1> HIDE DEF st
<1>5. /\ info' \in TaskLockInfo /\ info'.depth = info.depth /\ info'.start = st
      /\ info'.ops = info.ops
  BY <1>1, <1>3, <1>4 DEF TaskLockInfo
<1>6. \A l \in Locks : info'.depth[l] # 0 => info'.start[l] # "none"
  BY <1>1, <1>3, <1>5
<1>7. Prot(info') = IF Prot(info) = "fresh" /\ info.start["total"] = "now"
                    THEN "late" ELSE Prot(info)
  BY <1>3, <1>5 DEF Prot, Locks
<1>8. QED BY <1>1, <1>5, <1>6, <1>7 DEF Sound

\* A spin that lasts touches nothing that protection depends on.
LEMMA WaitLastsStep ==
  ASSUME Sound(info), NEW k \in LockTypes, WaitLasts(k)
  PROVE  /\ Sound(info') /\ info'.ops = info.ops /\ info'.depth = info.depth
         /\ Prot(info') = Prot(info)
<1> DEFINE ds == [info.dstart EXCEPT ![k] = "long"]
<1>1. /\ info \in TaskLockInfo /\ Bounded(info.depth)
      /\ \A l \in Locks : info.depth[l] # 0 => info.start[l] # "none"
  BY DEF Sound
<1>2. ds \in [LockTypes -> Waits]
  BY <1>1, RecordParts DEF Waits
<1>3. info' = [info EXCEPT !.dstart = ds]
  BY <1>1 DEF WaitLasts, TaskLockInfo
<1> HIDE DEF ds
<1>4. /\ info' \in TaskLockInfo /\ info'.depth = info.depth /\ info'.start = info.start
      /\ info'.ops = info.ops
  BY <1>1, <1>2, <1>3 DEF TaskLockInfo
<1>5. QED BY <1>1, <1>4 DEF Sound, Prot

\* The empty record satisfies the invariant.
LEMMA InitInv == Init => IInv
<1> SUFFICES ASSUME Init PROVE IInv
  OBVIOUS
<1>1. Sound(info)
  BY NoLocksSound DEF Init
<1>2. EnvTyped
  BY DEF Init, EnvTyped, LockTypes
<1>3. QED BY <1>1, <1>2, IInvIsSound

\* Every step keeps the record sound.
LEMMA StepInv == IInv /\ [Next]_infoVars => IInv'
<1> SUFFICES ASSUME IInv, [Next]_infoVars PROVE Sound(info') /\ EnvTyped'
  BY IInvIsSoundNext
<1>1. Sound(info) /\ EnvTyped
  BY IInvIsSound
<1>2. ASSUME NEW k \in Used, AcquireLock(k) PROVE Sound(info') /\ EnvTyped'
  <2>1. k \in LockTypes BY TypesAssumption
  <2>2. Sound(info') BY <1>1, <1>2, <2>1, AcquireStep DEF AcquireLock, AcquireKeeps
  <2>3. QED BY <1>1, <1>2, <2>1, <2>2 DEF AcquireLock, EnvTyped
<1>3. ASSUME NEW k \in Used, ReleaseLock(k) PROVE Sound(info') /\ EnvTyped'
  <2>1. k \in LockTypes BY TypesAssumption
  <2>2. Sound(info') BY <1>1, <1>3, <2>1, ReleaseStep DEF ReleaseLock, ReleaseKeeps
  <2>3. QED BY <1>1, <1>3, <2>1, <2>2 DEF ReleaseLock, EnvTyped
<1>4. ASSUME NEW k \in Used, BeginWait(k) PROVE Sound(info') /\ EnvTyped'
  <2>1. k \in LockTypes BY TypesAssumption
  <2>2. Sound(info') BY <1>1, <1>4, <2>1, WaitStep DEF BeginWait, WaitKeeps
  <2>3. QED BY <1>1, <1>4, <2>1, <2>2 DEF BeginWait, EnvTyped
<1>5. ASSUME NEW k \in Used, WaitLasts(k) PROVE Sound(info') /\ EnvTyped'
  <2>1. k \in LockTypes BY TypesAssumption
  <2>2. Sound(info') BY <1>1, <1>5, <2>1, WaitLastsStep
  <2>3. QED BY <1>1, <1>5, <2>2 DEF WaitLasts, EnvTyped
<1>6. CASE EndWait
  <2>1. wait \in LockTypes BY <1>1, <1>6 DEF EndWait, EnvTyped
  <2>2. Sound(info') BY <1>1, <1>6, <2>1, AcquireStep DEF EndWait, AcquireKeeps
  <2>3. QED BY <1>1, <1>6, <2>1, <2>2 DEF EndWait, EnvTyped
<1>7. CASE AbandonWait
  BY <1>1, <1>7 DEF AbandonWait, EnvTyped
<1>8. CASE WakeUp
  <2>1. Sound(info') BY <1>1, <1>8, WakingStep DEF WakeUp, WakingKeeps
  <2>2. QED BY <1>1, <1>8, <2>1 DEF WakeUp, EnvTyped
<1>9. ASSUME NEW s \in {"D", "I"}, SetState(s) PROVE Sound(info') /\ EnvTyped'
  BY <1>1, <1>9 DEF SetState, EnvTyped
<1>10. ASSUME NEW sleep \in BOOLEAN, SwitchOut(sleep) PROVE Sound(info') /\ EnvTyped'
  BY <1>1, <1>10, NoLocksSound DEF Clear, SwitchOut, EnvTyped
<1>11. CASE Timeout
  BY <1>1, <1>11, NoLocksSound DEF Clear, Timeout, EnvTyped
<1>12. CASE InitTask
  BY <1>1, <1>12, NoLocksSound DEF Clear, InitTask, EnvTyped
<1>13. CASE Jiffy
  BY <1>1, <1>13, JiffyStep DEF Jiffy, EnvTyped
<1>14. CASE UNCHANGED infoVars
  BY <1>1, <1>14 DEF infoVars, EnvTyped
<1>15. QED BY <1>2, <1>3, <1>4, <1>5, <1>6, <1>7, <1>8, <1>9, <1>10, <1>11, <1>12, <1>13, <1>14 DEF Next

\* The invariant holds in every reachable state.
LEMMA Invariance == Spec => []IInv
BY InitInv, StepInv, PTL DEF Spec

\* Types of the record and of what the task does.
THEOREM TypeCorrect == Spec => []TypeOK
<1>1. IInv => TypeOK BY DEF IInv
<1>2. QED BY <1>1, Invariance, PTL

\* Protection can always end: whatever counts has a start for the timeout test.
THEOREM CountsHaveStart == Spec => []StartWhileCounted
<1>1. IInv => StartWhileCounted BY DEF IInv
<1>2. QED BY <1>1, Invariance, PTL

\* The total never exceeds the sum of the types.
THEOREM TotalBounded == Spec => []TotalAtMostSum
<1>1. IInv => TotalAtMostSum BY DEF IInv
<1>2. QED BY <1>1, Invariance, PTL

----------------------------------------------------------------------------
(* LockInfo implements LockProtect.                                        *)

\* An empty record is an unprotected task that does not wait.
LEMMA PromiseInit == Init => Promise!Init
BY NoLocksSound DEF Init, Promise!Init

\* Each step of the hooks and of the task is a step of LockProtect or changes
\* neither the protection nor the mark.
LEMMA PromiseStep == IInv /\ [Next]_infoVars => [Promise!Next]_(Promise!protVars)
<1> SUFFICES ASSUME IInv, [Next]_infoVars
             PROVE  Promise!Next \/ UNCHANGED Promise!protVars
  OBVIOUS
<1> USE DEF Promise!protVars
<1>1. Sound(info)
  BY IInvIsSound
<1>2. ASSUME NEW k \in LockTypes, info' = RecordAcquire(info, k)
      PROVE  Promise!Acquire \/ Promise!Refresh
  BY <1>1, <1>2, AcquireStep DEF AcquireKeeps, Promise!Acquire, Promise!Refresh
<1>3. ASSUME NEW k \in Used, AcquireLock(k) PROVE Promise!Next
  BY <1>2, <1>3, TypesAssumption DEF AcquireLock, Promise!Next
<1>4. CASE EndWait
  <2>1. wait \in LockTypes BY <1>4, IInvIsSound DEF EndWait, EnvTyped
  <2>2. QED BY <1>2, <1>4, <2>1 DEF EndWait, Promise!Next
<1>5. ASSUME NEW k \in Used, ReleaseLock(k) PROVE Promise!Next \/ UNCHANGED Promise!protVars
  <2>1. k \in LockTypes BY TypesAssumption
  <2>2. ReleaseKeeps(info, k, info')
    BY <1>1, <1>5, <2>1, ReleaseStep DEF ReleaseLock
  <2>3. QED BY <2>2 DEF ReleaseKeeps, Promise!Next, Promise!Release
<1>6. ASSUME NEW k \in Used, BeginWait(k) PROVE Promise!Next
  <2>1. k \in LockTypes BY TypesAssumption
  <2>2. WaitKeeps(info, k, info')
    BY <1>1, <1>6, <2>1, WaitStep DEF BeginWait
  <2>3. k # "none" BY <2>1 DEF LockTypes
  <2>4. Promise!Wait BY <2>2, <2>3 DEF WaitKeeps, Promise!Wait
  <2>5. QED BY <2>4 DEF Promise!Next
<1>7. ASSUME NEW k \in Used, WaitLasts(k) PROVE UNCHANGED Promise!protVars
  <2>1. k \in LockTypes BY TypesAssumption
  <2>2. QED BY <1>1, <1>7, <2>1, WaitLastsStep
<1>8. CASE WakeUp
  <2>1. WakingKeeps(info, info')
    BY <1>1, <1>8, WakingStep DEF WakeUp
  <2>2. Promise!Refresh \/ UNCHANGED Promise!protVars
    BY <2>1 DEF WakingKeeps, Promise!Refresh
  <2>3. QED BY <2>2 DEF Promise!Next
<1>9. info' = NoLocks => Promise!Next
  BY NoLocksSound DEF Promise!Next, Promise!Forget
<1>10. ASSUME NEW sleep \in BOOLEAN, SwitchOut(sleep)
       PROVE  Promise!Next \/ UNCHANGED Promise!protVars
  BY <1>9, <1>10 DEF SwitchOut, Clear
<1>11. CASE Jiffy
  <2>1. /\ info'.ops = info.ops
        /\ Prot(info') = IF Prot(info) = "fresh" /\ info.start["total"] = "now"
                         THEN "late" ELSE Prot(info)
    BY <1>1, <1>11, JiffyStep
  <2>2. QED BY <2>1 DEF Promise!Next, Promise!Elapse
<1>12. CASE AbandonWait \/ UNCHANGED infoVars \/ \E s \in {"D", "I"} : SetState(s)
  <2>1. UNCHANGED info BY <1>12 DEF AbandonWait, SetState, infoVars
  <2>2. QED BY <2>1
<1>13. CASE Timeout \/ InitTask
  BY <1>9, <1>13 DEF Timeout, InitTask, Clear
<1>14. QED BY <1>3, <1>4, <1>5, <1>6, <1>7, <1>8, <1>10, <1>11, <1>12, <1>13 DEF Next

\* The counting of locks keeps the promise of LockProtect: one jiffy from the
\* first of nested locks, and only a wait starts it again.
THEOREM PromiseKept == Spec => PromiseSpec
BY PromiseInit, PromiseStep, Invariance, PTL DEF Spec, PromiseSpec, Promise!Spec

----------------------------------------------------------------------------
(* Counted locks are held, until a wait is abandoned.                      *)

\* Counts and mark agree with what the task really holds and waits for.
TrueToTask ==
  /\ \A k \in LockTypes :
       info.depth[k] <= held[k] + IF wait = k /\ info.ops = k THEN 1 ELSE 0
  /\ info.ops # "none" => wait = info.ops

\* A cleared record does.
LEMMA ClearedIsTrue ==
  ASSUME EnvTyped, info' = NoLocks, UNCHANGED <<held, wait>>
  PROVE  TrueToTask'
<1>1. info'.ops = "none" /\ \A l \in LockTypes : info'.depth[l] = 0
  BY DEF NoLocks, Locks
<1>2. "none" \notin LockTypes
  BY DEF LockTypes
<1>3. QED BY <1>1, <1>2 DEF EnvTyped, TrueToTask

\* Every step keeps it so, but the end of a wait without the lock.
LEMMA TrueStep ==
  ASSUME IInv, TrueToTask, [Next]_infoVars, ~AbandonWait
  PROVE  TrueToTask'
<1>1. Sound(info) /\ EnvTyped
  BY IInvIsSound
<1>2. info.depth \in [Locks -> Nat] /\ LockTypes \subseteq Locks
  BY <1>1, RecordParts DEF Sound, Locks
<1>3. \A k, l \in LockTypes : l \in Own(k) <=> l = k
  BY DEF Own, LockTypes
<1>4. "none" \notin LockTypes
  BY DEF LockTypes
<1> USE DEF TrueToTask
<1>5. ASSUME NEW k \in Used, AcquireLock(k) PROVE TrueToTask'
  <2>1. k \in LockTypes BY TypesAssumption
  <2>2. wait = "none" /\ info.ops = "none" /\ UNCHANGED wait
        /\ held' = [held EXCEPT ![k] = @ + 1]
    BY <1>4, <1>5 DEF AcquireLock, Idle
  <2>3. info'.ops = "none" /\ info'.depth = IncDepth(info.depth, k)
    BY <1>1, <1>5, <2>1, <2>2, AcquireStep DEF AcquireLock, AcquireKeeps
  <2>4. \A l \in LockTypes : info'.depth[l] = IF l = k THEN info.depth[l] + 1 ELSE info.depth[l]
    BY <1>2, <1>3, <2>1, <2>3, IncFacts
  <2>5. QED BY <1>1, <1>2, <1>4, <2>1, <2>2, <2>3, <2>4 DEF EnvTyped
<1>6. CASE EndWait
  <2>1. wait \in LockTypes /\ wait' = "none" /\ held' = [held EXCEPT ![wait] = @ + 1]
    BY <1>1, <1>6 DEF EndWait, EnvTyped
  <2>2. AcquireKeeps(info, wait, info')
    BY <1>1, <1>6, <2>1, AcquireStep DEF EndWait
  <2>3. CASE info.ops # "none"
    <3>1. info.ops = wait /\ info'.ops = "none" /\ info'.depth = info.depth
      BY <2>2, <2>3 DEF AcquireKeeps
    <3>2. QED BY <1>1, <1>2, <1>4, <2>1, <3>1 DEF EnvTyped
  <2>4. CASE info.ops = "none"
    <3>1. info'.ops = "none" /\ info'.depth = IncDepth(info.depth, wait)
      BY <2>2, <2>4 DEF AcquireKeeps
    <3>2. \A l \in LockTypes :
            info'.depth[l] = IF l = wait THEN info.depth[l] + 1 ELSE info.depth[l]
      BY <1>2, <1>3, <2>1, <3>1, IncFacts
    <3>3. QED BY <1>1, <1>2, <1>4, <2>1, <2>4, <3>1, <3>2 DEF EnvTyped
  <2>5. QED BY <2>3, <2>4
<1>7. ASSUME NEW k \in Used, ReleaseLock(k) PROVE TrueToTask'
  <2>1. k \in LockTypes BY TypesAssumption
  <2>2. wait = "none" /\ info.ops = "none" /\ UNCHANGED wait /\ held[k] > 0
        /\ held' = [held EXCEPT ![k] = @ - 1]
    BY <1>4, <1>7 DEF ReleaseLock, Idle
  <2>3. info'.ops = "none" /\ info'.depth = DecDepth(info.depth, k)
    BY <1>1, <1>7, <2>1, <2>2, ReleaseStep DEF ReleaseLock, ReleaseKeeps
  <2>4. \A l \in LockTypes : info'.depth[l] =
          IF l = k /\ info.depth[l] > 0 THEN info.depth[l] - 1 ELSE info.depth[l]
    BY <1>2, <1>3, <2>1, <2>3, DecFacts
  <2>5. QED BY <1>1, <1>2, <1>4, <2>1, <2>2, <2>3, <2>4 DEF EnvTyped
<1>8. ASSUME NEW k \in Used, BeginWait(k) PROVE TrueToTask'
  <2>1. k \in LockTypes BY TypesAssumption
  <2>2. wait = "none" /\ info.ops = "none" /\ wait' = k /\ UNCHANGED held
    BY <1>4, <1>8 DEF BeginWait, Idle
  <2>3. info'.ops = k /\ info'.depth \in {info.depth, IncDepth(info.depth, k)}
    BY <1>1, <1>8, <2>1, WaitStep DEF BeginWait, WaitKeeps
  <2>4. ASSUME NEW l \in LockTypes
        PROVE  info'.depth[l] <= IF l = k THEN info.depth[l] + 1 ELSE info.depth[l]
    <3>1. info.depth[l] \in Nat
      BY <1>2
    <3>2. CASE info'.depth = info.depth
      BY <3>1, <3>2
    <3>3. CASE info'.depth = IncDepth(info.depth, k)
      <4>1. info'.depth[l] = IF l = k THEN info.depth[l] + 1 ELSE info.depth[l]
        BY <1>2, <1>3, <2>1, <3>3, IncFacts
      <4>2. QED BY <3>1, <4>1
    <3>4. info'.depth = info.depth \/ info'.depth = IncDepth(info.depth, k)
      BY <2>3
    <3>5. QED BY <3>2, <3>3, <3>4
  <2>5. info'.depth \in [Locks -> Nat]
    BY <1>2, <2>1, <2>3, IncFacts
  <2>6. ASSUME NEW l \in LockTypes
        PROVE  info'.depth[l] <= held'[l] + IF wait' = l /\ info'.ops = l THEN 1 ELSE 0
    <3>1. info'.depth[l] \in Nat /\ info.depth[l] \in Nat /\ held[l] \in Nat
      BY <1>1, <1>2, <2>5 DEF EnvTyped
    <3>2. info.depth[l] <= held[l]
      <4>1. info.depth[l] <= held[l] + IF wait = l /\ info.ops = l THEN 1 ELSE 0
        OBVIOUS
      <4>2. wait # l
        BY <1>4, <2>2
      <4>3. QED BY <3>1, <4>1, <4>2
    <3>3. info'.depth[l] <= IF l = k THEN info.depth[l] + 1 ELSE info.depth[l]
      BY <2>4
    <3>4. held' = held /\ wait' = k /\ info'.ops = k
      BY <2>2, <2>3
    <3>5. CASE l = k
      BY <3>1, <3>2, <3>3, <3>4, <3>5
    <3>6. CASE l # k
      BY <3>1, <3>2, <3>3, <3>4, <3>6
    <3>7. QED BY <3>5, <3>6
  <2>7. info'.ops # "none" => wait' = info'.ops
    BY <2>2, <2>3
  <2>8. QED BY <2>6, <2>7
<1>9. ASSUME info'.ops = info.ops, info'.depth = info.depth, UNCHANGED <<held, wait>>
      PROVE  TrueToTask'
  BY <1>9
<1>10. ASSUME NEW k \in Used, WaitLasts(k) PROVE TrueToTask'
  <2>1. k \in LockTypes BY TypesAssumption
  <2>2. QED BY <1>1, <1>9, <1>10, <2>1, WaitLastsStep DEF WaitLasts
<1>11. CASE WakeUp
  BY <1>1, <1>9, <1>11, WakingStep DEF WakeUp, WakingKeeps
<1>12. CASE Jiffy
  BY <1>1, <1>9, <1>12, JiffyStep DEF Jiffy
<1>13. ASSUME info' = NoLocks, UNCHANGED <<held, wait>> PROVE TrueToTask'
  BY <1>1, <1>13, ClearedIsTrue
<1>14. ASSUME NEW sleep \in BOOLEAN, SwitchOut(sleep) PROVE TrueToTask'
  BY <1>9, <1>13, <1>14 DEF SwitchOut, Clear
<1>15. CASE Timeout \/ InitTask
  BY <1>13, <1>15 DEF Timeout, InitTask, Clear
<1>16. CASE UNCHANGED infoVars \/ \E s \in {"D", "I"} : SetState(s)
  BY <1>9, <1>16 DEF infoVars, SetState
<1>17. QED BY <1>5, <1>6, <1>7, <1>8, <1>10, <1>11, <1>12, <1>14, <1>15, <1>16 DEF Next

\* TrueToTask, as long as no wait ended without its lock since the record was
\* last cleared.
TrueUnlessAbandoned == ~abandoned => TrueToTask

\* The record is true from the start, and every step keeps it so or abandons
\* a wait.
LEMMA TrueInvariance == Spec => []TrueUnlessAbandoned
<1> USE DEF TrueUnlessAbandoned
<1>1. Init => TrueUnlessAbandoned
  BY DEF Init, NoLocks, TrueToTask, Locks, LockTypes
<1>2. IInv /\ TrueUnlessAbandoned /\ [Next]_infoVars => TrueUnlessAbandoned'
  <2> SUFFICES ASSUME IInv, TrueUnlessAbandoned, [Next]_infoVars, ~abandoned'
               PROVE  TrueToTask'
    OBVIOUS
  <2>1. ~AbandonWait
    BY DEF AbandonWait
  <2>2. CASE ~abandoned
    BY <2>1, <2>2, TrueStep
  <2>3. CASE abandoned
    <3>1. info' = NoLocks /\ UNCHANGED <<held, wait>>
      BY <2>1, <2>3 DEF Next, AcquireLock, ReleaseLock, BeginWait, WaitLasts, EndWait,
         WakeUp, SetState, SwitchOut, Timeout, InitTask, Jiffy, Clear, infoVars
    <3>2. QED BY <3>1, IInvIsSound, ClearedIsTrue
  <2>4. QED BY <2>2, <2>3
<1>3. QED BY <1>1, <1>2, Invariance, PTL DEF Spec

\* Counts are never too high, whatever spins, timeouts, sleeps and unbalanced
\* releases there are, until a wait ends without the lock; clearing the record
\* makes them right again.
THEOREM CountsAreHeld == Spec => []CountedIsHeld
<1>1. TrueUnlessAbandoned => CountedIsHeld
  BY DEF TrueUnlessAbandoned, TrueToTask, CountedIsHeld
<1>2. QED BY <1>1, TrueInvariance, PTL

\* The mark that lock_wait_start leaves and record_lock_starttime removes names
\* the lock the task waits for now, never that of an earlier wait, until a wait
\* ends without the lock.
THEOREM MarkIsCurrent == Spec => []MarkIsWait
<1>1. TrueUnlessAbandoned => MarkIsWait
  BY DEF TrueUnlessAbandoned, TrueToTask, MarkIsWait
<1>2. QED BY <1>1, TrueInvariance, PTL

----------------------------------------------------------------------------
(* The queues.                                                             *)

CountInv ==
  /\ nr_tasks \in [Cpus -> Int]
  /\ enable \in [Cpus -> BOOLEAN]
  /\ ClosedOnlyWhileBusy

\* dec_task_count opens the queue no later than its last task leaves.
LEMMA DequeueKeeps ==
  ASSUME CountInv, NEW t, NEW c, Dequeue(t, c)
  PROVE  CountInv'
<1>1. CASE UNCHANGED <<nr_tasks, enable>>
  BY <1>1 DEF CountInv, ClosedOnlyWhileBusy
<1>2. CASE Delist(t, c)
  <2>1. /\ nr_tasks' = [nr_tasks EXCEPT ![c] = @ - 1]
        /\ enable' = [enable EXCEPT ![c] = Reopen(nr_tasks'[c], @)]
    BY <1>2 DEF Delist
  <2>2. nr_tasks' \in [Cpus -> Int]
    <3>1. nr_tasks' = [d \in Cpus |-> IF d = c THEN nr_tasks[c] - 1 ELSE nr_tasks[d]]
      BY <2>1 DEF CountInv
    <3>2. \A d \in Cpus : nr_tasks[d] \in Int
      BY DEF CountInv
    <3>3. \A d \in Cpus : (IF d = c THEN nr_tasks[c] - 1 ELSE nr_tasks[d]) \in Int
      BY <3>2
    <3>4. QED BY <3>1, <3>3
  <2>3. Reopen(nr_tasks'[c], enable[c]) \in BOOLEAN
    BY Zenon DEF Reopen
  <2>4. enable' \in [Cpus -> BOOLEAN]
    BY <2>1, <2>3, Zenon DEF CountInv
  <2>5. ASSUME NEW d \in Cpus, ~enable'[d] PROVE nr_tasks'[d] > 0
    <3>1. CASE d = c
      <4>1. enable'[c] = Reopen(nr_tasks'[c], enable[c])
        BY <2>1, <3>1 DEF CountInv
      <4>2. nr_tasks'[c] \in Int /\ ~(nr_tasks'[c] <= 0)
        BY <2>2, <2>5, <3>1, <4>1 DEF Reopen
      <4>3. QED BY <3>1, <4>2
    <3>2. CASE d # c
      BY <2>1, <2>5, <3>2 DEF CountInv, ClosedOnlyWhileBusy
    <3>3. QED BY <3>1, <3>2
  <2>6. QED BY <2>2, <2>4, <2>5 DEF CountInv, ClosedOnlyWhileBusy
<1>3. QED BY <1>1, <1>2 DEF Dequeue

\* enqueue_locking_task closes only a queue that is over its limit.
LEMMA EnqueueKeeps ==
  ASSUME CountInv, NEW t, NEW c, Enqueue(t, c)
  PROVE  CountInv'
<1>1. CASE UNCHANGED <<nr_tasks, enable>>
  BY <1>1 DEF CountInv, ClosedOnlyWhileBusy
<1>2. CASE Full(t, c) /\ enable' = [enable EXCEPT ![c] = FALSE] /\ UNCHANGED nr_tasks
  <2>1. c \in Cpus => nr_tasks[c] > 0
    BY <1>2, LimitAssumption DEF Full, CountInv
  <2>2. QED BY <1>2, <2>1 DEF CountInv, ClosedOnlyWhileBusy
<1>3. CASE nr_tasks' = [nr_tasks EXCEPT ![c] = @ + 1] /\ UNCHANGED enable
  <2>1. \A d \in Cpus : nr_tasks[d] \in Int
    BY DEF CountInv
  <2>2. nr_tasks' = [d \in Cpus |-> IF d = c THEN nr_tasks[c] + 1 ELSE nr_tasks[d]]
    BY <1>3 DEF CountInv
  <2>3. \A d \in Cpus : nr_tasks'[d] \in Int /\ nr_tasks'[d] >= nr_tasks[d]
    BY <2>1, <2>2
  <2>4. nr_tasks' \in [Cpus -> Int]
    BY <2>2, <2>3
  <2>5. QED BY <1>3, <2>1, <2>3, <2>4 DEF CountInv, ClosedOnlyWhileBusy
<1>4. QED BY <1>1, <1>2, <1>3 DEF Enqueue

\* All queues start empty and open.
LEMMA CountInit == QueueInit => CountInv
BY DEF QueueInit, CountInv, ClosedOnlyWhileBusy

\* No step closes an empty queue or empties a closed one.
LEMMA CountStep ==
  ASSUME CountInv, [QueueNext]_queueVars
  PROVE  CountInv'
<1>1. ASSUME UNCHANGED <<nr_tasks, enable>> PROVE CountInv'
  BY <1>1 DEF CountInv, ClosedOnlyWhileBusy
<1>2. ASSUME NEW c \in Cpus, Schedule(c) PROVE CountInv'
  BY <1>1, <1>2 DEF Schedule
<1>3. ASSUME NEW t \in Tasks, Deactivate(t) PROVE CountInv'
  BY <1>3, DequeueKeeps DEF Deactivate
<1>4. ASSUME NEW t \in Tasks, Attach(t) PROVE CountInv'
  BY <1>4, EnqueueKeeps DEF Attach
<1>5. ASSUME NEW t \in Tasks, NEW c \in Cpus, Activate(t, c) PROVE CountInv'
  BY <1>5, EnqueueKeeps DEF Activate
<1>6. ASSUME NEW t \in Tasks, NEW c \in Cpus, NEW fair \in BOOLEAN, Detach(t, c, fair)
      PROVE  CountInv'
  BY <1>6, DequeueKeeps DEF Detach
<1>7. ASSUME NEW t \in Tasks, Tag(t) PROVE CountInv'
  <2>1. CASE UNCHANGED <<nr_tasks, enable>> BY <1>1, <2>1
  <2>2. CASE Dequeue(t, rq[t]) BY <2>2, DequeueKeeps
  <2>3. QED BY <1>7, <2>1, <2>2 DEF Tag
<1>8. ASSUME NEW t \in Tasks, Exit(t) \/ FreeAndFork(t) PROVE CountInv'
  BY <1>1, <1>8 DEF Exit, FreeAndFork
<1>9. ASSUME NEW t \in Tasks, NEW init \in BOOLEAN, Untag(t, init) PROVE CountInv'
  BY <1>1, <1>9 DEF Untag
<1>10. ASSUME NEW t \in Tasks, NEW p, LockStep(t, p) PROVE CountInv'
  BY <1>1, <1>10 DEF LockStep
<1>11. CASE Switch \/ UNCHANGED queueVars
  BY <1>1, <1>11 DEF Switch, queueVars
<1>12. QED
  BY <1>2, <1>3, <1>4, <1>5, <1>6, <1>7, <1>8, <1>9, <1>10, <1>11 DEF QueueNext

\* A lock queue that only main threads may join has a task on it whose removal
\* opens it (the flag of dec_task_count and enqueue_locking_task), for any
\* number of tasks and CPUs and any limit.
THEOREM QueueNeverStuck == QueueSpec => []ClosedOnlyWhileBusy
<1>1. QueueInit => CountInv
  BY CountInit
<1>2. CountInv /\ [QueueNext]_queueVars => CountInv'
  BY CountStep
<1>3. CountInv => ClosedOnlyWhileBusy
  BY DEF CountInv
<1>4. QED
  BY <1>1, <1>2, <1>3, PTL DEF QueueSpec

----------------------------------------------------------------------------
(* The lists.  A task is on a list at most once, and a task on two lists   *)
(* would have to remember two run queues.                                  *)

NoRepeat(l) == \A i, j \in DOMAIN l : l[i] = l[j] => i = j

\* The other tasks of a list are finitely many.
LEMMA OthersCounted ==
  ASSUME NEW T, NEW l \in Seq(T)
  PROVE  IsFiniteSet(Others(l)) /\ Cardinality(Others(l)) \in Nat /\ Cardinality(Others(l)) <= Len(l)
<1>1. Len(l) \in Nat /\ DOMAIN l = 1..Len(l)
  BY LenProperties
<1>2. IsFiniteSet(1..Len(l)) /\ Cardinality(1..Len(l)) = Len(l)
  BY <1>1, FS_Interval
<1>3. Others(l) \subseteq 1..Len(l)
  BY <1>1 DEF Others
<1>4. IsFiniteSet(Others(l)) /\ Cardinality(Others(l)) <= Len(l)
  BY <1>2, <1>3, FS_Subset
<1>5. QED BY <1>4, FS_CardinalityType

\* list_del_init takes out one task and leaves the rest.
LEMMA UnlinkedFacts ==
  ASSUME NEW T, NEW l \in Seq(T), NEW t, Contains(l, t), NoRepeat(l)
  PROVE  /\ Unlinked(l, t) \in Seq(T) /\ NoRepeat(Unlinked(l, t))
         /\ Len(Unlinked(l, t)) = Len(l) - 1
         /\ \A u : Contains(Unlinked(l, t), u) <=> Contains(l, u) /\ u # t
         /\ Cardinality(Others(Unlinked(l, t))) <= Cardinality(Others(l))
<1> DEFINE p == CHOOSE i \in DOMAIN l : l[i] = t
           r == Unlinked(l, t)
           Old(k) == IF k < p THEN k ELSE k + 1
<1>1. DOMAIN l = 1..Len(l) /\ Len(l) \in Nat
  BY LenProperties
<1>2. p \in 1..Len(l) /\ l[p] = t
  BY <1>1 DEF Contains
<1>3. /\ r \in Seq(T) /\ Len(r) = Len(l) - 1
      /\ \A i \in 1..Len(l)-1 : r[i] = IF i < p THEN l[i] ELSE l[i+1]
  BY <1>2, RemoveAtFacts DEF Unlinked
<1> HIDE DEF p, r
<1>4. DOMAIN r = 1..Len(l)-1
  BY <1>3, LenProperties
<1>5. \A k \in 1..Len(l)-1 : /\ Old(k) \in 1..Len(l) /\ Old(k) # p /\ r[k] = l[Old(k)]
                             /\ \A m \in 1..Len(l)-1 : Old(k) = Old(m) => k = m
  BY <1>1, <1>2, <1>3
<1>6. \A k, m \in 1..Len(l) : l[k] = l[m] => k = m
  BY <1>1 DEF NoRepeat
<1>7. \A i \in 1..Len(l) : i # p => \E k \in 1..Len(l)-1 : Old(k) = i
  <2> TAKE i \in 1..Len(l)
  <2> HAVE i # p
  <2>1. CASE i < p
    BY <1>1, <1>2, <2>1
  <2>2. CASE i > p
    <3>1. i - 1 \in 1..Len(l)-1 /\ Old(i - 1) = i
      BY <1>1, <1>2, <2>2
    <3>2. QED BY <3>1
  <2>3. QED BY <1>1, <1>2, <2>1, <2>2
<1> HIDE DEF Old
<1>8. NoRepeat(r)
  BY <1>4, <1>5, <1>6 DEF NoRepeat
<1>9. ASSUME NEW u PROVE Contains(r, u) <=> Contains(l, u) /\ u # t
  <2>1. ASSUME NEW k \in 1..Len(l)-1, r[k] = u PROVE Contains(l, u) /\ u # t
    <3>1. Old(k) \in 1..Len(l) /\ Old(k) # p /\ l[Old(k)] = u
      BY <1>5, <2>1
    <3>2. Contains(l, u)
      BY <1>1, <3>1 DEF Contains
    <3>3. u # t
      BY <1>2, <1>6, <3>1
    <3>4. QED BY <3>2, <3>3
  <2>2. ASSUME NEW i \in 1..Len(l), l[i] = u, u # t PROVE \E k \in 1..Len(r) : r[k] = u
    <3>1. PICK k \in 1..Len(l)-1 : Old(k) = i
      BY <1>2, <1>7, <2>2
    <3>2. r[k] = u
      BY <1>5, <2>2, <3>1
    <3>3. QED BY <1>3, <3>1, <3>2
  <2>3. QED BY <1>3, <2>1, <2>2 DEF Contains
<1>10. Cardinality(Others(r)) <= Cardinality(Others(l))
  <2> DEFINE f == [k \in Others(r) |-> Old(k)]
  <2>1. \A k \in Others(r) : k \in 1..Len(l)-1 /\ Old(k) \in Others(l)
    BY <1>1, <1>4, <1>5 DEF Others
  <2>2. f \in Injection(Others(r), Others(l))
    BY <1>5, <2>1 DEF Injection, IsInjective
  <2>3. IsFiniteSet(Others(l))
    BY OthersCounted
  <2>4. QED BY <2>2, <2>3, FS_Injection
<1>11. QED BY <1>3, <1>8, <1>9, <1>10 DEF r

\* list_add_tail adds one.
LEMMA AppendedFacts ==
  ASSUME NEW T, NEW l \in Seq(T), NEW t \in T, ~Contains(l, t), NoRepeat(l)
  PROVE  /\ Append(l, t) \in Seq(T) /\ NoRepeat(Append(l, t))
         /\ Len(Append(l, t)) = Len(l) + 1
         /\ \A u : Contains(Append(l, t), u) <=> Contains(l, u) \/ u = t
         /\ t \in Mains => Others(Append(l, t)) = Others(l)
<1> DEFINE r == Append(l, t)
<1>1. DOMAIN l = 1..Len(l) /\ Len(l) \in Nat
  BY LenProperties
<1>2. /\ r \in Seq(T) /\ Len(r) = Len(l) + 1 /\ DOMAIN r = 1..Len(l)+1
      /\ \A i \in 1..Len(l) : r[i] = l[i]
      /\ r[Len(l)+1] = t
  <2>1. r \in Seq(T) /\ Len(r) = Len(l) + 1
    BY AppendProperties
  <2>2. QED BY <1>1, <2>1, AppendProperties, LenProperties
<1> HIDE DEF r
<1>3. \A i \in 1..Len(l) : l[i] # t
  BY DEF Contains
<1>4. \A i \in 1..Len(l)+1 : i \in 1..Len(l) \/ i = Len(l)+1
  BY <1>1
<1>5. Len(l)+1 \in 1..Len(l)+1 /\ \A i \in 1..Len(l) : i \in 1..Len(l)+1
  BY <1>1
<1>6. NoRepeat(r)
  BY <1>1, <1>2, <1>3, <1>4 DEF NoRepeat
<1>7. \A u : Contains(r, u) <=> Contains(l, u) \/ u = t
  BY <1>2, <1>4, <1>5 DEF Contains
<1>8. t \in Mains => Others(r) = Others(l)
  BY <1>1, <1>2, <1>4, <1>5 DEF Others
<1>9. QED BY <1>2, <1>6, <1>7, <1>8 DEF r

\* What the lists, the count, the references and rq say of each other.
QueueShape ==
  /\ lock_list \in [Cpus -> Seq(Tasks)]
  /\ nr_tasks \in [Cpus -> Nat]
  /\ enable \in [Cpus -> BOOLEAN]
  /\ rq \in [Tasks -> Cpus \union {Nobody}]
  /\ refs \in [Tasks -> 0..1]
  /\ \A c \in Cpus : NoRepeat(lock_list[c])
  /\ QueueBalanced
  /\ OverByOne

\* dec_task_count and list_del_init, on the queue the task is on.
LEMMA DelistShape ==
  ASSUME QueueShape, NEW t \in Tasks, NEW c \in Cpus, Contains(lock_list[c], t), Delist(t, c)
  PROVE  /\ QueueShape'
         /\ \A d \in Cpus, u \in Tasks :
              Contains(lock_list'[d], u) <=> Contains(lock_list[d], u) /\ u # t
<1>1. \A d \in Cpus : lock_list[d] \in Seq(Tasks) /\ NoRepeat(lock_list[d])
  BY DEF QueueShape
<1>2. rq[t] = c /\ \A d \in Cpus : Contains(lock_list[d], t) <=> d = c
  BY DEF QueueShape, QueueBalanced
<1>3. /\ lock_list' = [d \in Cpus |-> IF d = c THEN Unlinked(lock_list[c], t) ELSE lock_list[d]]
      /\ rq' = [rq EXCEPT ![t] = Nobody]
      /\ refs' = [refs EXCEPT ![t] = @ - 1]
      /\ nr_tasks' = [nr_tasks EXCEPT ![c] = @ - 1]
      /\ enable' = [enable EXCEPT ![c] = Reopen(nr_tasks'[c], @)]
  BY <1>2 DEF Delist, DropRef
<1>4. /\ Unlinked(lock_list[c], t) \in Seq(Tasks) /\ NoRepeat(Unlinked(lock_list[c], t))
      /\ Len(Unlinked(lock_list[c], t)) = Len(lock_list[c]) - 1
      /\ \A u : Contains(Unlinked(lock_list[c], t), u) <=> Contains(lock_list[c], u) /\ u # t
      /\ Cardinality(Others(Unlinked(lock_list[c], t))) <= Cardinality(Others(lock_list[c]))
  BY <1>1, UnlinkedFacts
<1> DEFINE l == Unlinked(lock_list[c], t)
<1> HIDE DEF l
<1>5. lock_list' \in [Cpus -> Seq(Tasks)] /\ \A d \in Cpus : NoRepeat(lock_list'[d])
  BY <1>1, <1>3, <1>4
<1>6. \A d \in Cpus, u \in Tasks :
        Contains(lock_list'[d], u) <=> Contains(lock_list[d], u) /\ u # t
  BY <1>2, <1>3, <1>4
<1>7. \A d \in Cpus : Len(lock_list'[d]) = IF d = c THEN Len(lock_list[c]) - 1 ELSE Len(lock_list[d])
  BY <1>3, <1>4
<1>8. \A d \in Cpus : nr_tasks[d] = Len(lock_list[d]) /\ Len(lock_list'[d]) \in Nat
  BY <1>5, LenProperties DEF QueueShape, QueueBalanced
<1>9. \A d \in Cpus : nr_tasks'[d] = Len(lock_list'[d])
  BY <1>3, <1>7, <1>8 DEF QueueShape
<1>10. nr_tasks' \in [Cpus -> Nat]
  <2>1. nr_tasks' = [d \in Cpus |-> nr_tasks'[d]]
    BY <1>3 DEF QueueShape
  <2>2. QED BY <1>8, <1>9, <2>1
<1>11. enable' \in [Cpus -> BOOLEAN]
  <2>1. Reopen(nr_tasks'[c], enable[c]) \in BOOLEAN
    BY Zenon DEF Reopen
  <2>2. QED BY <1>3, <2>1, Zenon DEF QueueShape
<1>12. rq' \in [Tasks -> Cpus \union {Nobody}]
       /\ \A u \in Tasks, d \in Cpus : Contains(lock_list'[d], u) <=> rq'[u] = d
  BY <1>3, <1>6, TasksAssumption DEF QueueShape, QueueBalanced
<1>13. refs' \in [Tasks -> 0..1]
       /\ \A u \in Tasks : refs'[u] = IF OnList(u)' THEN 1 ELSE 0
  <2>1. refs[t] = 1
    BY DEF QueueShape, QueueBalanced, OnList
  <2>2. \A u \in Tasks : refs'[u] = IF u = t THEN 0 ELSE refs[u]
    BY <1>3, <2>1 DEF QueueShape
  <2>3. refs' \in [Tasks -> 0..1]
    BY <1>3, <2>1 DEF QueueShape
  <2>4. \A u \in Tasks : OnList(u)' <=> OnList(u) /\ u # t
    BY <1>6 DEF OnList
  <2>5. QED BY <2>2, <2>3, <2>4 DEF QueueShape, QueueBalanced
<1>14. \A d \in Cpus : Cardinality(Others(lock_list'[d])) <= MaxLockTasks + 1
  <2>1. \A d \in Cpus : /\ Cardinality(Others(lock_list'[d])) \in Nat
                        /\ Cardinality(Others(lock_list[d])) \in Nat
    BY <1>1, <1>5, OthersCounted
  <2>2. \A d \in Cpus : Cardinality(Others(lock_list'[d])) <= Cardinality(Others(lock_list[d]))
    BY <1>3, <1>4, <2>1
  <2>3. \A d \in Cpus : Cardinality(Others(lock_list[d])) <= MaxLockTasks + 1
    BY DEF QueueShape, OverByOne
  <2>4. QED BY <2>1, <2>2, <2>3, LimitAssumption
<1>15. QueueBalanced'
  BY <1>9, <1>12, <1>13 DEF QueueBalanced
<1>16. OverByOne'
  BY <1>14 DEF OverByOne, Others
<1>17. QED
  BY <1>5, <1>6, <1>10, <1>11, <1>12, <1>13, <1>15, <1>16 DEF QueueShape, NoRepeat

\* Taking a task off, with the run queue it is queued on or that it remembers.
LEMMA DequeueShape ==
  ASSUME QueueShape, NEW t \in Tasks, NEW c \in Cpus, OnList(t) => Contains(lock_list[c], t),
         Dequeue(t, c)
  PROVE  /\ QueueShape'
         /\ \A d \in Cpus, u \in Tasks :
              Contains(lock_list'[d], u) <=> Contains(lock_list[d], u) /\ u # t
<1>1. CASE OnList(t)
  BY <1>1, DelistShape DEF Dequeue
<1>2. CASE ~OnList(t)
  <2>1. UNCHANGED <<lock_list, nr_tasks, enable, rq, refs>>
    BY <1>2 DEF Dequeue
  <2>2. QueueShape'
    BY <2>1 DEF QueueShape, NoRepeat, QueueBalanced, OverByOne, OnList, Others
  <2>3. QED BY <1>2, <2>1, <2>2 DEF OnList
<1>3. QED BY <1>1, <1>2

\* Nothing about the lists changes.
LEMMA SameQueues ==
  ASSUME QueueShape, UNCHANGED <<lock_list, nr_tasks, enable, rq, refs>>
  PROVE  QueueShape'
BY DEF QueueShape, NoRepeat, QueueBalanced, OverByOne, OnList, Others

\* inc_task_count and list_add_tail: a task that is not a main thread joins only
\* a queue that is not above the limit.
LEMMA EnqueueShape ==
  ASSUME QueueShape, NEW t \in Tasks, NEW c \in Cpus, Enqueue(t, c)
  PROVE  /\ QueueShape'
         /\ \A d \in Cpus, u \in Tasks :
              Contains(lock_list'[d], u) => Contains(lock_list[d], u) \/ (u = t /\ d = c)
<1>1. CASE UNCHANGED <<lock_list, nr_tasks, enable, rq, refs>>
  BY <1>1, SameQueues
<1>2. CASE enable' = [enable EXCEPT ![c] = FALSE] /\ UNCHANGED <<lock_list, nr_tasks, rq, refs>>
  <2>1. enable' \in [Cpus -> BOOLEAN]
    BY <1>2 DEF QueueShape
  <2>2. QED
    BY <1>2, <2>1 DEF QueueShape, NoRepeat, QueueBalanced, OverByOne, OnList, Others
<1>3. CASE /\ ~OnList(t) /\ ~Full(t, c) /\ UNCHANGED enable
           /\ lock_list' = [lock_list EXCEPT ![c] = Append(@, t)]
           /\ nr_tasks' = [nr_tasks EXCEPT ![c] = @ + 1]
           /\ rq' = [rq EXCEPT ![t] = c]
           /\ TakeRef(t)
  <2>1. \A d \in Cpus : lock_list[d] \in Seq(Tasks) /\ NoRepeat(lock_list[d])
    BY DEF QueueShape
  <2>2. \A d \in Cpus : ~Contains(lock_list[d], t)
    BY <1>3 DEF OnList
  <2>3. /\ Append(lock_list[c], t) \in Seq(Tasks) /\ NoRepeat(Append(lock_list[c], t))
        /\ Len(Append(lock_list[c], t)) = Len(lock_list[c]) + 1
        /\ \A u : Contains(Append(lock_list[c], t), u) <=> Contains(lock_list[c], u) \/ u = t
        /\ t \in Mains => Others(Append(lock_list[c], t)) = Others(lock_list[c])
    BY <2>1, <2>2, AppendedFacts
  <2> DEFINE l == Append(lock_list[c], t)
  <2>4. lock_list' = [d \in Cpus |-> IF d = c THEN l ELSE lock_list[d]]
    BY <1>3 DEF QueueShape
  <2> HIDE DEF l
  <2>5. lock_list' \in [Cpus -> Seq(Tasks)] /\ \A d \in Cpus : NoRepeat(lock_list'[d])
    BY <2>1, <2>3, <2>4 DEF l
  <2>6. \A d \in Cpus, u \in Tasks :
          Contains(lock_list'[d], u) <=> Contains(lock_list[d], u) \/ (u = t /\ d = c)
    BY <2>3, <2>4 DEF l
  <2>7. \A d \in Cpus : nr_tasks[d] = Len(lock_list[d]) /\ Len(lock_list[d]) \in Nat
    BY <2>1, LenProperties DEF QueueShape, QueueBalanced
  <2>8. \A d \in Cpus : nr_tasks'[d] = Len(lock_list'[d])
    BY <1>3, <2>3, <2>4, <2>7 DEF QueueShape, l
  <2>9. nr_tasks' \in [Cpus -> Nat]
    BY <1>3, <2>7 DEF QueueShape
  <2>10. rq' \in [Tasks -> Cpus \union {Nobody}]
         /\ \A u \in Tasks, d \in Cpus : Contains(lock_list'[d], u) <=> rq'[u] = d
    BY <1>3, <2>2, <2>6 DEF QueueShape, QueueBalanced
  <2>11. refs' \in [Tasks -> 0..1]
         /\ \A u \in Tasks : refs'[u] = IF OnList(u)' THEN 1 ELSE 0
    <3>1. refs[t] = 0 /\ refs' = [refs EXCEPT ![t] = @ + 1]
      BY <1>3 DEF QueueShape, QueueBalanced, TakeRef
    <3>2. \A u \in Tasks : refs'[u] = IF u = t THEN 1 ELSE refs[u]
      BY <3>1 DEF QueueShape
    <3>3. refs' \in [Tasks -> 0..1]
      BY <3>1 DEF QueueShape
    <3>4. \A u \in Tasks : OnList(u)' <=> OnList(u) \/ u = t
      BY <2>6 DEF OnList
    <3>5. QED BY <3>2, <3>3, <3>4 DEF QueueShape, QueueBalanced
  <2>12. \A d \in Cpus : Cardinality(Others(lock_list'[d])) <= MaxLockTasks + 1
    <3> TAKE d \in Cpus
    <3>1. Cardinality(Others(lock_list[d])) <= MaxLockTasks + 1
      BY DEF QueueShape, OverByOne
    <3>2. CASE d # c
      BY <2>4, <3>1, <3>2
    <3>3. CASE d = c /\ t \in Mains
      BY <2>3, <2>4, <3>1, <3>3 DEF l
    <3>4. CASE d = c /\ t \notin Mains
      <4>1. nr_tasks[c] <= MaxLockTasks
        BY <1>3, <2>7, <3>4, LimitAssumption DEF Full
      <4>2. /\ Cardinality(Others(lock_list'[c])) \in Nat
            /\ Cardinality(Others(lock_list'[c])) <= Len(lock_list'[c])
        BY <2>5, OthersCounted
      <4>3. Len(lock_list'[c]) = nr_tasks[c] + 1
        BY <2>3, <2>4, <2>7 DEF l
      <4>4. QED BY <2>7, <3>4, <4>1, <4>2, <4>3, LimitAssumption
    <3>5. QED BY <3>2, <3>3, <3>4
  <2>13. QueueBalanced'
    BY <2>8, <2>10, <2>11 DEF QueueBalanced
  <2>14. OverByOne'
    BY <2>12 DEF OverByOne, Others
  <2>15. QED
    BY <1>3, <2>5, <2>6, <2>9, <2>10, <2>11, <2>13, <2>14 DEF QueueShape, NoRepeat
<1>4. QED BY <1>1, <1>2, <1>3 DEF Enqueue, Considered

----------------------------------------------------------------------------
(* The lists together with what the scheduler knows of the tasks on them.  *)

QueueInv ==
  /\ QueueShape
  /\ ListedAtHome
  /\ se \in [Tasks -> SchedEntity]
  /\ lock \in [Tasks -> {"none", "fresh", "late"}]
  /\ curr \in [Cpus -> Tasks \union {Nobody}]
  /\ protect \in BOOLEAN

\* Empty lists are balanced, whatever CPU each task starts on.
LEMMA QueueInitInv == QueueInit => QueueInv
<1> SUFFICES ASSUME QueueInit PROVE QueueInv
  OBVIOUS
<1>1. \A c \in Cpus : lock_list[c] = <<>>
  BY DEF QueueInit
<1>2. /\ <<>> \in Seq(Tasks) /\ Len(<<>>) = 0 /\ NoRepeat(<<>>) /\ Others(<<>>) = {}
      /\ \A u : ~Contains(<<>>, u)
  BY DEF NoRepeat, Others, Contains
<1>3. Cardinality({}) = 0
  BY FS_EmptySet
<1>4. QueueBalanced
  BY <1>1, <1>2, TasksAssumption DEF QueueInit, QueueBalanced, OnList
<1>5. OverByOne
  <2>1. \A c \in Cpus : Cardinality(Others(lock_list[c])) = 0
    BY <1>1, <1>2, <1>3, Zenon
  <2>2. 0 <= MaxLockTasks + 1
    BY LimitAssumption
  <2>3. QED BY <2>1, <2>2 DEF OverByOne
<1>6. QueueShape
  BY <1>1, <1>2, <1>4, <1>5 DEF QueueInit, QueueShape
<1>7. ListedAtHome
  BY <1>1, <1>2 DEF ListedAtHome
<1>8. se \in [Tasks -> SchedEntity]
  <2>1. \A c \in Cpus : [cpu |-> c, on_rq |-> "no", fair |-> TRUE, ux |-> FALSE,
                         init |-> FALSE, life |-> "live"] \in SchedEntity
    BY DEF SchedEntity
  <2>2. QED BY <2>1, Zenon DEF QueueInit
<1>9. QED BY <1>6, <1>7, <1>8 DEF QueueInit, QueueInv

\* trans_pick_next_lock_task and the pick around it choose a task that exists.
LEMMA PickTyped ==
  ASSUME QueueInv, NEW c \in Cpus
  PROVE  Pick(c).who \subseteq Tasks \union {Nobody}
<1>1. lock_list[c] \in Seq(Tasks)
  BY DEF QueueInv, QueueShape
<1>2. Usable(c) \subseteq DOMAIN lock_list[c]
  BY DEF Usable, Asked
<1>3. Usable(c) # {} => lock_list[c][First(Usable(c))] \in Tasks
  <2> SUFFICES ASSUME Usable(c) # {} PROVE lock_list[c][First(Usable(c))] \in Tasks
    OBVIOUS
  <2>1. DOMAIN lock_list[c] = 1..Len(lock_list[c]) /\ Len(lock_list[c]) \in Nat
    BY <1>1, LenProperties
  <2>2. Usable(c) \in SUBSET Nat
    BY <1>2, <2>1
  <2>3. \E i \in Usable(c) : \A j \in Usable(c) : i <= j
    BY <2>2, LeastElement
  <2>4. First(Usable(c)) \in Usable(c)
    BY <2>3 DEF First
  <2>5. QED BY <1>1, <1>2, <2>1, <2>4, ElementOfSeq
<1>4. Runnable(c) \subseteq Tasks
  BY DEF Runnable
<1>5. (IF Usable(c) # {} THEN {lock_list[c][First(Usable(c))]} ELSE Runnable(c)) \subseteq Tasks
  BY <1>3, <1>4
<1>6. QED BY <1>4, <1>5 DEF Pick

\* A listed task is on the run queue of that CPU, in the step it leaves too.
LEMMA ListedWhere ==
  ASSUME QueueInv, NEW t \in Tasks, OnList(t)
  PROVE  /\ se[t].on_rq = "queued" /\ se[t].cpu \in Cpus /\ rq[t] \in Cpus
         /\ Contains(lock_list[se[t].cpu], t) /\ Contains(lock_list[rq[t]], t)
BY DEF QueueInv, ListedAtHome, Queued, OnList, QueueShape, QueueBalanced

\* Forgetting locks and enqueueing keep the protections in their range.
LEMMA LockTyped ==
  ASSUME QueueInv
  PROVE  /\ \A ts : Forgotten(ts) \in [Tasks -> {"none", "fresh", "late"}]
         /\ \A t \in Tasks, c \in Cpus :
              Enqueue(t, c) => lock' \in [Tasks -> {"none", "fresh", "late"}]
<1>1. lock \in [Tasks -> {"none", "fresh", "late"}]
  BY DEF QueueInv
<1>2. \A ts : Forgotten(ts) \in [Tasks -> {"none", "fresh", "late"}]
  BY <1>1 DEF Forgotten
<1>3. ASSUME NEW t \in Tasks, NEW c \in Cpus, Enqueue(t, c)
      PROVE  lock' = lock \/ lock' = Forgotten({t})
  BY <1>3 DEF Enqueue
<1>4. QED BY <1>1, <1>2, <1>3

\* A task leaves its run queue, and its list with it; nothing else moves.
LEMMA LeaveStep ==
  ASSUME QueueInv, NEW t \in Tasks, NEW e \in SchedEntity, Dequeue(t, se[t].cpu),
         se' = [se EXCEPT ![t] = e]
  PROVE  QueueShape' /\ ListedAtHome' /\ se' \in [Tasks -> SchedEntity]
<1>1. QueueShape /\ se[t].cpu \in Cpus
  BY DEF QueueInv, SchedEntity
<1>2. /\ QueueShape'
      /\ \A d \in Cpus, u \in Tasks :
           Contains(lock_list'[d], u) <=> Contains(lock_list[d], u) /\ u # t
  BY <1>1, ListedWhere, DequeueShape
<1>3. \A d \in Cpus, u \in Tasks : Contains(lock_list[d], u) => Queued(u, d)
  BY DEF QueueInv, ListedAtHome
<1>4. \A u \in Tasks : u # t => se'[u] = se[u]
  BY DEF QueueInv
<1>5. ListedAtHome'
  BY <1>2, <1>3, <1>4 DEF ListedAtHome, Queued
<1>6. QED BY <1>2, <1>5 DEF QueueInv

\* A task that was on no run queue is put on one, and perhaps on its list.
LEMMA JoinStep ==
  ASSUME QueueInv, NEW t \in Tasks, NEW c \in Cpus, NEW e \in SchedEntity, Enqueue(t, c),
         se[t].on_rq # "queued", e.on_rq = "queued", e.cpu = c, se' = [se EXCEPT ![t] = e]
  PROVE  QueueShape' /\ ListedAtHome' /\ se' \in [Tasks -> SchedEntity]
<1>1. /\ QueueShape'
      /\ \A d \in Cpus, u \in Tasks :
           Contains(lock_list'[d], u) => Contains(lock_list[d], u) \/ (u = t /\ d = c)
  BY EnqueueShape DEF QueueInv
<1>2. \A d \in Cpus, u \in Tasks : Contains(lock_list[d], u) => Queued(u, d) /\ u # t
  BY DEF QueueInv, ListedAtHome, Queued
<1>3. \A u \in Tasks : se'[u] = IF u = t THEN e ELSE se[u]
  BY DEF QueueInv
<1>4. ASSUME NEW d \in Cpus, NEW u \in Tasks, Contains(lock_list'[d], u) PROVE Queued(u, d)'
  <2>1. CASE u = t /\ d = c
    BY <1>3, <2>1 DEF Queued
  <2>2. CASE Contains(lock_list[d], u)
    BY <1>2, <1>3, <2>2 DEF Queued
  <2>3. QED BY <1>1, <1>4, <2>1, <2>2
<1>5. ListedAtHome'
  BY <1>4 DEF ListedAtHome
<1>6. QED BY <1>1, <1>5 DEF QueueInv

\* A task changes, but not where it is queued; the lists do not change.
LEMMA StayStep ==
  ASSUME QueueInv, NEW t \in Tasks, NEW e \in SchedEntity,
         UNCHANGED <<lock_list, nr_tasks, enable, rq, refs>>,
         se' = [se EXCEPT ![t] = e], e.cpu = se[t].cpu, e.on_rq = se[t].on_rq
  PROVE  QueueShape' /\ ListedAtHome' /\ se' \in [Tasks -> SchedEntity]
<1>1. QueueShape'
  BY SameQueues DEF QueueInv
<1>2. \A u \in Tasks : se'[u].cpu = se[u].cpu /\ se'[u].on_rq = se[u].on_rq
  BY DEF QueueInv
<1>3. ListedAtHome'
  BY <1>2 DEF QueueInv, ListedAtHome, Queued
<1>4. QED BY <1>1, <1>3 DEF QueueInv

\* What the actions write into a task's record keeps its type.
LEMMA EntityTyped ==
  ASSUME NEW s \in SchedEntity
  PROVE  /\ \A l \in {"live", "exiting", "dead"} :
              /\ [s EXCEPT !.on_rq = "no", !.life = l] \in SchedEntity
              /\ [s EXCEPT !.life = l] \in SchedEntity
         /\ \A c \in Cpus : [s EXCEPT !.cpu = c, !.on_rq = "queued"] \in SchedEntity
         /\ \A c \in Cpus, f \in BOOLEAN :
              [s EXCEPT !.cpu = c, !.fair = f, !.on_rq = "moving"] \in SchedEntity
         /\ [s EXCEPT !.on_rq = "queued"] \in SchedEntity
         /\ [s EXCEPT !.life = "live", !.ux = FALSE, !.init = FALSE, !.fair = TRUE] \in SchedEntity
         /\ \A u, i \in BOOLEAN : [s EXCEPT !.ux = u, !.init = i] \in SchedEntity
         /\ s.cpu \in Cpus /\ s.life \in {"live", "exiting", "dead"}
<1>1. \A l \in {"live", "exiting", "dead"} :
        /\ [s EXCEPT !.on_rq = "no", !.life = l] \in SchedEntity
        /\ [s EXCEPT !.life = l] \in SchedEntity
  BY DEF SchedEntity
<1>2. \A c \in Cpus : [s EXCEPT !.cpu = c, !.on_rq = "queued"] \in SchedEntity
  BY DEF SchedEntity
<1>3. \A c \in Cpus, f \in BOOLEAN :
        [s EXCEPT !.cpu = c, !.fair = f, !.on_rq = "moving"] \in SchedEntity
  BY DEF SchedEntity
<1>4. /\ [s EXCEPT !.on_rq = "queued"] \in SchedEntity
      /\ [s EXCEPT !.life = "live", !.ux = FALSE, !.init = FALSE, !.fair = TRUE] \in SchedEntity
      /\ \A u, i \in BOOLEAN : [s EXCEPT !.ux = u, !.init = i] \in SchedEntity
      /\ s.cpu \in Cpus /\ s.life \in {"live", "exiting", "dead"}
  BY DEF SchedEntity
<1>5. QED BY <1>1, <1>2, <1>3, <1>4

\* Steps of the scheduler, which move tasks on and off the run queues.
LEMMA SchedulerStep ==
  ASSUME QueueInv, NEW t \in Tasks, NEW c \in Cpus, NEW fair \in BOOLEAN,
         Deactivate(t) \/ Activate(t, c) \/ Detach(t, c, fair) \/ Attach(t)
  PROVE  QueueInv'
<1> DEFINE l == IF se[t].life = "exiting" THEN "dead" ELSE se[t].life
           slept == [se[t] EXCEPT !.on_rq = "no", !.life = l]
           woken == [se[t] EXCEPT !.cpu = c, !.on_rq = "queued"]
           gone == [se[t] EXCEPT !.cpu = c, !.fair = fair, !.on_rq = "moving"]
           come == [se[t] EXCEPT !.on_rq = "queued"]
<1>1. se \in [Tasks -> SchedEntity] /\ curr \in [Cpus -> Tasks \union {Nobody}]
      /\ lock \in [Tasks -> {"none", "fresh", "late"}] /\ protect \in BOOLEAN
  BY DEF QueueInv
<1>2. se[t] \in SchedEntity /\ se[t].cpu \in Cpus /\ l \in {"live", "exiting", "dead"}
  <2>1. se[t] \in SchedEntity
    BY <1>1
  <2>2. se[t].cpu \in Cpus /\ se[t].life \in {"live", "exiting", "dead"}
    BY <2>1 DEF SchedEntity
  <2>3. QED BY <2>1, <2>2
<1>3. /\ slept \in SchedEntity /\ woken \in SchedEntity
      /\ gone \in SchedEntity /\ come \in SchedEntity
  <2> HIDE DEF l
  <2>1. QED BY <1>2, EntityTyped
<1>4. /\ woken.cpu = c /\ woken.on_rq = "queued"
      /\ come.cpu = se[t].cpu /\ come.on_rq = "queued"
  BY <1>2 DEF SchedEntity
<1>5. CASE Deactivate(t)
  <2>1. se' = [se EXCEPT ![t] = slept]
    BY <1>5 DEF Deactivate
  <2> HIDE DEF slept
  <2>2. curr' \in [Cpus -> Tasks \union {Nobody}] /\ UNCHANGED <<lock, protect>>
    BY <1>1, <1>5 DEF Deactivate
  <2>3. Dequeue(t, se[t].cpu)
    BY <1>5 DEF Deactivate
  <2>4. QED BY <1>1, <1>3, <2>1, <2>2, <2>3, LeaveStep DEF QueueInv
<1>6. CASE Activate(t, c)
  <2>1. se' = [se EXCEPT ![t] = woken] /\ UNCHANGED <<curr, protect>>
        /\ Enqueue(t, c) /\ se[t].on_rq # "queued"
    BY <1>6 DEF Activate
  <2> HIDE DEF woken
  <2>2. lock' \in [Tasks -> {"none", "fresh", "late"}]
    BY <2>1, LockTyped
  <2>3. QED BY <1>1, <1>3, <1>4, <2>1, <2>2, JoinStep DEF QueueInv
<1>7. CASE Detach(t, c, fair)
  <2>1. se' = [se EXCEPT ![t] = gone] /\ UNCHANGED <<lock, curr, protect>>
        /\ Dequeue(t, se[t].cpu)
    BY <1>7 DEF Detach
  <2> HIDE DEF gone
  <2>2. QED BY <1>1, <1>3, <2>1, LeaveStep DEF QueueInv
<1>8. CASE Attach(t)
  <2>1. se' = [se EXCEPT ![t] = come] /\ UNCHANGED <<curr, protect>>
        /\ Enqueue(t, se[t].cpu) /\ se[t].on_rq # "queued"
    BY <1>8 DEF Attach
  <2> HIDE DEF come
  <2>2. lock' \in [Tasks -> {"none", "fresh", "late"}]
    BY <1>2, <2>1, LockTyped
  <2>3. QED BY <1>1, <1>2, <1>3, <1>4, <2>1, <2>2, JoinStep DEF QueueInv
<1>9. QED BY <1>5, <1>6, <1>7, <1>8

\* The first tag request: its task leaves the list by the run queue it remembers.
LEMMA TagStep ==
  ASSUME QueueInv, NEW t \in Tasks, Tag(t)
  PROVE  QueueInv'
<1> DEFINE e == [se[t] EXCEPT !.ux = TRUE, !.init = TRUE]
<1>1. se \in [Tasks -> SchedEntity] /\ curr \in [Cpus -> Tasks \union {Nobody}]
      /\ lock \in [Tasks -> {"none", "fresh", "late"}] /\ protect \in BOOLEAN
  BY DEF QueueInv
<1>2. se' = [se EXCEPT ![t] = e] /\ UNCHANGED <<curr, protect>>
  BY <1>1 DEF Tag
<1>3. e \in SchedEntity /\ e.cpu = se[t].cpu /\ e.on_rq = se[t].on_rq
  <2>1. se[t] \in SchedEntity
    BY <1>1
  <2>2. e \in SchedEntity
    BY <2>1, EntityTyped
  <2>3. e.cpu = se[t].cpu /\ e.on_rq = se[t].on_rq
    BY <2>1 DEF SchedEntity
  <2>4. QED BY <2>2, <2>3
<1> HIDE DEF e
<1>4. lock' \in [Tasks -> {"none", "fresh", "late"}]
  BY <1>1, LockTyped DEF Tag
<1>5. CASE UNCHANGED <<lock_list, nr_tasks, enable, rq, refs>>
  BY <1>1, <1>2, <1>3, <1>4, <1>5, StayStep DEF QueueInv
<1>6. CASE rq[t] # Nobody /\ Dequeue(t, rq[t])
  <2>1. rq[t] \in Cpus /\ Contains(lock_list[rq[t]], t)
    BY <1>6 DEF QueueInv, QueueShape, QueueBalanced
  <2>2. /\ QueueShape'
        /\ \A d \in Cpus, u \in Tasks :
             Contains(lock_list'[d], u) <=> Contains(lock_list[d], u) /\ u # t
    BY <1>6, <2>1, DequeueShape DEF QueueInv
  <2>3. \A u \in Tasks : se'[u].cpu = se[u].cpu /\ se'[u].on_rq = se[u].on_rq
    BY <1>1, <1>2, <1>3
  <2>4. ListedAtHome'
    BY <2>2, <2>3 DEF QueueInv, ListedAtHome, Queued
  <2>5. QED BY <1>1, <1>2, <1>3, <1>4, <2>2, <2>4 DEF QueueInv
<1>7. QED BY <1>5, <1>6 DEF Tag

\* Every step keeps the lists right.
LEMMA QueueStep ==
  ASSUME QueueInv, [QueueNext]_queueVars
  PROVE  QueueInv'
<1>1. se \in [Tasks -> SchedEntity] /\ curr \in [Cpus -> Tasks \union {Nobody}]
      /\ lock \in [Tasks -> {"none", "fresh", "late"}] /\ protect \in BOOLEAN
  BY DEF QueueInv
<1>2. ASSUME UNCHANGED <<se, lock_list, nr_tasks, enable, rq, refs>>,
             lock' \in [Tasks -> {"none", "fresh", "late"}],
             curr' \in [Cpus -> Tasks \union {Nobody}], protect' \in BOOLEAN
      PROVE  QueueInv'
  <2>1. QueueShape'
    BY <1>2, SameQueues DEF QueueInv
  <2>2. ListedAtHome'
    BY <1>2 DEF QueueInv, ListedAtHome, Queued
  <2>3. QED BY <1>1, <1>2, <2>1, <2>2 DEF QueueInv
<1>3. ASSUME NEW c \in Cpus, Schedule(c) PROVE QueueInv'
  <2>1. PICK t \in Pick(c).who : curr' = [curr EXCEPT ![c] = t]
    BY <1>3 DEF Schedule
  <2>2. curr' \in [Cpus -> Tasks \union {Nobody}]
    BY <1>1, <2>1, PickTyped
  <2>3. lock' \in [Tasks -> {"none", "fresh", "late"}]
    BY <1>3, LockTyped DEF Schedule
  <2>4. QED BY <1>1, <1>2, <1>3, <2>2, <2>3 DEF Schedule
<1>4. ASSUME NEW t \in Tasks, Deactivate(t) \/ Attach(t) PROVE QueueInv'
  <2>1. TRUE \in BOOLEAN /\ se[t].cpu \in Cpus
    BY <1>1, EntityTyped
  <2>2. QED BY <1>4, <2>1, SchedulerStep
<1>5. ASSUME NEW t \in Tasks, NEW c \in Cpus,
             Activate(t, c) \/ \E fair \in BOOLEAN : Detach(t, c, fair)
      PROVE  QueueInv'
  BY <1>5, SchedulerStep
<1>6. ASSUME NEW t \in Tasks, NEW e \in SchedEntity, UNCHANGED <<lock_list, nr_tasks, enable, rq, refs>>,
             se' = [se EXCEPT ![t] = e], e.cpu = se[t].cpu, e.on_rq = se[t].on_rq,
             lock' \in [Tasks -> {"none", "fresh", "late"}], UNCHANGED <<curr, protect>>
      PROVE  QueueInv'
  BY <1>1, <1>6, StayStep DEF QueueInv
<1>7. ASSUME NEW t \in Tasks, Exit(t) PROVE QueueInv'
  <2> DEFINE e == [se[t] EXCEPT !.life = "exiting"]
  <2>1. e \in SchedEntity /\ e.cpu = se[t].cpu /\ e.on_rq = se[t].on_rq
    <3>1. se[t] \in SchedEntity
      BY <1>1
    <3>2. e \in SchedEntity
      BY <3>1, EntityTyped
    <3>3. e.cpu = se[t].cpu /\ e.on_rq = se[t].on_rq
      BY <3>1 DEF SchedEntity
    <3>4. QED BY <3>2, <3>3
  <2>2. se' = [se EXCEPT ![t] = e]
    BY <1>7 DEF Exit
  <2> HIDE DEF e
  <2>3. QED BY <1>1, <1>6, <1>7, <2>1, <2>2 DEF Exit
<1>8. ASSUME NEW t \in Tasks, FreeAndFork(t) PROVE QueueInv'
  <2> DEFINE e == [se[t] EXCEPT !.life = "live", !.ux = FALSE, !.init = FALSE, !.fair = TRUE]
  <2>1. e \in SchedEntity /\ e.cpu = se[t].cpu /\ e.on_rq = se[t].on_rq
    <3>1. se[t] \in SchedEntity
      BY <1>1
    <3>2. e \in SchedEntity
      BY <3>1, EntityTyped
    <3>3. e.cpu = se[t].cpu /\ e.on_rq = se[t].on_rq
      BY <3>1 DEF SchedEntity
    <3>4. QED BY <3>2, <3>3
  <2>2. se' = [se EXCEPT ![t] = e]
    BY <1>8 DEF FreeAndFork
  <2> HIDE DEF e
  <2>3. lock' \in [Tasks -> {"none", "fresh", "late"}]
    BY <1>8, LockTyped DEF FreeAndFork
  <2>4. QED BY <1>1, <1>6, <1>8, <2>1, <2>2, <2>3 DEF FreeAndFork
<1>9. ASSUME NEW t \in Tasks, NEW init \in BOOLEAN, Untag(t, init) PROVE QueueInv'
  <2> DEFINE e == [se[t] EXCEPT !.ux = FALSE, !.init = init]
  <2>1. e \in SchedEntity /\ e.cpu = se[t].cpu /\ e.on_rq = se[t].on_rq
    <3>1. se[t] \in SchedEntity
      BY <1>1
    <3>2. e \in SchedEntity
      BY <3>1, EntityTyped
    <3>3. e.cpu = se[t].cpu /\ e.on_rq = se[t].on_rq
      BY <3>1 DEF SchedEntity
    <3>4. QED BY <3>2, <3>3
  <2>2. se' = [se EXCEPT ![t] = e]
    BY <1>9 DEF Untag
  <2> HIDE DEF e
  <2>3. QED BY <1>1, <1>6, <1>9, <2>1, <2>2 DEF Untag
<1>10. ASSUME NEW t \in Tasks, NEW p \in {"none", "fresh", "late"}, LockStep(t, p) PROVE QueueInv'
  BY <1>1, <1>2, <1>10 DEF LockStep
<1>11. CASE Switch
  BY <1>1, <1>2, <1>11 DEF Switch
<1>12. CASE UNCHANGED queueVars
  BY <1>1, <1>2, <1>12 DEF queueVars
<1>13. QED
  BY <1>3, <1>4, <1>5, <1>7, <1>8, <1>9, <1>10, <1>11, <1>12, TagStep DEF QueueNext

\* The invariant, and what it is there for.
LEMMA QueueInvariance == QueueSpec => []QueueInv
BY QueueInitInv, QueueStep, PTL DEF QueueSpec

\* nr_tasks is the length of the list, a task reference is held exactly while a
\* task is listed, and tts->rq names the list: inc_task_count, dec_task_count and
\* the list operations stay together in every hook.
THEOREM CountsMatchLists == QueueSpec => []QueueBalanced
<1>1. QueueInv => QueueBalanced
  BY DEF QueueInv, QueueShape
<1>2. QED BY <1>1, QueueInvariance, PTL

\* A task on a lock list is queued on that CPU: the pick never hands the
\* scheduler a sleeping task or that of another CPU.
THEOREM ListedTasksAtHome == QueueSpec => []ListedAtHome
<1>1. QueueInv => ListedAtHome
  BY DEF QueueInv
<1>2. QED BY <1>1, QueueInvariance, PTL

\* The comparisons with MAX_LOCK_TASKS let one task more join than the comments
\* above them say, and never a second, whatever number of main threads joins past
\* the limit and whatever the flag was before.
THEOREM OthersBounded == QueueSpec => []OverByOne
<1>1. QueueInv => OverByOne
  BY DEF QueueInv, QueueShape
<1>2. QED BY <1>1, QueueInvariance, PTL

\* Every variable keeps its type.
THEOREM QueueTypeCorrect == QueueSpec => []QueueTypeOK
<1>1. QueueInv => QueueTypeOK
  BY DEF QueueInv, QueueShape, QueueTypeOK
<1>2. QED BY <1>1, QueueInvariance, PTL

----------------------------------------------------------------------------
(* The two parts together.                                                 *)

\* The protection of LockQueue's task t is the one LockInfo computes from the task's
\* record, and only that changes.
Shared(t) == se[t].life # "dead" /\ lock[t] = Prot(info)
LockOnly(t) ==
  /\ lock' = [lock EXCEPT ![t] = Prot(info')]
  /\ UNCHANGED <<se, lock_list, nr_tasks, enable, rq, refs, curr, protect>>

\* A promised step is one of LockQueue.
LEMMA PromisedIsLockStep ==
  ASSUME NEW t \in Tasks, QueueTypeOK, Shared(t), LockOnly(t),
         [Promise!Next]_(Promise!protVars)
  PROVE  LockStep(t, Prot(info')) \/ UNCHANGED queueVars
<1>1. Prot(info') \in {"none", "fresh", "late"}
  BY DEF Prot
<1>2. Prot(info') = "late" => Prot(info) \in {"fresh", "late"}
  BY DEF Promise!Next, Promise!protVars, Promise!Acquire, Promise!Wait, Promise!Refresh,
         Promise!Release, Promise!Elapse, Promise!Forget
<1>3. lock[t] = Prot(info)
  BY DEF Shared
<1>4. CASE Prot(info') = Prot(info)
  <2>1. lock' = [lock EXCEPT ![t] = lock[t]]
    BY <1>3, <1>4 DEF LockOnly
  <2>2. lock' = lock
    BY <2>1 DEF QueueTypeOK
  <2>3. QED BY <2>2 DEF LockOnly, queueVars
<1>5. CASE Prot(info') # Prot(info)
  BY <1>2, <1>3, <1>5 DEF LockStep, LockOnly, Shared
<1>6. QED BY <1>4, <1>5

\* LockQueue assumes no more of a task's locks than the hooks do: whatever a hook of
\* LockInfo does to the record of a live task, what the queue's hooks then read of it
\* (task_inlock_protect) has taken a step LockQueue allows, or none.
THEOREM HooksAreLockSteps ==
  ASSUME NEW t \in Tasks
  PROVE  Spec => [][QueueTypeOK /\ Shared(t) /\ LockOnly(t)
                      => LockStep(t, Prot(info')) \/ UNCHANGED queueVars]_infoVars
<1>1. IInv /\ [Next]_infoVars =>
        [QueueTypeOK /\ Shared(t) /\ LockOnly(t)
           => LockStep(t, Prot(info')) \/ UNCHANGED queueVars]_infoVars
  <2> SUFFICES ASSUME IInv, [Next]_infoVars, QueueTypeOK, Shared(t), LockOnly(t)
               PROVE  LockStep(t, Prot(info')) \/ UNCHANGED queueVars
    OBVIOUS
  <2>1. [Promise!Next]_(Promise!protVars)
    BY PromiseStep
  <2>2. QED BY <2>1, PromisedIsLockStep
<1>2. QED BY Invariance, <1>1, PTL DEF Spec

=============================================================================

------------------------------ MODULE MCLocks -------------------------------
(* Both parts of trans_locking.c: the record of one task and the queues.    *)
(* What they share is the protection of a task, and LockProofs shows that   *)
(* the queues allow whatever the record does to it.  So they are checked    *)
(* side by side: only one of them leaves its initial states at a time.      *)
EXTENDS LockInfo, LockQueue, TLC

CONSTANTS t1, t2, t3, c1, c2

TwoTypes   == {"mutex", "rwsem"}
OneType    == {"mutex"}
ThreeTasks == {t1, t2, t3}
OnlyT1     == {t1}
OnlyT3     == {t3}
TwoCpus    == {c1, c2}
NoSet      == {}

\* The CPUs are interchangeable.
CpuSymmetry == Permutations(TwoCpus)

\* The record moves while all tasks sleep on one CPU, the queues while it is fresh.
Asleep == QueueInit /\ \A t, u \in Tasks : se[t].cpu = se[u].cpu

LocksInit == Init /\ QueueInit
LocksNext ==
  \/ Asleep /\ Next /\ UNCHANGED queueVars
  \/ Init /\ QueueNext /\ UNCHANGED infoVars
LocksSpec == LocksInit /\ [][LocksNext]_<<infoVars, queueVars>>
=============================================================================

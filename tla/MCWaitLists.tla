---------------------------- MODULE MCWaitLists -----------------------------
(* Three plain or UX tasks, a real-time one that is a surfaceflinger target. *)
EXTENDS WaitLists, TLC
CONSTANTS u, v, z, r, k1

WaitTasks == {u, v, z, r}
WaitRt    == {r}
WaitPrio  == [t \in WaitRt |-> 50]
WaitKeys  == {k1}
WaitKinds == {"own", "rwsem"}

FairSymmetry == Permutations({u, v, z})

\* Bound: one of the three locks is in use at a time.  They share only the
\* tasks' tags, which TagsChange changes as another lock would.
OneLock == \/ rwsem.owner = None /\ rwsem.list = <<>> /\ nodes = <<>>
           \/ mutex.owner = None /\ mutex.list = <<>> /\ nodes = <<>>
           \/ mutex.owner = None /\ mutex.list = <<>> /\ rwsem.owner = None /\ rwsem.list = <<>>
=============================================================================

----------------------------- MODULE MCUxShare -----------------------------
(* Small instances of UxShare for TLC.                                     *)
EXTENDS UxShare, TLC

CONSTANTS t1, t2, c1, h1, h2

\* Priorities are renumbered: what is lent to a task without tags of its own,
\* and what userland and futex users ask for one level above it.
LowTags   == [NoTags EXCEPT !.sprio = 1]
OwnerTags == [NoTags EXCEPT !.sprio = 2, !.flags = {"EXACT", "FUTEX"}]

MCSliceLen == [s \in {0} |-> 1]
MCShareLimit == [k \in ShareTypes |-> IF k = "FUTEX" THEN 1 ELSE 2]

OneTask  == {t1}
OtherTask == {t2}
TwoTasks == {t1, t2}
OneCpu   == {c1}
OneCtx   == {h1}
TwoCtx   == {h1, h2}
NoSet    == {}

\* The process of t2 has one binder thread; nobody leads a process of workers.
OwnLooper   == [p \in OtherTask |-> {p}]
NobodyLoops == [p \in NoSet |-> {}]

LowRequests  == {LowTags, NoTags}

MutexOnly == {"MUTEX"}
AllButMutex == {"FUTEX", "BINDER", "RWSEM"}
ZeroSlice == {0}

\* Contexts and tasks are alike where no task is a target, main or real-time.
Alike == Permutations(Ctx) \union Permutations(Tasks)

FixedFeatures == {{"DEFAULT", "UX_SHARE"}}
NoScene     == {{}}

=============================================================================

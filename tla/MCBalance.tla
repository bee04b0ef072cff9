----------------------------- MODULE MCBalance ------------------------------
(* A little CPU and a big one, or a little one and two big ones, with two    *)
(* UX tasks and a surfaceflinger task.                                      *)
EXTENDS Balance, TLC
CONSTANTS u, v, r

ThreeCpus  == 0..2
TwoCpus    == 0..1
LittleBig  == [c \in TwoCpus |-> IF c < 1 THEN 300 ELSE 1024]
TwoBig     == [c \in ThreeCpus |-> IF c < 1 THEN 300 ELSE 1024]
AllTasks   == {u, v, r}
UxOnes     == {u, v}
RtOnes     == {r}
PinnedOnes == {v}
NoSet      == {}
UxAlike    == Permutations(UxOnes)
OneMoves   == {u}
BigCpu     == {1}
FirstCpu   == {0}

\* Bound: at most one task is late, marked for little CPUs or pinned, or one CPU
\* out of service, at a time.
OneChange ==
  Cardinality(late) + Cardinality(cpuL) + Cardinality({t \in Tasks : mask[t] # Cpus})
    + Cardinality({c \in Cpus : avail[c] # "up"}) <= 1

\* Bound: at most two CPUs are in the middle of a balance at a time.
TwoBalance ==
  Cardinality({c \in Cpus : \/ stop[c].fn # "none" \/ lb[c].irqPid # None
                            \/ scan[c] # None \/ newidle[c] # "no"}) <= 2
=============================================================================

------------------------------ MODULE CpuOrder ------------------------------
(***************************************************************************)
(* The clusters of a machine and the order in which trans_balance.c walks  *)
(* them when it looks for a CPU for a task or for a task for a CPU.        *)
(***************************************************************************)
EXTENDS Integers, FiniteSets, Sequences

CONSTANTS
  Cpus,        \* CPU numbers
  Capacity     \* CPU -> its compute capacity

ASSUME CpusAssumption == Cpus \subseteq Nat /\ IsFiniteSet(Cpus)
ASSUME CapacityAssumption == Capacity \in [Cpus -> Nat \ {0}]

\* build_ux_sched_domains: a cluster is a run of CPUs of one capacity, and
\* clusters are numbered in the order of their CPUs.  CPUs whose capacity is
\* not known belong to no cluster; they are not in Cpus.
StartsCluster(c) ==
  ~\E p \in Cpus : /\ p < c /\ Capacity[p] = Capacity[c]
                   /\ \A d \in Cpus : d < c => d <= p
Starts     == {c \in Cpus : StartsCluster(c)}
ClusterId  == [c \in Cpus |-> Cardinality({d \in Starts : d <= c}) - 1]
Cluster(c) == ClusterId[c]
ClusterNr  == Cardinality(Starts)

\* build_trans_cpu_array panics when there is another number of clusters.
ASSUME ClustersAssumption == ClusterNr \in 1..3

\* The code never compares clusters: cluster 0 is little, and a higher number
\* means more capacity, because devices number their CPUs in that order.
ASSUME LittleFirstAssumption ==
  \A c, d \in Cpus : c < d => Capacity[c] <= Capacity[d]

IsLittle(c) == Cluster(c) = 0
LittleCpus  == {c \in Cpus : IsLittle(c)}

\* cpu_arrays_init_x11, _x22 and _x33, as build_trans_cpu_array picks them.
CpuArray ==
  CASE ClusterNr = 1 -> << <<0>>, <<0>> >>
    [] ClusterNr = 2 -> << <<0, 1>>, <<1, 0>>, <<0, 1>>, <<1, 0>> >>
    [] OTHER         -> << <<0, 1, 2>>, <<1, 2, 0>>, <<2, 1, 0>>,
                           <<0, 1, 2>>, <<1, 0, 2>>, <<2, 1, 0>> >>
Walk(order, count) == SubSeq(CpuArray[order + 1], 1, count)
NoWalk == <<>>

\* calc_order_idx, by migration type; NoWalk where it returns false.  The types
\* DOWN_MIGR, UP_MIGR and NORMAL_MIGR are not used by any caller.
DownWalk(cluster) ==
  IF ClusterNr = 1 \/ cluster = 0 THEN NoWalk ELSE Walk(cluster + ClusterNr - 1, cluster)
UpWalk(cluster) ==
  IF ClusterNr = 1 \/ cluster > 0 THEN NoWalk ELSE Walk(1, ClusterNr - 1)
NormalWalk(cluster) ==
  Walk(cluster, IF cluster = ClusterNr - 1 /\ ClusterNr >= 3 THEN ClusterNr - 1
                ELSE ClusterNr - cluster)
\* Mutant: a CPU that goes idle looks at the next larger cluster as well.
NewidleWalkPast(cluster) ==
  Walk(0, IF cluster + 1 < ClusterNr THEN cluster + 2 ELSE ClusterNr)
NewidleWalk(cluster) == Walk(0, cluster + 1)
PullRunningWalk(cluster) ==
  IF ClusterNr = 1 \/ cluster = 0 THEN NoWalk ELSE Walk(0, cluster)
PullRunnableWalk(cluster) ==
  IF ClusterNr = 1 \/ cluster = 0 THEN NoWalk ELSE Walk(0, cluster + 1)
\* WAKEUP: critical tasks start at the middle cluster, unless userland asked for
\* little CPUs; an RT task starts at the cluster it was given.
CriticalWalk(cpuL) ==
  IF cpuL THEN Walk(0, 1) ELSE Walk(IF ClusterNr > 1 THEN 1 ELSE 0, ClusterNr)
RtWalk(preferred) == Walk(preferred, ClusterNr)

\* The first CPU of S that a walk meets: by cluster, then by number.
Place(walk, c) == CHOOSE i \in DOMAIN walk : walk[i] = Cluster(c)
OnWalk(walk, c) == \E i \in DOMAIN walk : walk[i] = Cluster(c)
FirstOn(walk, S) ==
  CHOOSE c \in S : \A d \in S : \/ Place(walk, c) < Place(walk, d)
                                \/ Place(walk, c) = Place(walk, d) /\ c <= d
=============================================================================

--------------------------- MODULE BalanceProofs ---------------------------
(***************************************************************************)
(* Proofs about Balance for any CPUs in one to three clusters and any      *)
(* tasks: how the hand-shake of requests, stop work and migrations keeps   *)
(* its promises although everything a CPU has seen of another may have     *)
(* changed when it acts.                                                   *)
(***************************************************************************)
EXTENDS Balance, ListFacts

----------------------------------------------------------------------------
(* Clusters and walks.                                                     *)

\* A CPU belongs to one of the clusters: the CPU of the smallest number starts
\* one.
LEMMA ClusterRange ==
  /\ ClusterNr \in 1..3
  /\ \A c \in Cpus : Cluster(c) \in 0..ClusterNr-1
<1>1. ClusterNr \in 1..3
  BY ClustersAssumption
<1>2. ASSUME NEW c \in Cpus PROVE Cluster(c) \in 0..ClusterNr-1
  <2> DEFINE S == {d \in Starts : d <= c}
  <2>1. IsFiniteSet(Starts)
    BY CpusAssumption, FS_Subset DEF Starts
  <2>2. IsFiniteSet(S) /\ Cardinality(S) <= ClusterNr
    BY <2>1, FS_Subset DEF ClusterNr
  <2>3. PICK m \in Cpus : \A d \in Cpus : m <= d
    BY CpusAssumption, LeastElement
  <2>4. \A p \in Cpus : ~(p < m)
    BY <2>3, CpusAssumption
  <2>5. m \in S
    BY <2>3, <2>4 DEF Starts, StartsCluster
  <2>6. Cardinality(S) \in Nat /\ Cardinality(S) # 0
    BY <2>2, <2>5, FS_CardinalityType, FS_EmptySet
  <2>7. Cluster(c) = Cardinality(S) - 1
    BY DEF Cluster, ClusterId
  <2> HIDE DEF S
  <2>8. QED BY <1>1, <2>2, <2>6, <2>7
<1>3. QED BY <1>1, <1>2

\* On a machine that numbers its small CPUs first, a larger cluster is a larger
\* capacity: between two CPUs of different capacity a cluster starts, and where
\* one starts the capacity grows.
LEMMA LargerCluster ==
  ASSUME NEW c \in Cpus, NEW d \in Cpus
  PROVE  /\ Cluster(c) >= Cluster(d) => Capacity[c] >= Capacity[d]
         /\ Cluster(c) > Cluster(d) => Capacity[c] > Capacity[d]
<1> DEFINE Upto(x) == {s \in Starts : s <= x}
<1>1. \A x \in Cpus : Capacity[x] \in Nat /\ x \in Nat
  BY CpusAssumption, CapacityAssumption
<1>2. \A x \in Cpus : IsFiniteSet(Upto(x)) /\ Cardinality(Upto(x)) \in Nat
  BY CpusAssumption, FS_Subset, FS_CardinalityType DEF Starts
<1>3. \A x \in Cpus : Cluster(x) = Cardinality(Upto(x)) - 1
  BY DEF Cluster, ClusterId
<1>4. ASSUME Capacity[c] < Capacity[d] PROVE Cluster(c) < Cluster(d)
  <2> DEFINE Above == {x \in Cpus : c < x /\ Capacity[c] < Capacity[x]}
  <2>1. c < d
    BY <1>1, <1>4, LittleFirstAssumption
  <2>2. Above \in SUBSET Nat /\ d \in Above
    BY <1>1, <1>4, <2>1
  <2>3. PICK e \in Above : \A x \in Above : e <= x
    BY <2>2, LeastElement
  <2>4. e \in Cpus /\ c < e /\ Capacity[c] < Capacity[e] /\ e <= d
    BY <2>2, <2>3
  <2>5. StartsCluster(e)
    <3> SUFFICES ASSUME NEW p \in Cpus, p < e, Capacity[p] = Capacity[e],
                        \A x \in Cpus : x < e => x <= p
                 PROVE  FALSE
      BY DEF StartsCluster
    <3>1. c <= p /\ c # p
      BY <1>1, <2>4
    <3>2. p \in Above
      BY <1>1, <2>4, <3>1
    <3>3. QED BY <1>1, <2>3, <2>4, <3>2
  <2>6. e \in Upto(d) /\ e \notin Upto(c)
    BY <1>1, <2>4, <2>5 DEF Starts
  <2>7. Upto(c) \subseteq Upto(d)
    BY <1>1, <2>1 DEF Starts
  <2> HIDE DEF Upto, Above
  <2>8. Cardinality(Upto(c)) < Cardinality(Upto(d))
    BY <1>2, <2>6, <2>7, FS_Subset, FS_CardinalityType
  <2>9. QED BY <1>2, <1>3, <2>8
<1>5. ASSUME Cluster(c) > Cluster(d) PROVE Capacity[c] > Capacity[d]
  <2>1. d < c
    <3> SUFFICES ASSUME c <= d PROVE FALSE
      BY <1>1
    <3>1. Upto(c) \subseteq Upto(d)
      BY <1>1 DEF Starts
    <3> HIDE DEF Upto
    <3>2. Cardinality(Upto(c)) <= Cardinality(Upto(d))
      BY <1>2, <3>1, FS_Subset
    <3>3. QED BY <1>2, <1>3, <1>5, <3>2
  <2>2. PICK e \in Starts : d < e /\ e <= c
    <3> SUFFICES ASSUME \A e \in Starts : ~(d < e /\ e <= c) PROVE FALSE
      OBVIOUS
    <3>1. Upto(c) \subseteq Upto(d)
      BY <1>1 DEF Starts
    <3> HIDE DEF Upto
    <3>2. Cardinality(Upto(c)) <= Cardinality(Upto(d))
      BY <1>2, <3>1, FS_Subset
    <3>3. QED BY <1>2, <1>3, <1>5, <3>2
  <2>3. e \in Cpus /\ StartsCluster(e)
    BY <2>2 DEF Starts
  <2>4. PICK p \in Cpus : p < e /\ \A x \in Cpus : x < e => x <= p
    <3> DEFINE Behind == {e - x : x \in {y \in Cpus : y < e}}
    <3>1. Behind \in SUBSET Nat /\ e - d \in Behind
      BY <1>1, <2>2, <2>3
    <3>2. PICK m \in Behind : \A k \in Behind : m <= k
      BY <3>1, LeastElement
    <3>3. PICK p \in Cpus : p < e /\ m = e - p
      BY <3>2
    <3>4. \A x \in Cpus : x < e => e - p <= e - x
      BY <3>2, <3>3
    <3>5. QED BY <1>1, <2>3, <3>3, <3>4
  <2>5. Capacity[p] # Capacity[e]
    BY <2>3, <2>4 DEF StartsCluster
  <2>6. d <= p
    BY <2>2, <2>4
  <2>7. Capacity[d] <= Capacity[p] /\ Capacity[p] <= Capacity[e] /\ Capacity[e] <= Capacity[c]
    <3>1. \A x, y \in Cpus : x <= y => Capacity[x] <= Capacity[y]
      BY <1>1, LittleFirstAssumption
    <3>2. p <= e
      BY <1>1, <2>3, <2>4
    <3>3. QED BY <2>2, <2>3, <2>6, <3>1, <3>2
  <2>8. QED BY <1>1, <2>3, <2>5, <2>7
<1> HIDE DEF Upto
<1>6. \A x \in Cpus : Cluster(x) \in Int
  BY <1>2, <1>3
<1>7. QED BY <1>1, <1>4, <1>5, <1>6

\* The rows of the CPU array are walks over all clusters; the first goes up.
LEMMA WalkFacts ==
  ASSUME NEW o \in 0..ClusterNr-1, NEW n \in 0..ClusterNr
  PROVE  /\ Walk(o, n) \in Seq(Nat) /\ Len(Walk(o, n)) = n
         /\ o = 0 => \A i \in 1..n : Walk(o, n)[i] = i - 1
<1> DEFINE row == CpuArray[o + 1]
<1>1. ClusterNr \in {1, 2, 3}
  BY ClusterRange
<1>2. /\ row \in Seq(Nat) /\ Len(row) = ClusterNr
      /\ o = 0 => \A i \in 1..ClusterNr : row[i] = i - 1
  <2>1. CASE ClusterNr = 1
    <3>1. o = 0
      BY <2>1
    <3>2. QED BY <2>1, <3>1 DEF CpuArray
  <2>2. CASE ClusterNr = 2
    <3>1. o \in {0, 1}
      BY <2>2
    <3>2. row = IF o = 0 THEN <<0, 1>> ELSE <<1, 0>>
      BY <2>2, <3>1 DEF CpuArray
    <3>3. /\ <<0, 1>> \in Seq(Nat) /\ Len(<<0, 1>>) = 2
          /\ <<1, 0>> \in Seq(Nat) /\ Len(<<1, 0>>) = 2
      OBVIOUS
    <3>4. \A i \in 1..2 : <<0, 1>>[i] = i - 1
      OBVIOUS
    <3> HIDE DEF row
    <3>5. QED BY <2>2, <3>2, <3>3, <3>4
  <2>3. CASE ClusterNr = 3
    <3>1. o \in {0, 1, 2}
      BY <2>3
    <3>2. row = IF o = 0 THEN <<0, 1, 2>> ELSE IF o = 1 THEN <<1, 2, 0>> ELSE <<2, 1, 0>>
      BY <2>3, <3>1 DEF CpuArray
    <3>3. /\ <<0, 1, 2>> \in Seq(Nat) /\ Len(<<0, 1, 2>>) = 3
          /\ <<1, 2, 0>> \in Seq(Nat) /\ Len(<<1, 2, 0>>) = 3
          /\ <<2, 1, 0>> \in Seq(Nat) /\ Len(<<2, 1, 0>>) = 3
      OBVIOUS
    <3>4. \A i \in 1..3 : <<0, 1, 2>>[i] = i - 1
      OBVIOUS
    <3> HIDE DEF row
    <3>5. QED BY <2>3, <3>2, <3>3, <3>4
  <2>4. QED BY <1>1, <2>1, <2>2, <2>3
<1> HIDE DEF row
<1>3. Walk(o, n) = SubSeq(row, 1, n)
  BY DEF Walk, row
<1>4. /\ SubSeq(row, 1, n) \in Seq(Nat) /\ Len(SubSeq(row, 1, n)) = n
      /\ \A i \in 1..n : SubSeq(row, 1, n)[i] = row[i]
  BY <1>1, <1>2
<1>5. QED BY <1>1, <1>2, <1>3, <1>4

\* find_available_cpu and the pulls take a CPU that the walk meets.
LEMMA FirstOnIn ==
  ASSUME NEW walk \in Seq(Nat), NEW S \in SUBSET Cpus, S # {}, \A c \in S : OnWalk(walk, c)
  PROVE  FirstOn(walk, S) \in S
<1> DEFINE Places == {Place(walk, c) : c \in S}
<1>1. \A c \in S : Place(walk, c) \in Nat
  <2> TAKE c \in S
  <2>1. DOMAIN walk \subseteq Nat
    BY LenProperties
  <2>2. Place(walk, c) \in DOMAIN walk
    BY DEF Place, OnWalk
  <2>3. QED BY <2>1, <2>2
<1>2. PICK a \in S : \A c \in S : Place(walk, a) <= Place(walk, c)
  <2>1. Places \in SUBSET Nat /\ Places # {}
    BY <1>1
  <2>2. PICK p \in Places : \A q \in Places : p <= q
    BY <2>1, LeastElement
  <2>3. QED BY <2>2
<1> DEFINE T == {c \in S : Place(walk, c) = Place(walk, a)}
<1>3. T \in SUBSET Nat /\ a \in T
  BY CpusAssumption
<1>4. PICK m \in T : \A c \in T : m <= c
  BY <1>3, LeastElement
<1>5. m \in S /\ \A d \in S : \/ Place(walk, m) < Place(walk, d)
                              \/ Place(walk, m) = Place(walk, d) /\ m <= d
  <2>1. m \in S /\ Place(walk, m) = Place(walk, a)
    OBVIOUS
  <2>2. ASSUME NEW d \in S PROVE \/ Place(walk, m) < Place(walk, d)
                                 \/ Place(walk, m) = Place(walk, d) /\ m <= d
    <3>1. CASE Place(walk, d) = Place(walk, a)
      BY <1>4, <2>1, <3>1
    <3>2. CASE Place(walk, d) # Place(walk, a)
      <4>1. Place(walk, a) <= Place(walk, d) /\ Place(walk, a) \in Nat /\ Place(walk, d) \in Nat
        BY <1>1, <1>2
      <4>2. Place(walk, m) < Place(walk, d)
        BY <2>1, <3>2, <4>1
      <4>3. QED BY <4>2
    <3>3. QED BY <3>1, <3>2
  <2> HIDE DEF T, Places
  <2>3. QED BY <2>1, <2>2
<1> HIDE DEF T, Places
<1>6. QED BY <1>5 DEF FirstOn

\* The walks of the pulls meet only CPUs of smaller clusters, or also of the
\* own one.
LEMMA PullWalks ==
  ASSUME NEW c \in Cpus
  PROVE  /\ PullRunningWalk(Cluster(c)) \in Seq(Nat) /\ PullRunnableWalk(Cluster(c)) \in Seq(Nat)
         /\ NewidleWalk(Cluster(c)) \in Seq(Nat)
         /\ \A s \in Cpus :
              /\ OnWalk(PullRunningWalk(Cluster(c)), s) => Cluster(s) < Cluster(c)
              /\ OnWalk(PullRunnableWalk(Cluster(c)), s) => Cluster(s) <= Cluster(c)
              /\ OnWalk(NewidleWalk(Cluster(c)), s) => Cluster(s) <= Cluster(c)
<1>1. ClusterNr \in 1..3 /\ Cluster(c) \in 0..ClusterNr-1
  BY ClusterRange
<1>2. NoWalk \in Seq(Nat) /\ \A s \in Cpus : ~OnWalk(NoWalk, s)
  BY DEF NoWalk, OnWalk
<1>3. ASSUME NEW n \in 0..ClusterNr
      PROVE  Walk(0, n) \in Seq(Nat) /\ \A s \in Cpus : OnWalk(Walk(0, n), s) => Cluster(s) < n
  <2>1. 0 \in 0..ClusterNr-1
    BY <1>1
  <2>2. /\ Walk(0, n) \in Seq(Nat) /\ Len(Walk(0, n)) = n
        /\ \A i \in 1..n : Walk(0, n)[i] = i - 1
    BY <2>1, WalkFacts
  <2>3. DOMAIN Walk(0, n) = 1..n
    BY <2>2, LenProperties
  <2>4. QED BY <2>2, <2>3 DEF OnWalk
<1>4. Cluster(c) \in 0..ClusterNr /\ Cluster(c) + 1 \in 0..ClusterNr
  BY <1>1
<1>5. \A s \in Cpus : Cluster(s) \in Int
  BY ClusterRange
<1>6. PullRunningWalk(Cluster(c)) \in {NoWalk, Walk(0, Cluster(c))}
  BY DEF PullRunningWalk
<1>7. PullRunnableWalk(Cluster(c)) \in {NoWalk, Walk(0, Cluster(c) + 1)}
  BY DEF PullRunnableWalk
<1>8. NewidleWalk(Cluster(c)) = Walk(0, Cluster(c) + 1)
  BY DEF NewidleWalk
<1>9. QED BY <1>1, <1>2, <1>3, <1>4, <1>5, <1>6, <1>7, <1>8

----------------------------------------------------------------------------
(* What is known of the tasks: where they are and where they may be.       *)

States == {"run", "ready", "sleep", "waking", "moving"}

PlaceInv ==
  /\ cpu \in [Tasks -> Cpus]
  /\ st \in [Tasks -> States]
  /\ late \subseteq Tasks /\ exiting \subseteq Tasks /\ cpuL \subseteq Tasks
  /\ mask \in [Tasks -> SUBSET Cpus]
  /\ avail \in [Cpus -> {"up", "halted", "inactive"}]
  /\ newidle \in [Cpus -> {"no", "critical", "plain"}]

\* A task that is taken off a run queue may move to where it is sent, and was
\* queued there when it is taken.
LEMMA TakenMayMove ==
  /\ \A src, dst, ux : \A t \in PickRunnable(src, dst, ux) :
       t \in Queued(src) /\ st[t] = "ready" /\ dst \in mask[t]
  /\ \A src, dst, pid, ux : \A t \in Detach(src, dst, pid, ux) :
       t \in Queued(src) /\ dst \in mask[t]
<1>1. \A src, dst, ux : \A t \in PickRunnable(src, dst, ux) :
        t \in Queued(src) /\ st[t] = "ready" /\ dst \in mask[t]
  BY DEF PickRunnable, CanMigrate
<1>2. ASSUME NEW src, NEW dst, NEW pid, NEW ux, NEW t \in Detach(src, dst, pid, ux)
      PROVE  t \in Queued(src) /\ dst \in mask[t]
  BY <1>2 DEF Detach, CanMigrate
<1>3. QED BY <1>1, <1>2

\* find_available_cpu leaves the choice alone or finds an allowed CPU without
\* UX and RT tasks.
LEMMA FoundIsAllowed ==
  ASSUME PlaceInv, NEW t \in Tasks, NEW orig \in Cpus, NEW among, NEW strong
  PROVE  \/ Find(t, orig, among, strong) = None
         \/ Find(t, orig, among, strong) \in mask[t]
<1> DEFINE walk == IF t \in UxTasks \union SfTasks THEN CriticalWalk(t \in cpuL)
                   ELSE RtWalk(Cluster(orig))
           found == {c \in mask[t] : /\ OnWalk(walk, c) /\ (among # {} => c \in among)
                                     /\ Up(c) /\ ~HasRt(c) /\ ~HasUx(c) /\ ~PipelineCpu(c)}
<1>1. ClusterNr \in 1..3 /\ Cluster(orig) \in 0..ClusterNr-1
  BY ClusterRange
<1>2. walk \in Seq(Nat)
  <2>1. /\ 0 \in 0..ClusterNr-1 /\ (ClusterNr > 1 => 1 \in 0..ClusterNr-1)
        /\ 1 \in 0..ClusterNr /\ ClusterNr \in 0..ClusterNr
    BY <1>1
  <2>2. CriticalWalk(t \in cpuL) \in Seq(Nat)
    BY <2>1, WalkFacts DEF CriticalWalk
  <2>3. RtWalk(Cluster(orig)) \in Seq(Nat)
    BY <1>1, <2>1, WalkFacts DEF RtWalk
  <2>4. QED BY <2>2, <2>3
<1>3. found \in SUBSET Cpus /\ found \subseteq mask[t] /\ \A c \in found : OnWalk(walk, c)
  BY DEF PlaceInv
<1>4. Find(t, orig, among, strong) =
        IF ClusterNr <= 1 \/ OrigAvailable(t, orig, strong) \/ found = {} THEN None
        ELSE FirstOn(walk, found)
  BY DEF Find
<1> HIDE DEF walk, found
<1>5. found # {} => FirstOn(walk, found) \in found
  BY <1>2, <1>3, FirstOnIn
<1>6. QED BY <1>3, <1>4, <1>5

\* The CPU for a waking task is one it may run on.
LEMMA ChosenIsAllowed ==
  ASSUME PlaceInv, NEW t \in Tasks, NEW orig \in mask[t], NEW strong
  PROVE  /\ SelectUx(t, orig, strong) \in mask[t]
         /\ \A among : SelectRt(t, orig, among, strong) \in mask[t]
<1>1. orig \in Cpus
  BY DEF PlaceInv
<1>2. \A among : Choose(t, orig, among, strong) \in mask[t]
  BY <1>1, FoundIsAllowed DEF Choose
<1>3. QED BY <1>2 DEF SelectUx, SelectRt

\* adjust_rt_lowest_mask and trans_find_lowest_rq stay within the mask.
LEMMA LowestIsAllowed ==
  ASSUME NEW t, NEW among \in SUBSET Cpus, NEW best \in among, NEW strong,
         NEW c \in LowestRq(t, best, among, strong)
  PROVE  c \in among
<1> DEFINE idx == IF t \in SfTasks /\ strong /\ ClusterNr > 1 THEN 1 ELSE 0
           search == {d \in SpareUx(among) : Cluster(d) = idx}
           least == CHOOSE d \in SpareUx(among) : \A e \in SpareUx(among) : d <= e
<1>1. SpareUx(among) \subseteq among
  BY DEF SpareUx
<1>3. SpareUx(among) # {} => least \in SpareUx(among)
  <2> SUFFICES ASSUME SpareUx(among) # {} PROVE least \in SpareUx(among)
    OBVIOUS
  <2>1. SpareUx(among) \in SUBSET Nat
    BY <1>1, CpusAssumption
  <2>2. \E d \in SpareUx(among) : \A e \in SpareUx(among) : d <= e
    BY <2>1, LeastElement
  <2>3. QED BY <2>2
<1>4. search \subseteq SpareUx(among)
  OBVIOUS
<1>5. LowestRq(t, best, among, strong) =
        IF OrigAvailable(t, best, strong) \/ SpareUx(among) = {} THEN {best}
        ELSE IF search # {} THEN search
        ELSE IF cpu[t] \in SpareUx(among) THEN {cpu[t]} ELSE {least}
  BY DEF LowestRq
<1> HIDE DEF idx, search, least
<1>6. CASE OrigAvailable(t, best, strong) \/ SpareUx(among) = {}
  BY <1>5, <1>6
<1>7. CASE ~(OrigAvailable(t, best, strong) \/ SpareUx(among) = {})
  <2>1. c \in SpareUx(among)
    BY <1>3, <1>4, <1>5, <1>7
  <2>2. QED BY <1>1, <2>1
<1>8. QED BY <1>6, <1>7

----------------------------------------------------------------------------
(* What is known of the requests.  A CPU that asked for a task is of a     *)
(* larger cluster, and stop work is queued only while the flag that keeps  *)
(* others from queueing it is up.                                          *)

Busy     == {"pull", "push", "kernel"}
Requests == [active : BOOLEAN, push : Cpus \union {None}, pid : Tasks \union {None},
             type : {"none", "ux", "rt"}, irqPid : Tasks \union {None},
             irqPush : Cpus \union {None}]
Works    == [fn : Busy \union {"none", "done"}, target : Cpus \union {None, NotRead},
             times : Nat]
Scans    == [source : LittleCpus, task : Tasks]

PushOK(c, r, w) ==
  /\ r \in Requests /\ w \in Works
  /\ r.push \in Cpus => Cluster(r.push) > Cluster(c)
  /\ r.irqPush \in Cpus => Cluster(r.irqPush) > Cluster(c)
  /\ w.target \in Cpus => Cluster(w.target) > Cluster(c)
  /\ w.fn \in Busy => r.active
  /\ w.times = IF w.fn \in Busy THEN 1 ELSE 0

PushInv ==
  /\ lb \in [Cpus -> Requests]
  /\ stop \in [Cpus -> Works]
  /\ irqwork \in Cpus \union {None}
  /\ \A c \in Cpus : PushOK(c, lb[c], stop[c])
  /\ scan \in [Cpus -> Scans \union {None}]
  /\ \A c \in Cpus : scan[c] # None => scan[c] \in Scans /\ ~IsLittle(c)

\* A step changes the request and the work of one CPU.
LEMMA OneCpu ==
  ASSUME PushInv, NEW c \in Cpus, NEW r, NEW w, PushOK(c, r, w),
         lb' = [lb EXCEPT ![c] = r], stop' = [stop EXCEPT ![c] = w],
         irqwork' \in Cpus \union {None},
         UNCHANGED scan \/ \E d \in Cpus : scan' = [scan EXCEPT ![d] = None]
  PROVE  PushInv'
<1>1. r \in Requests /\ w \in Works
  BY DEF PushOK
<1>2. lb' \in [Cpus -> Requests] /\ stop' \in [Cpus -> Works]
  BY <1>1 DEF PushInv
<1>3. \A d \in Cpus : /\ lb'[d] = (IF d = c THEN r ELSE lb[d])
                      /\ stop'[d] = (IF d = c THEN w ELSE stop[d])
  BY DEF PushInv
<1>4. \A d \in Cpus : PushOK(d, lb'[d], stop'[d])
  BY <1>3 DEF PushInv
<1>5. /\ scan' \in [Cpus -> Scans \union {None}]
      /\ \A d \in Cpus : scan'[d] # None => scan'[d] \in Scans /\ ~IsLittle(d)
  BY DEF PushInv
<1>6. (\A d \in Cpus : PushOK(d, lb[d], stop[d]))'
  BY <1>4 DEF PushOK
<1>7. QED BY <1>2, <1>5, <1>6 DEF PushInv

\* A new scan is the step's other outcome: of a CPU that is not little, for a
\* little one.
LEMMA OneScan ==
  ASSUME PushInv, NEW c \in Cpus, ~IsLittle(c), NEW l \in LittleCpus, NEW t \in Tasks,
         NEW w, PushOK(c, lb[c], w), stop' = [stop EXCEPT ![c] = w], UNCHANGED <<lb, irqwork>>,
         scan' = [scan EXCEPT ![c] = [source |-> l, task |-> t]]
  PROVE  PushInv'
<1>1. [source |-> l, task |-> t] \in Scans
  BY DEF Scans
<1>2. w \in Works
  BY DEF PushOK
<1>3. stop' \in [Cpus -> Works] /\ \A d \in Cpus : stop'[d] = IF d = c THEN w ELSE stop[d]
  BY <1>2 DEF PushInv
<1>4. (\A d \in Cpus : PushOK(d, lb[d], stop[d]))'
  BY <1>3 DEF PushInv, PushOK
<1>5. /\ scan' \in [Cpus -> Scans \union {None}]
      /\ \A d \in Cpus : scan'[d] # None => scan'[d] \in Scans /\ ~IsLittle(d)
  BY <1>1 DEF PushInv
<1>6. QED BY <1>3, <1>4, <1>5 DEF PushInv

\* Nothing is asked or answered.
LEMMA SamePush ==
  ASSUME PushInv, UNCHANGED pushVars
  PROVE  PushInv'
BY DEF PushInv, PushOK, pushVars

\* The stopper works the actions make, and what they say.
LEMMA WorkFields ==
  /\ NoWork \in Works /\ NoWork.fn = "none" /\ NoWork.target = None /\ NoWork.times = 0
  /\ \A work \in Works, f \in Busy :
       LET w == QueueWork(work, f)
       IN  /\ w \in Works /\ w.fn = f /\ w.target = NotRead
           /\ w.times = work.times + 1
  /\ LET w == [NoWork EXCEPT !.fn = "done"]
     IN  w \in Works /\ w.fn = "done" /\ w.target = None /\ w.times = 0
  /\ None \notin Cpus /\ NotRead \notin Cpus
  /\ "none" \notin Busy /\ "done" \notin Busy
BY KindsAssumption DEF NoWork, QueueWork, Works, Busy

\* The end of a switch at most starts a scan and retires the stop work.
LEMMA SwitchPush ==
  ASSUME PushInv, NEW c \in Cpus, NEW left, NEW next, NEW states, SwitchTo(c, left, next, states)
  PROVE  /\ PushInv'
         /\ stop' = stop \/ (stop[c].fn = "done" /\ stop' = [stop EXCEPT ![c] = NoWork])
<1>1. stop' = stop \/ (stop[c].fn = "done" /\ stop' = [stop EXCEPT ![c] = NoWork])
  BY DEF SwitchTo
<1>2. UNCHANGED <<lb, irqwork>>
  BY DEF SwitchTo
<1>3. lb \in [Cpus -> Requests] /\ stop \in [Cpus -> Works] /\ PushOK(c, lb[c], stop[c])
      /\ irqwork \in Cpus \union {None}
  BY DEF PushInv
<1>4. PushOK(c, lb[c], NoWork)
  BY <1>3, WorkFields DEF PushOK
<1>5. PICK w : PushOK(c, lb[c], w) /\ stop' = [stop EXCEPT ![c] = w]
  <2>1. CASE stop' = stop
    <3>1. stop' = [stop EXCEPT ![c] = stop[c]]
      BY <1>3, <2>1
    <3>2. QED BY <1>3, <3>1
  <2>2. CASE stop' = [stop EXCEPT ![c] = NoWork]
    BY <1>4, <2>2
  <2>3. QED BY <1>1, <2>1, <2>2
<1>6. lb' = [lb EXCEPT ![c] = lb[c]]
  BY <1>2, <1>3
<1>7. CASE UNCHANGED scan
  BY <1>1, <1>2, <1>3, <1>5, <1>6, <1>7, OneCpu
<1>8. CASE ~UNCHANGED scan
  <2>1. PICK l \in PushSources(c) : \E t \in Running(l) :
          scan' = [scan EXCEPT ![c] = [source |-> l, task |-> t]]
    BY <1>8 DEF SwitchTo
  <2>2. PICK t \in Running(l) : scan' = [scan EXCEPT ![c] = [source |-> l, task |-> t]]
    BY <2>1
  <2>3. ~IsLittle(c)
    BY <1>8 DEF SwitchTo
  <2>4. l \in LittleCpus /\ t \in Tasks
    BY DEF PushSources, Running
  <2>5. QED BY <1>1, <1>2, <1>5, <2>2, <2>3, <2>4, OneScan
<1>9. QED BY <1>7, <1>8

----------------------------------------------------------------------------
(* What a step may do: move tasks to where they may be, and upwards.       *)

Inv == PlaceInv /\ PushInv

MoveOK(t) ==
  cpu'[t] # cpu[t] =>
    /\ cpu'[t] \in mask[t]
    /\ st[t] \in {"run", "ready"} =>
         /\ Cluster(cpu'[t]) >= Cluster(cpu[t])
         /\ stop[cpu[t]].fn # stop'[cpu[t]].fn => Cluster(cpu'[t]) > Cluster(cpu[t])

StepOK == \A t \in Tasks : MoveOK(t)

\* Nobody moves.
LEMMA NobodyMoves ==
  ASSUME UNCHANGED cpu
  PROVE  \A t \in Tasks : MoveOK(t)
BY DEF MoveOK

\* One task moves, and the function that moved it is still at work.
LEMMA OneMoves ==
  ASSUME PlaceInv, NEW t \in Tasks, NEW d, cpu' = [cpu EXCEPT ![t] = d], d \in mask[t],
         st[t] \in {"run", "ready"} =>
           \/ Cluster(d) > Cluster(cpu[t])
           \/ Cluster(d) >= Cluster(cpu[t]) /\ stop'[cpu[t]].fn = stop[cpu[t]].fn
  PROVE  cpu' \in [Tasks -> Cpus] /\ \A u \in Tasks : MoveOK(u)
<1>1. d \in Cpus /\ cpu[t] \in Cpus
  BY DEF PlaceInv
<1>2. cpu' \in [Tasks -> Cpus] /\ \A u \in Tasks : cpu'[u] = IF u = t THEN d ELSE cpu[u]
  BY <1>1 DEF PlaceInv
<1>3. \A c \in Cpus : Cluster(c) \in Int
  BY ClusterRange
<1>4. QED BY <1>1, <1>2, <1>3 DEF MoveOK

\* Waking, enqueueing, running out of time, exiting and changes of affinity: a waking task goes where it may run.
LEMMA TaskStep ==
  ASSUME Inv, NEW t \in Tasks,
         Wake(t) \/ WakeLowest(t) \/ Enqueue(t) \/ TimesOut(t) \/ Exit(t)
         \/ SetCpuL(t) \/ SetAffinity(t)
  PROVE  Inv' /\ StepOK
<1> USE DEF Inv
<1>1. UNCHANGED <<avail, newidle>> /\ UNCHANGED pushVars
  BY DEF Wake, WakeLowest, Enqueue, TimesOut, Exit, SetCpuL, SetAffinity, PlaceOn
<1>2. PushInv'
  BY <1>1, SamePush
<1>3. ASSUME NEW d \in mask[t], st[t] = "sleep", PlaceOn(t, d) PROVE PlaceInv' /\ StepOK
  <2>1. cpu' = [cpu EXCEPT ![t] = d] /\ st' = [st EXCEPT ![t] = "waking"]
        /\ UNCHANGED <<late, exiting, cpuL, mask>>
    BY <1>3 DEF PlaceOn
  <2>2. cpu' \in [Tasks -> Cpus] /\ \A u \in Tasks : MoveOK(u)
    BY <1>3, <2>1, OneMoves
  <2>3. st' \in [Tasks -> States]
    BY <2>1 DEF PlaceInv, States
  <2>4. QED BY <1>1, <1>2, <2>1, <2>2, <2>3 DEF PlaceInv, StepOK
<1>4. CASE Wake(t)
  <2>1. PICK orig \in mask[t], strong \in BOOLEAN :
          /\ st[t] = "sleep"
          /\ \/ t \notin RtTasks
                /\ PlaceOn(t, IF t \in UxTasks THEN SelectUx(t, orig, strong) ELSE orig)
             \/ t \in RtTasks
                /\ \E among \in RtMasks(t, strong) : PlaceOn(t, SelectRt(t, orig, among, strong))
    BY <1>4, Zenon DEF Wake
  <2>2. /\ SelectUx(t, orig, strong) \in mask[t]
        /\ \A among : SelectRt(t, orig, among, strong) \in mask[t]
    BY ChosenIsAllowed
  <2>3. \E d \in mask[t] : PlaceOn(t, d)
    <3>1. CASE t \notin RtTasks
      BY <2>1, <2>2, <3>1
    <3>2. CASE t \in RtTasks
      BY <2>1, <2>2, <3>2
    <3>3. QED BY <3>1, <3>2
  <2>4. QED BY <1>2, <1>3, <2>1, <2>3
<1>5. CASE WakeLowest(t)
  <2>1. PICK among \in SUBSET mask[t] \ {{}}, strong \in BOOLEAN :
          /\ st[t] = "sleep"
          /\ \E best \in among : \E c \in LowestRq(t, best, among, strong) : PlaceOn(t, c)
    BY <1>5 DEF WakeLowest
  <2>2. among \in SUBSET Cpus /\ among \subseteq mask[t]
    BY DEF PlaceInv
  <2>3. \E d \in mask[t] : PlaceOn(t, d)
    BY <2>1, <2>2, LowestIsAllowed
  <2>4. QED BY <1>2, <1>3, <2>1, <2>3
<1>6. CASE Enqueue(t)
  <2>1. st' = [st EXCEPT ![t] = "ready"] /\ UNCHANGED <<cpu, late, exiting, cpuL, mask>>
    BY <1>6 DEF Enqueue
  <2>2. PlaceInv'
    BY <1>1, <2>1 DEF PlaceInv, States
  <2>3. QED BY <1>2, <2>1, <2>2, NobodyMoves DEF StepOK
<1>7. CASE TimesOut(t)
  <2>1. late' = late \union {t} /\ UNCHANGED <<cpu, st, exiting, cpuL, mask>>
    BY <1>7 DEF TimesOut
  <2>2. PlaceInv'
    BY <1>1, <2>1 DEF PlaceInv
  <2>3. QED BY <1>2, <2>1, <2>2, NobodyMoves DEF StepOK
<1>8. CASE SetCpuL(t)
  <2>1. cpuL' \subseteq Tasks /\ UNCHANGED <<cpu, st, late, exiting, mask>>
    BY <1>8 DEF SetCpuL, PlaceInv
  <2>2. PlaceInv'
    BY <1>1, <2>1 DEF PlaceInv
  <2>3. QED BY <1>2, <2>1, <2>2, NobodyMoves DEF StepOK
<1>9. CASE SetAffinity(t)
  <2>1. mask' = [mask EXCEPT ![t] = IF @ = Cpus THEN {cpu[t]} ELSE Cpus]
        /\ UNCHANGED <<cpu, st, late, exiting, cpuL>>
    BY <1>9 DEF SetAffinity
  <2>2. PlaceInv'
    BY <1>1, <2>1 DEF PlaceInv
  <2>3. QED BY <1>2, <2>1, <2>2, NobodyMoves DEF StepOK
<1>10. CASE Exit(t)
  <2>1. exiting' = exiting \union {t} /\ UNCHANGED <<cpu, st, late, cpuL, mask>>
    BY <1>10 DEF Exit
  <2>2. PlaceInv'
    BY <1>1, <2>1 DEF PlaceInv
  <2>3. QED BY <1>2, <2>1, <2>2, NobodyMoves DEF StepOK
<1>11. QED BY <1>4, <1>5, <1>6, <1>7, <1>8, <1>9, <1>10

\* A CPU is halted, taken out of service or comes back.
LEMMA AvailStep ==
  ASSUME Inv, NEW c \in Cpus, NEW a \in {"up", "halted", "inactive"}, SetAvail(c, a)
  PROVE  Inv' /\ StepOK
<1>1. PushInv'
  BY SamePush DEF SetAvail, Inv
<1>2. PlaceInv'
  BY DEF SetAvail, Inv, PlaceInv, taskVars
<1>3. QED BY <1>1, <1>2, NobodyMoves DEF SetAvail, taskVars, Inv, StepOK

\* Other CPUs the balance looks at, and the first of those it would take.
LEMMA SourceFacts ==
  ASSUME NEW c \in Cpus, NEW walk \in Seq(Nat), NEW S \in SUBSET Sources(c, walk), S # {}
  PROVE  /\ FirstOn(walk, S) \in S
         /\ FirstOn(walk, S) \in Cpus \ {c} /\ OnWalk(walk, FirstOn(walk, S))
<1>1. S \in SUBSET Cpus /\ \A s \in S : s \in Cpus \ {c} /\ OnWalk(walk, s)
  BY DEF Sources
<1>2. FirstOn(walk, S) \in S
  BY <1>1, FirstOnIn
<1>3. QED BY <1>1, <1>2

\* __pull_running_task asks a CPU of a smaller cluster that nobody else has
\* asked, and raises its flag.
LEMMA PullRunningStep ==
  ASSUME Inv, NEW c \in Cpus, NEW ux \in BOOLEAN, RunningSources(c, ux) # {}, PullRunning(c, ux)
  PROVE  Inv' /\ StepOK
<1> USE DEF Inv
<1> DEFINE walk == PullRunningWalk(Cluster(c))
           s == FirstOn(walk, RunningSources(c, ux))
           k == IF ux THEN "ux" ELSE "rt"
           w == QueueWork(stop[s], "pull")
<1>1. RunningSources(c, ux) \in SUBSET Sources(c, walk)
      /\ \A x \in RunningSources(c, ux) : ~lb[x].active
  BY DEF RunningSources
<1>2. walk \in Seq(Nat) /\ \A x \in Cpus : OnWalk(walk, x) => Cluster(x) < Cluster(c)
  BY PullWalks
<1> HIDE DEF walk
<1>3. s \in Cpus /\ Cluster(c) > Cluster(s) /\ ~lb[s].active
  <2>1. s \in RunningSources(c, ux) /\ s \in Cpus \ {c} /\ OnWalk(walk, s)
    BY <1>1, <1>2, SourceFacts
  <2>2. Cluster(s) \in Int /\ Cluster(c) \in Int
    BY <2>1, ClusterRange
  <2> HIDE DEF s
  <2>3. QED BY <1>1, <1>2, <2>1, <2>2
<1>4. PICK t \in Running(s) :
        /\ lb' = [lb EXCEPT ![s] = [@ EXCEPT !.active = TRUE, !.push = c, !.pid = t, !.type = k]]
        /\ stop' = [stop EXCEPT ![s] = QueueWork(@, "pull")]
        /\ UNCHANGED <<cpu, st, late, exiting, cpuL, mask, avail, irqwork, scan, newidle>>
  BY DEF PullRunning, walk
<1> HIDE DEF s
<1> DEFINE r == [lb[s] EXCEPT !.active = TRUE, !.push = c, !.pid = t, !.type = k]
<1>5. lb[s] \in Requests /\ PushOK(s, lb[s], stop[s]) /\ t \in Tasks /\ k \in {"ux", "rt"}
  BY <1>3, <1>4 DEF PushInv, Running
<1> HIDE DEF k
<1>6. r \in Requests /\ r.active /\ r.push = c /\ r.irqPush = lb[s].irqPush
  BY <1>5 DEF Requests
<1>7. /\ w \in Works /\ w.fn = "pull" /\ w.fn \in Busy /\ w.target = NotRead
      /\ w.times = 1 /\ NotRead \notin Cpus
  <2>1. "pull" \in Busy /\ stop[s] \in Works /\ stop[s].times = 0
    BY <1>3, <1>5 DEF PushOK, Busy
  <2>2. QED BY <2>1, WorkFields
<1>8. lb' = [lb EXCEPT ![s] = r] /\ stop' = [stop EXCEPT ![s] = w]
  BY <1>3, <1>4 DEF PushInv
<1> HIDE DEF r, w
<1>9. PushOK(s, r, w)
  BY <1>3, <1>5, <1>6, <1>7 DEF PushOK
<1>10. PushInv'
  BY <1>3, <1>4, <1>8, <1>9, OneCpu DEF PushInv
<1>11. PlaceInv'
  BY <1>4 DEF PlaceInv
<1>12. QED BY <1>4, <1>10, <1>11, NobodyMoves DEF StepOK

\* A runnable task goes from one CPU to another of the same or a larger
\* cluster without stop work.
LEMMA PulledOK ==
  ASSUME PlaceInv, NEW c \in Cpus, NEW s \in Cpus, NEW ux, NEW t \in PickRunnable(s, c, ux),
         Cluster(s) <= Cluster(c)
  PROVE  /\ t \in Tasks /\ cpu[t] = s /\ st[t] = "ready" /\ c \in mask[t]
         /\ Cluster(c) >= Cluster(cpu[t])
<1>1. t \in Queued(s) /\ st[t] = "ready" /\ c \in mask[t]
  BY TakenMayMove
<1>2. t \in Tasks /\ cpu[t] = s
  BY <1>1 DEF Queued
<1>3. QED BY <1>1, <1>2, ClusterRange

\* __pull_runnable_task.
LEMMA PullRunnableStep ==
  ASSUME Inv, NEW c \in Cpus, NEW ux \in BOOLEAN, PullRunnable(c, ux)
  PROVE  Inv' /\ StepOK
<1> USE DEF Inv
<1> DEFINE walk == PullRunnableWalk(Cluster(c))
           S == Sources(c, walk)
           s == FirstOn(walk, S)
<1>1. PICK t \in RunnableFrom(c, ux) :
        /\ MoveTo(t, c)
        /\ UNCHANGED <<late, exiting, cpuL, mask, avail, newidle>> /\ UNCHANGED pushVars
  BY DEF PullRunnable
<1>2. S # {} /\ t \in PickRunnable(s, c, ux)
  BY <1>1 DEF RunnableFrom
<1>3. walk \in Seq(Nat) /\ \A x \in Cpus : OnWalk(walk, x) => Cluster(x) <= Cluster(c)
  BY PullWalks
<1> HIDE DEF walk
<1>4. s \in Cpus /\ Cluster(s) <= Cluster(c)
  <2>1. s \in Cpus \ {c} /\ OnWalk(walk, s)
    BY <1>2, <1>3, SourceFacts
  <2> HIDE DEF s
  <2>2. QED BY <1>3, <2>1
<1> HIDE DEF s
<1>5. /\ t \in Tasks /\ cpu[t] = s /\ st[t] = "ready" /\ c \in mask[t]
      /\ Cluster(c) >= Cluster(cpu[t])
  BY <1>2, <1>4, PulledOK
<1>6. cpu' = [cpu EXCEPT ![t] = c] /\ st' = [st EXCEPT ![t] = "moving"]
      /\ UNCHANGED <<late, exiting, cpuL, mask, avail, newidle, stop>> /\ UNCHANGED pushVars
  BY <1>1 DEF MoveTo, pushVars
<1>7. PushInv'
  BY <1>6, SamePush
<1>8. cpu' \in [Tasks -> Cpus] /\ \A u \in Tasks : MoveOK(u)
  BY <1>5, <1>6, OneMoves
<1>9. PlaceInv'
  BY <1>6, <1>8 DEF PlaceInv, States
<1>10. QED BY <1>7, <1>8, <1>9 DEF StepOK

\* __trans_tick_balance.
LEMMA TickStep ==
  ASSUME Inv, NEW c \in Cpus, Tick(c)
  PROVE  Inv' /\ StepOK
BY PullRunningStep, PullRunnableStep DEF Tick

\* wakeup_irqwb records what its scan has seen: a little CPU is to push to the
\* larger CPU that looked.
LEMMA ScanRecordStep ==
  ASSUME Inv, NEW c \in Cpus, ScanRecord(c)
  PROVE  Inv' /\ StepOK
<1> USE DEF Inv
<1> DEFINE l == scan[c].source
           t == scan[c].task
           r == [lb[l] EXCEPT !.irqPid = t, !.irqPush = c]
<1>1. scan[c] \in Scans /\ ~IsLittle(c)
  BY DEF ScanRecord, PushInv
<1>2. l \in LittleCpus /\ t \in Tasks
  BY <1>1 DEF Scans
<1>3. /\ lb' = [lb EXCEPT ![l] = [@ EXCEPT !.irqPid = t, !.irqPush = c]]
      /\ irqwork' = IF irqwork = None THEN l ELSE irqwork
      /\ scan' = [scan EXCEPT ![c] = None]
      /\ UNCHANGED <<cpu, st, late, exiting, cpuL, mask, avail, stop, newidle>>
  BY DEF ScanRecord
<1> HIDE DEF l, t
<1>4. l \in Cpus /\ Cluster(c) > Cluster(l)
  <2>1. l \in Cpus /\ Cluster(l) = 0
    BY <1>2 DEF LittleCpus, IsLittle
  <2>2. Cluster(c) # 0
    BY <1>1 DEF IsLittle
  <2>3. QED BY <2>1, <2>2, ClusterRange
<1>5. lb[l] \in Requests /\ PushOK(l, lb[l], stop[l]) /\ stop[l] \in Works
  BY <1>4 DEF PushInv
<1>6. r \in Requests /\ r.active = lb[l].active /\ r.push = lb[l].push /\ r.irqPush = c
  BY <1>2, <1>5 DEF Requests
<1>7. lb' = [lb EXCEPT ![l] = r] /\ stop' = [stop EXCEPT ![l] = stop[l]]
  BY <1>3, <1>4 DEF PushInv
<1> HIDE DEF r
<1>8. PushOK(l, r, stop[l])
  BY <1>4, <1>5, <1>6 DEF PushOK
<1>9. irqwork' \in Cpus \union {None}
  BY <1>3, <1>4 DEF PushInv
<1>10. PushInv'
  BY <1>3, <1>4, <1>7, <1>8, <1>9, OneCpu
<1>11. PlaceInv'
  BY <1>3 DEF PlaceInv
<1>12. QED BY <1>3, <1>10, <1>11, NobodyMoves DEF StepOK

\* A CPU gets stop work, or is told that its work is over; its request changes
\* with it, and no task moves.
LEMMA WorkStep ==
  ASSUME Inv, NEW c \in Cpus, NEW r, NEW w, PushOK(c, r, w), lb' = [lb EXCEPT ![c] = r],
         stop' = [stop EXCEPT ![c] = w], irqwork' \in {irqwork, None}, UNCHANGED scan
  PROVE  PushInv'
BY OneCpu DEF Inv, PushInv

\* irqwb_workfn queues the stop work only while the flag is down.
LEMMA IrqWorkStep ==
  ASSUME Inv, NEW c \in Cpus, IrqWork(c)
  PROVE  Inv' /\ StepOK
<1> USE DEF Inv
<1> DEFINE raised == [lb[c] EXCEPT !.active = TRUE]
           dropped == [lb[c] EXCEPT !.irqPid = None, !.irqPush = None]
           w == QueueWork(stop[c], "push")
           push == lb[c].irqPush # None /\ TriggerPush(c, lb[c].irqPush)
<1>1. lb[c] \in Requests /\ stop[c] \in Works /\ PushOK(c, lb[c], stop[c])
  BY DEF PushInv
<1>2. /\ irqwork' = None
      /\ lb' = [lb EXCEPT ![c] = IF push THEN raised ELSE dropped]
      /\ stop' = IF push THEN [stop EXCEPT ![c] = w] ELSE stop
      /\ UNCHANGED <<cpu, st, late, exiting, cpuL, mask, avail, scan, newidle>>
  BY DEF IrqWork, PushInv
<1>3. push => ~lb[c].active
  BY DEF TriggerPush
<1>4. /\ raised \in Requests /\ raised.active
      /\ raised.push = lb[c].push /\ raised.irqPush = lb[c].irqPush
      /\ dropped \in Requests /\ dropped.active = lb[c].active
      /\ dropped.push = lb[c].push /\ dropped.irqPush = None
  BY <1>1 DEF Requests
<1>5. /\ w \in Works /\ w.fn = "push" /\ w.fn \in Busy /\ w.target = NotRead
      /\ w.times = stop[c].times + 1 /\ NotRead \notin Cpus /\ None \notin Cpus
  <2>1. "push" \in Busy
    BY DEF Busy
  <2>2. QED BY <1>1, <2>1, WorkFields
<1> HIDE DEF raised, dropped, w, push
<1>6. (push => PushOK(c, raised, w)) /\ PushOK(c, dropped, stop[c])
  BY <1>1, <1>3, <1>4, <1>5 DEF PushOK
<1>7. PushInv'
  <2>1. CASE push
    BY <1>2, <1>6, <2>1, WorkStep
  <2>2. CASE ~push
    <3>1. stop' = [stop EXCEPT ![c] = stop[c]]
      BY <1>2, <2>2 DEF PushInv
    <3>2. QED BY <1>2, <1>6, <2>2, <3>1, WorkStep
  <2>3. QED BY <2>1, <2>2
<1>8. PlaceInv'
  BY <1>2 DEF PlaceInv
<1>9. QED BY <1>2, <1>7, <1>8, NobodyMoves DEF StepOK

\* The kernel's own balance looks at the same flag.
LEMMA KernelKickStep ==
  ASSUME Inv, NEW c \in Cpus, KernelKick(c)
  PROVE  Inv' /\ StepOK
<1> USE DEF Inv
<1> DEFINE r == [lb[c] EXCEPT !.active = TRUE]
           w == QueueWork(stop[c], "kernel")
<1>1. lb[c] \in Requests /\ stop[c] \in Works /\ PushOK(c, lb[c], stop[c])
  BY DEF PushInv
<1>2. /\ ~lb[c].active /\ lb' = [lb EXCEPT ![c] = r] /\ stop' = [stop EXCEPT ![c] = w]
      /\ UNCHANGED <<cpu, st, late, exiting, cpuL, mask, avail, irqwork, scan, newidle>>
  BY DEF KernelKick, PushInv
<1>3. r \in Requests /\ r.active /\ r.push = lb[c].push /\ r.irqPush = lb[c].irqPush
  BY <1>1 DEF Requests
<1>4. /\ w \in Works /\ w.fn \in Busy /\ w.target = NotRead
      /\ w.times = stop[c].times + 1 /\ NotRead \notin Cpus
  <2>1. "kernel" \in Busy
    BY DEF Busy
  <2>2. QED BY <1>1, <2>1, WorkFields
<1> HIDE DEF r, w
<1>5. PushOK(c, r, w)
  BY <1>1, <1>2, <1>3, <1>4 DEF PushOK
<1>6. PushInv'
  BY <1>2, <1>5, WorkStep
<1>7. PlaceInv'
  BY <1>2 DEF PlaceInv
<1>8. QED BY <1>2, <1>6, <1>7, NobodyMoves DEF StepOK

\* The stopper reads its target, which is of a larger cluster whoever asked.
LEMMA StopStartsStep ==
  ASSUME Inv, NEW c \in Cpus, StopStarts(c)
  PROVE  Inv' /\ StepOK
<1> USE DEF Inv
<1> DEFINE x == IF stop[c].fn = "push" THEN lb[c].irqPush ELSE lb[c].push
           w == [stop[c] EXCEPT !.target = x]
<1>1. lb[c] \in Requests /\ stop[c] \in Works /\ PushOK(c, lb[c], stop[c])
  BY DEF PushInv
<1>2. /\ stop' = [stop EXCEPT ![c] = w]
      /\ st' = [t \in Tasks |-> IF t \in Running(c) THEN "ready" ELSE st[t]]
      /\ UNCHANGED <<cpu, late, exiting, cpuL, mask, avail, lb, irqwork, scan, newidle>>
  BY DEF StopStarts, PushInv
<1>3. x \in Cpus \union {None} /\ (x \in Cpus => Cluster(x) > Cluster(c))
  BY <1>1 DEF Requests, PushOK
<1> HIDE DEF x
<1>4. w \in Works /\ w.fn = stop[c].fn /\ w.target = x /\ w.times = stop[c].times
  BY <1>1, <1>3 DEF Works
<1>5. lb' = [lb EXCEPT ![c] = lb[c]]
  BY <1>2 DEF PushInv
<1> HIDE DEF w
<1>6. PushOK(c, lb[c], w)
  BY <1>1, <1>3, <1>4 DEF PushOK
<1>7. PushInv'
  BY <1>2, <1>5, <1>6, WorkStep
<1>8. PlaceInv'
  BY <1>2 DEF PlaceInv, States
<1>9. QED BY <1>2, <1>7, <1>8, NobodyMoves DEF StepOK

\* The stopper takes at most one task, off its own CPU, to the CPU it has read
\* as its target.
LEMMA StopperMoves ==
  ASSUME Inv, NEW c \in Cpus, NEW S, Moves(c, S),
         \A t \in S : t \in Queued(c) /\ stop[c].target \in mask[t],
         UNCHANGED <<late, exiting, cpuL, mask, avail, newidle>>
  PROVE  PlaceInv' /\ \A t \in Tasks : MoveOK(t)
<1> USE DEF Inv
<1>1. CASE S = {}
  <2>1. UNCHANGED <<cpu, st>>
    BY <1>1 DEF Moves
  <2>2. QED BY <2>1, NobodyMoves DEF PlaceInv
<1>2. CASE S # {}
  <2> DEFINE d == stop[c].target
  <2>1. PICK t \in S : cpu' = [cpu EXCEPT ![t] = d] /\ st' = [st EXCEPT ![t] = "moving"]
    BY <1>2 DEF Moves, MoveTo
  <2>2. t \in Tasks /\ cpu[t] = c /\ d \in mask[t]
    BY <2>1 DEF Queued
  <2>3. d \in Cpus /\ Cluster(d) > Cluster(cpu[t])
    BY <2>2 DEF PlaceInv, PushInv, PushOK
  <2> HIDE DEF d
  <2>4. cpu' \in [Tasks -> Cpus] /\ \A u \in Tasks : MoveOK(u)
    BY <2>1, <2>2, <2>3, OneMoves
  <2>5. QED BY <2>1, <2>4 DEF PlaceInv, States
<1>3. QED BY <1>1, <1>2

\* The stopper is through with its work.
LEMMA WorkDone ==
  ASSUME PushInv, NEW c \in Cpus, NEW r \in Requests,
         r.push = lb[c].push \/ r.push = None, r.irqPush = lb[c].irqPush \/ r.irqPush = None
  PROVE  PushOK(c, r, [NoWork EXCEPT !.fn = "done"])
<1> DEFINE w == [NoWork EXCEPT !.fn = "done"]
<1>1. /\ w \in Works /\ w.fn = "done" /\ w.target = None /\ w.times = 0
      /\ None \notin Cpus /\ "done" \notin Busy
  BY WorkFields
<1>2. PushOK(c, lb[c], stop[c])
  BY DEF PushInv
<1> HIDE DEF w
<1>3. PushOK(c, r, w)
  BY <1>1, <1>2 DEF PushOK
<1>4. QED BY <1>3 DEF w

\* trans_active_load_balance_cpu_stop.
LEMMA StopPullStep ==
  ASSUME Inv, NEW c \in Cpus, StopPull(c)
  PROVE  Inv' /\ StepOK
<1> DEFINE r == [lb[c] EXCEPT !.pid = None, !.type = "none", !.active = FALSE, !.push = None]
           w == [NoWork EXCEPT !.fn = "done"]
           dst == stop[c].target
           found == IF Active(c) /\ Active(dst) /\ lb[c].active
                    THEN Detach(c, dst, lb[c].pid, lb[c].type = "ux") ELSE {}
<1>1. lb[c] \in Requests /\ PushInv
  BY DEF Inv, PushInv
<1>2. lb' = [lb EXCEPT ![c] = r] /\ Moves(c, found) /\ stop' = [stop EXCEPT ![c] = w]
      /\ UNCHANGED <<late, exiting, cpuL, mask, avail, irqwork, scan, newidle>>
  BY <1>1 DEF StopPull, StopEnds, PushInv
<1>3. \A t \in found : t \in Queued(c) /\ dst \in mask[t]
  BY TakenMayMove
<1>4. r \in Requests /\ r.push = None /\ r.irqPush = lb[c].irqPush
  BY <1>1 DEF Requests
<1> HIDE DEF r, found
<1>5. PushOK(c, r, w)
  BY <1>1, <1>4, WorkDone
<1>6. PushInv'
  BY <1>2, <1>5, WorkStep
<1>7. PlaceInv' /\ \A t \in Tasks : MoveOK(t)
  BY <1>2, <1>3, StopperMoves
<1>8. QED BY <1>6, <1>7 DEF Inv, StepOK

\* irqwb_cpu_stop_migrate.
LEMMA StopPushStep ==
  ASSUME Inv, NEW c \in Cpus, StopPush(c)
  PROVE  Inv' /\ StepOK
<1> DEFINE r == [lb[c] EXCEPT !.irqPid = None, !.irqPush = None, !.active = FALSE]
           w == [NoWork EXCEPT !.fn = "done"]
           dst == stop[c].target
           found == IF /\ Active(c) /\ Active(dst) /\ lb[c].active
                       /\ ~HasUx(dst) /\ ~HasRunnableRt(dst)
                    THEN IF Detach(c, dst, lb[c].irqPid, TRUE) # {}
                         THEN Detach(c, dst, lb[c].irqPid, TRUE)
                         ELSE Detach(c, dst, lb[c].irqPid, FALSE)
                    ELSE {}
<1>1. lb[c] \in Requests /\ PushInv /\ lb \in [Cpus -> Requests]
  BY DEF Inv, PushInv
<1>2. /\ IF dst = None THEN UNCHANGED <<cpu, st, lb>>
         ELSE lb' = [lb EXCEPT ![c] = r] /\ Moves(c, found)
      /\ stop' = [stop EXCEPT ![c] = w]
      /\ UNCHANGED <<late, exiting, cpuL, mask, avail, irqwork, scan, newidle>>
  BY <1>1 DEF StopPush, StopEnds
<1>3. \A t \in found : t \in Queued(c) /\ dst \in mask[t]
  BY TakenMayMove
<1>4. r \in Requests /\ r.push = lb[c].push /\ r.irqPush = None
  BY <1>1 DEF Requests
<1> HIDE DEF r, found
<1>5. PushOK(c, r, w) /\ PushOK(c, lb[c], w)
  BY <1>1, <1>4, WorkDone
<1>6. CASE dst = None
  <2>1. lb' = [lb EXCEPT ![c] = lb[c]] /\ UNCHANGED <<cpu, st>>
    BY <1>1, <1>2, <1>6
  <2>2. PushInv'
    BY <1>2, <1>5, <2>1, WorkStep
  <2>3. PlaceInv'
    BY <1>2, <2>1 DEF Inv, PlaceInv
  <2>4. QED BY <2>1, <2>2, <2>3, NobodyMoves DEF Inv, StepOK
<1>7. CASE dst # None
  <2>1. PushInv'
    BY <1>2, <1>5, <1>7, WorkStep
  <2>2. PlaceInv' /\ \A t \in Tasks : MoveOK(t)
    BY <1>2, <1>3, <1>7, StopperMoves
  <2>3. QED BY <2>1, <2>2 DEF Inv, StepOK
<1>8. QED BY <1>6, <1>7

\* The kernel's own stop work; where it takes a task is not this balance's.
LEMMA StopKernelStep ==
  ASSUME Inv, NEW c \in Cpus, StopKernel(c)
  PROVE  Inv' /\ StepOK
<1> DEFINE r == [lb[c] EXCEPT !.active = FALSE]
           w == [NoWork EXCEPT !.fn = "done"]
<1>1. lb[c] \in Requests /\ PushInv
  BY DEF Inv, PushInv
<1>2. lb' = [lb EXCEPT ![c] = r] /\ stop' = [stop EXCEPT ![c] = w]
      /\ UNCHANGED <<cpu, st, late, exiting, cpuL, mask, avail, irqwork, scan, newidle>>
  BY <1>1 DEF StopKernel, StopEnds, PushInv
<1>3. r \in Requests /\ r.push = lb[c].push /\ r.irqPush = lb[c].irqPush
  BY <1>1 DEF Requests
<1> HIDE DEF r
<1>4. PushOK(c, r, w)
  BY <1>1, <1>3, WorkDone
<1>5. PushInv'
  BY <1>2, <1>4, WorkStep
<1>6. PlaceInv'
  BY <1>2 DEF Inv, PlaceInv
<1>7. QED BY <1>2, <1>5, <1>6, NobodyMoves DEF Inv, StepOK

\* The tasks after a switch.
LEMMA SwitchPlace ==
  ASSUME Inv, NEW c \in Cpus, NEW left, NEW next, NEW states \in [Tasks -> States],
         SwitchTo(c, left, next, states)
  PROVE  /\ st' \in [Tasks -> States] /\ UNCHANGED <<cpuL, mask, avail>>
         /\ PushInv'
         /\ \A d \in Cpus : d # c => stop'[d] = stop[d]
<1>1. st' \in [Tasks -> States] /\ UNCHANGED <<cpuL, mask, avail>>
  BY DEF SwitchTo, States
<1>2. PushInv' /\ (stop' = stop \/ (stop[c].fn = "done" /\ stop' = [stop EXCEPT ![c] = NoWork]))
  BY SwitchPush DEF Inv
<1>3. \A d \in Cpus : stop'[d] = stop[d] \/ (d = c /\ stop[d].fn = "done")
  BY <1>2 DEF Inv, PushInv
<1>4. QED BY <1>1, <1>2, <1>3

\* What the tasks of a CPU do when they leave it.
LEMMA AfterTyped ==
  ASSUME PlaceInv, NEW c, NEW sleeps \in BOOLEAN
  PROVE  /\ After(c, sleeps) \in [Tasks -> States]
         /\ TasksAfter(c, sleeps) => late' \subseteq Tasks /\ exiting' \subseteq Tasks
BY DEF PlaceInv, After, TasksAfter, States

\* A switch between tasks moves none.
LEMMA SwitchStep ==
  ASSUME Inv, NEW c \in Cpus, Switch(c)
  PROVE  Inv' /\ StepOK
<1>1. PICK sleeps \in BOOLEAN, next \in Queued(c) \ Running(c) :
        /\ UNCHANGED <<cpu, newidle>>
        /\ TasksAfter(c, sleeps)
        /\ SwitchTo(c, LeavesCritical(c, sleeps), next, After(c, sleeps))
  BY DEF Switch
<1>2. After(c, sleeps) \in [Tasks -> States] /\ late' \subseteq Tasks /\ exiting' \subseteq Tasks
  BY <1>1, AfterTyped DEF Inv
<1>3. /\ st' \in [Tasks -> States] /\ UNCHANGED <<cpuL, mask, avail>>
      /\ PushInv'
  BY <1>1, <1>2, SwitchPlace
<1>4. PlaceInv'
  BY <1>1, <1>2, <1>3 DEF Inv, PlaceInv
<1>5. QED BY <1>1, <1>3, <1>4, NobodyMoves DEF Inv, StepOK

\* A CPU runs out of tasks, and may start to look for others.
LEMMA GoIdleStep ==
  ASSUME Inv, NEW c \in Cpus, GoIdle(c)
  PROVE  Inv' /\ StepOK
<1> DEFINE critical == LeavesCritical(c, TRUE)
<1>1. CanSchedule(c) /\ TasksAfter(c, TRUE) /\ UNCHANGED cpu
  BY DEF GoIdle
<1>2. After(c, TRUE) \in [Tasks -> States] /\ late' \subseteq Tasks /\ exiting' \subseteq Tasks
  BY <1>1, AfterTyped DEF Inv
<1>3. CASE /\ st' = After(c, TRUE)
           /\ stop' = [stop EXCEPT ![c] = NoWork]
           /\ newidle' = [newidle EXCEPT ![c] = IF critical THEN "critical" ELSE "plain"]
           /\ UNCHANGED <<cpuL, mask, avail, lb, irqwork, scan>>
  <2> HIDE DEF critical
  <2>1. PlaceInv'
    BY <1>1, <1>2, <1>3 DEF Inv, PlaceInv
  <2>2. PushOK(c, lb[c], NoWork) /\ lb' = [lb EXCEPT ![c] = lb[c]]
    BY <1>3, WorkFields DEF Inv, PushInv, PushOK
  <2>3. PushInv'
    BY <1>3, <2>2, WorkStep
  <2>4. QED BY <1>1, <2>1, <2>3, NobodyMoves DEF Inv, StepOK
<1>4. CASE SwitchTo(c, critical, None, After(c, TRUE)) /\ UNCHANGED newidle
  <2>1. /\ st' \in [Tasks -> States] /\ UNCHANGED <<cpuL, mask, avail>>
        /\ PushInv'
    BY <1>2, <1>4, SwitchPlace
  <2>2. PlaceInv'
    BY <1>1, <1>2, <1>4, <2>1 DEF Inv, PlaceInv
  <2>3. QED BY <1>1, <2>1, <2>2, NobodyMoves DEF Inv, StepOK
<1>5. QED BY <1>3, <1>4 DEF GoIdle

\* __newidle_pull_task finds tasks of clusters up to its own.
LEMMA NewidlePulled ==
  ASSUME Inv, NEW c \in Cpus, NEW ux \in BOOLEAN, NEW t \in NewidlePulls(c, ux)
  PROVE  /\ t \in Tasks /\ cpu[t] \in Cpus \ {c} /\ st[t] = "ready" /\ c \in mask[t]
         /\ Cluster(c) >= Cluster(cpu[t])
<1> DEFINE walk == NewidleWalk(Cluster(c))
           S == {x \in Sources(c, walk) : PickRunnable(x, c, ux) # {}}
           s == FirstOn(walk, S)
<1>1. S # {} /\ t \in PickRunnable(s, c, ux) /\ S \subseteq Sources(c, walk)
  BY DEF NewidlePulls
<1>2. walk \in Seq(Nat) /\ \A x \in Cpus : OnWalk(walk, x) => Cluster(x) <= Cluster(c)
  BY PullWalks
<1> HIDE DEF walk, S
<1>3. s \in Cpus \ {c} /\ Cluster(s) <= Cluster(c)
  BY <1>1, <1>2, SourceFacts
<1> HIDE DEF s
<1>4. QED BY <1>1, <1>3, PulledOK DEF Inv

\* The end of the newidle balance: at most one task is pulled.
LEMMA NewidleEndsStep ==
  ASSUME Inv, NEW c \in Cpus, NewidleEnds(c)
  PROVE  Inv' /\ StepOK
<1> DEFINE may == IF NewidlePulls(c, TRUE) # {} THEN NewidlePulls(c, TRUE)
                  ELSE NewidlePulls(c, FALSE)
<1>1. \A t \in may : /\ t \in Tasks /\ cpu[t] \in Cpus \ {c} /\ st[t] = "ready" /\ c \in mask[t]
                     /\ Cluster(c) >= Cluster(cpu[t])
  BY NewidlePulled
<1>2. PICK pulled \in IF may = {} THEN {{}} ELSE {{t} : t \in may} :
        /\ cpu' = [t \in Tasks |-> IF t \in pulled THEN c ELSE cpu[t]]
        /\ \E next : SwitchTo(c, newidle[c] = "critical", next, st)
  BY DEF NewidleEnds
<1>3. newidle' = [newidle EXCEPT ![c] = "no"] /\ UNCHANGED <<late, exiting>>
  BY DEF NewidleEnds
<1> HIDE DEF may
<1>4. /\ st' \in [Tasks -> States] /\ UNCHANGED <<cpuL, mask, avail>>
      /\ PushInv'
      /\ \A d \in Cpus : d # c => stop'[d] = stop[d]
  BY <1>2, SwitchPlace DEF Inv, PlaceInv
<1>5. \A t \in pulled : t \in may
  BY <1>2
<1>6. cpu' \in [Tasks -> Cpus]
  BY <1>2 DEF Inv, PlaceInv
<1>7. PlaceInv'
  BY <1>3, <1>4, <1>6 DEF Inv, PlaceInv
<1>8. ASSUME NEW t \in Tasks PROVE MoveOK(t)
  <2>1. CASE t \in pulled
    BY <1>1, <1>2, <1>4, <1>5, <2>1 DEF MoveOK
  <2>2. CASE t \notin pulled
    BY <1>2, <2>2 DEF MoveOK
  <2>3. QED BY <2>1, <2>2
<1>9. QED BY <1>4, <1>7, <1>8 DEF Inv, StepOK

\* Every step keeps the invariant and does what a step may do.
LEMMA InvStep ==
  ASSUME Inv, Next
  PROVE  Inv' /\ StepOK
<1>1. CASE \E t \in Tasks : Wake(t) \/ WakeLowest(t) \/ Enqueue(t) \/ TimesOut(t)
  BY <1>1, TaskStep
<1>2. CASE (\E t \in Mortal : Exit(t)) \/ (\E t \in Rebound : SetCpuL(t) \/ SetAffinity(t))
  BY <1>2, TaskStep, KindsAssumption
<1>3. ASSUME NEW c \in Cpus,
             \/ Tick(c) \/ StopStarts(c) \/ StopPull(c) \/ StopPush(c)
             \/ StopKernel(c) \/ ScanRecord(c) \/ IrqWork(c)
             \/ Switch(c) \/ GoIdle(c) \/ NewidleEnds(c)
             \/ c \in Kicked /\ KernelKick(c)
      PROVE  Inv' /\ StepOK
  BY <1>3, TickStep, StopStartsStep, StopPullStep, StopPushStep, StopKernelStep, ScanRecordStep,
     IrqWorkStep, SwitchStep, GoIdleStep, NewidleEndsStep, KernelKickStep
<1>4. CASE \E c \in Pausable, a \in {"up", "halted", "inactive"} : a # avail[c] /\ SetAvail(c, a)
  BY <1>4, AvailStep, KindsAssumption
<1>5. QED BY <1>1, <1>2, <1>3, <1>4 DEF Next

\* All tasks sleep, nothing is asked.
LEMMA InvInit == Init => Inv
<1> SUFFICES ASSUME Init PROVE Inv
  OBVIOUS
<1>1. PlaceInv
  BY DEF Init, PlaceInv, States
<1>2. NoRequest \in Requests /\ NoRequest.push = None /\ NoRequest.irqPush = None
  BY DEF NoRequest, Requests
<1>3. /\ NoWork \in Works /\ NoWork.target = None /\ NoWork.fn \notin Busy /\ NoWork.times = 0
      /\ None \notin Cpus
  BY WorkFields
<1>4. \A c \in Cpus : lb[c] = NoRequest /\ stop[c] = NoWork /\ scan[c] = None
  BY DEF Init
<1>5. \A c \in Cpus : PushOK(c, lb[c], stop[c])
  BY <1>2, <1>3, <1>4 DEF PushOK
<1>6. lb \in [Cpus -> Requests] /\ stop \in [Cpus -> Works] /\ scan \in [Cpus -> Scans \union {None}]
      /\ irqwork = None
  BY <1>2, <1>3 DEF Init
<1>7. PushInv
  BY <1>4, <1>5, <1>6 DEF PushInv
<1>8. QED BY <1>1, <1>7 DEF Inv

\* The invariant holds, and every step does what a step may do.
LEMMA Invariance == Spec => []Inv /\ [][StepOK]_vars
<1>1. Inv /\ UNCHANGED vars => Inv'
  <2> SUFFICES ASSUME Inv, UNCHANGED vars PROVE Inv'
    OBVIOUS
  <2>1. PlaceInv'
    BY DEF Inv, PlaceInv, vars
  <2>2. PushInv'
    BY SamePush DEF Inv, vars, pushVars
  <2>3. QED BY <2>1, <2>2 DEF Inv
<1>2. Inv /\ [Next]_vars => Inv'
  BY <1>1, InvStep
<1>3. Inv /\ [Next]_vars => [StepOK]_vars
  BY InvStep
<1>4. QED BY <1>2, <1>3, InvInit, PTL DEF Spec

----------------------------------------------------------------------------
(* The properties.                                                         *)

\* active_balance_work, which the vendor's two balances share with the kernel's
\* own, is never queued again before the stopper is through with it, by whichever
\* CPU and for whichever balance: active_balance is up as long as the work is
\* there, and everybody looks at it first.
THEOREM WorkQueuedOnce == Spec => []StopWorkOnce
<1>1. Inv => StopWorkOnce
  <2> SUFFICES ASSUME Inv, NEW c \in Cpus PROVE stop[c].times <= 1
    BY DEF StopWorkOnce
  <2>1. PushOK(c, lb[c], stop[c])
    BY DEF Inv, PushInv
  <2>2. QED BY <2>1 DEF PushOK
<1>2. QED BY <1>1, Invariance, PTL

\* can_migrate_task is asked under the lock at the end of every hand-shake, so
\* no task lands outside its affinity mask.
THEOREM TasksStayInMask == Spec => MovesWhereAllowed
<1>1. [StepOK]_vars => [\A t \in Tasks : cpu'[t] # cpu[t] => cpu'[t] \in mask[t]]_vars
  BY DEF StepOK, MoveOK
<1>2. QED BY <1>1, Invariance, PTL DEF MovesWhereAllowed

\* The walks of calc_order_idx never move a runnable task to a CPU of less
\* capacity, and stop work only to one of more: the target a stopper reads may be
\* stale, but it was written by a larger CPU.
THEOREM TasksMoveUp == Spec => MovesUphill
<1>1. ASSUME Inv, StepOK, NEW t \in Tasks, cpu'[t] # cpu[t], st[t] \in {"run", "ready"}
      PROVE  /\ Capacity[cpu'[t]] >= Capacity[cpu[t]]
             /\ stop[cpu[t]].fn # stop'[cpu[t]].fn => Capacity[cpu'[t]] > Capacity[cpu[t]]
  <2>1. MoveOK(t)
    BY <1>1 DEF StepOK
  <2>2. cpu[t] \in Cpus /\ cpu'[t] \in Cpus
    BY <1>1, <2>1 DEF MoveOK, Inv, PlaceInv
  <2>3. QED BY <1>1, <2>1, <2>2, LargerCluster DEF MoveOK
<1>2. Inv /\ [StepOK]_vars =>
        [\A t \in Tasks : cpu'[t] # cpu[t] /\ st[t] \in {"run", "ready"} =>
           /\ Capacity[cpu'[t]] >= Capacity[cpu[t]]
           /\ stop[cpu[t]].fn # stop'[cpu[t]].fn => Capacity[cpu'[t]] > Capacity[cpu[t]]]_vars
  BY <1>1
<1>3. QED BY <1>2, Invariance, PTL DEF MovesUphill

\* What the newidle balance reports is what it leaves behind.
LEMMA IdleStep ==
  ASSUME Inv, [Next]_vars, NEW c \in Cpus, newidle[c] # "no", newidle'[c] = "no",
         NEW t \in Tasks, cpu'[t] = c, st'[t] = "ready"
  PROVE  \E n \in Tasks : cpu'[n] = c /\ st'[n] = "run"
<1>1. newidle \in [Cpus -> {"no", "critical", "plain"}] /\ cpu \in [Tasks -> Cpus]
      /\ st \in [Tasks -> States]
  BY DEF Inv, PlaceInv
<1>2. \A d \in Cpus : GoIdle(d) => newidle'[c] # "no"
  <2> SUFFICES ASSUME NEW d \in Cpus, GoIdle(d) PROVE newidle'[c] # "no"
    OBVIOUS
  <2>1. newidle[d] = "no" /\ d # c
    BY DEF GoIdle, CanSchedule
  <2>2. newidle'[c] = newidle[c]
    BY <1>1, <2>1 DEF GoIdle
  <2>3. QED BY <2>2
<1>3. \A d \in Cpus \ {c} : NewidleEnds(d) => newidle'[c] = newidle[c]
  BY <1>1 DEF NewidleEnds
<1>4. NewidleEnds(c)
  <2>1. ~UNCHANGED newidle
    OBVIOUS
  <2>2. \A d \in Cpus : ~(Tick(d) \/ StopStarts(d) \/ StopPull(d) \/ StopPush(d) \/ StopKernel(d)
                          \/ ScanRecord(d) \/ IrqWork(d) \/ Switch(d) \/ KernelKick(d))
    BY <2>1 DEF Tick, PullRunning, PullRunnable, StopStarts, StopPull, StopPush, StopKernel,
       StopEnds, ScanRecord, IrqWork, Switch, KernelKick
  <2>3. \A u : ~(Wake(u) \/ WakeLowest(u) \/ Enqueue(u) \/ TimesOut(u) \/ Exit(u)
               \/ SetCpuL(u) \/ SetAffinity(u))
    BY <2>1 DEF Wake, WakeLowest, PlaceOn, Enqueue, TimesOut, Exit, SetCpuL, SetAffinity
  <2>4. \A d, a : ~SetAvail(d, a)
    BY <2>1 DEF SetAvail
  <2>5. ~UNCHANGED vars
    BY <2>1 DEF vars
  <2>6. QED BY <1>2, <1>3, <2>2, <2>3, <2>4, <2>5 DEF Next
<1> DEFINE may == IF NewidlePulls(c, TRUE) # {} THEN NewidlePulls(c, TRUE)
                  ELSE NewidlePulls(c, FALSE)
<1>5. \A u \in may : u \in Tasks
  BY NewidlePulled
<1>6. PICK pulled \in IF may = {} THEN {{}} ELSE {{u} : u \in may} :
        /\ cpu' = [u \in Tasks |-> IF u \in pulled THEN c ELSE cpu[u]]
        /\ \E next \in IF Handled(pulled, Queued(c)) THEN pulled \union Queued(c) ELSE {None} :
             SwitchTo(c, newidle[c] = "critical", next, st)
  BY <1>4 DEF NewidleEnds
<1> HIDE DEF may
<1>7. pulled \subseteq Tasks
  BY <1>5, <1>6
<1>8. PICK next \in IF Handled(pulled, Queued(c)) THEN pulled \union Queued(c) ELSE {None} :
        st' = IF next = None THEN st ELSE [st EXCEPT ![next] = "run"]
  BY <1>6 DEF SwitchTo
<1>9. CASE Handled(pulled, Queued(c))
  <2>1. next \in Tasks /\ (next \in pulled \/ cpu[next] = c) /\ next # None
    BY <1>7, <1>8, <1>9, KindsAssumption DEF Queued
  <2>2. cpu'[next] = c /\ st'[next] = "run"
    BY <1>1, <1>6, <1>8, <2>1
  <2>3. QED BY <2>1, <2>2
<1>10. CASE ~Handled(pulled, Queued(c))
  <2>1. pulled = {} /\ Queued(c) = {} /\ st' = st /\ cpu'[t] = cpu[t]
    BY <1>6, <1>8, <1>10 DEF Handled
  <2>2. t \in Queued(c)
    BY <2>1 DEF Queued
  <2>3. QED BY <2>1, <2>2
<1>11. QED BY <1>9, <1>10

\* __trans_newidle_balance tells the kernel to pick again when there is a task,
\* also one that came while the lock was dropped: no task waits on an idle CPU.
THEOREM IdleCpuIsEmpty == Spec => IdleMeansEmpty
<1>1. Inv /\ [Next]_vars =>
        [\A c \in Cpus : newidle[c] # "no" /\ newidle'[c] = "no" =>
           \A t \in Tasks : cpu'[t] = c /\ st'[t] = "ready" =>
             \E n \in Tasks : cpu'[n] = c /\ st'[n] = "run"]_vars
  BY IdleStep
<1>2. QED BY <1>1, Invariance, PTL DEF Spec, IdleMeansEmpty

=============================================================================

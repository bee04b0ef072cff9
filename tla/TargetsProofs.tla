--------------------------- MODULE TargetsProofs ---------------------------
(***************************************************************************)
(* Proofs about Targets for any threads, groups and names: tags land on    *)
(* threads of the name they are for, and helpers follow their leader.      *)
(***************************************************************************)
EXTENDS Targets, ListFacts

----------------------------------------------------------------------------
(* The inductive invariant.                                                *)

AppSources == {"none", "lent"} \cup Requests
Sources  == AppSources \cup {Sf[n] : n \in DOMAIN Sf}
Names    == DOMAIN Sf \cup AppNames \cup {"other"}
TagWords == [by : Sources, cpuL : BOOLEAN]
Pids     == {PidOf[t] : t \in Tasks} \cup {0}

TypeOK ==
  /\ comm \in [Tasks -> Names] /\ alive \in [Tasks -> BOOLEAN]
  /\ tags \in [Tasks -> TagWords] /\ pending \in [Tasks -> TagWords]
  /\ hook \in [Tasks -> [step : 0..SetTags, name : Names, tags : TagWords]]
  /\ entry \in [DOMAIN Sf -> [pid : Pids, task : Tasks \cup {NoTask}]]
  /\ slot \in DOMAIN Sf \cup {"none"} /\ queued \in BOOLEAN
  /\ work \in [step : {"idle", "find", "compare", "set", "clear"},
               name : DOMAIN Sf \cup {"none"}, task : Tasks \cup {NoTask}]
  /\ call \in [leader : Leaders \cup {NoTask}, by : Requests \cup {"none"}, cpuL : BOOLEAN,
               next : 1..Len(AppTable) + 1, found : SUBSET Nat]
  /\ matched \in [DOMAIN Sf -> SUBSET SystemTasks] /\ behind \in SUBSET Helpers

PostOK ==
  /\ \A n \in DOMAIN Sf : entry[n].task \in matched[n] \cup {NoTask}
  /\ \A t \in Tasks : Posting(t) => hook[t].name \in DOMAIN Sf /\ t \in matched[hook[t].name]
  /\ work.step # "idle" => work.name \in DOMAIN Sf
  /\ work.step \in {"compare", "set"} => work.task \in Tasks
  /\ work.step = "set" => work.task \in matched[work.name]

NamedOK ==
  /\ TagsWhereNamed
  /\ \A t \in Leaders \cup Helpers : tags[t].by \in AppSources /\ pending[t].by \in AppSources
  /\ \A t \in Tasks : hook[t].tags.by \in AppSources /\ (hook[t].step = SetTags => t \in Helpers)

HelperOK ==
  /\ \A l \in Leaders : hook[l] = NoHook
  /\ \A t \in Helpers : comm[t] \in AppNames \cup {"other"}
  /\ \A t \in Helpers : \/ hook[t] = NoHook
                        \/ /\ hook[t].step \in {Renamed, SetTags}
                           /\ hook[t].name \in AppNames /\ comm[t] = "other"
  /\ \A t \in Helpers : comm[t] = "other" /\ hook[t].step # Renamed => Own(tags[t]) = "none"
  /\ \A t \in Helpers : hook[t].step = SetTags => hook[t].tags.by # "none"
  /\ \A l \in Leaders, n \in AppNames : Cardinality(Named(l, n)) <= APPS_TARGETS_SLOTS
  /\ Calling => \A i \in call.found : i \in DOMAIN Group[call.leader]
                                      /\ comm[Group[call.leader][i]] \in AppNames
  /\ ~Calling => call.found = {}

\* A task without tags of its own has no request that waits, and what waits is no
\* inheritance.
PendingOK ==
  \A t \in Leaders \cup Helpers :
    /\ pending[t].by \in {"none"} \cup Requests
    /\ Own(tags[t]) = "none" => pending[t].by = "none"

InStep(t, l) == Own(tags[t]) = Own(tags[l]) /\ pending[t].by = pending[l].by
Settled(t)   == alive[t] /\ hook[t] = NoHook /\ comm[t] \in AppNames

Quiet ==
  \A l \in Leaders : \A i \in DOMAIN Group[l] : LET t == Group[l][i] IN t \notin behind =>
    /\ Settled(t) \/ hook[t].step = Renamed => InStep(t, l)
    /\ hook[t].step = SetTags => Own(hook[t].tags) = Own(tags[l]) /\ pending[l].by = "none"

\* The walk of the ioctl has still to come to a helper, which is as its leader was
\* before, so that the request will bring it in step.
ToCome(i) ==
  \/ i \in call.found
  \/ \E k \in call.next..Len(AppTable) : AppTable[k].comm = comm[Group[call.leader][i]]
WillBe(t, l) ==
  LET after == AfterRequest(tags[t], pending[t], [by |-> call.by, cpuL |-> FALSE])
  IN  Own(after.tags) = Own(tags[l]) /\ after.pending.by = pending[l].by

Walking ==
  /\ \A i \in call.found : call.next > 1 /\ comm[Group[call.leader][i]] = AppTable[call.next - 1].comm
  /\ \A l \in Leaders : \A i \in DOMAIN Group[l] : LET t == Group[l][i] IN t \notin behind =>
       /\ hook[t] = NoHook
       /\ Settled(t) => IF l = call.leader /\ ToCome(i) THEN WillBe(t, l) ELSE InStep(t, l)

FollowOK == IF Calling THEN Walking ELSE Quiet

TargetInv == TypeOK /\ PostOK /\ NamedOK /\ HelperOK /\ PendingOK /\ FollowOK

----------------------------------------------------------------------------
(* Facts about the tables and groups.                                      *)

\* The steps of a rename and the size of the table of helpers.
LEMMA TableFacts ==
  /\ DOMAIN Order = 1..4 /\ Renamed = 5 /\ SetTags = 6
  /\ Len(AppTable) = 2 /\ DOMAIN AppTable = 1..2
  /\ \A n \in AppNames : \E k \in 1..2 : AppTable[k].comm = n
  /\ \A k \in 1..2 : AppTable[k].cpuL \in BOOLEAN /\ AppTable[k].comm \in AppNames
  /\ \A j, k \in 1..2 : AppTable[j].comm = AppTable[k].comm => j = k
<1>1. DOMAIN Order = 1..4 /\ Len(Order) = 4
  BY DEF Order
<1>2. DOMAIN AppTable = 1..2 /\ Len(AppTable) = 2
  BY DEF AppTable
<1>3. Renamed = 5 /\ SetTags = 6
  BY <1>1 DEF Renamed, SetTags
<1>4. /\ \A n \in AppNames : \E k \in 1..2 : AppTable[k].comm = n
      /\ \A k \in 1..2 : AppTable[k].comm \in AppNames
  BY <1>2 DEF AppNames
<1>5. AppTable[1].cpuL \in BOOLEAN /\ AppTable[2].cpuL \in BOOLEAN
  BY DEF AppTable
<1>6. \A k \in 1..2 : AppTable[k].cpuL \in BOOLEAN
  <2> TAKE k \in 1..2
  <2>1. k = 1 \/ k = 2
    OBVIOUS
  <2>2. QED BY <1>5, <2>1
<1>7. \A j, k \in 1..2 : AppTable[j].comm = AppTable[k].comm => j = k
  <2>1. AppTable[1].comm # AppTable[2].comm
    BY DEF AppTable
  <2>2. \A k \in 1..2 : k = 1 \/ k = 2
    OBVIOUS
  <2>3. QED BY <2>1, <2>2
<1>8. QED BY <1>1, <1>2, <1>3, <1>4, <1>6, <1>7

\* The threads of a group are helpers, and helpers are nothing else.
LEMMA GroupFacts ==
  /\ \A l \in Leaders : \A i \in DOMAIN Group[l] : Group[l][i] \in Helpers
  /\ \A t \in Helpers : t \in Tasks /\ t \notin Leaders /\ t \notin SystemTasks
  /\ \A t \in Helpers : \E l \in Leaders : \E i \in DOMAIN Group[l] : Group[l][i] = t
  /\ \A l \in Leaders : l \in Tasks /\ l \notin SystemTasks
  /\ SystemTasks \subseteq Tasks
  /\ \A l \in Leaders : Len(Group[l]) \in Nat /\ DOMAIN Group[l] = 1..Len(Group[l])
<1>1. \A l \in Leaders : \A i \in DOMAIN Group[l] : Group[l][i] \in Helpers
  BY DEF Helpers, ToSet
<1>2. \A t \in Helpers : \E l \in Leaders : \E i \in DOMAIN Group[l] : Group[l][i] = t
  BY DEF Helpers, ToSet
<1>3. \A l \in Leaders : Len(Group[l]) \in Nat /\ DOMAIN Group[l] = 1..Len(Group[l])
  BY GroupAssumption, LenProperties
<1>4. QED BY <1>1, <1>2, <1>3, TasksAssumption DEF Tasks

\* get_task_grpleader finds the leader of the one group a thread is in.
LEMMA LeaderFacts ==
  ASSUME NEW l \in Leaders, NEW i \in DOMAIN Group[l]
  PROVE  LeaderOf(Group[l][i]) = l
<1>1. Group[l][i] \in ToSet(Group[l])
  BY DEF ToSet
<1>2. ASSUME NEW m \in Leaders, Group[l][i] \in ToSet(Group[m]) PROVE m = l
  BY <1>1, <1>2, GroupAssumption
<1>3. QED BY <1>1, <1>2 DEF LeaderOf

\* The leader of a helper is a leader, with the helper in its list.
LEMMA HelperLeader ==
  ASSUME NEW t \in Helpers
  PROVE  LeaderOf(t) \in Leaders /\ \E i \in DOMAIN Group[LeaderOf(t)] : Group[LeaderOf(t)][i] = t
BY GroupFacts, LeaderFacts

\* Who has a place in the walk over a group has a first one there.
LEMMA FirstFound ==
  ASSUME TypeOK, call.found # {}
  PROVE  LET i == CHOOSE i \in call.found : \A j \in call.found : i <= j
         IN  i \in call.found
<1>1. call.found \in SUBSET Nat
  BY DEF TypeOK
<1>2. PICK n \in call.found : TRUE
  OBVIOUS
<1>3. QED BY <1>1, <1>2, LeastElement

\* The words of an untagged task and of one that a leader's request tags.
LEMMA TagWordFacts ==
  /\ Untagged \in TagWords /\ Untagged.by = "none" /\ ~Untagged.cpuL
  /\ \A y \in Requests \cup {"none"}, b \in BOOLEAN : [by |-> y, cpuL |-> b] \in TagWords
  /\ [Untagged EXCEPT !.by = "lent"] \in TagWords /\ [Untagged EXCEPT !.by = "lent"].by = "lent"
  /\ \A w \in TagWords, b \in BOOLEAN : [w EXCEPT !.cpuL = b] \in TagWords /\ [w EXCEPT !.cpuL = b].by = w.by
  /\ \A n \in DOMAIN Sf : [by |-> Sf[n], cpuL |-> FALSE] \in TagWords
BY DEF TagWords, Untagged, Sources, AppSources

\* A request makes up no tags.
LEMMA WordsAfter ==
  ASSUME NEW cur, NEW pend, NEW req
  PROVE  /\ AfterRequest(cur, pend, req).tags \in {cur, pend, req}
         /\ AfterRequest(cur, pend, req).pending \in {cur, pend, req, Untagged}
<1>1. CASE cur.by = "none"
  BY <1>1 DEF AfterRequest
<1>2. CASE cur.by # "none" /\ (cur.by = "lent" \/ (req.by = "none" /\ pend.by = "none"))
  BY <1>2 DEF AfterRequest
<1>3. CASE cur.by # "none" /\ cur.by # "lent" /\ ~(req.by = "none" /\ pend.by = "none")
  BY <1>3 DEF AfterRequest, Overlap, Cancelled
<1>4. QED BY <1>1, <1>2, <1>3

\* What a request leaves depends on where tags come from, and not on the difference
\* between inherited tags and none.
LEMMA SameAfter ==
  ASSUME NEW cur, NEW pend, NEW req, NEW c, NEW p, NEW q,
         Own(cur) = Own(c), pend.by = p.by, req.by = q.by,
         Own(cur) = "none" => pend.by = "none"
  PROVE  /\ Own(AfterRequest(cur, pend, req).tags) = Own(AfterRequest(c, p, q).tags)
         /\ AfterRequest(cur, pend, req).pending.by = AfterRequest(c, p, q).pending.by
<1>1. CASE Own(cur) = "none"
  <2>1. cur.by \in {"none", "lent"} /\ c.by \in {"none", "lent"} /\ pend.by = "none" /\ p.by = "none"
    BY <1>1 DEF Own
  <2>2. ASSUME NEW x, NEW y, NEW z, x.by \in {"none", "lent"}, y.by = "none"
        PROVE  AfterRequest(x, y, z).tags = z /\ AfterRequest(x, y, z).pending.by = "none"
    BY <2>2 DEF AfterRequest, Untagged
  <2>3. QED BY <2>1, <2>2 DEF Own
<1>2. CASE Own(cur) # "none"
  <2>1. cur.by = c.by /\ cur.by # "none" /\ cur.by # "lent"
    BY <1>2 DEF Own
  <2>2. CASE req.by = "none" /\ pend.by = "none"
    BY <2>1, <2>2 DEF AfterRequest, Own
  <2>3. CASE req.by # "none" /\ pend.by = "none"
    BY <2>1, <2>3 DEF AfterRequest, Overlap, Own
  <2>4. CASE req.by = "none" /\ pend.by # "none"
    BY <2>1, <2>4 DEF AfterRequest, Cancelled, Own
  <2>5. CASE req.by # "none" /\ pend.by # "none"
    BY <2>1, <2>5 DEF AfterRequest, Own
  <2>6. QED BY <2>2, <2>3, <2>4, <2>5
<1>3. QED BY <1>1, <1>2

\* A request waits only behind tags of the task's own, and is never an inheritance.
LEMMA CleanAfter ==
  ASSUME NEW cur, NEW pend, NEW req, cur.by \in AppSources, req.by \in AppSources,
         pend.by \in {"none"} \cup Requests, Own(cur) = "none" => pend.by = "none",
         req.by = "lent" => Own(cur) = "none"
  PROVE  /\ AfterRequest(cur, pend, req).pending.by \in {"none"} \cup Requests
         /\ Own(AfterRequest(cur, pend, req).tags) = "none"
              => AfterRequest(cur, pend, req).pending.by = "none"
<1>1. CASE Own(cur) = "none"
  <2>1. cur.by \in {"none", "lent"} /\ pend.by = "none"
    BY <1>1 DEF Own
  <2>2. QED BY <2>1 DEF AfterRequest, Untagged
<1>2. CASE Own(cur) # "none"
  <2>1. cur.by \in Requests /\ cur.by # "none" /\ cur.by # "lent" /\ req.by \in {"none"} \cup Requests
    BY <1>2, RequestsAssumption DEF Own, AppSources
  <2>2. \A w : w.by \in Requests => Own(w) # "none"
    BY RequestsAssumption DEF Own
  <2>3. CASE req.by = "none" /\ pend.by = "none"
    BY <2>1, <2>3 DEF AfterRequest
  <2>4. CASE req.by # "none" /\ pend.by = "none"
    BY <2>1, <2>2, <2>4 DEF AfterRequest, Overlap
  <2>5. CASE req.by = "none" /\ pend.by # "none"
    BY <2>1, <2>5 DEF AfterRequest, Cancelled, Untagged
  <2>6. CASE req.by # "none" /\ pend.by # "none"
    BY <1>2, <2>1, <2>6 DEF AfterRequest
  <2>7. QED BY <2>3, <2>4, <2>5, <2>6
<1>3. QED BY <1>1, <1>2

\* A request changes the tags of its task, and of no other.
LEMMA SetMoves ==
  ASSUME TypeOK, NEW t \in Tasks, NEW req \in TagWords, SetUxTags(t, req)
  PROVE  /\ tags' \in [Tasks -> TagWords] /\ pending' \in [Tasks -> TagWords]
         /\ tags'[t] = AfterRequest(tags[t], pending[t], req).tags
         /\ pending'[t] = AfterRequest(tags[t], pending[t], req).pending
         /\ \A u \in Tasks \ {t} : tags'[u] = tags[u] /\ pending'[u] = pending[u]
<1> DEFINE after == AfterRequest(tags[t], pending[t], req)
<1>1. tags' = [tags EXCEPT ![t] = after.tags] /\ pending' = [pending EXCEPT ![t] = after.pending]
  BY DEF SetUxTags
<1>2. /\ tags \in [Tasks -> TagWords] /\ pending \in [Tasks -> TagWords]
      /\ Untagged \in TagWords
  BY TagWordFacts DEF TypeOK
<1>3. after.tags \in TagWords /\ after.pending \in TagWords
  <2>1. after.tags \in {tags[t], pending[t], req} /\ after.pending \in {tags[t], pending[t], req, Untagged}
    BY WordsAfter
  <2> HIDE DEF after
  <2>2. QED BY <1>2, <2>1
<1> HIDE DEF after
<1>4. /\ tags' \in [Tasks -> TagWords] /\ pending' \in [Tasks -> TagWords]
      /\ tags'[t] = after.tags /\ pending'[t] = after.pending
      /\ \A u \in Tasks \ {t} : tags'[u] = tags[u] /\ pending'[u] = pending[u]
  BY <1>1, <1>2, <1>3
<1>5. QED BY <1>4 DEF after

\* The walk's next step is a request on a helper it has found, if that is still there.
LEMMA TargetMoves ==
  ASSUME TypeOK, HelperOK, TagTarget
  PROVE  \E i \in call.found : LET t == Group[call.leader][i] IN
           /\ i \in DOMAIN Group[call.leader] /\ call.leader \in Leaders /\ t \in Helpers /\ t \in Tasks
           /\ call' = [call EXCEPT !.found = @ \ {i}]
           /\ IF t \in FindTask(PidOf[t])
                THEN SetUxTags(t, [by |-> call.by, cpuL |-> call.cpuL])
                ELSE UNCHANGED <<tags, pending>>
           /\ [by |-> call.by, cpuL |-> call.cpuL] \in TagWords
<1> DEFINE i == CHOOSE i \in call.found : \A j \in call.found : i <= j
           t == Group[call.leader][i]
<1>1. i \in call.found
  BY FirstFound DEF TagTarget
<1>2. /\ call' = [call EXCEPT !.found = @ \ {i}]
      /\ IF t \in FindTask(PidOf[t])
           THEN SetUxTags(t, [by |-> call.by, cpuL |-> call.cpuL])
           ELSE UNCHANGED <<tags, pending>>
  BY DEF TagTarget
<1> HIDE DEF i
<1>3. Calling /\ call.leader \in Leaders /\ i \in DOMAIN Group[call.leader]
  <2>1. Calling
    BY <1>1 DEF HelperOK
  <2>2. QED BY <1>1, <2>1 DEF HelperOK, Calling, TypeOK
<1>4. t \in Helpers /\ t \in Tasks
  BY <1>3, GroupFacts
<1>5. [by |-> call.by, cpuL |-> call.cpuL] \in TagWords
  <2>1. call.by \in Requests \cup {"none"} /\ call.cpuL \in BOOLEAN
    BY DEF TypeOK
  <2>2. QED BY <2>1, TagWordFacts
<1>6. QED BY <1>1, <1>2, <1>3, <1>4, <1>5

\* The local variables of an ioctl.
LEMMA CallTyped ==
  ASSUME TypeOK
  PROVE  call \in [leader : Leaders \cup {NoTask}, by : Requests \cup {"none"}, cpuL : BOOLEAN,
                  next : 1..Len(AppTable) + 1, found : SUBSET Nat]
BY DEF TypeOK

----------------------------------------------------------------------------
(* Each part of the invariant through each step.                           *)

\* The steps that are not a rename's.
OtherStep ==
  \/ Work
  \/ \E l \in Leaders, by \in Requests \cup {"none"} : Call(l, by)
  \/ Collect \/ TagTarget \/ Return
  \/ \E t \in Tasks : Exit(t) \/ Born(t) \/ Lend(t) \/ LentEnds(t)

\* What a step is.
LEMMA NextCases ==
  ASSUME Next
  PROVE  \/ \E t \in Tasks : \E n \in DOMAIN Sf : RenameSf(t, n) /\ alive[t] /\ hook[t] = NoHook /\ comm[t] = "other"
         \/ \E t \in Tasks : \E n \in AppNames : RenameHelper(t, n) /\ alive[t] /\ hook[t] = NoHook /\ comm[t] = "other"
         \/ \E t \in Tasks : Post(t) \/ TagHelper(t)
         \/ \E t \in Tasks : WriteComm(t)
         \/ OtherStep
<1>1. ASSUME NEW t \in Tasks, Rename(t)
      PROVE  \/ \E n \in DOMAIN Sf : RenameSf(t, n) /\ alive[t] /\ hook[t] = NoHook /\ comm[t] = "other"
             \/ \E n \in AppNames : RenameHelper(t, n) /\ alive[t] /\ hook[t] = NoHook /\ comm[t] = "other"
  <2>1. PICK n \in DOMAIN Sf \cup AppNames : RenameSf(t, n) \/ RenameHelper(t, n)
    BY <1>1 DEF Rename
  <2>2. RenameSf(t, n) => n \in DOMAIN Sf
    BY DEF RenameSf
  <2>3. RenameHelper(t, n) => n \in AppNames
    BY DEF RenameHelper
  <2>4. QED BY <1>1, <2>1, <2>2, <2>3 DEF Rename
<1>2. QED BY <1>1 DEF Next, TaskStep, OtherStep

\* The tags a helper is to get are its leader's, with the affinity of its name.
LEMMA HelperHook ==
  ASSUME TypeOK, NEW t \in Tasks, NEW n \in AppNames, RenameHelper(t, n)
  PROVE  /\ t \in Helpers /\ LeaderOf(t) \in Leaders
         /\ \E s \in {Renamed, SetTags}, w \in TagWords :
              /\ hook' = [hook EXCEPT ![t] = [step |-> s, name |-> n, tags |-> w]]
              /\ w.by = tags[LeaderOf(t)].by
              /\ s = Renamed <=> w.by = "none"
<1> DEFINE of == tags[LeaderOf(t)]
           row == CHOOSE i \in DOMAIN AppTable : AppTable[i].comm = n
           w == [of EXCEPT !.cpuL = @ \/ AppTable[row].cpuL]
<1>1. t \in Helpers /\ LeaderOf(t) \in Leaders /\ LeaderOf(t) \in Tasks
  BY HelperLeader, GroupFacts DEF RenameHelper
<1>2. of \in TagWords /\ of.cpuL \in BOOLEAN /\ AppTable[row].cpuL \in BOOLEAN
  BY <1>1, TableFacts DEF TypeOK, TagWords
<1>3. hook' = [hook EXCEPT ![t] =
        [step |-> IF of.by = "none" THEN Renamed ELSE SetTags, name |-> n, tags |-> w]]
  BY DEF RenameHelper
<1> HIDE DEF of, row
<1>4. (of.cpuL \/ AppTable[row].cpuL) \in BOOLEAN
  BY <1>2
<1>5. w \in TagWords /\ w.by = of.by
  BY <1>2, <1>4, TagWordFacts
<1> HIDE DEF w
<1>6. \E s \in {Renamed, SetTags} :
        /\ hook' = [hook EXCEPT ![t] = [step |-> s, name |-> n, tags |-> w]]
        /\ s = Renamed <=> w.by = "none"
  <2> DEFINE s == IF of.by = "none" THEN Renamed ELSE SetTags
  <2>1. s \in {Renamed, SetTags} /\ (s = Renamed <=> w.by = "none")
    BY <1>5, TableFacts
  <2>2. hook' = [hook EXCEPT ![t] = [step |-> s, name |-> n, tags |-> w]]
    BY <1>3
  <2> HIDE DEF s
  <2>3. QED BY <2>1, <2>2
<1>7. QED BY <1>1, <1>5, <1>6 DEF of

\* A rename in progress has one of the hook's steps.
LEMMA HookType ==
  ASSUME TypeOK, Next
  PROVE  hook' \in [Tasks -> [step : 0..SetTags, name : Names, tags : TagWords]]
<1> DEFINE H == [step : 0..SetTags, name : Names, tags : TagWords]
<1>1. hook \in [Tasks -> H] /\ tags \in [Tasks -> TagWords]
  BY DEF TypeOK
<1>2. NoHook \in H /\ SetTags = 6 /\ Renamed = 5
  BY TableFacts, TagWordFacts DEF NoHook, Names
<1>3. ASSUME NEW t \in Tasks, NEW n \in DOMAIN Sf, RenameSf(t, n) PROVE hook' \in [Tasks -> H]
  <2> DEFINE h == [NoHook EXCEPT !.step = 1, !.name = n]
  <2>1. h \in [step : 0..SetTags, name : Names, tags : TagWords]
    <3>1. n \in Names /\ 1 \in 0..SetTags
      BY <1>2 DEF Names
    <3>2. NoHook \in [step : 0..SetTags, name : Names, tags : TagWords]
      BY <1>2
    <3> HIDE DEF H
    <3>3. QED BY <3>1, <3>2
  <2>2. hook' = [hook EXCEPT ![t] = h]
    BY <1>3 DEF RenameSf
  <2> HIDE DEF h
  <2>3. QED BY <1>1, <2>1, <2>2
<1>4. ASSUME NEW t \in Tasks, NEW n \in AppNames, RenameHelper(t, n) PROVE hook' \in [Tasks -> H]
  <2>1. PICK s \in {Renamed, SetTags}, w \in TagWords :
          hook' = [hook EXCEPT ![t] = [step |-> s, name |-> n, tags |-> w]]
    BY <1>4, HelperHook
  <2>2. [step |-> s, name |-> n, tags |-> w] \in H
    BY <1>2 DEF Names
  <2>3. QED BY <1>1, <2>1, <2>2
<1>5. ASSUME NEW t \in Tasks, Post(t) \/ TagHelper(t) PROVE hook' \in [Tasks -> H]
  <2>1. hook[t] \in H /\ hook[t].step \in {1, 2, 3, 4, 6}
    BY <1>1, <1>2, <1>5, TableFacts DEF Post, Posting, TagHelper
  <2>2. \A s \in 0..6 : [hook[t] EXCEPT !.step = s] \in H
    BY <1>2, <2>1
  <2>3. \/ hook' = [hook EXCEPT ![t] = [hook[t] EXCEPT !.step = hook[t].step + 1]]
           /\ hook[t].step \in 1..4
        \/ hook' = [hook EXCEPT ![t] = [hook[t] EXCEPT !.step = 5]]
    BY <1>1, <1>2, <1>5, TableFacts DEF Post, Posting, TagHelper
  <2>4. hook[t].step \in 1..4 => hook[t].step + 1 \in 0..6
    OBVIOUS
  <2>5. PICK s \in 0..6 : hook' = [hook EXCEPT ![t] = [hook[t] EXCEPT !.step = s]]
    BY <2>3, <2>4
  <2>6. QED BY <1>1, <2>2, <2>5
<1>6. ASSUME NEW t \in Tasks, WriteComm(t) PROVE hook' \in [Tasks -> H]
  BY <1>1, <1>2, <1>6 DEF WriteComm
<1>7. ASSUME OtherStep PROVE hook' \in [Tasks -> H]
  BY <1>1, <1>7
     DEF OtherStep, Exit, Born, Lend, LentEnds, Work, WorkStart, WorkFind, WorkCompare, WorkSet, WorkClear,
         Call, Collect, TagTarget, Return
<1>8. QED BY <1>3, <1>4, <1>5, <1>6, <1>7, NextCases

\* Which steps change what.
LEMMA WhoChanges ==
  ASSUME Next
  PROVE  /\ comm' = comm \/ \E t \in Tasks : WriteComm(t)
         /\ \/ tags' = tags \/ WorkSet \/ TagTarget
            \/ \E t \in Tasks : TagHelper(t) \/ Lend(t) \/ LentEnds(t)
            \/ \E l \in Leaders, by \in Requests \cup {"none"} : Call(l, by)
         /\ \/ pending' = pending \/ TagTarget \/ \E t \in Tasks : TagHelper(t)
            \/ \E l \in Leaders, by \in Requests \cup {"none"} : Call(l, by)
         /\ alive' = alive \/ \E t \in Tasks : Exit(t) \/ Born(t)
         /\ entry' = entry \/ \E t \in Tasks : Post(t)
         /\ UNCHANGED <<slot, queued>> \/ WorkStart \/ WorkClear \/ \E t \in Tasks : Post(t)
         /\ work' = work \/ Work
         /\ \/ call' = call \/ Collect \/ TagTarget \/ Return
            \/ \E l \in Leaders, by \in Requests \cup {"none"} : Call(l, by)
         /\ matched' = matched \/ \E t \in Tasks, n \in DOMAIN Sf : RenameSf(t, n)
         /\ \/ behind' = behind \/ \E t \in Tasks, n \in AppNames : RenameHelper(t, n)
            \/ \E l \in Leaders, by \in Requests \cup {"none"} : Call(l, by)
<1>1. CASE \E t \in Tasks : \E n \in DOMAIN Sf : RenameSf(t, n)
  BY <1>1 DEF RenameSf, taskVars, callVars
<1>2. CASE \E t \in Tasks : \E n \in AppNames : RenameHelper(t, n)
  BY <1>2 DEF RenameHelper, taskVars, sfVars
<1>3. CASE \E t \in Tasks : Post(t) \/ TagHelper(t)
  BY <1>3 DEF Post, TagHelper, taskVars, sfVars, callVars
<1>4. CASE \E t \in Tasks : WriteComm(t)
  BY <1>4 DEF WriteComm, sfVars, callVars
<1>5. CASE Work
  BY <1>5 DEF Work, WorkStart, WorkFind, WorkCompare, WorkSet, WorkClear, taskVars, callVars
<1>6. CASE \E t \in Tasks : Exit(t) \/ Born(t) \/ Lend(t) \/ LentEnds(t)
  BY <1>6 DEF Exit, Born, Lend, LentEnds, sfVars, callVars
<1>7. CASE \E l \in Leaders, by \in Requests \cup {"none"} : Call(l, by)
  BY <1>7 DEF Call, sfVars
<1>8. CASE Collect \/ TagTarget \/ Return
  BY <1>8 DEF Collect, TagTarget, Return, taskVars, sfVars
<1>9. QED BY <1>1, <1>2, <1>3, <1>4, <1>5, <1>6, <1>7, <1>8, NextCases DEF OtherStep

\* Every step keeps the types.
LEMMA TypeStep ==
  ASSUME TypeOK, PostOK, HelperOK, Next
  PROVE  TypeOK'
<1>1. comm' \in [Tasks -> Names]
  <2>1. ASSUME NEW t \in Tasks, WriteComm(t) PROVE comm' \in [Tasks -> Names]
    <3>1. hook[t].name \in Names
      BY DEF TypeOK
    <3>2. QED BY <2>1, <3>1 DEF TypeOK, WriteComm
  <2>2. QED BY <2>1, WhoChanges DEF TypeOK
<1>2. tags' \in [Tasks -> TagWords] /\ pending' \in [Tasks -> TagWords]
  <2>1. tags \in [Tasks -> TagWords] /\ pending \in [Tasks -> TagWords]
    BY DEF TypeOK
  <2> DEFINE Typed == tags' \in [Tasks -> TagWords] /\ pending' \in [Tasks -> TagWords]
  <2>2. ASSUME NEW t \in Tasks, TagHelper(t) PROVE Typed
    <3>1. hook[t].tags \in TagWords /\ SetUxTags(t, hook[t].tags)
      BY <2>2 DEF TypeOK, TagHelper
    <3>2. QED BY <3>1, SetMoves
  <2>3. ASSUME WorkSet PROVE Typed
    <3>1. work.name \in DOMAIN Sf
      BY <2>3 DEF WorkSet, PostOK
    <3>2. [by |-> Sf[work.name], cpuL |-> FALSE] \in TagWords
      BY <3>1, TagWordFacts
    <3>3. QED BY <2>1, <2>3, <3>2 DEF WorkSet
  <2>4. ASSUME NEW l \in Leaders, NEW by \in Requests \cup {"none"}, Call(l, by) PROVE Typed
    <3>1. [by |-> by, cpuL |-> FALSE] \in TagWords /\ l \in Tasks
      BY TagWordFacts, GroupFacts
    <3>2. SetUxTags(l, [by |-> by, cpuL |-> FALSE])
      BY <2>4 DEF Call
    <3>3. QED BY <3>1, <3>2, SetMoves
  <2>5. ASSUME TagTarget PROVE Typed
    <3> DEFINE req == [by |-> call.by, cpuL |-> call.cpuL]
    <3>1. req \in TagWords
      BY <2>5, TargetMoves
    <3>2. UNCHANGED <<tags, pending>> \/ \E t \in Tasks : SetUxTags(t, req)
      BY <2>5, TargetMoves
    <3> HIDE DEF req
    <3>3. QED BY <2>1, <3>1, <3>2, SetMoves
  <2>6. ASSUME NEW t \in Tasks, Lend(t) \/ LentEnds(t) PROVE Typed
    <3> DEFINE w == [Untagged EXCEPT !.by = "lent"]
    <3>1. w \in TagWords /\ Untagged \in TagWords
      BY TagWordFacts
    <3>2. /\ tags' = [tags EXCEPT ![t] = w] \/ tags' = [tags EXCEPT ![t] = Untagged]
          /\ pending' = pending
      BY <2>6 DEF Lend, LentEnds
    <3> HIDE DEF w
    <3>3. QED BY <2>1, <3>1, <3>2
  <2>7. CASE tags' = tags /\ pending' = pending
    BY <2>1, <2>7
  <2>8. CASE tags' = tags /\ pending' # pending
    BY <2>2, <2>4, <2>5, <2>8, WhoChanges
  <2>9. CASE tags' # tags
    BY <2>2, <2>3, <2>4, <2>5, <2>6, <2>9, WhoChanges
  <2>10. QED BY <2>7, <2>8, <2>9
<1>3. alive' \in [Tasks -> BOOLEAN]
  BY WhoChanges DEF TypeOK, Exit, Born
<1>4. hook' \in [Tasks -> [step : 0..SetTags, name : Names, tags : TagWords]]
  BY HookType
<1>5. entry' \in [DOMAIN Sf -> [pid : Pids, task : Tasks \cup {NoTask}]]
  <2>1. ASSUME NEW t \in Tasks, Post(t) PROVE entry' \in [DOMAIN Sf -> [pid : Pids, task : Tasks \cup {NoTask}]]
    <3>1. PidOf[t] \in Pids
      BY DEF Pids
    <3> DEFINE n == hook[t].name
               E == [pid : Pids, task : Tasks \cup {NoTask}]
    <3>2. n \in DOMAIN Sf
      BY <2>1 DEF Post, PostOK
    <3>3. \/ entry' = [entry EXCEPT ![n].pid = PidOf[t]]
          \/ entry' = [entry EXCEPT ![n].task = t]
          \/ entry' = entry
      BY <2>1 DEF Post
    <3>4. entry \in [DOMAIN Sf -> E] /\ entry[n] \in E
      BY <3>2 DEF TypeOK
    <3>5. [entry[n] EXCEPT !.pid = PidOf[t]] \in E /\ [entry[n] EXCEPT !.task = t] \in E
      BY <3>1, <3>4
    <3> HIDE DEF n, E
    <3>6. entry' \in [DOMAIN Sf -> E]
      BY <3>2, <3>3, <3>4, <3>5
    <3>7. QED BY <3>6 DEF E
  <2>2. QED BY <2>1, WhoChanges DEF TypeOK
<1>6. slot' \in DOMAIN Sf \cup {"none"} /\ queued' \in BOOLEAN
  <2>1. ASSUME NEW t \in Tasks, Post(t) PROVE slot' \in DOMAIN Sf \cup {"none"} /\ queued' \in BOOLEAN
    <3>1. hook[t].name \in DOMAIN Sf
      BY <2>1 DEF Post, PostOK
    <3>2. slot' \in {hook[t].name, slot} /\ queued' \in BOOLEAN
      BY <2>1 DEF Post
    <3>3. QED BY <3>1, <3>2 DEF TypeOK
  <2>2. QED BY <2>1, WhoChanges DEF TypeOK, WorkStart, WorkClear
<1>7. work' \in [step : {"idle", "find", "compare", "set", "clear"},
                 name : DOMAIN Sf \cup {"none"}, task : Tasks \cup {NoTask}]
  <2> DEFINE W == [step : {"idle", "find", "compare", "set", "clear"},
                   name : DOMAIN Sf \cup {"none"}, task : Tasks \cup {NoTask}]
  <2>1. work \in W /\ slot \in DOMAIN Sf \cup {"none"} /\ NoWork \in W
    BY DEF TypeOK, NoWork
  <2>2. CASE WorkStart
    BY <2>1, <2>2 DEF WorkStart, NoWork
  <2>3. CASE WorkFind
    <3> DEFINE found == FindTask(entry[work.name].pid)
    <3>1. found # {} => (CHOOSE t \in found : TRUE) \in Tasks
      BY DEF FindTask
    <3> DEFINE t == CHOOSE t \in found : TRUE
    <3>2. work' = IF found = {} THEN NoWork ELSE [work EXCEPT !.step = "compare", !.task = t]
      BY <2>3 DEF WorkFind
    <3> HIDE DEF found, t
    <3>3. CASE found = {}
      BY <2>1, <3>2, <3>3
    <3>4. CASE found # {}
      <4>1. t \in Tasks
        BY <3>1, <3>4 DEF t
      <4>2. work' = [work EXCEPT !.step = "compare", !.task = t]
        BY <3>2, <3>4
      <4>3. QED BY <2>1, <4>1, <4>2
    <3>5. QED BY <3>3, <3>4
  <2>4. CASE WorkCompare
    BY <2>1, <2>4 DEF WorkCompare
  <2>5. CASE WorkSet
    BY <2>1, <2>5 DEF WorkSet
  <2>6. CASE WorkClear
    BY <2>1, <2>6 DEF WorkClear
  <2>7. QED BY <2>1, <2>2, <2>3, <2>4, <2>5, <2>6, WhoChanges DEF Work
<1>8. call' \in [leader : Leaders \cup {NoTask}, by : Requests \cup {"none"}, cpuL : BOOLEAN,
                 next : 1..Len(AppTable) + 1, found : SUBSET Nat]
  <2> DEFINE C == [leader : Leaders \cup {NoTask}, by : Requests \cup {"none"}, cpuL : BOOLEAN,
                   next : 1..Len(AppTable) + 1, found : SUBSET Nat]
  <2>1. call \in C /\ NoCall \in C /\ Len(AppTable) = 2
    BY TableFacts DEF TypeOK, NoCall
  <2>2. CASE \E l \in Leaders, by \in Requests \cup {"none"} : Call(l, by)
    BY <2>1, <2>2 DEF Call
  <2>3. CASE Collect
    <3> DEFINE ts == TargetsOf(call.leader, AppTable[call.next].comm)
               b == call.cpuL \/ (call.by # "none" /\ ts # {} /\ AppTable[call.next].cpuL)
    <3>1. call.next + 1 \in 1..Len(AppTable) + 1
      BY <2>1, <2>3 DEF Collect
    <3>2. ts \in SUBSET Nat
      <4>1. call.leader \in Leaders
        BY <2>1, <2>3 DEF Collect, Calling
      <4>2. DOMAIN Group[call.leader] \in SUBSET Nat
        BY <4>1, GroupFacts
      <4>3. QED BY <4>2 DEF TargetsOf
    <3>3. b \in BOOLEAN
      <4>1. AppTable[call.next].cpuL \in BOOLEAN
        BY <2>1, <2>3, TableFacts DEF Collect
      <4>2. QED BY <2>1, <4>1
    <3>4. call' = [call EXCEPT !.next = @ + 1, !.found = ts, !.cpuL = b]
      BY <2>3 DEF Collect
    <3> HIDE DEF ts, b
    <3>5. QED BY <2>1, <3>1, <3>2, <3>3, <3>4
  <2>4. CASE TagTarget
    <3>1. \A i : call.found \ {i} \in SUBSET Nat
      BY <2>1
    <3>2. PICK i : call' = [call EXCEPT !.found = call.found \ {i}]
      BY <2>4 DEF TagTarget
    <3>3. QED BY <2>1, <3>1, <3>2
  <2>5. CASE Return
    BY <2>1, <2>5 DEF Return
  <2>6. QED BY <2>1, <2>2, <2>3, <2>4, <2>5, WhoChanges
<1>9. matched' \in [DOMAIN Sf -> SUBSET SystemTasks]
  <2>1. ASSUME NEW t \in Tasks, NEW n \in DOMAIN Sf, RenameSf(t, n)
        PROVE  matched' \in [DOMAIN Sf -> SUBSET SystemTasks]
    <3>1. t \in SystemTasks /\ matched' = [matched EXCEPT ![n] = @ \cup {t}]
      BY <2>1 DEF RenameSf
    <3>2. matched \in [DOMAIN Sf -> SUBSET SystemTasks]
      BY DEF TypeOK
    <3>3. QED BY <3>1, <3>2
  <2>2. matched' = matched => matched' \in [DOMAIN Sf -> SUBSET SystemTasks]
    BY DEF TypeOK
  <2>3. QED BY <2>1, <2>2, WhoChanges
<1>10. behind' \in SUBSET Helpers
  <2>1. ASSUME NEW t \in Tasks, NEW n \in AppNames, RenameHelper(t, n)
        PROVE  t \in Helpers /\ behind' \in {behind, behind \cup {t}}
    BY <2>1 DEF RenameHelper
  <2>2. ASSUME NEW l \in Leaders, NEW by \in Requests \cup {"none"}, Call(l, by)
        PROVE  behind' = behind \cup {t \in Helpers : hook[t] # NoHook}
    BY <2>2 DEF Call
  <2>3. behind \in SUBSET Helpers
    BY DEF TypeOK
  <2>4. QED BY <2>1, <2>2, <2>3, WhoChanges
<1>11. QED
  BY <1>1, <1>2, <1>3, <1>4, <1>5, <1>6, <1>7, <1>8, <1>9, <1>10 DEF TypeOK

\* The hook of a thread changes by its own steps only.
LEMMA HookMoves ==
  ASSUME TypeOK, Next, NEW t \in Tasks, hook'[t] # hook[t]
  PROVE  \/ \E n \in DOMAIN Sf : RenameSf(t, n) /\ alive[t] /\ hook[t] = NoHook /\ comm[t] = "other"
         \/ \E n \in AppNames : RenameHelper(t, n) /\ alive[t] /\ hook[t] = NoHook /\ comm[t] = "other"
         \/ Post(t) \/ TagHelper(t) \/ WriteComm(t)
<1>1. hook \in [Tasks -> [step : 0..SetTags, name : Names, tags : TagWords]]
  BY DEF TypeOK
<1>2. ASSUME NEW u \in Tasks, NEW n \in DOMAIN Sf, RenameSf(u, n) PROVE u = t
  BY <1>1, <1>2 DEF RenameSf
<1>3. ASSUME NEW u \in Tasks, NEW n \in AppNames, RenameHelper(u, n) PROVE u = t
  <2>1. PICK h : hook' = [hook EXCEPT ![u] = h]
    BY <1>3 DEF RenameHelper
  <2>2. QED BY <1>1, <2>1
<1>4. ASSUME NEW u \in Tasks, Post(u) \/ TagHelper(u) PROVE u = t
  BY <1>1, <1>4 DEF Post, TagHelper
<1>5. ASSUME NEW u \in Tasks, WriteComm(u) PROVE u = t
  BY <1>1, <1>5 DEF WriteComm
<1>6. ~OtherStep
  BY DEF OtherStep, Exit, Born, Lend, LentEnds, Work, WorkStart, WorkFind, WorkCompare, WorkSet, WorkClear,
         Call, Collect, TagTarget, Return
<1>7. QED BY <1>2, <1>3, <1>4, <1>5, <1>6, NextCases

\* A thread that was renamed to a name stays one that was.
LEMMA MatchedGrows ==
  ASSUME TypeOK, Next, NEW n \in DOMAIN Sf
  PROVE  matched[n] \subseteq matched'[n]
<1>1. matched \in [DOMAIN Sf -> SUBSET SystemTasks]
  BY DEF TypeOK
<1>2. ASSUME NEW t \in Tasks, NEW m \in DOMAIN Sf, RenameSf(t, m)
      PROVE  matched[n] \subseteq matched'[n]
  <2>1. matched' = [matched EXCEPT ![m] = @ \cup {t}]
    BY <1>2 DEF RenameSf
  <2>2. QED BY <1>1, <2>1
<1>3. QED BY <1>2, WhoChanges

\* The table, the hooks that fill it and the work item know only threads that
\* were renamed to the name they are about.
LEMMA PostStep ==
  ASSUME TypeOK, PostOK, Next
  PROVE  PostOK'
<1>1. /\ hook \in [Tasks -> [step : 0..SetTags, name : Names, tags : TagWords]]
      /\ matched \in [DOMAIN Sf -> SUBSET SystemTasks]
      /\ entry \in [DOMAIN Sf -> [pid : Pids, task : Tasks \cup {NoTask}]]
  BY DEF TypeOK
<1>2. \A n \in DOMAIN Sf : matched[n] \subseteq matched'[n]
  BY MatchedGrows
<1>3. \A n \in DOMAIN Sf : entry'[n].task \in matched'[n] \cup {NoTask}
  <2>1. ASSUME NEW t \in Tasks, Post(t), NEW n \in DOMAIN Sf
        PROVE  entry'[n].task \in {entry[n].task} \cup (IF n = hook[t].name THEN {t} ELSE {})
    <3>1. \/ entry' = [entry EXCEPT ![hook[t].name].pid = PidOf[t]]
          \/ entry' = [entry EXCEPT ![hook[t].name].task = t]
          \/ entry' = entry
      BY <2>1 DEF Post
    <3>2. QED BY <1>1, <3>1
  <2>2. ASSUME NEW t \in Tasks, Post(t) PROVE t \in matched[hook[t].name]
    BY <2>2 DEF Post, PostOK
  <2>3. QED BY <1>2, <2>1, <2>2, WhoChanges DEF PostOK
<1>4. ASSUME NEW t \in Tasks, hook'[t].step \in DOMAIN Order
      PROVE  hook'[t].name \in DOMAIN Sf /\ t \in matched'[hook'[t].name]
  <2>1. CASE hook'[t] = hook[t]
    BY <1>2, <1>4, <2>1 DEF PostOK, Posting
  <2>2. ASSUME NEW n \in DOMAIN Sf, RenameSf(t, n)
        PROVE  hook'[t].name \in DOMAIN Sf /\ t \in matched'[hook'[t].name]
    <3>1. hook' = [hook EXCEPT ![t] = [NoHook EXCEPT !.step = 1, !.name = n]]
          /\ matched' = [matched EXCEPT ![n] = @ \cup {t}]
      BY <2>2 DEF RenameSf
    <3>2. hook'[t].name = n
      BY <1>1, <3>1 DEF NoHook
    <3>3. t \in matched'[n]
      BY <1>1, <3>1
    <3>4. QED BY <3>2, <3>3
  <2>3. CASE Post(t)
    <3>1. Posting(t) /\ hook' = [hook EXCEPT ![t] = [hook[t] EXCEPT !.step = hook[t].step + 1]]
      BY <2>3 DEF Post
    <3>2. hook'[t].name = hook[t].name
      BY <1>1, <3>1
    <3>3. QED BY <1>2, <3>1, <3>2 DEF PostOK
  <2>4. ASSUME NEW n \in AppNames, RenameHelper(t, n) PROVE FALSE
    <3>1. PICK s \in {Renamed, SetTags}, w \in TagWords : hook' = [hook EXCEPT ![t] = [step |-> s, name |-> n, tags |-> w]]
      BY <2>4, HelperHook
    <3>2. QED BY <1>1, <1>4, <3>1, TableFacts
  <2>5. CASE TagHelper(t)
    <3>1. hook' = [hook EXCEPT ![t] = [hook[t] EXCEPT !.step = Renamed]]
      BY <2>5 DEF TagHelper
    <3>2. QED BY <1>1, <1>4, <3>1, TableFacts
  <2>6. CASE WriteComm(t)
    <3>1. hook' = [hook EXCEPT ![t] = NoHook]
      BY <2>6 DEF WriteComm
    <3>2. QED BY <1>1, <1>4, <3>1, TableFacts DEF NoHook
  <2>7. QED BY <1>4, <2>1, <2>2, <2>3, <2>4, <2>5, <2>6, HookMoves
<1>5. /\ work'.step # "idle" => work'.name \in DOMAIN Sf
      /\ work'.step \in {"compare", "set"} => work'.task \in Tasks
      /\ work'.step = "set" => work'.task \in matched'[work'.name]
  <2> DEFINE W == [step : {"idle", "find", "compare", "set", "clear"},
                   name : DOMAIN Sf \cup {"none"}, task : Tasks \cup {NoTask}]
  <2>1. work \in W /\ slot \in DOMAIN Sf \cup {"none"} /\ NoWork \in W /\ NoWork.step = "idle"
    BY DEF TypeOK, NoWork
  <2>2. CASE work' = NoWork
    BY <2>1, <2>2
  <2>3. CASE work' = work
    BY <1>2, <2>3 DEF PostOK
  <2>4. CASE WorkStart
    <3>1. slot # "none" => slot \in DOMAIN Sf
      BY <2>1
    <3>2. work' = IF slot = "none" THEN NoWork ELSE [NoWork EXCEPT !.step = "find", !.name = slot]
      BY <2>4 DEF WorkStart
    <3>3. CASE slot # "none"
      <4>1. work' = [step |-> "find", name |-> slot, task |-> NoTask]
        BY <3>2, <3>3 DEF NoWork
      <4>2. QED BY <3>1, <3>3, <4>1
    <3>4. QED BY <2>2, <3>2, <3>3
  <2>5. CASE WorkFind
    <3> DEFINE found == FindTask(entry[work.name].pid)
               t == CHOOSE t \in found : TRUE
    <3>1. found # {} => t \in Tasks
      BY DEF FindTask
    <3>2. work' = IF found = {} THEN NoWork ELSE [work EXCEPT !.step = "compare", !.task = t]
      BY <2>5 DEF WorkFind
    <3>3. work.name \in DOMAIN Sf
      BY <2>5 DEF WorkFind, PostOK
    <3> HIDE DEF found, t
    <3>4. QED BY <2>1, <2>2, <3>1, <3>2, <3>3
  <2>6. CASE WorkCompare
    <3>1. work.name \in DOMAIN Sf /\ work.task \in Tasks
      BY <2>6 DEF WorkCompare, PostOK
    <3>2. work' = IF entry[work.name].task = work.task THEN [work EXCEPT !.step = "set"] ELSE NoWork
      BY <2>6 DEF WorkCompare, SameTask
    <3>3. entry[work.name].task \in matched[work.name] \cup {NoTask}
      BY <3>1 DEF PostOK
    <3>4. entry[work.name].task = work.task => work.task \in matched'[work.name]
      BY <1>2, <3>1, <3>3, TasksAssumption
    <3>5. QED BY <2>1, <2>2, <3>1, <3>2, <3>4
  <2>7. CASE WorkSet
    <3>1. work' = [work EXCEPT !.step = "clear"] /\ work.name \in DOMAIN Sf
      BY <2>7 DEF WorkSet, PostOK
    <3>2. QED BY <2>1, <3>1
  <2>8. QED BY <2>2, <2>3, <2>4, <2>5, <2>6, <2>7, WhoChanges DEF Work, WorkClear
<1>6. QED BY <1>3, <1>4, <1>5 DEF PostOK, Posting

\* Tags of g_sf_targets are set by the work item only, on a thread the hook
\* matched; apps and their helpers have tags of their own kind.
LEMMA NamedStep ==
  ASSUME TypeOK, PostOK, NamedOK, HelperOK, Next
  PROVE  NamedOK'
<1>1. /\ hook \in [Tasks -> [step : 0..SetTags, name : Names, tags : TagWords]]
      /\ tags \in [Tasks -> TagWords]
      /\ matched \in [DOMAIN Sf -> SUBSET SystemTasks]
  BY DEF TypeOK
<1>2. \A n \in DOMAIN Sf : Sf[n] \notin AppSources
  BY TablesAssumption DEF AppSources
<1>3. ASSUME NEW t \in Tasks
      PROVE  /\ \/ tags'[t] = tags[t] \/ tags'[t].by \in AppSources
                \/ work.step = "set" /\ t = work.task /\ tags'[t].by = Sf[work.name]
             /\ t \in Leaders \cup Helpers => pending'[t].by \in AppSources
  <2>1. ASSUME NEW u \in Leaders \cup Helpers, u \in Tasks, NEW w \in TagWords, w.by \in AppSources, SetUxTags(u, w)
        PROVE  /\ tags'[t] = tags[t] \/ tags'[t].by \in AppSources
               /\ t \in Leaders \cup Helpers => pending'[t].by \in AppSources
    <3> DEFINE after == AfterRequest(tags[u], pending[u], w)
    <3>1. tags[u].by \in AppSources /\ pending[u].by \in AppSources /\ Untagged.by \in AppSources
      BY TagWordFacts DEF NamedOK, AppSources
    <3>2. after.tags \in {tags[u], pending[u], w} /\ after.pending \in {tags[u], pending[u], w, Untagged}
      BY WordsAfter
    <3>3. /\ tags'[u] = after.tags /\ pending'[u] = after.pending
          /\ \A v \in Tasks \ {u} : tags'[v] = tags[v] /\ pending'[v] = pending[v]
      BY <2>1, SetMoves
    <3> HIDE DEF after
    <3>4. QED BY <2>1, <3>1, <3>2, <3>3 DEF NamedOK
  <2>2. ASSUME NEW u \in Tasks, TagHelper(u)
        PROVE  \E v \in Leaders \cup Helpers, w \in TagWords :
                 v \in Tasks /\ w.by \in AppSources /\ SetUxTags(v, w)
    <3>1. SetUxTags(u, hook[u].tags) /\ hook[u].step = SetTags
      BY <2>2 DEF TagHelper
    <3>2. hook[u].tags \in TagWords /\ hook[u].tags.by \in AppSources /\ u \in Helpers
      BY <1>1, <3>1 DEF NamedOK
    <3>3. QED BY <3>1, <3>2
  <2>3. ASSUME NEW l \in Leaders, NEW by \in Requests \cup {"none"}, Call(l, by)
        PROVE  \E v \in Leaders \cup Helpers, w \in TagWords :
                 v \in Tasks /\ w.by \in AppSources /\ SetUxTags(v, w)
    <3> DEFINE w == [by |-> by, cpuL |-> FALSE]
    <3>1. w \in TagWords /\ w.by \in AppSources /\ l \in Tasks /\ SetUxTags(l, w)
      BY <2>3, TagWordFacts, GroupFacts DEF Call, AppSources
    <3> HIDE DEF w
    <3>2. QED BY <3>1
  <2>4. ASSUME TagTarget
        PROVE  \/ UNCHANGED <<tags, pending>>
               \/ \E v \in Leaders \cup Helpers, w \in TagWords :
                    v \in Tasks /\ w.by \in AppSources /\ SetUxTags(v, w)
    <3> DEFINE w == [by |-> call.by, cpuL |-> call.cpuL]
    <3>1. w.by \in AppSources
      BY DEF TypeOK, AppSources
    <3>2. /\ w \in TagWords
          /\ UNCHANGED <<tags, pending>> \/ \E v \in Helpers : v \in Tasks /\ SetUxTags(v, w)
      BY <2>4, TargetMoves
    <3> HIDE DEF w
    <3>3. QED BY <3>1, <3>2
  <2>5. CASE WorkSet
    <3>1. work.step = "set" /\ tags' = [tags EXCEPT ![work.task] = [by |-> Sf[work.name], cpuL |-> FALSE]]
          /\ pending' = pending
      BY <2>5 DEF WorkSet
    <3>2. QED BY <1>1, <3>1 DEF NamedOK
  <2>6. ASSUME NEW u \in Tasks, Lend(u) \/ LentEnds(u)
        PROVE  (tags'[t] = tags[t] \/ tags'[t].by \in AppSources) /\ pending' = pending
    <3> DEFINE w == [Untagged EXCEPT !.by = "lent"]
    <3>1. w.by \in AppSources /\ Untagged.by \in AppSources
      BY TagWordFacts DEF AppSources
    <3>2. /\ tags' = [tags EXCEPT ![u] = w] \/ tags' = [tags EXCEPT ![u] = Untagged]
          /\ pending' = pending
      BY <2>6 DEF Lend, LentEnds
    <3> HIDE DEF w
    <3>3. QED BY <1>1, <3>1, <3>2
  <2>7. CASE tags' = tags /\ pending' = pending
    BY <2>7 DEF NamedOK
  <2>8. CASE tags' = tags /\ pending' # pending
    BY <2>1, <2>2, <2>3, <2>4, <2>8, WhoChanges
  <2>9. CASE tags' # tags
    BY <2>1, <2>2, <2>3, <2>4, <2>5, <2>6, <2>9, WhoChanges DEF NamedOK
  <2>10. QED BY <2>7, <2>8, <2>9
<1>4. \A n \in DOMAIN Sf : matched[n] \subseteq matched'[n]
  BY MatchedGrows
<1>5. TagsWhereNamed'
  <2> SUFFICES ASSUME NEW t \in Tasks, tags'[t].by \in {Sf[n] : n \in DOMAIN Sf}
               PROVE  \E n \in DOMAIN Sf : tags'[t].by = Sf[n] /\ t \in matched'[n]
    BY DEF TagsWhereNamed
  <2>1. tags'[t].by \notin AppSources
    BY <1>2
  <2>2. CASE tags'[t] = tags[t]
    BY <1>4, <2>2 DEF NamedOK, TagsWhereNamed
  <2>3. CASE work.step = "set" /\ t = work.task /\ tags'[t].by = Sf[work.name]
    <3>1. work.name \in DOMAIN Sf /\ t \in matched[work.name]
      BY <2>3 DEF PostOK
    <3>2. QED BY <1>4, <2>3, <3>1
  <2>4. QED BY <1>3, <2>1, <2>2, <2>3
<1>6. \A t \in Leaders \cup Helpers : tags'[t].by \in AppSources /\ pending'[t].by \in AppSources
  <2> SUFFICES ASSUME NEW t \in Leaders \cup Helpers
               PROVE  tags'[t].by \in AppSources /\ pending'[t].by \in AppSources
    OBVIOUS
  <2>1. t \in Tasks /\ t \notin SystemTasks
    BY GroupFacts
  <2>2. tags[t].by \in AppSources
    BY DEF NamedOK
  <2>3. work.step = "set" => work.task # t
    <3>1. work.step = "set" => work.name \in DOMAIN Sf /\ work.task \in matched[work.name]
      BY DEF PostOK
    <3>2. QED BY <1>1, <2>1, <3>1
  <2>4. QED BY <1>3, <2>1, <2>2, <2>3
<1>7. \A t \in Tasks : hook'[t].tags.by \in AppSources /\ (hook'[t].step = SetTags => t \in Helpers)
  <2> SUFFICES ASSUME NEW t \in Tasks, hook'[t] # hook[t]
               PROVE  hook'[t].tags.by \in AppSources /\ (hook'[t].step = SetTags => t \in Helpers)
    BY DEF NamedOK
  <2>1. hook[t].tags.by \in AppSources /\ NoHook.tags.by \in AppSources /\ NoHook.step = 0
        /\ SetTags = 6 /\ Renamed = 5 /\ DOMAIN Order = 1..4
    BY TagWordFacts, TableFacts DEF NamedOK, NoHook, AppSources
  <2>2. ASSUME NEW n \in DOMAIN Sf, RenameSf(t, n)
        PROVE  hook'[t].tags.by \in AppSources /\ hook'[t].step # SetTags
    <3>1. hook' = [hook EXCEPT ![t] = [NoHook EXCEPT !.step = 1, !.name = n]]
      BY <2>2 DEF RenameSf
    <3>2. hook'[t].tags = NoHook.tags /\ hook'[t].step = 1
      BY <1>1, <3>1 DEF NoHook
    <3>3. QED BY <2>1, <3>2
  <2>3. ASSUME NEW n \in AppNames, RenameHelper(t, n) PROVE hook'[t].tags.by \in AppSources /\ t \in Helpers
    <3>1. PICK s \in {Renamed, SetTags}, w \in TagWords :
            hook' = [hook EXCEPT ![t] = [step |-> s, name |-> n, tags |-> w]] /\ w.by = tags[LeaderOf(t)].by
      BY <2>3, HelperHook
    <3>2. LeaderOf(t) \in Leaders /\ t \in Helpers
      BY <2>3, HelperHook
    <3>3. w.by \in AppSources
      BY <3>1, <3>2 DEF NamedOK
    <3>4. QED BY <1>1, <3>1, <3>2, <3>3
  <2>4. ASSUME Post(t) \/ TagHelper(t) PROVE hook'[t].tags = hook[t].tags /\ hook'[t].step # SetTags
    <3>1. CASE Post(t)
      <4>1. hook' = [hook EXCEPT ![t].step = @ + 1] /\ hook[t].step \in 1..4
        BY <2>1, <3>1 DEF Post, Posting
      <4>2. hook'[t].tags = hook[t].tags /\ hook'[t].step = hook[t].step + 1
        BY <1>1, <4>1
      <4>3. QED BY <2>1, <4>1, <4>2
    <3>2. CASE TagHelper(t)
      <4>1. hook' = [hook EXCEPT ![t].step = Renamed]
        BY <3>2 DEF TagHelper
      <4>2. hook'[t].tags = hook[t].tags /\ hook'[t].step = Renamed
        BY <1>1, <4>1
      <4>3. QED BY <2>1, <4>2
    <3>3. QED BY <2>4, <3>1, <3>2
  <2>5. ASSUME WriteComm(t) PROVE hook'[t] = NoHook
    BY <1>1, <2>5 DEF WriteComm
  <2>6. QED BY <2>1, <2>2, <2>3, <2>4, <2>5, HookMoves
<1>8. QED BY <1>5, <1>6, <1>7 DEF NamedOK

----------------------------------------------------------------------------
(* Helpers and their leaders.                                              *)

\* A helper is named and tagged by its own rename, or tagged by the ioctl's walk.
Rests(t) ==
  /\ comm'[t] = comm[t] /\ hook'[t] = hook[t]
  /\ Own(tags'[t]) = Own(tags[t]) /\ pending'[t] = pending[t]
Walked(t) ==
  /\ TagTarget /\ comm'[t] = comm[t] /\ hook'[t] = hook[t]
  /\ \E i \in call.found : Group[call.leader][i] = t
Asks(t) ==
  /\ hook[t] = NoHook /\ comm[t] = "other"
  /\ comm'[t] = comm[t] /\ tags'[t] = tags[t] /\ pending'[t] = pending[t]
  /\ behind' = IF Calling \/ pending[LeaderOf(t)].by # "none" THEN behind \cup {t} ELSE behind
  /\ UNCHANGED call
  /\ \E n \in AppNames, s \in {Renamed, SetTags}, w \in TagWords :
       /\ RenameHelper(t, n)
       /\ hook'[t] = [step |-> s, name |-> n, tags |-> w]
       /\ w.by = tags[LeaderOf(t)].by /\ (s = Renamed <=> w.by = "none")
Gets(t) ==
  /\ hook[t].step = SetTags /\ comm'[t] = comm[t] /\ tags'[t] = hook[t].tags
  /\ pending'[t].by = "none"
  /\ hook'[t].step = Renamed /\ hook'[t].name = hook[t].name /\ UNCHANGED <<call, behind>>
Ends(t) ==
  /\ hook[t].step = Renamed /\ comm'[t] = hook[t].name
  /\ tags'[t] = tags[t] /\ pending'[t] = pending[t]
  /\ hook'[t] = NoHook /\ UNCHANGED <<call, behind>>

\* Inherited tags come and go without a trace in what a task has of its own.
LEMMA LentMoves ==
  ASSUME TypeOK, NEW u \in Tasks, Lend(u) \/ LentEnds(u), NEW t \in Tasks
  PROVE  Own(tags'[t]) = Own(tags[t]) /\ pending'[t] = pending[t]
<1>1. tags \in [Tasks -> TagWords] /\ Own(Untagged) = "none" /\ Own([Untagged EXCEPT !.by = "lent"]) = "none"
  BY TagWordFacts DEF TypeOK, Own
<1> DEFINE w == [Untagged EXCEPT !.by = "lent"]
<1>2. /\ tags' = [tags EXCEPT ![u] = w] \/ tags' = [tags EXCEPT ![u] = Untagged]
      /\ pending' = pending /\ Own(tags[u]) = "none"
  BY DEF Lend, LentEnds, Own
<1> HIDE DEF w
<1>3. Own(w) = "none"
  BY <1>1 DEF w
<1>4. CASE t = u
  <2>1. tags'[t] \in {w, Untagged}
    BY <1>1, <1>2, <1>4
  <2>2. QED BY <1>1, <1>2, <1>3, <1>4, <2>1
<1>5. CASE t # u
  <2>1. tags'[t] = tags[t]
    BY <1>1, <1>2, <1>5
  <2>2. QED BY <1>2, <2>1
<1>6. QED BY <1>4, <1>5

\* What can happen to a helper in a step.
LEMMA HelperMoves ==
  ASSUME TypeOK, PostOK, HelperOK, PendingOK, Next, NEW t \in Helpers
  PROVE  Rests(t) \/ Walked(t) \/ Asks(t) \/ Gets(t) \/ Ends(t)
<1>1. /\ hook \in [Tasks -> [step : 0..SetTags, name : Names, tags : TagWords]]
      /\ tags \in [Tasks -> TagWords] /\ comm \in [Tasks -> Names]
  BY DEF TypeOK
<1>2. t \in Tasks /\ t \notin Leaders /\ t \notin SystemTasks
  BY GroupFacts
<1>3. ASSUME hook'[t] = hook[t], ~Rests(t) PROVE Walked(t)
  <2>1. comm'[t] = comm[t]
    <3>1. ASSUME NEW u \in Tasks, WriteComm(u) PROVE u # t
      <4>1. hook' = [hook EXCEPT ![u] = NoHook] /\ hook[u].step = 5
        BY <3>1, TableFacts DEF WriteComm
      <4>2. hook'[u] # hook[u]
        BY <1>1, <4>1 DEF NoHook
      <4>3. QED BY <1>3, <4>2
    <3>2. ASSUME NEW u \in Tasks, WriteComm(u) PROVE comm'[t] = comm[t]
      BY <1>1, <1>2, <3>1, <3>2 DEF WriteComm
    <3>3. QED BY <3>2, WhoChanges
  <2>2. Own(tags'[t]) # Own(tags[t]) \/ pending'[t] # pending[t]
    BY <1>3, <2>1 DEF Rests
  <2>3. ASSUME NEW u \in Tasks, TagHelper(u) PROVE FALSE
    <3>1. hook' = [hook EXCEPT ![u].step = Renamed] /\ hook[u].step = SetTags
          /\ SetUxTags(u, hook[u].tags) /\ hook[u].tags \in TagWords
      BY <1>1, <2>3 DEF TagHelper
    <3>2. u = t
      BY <1>2, <2>2, <3>1, SetMoves
    <3>3. hook'[t].step = Renamed
      BY <1>1, <1>2, <3>1, <3>2
    <3>4. QED BY <1>3, <3>1, <3>2, <3>3, TableFacts
  <2>4. ~WorkSet
    <3>1. ASSUME WorkSet PROVE FALSE
      <4>1. work.name \in DOMAIN Sf /\ work.task \in matched[work.name]
        BY <3>1 DEF WorkSet, PostOK
      <4>2. work.task # t
        BY <1>2, <4>1 DEF TypeOK
      <4>3. tags'[t] = tags[t] /\ pending' = pending
        BY <1>1, <1>2, <3>1, <4>2 DEF WorkSet
      <4>4. QED BY <2>2, <4>3
    <3>2. QED BY <3>1
  <2>5. ASSUME NEW l \in Leaders, NEW by \in Requests \cup {"none"}, Call(l, by) PROVE FALSE
    <3> DEFINE w == [by |-> by, cpuL |-> FALSE]
    <3>1. w \in TagWords /\ l \in Tasks /\ SetUxTags(l, w)
      BY <2>5, TagWordFacts, GroupFacts DEF Call
    <3> HIDE DEF w
    <3>2. tags'[t] = tags[t] /\ pending'[t] = pending[t]
      BY <1>2, <3>1, SetMoves
    <3>3. QED BY <2>2, <3>2
  <2>6. ASSUME NEW u \in Tasks, Lend(u) \/ LentEnds(u) PROVE FALSE
    BY <1>2, <2>2, <2>6, LentMoves
  <2>7. TagTarget
    <3>1. CASE tags' # tags
      BY <2>3, <2>4, <2>5, <2>6, <3>1, WhoChanges
    <3>2. CASE tags' = tags
      <4>1. pending' # pending
        BY <2>2, <3>2
      <4>2. QED BY <2>3, <2>5, <4>1, WhoChanges
    <3>3. QED BY <3>1, <3>2
  <2>8. PICK i \in call.found :
          LET u == Group[call.leader][i] IN
            /\ u \in Tasks /\ [by |-> call.by, cpuL |-> call.cpuL] \in TagWords
            /\ UNCHANGED <<tags, pending>> \/ SetUxTags(u, [by |-> call.by, cpuL |-> call.cpuL])
    BY <2>7, TargetMoves
  <2>9. Group[call.leader][i] = t
    <3> DEFINE u == Group[call.leader][i]
               w == [by |-> call.by, cpuL |-> call.cpuL]
    <3>1. u \in Tasks /\ w \in TagWords /\ (UNCHANGED <<tags, pending>> \/ SetUxTags(u, w))
      BY <2>8
    <3> HIDE DEF u, w
    <3>2. u = t
      BY <1>2, <2>2, <3>1, SetMoves
    <3>3. QED BY <3>2 DEF u
  <2>10. QED BY <1>3, <2>1, <2>7, <2>9 DEF Walked
<1>4. ASSUME hook'[t] # hook[t] PROVE Asks(t) \/ Gets(t) \/ Ends(t)
  <2>1. \A n \in DOMAIN Sf : ~RenameSf(t, n)
    BY <1>2 DEF RenameSf
  <2>2. ~Post(t)
    <3>1. hook[t].step \notin 1..4
      BY TableFacts DEF HelperOK, NoHook
    <3>2. QED BY <3>1, TableFacts DEF Post, Posting
  <2>3. ASSUME NEW n \in AppNames, RenameHelper(t, n), hook[t] = NoHook, comm[t] = "other"
        PROVE  Asks(t)
    <3>1. PICK s \in {Renamed, SetTags}, w \in TagWords :
            /\ hook' = [hook EXCEPT ![t] = [step |-> s, name |-> n, tags |-> w]]
            /\ w.by = tags[LeaderOf(t)].by /\ (s = Renamed <=> w.by = "none")
      BY <1>2, <2>3, HelperHook
    <3>2. hook'[t] = [step |-> s, name |-> n, tags |-> w]
      BY <1>1, <1>2, <3>1
    <3>3. /\ UNCHANGED <<comm, tags, pending, call>>
          /\ behind' = IF Calling \/ pending[LeaderOf(t)].by # "none" THEN behind \cup {t} ELSE behind
      BY <2>3 DEF RenameHelper, taskVars
    <3>4. QED BY <2>3, <3>1, <3>2, <3>3 DEF Asks
  <2>4. CASE TagHelper(t)
    <3>1. /\ hook[t].step = SetTags /\ UNCHANGED <<comm, call, behind>>
          /\ SetUxTags(t, hook[t].tags) /\ hook' = [hook EXCEPT ![t].step = Renamed]
          /\ hook[t].tags \in TagWords
      BY <1>1, <1>2, <2>4 DEF TagHelper, callVars
    <3>2. Own(tags[t]) = "none" /\ pending[t].by = "none" /\ hook[t].tags.by # "none"
      <4>1. comm[t] = "other" /\ hook[t].step # Renamed
        BY <3>1, TableFacts DEF HelperOK, NoHook
      <4>2. QED BY <3>1, <4>1 DEF HelperOK, PendingOK
    <3>3. /\ AfterRequest(tags[t], pending[t], hook[t].tags).tags = hook[t].tags
          /\ AfterRequest(tags[t], pending[t], hook[t].tags).pending.by = "none"
      <4>1. tags[t].by \in {"none", "lent"}
        BY <3>2 DEF Own
      <4>2. QED BY <3>2, <4>1 DEF AfterRequest, Untagged
    <3>4. tags'[t] = hook[t].tags /\ pending'[t].by = "none"
      BY <1>2, <3>1, <3>3, SetMoves
    <3>5. QED BY <1>1, <1>2, <3>1, <3>4 DEF Gets
  <2>5. CASE WriteComm(t)
    <3>1. /\ hook[t].step = Renamed /\ UNCHANGED <<tags, pending, call, behind>>
          /\ comm' = [comm EXCEPT ![t] = hook[t].name] /\ hook' = [hook EXCEPT ![t] = NoHook]
      BY <2>5 DEF WriteComm, callVars
    <3>2. QED BY <1>1, <1>2, <3>1 DEF Ends
  <2>6. QED BY <1>2, <1>4, <2>1, <2>2, <2>3, <2>4, <2>5, HookMoves
<1>5. QED BY <1>3, <1>4

\* "other" is a name of no table.
LEMMA OtherName == "other" \notin AppNames /\ \A n \in DOMAIN Sf : n \notin AppNames /\ n # "other"
<1>1. "other" \notin AppNames
  <2>1. AppTable[1].comm # "other" /\ AppTable[2].comm # "other"
    BY DEF AppTable
  <2>2. \A i \in 1..2 : i = 1 \/ i = 2
    OBVIOUS
  <2>3. QED BY <2>1, <2>2, TableFacts DEF AppNames
<1>2. QED BY <1>1, TablesAssumption

\* The threads of a group that have a name, or are getting it, are finitely many.
LEMMA NamedFinite ==
  ASSUME NEW l \in Leaders, NEW n
  PROVE  IsFiniteSet(Named(l, n)) /\ Named(l, n) \subseteq DOMAIN Group[l]
<1>1. Named(l, n) \subseteq 1..Len(Group[l]) /\ Len(Group[l]) \in Nat
  BY GroupFacts DEF Named
<1>2. IsFiniteSet(1..Len(Group[l]))
  BY <1>1, FS_Interval
<1>3. QED BY <1>1, <1>2, FS_Subset, GroupFacts

\* An app has at most as many helpers of a name as update_apps_targets finds.
LEMMA NamedBound ==
  ASSUME TypeOK, PostOK, HelperOK, PendingOK, Next, NEW l \in Leaders, NEW n \in AppNames
  PROVE  Cardinality(Named(l, n)') <= APPS_TARGETS_SLOTS
<1>1. \A i \in DOMAIN Group[l] : Group[l][i] \in Helpers
  BY GroupFacts
<1>2. Cardinality(Named(l, n)) <= APPS_TARGETS_SLOTS
  BY DEF HelperOK
<1>3. ASSUME NEW i \in DOMAIN Group[l], i \in Named(l, n)', i \notin Named(l, n)
      PROVE  Asks(Group[l][i]) /\ RenameHelper(Group[l][i], n)
  <2> DEFINE t == Group[l][i]
  <2>1. t \in Helpers
    BY <1>1
  <2> HIDE DEF t
  <2>2. n \in {comm'[t], hook'[t].name} /\ n \notin {comm[t], hook[t].name}
    BY <1>3 DEF Named, t
  <2>3. n # "other"
    BY OtherName
  <2>4. ~Rests(t) /\ ~Walked(t)
    BY <2>2 DEF Rests, Walked
  <2>5. ~Gets(t)
    BY <2>2 DEF Gets
  <2>6. ~Ends(t)
    BY <2>2, <2>3 DEF Ends, NoHook
  <2>7. Asks(t)
    BY <2>1, <2>4, <2>5, <2>6, HelperMoves
  <2>8. RenameHelper(t, n)
    BY <2>2, <2>7 DEF Asks
  <2>9. QED BY <2>7, <2>8 DEF t
<1>4. CASE Named(l, n)' \subseteq Named(l, n)
  <2>1. Cardinality(Named(l, n)') <= Cardinality(Named(l, n)) /\ Cardinality(Named(l, n)) \in Nat
        /\ Cardinality(Named(l, n)') \in Nat
    BY <1>4, NamedFinite, FS_Subset, FS_CardinalityType
  <2>2. QED BY <1>2, <2>1 DEF APPS_TARGETS_SLOTS
<1>5. CASE ~(Named(l, n)' \subseteq Named(l, n))
  <2>1. PICK i \in DOMAIN Group[l] : i \in Named(l, n)' /\ i \notin Named(l, n)
    BY <1>5 DEF Named
  <2>2. RenameHelper(Group[l][i], n) /\ LeaderOf(Group[l][i]) = l
    BY <1>3, <2>1, LeaderFacts
  <2>3. Cardinality(Named(l, n)) < APPS_TARGETS_SLOTS
    BY <2>2 DEF RenameHelper
  <2>4. \A j \in DOMAIN Group[l] : j \in Named(l, n)' /\ j \notin Named(l, n) => j = i
    <3> SUFFICES ASSUME NEW j \in DOMAIN Group[l], j \in Named(l, n)', j \notin Named(l, n), j # i
                 PROVE  FALSE
      OBVIOUS
    <3>1. Group[l][j] # Group[l][i]
      BY GroupAssumption
    <3>2. Asks(Group[l][j])
      BY <1>3
    <3>3. PICK h : hook' = [hook EXCEPT ![Group[l][i]] = h]
      BY <2>2 DEF RenameHelper
    <3>4. Group[l][j] \in Tasks
      BY <1>1, GroupFacts
    <3>5. hook'[Group[l][j]] = hook[Group[l][j]] /\ hook[Group[l][j]] = NoHook
      BY <3>1, <3>2, <3>3, <3>4 DEF TypeOK, Asks
    <3>6. PICK m \in AppNames : hook'[Group[l][j]].name = m
      BY <3>2 DEF Asks
    <3>7. QED BY <3>5, <3>6, OtherName DEF NoHook
  <2>5. Named(l, n)' \subseteq Named(l, n) \cup {i}
    BY <2>4 DEF Named
  <2>6. Cardinality(Named(l, n) \cup {i}) = Cardinality(Named(l, n)) + 1
        /\ IsFiniteSet(Named(l, n) \cup {i}) /\ Cardinality(Named(l, n)) \in Nat
    BY <2>1, NamedFinite, FS_AddElement, FS_CardinalityType
  <2>7. Cardinality(Named(l, n)') <= Cardinality(Named(l, n) \cup {i})
        /\ Cardinality(Named(l, n)') \in Nat
    BY <2>5, <2>6, FS_Subset, FS_CardinalityType
  <2>8. QED BY <2>3, <2>6, <2>7 DEF APPS_TARGETS_SLOTS
<1>6. QED BY <1>4, <1>5

\* The rename of a helper and the walk over its group leave helpers in order.
LEMMA HelperStep ==
  ASSUME TypeOK, PostOK, NamedOK, HelperOK, PendingOK, Next
  PROVE  HelperOK'
<1>1. ASSUME NEW t \in Helpers
      PROVE  /\ comm'[t] \in AppNames \cup {"other"}
             /\ \/ hook'[t] = NoHook
                \/ /\ hook'[t].step \in {Renamed, SetTags}
                   /\ hook'[t].name \in AppNames /\ comm'[t] = "other"
             /\ comm'[t] = "other" /\ hook'[t].step # Renamed => Own(tags'[t]) = "none"
             /\ hook'[t].step = SetTags => hook'[t].tags.by # "none"
  <2>1. /\ comm[t] \in AppNames \cup {"other"}
        /\ \/ hook[t] = NoHook
           \/ /\ hook[t].step \in {Renamed, SetTags}
              /\ hook[t].name \in AppNames /\ comm[t] = "other"
        /\ comm[t] = "other" /\ hook[t].step # Renamed => Own(tags[t]) = "none"
        /\ hook[t].step = SetTags => hook[t].tags.by # "none"
        /\ NoHook.step = 0 /\ Renamed = 5 /\ SetTags = 6
    BY TableFacts DEF HelperOK, NoHook
  <2>2. CASE Rests(t)
    BY <2>1, <2>2 DEF Rests
  <2>3. CASE Walked(t)
    <3>1. PICK i \in call.found : Group[call.leader][i] = t
      BY <2>3 DEF Walked
    <3>2. Calling
      BY <2>3, <3>1 DEF HelperOK, Walked
    <3>3. comm[t] \in AppNames
      BY <3>1, <3>2 DEF HelperOK
    <3>4. QED BY <2>1, <2>3, <3>3, OtherName DEF Walked
  <2>4. CASE Asks(t)
    <3>1. PICK n \in AppNames, s \in {Renamed, SetTags}, w \in TagWords :
            hook'[t] = [step |-> s, name |-> n, tags |-> w] /\ (s = Renamed <=> w.by = "none")
      BY <2>4 DEF Asks
    <3>2. comm[t] = "other" /\ comm'[t] = "other" /\ Own(tags'[t]) = "none"
      BY <2>1, <2>4 DEF Asks
    <3>3. hook'[t].step = s /\ hook'[t].name = n /\ hook'[t].tags = w
      BY <3>1
    <3>4. QED BY <2>1, <3>1, <3>2, <3>3
  <2>5. CASE Gets(t)
    BY <2>1, <2>5 DEF Gets
  <2>6. CASE Ends(t)
    BY <2>1, <2>6, OtherName DEF Ends
  <2>7. QED BY <2>2, <2>3, <2>4, <2>5, <2>6, HelperMoves
<1>2. \A l \in Leaders, n \in AppNames : Cardinality(Named(l, n)') <= APPS_TARGETS_SLOTS
  BY NamedBound
<1>3. ASSUME NEW t \in Helpers, comm[t] \in AppNames PROVE comm'[t] \in AppNames
  <2>1. ~Asks(t) /\ ~Ends(t)
    BY <1>3, OtherName, TableFacts DEF Asks, Ends, HelperOK, NoHook
  <2>2. QED BY <1>3, <2>1, HelperMoves DEF Rests, Walked, Gets
<1>4. /\ Calling' => \A i \in call'.found : i \in DOMAIN Group[call'.leader]
                                            /\ comm'[Group[call'.leader][i]] \in AppNames
      /\ ~Calling' => call'.found = {}
  <2> DEFINE Right(c) == /\ c.leader # NoTask =>
                              /\ c.leader \in Leaders
                              /\ \A i \in c.found : i \in DOMAIN Group[c.leader]
                                                     /\ comm[Group[c.leader][i]] \in AppNames
                         /\ c.leader = NoTask => c.found = {}
  <2>1. Right(call) /\ call.leader \in Leaders \cup {NoTask}
    BY DEF HelperOK, Calling, TypeOK
  <2>2. Right(call')
    <3>1. CASE UNCHANGED call
      BY <2>1, <3>1
    <3>2. ASSUME NEW l \in Leaders, NEW by \in Requests \cup {"none"}, Call(l, by) PROVE Right(call')
      <4>1. call'.leader = l /\ call'.found = {}
        BY <3>2 DEF Call, NoCall
      <4>2. QED BY <4>1, TasksAssumption DEF Tasks
    <3>3. CASE Collect
      <4> DEFINE c == AppTable[call.next].comm
                 ts == TargetsOf(call.leader, c)
      <4>1. call.leader \in Leaders /\ call.next \in 1..2
        BY <2>1, <3>3, TableFacts DEF Collect, Calling, TypeOK
      <4>2. c \in AppNames
        BY <4>1, TableFacts
      <4>3. \A i \in ts : i \in DOMAIN Group[call.leader] /\ comm[Group[call.leader][i]] = c
        BY DEF TargetsOf, OfName
      <4>4. call'.leader = call.leader /\ call'.found = ts
        <5>1. PICK b : call' = [call EXCEPT !.next = @ + 1, !.found = ts, !.cpuL = b]
          BY <3>3 DEF Collect
        <5>2. QED BY <5>1, CallTyped
      <4> HIDE DEF ts, c
      <4>5. call.leader # NoTask
        BY <4>1, TasksAssumption DEF Tasks
      <4>6. QED BY <4>1, <4>2, <4>3, <4>4, <4>5
    <3>4. CASE TagTarget
      <4>1. PICK i : call' = [call EXCEPT !.found = call.found \ {i}]
        BY <3>4 DEF TagTarget
      <4>2. call'.leader = call.leader /\ call'.found \subseteq call.found
        BY <4>1 DEF TypeOK
      <4>3. QED BY <2>1, <4>2
    <3>5. CASE Return
      <4>1. call'.leader = NoTask /\ call'.found = {}
        BY <3>5 DEF Return, NoCall
      <4>2. QED BY <4>1
    <3>6. QED BY <3>1, <3>2, <3>3, <3>4, <3>5, WhoChanges
  <2>3. \A l \in Leaders : \A i \in DOMAIN Group[l] :
          comm[Group[l][i]] \in AppNames => comm'[Group[l][i]] \in AppNames
    BY <1>3, GroupFacts
  <2>4. QED BY <2>2, <2>3 DEF Calling
<1>5. ASSUME NEW l \in Leaders PROVE hook'[l] = NoHook
  <2>1. hook[l] = NoHook /\ NoHook.step = 0 /\ l \in Tasks /\ l \notin SystemTasks /\ l \notin Helpers
    BY GroupFacts DEF HelperOK, NoHook
  <2>2. ~Post(l) /\ ~TagHelper(l) /\ ~WriteComm(l)
    BY <2>1, TableFacts DEF Post, Posting, TagHelper, WriteComm
  <2>3. \A n : ~RenameSf(l, n) /\ ~RenameHelper(l, n)
    BY <2>1 DEF RenameSf, RenameHelper
  <2>4. QED BY <2>1, <2>2, <2>3, HookMoves
<1>6. QED BY <1>1, <1>2, <1>4, <1>5 DEF HelperOK

----------------------------------------------------------------------------
(* Helpers are tagged as their leader is.                                  *)

\* What waits behind a task's tags stays a request behind tags of its own.
LEMMA PendingStep ==
  ASSUME TypeOK, PostOK, NamedOK, HelperOK, PendingOK, Next
  PROVE  PendingOK'
<1> DEFINE P(t) == /\ pending'[t].by \in {"none"} \cup Requests
                   /\ Own(tags'[t]) = "none" => pending'[t].by = "none"
<1>1. /\ tags \in [Tasks -> TagWords] /\ \A t \in Leaders \cup Helpers : t \in Tasks /\ t \notin SystemTasks
  BY GroupFacts DEF TypeOK
<1>2. ASSUME NEW u \in Leaders \cup Helpers, NEW w \in TagWords, w.by \in AppSources,
             w.by = "lent" => Own(tags[u]) = "none", SetUxTags(u, w)
      PROVE  \A t \in Leaders \cup Helpers : P(t)
  <2> TAKE t \in Leaders \cup Helpers
  <2>1. CASE t = u
    <3>1. /\ tags[t].by \in AppSources /\ pending[t].by \in {"none"} \cup Requests
          /\ Own(tags[t]) = "none" => pending[t].by = "none"
      BY DEF NamedOK, PendingOK
    <3>2. /\ tags'[t] = AfterRequest(tags[t], pending[t], w).tags
          /\ pending'[t] = AfterRequest(tags[t], pending[t], w).pending
      BY <1>1, <1>2, <2>1, SetMoves
    <3>3. /\ AfterRequest(tags[t], pending[t], w).pending.by \in {"none"} \cup Requests
          /\ Own(AfterRequest(tags[t], pending[t], w).tags) = "none"
               => AfterRequest(tags[t], pending[t], w).pending.by = "none"
      BY <1>2, <2>1, <3>1, CleanAfter
    <3>4. QED BY <3>2, <3>3
  <2>2. CASE t # u
    <3>1. tags'[t] = tags[t] /\ pending'[t] = pending[t]
      BY <1>1, <1>2, <2>2, SetMoves
    <3>2. QED BY <3>1 DEF PendingOK
  <2>3. QED BY <2>1, <2>2
<1>3. ASSUME NEW u \in Tasks, TagHelper(u) PROVE \A t \in Leaders \cup Helpers : P(t)
  <2>1. hook[u].step = SetTags /\ SetUxTags(u, hook[u].tags)
    BY <1>3 DEF TagHelper
  <2>2. u \in Helpers /\ hook[u].tags.by \in AppSources /\ hook[u].tags \in TagWords
    BY <2>1 DEF NamedOK, TypeOK
  <2>3. Own(tags[u]) = "none"
    BY <2>1, <2>2, TableFacts DEF HelperOK, NoHook
  <2>4. QED BY <1>2, <2>1, <2>2, <2>3
<1>4. ASSUME NEW l \in Leaders, NEW by \in Requests \cup {"none"}, Call(l, by)
      PROVE  \A t \in Leaders \cup Helpers : P(t)
  <2> DEFINE w == [by |-> by, cpuL |-> FALSE]
  <2>1. w \in TagWords /\ w.by \in AppSources /\ w.by # "lent" /\ SetUxTags(l, w)
    BY <1>4, TagWordFacts, RequestsAssumption DEF Call, AppSources
  <2> HIDE DEF w, P
  <2>2. QED BY <1>2, <2>1
<1>5. ASSUME NEW t \in Leaders \cup Helpers, Own(tags'[t]) = Own(tags[t]), pending'[t] = pending[t] PROVE P(t)
  BY <1>5 DEF PendingOK
<1>6. ASSUME TagTarget PROVE \A t \in Leaders \cup Helpers : P(t)
  <2> DEFINE w == [by |-> call.by, cpuL |-> call.cpuL]
  <2>1. w.by \in AppSources /\ w.by # "lent"
    BY RequestsAssumption DEF TypeOK, AppSources
  <2>2. w \in TagWords /\ (UNCHANGED <<tags, pending>> \/ \E u \in Helpers : SetUxTags(u, w))
    BY <1>6, TargetMoves
  <2> HIDE DEF w, P
  <2>3. CASE UNCHANGED <<tags, pending>>
    BY <1>5, <2>3
  <2>4. CASE \E u \in Helpers : SetUxTags(u, w)
    BY <1>2, <2>1, <2>2, <2>4
  <2>5. QED BY <2>2, <2>3, <2>4
<1>7. ASSUME WorkSet, NEW t \in Leaders \cup Helpers PROVE P(t)
  <2>1. work.name \in DOMAIN Sf /\ work.task \in matched[work.name]
    BY <1>7 DEF WorkSet, PostOK
  <2>2. work.task # t
    BY <1>1, <2>1 DEF TypeOK
  <2>3. tags'[t] = tags[t] /\ pending' = pending
    BY <1>1, <1>7, <2>2 DEF WorkSet
  <2>4. QED BY <1>5, <2>3
<1>8. ASSUME NEW u \in Tasks, Lend(u) \/ LentEnds(u), NEW t \in Leaders \cup Helpers PROVE P(t)
  BY <1>1, <1>5, <1>8, LentMoves
<1> HIDE DEF P
<1>9. \A t \in Leaders \cup Helpers : P(t)
  <2>1. \/ (tags' = tags /\ pending' = pending) \/ WorkSet \/ TagTarget
        \/ \E u \in Tasks : TagHelper(u) \/ Lend(u) \/ LentEnds(u)
        \/ \E l \in Leaders, by \in Requests \cup {"none"} : Call(l, by)
    BY WhoChanges
  <2>2. ASSUME NEW t \in Leaders \cup Helpers, tags' = tags, pending' = pending PROVE P(t)
    BY <1>5, <2>2
  <2>3. ASSUME NEW u \in Tasks, Lend(u) \/ LentEnds(u) PROVE \A t \in Leaders \cup Helpers : P(t)
    BY <1>8, <2>3
  <2>4. CASE \E u \in Tasks : TagHelper(u) \/ Lend(u) \/ LentEnds(u)
    BY <1>3, <2>3, <2>4
  <2>5. CASE \E l \in Leaders, by \in Requests \cup {"none"} : Call(l, by)
    BY <1>4, <2>5
  <2>6. CASE WorkSet
    BY <1>7, <2>6
  <2>7. CASE TagTarget
    BY <1>6, <2>7
  <2>8. CASE tags' = tags /\ pending' = pending
    BY <2>2, <2>8
  <2>9. QED BY <2>1, <2>4, <2>5, <2>6, <2>7, <2>8
<1>10. QED BY <1>9 DEF P, PendingOK

\* Nobody but an ioctl changes what a leader has of its own, and who fell behind
\* stays behind.
LEMMA LeaderKeeps ==
  ASSUME TypeOK, PostOK, HelperOK, NamedOK, Next, NEW l \in Leaders
  PROVE  \/ Own(tags'[l]) = Own(tags[l]) /\ pending'[l] = pending[l]
         \/ \E m \in Leaders, by \in Requests \cup {"none"} : Call(m, by)
<1>1. tags \in [Tasks -> TagWords] /\ l \in Tasks /\ l \notin Helpers /\ l \notin SystemTasks
  BY GroupFacts DEF TypeOK
<1> DEFINE Kept == Own(tags'[l]) = Own(tags[l]) /\ pending'[l] = pending[l]
<1>2. ASSUME NEW t \in Tasks, TagHelper(t) PROVE Kept
  <2>1. hook[t].step = SetTags /\ SetUxTags(t, hook[t].tags) /\ hook[t].tags \in TagWords
    BY <1>2 DEF TagHelper, TypeOK
  <2>2. t # l
    BY <1>1, <2>1 DEF NamedOK
  <2>3. tags'[l] = tags[l] /\ pending'[l] = pending[l]
    BY <1>1, <2>1, <2>2, SetMoves
  <2>4. QED BY <2>3
<1>3. ASSUME WorkSet PROVE Kept
  <2>1. work.name \in DOMAIN Sf /\ work.task \in matched[work.name]
    BY <1>3 DEF WorkSet, PostOK
  <2>2. work.task # l
    BY <1>1, <2>1 DEF TypeOK
  <2>3. tags'[l] = tags[l] /\ pending' = pending
    BY <1>1, <1>3, <2>2 DEF WorkSet
  <2>4. QED BY <2>3
<1>4. ASSUME TagTarget PROVE Kept
  <2> DEFINE w == [by |-> call.by, cpuL |-> call.cpuL]
  <2>1. w \in TagWords /\ (UNCHANGED <<tags, pending>> \/ \E u \in Helpers : u \in Tasks /\ SetUxTags(u, w))
    BY <1>4, TargetMoves
  <2> HIDE DEF w
  <2>2. tags'[l] = tags[l] /\ pending'[l] = pending[l]
    BY <1>1, <2>1, SetMoves
  <2>3. QED BY <2>2
<1>5. ASSUME NEW t \in Tasks, Lend(t) \/ LentEnds(t) PROVE Kept
  BY <1>1, <1>5, LentMoves
<1> HIDE DEF Kept
<1>6. CASE tags' # tags
  BY <1>2, <1>3, <1>4, <1>5, <1>6, WhoChanges DEF Kept
<1>7. CASE tags' = tags /\ pending' # pending
  BY <1>2, <1>4, <1>7, WhoChanges DEF Kept
<1>8. QED BY <1>6, <1>7

\* The walk finds every helper of the name: there are no more than it has slots for.
LEMMA AllFound ==
  ASSUME TypeOK, HelperOK, NEW l \in Leaders, NEW n \in AppNames,
         NEW i \in DOMAIN Group[l], OfName(l, n, i)
  PROVE  i \in TargetsOf(l, n)
<1> DEFINE before == {j \in 1..i - 1 : OfName(l, n, j)}
<1>1. DOMAIN Group[l] = 1..Len(Group[l]) /\ Len(Group[l]) \in Nat /\ i \in Nat
  BY GroupFacts
<1>2. before \cup {i} \subseteq Named(l, n)
  <2>1. \A j \in before \cup {i} : j \in DOMAIN Group[l] /\ comm[Group[l][j]] = n
    BY <1>1 DEF OfName
  <2> HIDE DEF before
  <2>2. QED BY <2>1 DEF Named
<1>3. i \notin before
  BY <1>1
<1>4. IsFiniteSet(Named(l, n)) /\ IsFiniteSet(before) /\ IsFiniteSet(before \cup {i})
  <2>1. IsFiniteSet(Named(l, n)) /\ before \subseteq Named(l, n)
    BY <1>2, NamedFinite
  <2> HIDE DEF before
  <2>2. QED BY <1>2, <2>1, FS_Subset
<1> HIDE DEF before
<1>5. /\ Cardinality(before \cup {i}) = Cardinality(before) + 1
      /\ Cardinality(before \cup {i}) <= Cardinality(Named(l, n))
      /\ Cardinality(before) \in Nat /\ Cardinality(Named(l, n)) \in Nat
  BY <1>2, <1>3, <1>4, FS_AddElement, FS_Subset, FS_CardinalityType
<1>6. Cardinality(Named(l, n)) <= APPS_TARGETS_SLOTS
  BY DEF HelperOK
<1>7. Cardinality(before) < APPS_TARGETS_SLOTS
  BY <1>5, <1>6 DEF APPS_TARGETS_SLOTS
<1>8. QED BY <1>7 DEF TargetsOf, before

\* Who is settled after a step of others was so before.
LEMMA SettledBefore ==
  ASSUME TypeOK, Next, NEW t \in Helpers, Rests(t) \/ Walked(t), Settled(t)'
  PROVE  Settled(t)
<1>1. comm'[t] = comm[t] /\ hook'[t] = hook[t] /\ t \in Tasks
  BY GroupFacts DEF Rests, Walked
<1>2. comm[t] \in AppNames /\ hook[t] = NoHook /\ alive'[t]
  BY <1>1 DEF Settled
<1>3. ASSUME NEW u \in Tasks, Exit(u) PROVE alive[t]
  BY <1>1, <1>2, <1>3 DEF Exit, TypeOK
<1>4. ASSUME NEW u \in Tasks, Born(u) PROVE alive[t]
  <2>1. u # t
    BY <1>2, <1>4, OtherName DEF Born
  <2>2. QED BY <1>1, <1>2, <1>4, <2>1 DEF Born, TypeOK
<1>5. alive[t]
  BY <1>2, <1>3, <1>4, WhoChanges
<1>6. QED BY <1>2, <1>5 DEF Settled

\* Who fell behind stays behind.
LEMMA BehindGrows == ASSUME Next PROVE behind \subseteq behind'
<1>1. ASSUME NEW t \in Tasks, NEW n \in AppNames, RenameHelper(t, n) PROVE behind \subseteq behind'
  BY <1>1 DEF RenameHelper
<1>2. ASSUME NEW l \in Leaders, NEW by \in Requests \cup {"none"}, Call(l, by) PROVE behind \subseteq behind'
  BY <1>2 DEF Call
<1>3. QED BY <1>1, <1>2, WhoChanges

\* Without an ioctl, a helper that is named takes its leader's tags.
LEMMA QuietStep ==
  ASSUME TypeOK, PostOK, NamedOK, HelperOK, PendingOK, Next, Quiet, ~Calling, ~Calling'
  PROVE  Quiet'
<1> SUFFICES ASSUME NEW l \in Leaders, NEW i \in DOMAIN Group[l], Group[l][i] \notin behind'
             PROVE  /\ Settled(Group[l][i])' \/ hook'[Group[l][i]].step = Renamed
                         => InStep(Group[l][i], l)'
                    /\ hook'[Group[l][i]].step = SetTags
                         => Own(hook'[Group[l][i]].tags) = Own(tags'[l]) /\ pending'[l].by = "none"
  BY DEF Quiet
<1> DEFINE t == Group[l][i]
<1>1. t \in Helpers /\ LeaderOf(t) = l /\ t \notin behind
  BY GroupFacts, LeaderFacts, BehindGrows
<1>2. Own(tags'[l]) = Own(tags[l]) /\ pending'[l] = pending[l]
  <2>1. \A m \in Leaders, by \in Requests \cup {"none"} : Call(m, by) => Calling'
    BY TasksAssumption DEF Call, Calling, NoCall, Tasks
  <2>2. QED BY <2>1, LeaderKeeps
<1>3. /\ Settled(t) \/ hook[t].step = Renamed => InStep(t, l)
      /\ hook[t].step = SetTags => Own(hook[t].tags) = Own(tags[l]) /\ pending[l].by = "none"
  BY <1>1 DEF Quiet
<1> HIDE DEF t
<1>4. NoHook.step = 0 /\ Renamed = 5 /\ SetTags = 6
  BY TableFacts DEF NoHook
<1>5. CASE Rests(t)
  <2>1. Settled(t)' => Settled(t)
    BY <1>1, <1>5, SettledBefore
  <2>2. QED BY <1>2, <1>3, <1>5, <2>1 DEF Rests, InStep, t
<1>6. ~Walked(t)
  BY DEF Walked, TagTarget, HelperOK
<1>7. CASE Asks(t)
  <2>1. PICK n \in AppNames, s \in {Renamed, SetTags}, w \in TagWords :
          /\ hook'[t] = [step |-> s, name |-> n, tags |-> w]
          /\ w.by = tags[l].by /\ (s = Renamed <=> w.by = "none")
    BY <1>1, <1>7 DEF Asks
  <2>2. hook'[t].step = s /\ hook'[t].tags = w
    BY <2>1
  <2>3. ~Settled(t)'
    BY <1>4, <2>1, <2>2 DEF Settled
  <2>4. Own(tags'[t]) = "none" /\ pending'[t].by = "none"
    <3>1. comm[t] = "other" /\ hook[t].step # Renamed /\ tags'[t] = tags[t] /\ pending'[t] = pending[t]
      BY <1>4, <1>7 DEF Asks
    <3>2. Own(tags[t]) = "none"
      BY <1>1, <3>1 DEF HelperOK
    <3>3. pending[t].by = "none"
      BY <1>1, <3>2 DEF PendingOK
    <3>4. QED BY <3>1, <3>2, <3>3
  <2>5. pending[l].by = "none"
    <3>1. behind' = IF Calling \/ pending[l].by # "none" THEN behind \cup {t} ELSE behind
      BY <1>1, <1>7 DEF Asks
    <3>2. t \notin behind'
      BY DEF t
    <3>3. QED BY <3>1, <3>2
  <2>6. Own(w) = Own(tags[l]) /\ (s = Renamed => Own(tags[l]) = "none")
    BY <2>1 DEF Own
  <2>7. QED BY <1>2, <1>4, <2>1, <2>2, <2>3, <2>4, <2>5, <2>6 DEF InStep, t
<1>8. CASE Gets(t)
  <2>1. /\ Own(tags'[t]) = Own(tags'[l]) /\ pending'[t].by = pending'[l].by
        /\ hook'[t].step = Renamed
    BY <1>2, <1>3, <1>8 DEF Gets
  <2>2. QED BY <1>4, <2>1 DEF InStep, t
<1>9. CASE Ends(t)
  <2>1. InStep(t, l) /\ tags'[t] = tags[t] /\ pending'[t] = pending[t] /\ hook'[t].step = 0
    BY <1>3, <1>4, <1>9 DEF Ends
  <2>2. QED BY <1>2, <1>4, <2>1 DEF InStep, t
<1>10. QED BY <1>1, <1>5, <1>6, <1>7, <1>8, <1>9, HelperMoves

\* An ioctl finds the helpers as their leader was, and leaves those behind that are
\* being named.
LEMMA CallStep ==
  ASSUME TypeOK, PostOK, HelperOK, PendingOK, Quiet,
         NEW m \in Leaders, NEW by \in Requests \cup {"none"}, Call(m, by)
  PROVE  Walking'
<1> DEFINE req == [by |-> by, cpuL |-> FALSE]
<1>1. /\ UNCHANGED <<comm, alive, hook>> /\ SetUxTags(m, req)
      /\ call' = [NoCall EXCEPT !.leader = m, !.by = by]
      /\ behind' = behind \cup {t \in Helpers : hook[t] # NoHook}
  BY DEF Call
<1>2. call'.leader = m /\ call'.by = by /\ call'.next = 1 /\ call'.found = {}
  BY <1>1 DEF NoCall
<1>3. /\ tags'[m] = AfterRequest(tags[m], pending[m], req).tags
      /\ pending'[m] = AfterRequest(tags[m], pending[m], req).pending
      /\ \A u \in Tasks : u # m => tags'[u] = tags[u] /\ pending'[u] = pending[u]
  <2>1. req \in TagWords /\ m \in Tasks
    BY TagWordFacts, GroupFacts
  <2> HIDE DEF req
  <2>2. QED BY <1>1, <2>1, SetMoves
<1>4. ASSUME NEW l \in Leaders, NEW i \in DOMAIN Group[l], Group[l][i] \notin behind'
      PROVE  /\ hook'[Group[l][i]] = NoHook
             /\ Settled(Group[l][i])' =>
                  IF l = m /\ ToCome(i)' THEN WillBe(Group[l][i], l)' ELSE InStep(Group[l][i], l)'
  <2> DEFINE t == Group[l][i]
  <2>1. t \in Tasks /\ t \in Helpers /\ t \notin Leaders /\ t \notin behind /\ hook[t] = NoHook
    BY <1>1, <1>4, GroupFacts
  <2>2. ASSUME Settled(t)' PROVE InStep(t, l) /\ comm[t] \in AppNames
    <3>1. Settled(t)
      BY <1>1, <2>2 DEF Settled
    <3>2. QED BY <2>1, <3>1 DEF Quiet, Settled
  <2>3. tags'[t] = tags[t] /\ pending'[t] = pending[t]
    BY <1>3, <2>1
  <2>4. ASSUME l = m, Settled(t)' PROVE WillBe(t, l)' /\ ToCome(i)'
    <3>1. /\ Own(tags[t]) = Own(tags[l]) /\ pending[t].by = pending[l].by
          /\ Own(tags[t]) = "none" => pending[t].by = "none"
      BY <2>1, <2>2, <2>4 DEF InStep, PendingOK
    <3>2. /\ Own(AfterRequest(tags[t], pending[t], req).tags) = Own(AfterRequest(tags[l], pending[l], req).tags)
          /\ AfterRequest(tags[t], pending[t], req).pending.by = AfterRequest(tags[l], pending[l], req).pending.by
      BY <3>1, SameAfter
    <3>3. WillBe(t, l)'
      BY <1>2, <1>3, <2>3, <2>4, <3>2 DEF WillBe
    <3>4. \E k \in 1..Len(AppTable) : AppTable[k].comm = comm[t]
      BY <2>2, <2>4, TableFacts
    <3>5. QED BY <1>1, <1>2, <2>4, <3>3, <3>4 DEF ToCome
  <2>5. ASSUME l # m, Settled(t)' PROVE InStep(t, l)'
    BY <1>3, <2>2, <2>3, <2>5, GroupFacts DEF InStep
  <2>6. QED BY <1>1, <2>1, <2>4, <2>5
<1>5. QED BY <1>2, <1>4 DEF Walking

\* An ioctl has walked over every helper when it returns.
LEMMA ReturnStep ==
  ASSUME TypeOK, PostOK, HelperOK, Walking, Return
  PROVE  Quiet'
<1>1. /\ UNCHANGED <<comm, tags, pending, alive, hook, behind>>
      /\ call.found = {} /\ call.next > Len(AppTable)
  BY DEF Return, taskVars
<1>2. \A i : ~ToCome(i)
  <2>1. \A k \in call.next..Len(AppTable) : FALSE
    BY <1>1, TableFacts DEF TypeOK
  <2>2. QED BY <1>1, <2>1 DEF ToCome
<1>3. ASSUME NEW l \in Leaders, NEW i \in DOMAIN Group[l], Group[l][i] \notin behind
      PROVE  /\ Settled(Group[l][i]) => InStep(Group[l][i], l)
             /\ hook[Group[l][i]].step = 0
  <2>1. hook[Group[l][i]] = NoHook
    BY <1>3 DEF Walking
  <2>2. Settled(Group[l][i]) => InStep(Group[l][i], l)
    BY <1>2, <1>3 DEF Walking
  <2>3. QED BY <2>1, <2>2 DEF NoHook
<1>4. QED BY <1>1, <1>3, TableFacts DEF Quiet, Settled, InStep

\* While an ioctl walks, a helper is in step, or the walk has still to come to it
\* and will bring it in step.
LEMMA WalkStep ==
  ASSUME TypeOK, PostOK, NamedOK, HelperOK, PendingOK, Next, Walking, Calling, Calling'
  PROVE  Walking'
<1> DEFINE lead == call.leader
<1>1. \A m \in Leaders, by \in Requests \cup {"none"} : ~Call(m, by)
  BY DEF Call
<1>2. ~Return
  BY DEF Return, Calling, NoCall
<1>3. /\ lead \in Leaders /\ call'.leader = lead /\ call'.by = call.by
      /\ \A l \in Leaders : Own(tags'[l]) = Own(tags[l]) /\ pending'[l] = pending[l]
  <2>1. lead \in Leaders
    BY DEF Calling, TypeOK
  <2>2. CASE Collect
    <3>1. PICK f, b : call' = [call EXCEPT !.next = @ + 1, !.found = f, !.cpuL = b]
      BY <2>2 DEF Collect
    <3>2. call'.leader = lead /\ call'.by = call.by
      BY <3>1, CallTyped
    <3>3. QED BY <1>1, <2>1, <3>2, LeaderKeeps
  <2>3. CASE TagTarget
    <3>1. PICK f : call' = [call EXCEPT !.found = f]
      BY <2>3 DEF TagTarget
    <3>2. call'.leader = lead /\ call'.by = call.by
      BY <3>1, CallTyped
    <3>3. QED BY <1>1, <2>1, <3>2, LeaderKeeps
  <2>4. QED BY <1>1, <1>2, <2>1, <2>2, <2>3, LeaderKeeps, WhoChanges
<1>4. ASSUME NEW t \in Helpers, comm[t] \in AppNames PROVE comm'[t] = comm[t]
  <2>1. ~Ends(t)
    BY <1>4, OtherName, TableFacts DEF Ends, HelperOK, NoHook
  <2>2. QED BY <2>1, HelperMoves DEF Rests, Walked, Asks, Gets
<1>5. ASSUME NEW i \in call'.found
      PROVE  call'.next > 1 /\ comm'[Group[lead][i]] = AppTable[call'.next - 1].comm
  <2>1. CASE Collect
    <3> DEFINE c == AppTable[call.next].comm
               ts == TargetsOf(lead, c)
    <3>1. call'.found = ts /\ call'.next = call.next + 1 /\ call.next \in 1..2
      <4>1. PICK b : call' = [call EXCEPT !.next = @ + 1, !.found = ts, !.cpuL = b]
        BY <2>1 DEF Collect
      <4>2. call.next \in 1..2
        BY <2>1, CallTyped, TableFacts DEF Collect
      <4> HIDE DEF ts
      <4>3. QED BY <4>1, <4>2, CallTyped
    <3>2. \A j \in ts : comm[Group[lead][j]] = c
      BY DEF TargetsOf, OfName
    <3>3. comm' = comm
      BY <2>1 DEF Collect, taskVars
    <3> HIDE DEF ts
    <3>4. QED BY <3>1, <3>2, <3>3
  <2>2. CASE ~Collect
    <3>1. i \in call.found /\ call'.next = call.next
      <4>1. CASE TagTarget
        <5>1. PICK x : call' = [call EXCEPT !.found = call.found \ {x}]
          BY <4>1 DEF TagTarget
        <5>2. QED BY <5>1, CallTyped
      <4>2. CASE ~TagTarget
        BY <1>1, <1>2, <2>2, <4>2, WhoChanges
      <4>3. QED BY <4>1, <4>2
    <3>2. /\ Group[lead][i] \in Helpers /\ comm[Group[lead][i]] \in AppNames
          /\ call.next > 1 /\ comm[Group[lead][i]] = AppTable[call.next - 1].comm
      BY <1>3, <3>1, GroupFacts DEF HelperOK, Walking
    <3>3. comm'[Group[lead][i]] = comm[Group[lead][i]]
      BY <1>4, <3>2
    <3>4. QED BY <3>1, <3>2, <3>3
  <2>3. QED BY <2>1, <2>2
<1>6. ASSUME NEW l \in Leaders, NEW i \in DOMAIN Group[l], Group[l][i] \notin behind'
      PROVE  /\ hook'[Group[l][i]] = NoHook
             /\ Settled(Group[l][i])' =>
                  IF l = lead /\ ToCome(i)' THEN WillBe(Group[l][i], l)' ELSE InStep(Group[l][i], l)'
  <2> DEFINE t == Group[l][i]
  <2>1. t \in Helpers /\ t \in Tasks /\ t \notin behind /\ hook[t] = NoHook
    <3>1. t \in Helpers /\ t \in Tasks /\ t \notin behind
      BY <1>6, GroupFacts, BehindGrows
    <3>2. QED BY <3>1 DEF Walking
  <2>2. Rests(t) \/ Walked(t)
    <3>1. ~Gets(t) /\ ~Ends(t)
      <4>1. hook[t].step = 0 /\ Renamed = 5 /\ SetTags = 6
        BY <2>1, TableFacts DEF NoHook
      <4> HIDE DEF t
      <4>2. QED BY <4>1 DEF Gets, Ends
    <3>2. ~Asks(t)
      <4>1. Asks(t) => behind' = behind \cup {t}
        BY DEF Asks
      <4>2. QED BY <1>6, <4>1
    <3>3. QED BY <2>1, <3>1, <3>2, HelperMoves
  <2>3. hook'[t] = NoHook /\ comm'[t] = comm[t]
    BY <2>1, <2>2 DEF Rests, Walked
  <2> SUFFICES ASSUME Settled(t)'
               PROVE  IF l = lead /\ ToCome(i)' THEN WillBe(t, l)' ELSE InStep(t, l)'
    BY <2>3
  <2>4. Settled(t) /\ alive[t] /\ comm[t] \in AppNames
    <3>1. Settled(t)
      BY <2>1, <2>2, SettledBefore
    <3>2. QED BY <3>1 DEF Settled
  <2>5. IF l = lead /\ ToCome(i) THEN WillBe(t, l) ELSE InStep(t, l)
    BY <2>1, <2>4 DEF Walking
  <2>6. ASSUME Own(tags'[t]) = Own(tags[t]), pending'[t] = pending[t]
        PROVE  (WillBe(t, l) => WillBe(t, l)') /\ (InStep(t, l) => InStep(t, l)')
    <3> DEFINE req == [by |-> call.by, cpuL |-> FALSE]
    <3>1. Own(tags[t]) = "none" => pending[t].by = "none"
      BY <2>1 DEF PendingOK
    <3>2. /\ Own(AfterRequest(tags[t], pending[t], req).tags) = Own(AfterRequest(tags'[t], pending'[t], req).tags)
          /\ AfterRequest(tags[t], pending[t], req).pending.by = AfterRequest(tags'[t], pending'[t], req).pending.by
      BY <2>6, <3>1, SameAfter
    <3>3. Own(tags'[l]) = Own(tags[l]) /\ pending'[l] = pending[l] /\ call'.by = call.by
      BY <1>3
    <3>4. WillBe(t, l) => WillBe(t, l)'
      BY <3>2, <3>3 DEF WillBe
    <3>5. InStep(t, l) => InStep(t, l)'
      BY <2>6, <3>3 DEF InStep
    <3>6. QED BY <3>4, <3>5
  <2>7. CASE TagTarget
    <3>1. PICK x \in call.found :
            LET u == Group[lead][x] IN
            /\ x \in DOMAIN Group[lead] /\ u \in Tasks
            /\ call' = [call EXCEPT !.found = @ \ {x}]
            /\ IF u \in FindTask(PidOf[u])
                 THEN SetUxTags(u, [by |-> call.by, cpuL |-> call.cpuL])
                 ELSE UNCHANGED <<tags, pending>>
            /\ [by |-> call.by, cpuL |-> call.cpuL] \in TagWords
      BY <2>7, TargetMoves
    <3> DEFINE u == Group[lead][x]
               w == [by |-> call.by, cpuL |-> call.cpuL]
    <3>2. call'.found = call.found \ {x} /\ call'.next = call.next /\ comm' = comm
      BY <2>7, <3>1, CallTyped DEF TagTarget
    <3>3. CASE t = u
      <4>1. l = lead /\ i = x
        <5>1. t \in ToSet(Group[l]) /\ t \in ToSet(Group[lead])
          BY <3>1, <3>3 DEF ToSet
        <5>2. l = lead
          BY <1>3, <5>1, GroupAssumption
        <5>3. QED BY <1>3, <3>1, <3>3, <5>2, GroupAssumption
      <4>2. WillBe(t, l)
        BY <2>5, <4>1 DEF ToCome
      <4>3. t \in FindTask(PidOf[t])
        BY <2>1, <2>4 DEF FindTask
      <4>4. SetUxTags(t, w) /\ w \in TagWords /\ w.by = call.by
        BY <3>1, <3>3, <4>3
      <4> HIDE DEF w
      <4>5. /\ tags'[t] = AfterRequest(tags[t], pending[t], w).tags
            /\ pending'[t] = AfterRequest(tags[t], pending[t], w).pending
        BY <2>1, <4>4, SetMoves
      <4> DEFINE req == [by |-> call.by, cpuL |-> FALSE]
      <4>6. /\ Own(AfterRequest(tags[t], pending[t], req).tags) = Own(AfterRequest(tags[t], pending[t], w).tags)
            /\ AfterRequest(tags[t], pending[t], req).pending.by = AfterRequest(tags[t], pending[t], w).pending.by
        <5>1. (Own(tags[t]) = "none" => pending[t].by = "none") /\ req.by = w.by
          BY <2>1, <4>4 DEF PendingOK
        <5> HIDE DEF req
        <5>2. QED BY <5>1, SameAfter
      <4>7. InStep(t, l)'
        BY <1>3, <4>2, <4>5, <4>6 DEF WillBe, InStep
      <4>8. ~ToCome(i)'
        <5>1. comm[t] = AppTable[call.next - 1].comm /\ call.next > 1 /\ call.next \in 1..3
          BY <3>1, <3>3, CallTyped, TableFacts DEF Walking
        <5>2. ASSUME NEW k \in call.next..Len(AppTable), AppTable[k].comm = comm[t] PROVE FALSE
          <6>1. k \in 1..2 /\ call.next - 1 \in 1..2 /\ k # call.next - 1
            BY <5>1, TableFacts
          <6>2. QED BY <5>1, <5>2, <6>1, TableFacts
        <5>3. i \notin call'.found
          BY <3>2, <4>1
        <5>4. QED BY <1>3, <3>2, <4>1, <5>2, <5>3 DEF ToCome
      <4>9. QED BY <4>7, <4>8
    <3>4. CASE t # u
      <4>1. tags'[t] = tags[t] /\ pending'[t] = pending[t]
        <5>1. u \in Tasks /\ w \in TagWords /\ (SetUxTags(u, w) \/ UNCHANGED <<tags, pending>>)
          BY <3>1
        <5> HIDE DEF u, w, t
        <5>2. QED BY <2>1, <3>4, <5>1, SetMoves
      <4>2. l = lead => (ToCome(i)' <=> ToCome(i))
        <5>1. l = lead => i # x
          BY <3>4
        <5>2. QED BY <1>3, <3>2, <5>1 DEF ToCome
      <4>3. (WillBe(t, l) => WillBe(t, l)') /\ (InStep(t, l) => InStep(t, l)')
        BY <2>6, <4>1
      <4>4. QED BY <2>5, <4>2, <4>3
    <3>5. QED BY <3>3, <3>4
  <2>8. CASE ~TagTarget
    <3>1. (WillBe(t, l) => WillBe(t, l)') /\ (InStep(t, l) => InStep(t, l)')
      BY <2>2, <2>6, <2>8 DEF Rests, Walked
    <3>2. l = lead => (ToCome(i)' <=> ToCome(i))
      <4>1. CASE Collect
        <5> DEFINE c == AppTable[call.next].comm
                   ts == TargetsOf(lead, c)
        <5>1. call.found = {} /\ call.next \in 1..2 /\ comm' = comm
          BY <4>1, CallTyped, TableFacts DEF Collect, taskVars
        <5>2. call'.found = ts /\ call'.next = call.next + 1
          <6>1. PICK b : call' = [call EXCEPT !.next = @ + 1, !.found = ts, !.cpuL = b]
            BY <4>1 DEF Collect
          <6> HIDE DEF ts
          <6>2. QED BY <6>1, CallTyped
        <5>3. ASSUME l = lead PROVE i \in ts <=> c = comm[t]
          <6>1. i \in ts => comm[Group[lead][i]] = c
            BY DEF TargetsOf, OfName
          <6>2. ASSUME c = comm[t] PROVE i \in ts
            <7>1. OfName(l, c, i) /\ c \in AppNames
              BY <2>4, <6>2 DEF OfName
            <7> HIDE DEF c
            <7>2. QED BY <5>3, <7>1, AllFound
          <6>3. QED BY <5>3, <6>1, <6>2
        <5> HIDE DEF ts
        <5>4. (\E k \in call.next..Len(AppTable) : AppTable[k].comm = comm[t])
                <=> c = comm[t] \/ \E k \in call.next + 1..Len(AppTable) : AppTable[k].comm = comm[t]
          <6>1. \A k : k \in call.next..Len(AppTable) <=> k = call.next \/ k \in call.next + 1..Len(AppTable)
            BY <5>1, TableFacts
          <6>2. QED BY <6>1
        <5>5. QED BY <1>3, <5>1, <5>2, <5>3, <5>4 DEF ToCome
      <4>2. CASE ~Collect
        <5>1. UNCHANGED call
          BY <1>1, <1>2, <2>8, <4>2, WhoChanges
        <5>2. QED BY <2>3, <5>1 DEF ToCome
      <4>3. QED BY <4>1, <4>2
    <3>3. QED BY <2>5, <3>1, <3>2
  <2>9. QED BY <2>7, <2>8
<1>7. QED BY <1>3, <1>5, <1>6 DEF Walking

\* Every step keeps the helpers that are not behind with their leaders.
LEMMA FollowStep ==
  ASSUME TypeOK, PostOK, NamedOK, HelperOK, PendingOK, FollowOK, Next
  PROVE  FollowOK'
<1>1. CASE Calling /\ Calling'
  <2>1. Walking'
    BY <1>1, WalkStep DEF FollowOK
  <2>2. QED BY <1>1, <2>1 DEF FollowOK
<1>2. CASE ~Calling /\ ~Calling'
  <2>1. Quiet'
    BY <1>2, QuietStep DEF FollowOK
  <2>2. QED BY <1>2, <2>1 DEF FollowOK
<1>3. CASE ~Calling /\ Calling'
  <2>1. call' # call /\ ~Collect /\ ~Return
    BY <1>3 DEF Calling, Collect, Return
  <2>2. ~TagTarget
    BY <1>3 DEF TagTarget, HelperOK
  <2>3. PICK m \in Leaders, by \in Requests \cup {"none"} : Call(m, by)
    BY <2>1, <2>2, WhoChanges
  <2>4. Walking'
    BY <1>3, <2>3, CallStep DEF FollowOK
  <2>5. QED BY <1>3, <2>4 DEF FollowOK
<1>4. CASE Calling /\ ~Calling'
  <2>1. call' # call
    BY <1>4 DEF Calling
  <2>2. ~Collect
    <3>1. ASSUME Collect PROVE FALSE
      <4>1. PICK f, b : call' = [call EXCEPT !.next = @ + 1, !.found = f, !.cpuL = b]
        BY <3>1 DEF Collect
      <4>2. QED BY <1>4, <4>1, CallTyped DEF Calling
    <3>2. QED BY <3>1
  <2>3. ~TagTarget
    <3>1. ASSUME TagTarget PROVE FALSE
      <4>1. PICK f : call' = [call EXCEPT !.found = f]
        BY <3>1 DEF TagTarget
      <4>2. QED BY <1>4, <4>1, CallTyped DEF Calling
    <3>2. QED BY <3>1
  <2>4. \A m \in Leaders, by \in Requests \cup {"none"} : ~Call(m, by)
    BY <1>4 DEF Call
  <2>5. Return
    BY <2>1, <2>2, <2>3, <2>4, WhoChanges
  <2>6. Quiet'
    BY <1>4, <2>5, ReturnStep DEF FollowOK
  <2>7. QED BY <1>4, <2>6 DEF FollowOK
<1>5. QED BY <1>1, <1>2, <1>3, <1>4

----------------------------------------------------------------------------
(* The properties.                                                         *)

\* At first nobody is tagged, named or working.
LEMMA TargetInit == Init => TargetInv
<1> SUFFICES ASSUME Init PROVE TargetInv
  OBVIOUS
<1>1. TypeOK
  <2>1. Untagged \in TagWords /\ 0 \in Pids /\ "other" \in Names
    BY TagWordFacts DEF Pids, Names
  <2>2. NoHook \in [step : 0..SetTags, name : Names, tags : TagWords]
    BY <2>1, TableFacts DEF NoHook
  <2>3. NoEntry \in [pid : Pids, task : Tasks \cup {NoTask}]
    BY <2>1 DEF NoEntry
  <2>4. NoWork \in [step : {"idle", "find", "compare", "set", "clear"},
                   name : DOMAIN Sf \cup {"none"}, task : Tasks \cup {NoTask}]
    BY DEF NoWork
  <2>5. NoCall \in [leader : Leaders \cup {NoTask}, by : Requests \cup {"none"}, cpuL : BOOLEAN,
                   next : 1..Len(AppTable) + 1, found : SUBSET Nat]
    BY TableFacts DEF NoCall
  <2>6. /\ comm \in [Tasks -> Names] /\ tags \in [Tasks -> TagWords] /\ pending \in [Tasks -> TagWords]
        /\ alive \in [Tasks -> BOOLEAN]
    BY <2>1 DEF Init
  <2>7. matched \in [DOMAIN Sf -> SUBSET SystemTasks] /\ behind \in SUBSET Helpers
        /\ slot \in DOMAIN Sf \cup {"none"} /\ queued \in BOOLEAN
    BY DEF Init
  <2>8. QED BY <2>2, <2>3, <2>4, <2>5, <2>6, <2>7 DEF Init, TypeOK
<1>2. PostOK
  BY TableFacts DEF Init, PostOK, Posting, NoHook, NoEntry, NoWork
<1>3. NamedOK
  <2>1. \A t \in Tasks : tags[t] = Untagged /\ pending[t] = Untagged /\ hook[t] = NoHook
    BY DEF Init
  <2>2. TagsWhereNamed
    BY <2>1, TablesAssumption DEF TagsWhereNamed, Untagged
  <2>3. NoHook.step = 0 /\ SetTags = 6 /\ NoHook.tags = Untagged /\ Untagged.by \in AppSources
    BY TableFacts DEF NoHook, Untagged, AppSources
  <2>4. QED BY <2>1, <2>2, <2>3, GroupFacts DEF NamedOK
<1>4. /\ \A t \in Tasks : comm[t] = "other" /\ hook[t] = NoHook /\ tags[t] = Untagged /\ pending[t] = Untagged
      /\ NoHook.step = 0 /\ NoHook.name = "other" /\ Untagged.by = "none" /\ call = NoCall
      /\ Own(Untagged) = "none"
  BY DEF Init, NoHook, Untagged, Own
<1>5. HelperOK
  <2>1. ASSUME NEW l \in Leaders, NEW n \in AppNames
        PROVE  Cardinality(Named(l, n)) <= APPS_TARGETS_SLOTS
    <3>1. n # "other"
      BY OtherName
    <3>2. Named(l, n) = {}
      BY <1>4, <3>1, GroupFacts DEF Named
    <3>3. QED BY <3>2, FS_EmptySet DEF APPS_TARGETS_SLOTS
  <2>2. call.found = {}
    BY <1>4 DEF NoCall
  <2>3. QED BY <1>4, <2>1, <2>2, GroupFacts, TableFacts DEF HelperOK
<1>6. PendingOK
  BY <1>4, GroupFacts DEF PendingOK
<1>7. FollowOK
  <2>1. ~Calling
    BY <1>4 DEF Calling, NoCall
  <2>2. Quiet
    BY <1>4, GroupFacts, TableFacts DEF Quiet, Settled, InStep
  <2>3. QED BY <2>1, <2>2 DEF FollowOK
<1>8. QED BY <1>1, <1>2, <1>3, <1>5, <1>6, <1>7 DEF TargetInv

\* The invariant of the rename hook, the work item and the ioctl together.
THEOREM TargetInvariant == Spec => []TargetInv
<1>1. TargetInv /\ [Next]_vars => TargetInv'
  <2>1. CASE Next
    BY <2>1, TypeStep, PostStep, NamedStep, HelperStep, PendingStep, FollowStep DEF TargetInv
  <2>2. CASE UNCHANGED vars
    <3>1. UNCHANGED <<comm, tags, pending, alive, hook, entry, slot, queued, work, call, matched, behind>>
      BY <2>2 DEF vars, taskVars, sfVars, callVars
    <3>2. TargetInv => TypeOK' /\ PostOK' /\ NamedOK'
      BY <3>1 DEF TargetInv, TypeOK, PostOK, Posting, NamedOK, TagsWhereNamed
    <3>3. TargetInv => HelperOK' /\ PendingOK'
      BY <3>1 DEF TargetInv, HelperOK, Named, Calling, PendingOK
    <3>4. Quiet = Quiet' /\ Walking = Walking' /\ Calling = Calling'
      BY <3>1 DEF Quiet, Walking, ToCome, WillBe, Settled, InStep, Calling
    <3>5. QED BY <3>2, <3>3, <3>4 DEF TargetInv, FollowOK
  <2>3. QED BY <2>1, <2>2
<1>2. QED BY <1>1, TargetInit, PTL DEF Spec

\* ux_targets_work_func looks a target up by its pid and compares the pointer:
\* whatever pids are used again, no thread gets tags for a name it never had.
THEOREM TagsMatchNames == Spec => []TagsWhereNamed
<1>1. TargetInv => TagsWhereNamed
  BY DEF TargetInv, NamedOK
<1>2. QED BY <1>1, TargetInvariant, PTL

\* The rename hook and set_ux_target_tags leave a helper with its leader's tags and
\* the same request waiting behind them, however requests were stacked and cancelled,
\* unless it was named while a request waited or an ioctl ran.
THEOREM HelpersAreLikeLeaders == Spec => []HelpersFollow
<1>1. TargetInv => HelpersFollow
  <2> SUFFICES ASSUME TargetInv, ~Calling, NEW l \in Leaders, NEW t \in ToSet(Group[l]) \ behind,
                      alive[t], hook[t] = NoHook, comm[t] \in AppNames
               PROVE  Own(tags[t]) = Own(tags[l]) /\ pending[t].by = pending[l].by
    BY DEF HelpersFollow
  <2>1. PICK i \in DOMAIN Group[l] : Group[l][i] = t
    BY DEF ToSet
  <2>2. Settled(t) /\ t \notin behind /\ Quiet
    BY DEF Settled, TargetInv, FollowOK
  <2>3. InStep(t, l)
    BY <2>1, <2>2 DEF Quiet
  <2>4. QED BY <2>3 DEF InStep
<1>2. QED BY <1>1, TargetInvariant, PTL

=============================================================================

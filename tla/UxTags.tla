------------------------------- MODULE UxTags -------------------------------
(***************************************************************************)
(* The tag word of a UX task (u32 ux_tags), the share word that counts     *)
(* inherited tags (u32 share), and the pure operations sched_common.h and  *)
(* sched_common.c perform on them.  The bit fields become record fields:   *)
(*   sprio   the static priority: 0 is not a UX task, 1..5 is PRIO3..PRIO7 *)
(*   dprio   the dynamic priority below it                                 *)
(*   slice   the index of the run slice                                    *)
(*   share   the share-type bits that are set                              *)
(*   flags   the flag bits that are set                                    *)
(* The preferred-cores bits only steer CPU selection and are left out.     *)
(***************************************************************************)
EXTENDS Integers, Sequences, SequencesExt

CONSTANTS
  DprioBase,    \* UX_TASK_DPRIO_BASE (3 in the code)
  DprioMax,     \* UX_TASK_DPRIO_MASK (7 in the code)
  SliceLen,     \* slice index -> run slice, in units of UX_RUN_SLICE (4 ms)
  ShareLimit,   \* share type -> longest chain of inheritance
  HoldLimit     \* UX_SHARE_HOLD_BINDER_LIMIT, equal to the LOCK limit (3)

ShareTypes == {"BINDER", "MUTEX", "RWSEM", "FUTEX"}
UxFlags    == {"EXACT", "ONESHOT", "ABINDER", "KWORKER", "FUTEX"}
Slices     == DOMAIN SliceLen

ASSUME DprioAssumption == /\ DprioBase \in Nat /\ DprioMax \in Nat
                          /\ 0 < DprioBase /\ DprioBase <= DprioMax
ASSUME SliceAssumption == SliceLen \in [Slices -> Nat] /\ 0 \in Slices
ASSUME ShareLimitAssumption == ShareLimit \in [ShareTypes -> Nat \ {0}]
ASSUME HoldLimitAssumption == HoldLimit \in Nat \ {0}

Tags == [sprio : 0..5, dprio : 0..DprioMax, slice : Slices,
         share : SUBSET ShareTypes, flags : SUBSET UxFlags]
NoTags == [sprio |-> 0, dprio |-> 0, slice |-> 0, share |-> {}, flags |-> {}]

Shares  == [nr : [ShareTypes -> Nat], hold : 0..HoldLimit + 1]
NoShare == [nr |-> [k \in ShareTypes |-> 0], hold |-> 0]

----------------------------------------------------------------------------
(* The tag macros.                                                         *)

CheckTagsOk(g) == g.sprio # 0
\* Mutant: equal priorities overtake each other.
HigherOrEqualPrio(a, b) == a.sprio > b.sprio \/ (a.sprio = b.sprio /\ a.dprio >= b.dprio)
HigherPrio(a, b) == a.sprio > b.sprio \/ (a.sprio = b.sprio /\ a.dprio > b.dprio)

InitDprio(g)   == [g EXCEPT !.dprio = IF @ = 0 THEN DprioBase ELSE @]
RaiseDprio(g)  == [g EXCEPT !.dprio = IF @ = DprioMax THEN @ ELSE @ + 1]
LowerDprio(g)  == [g EXCEPT !.dprio = IF @ = 0 THEN @ ELSE @ - 1]
RebaseDprio(g) == [g EXCEPT !.dprio = DprioBase]
ChangeSlice(g, s) == [g EXCEPT !.slice = s]
SetFlag(g, f)     == [g EXCEPT !.flags = @ \union {f}]
ClearFlag(g, f)   == [g EXCEPT !.flags = @ \ {f}]

CheckShareType(g, k) == g.share = {k}
IgnoreShare(g)       == [g EXCEPT !.share = {}]

----------------------------------------------------------------------------
(* The share word: inc_ux_share, dec_ux_share and inc_ux_share_hold.  The  *)
(* type bit goes into the tags only with the first inheritance of a type,  *)
(* and leaves them when the hold count is used up.                         *)

\* Mutant: the bit only with a later inheritance.
IncShareTagsLate(g, s, k) ==
  IF s.nr[k] = 0 THEN g ELSE [g EXCEPT !.share = @ \union {k}]
IncShareTags(g, s, k) ==
  IF s.nr[k] = 0 THEN [g EXCEPT !.share = @ \union {k}] ELSE g
IncShare(s, k) == [nr |-> [s.nr EXCEPT ![k] = @ + 1], hold |-> 1]

HoldLeft(s) == IF s.hold > 0 THEN s.hold - 1 ELSE 0
DecShareTags(g, s, k) ==
  IF HoldLeft(s) = 0 THEN [g EXCEPT !.share = @ \ {k}] ELSE g
DecShare(s, k) ==
  [nr   |-> IF HoldLeft(s) = 0 THEN [s.nr EXCEPT ![k] = 0] ELSE s.nr,
   hold |-> HoldLeft(s)]

\* Mutant: the hold count has no limit.
IncHoldUnlimited(s, k) == IF k \in {"BINDER", "FUTEX"} THEN [s EXCEPT !.hold = @ + 1] ELSE s
IncHold(s, k) ==
  IF k \in {"BINDER", "FUTEX"} /\ s.hold <= HoldLimit
    THEN [s EXCEPT !.hold = @ + 1] ELSE s

----------------------------------------------------------------------------
(* update_ux_pending: what a request for tags req (NoTags cancels) makes   *)
(* of a task whose tags are cur and whose pending tags are pend.  Only the *)
(* first of two overlapping requests can be remembered.                    *)

Verdict(ig, g, p) == [ignore |-> ig, tags |-> g, pending |-> p]

\* A second request: the higher static priority wins, the other one waits.
\* Mutant: the first request wins whatever its priority.
FirstWins(cur, req) == Verdict(TRUE, req, req)
Overlap(cur, req) ==
  IF req.sprio > cur.sprio THEN Verdict(FALSE, req, cur) ELSE Verdict(TRUE, req, req)

\* A cancel while a request waits: it ends the exact request if that is in
\* force, else the waiting one.
\* Mutant: the request that waited stays pending.
RestoreAndKeep(cur, pend) ==
  IF "EXACT" \in cur.flags THEN Verdict(FALSE, pend, pend) ELSE Verdict(TRUE, NoTags, NoTags)
Restore(cur, pend) ==
  IF "EXACT" \in cur.flags THEN Verdict(FALSE, pend, NoTags) ELSE Verdict(TRUE, NoTags, NoTags)

PendingDecision(cur, pend, req) ==
  CASE cur = NoTags \/ cur.share # {} \/ (req = NoTags /\ pend = NoTags)
         -> Verdict(FALSE, req, pend)
    [] OTHER ->
       CASE req # NoTags /\ pend = NoTags -> Overlap(cur, req)
         [] req = NoTags /\ pend # NoTags -> Restore(cur, pend)
         [] OTHER -> Verdict(TRUE, req, pend)

----------------------------------------------------------------------------
(* The per-CPU list.  insert_ux_into_list puts a task in front of the first*)
(* listed task whose priority is strictly lower; w maps tasks to records   *)
(* with the field tags.  list_del_init takes a task out.                   *)

Listed(l, t) == \E i \in DOMAIN l : l[i] = t
Distinct(l)  == \A i, j \in DOMAIN l : l[i] = l[j] => i = j

InsertPos(l, g, w) ==
  CHOOSE p \in 1..Len(l)+1 :
    /\ p = Len(l) + 1 \/ HigherPrio(g, w[l[p]].tags)
    /\ \A q \in 1..p-1 : ~HigherPrio(g, w[l[q]].tags)

InsertUx(l, t, w) == InsertAt(l, InsertPos(l, w[t].tags, w), t)
DeleteUx(l, t)    == RemoveAt(l, CHOOSE i \in DOMAIN l : l[i] = t)

=============================================================================

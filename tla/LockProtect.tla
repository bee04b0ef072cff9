---------------------------- MODULE LockProtect ----------------------------
(***************************************************************************)
(* What lock protection promises for one task, without saying how it is    *)
(* counted.  A task is protected while it holds locks, for one jiffy:      *)
(*   prot     "none", "fresh" (protected), "late" (its jiffy is over: the  *)
(*            next look at it, task_inlock_protect, forgets everything)    *)
(*   waiting  the task is recorded as waiting for a lock                   *)
(* The jiffy starts with the first of nested locks.  Only a wait starts it *)
(* again.                                                                  *)
(***************************************************************************)
VARIABLES prot, waiting

protVars == <<prot, waiting>>

ProtStates == {"none", "fresh", "late"}

Init == prot = "none" /\ waiting = FALSE

\* A lock taken without a wait: nested locks do not start the jiffy again.
Acquire ==
  /\ ~waiting
  /\ prot' = IF prot = "none" THEN "fresh" ELSE prot
  /\ UNCHANGED waiting

\* The task starts to wait, and may become protected already.
Wait ==
  /\ waiting' = TRUE
  /\ prot' \in IF prot = "none" THEN {"none", "fresh"} ELSE {prot}

\* A wake-up (the mark stays) or the lock itself (the mark goes) starts the
\* jiffy of a waiting task again.
Refresh ==
  /\ waiting
  /\ prot' = IF prot = "none" THEN "none" ELSE "fresh"
  /\ waiting' \in BOOLEAN

Release == prot' = "none" /\ UNCHANGED waiting
Elapse  == prot = "fresh" /\ prot' = "late" /\ UNCHANGED waiting
Forget  == prot' = "none" /\ waiting' = FALSE

Next == Acquire \/ Wait \/ Refresh \/ Release \/ Elapse \/ Forget

Spec == Init /\ [][Next]_protVars

=============================================================================

------------------------------ MODULE UxAccount ------------------------------
(***************************************************************************)
(* The UX account of trans_sched_info.c: one record per request that made  *)
(* a task UX, kept under a lock of its own, which requests update after    *)
(* they have released the run-queue lock.  A cancelled group leader arms   *)
(* the audit, which takes the whole list away, walks it without the lock,  *)
(* debits tasks that stay in the background, cleans the ones that have no  *)
(* credit left, and splices the rest back.                                 *)
(*                                                                         *)
(* What a request does to the tag word is UxSched's subject; here tags are *)
(* one of four classes.  The magic words are set exactly when the class is *)
(* not "none" (UxSched!MagicMatchesTags).  A task struct whose task is     *)
(* freed may be used again for a task with a new pid.                      *)
(***************************************************************************)
EXTENDS Integers, Sequences, SequencesExt, FiniteSets

CONSTANTS
  Tasks,        \* task structs
  Leaders,      \* the tasks that lead their thread group
  Callers,      \* threads inside the driver or the rename hook
  Names,        \* the thread names requests are made for
  Ids,          \* those that carry UX_EXACT_HEAD
  Requests,     \* caller -> the classes it requests
  HpMax,        \* UX_HP_MAX (3 in the code)
  RefLimit,     \* the reference limit configured for an id
  BookMax,      \* records the allocator can supply
  MaxPid        \* bound: pids a task struct goes through

ASSUME LeadersAssumption == Leaders \subseteq Tasks
ASSUME IdsAssumption == Ids \subseteq Names
ASSUME RequestsAssumption == Requests \in [Callers -> SUBSET {"none", "plain", "exact"}]
ASSUME CreditAssumption ==
  HpMax \in Nat /\ BookMax \in Nat /\ RefLimit \in Nat /\ MaxPid \in Nat \ {0}

VARIABLES
  life,     \* task -> "live", "zombie" (not found by pid) or "free"
  pid,      \* task -> its pid
  ux,       \* task -> class of its tags
  css,      \* task -> its cpu cgroup
  book,     \* g_ux_account_book.list
  backup,   \* list_backup of the running audit
  caller,   \* caller -> where it is in its request
  audit,    \* where the audit work is
  timer,    \* the audit timer is armed
  work,     \* the audit work is queued
  owed      \* auxiliary: the task's record was made and nobody took it back

accVars == <<life, pid, ux, css, book, backup, caller, audit, timer, work, owed>>
taskVars == <<life, pid, css>>

Classes      == {"none", "plain", "exact", "share"}
Record(t, p, n) == [task |-> t, pid |-> p, hp |-> HpMax, name |-> n]
Records      == [task : Tasks, pid : 1..MaxPid, hp : 0..HpMax, name : Names]
Idle         == [pc |-> "idle"]
Found(t, p)  == life[t] = "live" /\ pid[t] = p          \* find_task_by_vpid

TypeOK ==
  /\ life \in [Tasks -> {"live", "zombie", "free"}]
  /\ pid \in [Tasks -> 1..MaxPid]
  /\ ux \in [Tasks -> Classes]
  /\ css \in [Tasks -> {"fg", "bg"}]
  /\ book \in Seq(Records) /\ backup \in Seq(Records)
  /\ audit.pc \in {"idle", "walk", "liquidate"}
  /\ Len(book) + Len(backup) <= BookMax
  /\ timer \in BOOLEAN /\ work \in BOOLEAN
  /\ owed \in [Tasks -> BOOLEAN]

Init ==
  /\ life = [t \in Tasks |-> "live"]
  /\ pid = [t \in Tasks |-> 1]
  /\ ux = [t \in Tasks |-> "none"]
  /\ css = [t \in Tasks |-> "fg"]
  /\ book = <<>> /\ backup = <<>>
  /\ caller = [c \in Callers |-> Idle]
  /\ audit = [pc |-> "idle", i |-> 1]
  /\ timer = FALSE /\ work = FALSE
  /\ owed = [t \in Tasks |-> FALSE]

----------------------------------------------------------------------------
(* The account's own operations, each under the account lock.              *)

FirstOf(l, t) == CHOOSE i \in DOMAIN l : l[i].task = t /\ \A j \in 1..i - 1 : l[j].task # t
Has(l, t)     == \E i \in DOMAIN l : l[i].task = t

\* record_ux puts the record behind the first one (list_add after list.next).
RecordUx(r) ==
  IF Len(book) + Len(backup) = BookMax THEN book
  ELSE InsertAt(book, IF book = <<>> THEN 1 ELSE 2, r)

ReRecordUx(t, n) ==
  LET Mine == {i \in DOMAIN book : book[i].task = t /\ book[i].pid = pid[t]}
  IN  IF Mine = {} THEN book
      ELSE [book EXCEPT ![CHOOSE i \in Mine : \A j \in Mine : i <= j].name = n]

DeleteUxRecord(t) == IF Has(book, t) THEN RemoveAt(book, FirstOf(book, t)) ELSE book

\* get_threadid_ref: the records of an id in the list, which is empty while
\* the audit has taken it away.
ThreadIdRef(n) == Cardinality({i \in DOMAIN book : book[i].name = n})

----------------------------------------------------------------------------
(* A request: TRANS_SET_UX_TAGS.                                           *)

\* The id's references are compared here and taken in Account.
Ioctl(c, t, req, n) ==
  /\ caller[c] = Idle /\ life[t] = "live"
  /\ req # "none" /\ n \in Ids => ThreadIdRef(n) < RefLimit
  /\ caller' = [caller EXCEPT ![c] =
       [pc |-> "check", task |-> t, pid |-> pid[t], req |-> req, name |-> n]]
  /\ UNCHANGED <<taskVars, ux, book, backup, audit, timer, work, owed>>

\* set_ux_target_tags, the end of the request: a group leader's cancel arms
\* the audit.  (Arming commutes with everything up to the expiry, so it is
\* part of the step before it; the threads that follow their leader get
\* requests of their own here.)
Finish(c) ==
  LET q == caller[c] IN
  /\ caller' = [caller EXCEPT ![c] = Idle]
  /\ timer' = (timer \/ (q.req = "none" /\ q.task \in Leaders /\ life[q.task] = "live"))

\* set_ux_tags_by_pid finds the task; set_ux_tags_to_task compares the tags
\* without the run-queue lock before it goes on.
Check(c) ==
  LET q == caller[c] IN
  /\ q.pc = "check"
  /\ \/ /\ ~Found(q.task, q.pid)
        /\ caller' = [caller EXCEPT ![c] = Idle]
        /\ UNCHANGED timer
     \/ /\ Found(q.task, q.pid) /\ q.req = "none" /\ ux[q.task] = "none"
        /\ Finish(c)
     \/ /\ Found(q.task, q.pid) /\ ~(q.req = "none" /\ ux[q.task] = "none")
        /\ caller' = [caller EXCEPT ![c] =
             [pc |-> "apply", task |-> q.task, req |-> q.req, name |-> q.name]]
        /\ UNCHANGED timer
  /\ UNCHANGED <<taskVars, ux, book, backup, audit, work, owed>>

\* What update_ux_pending can make of a request: take it, restore weaker
\* pending tags, or ignore it (an ignored request has no record command).
Effects(t, req) ==
  {[tags |-> req, cmd |-> IF req = "none" THEN "UNRECORD"
                          ELSE IF ux[t] = "none" THEN "RECORD" ELSE "RE_RECORD"]}
  \union (IF ux[t] \in {"plain", "exact"} THEN {[tags |-> ux[t], cmd |-> "NOTHING"]} ELSE {})
  \union (IF ux[t] = "exact" /\ req = "none" THEN {[tags |-> "plain", cmd |-> "RE_RECORD"]} ELSE {})

\* The part of set_ux_tags_to_task under the run-queue lock.
Apply(c) ==
  LET q == caller[c] IN
  /\ q.pc = "apply"
  /\ \E e \in Effects(q.task, q.req) :
       /\ ux' = [ux EXCEPT ![q.task] = e.tags]
       /\ caller' = [caller EXCEPT ![c] =
            [pc |-> "account", cmd |-> e.cmd, task |-> q.task, req |-> q.req,
             name |-> q.name]]
  /\ UNCHANGED <<taskVars, book, backup, audit, timer, work, owed>>

\* update_ux_account, after the run-queue lock has been released.
Account(c) ==
  LET q == caller[c] IN
  /\ q.pc = "account"
  /\ book' = CASE q.cmd = "RECORD"    -> RecordUx(Record(q.task, pid[q.task], q.name))
               [] q.cmd = "RE_RECORD" -> ReRecordUx(q.task, q.name)
               [] q.cmd = "UNRECORD"  -> DeleteUxRecord(q.task)
               [] OTHER               -> book
  /\ owed' = [owed EXCEPT ![q.task] =
       IF q.cmd = "RECORD" THEN @ \/ book' # book ELSE @ /\ q.cmd # "UNRECORD"]
  /\ Finish(c)
  /\ UNCHANGED <<taskVars, ux, backup, audit, work>>

----------------------------------------------------------------------------
(* The audit.                                                              *)

\* ux_account_timer_func queues the work.
TimerFires ==
  /\ timer
  /\ timer' = FALSE /\ work' = TRUE
  /\ UNCHANGED <<taskVars, ux, book, backup, caller, audit, owed>>

AuditBegin ==
  /\ work /\ audit.pc = "idle"
  /\ work' = FALSE
  /\ backup' = book /\ book' = <<>>
  /\ audit' = [pc |-> "walk", i |-> 1]
  /\ UNCHANGED <<taskVars, ux, caller, timer, owed>>

\* Mutant: a reused task struct passes for the recorded task.
RecordValidNoPid(r) == life[r.task] = "live" /\ ux[r.task] # "none"

\* ux_record_audit: the pid must still lead to the recorded, initialised task.
RecordValid(r) == Found(r.task, r.pid) /\ ux[r.task] # "none"
Debit(r)       == [r EXCEPT !.hp = @ - 1]

AuditLook ==
  /\ audit.pc = "walk" /\ audit.i <= Len(backup)
  /\ LET r == backup[audit.i]
         spared == css[r.task] # "bg" \/ ux[r.task] = "exact"
     IN  \/ /\ ~RecordValid(r)
            /\ backup' = RemoveAt(backup, audit.i)
            /\ owed' = [owed EXCEPT ![r.task] = @ /\ r.pid # pid[r.task]]
            /\ UNCHANGED audit
         \/ /\ RecordValid(r) /\ spared
            /\ audit' = [audit EXCEPT !.i = @ + 1]
            /\ UNCHANGED <<backup, owed>>
         \/ /\ RecordValid(r) /\ ~spared /\ r.hp > 0
            /\ backup' = [backup EXCEPT ![audit.i] = Debit(r)]
            /\ audit' = [audit EXCEPT !.i = @ + 1]
            /\ UNCHANGED owed
         \/ /\ RecordValid(r) /\ ~spared /\ r.hp = 0
            /\ audit' = [audit EXCEPT !.pc = "liquidate"]
            /\ UNCHANGED <<backup, owed>>
  /\ UNCHANGED <<taskVars, ux, book, caller, timer, work>>

\* Mutant: the record is dropped, the tags are kept.
LiquidateUncleaned ==
  /\ audit.pc = "liquidate"
  /\ backup' = RemoveAt(backup, audit.i)
  /\ audit' = [audit EXCEPT !.pc = "walk"]
  /\ owed' = [owed EXCEPT ![backup[audit.i].task] = FALSE]
  /\ UNCHANGED <<taskVars, ux, book, caller, timer, work>>

\* liquidate_debtor clears the tags under the run-queue lock, whatever they
\* have become since they were read.
Liquidate ==
  LET t == backup[audit.i].task IN
  /\ audit.pc = "liquidate"
  /\ ux' = [ux EXCEPT ![t] = "none"]
  /\ backup' = RemoveAt(backup, audit.i)
  /\ audit' = [audit EXCEPT !.pc = "walk"]
  /\ owed' = [owed EXCEPT ![t] = FALSE]
  /\ UNCHANGED <<taskVars, book, caller, timer, work>>

\* Mutant: the backup replaces what was recorded meanwhile.
SplicedOver == backup
Spliced     == book \o backup

AuditEnd ==
  /\ audit.pc = "walk" /\ audit.i > Len(backup)
  /\ book' = Spliced /\ backup' = <<>>
  /\ audit' = [pc |-> "idle", i |-> 1]
  /\ UNCHANGED <<taskVars, ux, caller, timer, work, owed>>

Audit == AuditBegin \/ AuditLook \/ Liquidate \/ AuditEnd

----------------------------------------------------------------------------
(* What happens to tasks meanwhile.                                        *)

\* References taken with get_task_struct.
Held(t) == \/ \E c \in Callers : caller[c].pc \in {"apply", "account"} /\ caller[c].task = t
           \/ audit.pc = "liquidate" /\ backup[audit.i].task = t

Exit(t) ==
  /\ life[t] = "live"
  /\ life' = [life EXCEPT ![t] = "zombie"]
  /\ UNCHANGED <<pid, css, ux, book, backup, caller, audit, timer, work, owed>>

\* android_vh_free_task_hook, at the last reference.
Free(t) ==
  /\ life[t] = "zombie" /\ ~Held(t)
  /\ life' = [life EXCEPT ![t] = "free"]
  /\ book' = IF ux[t] \in {"plain", "exact"} THEN DeleteUxRecord(t) ELSE book
  /\ ux' = [ux EXCEPT ![t] = "none"]
  /\ owed' = [owed EXCEPT ![t] = FALSE]
  /\ UNCHANGED <<pid, css, backup, caller, audit, timer, work>>

\* A group leader outside Tasks is cancelled.
CancelElsewhere ==
  /\ timer' = TRUE
  /\ UNCHANGED <<taskVars, ux, book, backup, caller, audit, work, owed>>

\* A new task, with a pid of its own, in the freed struct.
Fork(t) ==
  /\ life[t] = "free" /\ pid[t] < MaxPid
  /\ life' = [life EXCEPT ![t] = "live"]
  /\ pid' = [pid EXCEPT ![t] = @ + 1]
  /\ css' = [css EXCEPT ![t] = "fg"]
  /\ UNCHANGED <<ux, book, backup, caller, audit, timer, work, owed>>

MoveCss(t, s) ==
  /\ life[t] = "live" /\ css[t] # s
  /\ css' = [css EXCEPT ![t] = s]
  /\ UNCHANGED <<life, pid, ux, book, backup, caller, audit, timer, work, owed>>

\* Inheritance gives tags to a plain task and takes them back; a one-shot
\* request ends with the task's sleep.  None of them tells the account.
Inherit(t) ==
  /\ life[t] = "live" /\ ux[t] = "none"
  /\ ux' = [ux EXCEPT ![t] = "share"]
  /\ UNCHANGED <<taskVars, book, backup, caller, audit, timer, work, owed>>

TagsEnd(t) ==
  /\ life[t] = "live" /\ ux[t] \in {"share", "plain"}
  /\ ux' = [ux EXCEPT ![t] = "none"]
  /\ UNCHANGED <<taskVars, book, backup, caller, audit, timer, work, owed>>

----------------------------------------------------------------------------
Request(c) == Check(c) \/ Apply(c) \/ Account(c)

Environment ==
  \/ \E c \in Callers, t \in Tasks : \E req \in Requests[c], n \in Names : Ioctl(c, t, req, n)
  \/ \E t \in Tasks : Exit(t) \/ Free(t) \/ Fork(t) \/ Inherit(t) \/ TagsEnd(t)
  \/ \E t \in Tasks, s \in {"fg", "bg"} : MoveCss(t, s)
  \/ CancelElsewhere

Next == (\E c \in Callers : Request(c)) \/ TimerFires \/ Audit \/ Environment

Spec == Init /\ [][Next]_accVars

\* Requests and the work run to completion, an armed timer expires.
FairSpec == /\ Spec
            /\ \A c \in Callers : WF_accVars(Request(c))
            /\ WF_accVars(TimerFires) /\ WF_accVars(Audit)

----------------------------------------------------------------------------
(* Properties.                                                             *)

\* A record made while the audit works on the list it took away survives the
\* splice: until somebody takes it back, a task's record can be found.
RecordsSurviveAudit ==
  \A t \in Tasks : owed[t] /\ life[t] = "live" =>
    \E l \in {book, backup} : \E i \in DOMAIN l : l[i].task = t /\ l[i].pid = pid[t]

\* The audit takes tags only from the task the record was made for: never
\* from a new task in the same struct, even if the struct was freed and used
\* again while the record waited.
AuditHitsItsDebtor ==
  [][audit.pc = "liquidate" /\ Liquidate =>
       LET r == backup[audit.i] IN pid[r.task] = r.pid]_accVars

\* A task that is gone, or untagged, or in the background without an exact
\* request, and that nobody asks for any more.
Calm(t) == /\ \A c \in Callers : caller[c] = Idle \/ caller[c].task # t
           /\ life[t] # "live" \/ ux[t] = "none" \/ (css[t] = "bg" /\ ux[t] # "exact")

\* A live task with a record of its own, tagged or not.
Debtor(t) == /\ life[t] = "live"
             /\ \E l \in {book, backup} : \E i \in DOMAIN l : l[i].task = t /\ l[i].pid = pid[t]

\* As long as audits keep coming, the records of such a task are all worked
\* off, duplicates and records missed by a delete during an audit included,
\* and a task that still has a record then does not keep its tags: there is
\* a moment at which it has none, or it is gone.
DebtorsCleared ==
  \A t \in Tasks : []<><<AuditBegin>>_accVars =>
    /\ <>[]Calm(t) => <>[](~Has(book, t) /\ ~Has(backup, t))
    /\ []Calm(t) /\ Debtor(t) ~> life[t] # "live" \/ ux[t] = "none"

=============================================================================

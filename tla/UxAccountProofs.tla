-------------------------- MODULE UxAccountProofs ---------------------------
(***************************************************************************)
(* Proofs about UxAccount: a record survives the splice that ends an       *)
(* audit, and the audit cleans only the task a record was made for.  Both  *)
(* need to know that a task struct cannot be freed, and so not be used     *)
(* again, while a request or the audit holds a reference on it.            *)
(***************************************************************************)
EXTENDS UxAccount, ListFacts

\* Where a caller can be in its request, and the audit in its work.
Checks   == [pc : {"check"}, task : Tasks, pid : 1..MaxPid, req : {"none", "plain", "exact"},
             name : Names]
Applies  == [pc : {"apply"}, task : Tasks, req : {"none", "plain", "exact"}, name : Names]
Accounts == [pc : {"account"}, cmd : {"RECORD", "RE_RECORD", "UNRECORD", "NOTHING"},
             task : Tasks, req : {"none", "plain", "exact"}, name : Names]

\* Somebody who has taken a reference works on a struct that is not free.
CallersOK ==
  /\ caller \in [Callers -> {Idle} \union Checks \union Applies \union Accounts]
  /\ \A c \in Callers : caller[c].pc \in {"apply", "account"} => life[caller[c].task] # "free"

\* The audit has nothing when it does not run, and what it is about to clean
\* is still the task it recorded.
AuditOK ==
  /\ audit \in [pc : {"idle", "walk", "liquidate"}, i : Nat \ {0}]
  /\ audit.pc = "idle" => backup = <<>>
  /\ audit.pc = "liquidate" =>
       /\ audit.i \in DOMAIN backup
       /\ pid[backup[audit.i].task] = backup[audit.i].pid
       /\ life[backup[audit.i].task] # "free"

FreedOwesNothing == \A t \in Tasks : life[t] = "free" => ~owed[t]

AccountInv ==
  TypeOK /\ CallersOK /\ AuditOK /\ FreedOwesNothing /\ RecordsSurviveAudit

----------------------------------------------------------------------------
(* What the account's operations do to a list of records.                  *)

\* The record that was made for this task when it had this pid.
Present(l, t, p) == \E i \in DOMAIN l : l[i].task = t /\ l[i].pid = p

\* list_add loses no record, and adds the one it was given.
LEMMA InsertKeeps ==
  ASSUME NEW l \in Seq(Records), NEW r \in Records, NEW p \in 1..Len(l)+1
  PROVE  /\ Present(InsertAt(l, p, r), r.task, r.pid)
         /\ \A t, q : Present(l, t, q) => Present(InsertAt(l, p, r), t, q)
<1> DEFINE k == InsertAt(l, p, r)
<1>1. /\ k \in Seq(Records) /\ Len(k) = Len(l) + 1
      /\ \A i \in 1..Len(l)+1 : k[i] = IF i < p THEN l[i] ELSE IF i = p THEN r ELSE l[i-1]
  BY InsertAtFacts
<1> HIDE DEF k
<1>2. DOMAIN k = 1..Len(l)+1 /\ DOMAIN l = 1..Len(l) /\ Len(l) \in Nat
  BY <1>1, LenProperties
<1>3. p \in DOMAIN k /\ k[p] = r
  BY <1>1, <1>2
<1>4. Present(k, r.task, r.pid)
  BY <1>3 DEF Present
<1>5. ASSUME NEW t, NEW q, Present(l, t, q) PROVE Present(k, t, q)
  <2>1. PICK i \in DOMAIN l : l[i].task = t /\ l[i].pid = q
    BY <1>5 DEF Present
  <2>2. CASE i < p
    <3>1. i \in DOMAIN k /\ k[i] = l[i]
      BY <1>1, <1>2, <2>2
    <3>2. QED BY <2>1, <3>1 DEF Present
  <2>3. CASE ~(i < p)
    <3>1. i + 1 \in DOMAIN k /\ k[i+1] = l[i]
      BY <1>1, <1>2, <2>3
    <3>2. QED BY <2>1, <3>1 DEF Present
  <2>4. QED BY <2>2, <2>3
<1>6. QED BY <1>4, <1>5 DEF k

\* list_del loses the record it removes and no other.
LEMMA RemoveKeeps ==
  ASSUME NEW l \in Seq(Records), NEW p \in DOMAIN l,
         NEW t, NEW q, Present(l, t, q), l[p].task # t \/ l[p].pid # q
  PROVE  Present(RemoveAt(l, p), t, q)
<1> DEFINE k == RemoveAt(l, p)
<1>1. DOMAIN l = 1..Len(l) /\ Len(l) \in Nat
  BY LenProperties, Zenon
<1>2. /\ k \in Seq(Records) /\ Len(k) = Len(l) - 1
      /\ \A i \in 1..Len(l)-1 : k[i] = IF i < p THEN l[i] ELSE l[i+1]
  <2>1. p \in 1..Len(l)
    BY <1>1
  <2>2. QED BY <2>1, RemoveAtFacts, Zenon
<1> HIDE DEF k
<1>3. DOMAIN k = 1..Len(l)-1
  BY <1>2, LenProperties
<1>4. PICK i \in DOMAIN l : l[i].task = t /\ l[i].pid = q
  BY DEF Present
<1>5. i # p
  BY <1>4
<1>6. CASE i < p
  <2>1. i \in DOMAIN k /\ k[i] = l[i]
    BY <1>1, <1>2, <1>3, <1>6
  <2>2. QED BY <1>4, <2>1 DEF Present, k
<1>7. CASE i > p
  <2>1. i - 1 \in DOMAIN k /\ k[i-1] = l[i]
    BY <1>1, <1>2, <1>3, <1>7
  <2>2. QED BY <1>4, <2>1 DEF Present, k
<1>8. QED BY <1>1, <1>5, <1>6, <1>7

\* list_del makes the list one shorter.
LEMMA RemoveShorter ==
  ASSUME NEW l \in Seq(Records), NEW p \in DOMAIN l
  PROVE  RemoveAt(l, p) \in Seq(Records) /\ Len(RemoveAt(l, p)) = Len(l) - 1
<1>1. p \in 1..Len(l)
  BY LenProperties
<1>2. QED BY <1>1, RemoveAtFacts

\* delete_ux_record finds the first record of the task, whatever its pid, and
\* leaves the records of the others.
LEMMA DeleteFacts ==
  ASSUME TypeOK, NEW t \in Tasks
  PROVE  /\ DeleteUxRecord(t) \in Seq(Records)
         /\ Len(DeleteUxRecord(t)) <= Len(book)
         /\ \A u, q : u # t /\ Present(book, u, q) => Present(DeleteUxRecord(t), u, q)
<1>1. book \in Seq(Records) /\ Len(book) \in Nat /\ DOMAIN book = 1..Len(book)
  BY LenProperties DEF TypeOK
<1>2. CASE ~Has(book, t)
  BY <1>1, <1>2 DEF DeleteUxRecord
<1>3. CASE Has(book, t)
  <2> DEFINE Mine == {i \in DOMAIN book : book[i].task = t}
             f    == FirstOf(book, t)
  <2>1. PICK n \in Mine : TRUE
    BY <1>3 DEF Has
  <2>2. Mine \in SUBSET Nat
    BY <1>1
  <2>3. PICK m \in Mine : \A k \in Mine : m <= k
    BY <2>1, <2>2, LeastElement
  <2>4. \A j \in 1..m - 1 : book[j].task # t
    BY <1>1, <2>3
  <2>5. f \in DOMAIN book /\ book[f].task = t
    <3>1. \E i \in DOMAIN book : book[i].task = t /\ \A j \in 1..i - 1 : book[j].task # t
      BY <2>3, <2>4
    <3>2. QED BY <3>1 DEF FirstOf
  <2> HIDE DEF f
  <2>6. DeleteUxRecord(t) = RemoveAt(book, f)
    BY <1>3 DEF DeleteUxRecord, f
  <2>7. RemoveAt(book, f) \in Seq(Records) /\ Len(RemoveAt(book, f)) = Len(book) - 1
    BY <1>1, <2>5, RemoveShorter
  <2>8. ASSUME NEW u, NEW q, u # t, Present(book, u, q)
        PROVE  Present(RemoveAt(book, f), u, q)
    BY <1>1, <2>5, <2>8, RemoveKeeps
  <2>9. QED BY <1>1, <2>6, <2>7, <2>8
<1>4. QED BY <1>2, <1>3

\* record_ux adds the record, unless there is no memory for it.
LEMMA RecordFacts ==
  ASSUME TypeOK, NEW r \in Records
  PROVE  /\ RecordUx(r) \in Seq(Records)
         /\ Len(RecordUx(r)) + Len(backup) <= BookMax
         /\ \A u, q : Present(book, u, q) => Present(RecordUx(r), u, q)
         /\ RecordUx(r) # book => Present(RecordUx(r), r.task, r.pid)
<1>1. /\ book \in Seq(Records) /\ Len(book) \in Nat /\ Len(backup) \in Nat
      /\ Len(book) + Len(backup) <= BookMax
  BY LenProperties DEF TypeOK
<1>2. CASE Len(book) + Len(backup) = BookMax
  BY <1>1, <1>2 DEF RecordUx
<1>3. CASE Len(book) + Len(backup) # BookMax
  <2> DEFINE p == IF book = <<>> THEN 1 ELSE 2
  <2>1. p \in 1..Len(book)+1
    <3>1. book # <<>> => Len(book) # 0
      BY <1>1, EmptySeq
    <3>2. QED BY <1>1, <3>1
  <2>2. RecordUx(r) = InsertAt(book, p, r)
    BY <1>3 DEF RecordUx
  <2> HIDE DEF p
  <2>3. InsertAt(book, p, r) \in Seq(Records) /\ Len(InsertAt(book, p, r)) = Len(book) + 1
    BY <1>1, <2>1, InsertAtFacts
  <2>4. /\ Present(InsertAt(book, p, r), r.task, r.pid)
        /\ \A u, q : Present(book, u, q) => Present(InsertAt(book, p, r), u, q)
    BY <1>1, <2>1, InsertKeeps
  <2>5. Len(book) + 1 + Len(backup) <= BookMax
    BY <1>1, <1>3, CreditAssumption
  <2>6. QED BY <2>2, <2>3, <2>4, <2>5
<1>4. QED BY <1>2, <1>3

\* Writing to a record that stays the same task's loses none.
LEMMA RewriteKeeps ==
  ASSUME NEW l \in Seq(Records), NEW p \in DOMAIN l, NEW r \in Records,
         r.task = l[p].task, r.pid = l[p].pid
  PROVE  /\ [l EXCEPT ![p] = r] \in Seq(Records)
         /\ Len([l EXCEPT ![p] = r]) = Len(l)
         /\ \A t, q : Present(l, t, q) => Present([l EXCEPT ![p] = r], t, q)
<1> DEFINE k == [l EXCEPT ![p] = r]
<1>1. p \in 1..Len(l)
  BY LenProperties
<1>2. k \in Seq(Records) /\ Len(k) = Len(l)
  BY <1>1, ExceptSeq
<1>3. DOMAIN k = DOMAIN l /\ \A i \in DOMAIN l : k[i] = IF i = p THEN r ELSE l[i]
  OBVIOUS
<1> HIDE DEF k
<1>4. ASSUME NEW t, NEW q, Present(l, t, q) PROVE Present(k, t, q)
  <2>1. PICK i \in DOMAIN l : l[i].task = t /\ l[i].pid = q
    BY <1>4 DEF Present
  <2>2. k[i].task = t /\ k[i].pid = q
    BY <1>3, <2>1
  <2>3. QED BY <1>3, <2>2 DEF Present
<1>5. QED BY <1>2, <1>4 DEF k

\* re_record_ux changes the name of a record and nothing else.
LEMMA ReRecordFacts ==
  ASSUME TypeOK, NEW t \in Tasks, NEW n \in Names
  PROVE  /\ ReRecordUx(t, n) \in Seq(Records)
         /\ Len(ReRecordUx(t, n)) = Len(book)
         /\ \A u, q : Present(book, u, q) => Present(ReRecordUx(t, n), u, q)
<1> DEFINE Mine == {i \in DOMAIN book : book[i].task = t /\ book[i].pid = pid[t]}
           x    == CHOOSE i \in Mine : \A j \in Mine : i <= j
           r    == [book[x] EXCEPT !.name = n]
<1>1. book \in Seq(Records) /\ Len(book) \in Nat /\ DOMAIN book = 1..Len(book)
  BY LenProperties DEF TypeOK
<1>2. CASE Mine = {}
  BY <1>1, <1>2 DEF ReRecordUx
<1>3. CASE Mine # {}
  <2>1. x \in DOMAIN book
    <3>1. PICK m \in Mine : TRUE
      BY <1>3
    <3>2. Mine \in SUBSET Nat
      BY <1>1
    <3>3. \E i \in Mine : \A j \in Mine : i <= j
      BY <3>1, <3>2, LeastElement
    <3>4. x \in Mine
      BY <3>3
    <3>5. QED BY <3>4
  <2>2. ReRecordUx(t, n) = [book EXCEPT ![x] = r]
    BY <1>3 DEF ReRecordUx
  <2> HIDE DEF Mine, x
  <2>3. book[x] \in Records
    BY <1>1, <2>1, ElementOfSeq
  <2>4. r \in Records /\ r.task = book[x].task /\ r.pid = book[x].pid
    BY <2>3 DEF Records
  <2> HIDE DEF r
  <2>5. /\ [book EXCEPT ![x] = r] \in Seq(Records)
        /\ Len([book EXCEPT ![x] = r]) = Len(book)
        /\ \A u, q : Present(book, u, q) => Present([book EXCEPT ![x] = r], u, q)
    BY <1>1, <2>1, <2>4, RewriteKeeps
  <2>6. QED BY <2>2, <2>5
<1>4. QED BY <1>2, <1>3

\* The splice keeps the records of both lists.
LEMMA SpliceKeeps ==
  ASSUME NEW l \in Seq(Records), NEW k \in Seq(Records)
  PROVE  /\ l \o k \in Seq(Records)
         /\ Len(l \o k) = Len(l) + Len(k)
         /\ \A t, q : Present(l, t, q) \/ Present(k, t, q) => Present(l \o k, t, q)
<1> DEFINE s == l \o k
<1>1. /\ s \in Seq(Records) /\ Len(s) = Len(l) + Len(k)
      /\ \A i \in 1..Len(l)+Len(k) : s[i] = IF i <= Len(l) THEN l[i] ELSE k[i - Len(l)]
  BY ConcatProperties
<1> HIDE DEF s
<1>2. /\ DOMAIN s = 1..Len(l)+Len(k) /\ DOMAIN l = 1..Len(l) /\ DOMAIN k = 1..Len(k)
      /\ Len(l) \in Nat /\ Len(k) \in Nat
  BY <1>1, LenProperties
<1>3. ASSUME NEW t, NEW q, Present(l, t, q) PROVE Present(s, t, q)
  <2>1. PICK i \in DOMAIN l : l[i].task = t /\ l[i].pid = q
    BY <1>3 DEF Present
  <2>2. i \in DOMAIN s /\ s[i] = l[i]
    BY <1>1, <1>2
  <2>3. QED BY <2>1, <2>2 DEF Present
<1>4. ASSUME NEW t, NEW q, Present(k, t, q) PROVE Present(s, t, q)
  <2>1. PICK i \in DOMAIN k : k[i].task = t /\ k[i].pid = q
    BY <1>4 DEF Present
  <2>2. i + Len(l) \in DOMAIN s /\ s[i + Len(l)] = k[i]
    BY <1>1, <1>2
  <2>3. QED BY <2>1, <2>2 DEF Present
<1>5. QED BY <1>1, <1>3, <1>4 DEF s

----------------------------------------------------------------------------
(* Every step keeps the invariant.                                         *)

\* The property, said with Present.
LEMMA SurvivesMeans ==
  /\ RecordsSurviveAudit <=>
       \A t \in Tasks : owed[t] /\ life[t] = "live" =>
         Present(book, t, pid[t]) \/ Present(backup, t, pid[t])
  /\ RecordsSurviveAudit' <=>
       \A t \in Tasks : owed'[t] /\ life'[t] = "live" =>
         Present(book', t, pid'[t]) \/ Present(backup', t, pid'[t])
BY DEF RecordsSurviveAudit, Present

\* What a caller's place says of its request.
LEMMA CallerCases ==
  ASSUME CallersOK, NEW c \in Callers
  PROVE  /\ caller[c].pc = "check" => caller[c] \in Checks
         /\ caller[c].pc = "apply" => caller[c] \in Applies
         /\ caller[c].pc = "account" => caller[c] \in Accounts
BY DEF CallersOK, Idle, Checks, Applies, Accounts

\* A step that leaves the lists, the tasks and the audit alone can only break
\* what is said of callers.
LEMMA ListsUntouched ==
  ASSUME AccountInv, UNCHANGED <<life, pid, book, backup, audit, owed>>,
         css' \in [Tasks -> {"fg", "bg"}], ux' \in [Tasks -> Classes],
         timer' \in BOOLEAN, work' \in BOOLEAN
  PROVE  TypeOK' /\ AuditOK' /\ FreedOwesNothing' /\ RecordsSurviveAudit'
<1>1. TypeOK'
  BY DEF AccountInv, TypeOK
<1>2. AuditOK' /\ FreedOwesNothing'
  BY DEF AccountInv, AuditOK, FreedOwesNothing
<1>3. RecordsSurviveAudit'
  BY DEF AccountInv, RecordsSurviveAudit
<1>4. QED BY <1>1, <1>2, <1>3

\* Entering the driver only notes down the task and its pid.
LEMMA IoctlInv ==
  ASSUME AccountInv, NEW c \in Callers, NEW t \in Tasks, NEW req \in Requests[c], NEW n \in Names,
         Ioctl(c, t, req, n)
  PROVE  AccountInv'
<1>1. req \in {"none", "plain", "exact"}
  BY RequestsAssumption
<1>2. pid[t] \in 1..MaxPid
  BY DEF AccountInv, TypeOK
<1>3. TypeOK' /\ AuditOK' /\ FreedOwesNothing' /\ RecordsSurviveAudit'
  BY ListsUntouched DEF AccountInv, TypeOK, Ioctl, taskVars
<1>4. CallersOK'
  <2> DEFINE q == [pc |-> "check", task |-> t, pid |-> pid[t], req |-> req, name |-> n]
  <2>1. q \in Checks /\ q.pc = "check"
    BY <1>1, <1>2 DEF Checks
  <2>2. caller' = [caller EXCEPT ![c] = q] /\ life' = life
    BY DEF Ioctl, taskVars
  <2> HIDE DEF q
  <2>3. QED BY <2>1, <2>2 DEF AccountInv, CallersOK
<1>5. QED BY <1>3, <1>4 DEF AccountInv

\* A request takes its reference on a task it has found, which is live.
LEMMA CheckInv ==
  ASSUME AccountInv, NEW c \in Callers, Check(c)
  PROVE  AccountInv'
<1>1. caller[c] \in Checks
  BY CallerCases DEF AccountInv, Check
<1>2. timer' \in BOOLEAN
  BY DEF AccountInv, TypeOK, Check, Finish
<1>3. TypeOK' /\ AuditOK' /\ FreedOwesNothing' /\ RecordsSurviveAudit'
  BY <1>2, ListsUntouched DEF AccountInv, TypeOK, Check, taskVars
<1>4. CallersOK'
  <2> DEFINE q == [pc |-> "apply", task |-> caller[c].task, req |-> caller[c].req,
                   name |-> caller[c].name]
  <2>1. life' = life
    BY DEF Check, taskVars
  <2>2. CASE caller' = [caller EXCEPT ![c] = Idle]
    BY <2>1, <2>2 DEF AccountInv, CallersOK, Idle
  <2>3. CASE Found(caller[c].task, caller[c].pid) /\ caller' = [caller EXCEPT ![c] = q]
    <3>1. q \in Applies /\ q.pc = "apply" /\ q.task = caller[c].task
      BY <1>1 DEF Checks, Applies
    <3>2. life[q.task] # "free"
      BY <2>3, <3>1 DEF Found
    <3>3. caller' = [caller EXCEPT ![c] = q]
      BY <2>3
    <3> HIDE DEF q
    <3>4. QED BY <2>1, <3>1, <3>2, <3>3 DEF AccountInv, CallersOK
  <2>4. QED BY <2>2, <2>3 DEF Check, Finish
<1>5. QED BY <1>3, <1>4 DEF AccountInv

\* The change of the tags keeps the reference.
LEMMA ApplyInv ==
  ASSUME AccountInv, NEW c \in Callers, Apply(c)
  PROVE  AccountInv'
<1>1. caller[c] \in Applies /\ caller[c].pc = "apply"
  BY CallerCases DEF AccountInv, Apply
<1>2. caller[c].task \in Tasks /\ life[caller[c].task] # "free"
  BY <1>1 DEF AccountInv, CallersOK, Applies
<1>3. PICK e \in Effects(caller[c].task, caller[c].req) :
        /\ ux' = [ux EXCEPT ![caller[c].task] = e.tags]
        /\ caller' = [caller EXCEPT ![c] =
             [pc |-> "account", cmd |-> e.cmd, task |-> caller[c].task, req |-> caller[c].req,
              name |-> caller[c].name]]
  BY DEF Apply
<1>4. e.tags \in Classes /\ e.cmd \in {"RECORD", "RE_RECORD", "UNRECORD", "NOTHING"}
  <2>1. ux[caller[c].task] \in Classes /\ caller[c].req \in Classes
    BY <1>1, <1>2 DEF AccountInv, TypeOK, Applies, Classes
  <2>2. QED BY <2>1 DEF Effects, Classes
<1>5. TypeOK' /\ AuditOK' /\ FreedOwesNothing' /\ RecordsSurviveAudit'
  <2>1. ux' \in [Tasks -> Classes]
    BY <1>3, <1>4 DEF AccountInv, TypeOK
  <2>2. QED BY <2>1, ListsUntouched DEF AccountInv, TypeOK, Apply, taskVars
<1>6. CallersOK'
  <2> DEFINE q == [pc |-> "account", cmd |-> e.cmd, task |-> caller[c].task,
                   req |-> caller[c].req, name |-> caller[c].name]
  <2>1. q \in Accounts /\ q.pc = "account" /\ q.task = caller[c].task
    BY <1>1, <1>4 DEF Applies, Accounts
  <2>2. caller' = [caller EXCEPT ![c] = q] /\ life' = life
    BY <1>3 DEF Apply, taskVars
  <2> HIDE DEF q
  <2>3. QED BY <1>2, <2>1, <2>2 DEF AccountInv, CallersOK
<1>7. QED BY <1>5, <1>6 DEF AccountInv

\* update_ux_account: a task that owes a record has it, and an UNRECORD takes
\* only the record of its own task.
LEMMA AccountStepInv ==
  ASSUME AccountInv, NEW c \in Callers, Account(c)
  PROVE  AccountInv'
<1> DEFINE q == caller[c]
           r == Record(q.task, pid[q.task], q.name)
<1>1. /\ q \in Accounts /\ q.pc = "account"
      /\ q.task \in Tasks /\ q.name \in Names
      /\ q.cmd \in {"RECORD", "RE_RECORD", "UNRECORD", "NOTHING"}
      /\ life[q.task] # "free"
  <2>1. q \in Accounts /\ q.pc = "account"
    BY CallerCases DEF AccountInv, Account
  <2>2. QED BY <2>1 DEF AccountInv, CallersOK, Accounts
<1>2. r \in Records /\ r.task = q.task /\ r.pid = pid[q.task]
  BY <1>1, CreditAssumption DEF AccountInv, TypeOK, Record, Records
<1>3. /\ backup' = backup /\ life' = life /\ pid' = pid /\ css' = css /\ ux' = ux
      /\ audit' = audit /\ work' = work
      /\ timer' = (timer \/ (q.req = "none" /\ q.task \in Leaders /\ life[q.task] = "live"))
      /\ caller' = [caller EXCEPT ![c] = Idle]
      /\ owed' = [owed EXCEPT ![q.task] =
           IF q.cmd = "RECORD" THEN @ \/ book' # book ELSE @ /\ q.cmd # "UNRECORD"]
  BY DEF Account, Finish, taskVars
<1>4. /\ q.cmd = "RECORD" => book' = RecordUx(r)
      /\ q.cmd = "RE_RECORD" => book' = ReRecordUx(q.task, q.name)
      /\ q.cmd = "UNRECORD" => book' = DeleteUxRecord(q.task)
      /\ q.cmd = "NOTHING" => book' = book
  BY <1>1 DEF Account
<1>5. /\ owed \in [Tasks -> BOOLEAN] /\ owed' \in [Tasks -> BOOLEAN]
      /\ \A u \in Tasks : u # q.task => owed'[u] = owed[u]
      /\ q.cmd = "UNRECORD" => ~owed'[q.task]
      /\ q.cmd \in {"RE_RECORD", "NOTHING"} => owed'[q.task] = owed[q.task]
      /\ q.cmd = "RECORD" => (owed'[q.task] <=> owed[q.task] \/ book' # book)
  BY <1>1, <1>3, Zenon DEF AccountInv, TypeOK
<1> HIDE DEF q, r
<1>6. /\ book' \in Seq(Records)
      /\ Len(book') + Len(backup) <= BookMax
      /\ \A p : \A u \in Tasks : (u # q.task \/ q.cmd # "UNRECORD") /\ Present(book, u, p)
                          => Present(book', u, p)
      /\ q.cmd = "RECORD" /\ book' # book => Present(book', q.task, pid[q.task])
  <2>1. TypeOK /\ Len(book) \in Nat /\ Len(backup) \in Nat /\ Len(book) + Len(backup) <= BookMax
    BY LenProperties DEF AccountInv, TypeOK
  <2>2. CASE q.cmd = "RECORD"
    BY <1>2, <1>4, <2>1, <2>2, RecordFacts
  <2>3. CASE q.cmd = "RE_RECORD"
    BY <1>1, <1>4, <2>1, <2>3, ReRecordFacts
  <2>4. CASE q.cmd = "UNRECORD"
    <3>1. /\ book' \in Seq(Records) /\ Len(book') <= Len(book)
          /\ \A u, p : u # q.task /\ Present(book, u, p) => Present(book', u, p)
      BY <1>1, <1>4, <2>1, <2>4, DeleteFacts
    <3>2. Len(book') \in Nat
      BY <3>1, LenProperties
    <3>3. QED BY <2>1, <2>4, <3>1, <3>2, CreditAssumption
  <2>5. CASE q.cmd = "NOTHING"
    BY <1>4, <2>1, <2>5 DEF TypeOK
  <2>6. QED BY <1>1, <2>2, <2>3, <2>4, <2>5
<1>7. TypeOK'
  BY <1>3, <1>5, <1>6 DEF AccountInv, TypeOK
<1>8. CallersOK' /\ AuditOK'
  BY <1>3 DEF AccountInv, CallersOK, AuditOK, Idle
<1>9. FreedOwesNothing'
  BY <1>1, <1>3, <1>5 DEF AccountInv, FreedOwesNothing
<1>10. RecordsSurviveAudit'
  <2> SUFFICES ASSUME NEW t \in Tasks, owed'[t], life'[t] = "live"
               PROVE  Present(book', t, pid'[t]) \/ Present(backup', t, pid'[t])
    BY SurvivesMeans
  <2>1. owed[t] => Present(book, t, pid[t]) \/ Present(backup, t, pid[t])
    BY <1>3, SurvivesMeans DEF AccountInv
  <2>2. CASE t # q.task
    BY <1>3, <1>5, <1>6, <2>1, <2>2
  <2>3. CASE t = q.task
    BY <1>1, <1>3, <1>5, <1>6, <2>1, <2>3
  <2>4. QED BY <2>2, <2>3
<1>11. QED BY <1>7, <1>8, <1>9, <1>10 DEF AccountInv

\* The expiry only queues the work.
LEMMA TimerInv ==
  ASSUME AccountInv, TimerFires
  PROVE  AccountInv'
<1>1. TypeOK' /\ AuditOK' /\ FreedOwesNothing' /\ RecordsSurviveAudit'
  BY ListsUntouched DEF AccountInv, TypeOK, TimerFires, taskVars
<1>2. CallersOK'
  BY DEF AccountInv, CallersOK, TimerFires, taskVars
<1>3. QED BY <1>1, <1>2 DEF AccountInv

\* The audit that begins has no list yet, so taking the book loses nothing.
LEMMA AuditBeginInv ==
  ASSUME AccountInv, AuditBegin
  PROVE  AccountInv'
<1>1. /\ backup = <<>> /\ backup' = book /\ book' = <<>>
      /\ audit' = [pc |-> "walk", i |-> 1] /\ work' = FALSE
      /\ UNCHANGED <<life, pid, css, ux, caller, timer, owed>>
  BY DEF AccountInv, AuditOK, AuditBegin, taskVars
<1>2. TypeOK'
  <2>1. Len(book') = Len(backup) /\ Len(backup') = Len(book)
    BY <1>1
  <2>2. Len(book') + Len(backup') <= BookMax
    BY <2>1, LenProperties, CreditAssumption DEF AccountInv, TypeOK
  <2>3. QED BY <1>1, <2>2, EmptySeq DEF AccountInv, TypeOK
<1>3. CallersOK' /\ AuditOK' /\ FreedOwesNothing'
  BY <1>1 DEF AccountInv, CallersOK, AuditOK, FreedOwesNothing
<1>4. RecordsSurviveAudit'
  <2>1. \A t, p : ~Present(backup, t, p)
    BY <1>1 DEF Present
  <2>2. QED BY <1>1, <2>1, SurvivesMeans DEF AccountInv
<1>5. QED BY <1>2, <1>3, <1>4 DEF AccountInv

\* One record of the list is looked at: a record that is dropped was not its
\* task's, or is no longer owed.
LEMMA AuditLookInv ==
  ASSUME AccountInv, AuditLook
  PROVE  AccountInv'
<1> DEFINE r == backup[audit.i]
<1>1. /\ audit \in [pc : {"idle", "walk", "liquidate"}, i : Nat \ {0}]
      /\ audit.pc = "walk" /\ audit.i \in DOMAIN backup
      /\ backup \in Seq(Records) /\ book \in Seq(Records)
      /\ Len(backup) \in Nat /\ Len(book) \in Nat /\ Len(book) + Len(backup) <= BookMax
  BY LenProperties DEF AccountInv, TypeOK, AuditOK, AuditLook
<1>2. r \in Records /\ r.task \in Tasks
  <2>1. r \in Records
    BY <1>1, LenProperties
  <2>2. QED BY <2>1 DEF Records
<1>3. UNCHANGED <<life, pid, css, ux, book, caller, timer, work>>
  BY DEF AuditLook, taskVars
<1>4. CallersOK'
  BY <1>3 DEF AccountInv, CallersOK
<1>5. \A t \in Tasks : owed[t] /\ life[t] = "live" =>
         Present(book, t, pid[t]) \/ Present(backup, t, pid[t])
  BY SurvivesMeans DEF AccountInv
<1>6. CASE /\ ~RecordValid(r)
           /\ backup' = RemoveAt(backup, audit.i)
           /\ owed' = [owed EXCEPT ![r.task] = @ /\ r.pid # pid[r.task]]
           /\ UNCHANGED audit
  <2>1. /\ owed' \in [Tasks -> BOOLEAN]
        /\ \A t \in Tasks : owed'[t] => owed[t] /\ (t # r.task \/ r.pid # pid[t])
    BY <1>2, <1>6, Zenon DEF AccountInv, TypeOK
  <2> HIDE DEF r
  <2>2. backup' \in Seq(Records) /\ Len(backup') = Len(backup) - 1
    BY <1>1, <1>6, RemoveShorter
  <2>3. TypeOK'
    <3>1. audit' = audit /\ Len(book) + (Len(backup) - 1) <= BookMax
      BY <1>1, <1>6, CreditAssumption
    <3>2. QED BY <1>3, <2>1, <2>2, <3>1 DEF AccountInv, TypeOK
  <2>4. AuditOK' /\ FreedOwesNothing'
    BY <1>1, <1>3, <1>6, <2>1 DEF AccountInv, AuditOK, FreedOwesNothing
  <2>5. ASSUME NEW t \in Tasks, owed'[t], life'[t] = "live"
        PROVE  Present(book', t, pid'[t]) \/ Present(backup', t, pid'[t])
    <3>1. CASE Present(book, t, pid[t])
      BY <1>3, <3>1
    <3>2. CASE Present(backup, t, pid[t])
      <4>1. backup[audit.i].task # t \/ backup[audit.i].pid # pid[t]
        BY <2>1, <2>5 DEF r
      <4>2. Present(RemoveAt(backup, audit.i), t, pid[t])
        BY <1>1, <3>2, <4>1, RemoveKeeps
      <4>3. QED BY <1>3, <1>6, <4>2
    <3>3. QED BY <1>3, <1>5, <2>1, <2>5, <3>1, <3>2
  <2>6. QED BY <1>4, <2>3, <2>4, <2>5, SurvivesMeans DEF AccountInv
<1>7. CASE /\ audit' = [audit EXCEPT !.i = @ + 1]
           /\ UNCHANGED <<backup, owed>>
  <2>1. TypeOK' /\ FreedOwesNothing' /\ RecordsSurviveAudit'
    <3>1. TypeOK'
      BY <1>1, <1>3, <1>7 DEF AccountInv, TypeOK
    <3>2. FreedOwesNothing' /\ RecordsSurviveAudit'
      BY <1>3, <1>7 DEF AccountInv, FreedOwesNothing, RecordsSurviveAudit
    <3>3. QED BY <3>1, <3>2
  <2>2. AuditOK'
    BY <1>1, <1>7 DEF AuditOK
  <2>3. QED BY <1>4, <2>1, <2>2 DEF AccountInv
<1>8. CASE /\ r.hp > 0
           /\ backup' = [backup EXCEPT ![audit.i] = Debit(r)]
           /\ audit' = [audit EXCEPT !.i = @ + 1]
           /\ UNCHANGED owed
  <2>1. Debit(r) \in Records /\ Debit(r).task = r.task /\ Debit(r).pid = r.pid
    BY <1>2, <1>8, CreditAssumption DEF Debit, Records
  <2> DEFINE d == Debit(r)
  <2> HIDE DEF d
  <2>2. /\ backup' \in Seq(Records) /\ Len(backup') = Len(backup)
        /\ \A t, p : Present(backup, t, p) => Present(backup', t, p)
    <3>1. /\ d \in Records /\ d.task = backup[audit.i].task /\ d.pid = backup[audit.i].pid
          /\ backup' = [backup EXCEPT ![audit.i] = d]
      BY <1>8, <2>1 DEF d
    <3>2. /\ [backup EXCEPT ![audit.i] = d] \in Seq(Records)
          /\ Len([backup EXCEPT ![audit.i] = d]) = Len(backup)
          /\ \A t, p : Present(backup, t, p) => Present([backup EXCEPT ![audit.i] = d], t, p)
      BY <1>1, <3>1, RewriteKeeps
    <3>3. QED BY <3>1, <3>2
  <2>3. owed' = owed /\ audit' \in [pc : {"walk"}, i : Nat \ {0}]
    BY <1>1, <1>8
  <2>4. TypeOK' /\ AuditOK' /\ FreedOwesNothing'
    <3>1. TypeOK'
      BY <1>3, <2>2, <2>3 DEF AccountInv, TypeOK
    <3>2. AuditOK'
      BY <2>3 DEF AuditOK
    <3>3. FreedOwesNothing'
      BY <1>3, <2>3 DEF AccountInv, FreedOwesNothing
    <3>4. QED BY <3>1, <3>2, <3>3
  <2>5. RecordsSurviveAudit'
    BY <1>3, <1>5, <2>2, <2>3, SurvivesMeans
  <2>6. QED BY <1>4, <2>4, <2>5 DEF AccountInv
<1>9. CASE /\ RecordValid(r)
           /\ audit' = [audit EXCEPT !.pc = "liquidate"]
           /\ UNCHANGED <<backup, owed>>
  <2>1. /\ audit' \in [pc : {"liquidate"}, i : Nat \ {0}] /\ audit'.i = audit.i
        /\ backup' = backup /\ owed' = owed
    BY <1>1, <1>9
  <2>2. pid[r.task] = r.pid /\ life[r.task] # "free"
    BY <1>9 DEF RecordValid, Found
  <2>3. AuditOK'
    BY <1>1, <1>3, <2>1, <2>2 DEF AuditOK
  <2>4. TypeOK'
    BY <1>3, <2>1 DEF AccountInv, TypeOK
  <2>5. FreedOwesNothing' /\ RecordsSurviveAudit'
    BY <1>3, <2>1 DEF AccountInv, FreedOwesNothing, RecordsSurviveAudit
  <2>6. QED BY <1>4, <2>3, <2>4, <2>5 DEF AccountInv
<1>10. QED BY <1>6, <1>7, <1>8, <1>9 DEF AuditLook

\* The debtor's tags and its record go together.
LEMMA LiquidateInv ==
  ASSUME AccountInv, Liquidate
  PROVE  AccountInv'
<1> DEFINE t == backup[audit.i].task
<1>1. /\ audit \in [pc : {"idle", "walk", "liquidate"}, i : Nat \ {0}]
      /\ audit.i \in DOMAIN backup
      /\ backup \in Seq(Records) /\ book \in Seq(Records)
      /\ Len(backup) \in Nat /\ Len(book) \in Nat /\ Len(book) + Len(backup) <= BookMax
  BY LenProperties DEF AccountInv, TypeOK, AuditOK, Liquidate
<1>2. t \in Tasks
  <2>1. backup[audit.i] \in Records
    BY <1>1, LenProperties
  <2>2. QED BY <2>1 DEF Records
<1>3. /\ UNCHANGED <<life, pid, css, book, caller, timer, work>>
      /\ ux' = [ux EXCEPT ![t] = "none"]
      /\ owed' = [owed EXCEPT ![t] = FALSE]
      /\ backup' = RemoveAt(backup, audit.i)
      /\ audit' = [audit EXCEPT !.pc = "walk"]
  BY DEF Liquidate, taskVars
<1>4. audit' \in [pc : {"walk"}, i : Nat \ {0}]
  BY <1>1, <1>3
<1>5. /\ owed' \in [Tasks -> BOOLEAN] /\ ux' \in [Tasks -> Classes]
      /\ \A u \in Tasks : owed'[u] => owed[u] /\ u # t
  <2>1. owed' \in [Tasks -> BOOLEAN] /\ \A u \in Tasks : owed'[u] => owed[u] /\ u # t
    BY <1>2, <1>3, Zenon DEF AccountInv, TypeOK
  <2>2. ux' \in [Tasks -> Classes]
    BY <1>2, <1>3 DEF AccountInv, TypeOK, Classes
  <2>3. QED BY <2>1, <2>2
<1>6. backup' \in Seq(Records) /\ Len(backup') = Len(backup) - 1
  BY <1>1, <1>3, RemoveShorter
<1>7. TypeOK'
  <2>1. Len(book) + (Len(backup) - 1) <= BookMax
    BY <1>1, CreditAssumption
  <2>2. QED BY <1>3, <1>4, <1>5, <1>6, <2>1 DEF AccountInv, TypeOK
<1>8. CallersOK' /\ AuditOK' /\ FreedOwesNothing'
  BY <1>3, <1>4, <1>5 DEF AccountInv, CallersOK, AuditOK, FreedOwesNothing
<1>9. ASSUME NEW u \in Tasks, owed'[u], life'[u] = "live"
      PROVE  Present(book', u, pid'[u]) \/ Present(backup', u, pid'[u])
  <2>1. Present(book, u, pid[u]) \/ Present(backup, u, pid[u])
    BY <1>3, <1>5, <1>9, SurvivesMeans DEF AccountInv
  <2>2. backup[audit.i].task # u
    BY <1>5, <1>9
  <2>3. Present(backup, u, pid[u]) => Present(RemoveAt(backup, audit.i), u, pid[u])
    BY <1>1, <2>2, RemoveKeeps
  <2>4. QED BY <1>3, <2>1, <2>3
<1>10. QED BY <1>7, <1>8, <1>9, SurvivesMeans DEF AccountInv

\* The splice loses neither what came back nor what was recorded meanwhile.
LEMMA AuditEndInv ==
  ASSUME AccountInv, AuditEnd
  PROVE  AccountInv'
<1>1. /\ book' = book \o backup /\ backup' = <<>> /\ audit' = [pc |-> "idle", i |-> 1]
      /\ UNCHANGED <<life, pid, css, ux, caller, timer, work, owed>>
      /\ backup \in Seq(Records) /\ book \in Seq(Records)
      /\ Len(backup) \in Nat /\ Len(book) \in Nat /\ Len(book) + Len(backup) <= BookMax
  BY LenProperties DEF AccountInv, TypeOK, AuditEnd, Spliced, taskVars
<1>2. /\ book' \in Seq(Records) /\ Len(book') = Len(book) + Len(backup)
      /\ \A t, p : Present(book, t, p) \/ Present(backup, t, p) => Present(book', t, p)
  BY <1>1, SpliceKeeps
<1>3. TypeOK'
  <2>1. backup' \in Seq(Records) /\ Len(backup') = 0
    BY <1>1, EmptySeq
  <2>2. Len(book') + Len(backup') <= BookMax
    BY <1>1, <1>2, <2>1
  <2>3. QED BY <1>1, <1>2, <2>1, <2>2 DEF AccountInv, TypeOK
<1>4. CallersOK' /\ AuditOK' /\ FreedOwesNothing'
  BY <1>1 DEF AccountInv, CallersOK, AuditOK, FreedOwesNothing
<1>5. RecordsSurviveAudit'
  BY <1>1, <1>2, SurvivesMeans DEF AccountInv
<1>6. QED BY <1>3, <1>4, <1>5 DEF AccountInv

\* A task that exits is still there for those who hold it.
LEMMA ExitInv ==
  ASSUME AccountInv, NEW t \in Tasks, Exit(t)
  PROVE  AccountInv'
<1>1. /\ life[t] = "live" /\ life' = [life EXCEPT ![t] = "zombie"]
      /\ UNCHANGED <<pid, css, ux, book, backup, caller, audit, timer, work, owed>>
      /\ life \in [Tasks -> {"live", "zombie", "free"}]
  BY DEF AccountInv, TypeOK, Exit
<1>2. /\ life' \in [Tasks -> {"live", "zombie", "free"}]
      /\ \A u \in Tasks : /\ life'[u] = "live" => life[u] = "live"
                          /\ life'[u] = "free" => life[u] = "free"
  BY <1>1
<1>3. TypeOK'
  BY <1>1, <1>2 DEF AccountInv, TypeOK
<1>4. CallersOK'
  <2>1. ASSUME NEW c \in Callers, caller[c].pc \in {"apply", "account"}
        PROVE  caller[c].task \in Tasks
    BY <2>1, CallerCases DEF AccountInv, Applies, Accounts
  <2>2. QED BY <1>1, <1>2, <2>1 DEF AccountInv, CallersOK
<1>5. AuditOK'
  <2>1. audit.pc = "liquidate" => backup[audit.i].task \in Tasks
    <3>1. audit.pc = "liquidate" => backup[audit.i] \in Records
      BY LenProperties DEF AccountInv, TypeOK, AuditOK
    <3>2. QED BY <3>1 DEF Records
  <2>2. QED BY <1>1, <1>2, <2>1 DEF AccountInv, AuditOK
<1>6. FreedOwesNothing' /\ RecordsSurviveAudit'
  BY <1>1, <1>2 DEF AccountInv, FreedOwesNothing, RecordsSurviveAudit
<1>7. QED BY <1>3, <1>4, <1>5, <1>6 DEF AccountInv

\* A struct is freed only when nobody holds it, with its record.
LEMMA FreeInv ==
  ASSUME AccountInv, NEW t \in Tasks, Free(t)
  PROVE  AccountInv'
<1>1. /\ life' = [life EXCEPT ![t] = "free"] /\ ~Held(t)
      /\ ux' = [ux EXCEPT ![t] = "none"] /\ owed' = [owed EXCEPT ![t] = FALSE]
      /\ UNCHANGED <<pid, css, backup, caller, audit, timer, work>>
  BY DEF Free
<1>2. /\ life' \in [Tasks -> {"live", "zombie", "free"}]
      /\ \A u \in Tasks : u # t => life'[u] = life[u]
      /\ life'[t] = "free"
  BY <1>1 DEF AccountInv, TypeOK
<1>3. /\ owed' \in [Tasks -> BOOLEAN] /\ \A u \in Tasks : owed'[u] => owed[u] /\ u # t
  BY <1>1, Zenon DEF AccountInv, TypeOK
<1>4. ux' \in [Tasks -> Classes]
  BY <1>1 DEF AccountInv, TypeOK, Classes
<1>5. /\ book' \in Seq(Records) /\ Len(book') <= Len(book)
      /\ \A u, p : u # t /\ Present(book, u, p) => Present(book', u, p)
      /\ Len(book') \in Nat /\ Len(book) \in Nat /\ Len(backup) \in Nat
      /\ Len(book) + Len(backup) <= BookMax
  <2>1. /\ book \in Seq(Records) /\ Len(book) \in Nat /\ Len(backup) \in Nat
        /\ Len(book) + Len(backup) <= BookMax
    BY LenProperties DEF AccountInv, TypeOK
  <2>2. book' = book \/ book' = DeleteUxRecord(t)
    BY DEF Free
  <2>3. /\ DeleteUxRecord(t) \in Seq(Records)
        /\ Len(DeleteUxRecord(t)) <= Len(book)
        /\ \A u, p : u # t /\ Present(book, u, p) => Present(DeleteUxRecord(t), u, p)
    BY DeleteFacts DEF AccountInv
  <2>4. Len(DeleteUxRecord(t)) \in Nat
    BY <2>3, LenProperties
  <2>5. QED BY <2>1, <2>2, <2>3, <2>4
<1>6. TypeOK'
  <2>1. Len(book') + Len(backup) <= BookMax
    BY <1>5, CreditAssumption
  <2>2. QED BY <1>1, <1>2, <1>3, <1>4, <1>5, <2>1 DEF AccountInv, TypeOK
<1>7. CallersOK'
  <2>1. ASSUME NEW c \in Callers, caller[c].pc \in {"apply", "account"}
        PROVE  caller[c].task \in Tasks /\ caller[c].task # t
    BY <1>1, <2>1, CallerCases DEF AccountInv, Applies, Accounts, Held
  <2>2. QED BY <1>1, <1>2, <2>1 DEF AccountInv, CallersOK
<1>8. AuditOK'
  <2>1. audit.pc = "liquidate" => backup[audit.i].task \in Tasks /\ backup[audit.i].task # t
    <3>1. audit.pc = "liquidate" => backup[audit.i] \in Records
      BY LenProperties DEF AccountInv, TypeOK, AuditOK
    <3>2. QED BY <1>1, <3>1 DEF Records, Held
  <2>2. QED BY <1>1, <1>2, <2>1 DEF AccountInv, AuditOK
<1>9. FreedOwesNothing'
  BY <1>2, <1>3 DEF AccountInv, FreedOwesNothing
<1>10. ASSUME NEW u \in Tasks, owed'[u], life'[u] = "live"
       PROVE  Present(book', u, pid'[u]) \/ Present(backup', u, pid'[u])
  <2>1. u # t /\ owed[u] /\ life[u] = "live"
    BY <1>2, <1>3, <1>10
  <2>2. Present(book, u, pid[u]) \/ Present(backup, u, pid[u])
    BY <2>1, SurvivesMeans DEF AccountInv
  <2>3. QED BY <1>1, <1>5, <2>1, <2>2
<1>11. QED BY <1>6, <1>7, <1>8, <1>9, <1>10, SurvivesMeans DEF AccountInv

\* The new task in a freed struct owes nothing, and nobody held the old one.
LEMMA ForkInv ==
  ASSUME AccountInv, NEW t \in Tasks, Fork(t)
  PROVE  AccountInv'
<1>1. /\ life[t] = "free" /\ pid[t] < MaxPid
      /\ life' = [life EXCEPT ![t] = "live"] /\ pid' = [pid EXCEPT ![t] = @ + 1]
      /\ css' = [css EXCEPT ![t] = "fg"]
      /\ UNCHANGED <<ux, book, backup, caller, audit, timer, work, owed>>
  BY DEF Fork
<1>2. /\ life' \in [Tasks -> {"live", "zombie", "free"}]
      /\ css' \in [Tasks -> {"fg", "bg"}]
      /\ \A u \in Tasks : u # t => life'[u] = life[u] /\ pid'[u] = pid[u]
      /\ life'[t] = "live"
  BY <1>1 DEF AccountInv, TypeOK
<1>3. pid' \in [Tasks -> 1..MaxPid]
  BY <1>1, CreditAssumption DEF AccountInv, TypeOK
<1>4. TypeOK'
  BY <1>1, <1>2, <1>3 DEF AccountInv, TypeOK
<1>5. CallersOK'
  <2>1. ASSUME NEW c \in Callers, caller[c].pc \in {"apply", "account"}
        PROVE  caller[c].task \in Tasks
    BY <2>1, CallerCases DEF AccountInv, Applies, Accounts
  <2>2. QED BY <1>1, <1>2, <2>1 DEF AccountInv, CallersOK
<1>6. AuditOK'
  <2>1. audit.pc = "liquidate" => backup[audit.i].task \in Tasks /\ backup[audit.i].task # t
    <3>1. audit.pc = "liquidate" => /\ backup[audit.i] \in Records
                                    /\ life[backup[audit.i].task] # "free"
      BY LenProperties DEF AccountInv, TypeOK, AuditOK
    <3>2. QED BY <1>1, <3>1 DEF Records
  <2>2. QED BY <1>1, <1>2, <2>1 DEF AccountInv, AuditOK
<1>7. ~owed[t]
  BY <1>1 DEF AccountInv, FreedOwesNothing
<1>8. FreedOwesNothing' /\ RecordsSurviveAudit'
  BY <1>1, <1>2, <1>7 DEF AccountInv, FreedOwesNothing, RecordsSurviveAudit
<1>9. QED BY <1>4, <1>5, <1>6, <1>8 DEF AccountInv

\* The rest of the environment moves tags and cgroups, which records do not
\* depend on.
LEMMA TagsMoveInv ==
  ASSUME AccountInv,
         \/ \E t \in Tasks : Inherit(t) \/ TagsEnd(t)
         \/ \E t \in Tasks, s \in {"fg", "bg"} : MoveCss(t, s)
         \/ CancelElsewhere
  PROVE  AccountInv'
<1>1. UNCHANGED <<life, pid, book, backup, audit, owed, caller, work>>
  BY DEF Inherit, TagsEnd, MoveCss, CancelElsewhere, taskVars
<1>2. timer' \in BOOLEAN /\ css' \in [Tasks -> {"fg", "bg"}] /\ ux' \in [Tasks -> Classes]
  BY DEF AccountInv, TypeOK, Classes, Inherit, TagsEnd, MoveCss, CancelElsewhere, taskVars
<1>3. CallersOK'
  BY <1>1 DEF AccountInv, CallersOK
<1>4. TypeOK' /\ AuditOK' /\ FreedOwesNothing' /\ RecordsSurviveAudit'
  BY <1>1, <1>2, ListsUntouched DEF AccountInv, TypeOK
<1>5. QED BY <1>3, <1>4 DEF AccountInv

----------------------------------------------------------------------------
(* What follows for every run.                                             *)

\* At the start nobody is in the driver and nothing is recorded.
LEMMA AccountInit ==
  ASSUME Init
  PROVE  AccountInv
<1>1. TypeOK
  <2>1. /\ book \in Seq(Records) /\ backup \in Seq(Records)
        /\ Len(book) = 0 /\ Len(backup) = 0
    BY EmptySeq DEF Init
  <2>2. /\ Len(book) + Len(backup) <= BookMax
        /\ 1 \in 1..MaxPid
    BY <2>1, CreditAssumption
  <2>3. QED BY <2>1, <2>2 DEF Init, TypeOK, Classes
<1>2. CallersOK /\ AuditOK /\ FreedOwesNothing /\ RecordsSurviveAudit
  BY DEF Init, CallersOK, AuditOK, FreedOwesNothing, RecordsSurviveAudit, Idle
<1>3. QED BY <1>1, <1>2 DEF AccountInv

\* The four steps of the audit.
LEMMA AuditInv ==
  ASSUME AccountInv, Audit
  PROVE  AccountInv'
BY AuditBeginInv, AuditLookInv, LiquidateInv, AuditEndInv DEF Audit

\* The invariant is inductive.
THEOREM AccountInvariant == Spec => []AccountInv
<1>1. Init => AccountInv
  BY AccountInit
<1>2. AccountInv /\ [Next]_accVars => AccountInv'
  <2> SUFFICES ASSUME AccountInv, [Next]_accVars PROVE AccountInv'
    OBVIOUS
  <2>1. CASE \E c \in Callers : Request(c)
    BY <2>1, CheckInv, ApplyInv, AccountStepInv DEF Request
  <2>2. CASE TimerFires
    BY <2>2, TimerInv
  <2>3. CASE Audit
    BY <2>3, AuditInv
  <2>4. CASE Environment
    <3>1. CASE \E c \in Callers, t \in Tasks : \E req \in Requests[c], n \in Names :
                 Ioctl(c, t, req, n)
      BY <3>1, IoctlInv
    <3>2. CASE \E t \in Tasks : Exit(t) \/ Free(t) \/ Fork(t)
      BY <3>2, ExitInv, FreeInv, ForkInv
    <3>3. CASE \/ \E t \in Tasks : Inherit(t) \/ TagsEnd(t)
               \/ \E t \in Tasks, s \in {"fg", "bg"} : MoveCss(t, s)
               \/ CancelElsewhere
      BY <3>3, TagsMoveInv
    <3>4. QED BY <2>4, <3>1, <3>2, <3>3 DEF Environment
  <2>5. CASE UNCHANGED accVars
    <3>1. /\ UNCHANGED <<life, pid, css, ux, book, backup, audit, owed>>
          /\ caller' = caller /\ timer' = timer /\ work' = work
      BY <2>5 DEF accVars
    <3>2. TypeOK' /\ AuditOK' /\ FreedOwesNothing' /\ RecordsSurviveAudit'
      BY <3>1, ListsUntouched DEF AccountInv, TypeOK
    <3>3. CallersOK'
      BY <3>1 DEF AccountInv, CallersOK
    <3>4. QED BY <3>2, <3>3 DEF AccountInv
  <2>6. QED BY <2>1, <2>2, <2>3, <2>4, <2>5 DEF Next
<1>3. QED BY <1>1, <1>2, PTL DEF Spec

\* The account's lists hold records of its tasks, never more than there is
\* memory for, however requests, audits and exits interleave.
THEOREM AccountTypeCorrect == Spec => []TypeOK
<1>1. AccountInv => TypeOK
  BY DEF AccountInv
<1>2. QED BY <1>1, AccountInvariant, PTL

\* The splice at the end of an audit loses no record: while a live task's
\* record is owed, the book or the audit's list has it.
THEOREM RecordsAreKept == Spec => []RecordsSurviveAudit
<1>1. AccountInv => RecordsSurviveAudit
  BY DEF AccountInv
<1>2. QED BY <1>1, AccountInvariant, PTL

\* liquidate_debtor cleans the task the record was made for, never one that
\* was given its struct since.
THEOREM DebtorIsTheRecordedTask == Spec => AuditHitsItsDebtor
<1>1. AccountInv /\ [Next]_accVars =>
        [audit.pc = "liquidate" /\ Liquidate =>
           LET r == backup[audit.i] IN pid[r.task] = r.pid]_accVars
  BY DEF AccountInv, AuditOK
<1>2. QED BY <1>1, AccountInvariant, PTL DEF Spec, AuditHitsItsDebtor

=============================================================================

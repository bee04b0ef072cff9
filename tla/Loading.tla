------------------------------- MODULE Loading -------------------------------
(***************************************************************************)
(* The load of one task (trans_loading.c): a geometric average of the time *)
(* the task was queued or running, and an estimate that follows it up at   *)
(* once and down slowly.  The scheduler's hooks update it from the run     *)
(* queue's clock and the time stamps of sched_info and of the hooks before *)
(* them.  Run queues share one clock, and every hook runs after            *)
(* update_rq_clock, so the clock does not go back when the task moves.     *)
(*                                                                         *)
(* Times are in microseconds as ns_to_us counts them (1024 ns); a duration *)
(* below one is 0.  HALF_LIFE is 32.                                       *)
(***************************************************************************)
EXTENDS Integers, Sequences

CONSTANTS
  Spans,        \* how far the clock may move in a step
  MaxSteps,     \* bound: steps of the clock
  Uptime        \* clock when the task is created

ASSUME SpansAssumption == Spans \subseteq Nat /\ MaxSteps \in Nat
ASSUME UptimeAssumption == Uptime \in Nat \ {0}

VARIABLES
  cpu,       \* the task's CPU: rq->clock, and whether it has half the capacity
  at,        \* "cpu", "queue" (on_rq, not on_cpu) or "off"
  state,     \* "R" (TASK_RUNNING) or "S" (it is about to sleep or asleep)
  info,      \* sched_info: pcount > 0, last_arrival, last_queued
  ld,        \* trans_task_struct.ld
  steps,
  caught     \* the task was preempted or put back on its run queue on its way to
             \* sleep, and has not woken up with a load on the scale since

vars == <<cpu, at, state, info, ld, steps, caught>>

LOAD_AVG_PERIOD     == 32
LOAD_AVG_MAX        == 47742
LOADTRACK_PERIOD_US == 1024
UPDATE_GRAN_US      == 10
LOAD_EST_MARGIN     == 10

\* snap relates snap_pcount to pcount: never set, the same, or older; waited is
\* run_delay - snap_run_delay.
NewLoad == [enqueue |-> 0, snap |-> "unset", waited |-> 0, lastRunning |-> 0,
            lastUpdate |-> 0, contrib |-> 0, sum |-> 0, avg |-> 0, lastAvg |-> 0, est |-> 1024]

\* A forked task on its first run queue.
Init ==
  /\ cpu \in [clock : {Uptime}, slow : BOOLEAN]
  /\ at = "queue" /\ state = "R"
  /\ info = [ran |-> FALSE, arrival |-> 0, queued |-> Uptime]
  /\ ld = NewLoad /\ steps = 0 /\ caught = FALSE

----------------------------------------------------------------------------
(* The arithmetic.                                                         *)

\* load_yN_inv, its upper and lower halves.
InvHigh == <<
    65535, 64131, 62757, 61412, 60096, 58809, 57548, 56315, 55108, 53928,
    52772, 51641, 50535, 49452, 48392, 47355, 46340, 45347, 44376, 43425,
    42494, 41584, 40693, 39821, 38967, 38132, 37315, 36516, 35733, 34968,
    34218, 33485 >>
InvLow == <<
    65535, 45786, 32020, 47514, 50918, 1766, 57067, 46998, 64713, 7569,
    35860, 48517, 10768, 19657, 41886, 44870, 62259, 62849, 16105, 23220,
    54953, 17154, 12895, 14777, 61520, 61352, 54131, 14730, 49635, 3712,
    50023, 34456 >>

\* mul_u64_u32_shr(val, load_yN_inv[n], 32) for val < 2^16: the partial products
\* stay below 2^25.
High(x, y) == (x * (y \div 256) + (x * (y % 256)) \div 256) \div 256
MulShift(val, n) ==
  LET low == (val % 256) * InvHigh[n + 1] + ((val \div 256) * InvHigh[n + 1] % 256) * 256
      upper == ((val \div 256) * InvHigh[n + 1]) \div 256
  IN  upper + (low + High(val, InvLow[n + 1])) \div 65536

\* decay_load: a value below 2^16 is gone after 16 halvings (in the code the cut is
\* at 63, for values of 64 bits).
Halvings == <<1, 2, 4, 8, 16, 32, 64, 128, 256, 512, 1024, 2048, 4096, 8192, 16384, 32768>>
Decay(val, n) ==
  IF n >= LOAD_AVG_PERIOD * 16 THEN 0
  ELSE MulShift(val \div Halvings[n \div LOAD_AVG_PERIOD + 1], n % LOAD_AVG_PERIOD)

\* time_scale.
TimeScale(t, on) == IF on.slow THEN t \div 2 ELSE t

\* trans_scale_load.
ScaleLoad(sum, contrib) ==
  (sum * 1024) \div (LOAD_AVG_MAX - LOADTRACK_PERIOD_US + contrib)

----------------------------------------------------------------------------
(* get_task_time, by scene of the hook's caller.                           *)

\* A time stamp ahead of the clock wraps: some huge value.
Wrapped == 4194304
Since(now, t) == IF now < t THEN Wrapped ELSE now - t

\* running + runnable, where what the task waited is taken off only if it fits.
Total(base, waited) == IF base >= waited THEN base ELSE base + waited

get_task_time(scene, l, i, now) ==
  LET sinceArrival == Since(now, i.arrival)
      sinceEnqueue == Since(now, l.enqueue)
  IN  CASE scene = "running" ->
             Total(IF l.enqueue # 0 /\ l.enqueue <= i.arrival
                   THEN sinceEnqueue ELSE sinceArrival, l.waited)
        [] scene = "runnable" /\ l.snap = "same" -> sinceEnqueue
        [] scene = "runnable" /\ l.snap # "same" /\ i.queued # 0 ->
             Total(sinceEnqueue, Since(now, i.queued) + l.waited)
        [] scene \in {"switching", "migrating"} ->
             Total(IF l.enqueue # 0 THEN sinceEnqueue ELSE sinceArrival, l.waited)
        [] scene = "waking" /\ l.enqueue # 0 -> sinceEnqueue
        [] OTHER -> 0

----------------------------------------------------------------------------
(* update_task_loading and what it calls.                                  *)

\* Steps 2 to 4 of accumulate_loading: the load of the n periods that ended, for a
\* task that was active all the time.
\* Mutant: the rest of the first period counted as a whole one.
EarnedWhole(contrib, n, rest) ==
  Decay(LOADTRACK_PERIOD_US, n)
  + LOAD_AVG_MAX - Decay(LOAD_AVG_MAX, n) - LOADTRACK_PERIOD_US + rest
Earned(contrib, n, rest) ==
  Decay(LOADTRACK_PERIOD_US - contrib, n)
  + LOAD_AVG_MAX - Decay(LOAD_AVG_MAX, n) - LOADTRACK_PERIOD_US + rest

\* No contribution: the load only decays. tiny stands for the 1 ns that
\* update_task_loading puts in place of none, which a slow CPU scales to 0.
\* Mutant: the test is gone.
NeverIdle(c, tiny, on) == FALSE
Idle(c, tiny, on) == (c = 0 /\ ~tiny) \/ (tiny /\ on.slow)

\* accumulate_loading, for c microseconds of contribution.
Accumulate(l, c, tiny, on) ==
  LET scaled == TimeScale(c, on)
      idle   == Idle(c, tiny, on)
      delta  == TimeScale(on.clock - l.lastUpdate, on) + l.contrib
      n      == delta \div LOADTRACK_PERIOD_US
      rest   == delta % LOADTRACK_PERIOD_US
      load   == IF n = 0 THEN l.sum + scaled
                ELSE Decay(l.sum, n) + (IF idle THEN 0 ELSE Earned(l.contrib, n, rest))
      sum    == IF load > LOAD_AVG_MAX THEN LOAD_AVG_MAX ELSE load
  IN  IF (c > 0 \/ (tiny /\ ~on.slow)) /\ scaled = 0 THEN l
      ELSE [l EXCEPT !.lastUpdate = on.clock, !.contrib = rest, !.sum = sum,
                     !.avg = IF n = 0 THEN @ ELSE ScaleLoad(sum, rest)]

\* within_margin.
WithinMargin(d) == -LOAD_EST_MARGIN < d /\ d < LOAD_EST_MARGIN

UpdateEst(l) ==
  IF l.est < l.avg THEN [l EXCEPT !.est = l.avg]
  ELSE IF WithinMargin(l.lastAvg - l.avg) THEN l
  ELSE [l EXCEPT !.lastAvg = l.avg, !.est = (4 * @ + l.avg - @) \div 4]

\* The sum of a task that was active all the time, and averages and an estimate of
\* the whole scale, are the most there should be.
OnScale(l) ==
  /\ l.sum <= LOAD_AVG_MAX - LOADTRACK_PERIOD_US + l.contrib
  /\ l.avg <= 1024 /\ l.lastAvg <= 1024
  /\ 0 <= l.est /\ l.est <= 1024

Record(l, t) == [l EXCEPT !.enqueue = t, !.snap = "same", !.waited = 0]

\* The task is leaving the run queue to sleep.
Leaves(path, st) == path = "dequeue" /\ st # "R"

Charge(l, scene, path, st, i, on) ==
  LET total == get_task_time(scene, l, i, on.clock)
      c     == IF total > l.lastRunning THEN total - l.lastRunning ELSE 0
      after == Accumulate([l EXCEPT !.lastRunning = total], c, total # 0 /\ c = 0, on)
  IN  IF Leaves(path, st) THEN UpdateEst(after) ELSE after

\* The whole hook. A wake-up is an enqueue in the "waking" scene.
update_task_loading(l, scene, path, st, i, on) ==
  LET now     == on.clock
      opened  == IF path = "enqueue" /\ scene = "waking" THEN Record(l, now) ELSE l
      charged == IF opened.snap = "unset" THEN opened
                 ELSE IF opened.lastUpdate = 0 THEN [opened EXCEPT !.lastUpdate = now]
                 ELSE IF now - opened.lastUpdate < UPDATE_GRAN_US THEN opened
                 ELSE Charge(opened, scene, path, st, i, on)
  IN  IF ~i.ran THEN l
      ELSE IF Leaves(path, st) THEN Record(charged, 0) ELSE charged

----------------------------------------------------------------------------
(* The life of the task.                                                   *)

Waits(l, d) == IF l.snap = "unset" THEN l ELSE [l EXCEPT !.waited = @ + d]

\* sched_info_dequeue: the wait on the queue ends.
WaitOver(l, i, now) == IF i.queued = 0 THEN l ELSE Waits(l, now - i.queued)

Elapse ==
  /\ steps < MaxSteps
  /\ \E d \in Spans : cpu' = [cpu EXCEPT !.clock = @ + d]
  /\ steps' = steps + 1
  /\ UNCHANGED <<at, state, info, ld, caught>>

\* The scene get_task_time finds for a task that is on the run queue.
Scene == IF state = "S" THEN "switching"
         ELSE IF at = "cpu" THEN "running" ELSE "runnable"

\* trans_sched_stat_runtime and the tick, on the running task.
Tick ==
  /\ at = "cpu"
  /\ ld' = update_task_loading(ld, Scene, "update", state, info, cpu)
  /\ UNCHANGED <<cpu, at, state, info, steps, caught>>

\* sched_info_arrive.
SwitchIn ==
  /\ at = "queue"
  /\ at' = "cpu"
  /\ LET waited == WaitOver(ld, info, cpu.clock)
     IN  ld' = IF waited.snap = "same" THEN [waited EXCEPT !.snap = "older"] ELSE waited
  /\ info' = IF info.queued = 0 THEN info
             ELSE [ran |-> TRUE, arrival |-> cpu.clock, queued |-> 0]
  /\ UNCHANGED <<cpu, state, steps, caught>>

\* trans_sched_switch on prev, still on its CPU; then sched_info_depart.
Preempt ==
  /\ at = "cpu"
  /\ at' = "queue"
  /\ ld' = update_task_loading(ld, Scene, "switch", state, info, cpu)
  /\ info' = IF state = "R" THEN [info EXCEPT !.queued = cpu.clock] ELSE info
  /\ caught' = (caught \/ state = "S")
  /\ UNCHANGED <<cpu, state, steps>>

\* set_current_state, and a wake-up that finds the task still on its run queue.
SetState ==
  /\ at = "cpu" \/ (at = "queue" /\ state = "S")
  /\ state' = IF state = "R" THEN "S" ELSE "R"
  /\ UNCHANGED <<cpu, at, info, ld, steps, caught>>

\* The dequeue hook, then update_curr and the switch hook at the same clock.
Sleep ==
  /\ at = "cpu" /\ state = "S"
  /\ at' = "off"
  /\ LET left == update_task_loading(ld, "switching", "dequeue", state, info, cpu)
     IN  ld' = update_task_loading(left, "switching", "switch", state, info, cpu)
  /\ UNCHANGED <<cpu, state, info, steps, caught>>

\* A wake-up, on any CPU.
Wake ==
  /\ at = "off"
  /\ at' = "queue" /\ state' = "R"
  /\ cpu' \in [clock : {cpu.clock}, slow : BOOLEAN]
  /\ info' = [info EXCEPT !.queued = cpu.clock]
  /\ ld' = update_task_loading(ld, "waking", "enqueue", "W", info', cpu')
  /\ caught' = (caught /\ ~OnScale(ld'))
  /\ UNCHANGED steps

\* The balancer moves a queued task to another CPU.
Migrate ==
  /\ at = "queue"
  /\ LET scene == IF state = "R" THEN "migrating" ELSE "switching"
         left  == [info EXCEPT !.queued = 0]
     IN    /\ cpu' \in [clock : {cpu.clock}, slow : BOOLEAN]
           /\ info' = [info EXCEPT !.queued = cpu'.clock]
           /\ LET out == update_task_loading(WaitOver(ld, info, cpu.clock), scene, "dequeue",
                                             state, left, cpu)
              IN  ld' = update_task_loading(out, scene, "enqueue", state, info', cpu')
  /\ UNCHANGED <<at, state, steps, caught>>

\* A class, nice or affinity change takes a queued or running task off and puts it
\* back, on_rq unchanged and without sched_info (DEQUEUE_SAVE, ENQUEUE_RESTORE);
\* update_curr of a running one comes in between.  One in state "S" is taken for one
\* that sleeps.
Requeue ==
  /\ at \in {"cpu", "queue"}
  /\ LET out == update_task_loading(ld, Scene, "dequeue", state, info, cpu)
         cur == IF at = "cpu" THEN update_task_loading(out, Scene, "update", state, info, cpu)
                ELSE out
     IN  ld' = update_task_loading(cur, Scene, "enqueue", state, info, cpu)
  /\ caught' = (caught \/ state = "S")
  /\ UNCHANGED <<cpu, at, state, info, steps>>

Next == Elapse \/ Tick \/ SwitchIn \/ Preempt \/ SetState \/ Sleep \/ Wake \/ Migrate
        \/ Requeue

Spec == Init /\ [][Next]_vars

----------------------------------------------------------------------------
(* Properties.                                                             *)

\* The load is on the scale trans_scale_load promises: every time stamp a charge is
\* computed from must fit the others.  Not so for a task that was preempted or put
\* back on its queue on its way to sleep, until it has slept it off.
LoadOnScale == caught \/ OnScale(ld)

\* Time asleep is not load: a wake-up never raises the sum.
SleepDecays == [][at = "off" => ld'.sum <= ld.sum]_vars

=============================================================================

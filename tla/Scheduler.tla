------------------------------ MODULE Scheduler ------------------------------
(***************************************************************************)
(* The run queue and the scheduler of kernel/schedule.c, the creation of   *)
(* kernel threads of kernel/task.c, and the two interrupt paths that drive *)
(* them: the tick of drivers/timer.c and any other interrupt.  Each ends   *)
(* in the unconditional call of schedule() at the end of do_irq.           *)
(*                                                                         *)
(* There is one CPU.  Interrupts stay masked from the IRQ vector to the    *)
(* return from do_irq (sti() and cli() are empty macros), so an interrupt  *)
(* is one step.  The run queue, a circular list threaded through           *)
(* task_struct.list, is the sequence of the tasks that follow its head.    *)
(***************************************************************************)
EXTENDS Integers, FiniteSets, SequencesExt

CONSTANTS Thread,     \* the kernel threads kernel_thread may create
          initTask,   \* the statically allocated task 0, INIT_TASK
          Priority,   \* task_struct.priority of every task
          MaxTicks    \* bound on the number of ticks explored

Task == Thread \cup {initTask}

ASSUME SchedAssumption ==
    /\ initTask \notin Thread
    /\ Priority \in [Task -> Nat]
    /\ MaxTicks \in Nat

VARIABLES queue,    \* task_schedule[0].task_queue: the tasks after its head
          count,    \* task_schedule[0].running_task_count
          exec,     \* task_schedule[0].CPU_exec_task_jiffies
          current,  \* the task that has the CPU
          state,    \* task_struct.state, "NONE" before the task is created
          vrun,     \* task_struct.vrun_time
          irqOn,    \* enable_irq() has run: main() has booted
          ticks

schedVars == <<queue, count, exec, current, state, vrun, irqOn, ticks>>

TaskState == {"NONE", "RUNNING", "UNINTERRUPTIBLE"}

-----------------------------------------------------------------------------
\* Mutant: insertion behind every queued task, whatever their run times.
MutInsertionPoint(t, q, vr) == Len(q) + 1

\* insert_task_queue goes before the first queued task that has run at least
\* as long, and before the list head (vrun_time 0x7fffffff) if there is none.
InsertionPoint(t, q, vr) ==
    CHOOSE i \in 1..(Len(q) + 1) :
        /\ i <= Len(q) => vr[q[i]] >= vr[t]
        /\ \A j \in 1..(i - 1) : vr[q[j]] < vr[t]

\* Mutant: task 0 is counted like any other task.
MutCounted(t) == 1

\* Task 0 is never queued and never counted.
Insert(t, q, vr) ==
    IF t = initTask THEN q ELSE InsertAt(q, InsertionPoint(t, q, vr), t)

Counted(t) == IF t = initTask THEN 0 ELSE 1

\* Mutant: list_del is forgotten.
MutRest(q) == q

\* get_next_task: the head of the queue, or task 0 when the queue is empty.
NextTask(q) == IF q = <<>> THEN initTask ELSE Head(q)
Rest(q)     == IF q = <<>> THEN <<>> ELSE Tail(q)

\* Mutant: the slice is divided before the next task is discounted.
MutSlice(t, n) == IF Priority[t] \in {0, 1} THEN 4 \div (n + 1) ELSE (4 \div (n + 1)) * 3

\* The time slice schedule() grants when the previous one is used up.
Slice(t, n) == IF Priority[t] \in {0, 1} THEN 4 \div n ELSE (4 \div n) * 3

\* schedule(), entered with virtual run times vr and remaining slice ex.  The
\* least-run queued task is taken out.  It gets the CPU when the current task
\* has run at least as long, and the current task is queued if it can still
\* run; otherwise the current task goes on and the other is put back.
Schedule(vr, ex) ==
    LET next   == NextTask(queue)
        n      == IF queue = <<>> THEN count ELSE count - 1
        switch == vr[current] >= vr[next]
        put    == IF switch THEN current ELSE next
        queued == switch => state[current] = "RUNNING"
    IN  /\ exec'    = IF ex = 0 THEN Slice(next, n) ELSE ex
        /\ queue'   = IF queued THEN Insert(put, Rest(queue), vr) ELSE Rest(queue)
        /\ count'   = IF queued THEN n + Counted(put) ELSE n
        /\ current' = IF switch THEN next ELSE current

\* What one tick charges to the running task and to its slice.
Charge(t) == IF Priority[t] \in {0, 1} THEN 1 ELSE 2

-----------------------------------------------------------------------------
Init ==
    /\ queue = <<>>
    /\ count = 1
    /\ exec = 4
    /\ current = initTask
    /\ state = [t \in Task |-> IF t = initTask THEN "UNINTERRUPTIBLE" ELSE "NONE"]
    /\ vrun = [t \in Task |-> 0]
    /\ irqOn = FALSE
    /\ ticks = 0

\* kernel_thread -> do_fork, called by task 0 from task_init while interrupts
\* are still masked.
Fork(t) ==
    /\ ~irqOn
    /\ state[t] = "NONE"
    /\ state' = [state EXCEPT ![t] = "RUNNING"]
    /\ vrun' = [vrun EXCEPT ![t] = 0]
    /\ queue' = Insert(t, queue, vrun')
    /\ count' = count + Counted(t)
    /\ UNCHANGED <<exec, current, irqOn, ticks>>

\* The end of task_init, then enable_irq() in main().
EnableIrq ==
    /\ ~irqOn
    /\ irqOn' = TRUE
    /\ state' = [state EXCEPT ![initTask] = "RUNNING"]
    /\ UNCHANGED <<queue, count, exec, current, vrun, ticks>>

\* The timer interrupt: tick_irq_hander, then schedule() from do_irq.
Tick ==
    /\ irqOn
    /\ ticks < MaxTicks
    /\ ticks' = ticks + 1
    /\ vrun' = [vrun EXCEPT ![current] = @ + Charge(current)]
    /\ Schedule(vrun', exec - Charge(current))
    /\ UNCHANGED <<state, irqOn>>

\* Any other interrupt: its handler leaves the scheduler's state alone, but
\* do_irq calls schedule() all the same.
OtherIrq ==
    /\ irqOn
    /\ Schedule(vrun, exec)
    /\ UNCHANGED <<state, vrun, irqOn, ticks>>

Next == (\E t \in Thread : Fork(t)) \/ EnableIrq \/ Tick \/ OtherIrq

Spec == Init /\ [][Next]_schedVars

-----------------------------------------------------------------------------
\* The types of struct schedule and of the scheduler's part of task_struct.
TypeOK ==
    /\ queue \in Seq(Thread)
    /\ count \in Int
    /\ exec \in Int
    /\ current \in Task
    /\ state \in [Task -> TaskState]
    /\ vrun \in [Task -> Nat]
    /\ irqOn \in BOOLEAN
    /\ ticks \in Nat

\* running_task_count is one more than the tasks queued.  schedule() divides
\* by it while a task is out of the queue, so a lower value divides by zero.
CountMatchesQueue == count = 1 + Len(queue)

\* q is in order of the run times vr.
Ordered(q, vr) == \A i, j \in DOMAIN q : i < j => vr[q[i]] <= vr[q[j]]

\* insert_task_queue keeps the run queue in order of virtual run time, which
\* get_next_task relies on when it takes the head.
QueueSorted == Ordered(queue, vrun)

\* No switch, re-insertion or fork loses a thread or links its only list node
\* in twice: a thread that can run is in the queue, once, or has the CPU, and
\* never both.
EachRunnableOnce ==
    /\ IsInjective(queue)
    /\ current \notin Range(queue)
    /\ \A t \in Thread : state[t] = "RUNNING" <=> t \in Range(queue) \cup {current}

\* The scheduler is fair in virtual run time: no runnable thread is ever more
\* than one tick's charge ahead of another one.
FairShare ==
    \A t, u \in Range(queue) \cup ({current} \ {initTask}) : vrun[t] <= vrun[u] + 2

\* Every interrupt leaves the CPU with a least-run task: schedule() is never
\* left with a queued task that has run less than the one it chose.
LeastRunFirst ==
    [][irqOn => \A t \in Range(queue') : vrun'[current'] <= vrun'[t]]_schedVars

\* Task 0, which runs the command shell, is the idle task: it takes the CPU
\* from a thread only when no other thread is waiting for it.
InitOnlyWhenIdle ==
    [][current' = initTask /\ current # initTask => queue = <<>>]_schedVars

\* With the priority 2 that do_fork gives every task, and at most three
\* threads, the slice is used up exactly: it never passes below zero, where
\* the test for zero in schedule() would never grant another one.
SliceUsedUpExactly ==
    Cardinality(Thread) <= 3 /\ (\A t \in Task : Priority[t] = 2) => exec >= 0
=============================================================================

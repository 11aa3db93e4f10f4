-------------------------------- MODULE Clock --------------------------------
(***************************************************************************)
(* The clock of drivers/timer.c: get_system_time_us adds the ticks counted *)
(* in jiffies to what timer 4 has counted down since the last one, and     *)
(* ir_event_get_timeout waits on it.  Timer 4, a hardware counter, reloads *)
(* itself and raises the tick, which is handled some time later.           *)
(*                                                                         *)
(* A read is two loads, jiffies and TCNTO4, in the order the compiler      *)
(* likes.  An interrupt handler that reads the clock, irda_irq, keeps the  *)
(* tick waiting; a program may be interrupted, and lose the CPU, between   *)
(* the loads.  jiffies has 64 bits and does not wrap; the differences of   *)
(* times are unsigned: a negative one is beyond every time-out.            *)
(***************************************************************************)
EXTENDS Integers

CONSTANTS Period,     \* delta_time: 50000 in the code
          WaitTimes,  \* time-outs
          MaxTime     \* bound on the time explored

ASSUME ClockAssumption ==
  /\ Period \in Nat \ {0} /\ WaitTimes \subseteq Nat /\ MaxTime \in Nat

VARIABLES now,       \* the true time
          TCNTO4,    \* counts down from Period
          tickPending, jiffies,
          clockpc,   \* the waiter: idle, or before a load
          inHandler, \* the read is of an interrupt handler
          loaded,    \* what it has loaded first, and when
          waiting,   \* its time-out and start, and the true time of the start
          timeRead,  \* what the last read returned, and when it began
          ticked     \* history: a tick has been pending since the wait began

clockVars == <<now, TCNTO4, tickPending, jiffies, clockpc, inHandler, loaded, waiting,
               timeRead, ticked>>

-----------------------------------------------------------------------------
NothingLoaded == [what |-> "jiffies", value |-> 0, at |-> 0]
NoWait        == [timeout |-> 0, start |-> 0, since |-> 0]
NothingRead   == [value |-> 0, at |-> 0]

ClockInit ==
  /\ now = 0 /\ TCNTO4 = Period
  /\ tickPending = FALSE /\ jiffies = 0
  /\ clockpc = "idle" /\ inHandler = FALSE
  /\ loaded = NothingLoaded /\ waiting = NoWait /\ timeRead = NothingRead
  /\ ticked = FALSE

\* Timer 4.  The assumption: the tick is handled before the next one.
CountDown ==
  /\ now < MaxTime
  /\ TCNTO4 = 1 => ~tickPending
  /\ now' = now + 1
  /\ TCNTO4' = IF TCNTO4 = 1 THEN Period ELSE TCNTO4 - 1
  /\ tickPending' = (tickPending \/ TCNTO4 = 1)
  /\ ticked' = (ticked \/ tickPending')
  /\ UNCHANGED <<jiffies, clockpc, inHandler, loaded, waiting, timeRead>>

tick_irq_hander ==
  /\ tickPending /\ ~inHandler
  /\ tickPending' = FALSE
  /\ jiffies' = jiffies + 1
  /\ UNCHANGED <<now, TCNTO4, clockpc, inHandler, loaded, waiting, timeRead, ticked>>

\* Mutant: the counter is taken to count up.
MutMicroseconds(j, counter) == Period * j + counter

\* get_system_time_us of the two values it has loaded
Microseconds(j, counter) == Period * j + (Period - counter)

\* A wait begins: in a handler, only its first read.
ir_event_get_timeout ==
  /\ clockpc = "idle"
  /\ clockpc' = "start"
  /\ inHandler' \in BOOLEAN
  /\ \E t \in WaitTimes : waiting' = [timeout |-> t, start |-> 0, since |-> now]
  /\ ticked' = tickPending
  /\ UNCHANGED <<now, TCNTO4, tickPending, jiffies, loaded, timeRead>>

FirstLoad ==
  /\ clockpc \in {"start", "test"}
  /\ clockpc' = IF clockpc = "start" THEN "starting" ELSE "testing"
  /\ \/ loaded' = [what |-> "jiffies", value |-> jiffies, at |-> now]
     \/ loaded' = [what |-> "TCNTO4", value |-> TCNTO4, at |-> now]
  /\ UNCHANGED <<now, TCNTO4, tickPending, jiffies, inHandler, waiting, timeRead, ticked>>

\* Mutant: a wait ends one microsecond early.
MutTimedOut(time, w) == time - w.start >= w.timeout - 1

\* The unsigned difference has reached the time-out.
TimedOut(time, w) == time < w.start \/ time - w.start >= w.timeout

SecondLoad ==
  /\ clockpc \in {"starting", "testing"}
  /\ LET time == IF loaded.what = "jiffies" THEN Microseconds(loaded.value, TCNTO4)
                                            ELSE Microseconds(jiffies, loaded.value)
     IN  /\ timeRead' = [value |-> time, at |-> loaded.at]
         /\ waiting' = IF clockpc = "starting" THEN [waiting EXCEPT !.start = time] ELSE waiting
         /\ clockpc' = IF clockpc = "testing" /\ TimedOut(time, waiting) THEN "over"
                       ELSE IF inHandler THEN "read" ELSE "test"
  /\ inHandler' = FALSE
  /\ loaded' = NothingLoaded
  /\ UNCHANGED <<now, TCNTO4, tickPending, jiffies, ticked>>

\* It returns, with the event that has come or because it has timed out.
WaitReturns ==
  /\ clockpc \in {"read", "test", "over"}
  /\ clockpc' = "idle"
  /\ waiting' = NoWait /\ timeRead' = NothingRead
  /\ UNCHANGED <<now, TCNTO4, tickPending, jiffies, inHandler, loaded, ticked>>

ClockNext == CountDown \/ tick_irq_hander \/ ir_event_get_timeout \/ FirstLoad \/ SecondLoad
             \/ WaitReturns
ClockSpec == ClockInit /\ [][ClockNext]_clockVars

-----------------------------------------------------------------------------
\* The clock is never as much as one period fast, nor two periods slow, however
\* late the tick is and whatever happens between the two loads.
ClockNearTrue ==
  /\ timeRead.value < now + Period
  /\ timeRead.value > timeRead.at - 2 * Period

\* A wait gives up early only when a tick was due in the meantime: the clock may
\* then go back, and an unsigned difference is beyond every time-out.
EarlyOnlyAtTick ==
  clockpc = "over" => \/ ticked
                      \/ now - waiting.since >= waiting.timeout
=============================================================================

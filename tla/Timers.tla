-------------------------------- MODULE Timers --------------------------------
(***************************************************************************)
(* Kernel timers: the timer list of kernel/timer.c at the level of its     *)
(* pointers (struct List of include/lib.h), the timer half of the tick     *)
(* interrupt of drivers/timer.c, and the soft interrupt of                 *)
(* kernel/softirq.c that runs the expired timers.                          *)
(*                                                                         *)
(* The kernel calls these functions with interrupts masked: from handlers, *)
(* and from main() before enable_irq().  So a call is one step.  The tick, *)
(* which does not return before do_softirq is done, is a step that raises  *)
(* TIMER_SIRQ and then one step per turn of the loop of do_timer, during   *)
(* which nothing else happens.  The clients here keep to the protocol the  *)
(* list needs; module TouchScreen has one that does not.                   *)
(***************************************************************************)
EXTENDS Integers, FiniteSets

CONSTANTS Timer,      \* the struct timer_list objects of the clients
          head,       \* timer_list_head, whose expire_jiffies is -1UL
          Delays,     \* the delays, in ticks, that clients pass to init_timer
          MaxJiffies  \* bound on the number of ticks explored

Node == Timer \cup {head}

ASSUME TimersAssumption ==
    /\ IsFiniteSet(Timer) /\ head \notin Timer
    /\ Delays \subseteq Nat
    /\ MaxJiffies \in Nat

VARIABLES next, prev, \* struct List of every node
          expire,     \* expire_jiffies of every timer
          jiffies,
          softirq,    \* bit TIMER_SIRQ of softirq_status: do_timer is running
          linked,     \* history: added, and neither deleted nor fired since
          fired       \* history: its function was called since it was added

timerVars == <<next, prev, expire, jiffies, softirq, linked, fired>>

-----------------------------------------------------------------------------
\* include/lib.h.  list_del leaves the pointers of the entry as they were.
ListInit(n) ==
    /\ next' = [next EXCEPT ![n] = n]
    /\ prev' = [prev EXCEPT ![n] = n]

ListAddToBehind(entry, new) ==
    /\ next' = [next EXCEPT ![new] = next[entry], ![entry] = new]
    /\ prev' = [prev EXCEPT ![new] = entry, ![next[entry]] = new]

\* Mutant: the successor keeps its pointer to the deleted entry.
MutListDel(n) ==
    /\ next' = [next EXCEPT ![prev[n]] = next[n]]
    /\ UNCHANGED prev

ListDel(n) ==
    /\ next' = [next EXCEPT ![prev[n]] = next[n]]
    /\ prev' = [prev EXCEPT ![next[n]] = prev[n]]

ListIsEmpty == next[head] = head /\ prev[head] = head

\* The nodes the next pointers lead to from the head, in order.
Chain[k \in Nat] == IF k = 0 THEN next[head] ELSE next[Chain[k - 1]]

\* The list goes back to its head after its timers.
Closed == \E k \in 0..Cardinality(Timer) : Chain[k] = head
Listed == {Chain[k] : k \in 0..Cardinality(Timer)} \ {head}

\* add_timer walks to the first node that expires no earlier.  The list head
\* never expires, so the walk ends there at the latest.
AddPoint(t) ==
    LET Stop(n) == n = head \/ expire[n] >= expire[t]
        k == CHOOSE i \in 0..Cardinality(Timer) :
                 Stop(Chain[i]) /\ \A j \in 0..(i - 1) : ~Stop(Chain[j])
    IN  Chain[k]

\* Mutants: a timer counts as due one tick before, or after, its expiry.
MutDueEarly(n, j) == n # head /\ expire[n] <= j + 1
MutDueLate(n, j) == n # head /\ expire[n] < j

\* Whether a node expires at or before tick j; the list head never does.
Due(n, j) == n # head /\ expire[n] <= j

\* When a timer set now with a delay of d expires.
Expiry(d) == jiffies + d

-----------------------------------------------------------------------------
TimersInit ==
    /\ next = [n \in Node |-> n]
    /\ prev = [n \in Node |-> n]
    /\ expire = [t \in Timer |-> 0]
    /\ jiffies = 0
    /\ softirq = FALSE
    /\ linked = {} /\ fired = {}

\* init_timer, of a timer that is not in the list.  The bound: clients set no
\* timer that would expire beyond the ticks explored.
InitTimer(t, d) ==
    /\ ~softirq /\ t \notin linked
    /\ jiffies + d <= MaxJiffies
    /\ ListInit(t)
    /\ expire' = [expire EXCEPT ![t] = Expiry(d)]
    /\ UNCHANGED <<jiffies, softirq, linked, fired>>

\* add_timer, of a timer that is not in the list, before the last tick.
AddTimer(t) ==
    /\ ~softirq /\ t \notin linked
    /\ jiffies < MaxJiffies
    /\ ListAddToBehind(AddPoint(t), t)
    /\ linked' = linked \cup {t} /\ fired' = fired \ {t}
    /\ UNCHANGED <<expire, jiffies, softirq>>

\* del_timer, of a timer in the list or one not added since init_timer.
DelTimer(t) ==
    /\ ~softirq /\ (t \in linked \/ next[t] = t)
    /\ ListDel(t)
    /\ linked' = linked \ {t}
    /\ UNCHANGED <<expire, jiffies, softirq, fired>>

\* tick_irq_hander: count, and raise the soft interrupt if the first is due.
TimerTick ==
    /\ ~softirq /\ jiffies < MaxJiffies
    /\ jiffies' = jiffies + 1
    /\ softirq' = Due(next[head], jiffies')
    /\ UNCHANGED <<next, prev, expire, linked, fired>>

\* One turn of the loop of do_timer: the first timer is due.  It is deleted,
\* then its function is called.
Fire(t) ==
    /\ softirq /\ t = next[head]
    /\ ~ListIsEmpty /\ Due(t, jiffies)
    /\ ListDel(t)
    /\ linked' = linked \ {t} /\ fired' = fired \cup {t}
    /\ UNCHANGED <<expire, jiffies, softirq>>

\* The loop ends; do_softirq clears the bit.
DoTimerEnds ==
    /\ softirq
    /\ ListIsEmpty \/ ~Due(next[head], jiffies)
    /\ softirq' = FALSE
    /\ UNCHANGED <<next, prev, expire, jiffies, linked, fired>>

TimersNext ==
    \/ \E t \in Timer, d \in Delays : InitTimer(t, d)
    \/ \E t \in Timer : AddTimer(t) \/ DelTimer(t) \/ Fire(t)
    \/ TimerTick \/ DoTimerEnds

TimersSpec == TimersInit /\ [][TimersNext]_timerVars

\* The tick interrupt keeps coming, and its handler runs to its end.
TimersFairSpec == TimersSpec /\ WF_timerVars(TimerTick)
                 /\ WF_timerVars(DoTimerEnds \/ \E t \in Timer : Fire(t))

-----------------------------------------------------------------------------
\* Types of the nodes and of the tick's state.
TimersTypeOK ==
    /\ next \in [Node -> Node] /\ prev \in [Node -> Node]
    /\ expire \in [Timer -> Nat]
    /\ jiffies \in Nat
    /\ softirq \in BOOLEAN
    /\ linked \subseteq Timer /\ fired \subseteq Timer

\* However timers are added, deleted and fired, next and prev stay inverse
\* along a list that comes back to its head and holds exactly the timers
\* added and not yet deleted or fired: none is lost, none is left behind.
\* (Every variable also keeps its type.)
ListSound ==
    /\ TimersTypeOK
    /\ Closed
    /\ Listed = linked
    /\ \A n \in linked \cup {head} : prev[next[n]] = n /\ next[prev[n]] = n

\* The list implements the service: a timer fires only when it was added and
\* not deleted, never before its expiry, and once for each time it is added.
Service == INSTANCE TimerService WITH pending <- Listed, now <- jiffies
ImplementsService == Service!Spec

\* When no timer is set to expire beyond some tick, none stays in the list
\* for ever, although add_timer puts later timers in front of earlier ones.
EveryTimerEnds == \A t \in Timer : t \in linked ~> t \notin linked
=============================================================================

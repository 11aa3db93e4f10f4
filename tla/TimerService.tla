----------------------------- MODULE TimerService -----------------------------
(***************************************************************************)
(* What the kernel's timers promise their clients: a timer that was added  *)
(* and not deleted fires once, at some time not before its expiry.  Module *)
(* Timers implements it.  There is no promise that a timer fires as soon   *)
(* as it is due: the list of kernel/timer.c is not in order of expiry, and *)
(* its walk stops at the first timer that is not due.                      *)
(***************************************************************************)
EXTENDS Integers

CONSTANTS Timer, Delays

VARIABLES pending,  \* timers that will fire
          fired,    \* timers that fired since they were last added
          expire,   \* when each timer is due
          now

serviceVars == <<pending, fired, expire, now>>

Init ==
    /\ pending = {} /\ fired = {}
    /\ expire = [t \in Timer |-> 0]
    /\ now = 0

Prepare(t, d) ==
    /\ t \notin pending
    /\ expire' = [expire EXCEPT ![t] = now + d]
    /\ UNCHANGED <<pending, fired, now>>

Add(t) ==
    /\ pending' = pending \cup {t}
    /\ fired' = fired \ {t}
    /\ UNCHANGED <<expire, now>>

Cancel(t) ==
    /\ pending' = pending \ {t}
    /\ UNCHANGED <<fired, expire, now>>

Advance == now' = now + 1 /\ UNCHANGED <<pending, fired, expire>>

Fire(t) ==
    /\ t \in pending
    /\ expire[t] <= now
    /\ pending' = pending \ {t}
    /\ fired' = fired \cup {t}
    /\ UNCHANGED <<expire, now>>

Next ==
    \/ \E t \in Timer : \E d \in Delays : Prepare(t, d)
    \/ \E t \in Timer : Add(t) \/ Cancel(t) \/ Fire(t)
    \/ Advance

Spec == Init /\ [][Next]_serviceVars
=============================================================================

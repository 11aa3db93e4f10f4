------------------------------- MODULE MCTimers -------------------------------
(* Three timers with delays of 0 and 2 ticks. *)
EXTENDS Timers
CONSTANTS a, b, c
MCTimer == {a, b, c}
MCTwoTimers == {a, b}
MCDelays == {0, 2}
=============================================================================

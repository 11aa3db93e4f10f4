---------------------------- MODULE MCTouchScreen ----------------------------
(* One timer, three conversions to a report, and a screen of two coordinates. *)
EXTENDS TouchScreen
MCTimer == {ts}
MCDelays == {Delay}
MCPoint == {0, 1}
=============================================================================

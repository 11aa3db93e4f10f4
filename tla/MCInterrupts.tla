----------------------------- MODULE MCInterrupts -----------------------------
(* Two main lines, one of them one-shot, and two external lines; or one sub    *)
(* line and a main line.                                                       *)
EXTENDS Interrupts
CONSTANTS m1, m2, e1, e2, tc
MCMain == {m1, m2}
MCMainLine == {m1}
MCOneShot == {m2}
MCExt == {e1, e2}
MCSub == {tc}
MCNone == {}
=============================================================================

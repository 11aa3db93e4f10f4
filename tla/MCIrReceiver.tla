---------------------------- MODULE MCIrReceiver -----------------------------
(***************************************************************************)
(* Frames after the one that is missed, of two keys that differ in every   *)
(* bit, and the repeat code.  A ring of three slots wraps many times in a  *)
(* frame, and overflows in the middle of one.                              *)
(***************************************************************************)
EXTENDS IrReceiver

TwoKeys == {<<0, 1, 0, 1>>, <<1, 0, 1, 0>>}
TwoKeysAndRepeat == TwoKeys \cup {<<>>}
=============================================================================

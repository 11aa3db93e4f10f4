------------------------------- MODULE MCUsb --------------------------------
(* A disk of two blocks of two packets. *)
EXTENDS UsbMassStorage

Req(name, wLength) == [name |-> name, wLength |-> wLength]
MCRequests ==
  {Req("device", 18), Req("config", 9), Req("config", 255), Req("string", 8),
   Req("set_address", 0), Req("set_configuration", 0), Req("max_lun", 1),
   Req("unknown_descriptor", 9)}
MCResetRequests == MCRequests \cup {Req("mass_reset", 0)}

Cmd(op, in, blk, n, len) == [op |-> op, in |-> in, blk |-> blk, n |-> n, len |-> len]
MCCommands ==
  {Cmd("Write", FALSE, 0, 1, 2), Cmd("Write", FALSE, 0, 2, 4), Cmd("Read", TRUE, 1, 1, 2),
   Cmd("Read", TRUE, 0, 2, 4), Cmd("Read", TRUE, 0, 1, 0), Cmd("Read", TRUE, 0, 1, 4),
   Cmd("Inquiry", TRUE, 0, 0, 1), Cmd("ModeSense", TRUE, 0, 0, 2),
   Cmd("TestUnitRdy", FALSE, 0, 0, 0), Cmd("ReqSense", TRUE, 0, 0, 1)}

Plan(requests, commands, resets) ==
  [requests |-> requests, commands |-> commands, resets |-> resets]
MCPlans == {Plan(3, 0, 1), Plan(1, 2, 0), Plan(2, 2, 1)}
MCOnce  == {Plan(2, 0, 0)}
=============================================================================

--------------------------- MODULE UsbMassStorage ----------------------------
(***************************************************************************)
(* The board as a USB disk: drivers/usbslave.  IsrUsbd takes one snapshot  *)
(* of the interrupt registers and serves from it a bus reset, endpoint 0   *)
(* (control requests), and then ONE of the endpoints 2 (bulk in) and 3     *)
(* (bulk out).  The host and the USB controller go on between the steps of *)
(* the handler.                                                            *)
(*                                                                         *)
(* A bulk packet is a value of the RAM disk, a command (CBW), a status     *)
(* (CSW) or "info", a packet of an answer out of a table, short or the     *)
(* last of what was asked when last is true; lengths on the bulk endpoints *)
(* are numbers of packets of 64 bytes.  Control replies are their numbers  *)
(* of bytes.  Endpoint 1 is never used, and the driver never stalls an     *)
(* endpoint, so the SENT_STALL branches cannot be taken.                   *)
(*                                                                         *)
(* The host is external: it follows the bulk-only transport, starts no     *)
(* request before the board has handled the early end of the last one, and *)
(* resets the bus only when a command is not answered.                     *)
(***************************************************************************)
EXTENDS Integers, Sequences, FiniteSets

CONSTANTS Requests,      \* control requests: [name, wLength]
          Commands,      \* bulk commands: [op, in, blk, n, len]
          Values,        \* contents of a packet of the disk
          Blocks,        \* MASS_STORAGE_BLOCK_NUM
          BlockPackets,  \* packets in a block
          Plans          \* what the host may do: [requests, commands, resets]

ASSUME UsbAssumption ==
  /\ {Blocks, BlockPackets} \subseteq Nat \ {0}
  /\ Plans \subseteq [requests : Nat, commands : Nat, resets : Nat]
  /\ Commands \subseteq [op : STRING, in : BOOLEAN, blk : Nat, n : Nat, len : Nat]
  /\ Requests \subseteq [name : STRING, wLength : Nat]

VARIABLES pc, pend,        \* where IsrUsbd is, and the epIntpnd it has read
          halted,          \* an assertion failed, or while (1)
          epint, busReset, \* EP_INT_REG and RESET_INT
          out0, in0, setupEnd, dataEnd,  \* endpoint 0 of the controller
          out3, in2,       \* the packets in the bulk endpoints
          usbd_state, ep0State, ub0,
          mass_out_fsm, write_req, g_mass_req, ub2, ramdisk,
          ctl, bulk,       \* the host's control transfer and command; ctl.board
                           \* is the usbd_state in which the request was made
          shadow,          \* what the host has written on the disk
          left             \* the requests, commands and resets to come

isrVars  == <<pc, pend, halted>>
ep0Vars  == <<out0, in0, setupEnd, dataEnd, usbd_state, ep0State, ub0>>
massVars == <<mass_out_fsm, write_req, g_mass_req, ub2, ramdisk>>
hostVars == <<ctl, bulk, shadow, left>>
usbVars  == <<isrVars, epint, busReset, ep0Vars, out3, in2, massVars, hostVars>>

None == [kind |-> "none"]
Least(a, b) == IF a <= b THEN a ELSE b
EP0_PKT_SIZE == 8

-----------------------------------------------------------------------------
(* Endpoint 0 *)

\* Mutant: the length of a configuration descriptor is compared off by one.
MutReply(r) ==
  CASE r.name = "device"    -> 18
    [] r.name = "config"    -> IF r.wLength >= 9 THEN 39 ELSE 9
    [] r.name = "string0"   -> Least(r.wLength, 4)
    [] r.name = "string"    -> Least(r.wLength, 20)
    [] r.name = "interface" -> 9
    [] r.name = "endpoint"  -> 7
    [] r.name = "get_status" -> 2
    [] r.name \in {"get_configuration", "get_interface", "max_lun"} -> 1
    [] OTHER -> 0

\* handle_standard_input and handle_mass_class: the bytes given to usb_buf_init
Reply(r) ==
  CASE r.name = "device"    -> 18
    [] r.name = "config"    -> IF r.wLength > 9 THEN 39 ELSE 9
    [] r.name = "string0"   -> Least(r.wLength, 4)
    [] r.name = "string"    -> Least(r.wLength, 20)
    [] r.name = "interface" -> 9
    [] r.name = "endpoint"  -> 7
    [] r.name = "get_status" -> 2
    [] r.name \in {"get_configuration", "get_interface", "max_lun"} -> 1
    [] OTHER -> 0

\* The requests that end with a status packet only, and those that the code
\* leaves unanswered (vendor requests, left in the FIFO as well, are not inputs)
Outputs    == {"set_address", "set_configuration", "set_interface", "set_descriptor",
               "set_feature", "clear_feature", "unknown_standard"}
Unanswered == {"synch_frame", "unknown_descriptor", "unknown_endpoint"}
\* assert(usbdev.report_desc), and assert(ub && buf && size) of usb_buf_init
Stopping   == {"report", "mass_reset"}

\* usb_buf_ep0_tx: the next packet, and DATA_END with a packet that is not full
Transmit(u) ==
  LET remain == u.size - u.count
      n      == Least(remain, EP0_PKT_SIZE)
  IN  /\ in0' = [of |-> u.of, n |-> n, last |-> n < EP0_PKT_SIZE]
      /\ ub0' = [u EXCEPT !.count = @ + n]
      /\ ep0State' = IF n < EP0_PKT_SIZE THEN "INIT" ELSE "TRANSMIT"

\* handle_standard_output
Output(r) ==
  /\ usbd_state' = CASE r.name = "set_address" -> "ADDRESS"
                     [] r.name = "set_configuration" -> "CONFIGURED"
                     [] OTHER -> usbd_state
  /\ dataEnd' = TRUE
  /\ ep0State' = "INIT"
  /\ UNCHANGED <<in0, ub0, halted>>

\* Before SET_ADDRESS only the first packet of the device descriptor is sent.
FirstDescriptor(r) ==
  /\ in0' = [of |-> r, n |-> EP0_PKT_SIZE, last |-> TRUE]
  /\ UNCHANGED <<dataEnd, usbd_state, ep0State, ub0, halted>>

Input(r) ==
  /\ in0 = None      \* WAIT_EP0_IN_PKT
  /\ Transmit([of |-> r, size |-> Reply(r), count |-> 0])
  /\ UNCHANGED <<dataEnd, usbd_state, halted>>

Request(r) ==
  /\ out0' = None
  /\ UNCHANGED setupEnd
  /\ CASE r.name \in Outputs  -> Output(r)
       [] r.name \in Stopping -> /\ halted' = TRUE
                                 /\ UNCHANGED <<in0, dataEnd, usbd_state, ep0State, ub0>>
       [] r.name \in Unanswered ->
            UNCHANGED <<in0, dataEnd, usbd_state, ep0State, ub0, halted>>
       [] r.name = "device" /\ usbd_state = "DEFAULT" -> FirstDescriptor(r)
       [] OTHER -> Input(r)

\* The host has ended the transfer; its status packet is dropped too.
SetupEnd ==
  /\ setupEnd' = FALSE
  /\ out0' = None
  /\ ep0State' = "INIT"
  /\ UNCHANGED <<in0, dataEnd, usbd_state, ub0, halted>>

NextPacket ==
  /\ in0 = None
  /\ Transmit(ub0)
  /\ UNCHANGED <<out0, setupEnd, dataEnd, usbd_state, halted>>

Ep0Handler ==
  IF setupEnd THEN SetupEnd
  ELSE IF out0 # None THEN Request(out0)
  ELSE IF ep0State = "TRANSMIT" THEN NextPacket
  ELSE UNCHANGED <<ep0Vars, halted>>

-----------------------------------------------------------------------------
(* Bulk endpoints *)

\* Mutant: the buffer passes for empty one packet early.
MutEmpty(u) == u.size - u.count <= 1

\* usb_send_is_empty
Empty(u) == u.size = u.count

\* usb_buf_epx_tx: a packet, read from the disk when it is sent
PacketOf(u, q) ==
  CASE u.src = "disk" -> [kind |-> "data", v |-> ramdisk[u.at + u.count]]
    [] u.src = "csw"  -> [kind |-> "csw", tag |-> q.tag, status |-> q.status]
    [] OTHER          -> [kind |-> "info", last |-> u.count + 1 = u.size]
Send(u, q) ==
  /\ in2 = None                       \* WAIT_EPX_IN_PKT
  /\ in2' = PacketOf(u, q)
  /\ ub2' = [u EXCEPT !.count = @ + 1]

Buffer(src, at, size) == [src |-> src, at |-> at, size |-> size, count |-> 0]
NoRequest == [flg |-> FALSE, tag |-> 0, status |-> 0]

\* handle_mass_bulk_in for the request q
handle_mass_bulk_in(q) ==
  \/ /\ q.flg
     /\ Send(Buffer("csw", 0, 1), q)
     /\ g_mass_req' = NoRequest
  \/ /\ ~q.flg
     /\ g_mass_req' = q
     /\ UNCHANGED <<in2, ub2>>

Ep2Handler ==
  /\ IF Empty(ub2) THEN handle_mass_bulk_in(g_mass_req)
     ELSE Send(ub2, g_mass_req) /\ UNCHANGED g_mass_req
  /\ UNCHANGED <<out3, halted, mass_out_fsm, write_req, ramdisk>>

Remember(q) == g_mass_req' = q /\ UNCHANGED <<in2, ub2>>

\* The commands that are answered from a table.  Three of the tables are one
\* short packet; ModeSense sends as much as the host asks, out of four bytes and
\* what lies behind them.
Replies  == {"Inquiry", "ReadFormatCap", "ReadCap", "ModeSense"}
InfoPackets(c) == IF c.op = "ModeSense" THEN c.len ELSE 1
Statuses == {"TestUnitRdy", "Medium_remove"}
Ignored  == {"ReqSense", "FormatUnit", "Verify"}

\* Read: a wrong length is answered with a status at once; a length of no
\* block is, too, and then usb_buf_init is given no data
ReadBlocks(c, q) ==
  LET size == c.n * BlockPackets
  IN  IF c.len = size /\ size > 0
      THEN Send(Buffer("disk", c.blk * BlockPackets, size), q) /\ g_mass_req' = q
      ELSE handle_mass_bulk_in([q EXCEPT !.status = IF c.len > size THEN 1 ELSE 2])

\* while (1), or usb_buf_init is given no data
Stops(c) ==
  \/ c.op \notin Replies \cup Statuses \cup Ignored \cup {"Read", "Write"}
  \/ c.op = "Read" /\ c.in /\ c.len = 0 /\ c.n = 0
  \/ c.op = "ModeSense" /\ c.in /\ c.len = 0

\* handle_mass_bulk_cmd
Command(c, q) ==
  /\ halted' = Stops(c)
  /\ CASE c.op \in Statuses     -> handle_mass_bulk_in(q)
       [] c.op \in Replies /\ c.in /\ ~Stops(c) ->
            Send(Buffer("info", 0, InfoPackets(c)), q) /\ g_mass_req' = q
       [] c.op = "Read" /\ c.in -> ReadBlocks(c, q)
       [] OTHER                 -> Remember(q)
  /\ IF c.op = "Write" /\ ~c.in
     THEN /\ write_req' = [spread |-> c.len, recvd |-> 0, addr |-> c.blk * BlockPackets]
          /\ mass_out_fsm' = "DATA"
     ELSE UNCHANGED <<write_req, mass_out_fsm>>
  /\ UNCHANGED ramdisk

\* Mutant: every packet goes to the start.
MutPlace(w) == w.addr

\* usb_write_ramdisk's address
Place(w) == w.addr + w.recvd

\* A packet of a Write; the last one is answered with the status.
Data(v) ==
  /\ ramdisk' = [ramdisk EXCEPT ![Place(write_req)] = v]
  /\ IF write_req.spread = 1
     THEN /\ handle_mass_bulk_in(g_mass_req)
          /\ mass_out_fsm' = "CMD"
          /\ write_req' = [spread |-> 0, recvd |-> 0, addr |-> 0]
     ELSE /\ Remember(g_mass_req)
          /\ write_req' = [write_req EXCEPT !.spread = @ - 1, !.recvd = @ + 1]
          /\ UNCHANGED mass_out_fsm
  /\ UNCHANGED halted

-----------------------------------------------------------------------------
(* IsrUsbd *)

\* The snapshot; usbdev_mass_storage_reset leaves the bulk state as it is.
IsrEnter ==
  /\ pc = "idle" /\ ~halted
  /\ epint # {} \/ busReset
  /\ pend' = epint
  /\ pc' = "ep0"
  /\ IF busReset
     THEN /\ epint' = {}
          /\ busReset' = FALSE
          /\ ep0State' = "INIT"
          /\ usbd_state' = "DEFAULT"
          /\ UNCHANGED <<out0, in0, setupEnd, dataEnd, ub0>>
     ELSE UNCHANGED <<epint, busReset, ep0Vars>>
  /\ UNCHANGED <<halted, out3, in2, massVars, hostVars>>

IsrEp0 ==
  /\ pc = "ep0" /\ ~halted
  /\ IF 0 \in pend THEN epint' = epint \ {0} /\ Ep0Handler
     ELSE UNCHANGED <<epint, ep0Vars, halted>>
  /\ pc' = IF pend \cap {2, 3} = {} THEN "idle" ELSE "epx"
  /\ UNCHANGED <<pend, busReset, out3, in2, massVars, hostVars>>

\* Mutant: the interrupts of both endpoints are cleared, and one is served.
MutTurn(p) == p

\* handle_epx_irq: endpoint 2 goes first; endpoint 3 waits for another interrupt.
Turn(p) == IF 2 \in p THEN {2} ELSE {3}

\* handle_mass_bulk_out
Ep3Handler ==
  IF mass_out_fsm = "DATA" THEN Data(out3.v)
  ELSE Command(out3.c, [flg |-> TRUE, tag |-> out3.tag, status |-> 0])

IsrEpx ==
  /\ pc = "epx" /\ ~halted
  /\ epint' = epint \ Turn(pend \cap {2, 3})
  /\ IF 2 \in pend
     THEN pc' = "idle" /\ Ep2Handler
     ELSE pc' = "clear" /\ Ep3Handler /\ UNCHANGED out3
  /\ UNCHANGED <<pend, busReset, ep0Vars, hostVars>>

\* CLR_EPX_OUT_PKT_RDY, after the command or the data
IsrClear ==
  /\ pc = "clear" /\ ~halted
  /\ out3' = None
  /\ pc' = "idle"
  /\ UNCHANGED <<pend, halted, epint, busReset, ep0Vars, in2, massVars, hostVars>>

-----------------------------------------------------------------------------
(* The host and the controller *)

device == <<isrVars, busReset, usbd_state, ep0State, ub0, massVars>>

HostSetup(r) ==
  /\ ctl.stage = "idle" /\ ~busReset
  /\ out0 = None /\ ~setupEnd
  /\ left.requests > 0
  /\ out0' = r
  /\ epint' = epint \cup {0}
  /\ ctl' = [stage |-> "asked", r |-> r, got |-> 0, board |-> usbd_state]
  /\ left' = [left EXCEPT !.requests = @ - 1]
  /\ UNCHANGED <<device, in0, setupEnd, dataEnd, out3, in2, bulk, shadow>>

\* An IN packet; with DATA_END the transfer is over.
HostTake0 ==
  /\ ctl.stage = "asked" /\ in0 # None
  /\ in0' = None
  /\ epint' = epint \cup {0}
  /\ ctl' = [ctl EXCEPT !.got = @ + in0.n,
                        !.stage = IF in0.last THEN "idle"
                                  ELSE IF ctl.got + in0.n >= ctl.r.wLength THEN "early"
                                  ELSE "asked"]
  /\ UNCHANGED <<device, out0, setupEnd, dataEnd, out3, in2, bulk, shadow, left>>

\* The host has all it wants and sends its status packet; the controller
\* flushes the FIFO and sets SETUP_END.
HostEarly ==
  /\ ctl.stage = "early"
  /\ ctl' = [ctl EXCEPT !.stage = "idle"]
  /\ setupEnd' = TRUE
  /\ out0' = [kind |-> "status"]
  /\ in0' = None
  /\ epint' = epint \cup {0}
  /\ UNCHANGED <<device, dataEnd, out3, in2, bulk, shadow, left>>

\* The status stage of a request without data
HostStatus0 ==
  /\ dataEnd
  /\ dataEnd' = FALSE
  /\ ctl' = [ctl EXCEPT !.stage = "idle"]
  /\ epint' = epint \cup {0}
  /\ UNCHANGED <<device, out0, in0, setupEnd, out3, in2, bulk, shadow, left>>

Stage(c) == IF c.len = 0 THEN "status" ELSE IF c.in THEN "in" ELSE "out"

HostCommand(c) ==
  /\ bulk.stage = "idle" /\ out3 = None /\ ~busReset
  /\ usbd_state = "CONFIGURED"
  /\ left.commands > 0
  /\ bulk' = [stage |-> Stage(c), c |-> c, tag |-> 1 - bulk.tag, moved |-> <<>>]
  /\ out3' = [kind |-> "cbw", c |-> c, tag |-> 1 - bulk.tag]
  /\ epint' = epint \cup {3}
  /\ left' = [left EXCEPT !.commands = @ - 1]
  /\ UNCHANGED <<device, ep0Vars, in2, ctl, shadow>>

\* One full packet more
Moved(v) ==
  [bulk EXCEPT !.moved = Append(@, v),
               !.stage = IF Len(bulk.moved) + 1 = bulk.c.len THEN "status" ELSE @]

HostSend(v) ==
  /\ bulk.stage = "out" /\ out3 = None
  /\ out3' = [kind |-> "data", v |-> v]
  /\ epint' = epint \cup {3}
  /\ bulk' = Moved(v)
  /\ UNCHANGED <<device, ep0Vars, in2, ctl, shadow, left>>

Written(c, m) ==
  [i \in DOMAIN shadow |->
     LET j == i - c.blk * BlockPackets + 1 IN IF j \in DOMAIN m THEN m[j] ELSE shadow[i]]

HostTake2 ==
  /\ bulk.stage \in {"in", "status"} /\ in2 # None
  /\ in2' = None
  /\ epint' = epint \cup {2}
  /\ IF bulk.stage = "in"
     THEN /\ bulk' = IF in2.kind = "data" THEN Moved(in2.v)
                     ELSE IF in2.kind = "info" /\ ~in2.last THEN bulk
                     ELSE [bulk EXCEPT !.stage = "status"]
          /\ UNCHANGED shadow
     ELSE /\ bulk' = [bulk EXCEPT !.stage = "idle"]
          /\ shadow' = IF bulk.c.op = "Write" THEN Written(bulk.c, bulk.moved) ELSE shadow
  /\ UNCHANGED <<device, ep0Vars, out3, ctl, left>>

\* Nothing more will come: the host's time-out ends in a reset of the bus.
Quiet == /\ pc = "idle" /\ epint = {} /\ ~busReset
         /\ in0 = None /\ in2 = None /\ out0 = None /\ out3 = None
         /\ ~setupEnd /\ ~dataEnd
Waiting == ctl.stage = "asked" \/ bulk.stage \in {"in", "status"}
HostReset ==
  /\ Quiet /\ Waiting /\ mass_out_fsm = "CMD"
  /\ left.resets > 0
  /\ busReset' = TRUE
  /\ ctl' = [ctl EXCEPT !.stage = "idle", !.r = None]
  /\ bulk' = [bulk EXCEPT !.stage = "idle"]
  /\ left' = [left EXCEPT !.resets = @ - 1]
  /\ UNCHANGED <<isrVars, epint, ep0Vars, out3, in2, massVars, shadow>>

-----------------------------------------------------------------------------
Packets == 0 .. Blocks * BlockPackets - 1

\* usb_init_slave, and the reset of the bus when the host sees the board
UsbInit ==
  /\ pc = "idle" /\ pend = {} /\ halted = FALSE
  /\ epint = {} /\ busReset = TRUE
  /\ out0 = None /\ in0 = None /\ setupEnd = FALSE /\ dataEnd = FALSE
  /\ out3 = None /\ in2 = None
  /\ usbd_state = "POWERED" /\ ep0State = "INIT"
  /\ ub0 = [of |-> None, size |-> 0, count |-> 0]
  /\ mass_out_fsm = "CMD"
  /\ write_req = [spread |-> 0, recvd |-> 0, addr |-> 0]
  /\ g_mass_req = NoRequest
  /\ ub2 = [src |-> "csw", at |-> 0, size |-> 0, count |-> 0]
  /\ ramdisk = [i \in Packets |-> CHOOSE v \in Values : TRUE]
  /\ shadow = ramdisk
  /\ ctl = [stage |-> "idle", r |-> None, got |-> 0, board |-> usbd_state]
  /\ bulk = [stage |-> "idle", c |-> None, tag |-> 0, moved |-> <<>>]
  /\ left \in Plans

IsrUsbd == IsrEnter \/ IsrEp0 \/ IsrEpx \/ IsrClear
HostGoesOn == \/ HostTake0 \/ HostEarly \/ HostStatus0 \/ HostTake2
              \/ \E v \in Values : HostSend(v)
UsbNext == \/ IsrUsbd \/ HostGoesOn \/ HostReset
           \/ \E r \in Requests : HostSetup(r)
           \/ \E c \in Commands : HostCommand(c)

\* The interrupt is served, the controller moves packets, the host goes on
\* with what it has begun and gives up what is not answered.
UsbSpec == /\ UsbInit /\ [][UsbNext]_usbVars
           /\ WF_usbVars(IsrUsbd) /\ WF_usbVars(HostGoesOn) /\ WF_usbVars(HostReset)

-----------------------------------------------------------------------------
\* What the host reads from the disk is what it has written there, packet by
\* packet, whatever the handler, the controller and the host do in between.
ReadsBack ==
  (bulk.c # None /\ bulk.c.op = "Read") =>
    \A i \in DOMAIN bulk.moved :
      bulk.moved[i] = shadow[bulk.c.blk * BlockPackets + i - 1]

\* A status is sent once per command, under its tag, and a good one only when
\* all of its data has moved: never early, never for an older command.
StatusInTurn ==
  in2 # None =>
    IF in2.kind # "csw" THEN bulk.stage = "in"
    ELSE /\ in2.tag = bulk.tag
         /\ in2.status = 0 => bulk.stage = "status"

\* The bytes of a control reply reach the host completely, up to the length it
\* asked for, and no packet of one request is taken for another.  There is one
\* exception: a device descriptor asked for before SET_ADDRESS is NOT complete,
\* 8 of its 18 bytes come and the transfer is over, also when the host asked for
\* all of them.
FullLength(r) ==
  CASE r.name = "device" -> 18 [] r.name = "config" -> 39
    [] r.name = "string" -> 20 [] OTHER -> Reply(r)
CutShort(t) == t.r.name = "device" /\ t.board = "DEFAULT"
Delivered(t) == IF CutShort(t) THEN EP0_PKT_SIZE ELSE Least(t.r.wLength, FullLength(t.r))
RepliesExact ==
  /\ in0 # None => in0.of = ctl.r /\ ctl.stage # "idle"
  /\ (ctl.stage = "idle" /\ ctl.r # None) => ctl.got = Delivered(ctl)

\* Every request and every command that the code answers comes to its end,
\* although one interrupt serves only one of the bulk endpoints.
Answered(c) == /\ c.op \notin Ignored
               /\ c.op = "Read" => c.len <= c.n * BlockPackets
               /\ c.op \in Replies \cup {"Read"} => c.in
CallsAnswered ==
  /\ (ctl.stage # "idle" /\ ctl.r.name \notin Unanswered) ~> (ctl.stage = "idle")
  /\ (bulk.stage # "idle" /\ Answered(bulk.c)) ~> (bulk.stage = "idle")

\* No assertion of the driver fails: usb_buf_init has a buffer and a size.
NoAssertFails == ~halted
=============================================================================

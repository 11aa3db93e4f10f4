------------------------------ MODULE UsbProofs ------------------------------
(***************************************************************************)
(* The USB disk, of any size and for any plans of the host: what is read   *)
(* is what was written, statuses are in turn, control replies are exact    *)
(* (all but the first device descriptor, which is cut to 8 bytes).         *)
(*                                                                         *)
(* The invariant says in which phase the command is, and the control       *)
(* transfer, and where each packet is in that phase: on the disk, in an    *)
(* endpoint, or with the host; and which interrupt will move the next one. *)
(* BulkStep and Ep0Step have one lemma for each step that changes a phase. *)
(***************************************************************************)
EXTENDS UsbMassStorage, SequenceTheorems, TLAPS

\* What the host asks of a control request: its length is at least that of the
\* reply, or it takes whole packets.
NormalRequests ==
  \A r \in Requests : \/ r.wLength >= Reply(r)
                      \/ r.wLength > 0 /\ r.wLength % EP0_PKT_SIZE = 0

\* The commands' lengths and directions are those of the bulk-only transport;
\* the length of a Read may still be wrong.
NormalCommands ==
  \A c \in Commands : /\ c.op \in Statuses => c.len = 0
                      /\ c.op \in Replies => c.in /\ c.len > 0
                      /\ ~c.in /\ c.len > 0 => c.op = "Write"

-----------------------------------------------------------------------------
(* The bulk endpoints *)

\* A packet of endpoint 3 that is not served yet
Arrived == out3 # None /\ pc # "clear"

\* How the interrupt registers are tied to the packets.  A packet of endpoint 3
\* comes after the interrupt of endpoint 2 before it, and is served after it.
Snapshots ==
  /\ pc \in {"idle", "ep0", "epx", "clear"}
  /\ pc = "clear" => out3 # None
  /\ 3 \in epint <=> Arrived
  /\ pc \in {"ep0", "epx"} => pend \cap {2, 3} \subseteq epint
  /\ pc = "epx" => pend \cap {2, 3} # {}
  /\ (Arrived /\ pc \in {"ep0", "epx"} /\ 3 \in pend /\ 2 \notin pend) => 2 \notin epint
  /\ busReset => /\ pc = "idle" /\ epint = {} /\ ~dataEnd
                 /\ ctl.stage = "idle" /\ bulk.stage = "idle"

Size == bulk.c.len
Asked == [flg |-> TRUE, tag |-> bulk.tag, status |-> 0]

\* Nothing is under way, or the command is one that is never answered.
Resting ==
  /\ bulk.stage \in {"idle", "in", "status"}
  /\ in2 = None /\ ~Arrived /\ Empty(ub2)
  /\ mass_out_fsm = "CMD" \/ bulk.stage = "status"
  /\ 2 \in epint => ~g_mass_req.flg
  /\ ramdisk = shadow

\* The command is in endpoint 3.
Commanded ==
  /\ Arrived /\ out3 = [kind |-> "cbw", c |-> bulk.c, tag |-> bulk.tag]
  /\ bulk.c \in Commands /\ bulk.stage = Stage(bulk.c) /\ bulk.moved = <<>>
  /\ in2 = None /\ Empty(ub2)
  /\ mass_out_fsm = "CMD"
  /\ 2 \in epint => ~g_mass_req.flg
  /\ ramdisk = shadow

\* The disk when the first k packets of the command have been written on it
Overlaid(k) ==
  [i \in DOMAIN shadow |->
     LET j == i - bulk.c.blk * BlockPackets + 1
     IN IF j \in 1 .. k THEN bulk.moved[j] ELSE shadow[i]]

\* A Write: what is not written yet is one packet at most, and in endpoint 3.
Receiving ==
  /\ bulk.c.op = "Write" /\ Size > 0
  /\ bulk.stage = IF Len(bulk.moved) < Size THEN "out" ELSE "status"
  /\ in2 = None /\ Empty(ub2) /\ 2 \notin epint
  /\ mass_out_fsm = "DATA" /\ g_mass_req = Asked
  /\ write_req = [spread |-> Size - write_req.recvd, recvd |-> write_req.recvd,
                  addr |-> bulk.c.blk * BlockPackets]
  /\ write_req.recvd \in Nat /\ write_req.recvd < Size
  /\ Len(bulk.moved) = write_req.recvd + (IF Arrived THEN 1 ELSE 0)
  /\ Arrived => out3 = [kind |-> "data", v |-> bulk.moved[Len(bulk.moved)]]
  /\ ramdisk = Overlaid(write_req.recvd)

\* A Read: the packets sent are those that the host has and the one in endpoint 2,
\* or else the interrupt is there that sends the next one, or the status.
Sending ==
  /\ bulk.c.op = "Read" /\ Size > 0
  /\ bulk.stage = IF Len(bulk.moved) < Size THEN "in" ELSE "status"
  /\ ~Arrived /\ mass_out_fsm = "CMD" /\ g_mass_req = Asked
  /\ ub2 = [src |-> "disk", at |-> bulk.c.blk * BlockPackets, size |-> Size,
            count |-> Len(bulk.moved) + (IF in2 = None THEN 0 ELSE 1)]
  /\ ub2.count <= Size
  /\ in2 = None <=> 2 \in epint
  /\ in2 # None => in2 = [kind |-> "data", v |-> ramdisk[ub2.at + Len(bulk.moved)]]
  /\ ramdisk = shadow

\* An answer from a table: a packet of it is in endpoint 2, or the interrupt is
\* there that sends the next one, or the status.
Informing ==
  /\ bulk.c.op \in Replies
  /\ ~Arrived /\ mass_out_fsm = "CMD" /\ g_mass_req = Asked
  /\ ub2 = [src |-> "info", at |-> 0, size |-> InfoPackets(bulk.c), count |-> ub2.count]
  /\ ub2.count \in Nat /\ ub2.count <= ub2.size
  /\ in2 = None <=> 2 \in epint
  /\ in2 # None => /\ in2 = [kind |-> "info", last |-> Empty(ub2)]
                   /\ bulk.stage = "in"
  /\ in2 = None => bulk.stage = IF Empty(ub2) THEN "status" ELSE "in"
  /\ ramdisk = shadow

\* The status is in endpoint 2.
Ending ==
  /\ in2.kind = "csw" /\ in2.tag = bulk.tag
  /\ \/ bulk.stage = "status"
     \/ bulk.stage = "in" /\ in2.status # 0 /\ bulk.c.op = "Read"
  /\ 2 \notin epint /\ ~Arrived /\ mass_out_fsm = "CMD"
  /\ g_mass_req = NoRequest /\ Empty(ub2)
  /\ ramdisk = IF bulk.c.op = "Write" THEN Written(bulk.c, bulk.moved) ELSE shadow

HostKnows ==
  /\ bulk = [stage |-> bulk.stage, c |-> bulk.c, tag |-> bulk.tag, moved |-> bulk.moved]
  /\ bulk.stage # "idle" => bulk.c \in Commands
  /\ bulk.moved \in Seq(Range(bulk.moved))
  /\ shadow = [i \in Packets |-> shadow[i]]

BulkInv ==
  /\ Snapshots
  /\ HostKnows
  /\ ReadsBack
  /\ Resting \/ Commanded \/ Receiving \/ Sending \/ Informing \/ Ending

-----------------------------------------------------------------------------
(* Endpoint 0 *)

NoTransfer == out0 = None /\ ~setupEnd /\ ~dataEnd

\* Nothing is asked; the end of the last transfer may be unhandled.
Ep0Idle ==
  /\ ctl.stage = "idle" /\ in0 = None /\ ~dataEnd
  /\ IF setupEnd THEN out0 = [kind |-> "status"]
     ELSE out0 = None /\ (ep0State = "INIT" \/ busReset)
  /\ ctl.r # None => ctl.got = Delivered(ctl)

\* The request is in endpoint 0.
Ep0Asked ==
  /\ ctl.stage = "asked" /\ ctl.r \in Requests /\ out0 = ctl.r
  /\ ctl.got = 0 /\ in0 = None /\ ~setupEnd /\ ~dataEnd /\ ep0State = "INIT"
  /\ ctl.board = usbd_state

\* Nothing is sent, or only the status packet.
Ep0Silent ==
  /\ ctl.stage = "asked" /\ ctl.r \in Requests /\ ctl.got = 0 /\ in0 = None
  /\ out0 = None /\ ~setupEnd /\ ep0State = "INIT"
  /\ dataEnd => Delivered(ctl) = 0

\* The one packet of a device descriptor that is cut short
Ep0First ==
  /\ ctl.stage = "asked" /\ ctl.r \in Requests /\ NoTransfer /\ ep0State = "INIT"
  /\ CutShort(ctl) /\ ctl.got = 0
  /\ in0 = [of |-> ctl.r, n |-> 8, last |-> TRUE]

\* The host has all of the packets sent but the one in endpoint 0.
Ep0Replying ==
  /\ ctl.stage = "asked" /\ ctl.r \in Requests /\ NoTransfer
  /\ ~CutShort(ctl)
  /\ ub0.of = ctl.r /\ ub0.size = Reply(ctl.r)
  /\ ctl.got \in Nat /\ ub0.count \in Nat /\ ub0.count <= ub0.size
  /\ ctl.got % EP0_PKT_SIZE = 0 /\ (ctl.got = 0 \/ ctl.got < ctl.r.wLength)
  /\ \/ in0 = None /\ ub0.count = ctl.got /\ ep0State = "TRANSMIT"
     \/ /\ in0 = [of |-> ctl.r, n |-> EP0_PKT_SIZE, last |-> FALSE]
        /\ ub0.count = ctl.got + EP0_PKT_SIZE /\ ep0State = "TRANSMIT"
     \/ /\ in0 = [of |-> ctl.r, n |-> ub0.size - ctl.got, last |-> TRUE]
        /\ ub0.size - ctl.got < EP0_PKT_SIZE
        /\ ub0.count = ub0.size /\ ep0State = "INIT"

\* The host has all that it wants.
Ep0Early ==
  /\ ctl.stage = "early" /\ ctl.r \in Requests /\ NoTransfer
  /\ ctl.got = Delivered(ctl)
  /\ ub0.of = ctl.r
  /\ in0 # None => in0.of = ctl.r

Ep0Inv ==
  /\ ctl = [stage |-> ctl.stage, r |-> ctl.r, got |-> ctl.got, board |-> ctl.board]
  /\ ub0 = [of |-> ub0.of, size |-> ub0.size, count |-> ub0.count]
  /\ Ep0Idle \/ Ep0Asked \/ Ep0Silent \/ Ep0First \/ Ep0Replying \/ Ep0Early


UsbInv == BulkInv /\ Ep0Inv

-----------------------------------------------------------------------------
(* The packets are none of them None. *)

LEMMA RequestIsOne == ASSUME NEW r \in Requests PROVE r # None
<1>1. r \in [name : STRING, wLength : Nat]
  BY UsbAssumption
<1>2. DOMAIN r = {"name", "wLength"} /\ DOMAIN None = {"kind"}
  BY <1>1 DEF None
<1>3. "name" \in DOMAIN r /\ "name" \notin DOMAIN None
  BY <1>2
<1> QED
  BY <1>3

LEMMA ReplyIsOne ==
  ASSUME NEW x, NEW y, NEW z
  PROVE  [of |-> x, n |-> y, last |-> z] # None
<1> DEFINE r == [of |-> x, n |-> y, last |-> z]
<1>1. DOMAIN r = {"of", "n", "last"} /\ DOMAIN None = {"kind"}
  BY DEF None
<1>2. "of" \in DOMAIN r /\ "of" \notin DOMAIN None
  BY <1>1
<1> QED
  BY <1>2

LEMMA InfoIsOne == ASSUME NEW l PROVE [kind |-> "info", last |-> l] # None
<1>1. [kind |-> "info", last |-> l].kind = "info" /\ None.kind = "none"
  BY DEF None
<1> QED
  BY <1>1

LEMMA CommandIsOne == ASSUME NEW c \in Commands PROVE c # None
<1>1. c \in [op : STRING, in : BOOLEAN, blk : Nat, n : Nat, len : Nat]
  BY UsbAssumption
<1>2. DOMAIN c = {"op", "in", "blk", "n", "len"} /\ DOMAIN None = {"kind"}
  BY <1>1 DEF None
<1>3. "op" \in DOMAIN c /\ "op" \notin DOMAIN None
  BY <1>2
<1> QED
  BY <1>3

-----------------------------------------------------------------------------
(* The interrupt registers *)

LEMMA SnapshotsInit == UsbInit => Snapshots
BY DEF UsbInit, Snapshots, Arrived, None

LEMMA SnapshotsIsr ==
  ASSUME Snapshots, IsrUsbd PROVE Snapshots'
<1>1. CASE IsrEnter
  <2>1. CASE busReset
    BY <1>1, <2>1 DEF Snapshots, Arrived, IsrEnter
  <2>2. CASE ~busReset
    BY <1>1, <2>2 DEF Snapshots, Arrived, IsrEnter, ep0Vars
  <2> QED
    BY <2>1, <2>2
<1>2. CASE IsrEp0
  <2>1. pc = "ep0" /\ ~busReset /\ busReset' = busReset /\ out3' = out3 /\ pend' = pend
        /\ pc' = IF pend \cap {2, 3} = {} THEN "idle" ELSE "epx"
    BY <1>2 DEF IsrEp0, Snapshots
  <2>2. epint' = epint \/ epint' = epint \ {0}
    BY <1>2 DEF IsrEp0
  <2>3. Arrived' = Arrived /\ (3 \in epint' <=> 3 \in epint) /\ (2 \in epint' <=> 2 \in epint)
    BY <2>1, <2>2 DEF Arrived
  <2> QED
    BY <2>1, <2>3 DEF Snapshots
<1>3. CASE IsrEpx
  <2>1. pc = "epx" /\ ~busReset /\ busReset' = busReset /\ out3' = out3 /\ pend' = pend
        /\ epint' = epint \ Turn(pend \cap {2, 3})
    BY <1>3 DEF IsrEpx, Snapshots, Ep2Handler
  <2>2. CASE 2 \in pend
    <3>1. epint' = epint \ {2} /\ pc' = "idle"
      BY <1>3, <2>1, <2>2 DEF IsrEpx, Turn
    <3>2. Arrived' = Arrived
      BY <2>1, <3>1 DEF Arrived
    <3> QED
      BY <2>1, <3>1, <3>2 DEF Snapshots
  <2>3. CASE 2 \notin pend
    <3>1. epint' = epint \ {3} /\ pc' = "clear"
      BY <1>3, <2>1, <2>3 DEF IsrEpx, Turn
    <3>2. 3 \in pend /\ Arrived
      BY <2>1, <2>3 DEF Snapshots
    <3>3. ~Arrived' /\ out3' # None
      BY <2>1, <3>1, <3>2 DEF Arrived
    <3> QED
      BY <2>1, <3>1, <3>3 DEF Snapshots
  <2> QED
    BY <2>2, <2>3
<1>4. CASE IsrClear
  BY <1>4 DEF IsrClear, Snapshots, Arrived
<1> QED
  BY <1>1, <1>2, <1>3, <1>4 DEF IsrUsbd

\* A step of the host raises interrupts, or ends a transfer, when there has been
\* no reset of the bus.
LEMMA SnapshotsRaise ==
  ASSUME Snapshots, ~busReset, ~busReset', UNCHANGED <<pc, pend>>,
         epint \subseteq epint', 2 \in epint' => 2 \in epint,
         out3' = out3, 3 \in epint' => 3 \in epint
  PROVE  Snapshots'
BY DEF Snapshots, Arrived

LEMMA SnapshotsHost ==
  ASSUME Snapshots, Arrived => in2 = None,
         HostGoesOn \/ HostReset \/ (\E r \in Requests : HostSetup(r))
         \/ \E c \in Commands : HostCommand(c)
  PROVE  Snapshots'
<1>1. CASE HostTake0 \/ HostEarly \/ HostStatus0 \/ \E r \in Requests : HostSetup(r)
  <2>1. ~busReset /\ busReset' = busReset /\ UNCHANGED <<pc, pend, out3>>
        /\ epint' = epint \cup {0}
    BY <1>1 DEF HostTake0, HostEarly, HostStatus0, HostSetup, Snapshots, device, isrVars
  <2> QED
    BY <2>1, SnapshotsRaise
<1>2. CASE HostTake2
  <2>1. ~busReset /\ busReset' = busReset /\ UNCHANGED <<pc, pend, out3>>
        /\ epint' = epint \cup {2} /\ ~Arrived
    BY <1>2 DEF HostTake2, Snapshots, device, isrVars
  <2> QED
    BY <2>1 DEF Snapshots, Arrived
<1>3. CASE (\E v \in Values : HostSend(v)) \/ \E c \in Commands : HostCommand(c)
  <2>1. ~busReset /\ busReset' = busReset /\ UNCHANGED <<pc, pend>>
        /\ epint' = epint \cup {3} /\ out3 = None /\ out3' # None
    BY <1>3 DEF HostSend, HostCommand, Snapshots, device, isrVars, None
  <2> QED
    BY <2>1 DEF Snapshots, Arrived
<1>4. CASE HostReset
  BY <1>4 DEF HostReset, Snapshots, Quiet, Arrived, isrVars, ep0Vars
<1> QED
  BY <1>1, <1>2, <1>3, <1>4 DEF HostGoesOn

-----------------------------------------------------------------------------
(* The bulk endpoints, phase by phase *)

Phases == Resting \/ Commanded \/ Receiving \/ Sending \/ Informing \/ Ending

LEMMA BulkInit == UsbInit => HostKnows /\ ReadsBack /\ Resting
<1> SUFFICES ASSUME UsbInit PROVE HostKnows /\ ReadsBack /\ Resting
  OBVIOUS
<1>1. <<>> \in Seq(Range(<<>>))
  OBVIOUS
<1>2. HostKnows /\ ReadsBack
  BY <1>1 DEF UsbInit, HostKnows, ReadsBack
<1>3. Resting
  BY DEF UsbInit, Resting, Arrived, Empty, None
<1> QED
  BY <1>2, <1>3

LEMMA LengthsAreNats ==
  ASSUME HostKnows
  PROVE  /\ Len(bulk.moved) \in Nat
         /\ bulk.stage # "idle" => Size \in Nat
<1>1. Len(bulk.moved) \in Nat
  BY LenProperties DEF HostKnows
<1>2. bulk.stage # "idle" => bulk.c \in [op : STRING, in : BOOLEAN, blk : Nat, n : Nat, len : Nat]
  BY UsbAssumption DEF HostKnows
<1> QED
  BY <1>1, <1>2 DEF Size

\* What the handler and the host leave alone
LEMMA BulkStays ==
  ASSUME BulkInv, UNCHANGED <<in2, massVars, bulk, shadow>>,
         Arrived' = Arrived, Arrived => out3' = out3,
         2 \in epint' <=> 2 \in epint
  PROVE  HostKnows' /\ ReadsBack' /\ Phases'
<1>1. HostKnows' /\ ReadsBack'
  BY DEF BulkInv, HostKnows, ReadsBack
<1>2. Resting => Resting'
  BY DEF Resting, massVars, Empty
<1>3. Commanded => Commanded'
  BY DEF Commanded, massVars, Empty, Stage
<1>4. Receiving => Receiving'
  BY DEF Receiving, massVars, Empty, Size, Asked, Overlaid
<1>5. Sending => Sending'
  BY DEF Sending, massVars, Size, Asked
<1>6. Informing => Informing'
  BY DEF Informing, massVars, Empty, Asked, InfoPackets
<1>7. Ending => Ending'
  BY DEF Ending, massVars, Empty, Written
<1> QED
  BY <1>1, <1>2, <1>3, <1>4, <1>5, <1>6, <1>7 DEF BulkInv, Phases

\* Endpoint 2: the next packet of a Read, or the status
LEMMA BulkIn ==
  ASSUME BulkInv, IsrEpx, 2 \in pend
  PROVE  HostKnows' /\ ReadsBack' /\ Phases'
<1>1. /\ pc = "epx" /\ 2 \in epint /\ 2 \notin epint' /\ pc' = "idle"
      /\ Ep2Handler /\ UNCHANGED <<bulk, shadow>>
  BY DEF IsrEpx, BulkInv, Snapshots, Turn, hostVars
<1>2. /\ UNCHANGED <<out3, mass_out_fsm, write_req, ramdisk>>
      /\ Arrived' = Arrived
  BY <1>1 DEF Ep2Handler, Arrived
<1>3. HostKnows' /\ ReadsBack'
  BY <1>1 DEF BulkInv, HostKnows, ReadsBack
<1>4. CASE Resting
  <2>1. in2' = None /\ ub2' = ub2
    BY <1>1, <1>4 DEF Resting, Ep2Handler, handle_mass_bulk_in
  <2> QED
    BY <1>1, <1>2, <1>3, <1>4, <2>1 DEF Resting, Empty, Phases
<1>5. CASE Commanded
  <2>1. in2' = None /\ ub2' = ub2
    BY <1>1, <1>5 DEF Commanded, Ep2Handler, handle_mass_bulk_in
  <2> QED
    BY <1>1, <1>2, <1>3, <1>5, <2>1 DEF Commanded, Empty, Stage, Phases
<1>6. CASE Receiving \/ Ending
  BY <1>1, <1>6 DEF Receiving, Ending
<1>7. CASE Sending
  <2>2. Size \in Nat /\ Len(bulk.moved) \in Nat
    BY <1>7, LengthsAreNats DEF Sending, BulkInv
  <2>1. /\ in2 = None /\ bulk.c.op = "Read" /\ Len(bulk.moved) <= Size
        /\ ub2 = [src |-> "disk", at |-> bulk.c.blk * BlockPackets, size |-> Size,
                  count |-> Len(bulk.moved)]
    <3>1. in2 = None
      BY <1>1, <1>7 DEF Sending
    <3>2. PICK k : k = Len(bulk.moved) + (IF in2 = None THEN 0 ELSE 1)
      OBVIOUS
    <3>3. k = Len(bulk.moved)
      BY <2>2, <3>1, <3>2
    <3> QED
      BY <1>7, <3>1, <3>2, <3>3 DEF Sending
  <2>3. CASE Empty(ub2)
    <3>1. Len(bulk.moved) = Size /\ bulk.stage = "status"
      BY <1>7, <2>1, <2>2, <2>3 DEF Sending, Empty
    <3>2. /\ in2' = [kind |-> "csw", tag |-> bulk.tag, status |-> 0]
          /\ g_mass_req' = NoRequest
          /\ ub2' = [Buffer("csw", 0, 1) EXCEPT !.count = @ + 1]
      BY <1>1, <1>7, <2>3 DEF Sending, Asked, Ep2Handler, handle_mass_bulk_in, Send,
                              PacketOf, Buffer
    <3>3. ub2'.size = ub2'.count
      BY <3>2 DEF Buffer
    <3> QED
      BY <1>1, <1>2, <1>3, <1>7, <2>1, <3>1, <3>2, <3>3
      DEF Sending, Ending, Empty, Phases
  <2>4. CASE ~Empty(ub2)
    <3>1. Len(bulk.moved) < Size
      BY <2>1, <2>2, <2>4 DEF Empty
    <3>2. /\ in2' = [kind |-> "data", v |-> ramdisk[ub2.at + ub2.count]]
          /\ g_mass_req' = g_mass_req
          /\ ub2' = [ub2 EXCEPT !.count = @ + 1]
      BY <1>1, <2>1, <2>4 DEF Ep2Handler, Send, PacketOf
    <3>3. in2' # None
      BY <3>2 DEF None
    <3>4. ub2' = [src |-> "disk", at |-> bulk.c.blk * BlockPackets, size |-> Size,
                  count |-> Len(bulk.moved) + 1]
      BY <2>1, <3>2
    <3>5. in2' = [kind |-> "data", v |-> ramdisk[ub2'.at + Len(bulk.moved)]]
      BY <2>1, <3>2, <3>4
    <3>6. ub2'.count <= Size
      BY <2>2, <3>1, <3>4
    <3> QED
      BY <1>1, <1>2, <1>3, <1>7, <2>1, <3>1, <3>2, <3>3, <3>4, <3>5, <3>6
      DEF Sending, Asked, Size, Phases
  <2> QED
    BY <2>3, <2>4
<1>8. CASE Informing
  <2>1. in2 = None /\ g_mass_req = Asked
    BY <1>1, <1>8 DEF Informing
  <2>2. CASE Empty(ub2)
    <3>1. /\ in2' = [kind |-> "csw", tag |-> bulk.tag, status |-> 0]
          /\ g_mass_req' = NoRequest
          /\ ub2' = [Buffer("csw", 0, 1) EXCEPT !.count = @ + 1]
      BY <1>1, <2>1, <2>2 DEF Asked, Ep2Handler, handle_mass_bulk_in, Send, PacketOf, Buffer
    <3>2. ub2'.size = ub2'.count
      BY <3>1 DEF Buffer
    <3>3. bulk.c.op # "Write" /\ bulk.stage = "status"
      BY <1>8, <2>1, <2>2 DEF Informing, Replies
    <3> QED
      BY <1>1, <1>2, <1>3, <1>8, <2>1, <3>1, <3>2, <3>3
      DEF Informing, Ending, Empty, Phases
  <2>3. CASE ~Empty(ub2)
    <3>0. PICK size \in Nat : size = InfoPackets(bulk.c)
      <4>1. bulk.stage # "idle"
        BY <1>8, <2>1, <2>3 DEF Informing
      <4>2. bulk.c.len \in Nat
        BY <4>1, LengthsAreNats DEF BulkInv, Size
      <4> QED
        BY <4>2 DEF InfoPackets
    <3>1. PICK k \in Nat :
            k <= size /\ ub2 = [src |-> "info", at |-> 0, size |-> size, count |-> k]
      <4>1. PICK k : k = ub2.count
        OBVIOUS
      <4>2. ub2 = [src |-> "info", at |-> 0, size |-> size, count |-> k]
        BY <1>8, <3>0, <4>1 DEF Informing
      <4>3. k \in Nat /\ k <= size
        BY <1>8, <4>1, <4>2 DEF Informing
      <4> QED
        BY <4>2, <4>3
    <3>2. k < size
      <4>1. k # size
        BY <2>3, <3>1 DEF Empty
      <4> QED
        BY <3>0, <3>1, <4>1
    <3>3. /\ in2' = [kind |-> "info", last |-> k + 1 = size]
          /\ g_mass_req' = g_mass_req
          /\ ub2' = [src |-> "info", at |-> 0, size |-> size, count |-> k + 1]
      BY <1>1, <2>3, <3>1 DEF Ep2Handler, Send, PacketOf
    <3>4. in2' # None /\ in2' = [kind |-> "info", last |-> Empty(ub2')]
      <4>1. Empty(ub2') = (k + 1 = size)
        BY <3>2, <3>3 DEF Empty
      <4> QED
        BY <3>3, <4>1, InfoIsOne
    <3>5. ub2' = [src |-> "info", at |-> 0, size |-> InfoPackets(bulk.c)', count |-> ub2'.count]
          /\ ub2'.count \in Nat /\ ub2'.count <= ub2'.size
      BY <1>1, <3>0, <3>1, <3>2, <3>3 DEF InfoPackets
    <3>6. bulk.stage = "in"
      BY <1>8, <2>1, <2>3 DEF Informing
    <3> QED
      BY <1>1, <1>2, <1>3, <1>8, <2>1, <3>3, <3>4, <3>5, <3>6 DEF Informing, Asked, Empty, Phases
  <2> QED
    BY <2>2, <2>3
<1> QED
  BY <1>4, <1>5, <1>6, <1>7, <1>8 DEF BulkInv, Phases

\* A packet more is on the disk.
LEMMA OverlaidNext ==
  ASSUME NEW k \in Nat, HostKnows, bulk.stage # "idle"
  PROVE  [Overlaid(k) EXCEPT ![bulk.c.blk * BlockPackets + k] = bulk.moved[k + 1]]
            = Overlaid(k + 1)
<1>1. bulk.c \in [op : STRING, in : BOOLEAN, blk : Nat, n : Nat, len : Nat]
  BY UsbAssumption DEF HostKnows
<1>2. BlockPackets \in Nat /\ Blocks \in Nat
  BY UsbAssumption
<1>3. PICK base \in Nat : base = bulk.c.blk * BlockPackets
  BY <1>1, <1>2
<1>4. DOMAIN shadow = Packets
  BY DEF HostKnows
<1>5. PICK m \in Nat : m = Blocks * BlockPackets
  BY <1>2
<1>6. DOMAIN shadow = 0 .. m - 1
  BY <1>4, <1>5 DEF Packets
<1>7. Overlaid(k) = [i \in 0 .. m - 1 |->
        IF i - base + 1 \in 1 .. k THEN bulk.moved[i - base + 1] ELSE shadow[i]]
  BY <1>3, <1>6 DEF Overlaid
<1>8. Overlaid(k + 1) = [i \in 0 .. m - 1 |->
        IF i - base + 1 \in 1 .. k + 1 THEN bulk.moved[i - base + 1] ELSE shadow[i]]
  BY <1>3, <1>6 DEF Overlaid
<1>9. \A i \in 0 .. m - 1 :
        (IF i = base + k THEN bulk.moved[k + 1] ELSE Overlaid(k)[i]) = Overlaid(k + 1)[i]
  <2> TAKE i \in 0 .. m - 1
  <2>1. PICK j \in Int : j = i - base + 1
    BY <1>3
  <2>2. i = base + k <=> j = k + 1
    BY <2>1
  <2>3. Overlaid(k)[i] = IF j \in 1 .. k THEN bulk.moved[j] ELSE shadow[i]
    BY <1>7, <2>1
  <2>4. Overlaid(k + 1)[i] = IF j \in 1 .. k + 1 THEN bulk.moved[j] ELSE shadow[i]
    BY <1>8, <2>1
  <2>5. j \in 1 .. k + 1 <=> (j \in 1 .. k \/ j = k + 1)
    OBVIOUS
  <2>6. k + 1 \in 1 .. k + 1
    OBVIOUS
  <2>7. CASE j = k + 1
    BY <2>2, <2>4, <2>6, <2>7
  <2>8. CASE j # k + 1
    BY <2>2, <2>3, <2>4, <2>5, <2>8
  <2> QED
    BY <2>7, <2>8
<1>10. [Overlaid(k) EXCEPT ![base + k] = bulk.moved[k + 1]]
         = [i \in 0 .. m - 1 |-> IF i = base + k THEN bulk.moved[k + 1] ELSE Overlaid(k)[i]]
  BY <1>7
<1> QED
  BY <1>3, <1>8, <1>9, <1>10

\* A packet of a Write
LEMMA BulkData ==
  ASSUME BulkInv, Receiving, Arrived, Data(out3.v),
         UNCHANGED <<bulk, shadow>>, pc' = "clear", 2 \notin epint'
  PROVE  Phases'
<1> DEFINE k == write_req.recvd
<1>0. HostKnows /\ bulk.stage # "idle"
  BY DEF BulkInv, Receiving
<1>1. k \in Nat /\ Size \in Nat /\ k < Size
  BY <1>0, LengthsAreNats DEF Receiving
<1>2. Len(bulk.moved) = k + 1 /\ bulk.moved \in Seq(Range(bulk.moved))
  BY <1>0 DEF Receiving, HostKnows
<1>3. write_req.addr = bulk.c.blk * BlockPackets /\ write_req.spread = Size - k
  BY DEF Receiving
<1>4. out3.v = bulk.moved[k + 1]
  BY <1>2 DEF Receiving
<1>5. ramdisk' = Overlaid(k + 1)
  <2>1. ramdisk' = [ramdisk EXCEPT ![bulk.c.blk * BlockPackets + k] = bulk.moved[k + 1]]
    BY <1>3, <1>4 DEF Data, Place
  <2>2. ramdisk = Overlaid(k)
    BY DEF Receiving
  <2> QED
    BY <1>0, <1>1, <2>1, <2>2, OverlaidNext
<1>6. ~Arrived'
  BY DEF Arrived
<1>7. CASE write_req.spread = 1
  <2>1. Len(bulk.moved) = Size /\ bulk.stage = "status"
    BY <1>1, <1>2, <1>3, <1>7 DEF Receiving
  <2>2. /\ in2' = [kind |-> "csw", tag |-> bulk.tag, status |-> 0]
        /\ g_mass_req' = NoRequest
        /\ ub2' = [Buffer("csw", 0, 1) EXCEPT !.count = @ + 1]
        /\ mass_out_fsm' = "CMD"
    BY <1>7 DEF Receiving, Asked, Data, handle_mass_bulk_in, Send, PacketOf, Buffer
  <2>3. ub2'.size = ub2'.count
    BY <2>2 DEF Buffer
  <2>4. Overlaid(k + 1) = Written(bulk.c, bulk.moved)
    <3>1. DOMAIN bulk.moved = 1 .. k + 1
      BY <1>2, LenProperties
    <3> QED
      BY <3>1 DEF Overlaid, Written
  <2>5. ramdisk' = Written(bulk.c, bulk.moved)'
    BY <1>5, <2>4 DEF Written
  <2>6. bulk.c.op = "Write"
    BY DEF Receiving
  <2> QED
    BY <1>6, <2>1, <2>2, <2>3, <2>5, <2>6 DEF Ending, Empty, Phases
<1>8. CASE write_req.spread # 1
  <2>1. /\ g_mass_req' = g_mass_req /\ in2' = in2 /\ ub2' = ub2
        /\ mass_out_fsm' = mass_out_fsm
        /\ write_req' = [write_req EXCEPT !.spread = @ - 1, !.recvd = @ + 1]
    BY <1>8 DEF Data, Remember
  <2>2. write_req = [spread |-> Size - k, recvd |-> k, addr |-> bulk.c.blk * BlockPackets]
    BY DEF Receiving
  <2>3. write_req' = [spread |-> Size - k - 1, recvd |-> k + 1,
                      addr |-> bulk.c.blk * BlockPackets]
    <3>1. PICK s, r, a : s = Size - k /\ r = k /\ a = bulk.c.blk * BlockPackets
      OBVIOUS
    <3>2. write_req = [spread |-> s, recvd |-> r, addr |-> a]
      BY <2>2, <3>1
    <3>3. write_req' = [spread |-> s - 1, recvd |-> r + 1, addr |-> a]
      BY <2>1, <3>2
    <3> QED
      BY <3>1, <3>3
  <2>4. PICK n \in Nat : n = k + 1 /\ n < Size /\ Size - k - 1 = Size - n
    BY <1>1, <1>3, <1>8
  <2>5. write_req'.recvd = n
        /\ write_req' = [spread |-> Size - n, recvd |-> n,
                         addr |-> bulk.c.blk * BlockPackets]
    BY <2>3, <2>4
  <2>6. Len(bulk.moved) = n
    BY <1>2, <2>4
  <2>7. ramdisk' = Overlaid(n)'
    BY <1>5, <2>4 DEF Overlaid
  <2>8. Len(bulk.moved) = n + 0
    BY <2>4, <2>6
  <2> QED
    BY <1>6, <2>1, <2>4, <2>5, <2>7, <2>8 DEF Receiving, Empty, Asked, Size, Phases
<1> QED
  BY <1>7, <1>8

LEMMA WithStatus ==
  ASSUME NEW b, NEW t, NEW s, NEW q, q = [flg |-> b, tag |-> t, status |-> 0]
  PROVE  [q EXCEPT !.status = s] = [flg |-> b, tag |-> t, status |-> s]
OBVIOUS

\* A command
LEMMA BulkCommand ==
  ASSUME NormalCommands, BulkInv, Commanded, Command(bulk.c, Asked),
         UNCHANGED <<bulk, shadow>>, pc' = "clear", 2 \notin epint'
  PROVE  Phases'
<1> DEFINE c == bulk.c
<1>1. c \in Commands /\ c \in [op : STRING, in : BOOLEAN, blk : Nat, n : Nat, len : Nat]
  BY UsbAssumption DEF Commanded
<1>2. BlockPackets \in Nat
  BY UsbAssumption
<1>3. /\ in2 = None /\ Empty(ub2) /\ mass_out_fsm = "CMD" /\ ramdisk = shadow
      /\ bulk.moved = <<>> /\ Len(bulk.moved) = 0 /\ bulk.stage = Stage(c)
  BY DEF Commanded
<1>4. ~Arrived' /\ ramdisk' = ramdisk
  BY DEF Arrived, Command
<1>5. Asked.flg /\ Asked.tag = bulk.tag /\ Asked.status = 0 /\ Asked' = Asked
  BY DEF Asked
<1>6. CASE c.op \in Statuses
  <2>1. c.len = 0 /\ bulk.stage = "status"
    BY <1>1, <1>3, <1>6 DEF NormalCommands, Stage
  <2>2. c.op \notin {"Read", "Write"} /\ c.op \notin Replies
    BY <1>6 DEF Statuses, Replies
  <2>3. handle_mass_bulk_in(Asked) /\ mass_out_fsm' = mass_out_fsm
    BY <1>6, <2>2 DEF Command
  <2>4. /\ in2' = [kind |-> "csw", tag |-> bulk.tag, status |-> 0]
        /\ g_mass_req' = NoRequest
        /\ ub2' = [Buffer("csw", 0, 1) EXCEPT !.count = @ + 1]
    BY <1>5, <2>3 DEF handle_mass_bulk_in, Send, PacketOf, Buffer
  <2>5. ub2'.size = ub2'.count
    BY <2>4 DEF Buffer
  <2> QED
    BY <1>3, <1>4, <2>1, <2>2, <2>3, <2>4, <2>5 DEF Ending, Empty, Phases
<1>7. CASE c.op \in Replies
  <2>1. c.in /\ c.len > 0 /\ bulk.stage = "in"
    BY <1>1, <1>3, <1>7 DEF NormalCommands, Stage
  <2>2. c.op \notin {"Read", "Write"} /\ c.op \notin Statuses
    BY <1>7 DEF Statuses, Replies
  <2>3. ~Stops(c)
    BY <1>1, <1>7, <2>1, <2>2 DEF Stops
  <2>4. PICK size \in Nat : size = InfoPackets(c) /\ size > 0
    BY <1>1, <2>1 DEF InfoPackets
  <2>5. /\ Send(Buffer("info", 0, size), Asked) /\ g_mass_req' = Asked
        /\ mass_out_fsm' = mass_out_fsm
    BY <1>7, <2>1, <2>2, <2>3, <2>4 DEF Command
  <2>6. Buffer("info", 0, size) = [src |-> "info", at |-> 0, size |-> size, count |-> 0]
    BY DEF Buffer
  <2>7. /\ in2' = [kind |-> "info", last |-> 0 + 1 = size]
        /\ ub2' = [src |-> "info", at |-> 0, size |-> size, count |-> 0 + 1]
    BY <2>5, <2>6 DEF Send, PacketOf
  <2>8. in2' # None /\ in2' = [kind |-> "info", last |-> Empty(ub2')]
    <3>1. Empty(ub2') = (0 + 1 = size)
      BY <2>4, <2>7 DEF Empty
    <3> QED
      BY <2>7, <3>1, InfoIsOne
  <2>9. ub2' = [src |-> "info", at |-> 0, size |-> InfoPackets(c)', count |-> ub2'.count]
        /\ ub2'.count \in Nat /\ ub2'.count <= ub2'.size
    BY <2>4, <2>7 DEF InfoPackets
  <2> QED
    BY <1>3, <1>4, <1>5, <1>7, <2>1, <2>5, <2>8, <2>9 DEF Informing, Empty, Phases
<1>8. CASE c.op = "Read" /\ c.in
  <2>1. c.op \notin Statuses /\ c.op \notin Replies
    BY <1>8 DEF Statuses, Replies
  <2>2. ReadBlocks(c, Asked) /\ mass_out_fsm' = mass_out_fsm
    BY <1>8, <2>1 DEF Command
  <2>3. PICK size \in Nat : size = c.n * BlockPackets
    BY <1>1, <1>2
  <2>4. CASE c.len = size /\ size > 0
    <3>1. PICK at : at = c.blk * BlockPackets
      OBVIOUS
    <3>2. Send(Buffer("disk", at, size), Asked) /\ g_mass_req' = Asked
      BY <2>2, <2>3, <2>4, <3>1 DEF ReadBlocks
    <3>3. Buffer("disk", at, size) = [src |-> "disk", at |-> at, size |-> size, count |-> 0]
      BY DEF Buffer
    <3>4. /\ in2' = [kind |-> "data", v |-> ramdisk[at + 0]]
          /\ ub2' = [src |-> "disk", at |-> at, size |-> size, count |-> 1]
      BY <3>2, <3>3 DEF Send, PacketOf
    <3>5. in2' # None
      BY <3>4 DEF None
    <3>6. bulk.stage = "in" /\ Size = size /\ Len(bulk.moved) < Size
      BY <1>3, <1>8, <2>3, <2>4 DEF Stage, Size
    <3>7. ub2' = [src |-> "disk", at |-> c.blk * BlockPackets, size |-> Size,
                  count |-> Len(bulk.moved) + 1]
      BY <1>3, <3>1, <3>4, <3>6
    <3>8. in2' = [kind |-> "data", v |-> ramdisk[ub2'.at + Len(bulk.moved)]]
      BY <1>3, <3>4
    <3>9. ub2'.count <= Size
      BY <2>3, <2>4, <3>4, <3>6
    <3> QED
      BY <1>3, <1>4, <1>5, <1>8, <2>2, <2>3, <2>4, <3>2, <3>5, <3>6, <3>7, <3>8, <3>9
      DEF Sending, Size, Phases
  <2>5. CASE ~(c.len = size /\ size > 0)
    <3>1. PICK s \in {1, 2} : handle_mass_bulk_in([Asked EXCEPT !.status = s])
      BY <2>2, <2>3, <2>5 DEF ReadBlocks
    <3>2. [Asked EXCEPT !.status = s] = [flg |-> TRUE, tag |-> bulk.tag, status |-> s]
      <4>1. PICK t : t = bulk.tag
        OBVIOUS
      <4>2. Asked = [flg |-> TRUE, tag |-> t, status |-> 0]
        BY <4>1 DEF Asked
      <4>3. [Asked EXCEPT !.status = s] = [flg |-> TRUE, tag |-> t, status |-> s]
        BY <4>2, WithStatus
      <4> QED
        BY <4>1, <4>3
    <3>3. /\ in2' = [kind |-> "csw", tag |-> bulk.tag, status |-> s]
          /\ g_mass_req' = NoRequest
          /\ ub2' = [Buffer("csw", 0, 1) EXCEPT !.count = @ + 1]
      BY <3>1, <3>2 DEF handle_mass_bulk_in, Send, PacketOf, Buffer
    <3>4. ub2'.size = ub2'.count
      BY <3>3 DEF Buffer
    <3>5. bulk.stage \in {"status", "in"} /\ s # 0 /\ c.op # "Write"
      BY <1>3, <1>8 DEF Stage
    <3> QED
      BY <1>3, <1>4, <1>8, <2>2, <3>3, <3>4, <3>5 DEF Ending, Empty, Phases
  <2> QED
    BY <2>4, <2>5
<1>9. CASE ~(c.op \in Statuses \/ c.op \in Replies \/ (c.op = "Read" /\ c.in))
  <2>1. Remember(Asked)
    BY <1>9 DEF Command
  <2>2. in2' = None /\ ub2' = ub2 /\ g_mass_req' = Asked
    BY <1>3, <2>1 DEF Remember
  <2>3. CASE c.op = "Write" /\ ~c.in /\ c.len > 0
    <3>1. /\ write_req' = [spread |-> c.len, recvd |-> 0, addr |-> c.blk * BlockPackets]
          /\ mass_out_fsm' = "DATA"
      BY <2>3 DEF Command
    <3>2. bulk.stage = "out"
      BY <1>1, <1>3, <2>3 DEF Stage
    <3>3. Size = c.len /\ c.len - 0 = c.len /\ c.len \in Nat /\ Len(bulk.moved) = 0 + 0
      BY <1>1, <1>3 DEF Size
    <3>4. /\ write_req' = [spread |-> Size - write_req'.recvd, recvd |-> write_req'.recvd,
                           addr |-> c.blk * BlockPackets]
          /\ write_req'.recvd = 0
      BY <3>1, <3>3
    <3>5. Overlaid(0) = shadow
      BY DEF BulkInv, HostKnows, Overlaid
    <3>6. ramdisk' = Overlaid(0)'
      BY <1>3, <1>4, <3>5 DEF Overlaid
    <3> QED
      BY <1>3, <1>4, <1>5, <2>2, <2>3, <3>1, <3>2, <3>3, <3>4, <3>6
      DEF Receiving, Empty, Size, Phases
  <2>4. CASE ~(c.op = "Write" /\ ~c.in /\ c.len > 0)
    <3>1. c.in \/ c.len = 0
      BY <1>1, <2>4 DEF NormalCommands
    <3>2. bulk.stage \in {"in", "status"}
      BY <1>3, <3>1 DEF Stage
    <3>3. mass_out_fsm' = "CMD" \/ bulk.stage = "status"
      BY <1>1, <1>3, <2>4, <3>1 DEF Command, Stage
    <3> QED
      BY <1>3, <1>4, <2>2, <3>2, <3>3 DEF Resting, Empty, Phases
  <2> QED
    BY <2>3, <2>4
<1> QED
  BY <1>6, <1>7, <1>8, <1>9

\* Endpoint 3: a command, or a packet of a Write
LEMMA BulkOut ==
  ASSUME NormalCommands, BulkInv, IsrEpx, 2 \notin pend
  PROVE  HostKnows' /\ ReadsBack' /\ Phases'
<1>1. /\ pc = "epx" /\ pc' = "clear" /\ 2 \notin epint' /\ Arrived
      /\ Ep3Handler /\ UNCHANGED <<bulk, shadow, out3>>
  BY DEF IsrEpx, BulkInv, Snapshots, Turn, hostVars
<1>2. HostKnows' /\ ReadsBack'
  BY <1>1 DEF BulkInv, HostKnows, ReadsBack
<1>3. CASE Commanded
  <2>1. Command(bulk.c, Asked)
    BY <1>1, <1>3 DEF Commanded, Ep3Handler, Asked
  <2> QED
    BY <1>1, <1>2, <1>3, <2>1, BulkCommand
<1>4. CASE Receiving
  <2>1. Data(out3.v)
    BY <1>1, <1>4 DEF Receiving, Ep3Handler
  <2> QED
    BY <1>1, <1>2, <1>4, <2>1, BulkData
<1>5. ~(Resting \/ Sending \/ Informing \/ Ending)
  BY <1>1 DEF Resting, Sending, Informing, Ending
<1> QED
  BY <1>3, <1>4, <1>5 DEF BulkInv


\* What the host has of a command, with a packet more
LEMMA OneMore ==
  ASSUME HostKnows, NEW v, bulk' = Moved(v)
  PROVE  /\ bulk'.moved = Append(bulk.moved, v)
         /\ bulk'.stage = IF Len(bulk.moved) + 1 = Size THEN "status" ELSE bulk.stage
         /\ bulk'.c = bulk.c /\ bulk'.tag = bulk.tag
         /\ bulk' = [stage |-> bulk'.stage, c |-> bulk'.c, tag |-> bulk'.tag,
                     moved |-> bulk'.moved]
         /\ Len(bulk'.moved) = Len(bulk.moved) + 1
         /\ DOMAIN bulk.moved = 1 .. Len(bulk.moved)
         /\ DOMAIN bulk'.moved = 1 .. Len(bulk.moved) + 1
         /\ \A i \in 1 .. Len(bulk.moved) : bulk'.moved[i] = bulk.moved[i]
         /\ bulk'.moved[Len(bulk.moved) + 1] = v
         /\ bulk'.moved \in Seq(Range(bulk'.moved))
<1>1. PICK s, c, t, m : bulk = [stage |-> s, c |-> c, tag |-> t, moved |-> m]
  BY DEF HostKnows
<1>2. PICK s2 : s2 = IF Len(m) + 1 = Size THEN "status" ELSE s
  OBVIOUS
<1>3. bulk' = [stage |-> s2, c |-> c, tag |-> t, moved |-> Append(m, v)]
  BY <1>1, <1>2 DEF Moved, Size
<1>4. bulk.moved = m /\ bulk.stage = s /\ bulk.c = c /\ bulk.tag = t
  BY <1>1
<1>5. PICK m2 : m2 = Append(m, v)
  OBVIOUS
<1>6. bulk'.moved = m2 /\ bulk'.stage = s2 /\ bulk'.c = c /\ bulk'.tag = t
  BY <1>3, <1>5
<1>7. m \in Seq(Range(m))
  BY <1>4 DEF HostKnows
<1>8. PICK S : S = Range(m) \cup {v}
  OBVIOUS
<1>9. m \in Seq(S) /\ v \in S
  <2>1. Len(m) \in Nat /\ m \in [1 .. Len(m) -> Range(m)]
    BY <1>7, LenProperties
  <2>2. m \in [1 .. Len(m) -> S]
    BY <2>1, <1>8
  <2> QED
    BY <2>1, <2>2, <1>8, SeqDef
<1>10. /\ m2 \in Seq(S) /\ Len(m2) = Len(m) + 1
       /\ \A i \in 1 .. Len(m) : m2[i] = m[i]
       /\ m2[Len(m) + 1] = v
  BY <1>5, <1>9, AppendProperties
<1>11. /\ DOMAIN m = 1 .. Len(m) /\ DOMAIN m2 = 1 .. Len(m2)
       /\ m2 \in Seq(Range(m2))
  <2>1. DOMAIN m = 1 .. Len(m) /\ DOMAIN m2 = 1 .. Len(m2) /\ Len(m2) \in Nat
        /\ m2 \in [1 .. Len(m2) -> S]
    BY <1>9, <1>10, LenProperties
  <2>2. m2 \in [1 .. Len(m2) -> Range(m2)]
    BY <2>1 DEF Range
  <2> QED
    BY <2>1, <2>2, SeqDef
<1> QED
  BY <1>2, <1>3, <1>4, <1>5, <1>6, <1>10, <1>11

LEMMA BulkStart ==
  ASSUME BulkInv, NEW c \in Commands, HostCommand(c)
  PROVE  HostKnows' /\ ReadsBack' /\ Phases'
<1>1. /\ bulk.stage = "idle" /\ out3 = None
      /\ bulk' = [stage |-> Stage(c), c |-> c, tag |-> 1 - bulk.tag, moved |-> <<>>]
      /\ out3' = [kind |-> "cbw", c |-> c, tag |-> 1 - bulk.tag]
      /\ epint' = epint \cup {3} /\ pc' = pc /\ in2' = in2 /\ shadow' = shadow
      /\ UNCHANGED massVars
  BY DEF HostCommand, device, isrVars
<1>2. Resting
  <2>1. ~Commanded
    BY <1>1 DEF Commanded, Arrived
  <2> QED
    BY <1>1, <2>1 DEF BulkInv, Receiving, Sending, Informing, Ending
<1>3. <<>> \in Seq(Range(<<>>))
  OBVIOUS
<1>4. HostKnows'
  BY <1>1, <1>3 DEF BulkInv, HostKnows
<1>5. ReadsBack'
  BY <1>1 DEF ReadsBack
<1>6. pc # "clear"
  BY <1>1 DEF BulkInv, Snapshots
<1>7. Arrived'
  BY <1>1, <1>6 DEF Arrived, None
<1>8. Commanded'
  BY <1>1, <1>2, <1>7 DEF Resting, Commanded, massVars, Empty, Stage
<1> QED
  BY <1>4, <1>5, <1>8 DEF Phases

LEMMA BulkSent ==
  ASSUME BulkInv, NEW v \in Values, HostSend(v)
  PROVE  HostKnows' /\ ReadsBack' /\ Phases'
<1>1. /\ bulk.stage = "out" /\ out3 = None /\ bulk' = Moved(v)
      /\ out3' = [kind |-> "data", v |-> v]
      /\ epint' = epint \cup {3} /\ pc' = pc /\ in2' = in2 /\ shadow' = shadow
      /\ UNCHANGED massVars
  BY DEF HostSend, device, isrVars
<1>2. ~Arrived
  BY <1>1 DEF Arrived
<1>3. Receiving
  BY <1>1, <1>2 DEF BulkInv, Resting, Commanded, Sending, Informing, Ending
<1>4. pc # "clear"
  BY <1>1 DEF BulkInv, Snapshots
<1>5. Arrived'
  BY <1>1, <1>4 DEF Arrived, None
<1>6. HostKnows
  BY DEF BulkInv
<1>7. Len(bulk.moved) \in Nat /\ Size \in Nat
  BY <1>1, <1>6, LengthsAreNats
<1>8. /\ bulk'.stage = (IF Len(bulk.moved) + 1 = Size THEN "status" ELSE bulk.stage)
      /\ bulk'.c = bulk.c /\ bulk'.tag = bulk.tag
      /\ Len(bulk'.moved) = Len(bulk.moved) + 1
      /\ bulk'.moved[Len(bulk.moved) + 1] = v
      /\ \A i \in 1 .. Len(bulk.moved) : bulk'.moved[i] = bulk.moved[i]
      /\ HostKnows'
  <2>1. bulk'.stage # "idle" => bulk.c \in Commands
    BY <1>1, <1>6 DEF HostKnows
  <2> QED
    BY <1>1, <1>6, <2>1, OneMore DEF HostKnows
<1>9. ReadsBack'
  BY <1>3, <1>8 DEF Receiving, ReadsBack
<1>10. PICK k \in Nat : k = write_req.recvd /\ Len(bulk.moved) = k /\ k < Size
  <2>1. write_req.recvd \in Nat /\ write_req.recvd < Size
    BY <1>3 DEF Receiving
  <2>2. Len(bulk.moved) = write_req.recvd + 0
    BY <1>2, <1>3 DEF Receiving
  <2> QED
    BY <2>1, <2>2
<1>11. Len(bulk'.moved) = k + 1 /\ k + 1 \in Nat /\ k + 1 <= Size
  BY <1>7, <1>8, <1>10
<1>12. bulk'.stage = IF Len(bulk'.moved) < Size THEN "out" ELSE "status"
  <2>1. bulk'.stage = IF k + 1 = Size THEN "status" ELSE "out"
    BY <1>1, <1>8, <1>10
  <2>2. k + 1 = Size <=> ~(k + 1 < Size)
    BY <1>7, <1>11
  <2> QED
    BY <1>11, <2>1, <2>2
<1>13. out3' = [kind |-> "data", v |-> bulk'.moved[Len(bulk'.moved)]]
  BY <1>1, <1>8
<1>14. ramdisk' = Overlaid(k)'
  <2>1. ramdisk = Overlaid(k)
    BY <1>3, <1>10 DEF Receiving
  <2>2. Overlaid(k)' = Overlaid(k)
    BY <1>1, <1>8, <1>10 DEF Overlaid
  <2> QED
    BY <1>1, <2>1, <2>2 DEF massVars
<1>15. /\ UNCHANGED <<write_req, in2, ub2, mass_out_fsm, g_mass_req, Size>>
       /\ 2 \notin epint' /\ Asked' = Asked
  BY <1>1, <1>3, <1>8 DEF massVars, Receiving, Size, Asked
<1>16. Receiving'
  <2>1. Len(bulk'.moved) = k + (IF Arrived' THEN 1 ELSE 0)
    BY <1>5, <1>11
  <2>2. /\ bulk.c.op = "Write" /\ Size > 0 /\ in2 = None /\ Empty(ub2)
        /\ mass_out_fsm = "DATA" /\ g_mass_req = Asked
        /\ write_req = [spread |-> Size - write_req.recvd, recvd |-> write_req.recvd,
                        addr |-> bulk.c.blk * BlockPackets]
    BY <1>3 DEF Receiving
  <2>3. Size' = Size /\ bulk'.c = bulk.c /\ write_req' = write_req /\ Empty(ub2)'
        /\ in2' = None /\ mass_out_fsm' = "DATA" /\ g_mass_req' = Asked'
    BY <1>8, <1>15, <2>2 DEF Empty
  <2> QED
    BY <1>10, <1>12, <1>13, <1>14, <1>15, <2>1, <2>2, <2>3 DEF Receiving
<1> QED
  BY <1>8, <1>9, <1>16 DEF Phases

\* The host takes the packet of endpoint 2.
LEMMA BulkTaken ==
  ASSUME BulkInv, HostTake2
  PROVE  HostKnows' /\ ReadsBack' /\ Phases'
<1>1. /\ bulk.stage \in {"in", "status"} /\ in2 # None /\ in2' = None
      /\ epint' = epint \cup {2} /\ UNCHANGED <<pc, out3, massVars>>
      /\ Arrived' = Arrived
  BY DEF HostTake2, device, isrVars, Arrived
<1>2. HostKnows /\ bulk.c \in Commands
  BY <1>1 DEF BulkInv, HostKnows
<1>3. Len(bulk.moved) \in Nat /\ Size \in Nat
  BY <1>1, <1>2, LengthsAreNats
<1>4. CASE Sending
  <2>1. PICK n \in Nat : /\ Len(bulk.moved) = n /\ n + 1 <= Size
                         /\ ub2.count = n + 1
    <3>1. ub2.count = Len(bulk.moved) + 1 /\ ub2.count <= Size
      BY <1>1, <1>4 DEF Sending
    <3> QED
      BY <1>3, <3>1
  <2>2. PICK base : base = bulk.c.blk * BlockPackets
    OBVIOUS
  <2>3. /\ bulk.stage = "in" /\ shadow' = shadow
        /\ in2 = [kind |-> "data", v |-> ramdisk[base + n]]
        /\ ramdisk = shadow /\ bulk.c.op = "Read"
        /\ ub2 = [src |-> "disk", at |-> base, size |-> Size, count |-> n + 1]
    <3>1. n < Size
      BY <1>3, <2>1
    <3>2. bulk.stage = "in"
      BY <1>4, <2>1, <3>1 DEF Sending
    <3>3. shadow' = shadow
      BY <3>2 DEF HostTake2
    <3>4. ub2 = [src |-> "disk", at |-> base, size |-> Size, count |-> n + 1]
      BY <1>1, <1>4, <2>1, <2>2 DEF Sending
    <3>5. ub2.at = base
      BY <3>4
    <3> QED
      BY <1>1, <1>4, <2>1, <3>2, <3>3, <3>4, <3>5 DEF Sending
  <2>4. PICK v : v = ramdisk[base + n]
    OBVIOUS
  <2>5. bulk' = Moved(v)
    <3>1. in2.kind = "data" /\ in2.v = v
      BY <2>3, <2>4
    <3> QED
      BY <2>3, <3>1 DEF HostTake2
  <2>6. /\ bulk'.stage = (IF n + 1 = Size THEN "status" ELSE "in")
        /\ bulk'.c = bulk.c /\ bulk'.tag = bulk.tag
        /\ Len(bulk'.moved) = n + 1
        /\ DOMAIN bulk.moved = 1 .. n /\ DOMAIN bulk'.moved = 1 .. n + 1
        /\ bulk'.moved[n + 1] = v
        /\ \A i \in 1 .. n : bulk'.moved[i] = bulk.moved[i]
        /\ HostKnows'
    BY <1>2, <2>1, <2>3, <2>5, OneMore DEF HostKnows
  <2>7. ReadsBack'
    <3>1. bulk.c # None
      BY <1>2, CommandIsOne
    <3>2. \A i \in 1 .. n : bulk.moved[i] = shadow[base + i - 1]
      BY <2>2, <2>3, <2>6, <3>1 DEF BulkInv, ReadsBack
    <3>3. base \in Nat
      <4>1. bulk.c.blk \in Nat /\ BlockPackets \in Nat
        BY <1>2, UsbAssumption
      <4> QED
        BY <2>2, <4>1
    <3>4. v = shadow[base + (n + 1) - 1]
      <4>1. base + (n + 1) - 1 = base + n
        BY <2>1, <3>3
      <4> QED
        BY <2>3, <2>4, <4>1
    <3>5. \A i \in 1 .. n + 1 : bulk'.moved[i] = shadow[base + i - 1]
      <4> TAKE i \in 1 .. n + 1
      <4>1. CASE i = n + 1
        BY <2>6, <3>4, <4>1
      <4>2. CASE i # n + 1
        <5>1. i \in 1 .. n
          BY <2>1, <4>2
        <5> QED
          BY <2>6, <3>2, <5>1
      <4> QED
        BY <4>1, <4>2
    <3> QED
      BY <2>2, <2>3, <2>6, <3>5 DEF ReadsBack
  <2>8. Sending'
    <3>1. n + 1 < Size <=> n + 1 # Size
      BY <1>3, <2>1
    <3>2. bulk'.stage = IF Len(bulk'.moved) < Size THEN "in" ELSE "status"
      BY <2>6, <3>1
    <3>3. Size' = Size /\ Asked' = Asked /\ bulk'.c.blk * BlockPackets = base
      BY <2>2, <2>6 DEF Size, Asked
    <3>4. ub2' = [src |-> "disk", at |-> base, size |-> Size,
                  count |-> Len(bulk'.moved) + 0]
      <4>1. Len(bulk'.moved) + 0 = n + 1
        BY <2>1, <2>6
      <4> QED
        BY <1>1, <2>3, <4>1 DEF massVars
    <3>5. ub2'.count <= Size
      BY <1>1, <2>1 DEF massVars
    <3>6. in2' = None /\ 2 \in epint'
      BY <1>1
    <3>7. /\ bulk.c.op = "Read" /\ Size > 0 /\ ~Arrived /\ mass_out_fsm = "CMD"
          /\ g_mass_req = Asked /\ ramdisk = shadow
      BY <1>4 DEF Sending
    <3> QED
      BY <1>1, <2>3, <2>6, <3>2, <3>3, <3>4, <3>5, <3>6, <3>7 DEF Sending, massVars
  <2> QED
    BY <2>6, <2>7, <2>8 DEF Phases
<1>5. CASE Informing
  <2>1. /\ bulk.stage = "in" /\ in2.kind = "info" /\ in2.last = Empty(ub2)
        /\ bulk' = (IF Empty(ub2) THEN [bulk EXCEPT !.stage = "status"] ELSE bulk)
        /\ shadow' = shadow
    <3>1. bulk.stage = "in" /\ in2 = [kind |-> "info", last |-> Empty(ub2)]
      BY <1>1, <1>5 DEF Informing
    <3>2. in2.kind = "info" /\ in2.last = Empty(ub2)
      BY <3>1
    <3> QED
      BY <3>1, <3>2 DEF HostTake2
  <2>2. HostKnows' /\ bulk'.c = bulk.c /\ bulk'.tag = bulk.tag /\ bulk'.moved = bulk.moved
        /\ bulk'.stage = IF Empty(ub2) THEN "status" ELSE "in"
    BY <1>2, <2>1 DEF HostKnows
  <2>3. ReadsBack'
    BY <2>1, <2>2 DEF BulkInv, ReadsBack
  <2>4. /\ ub2' = ub2 /\ Empty(ub2)' = Empty(ub2) /\ Asked' = Asked
        /\ InfoPackets(bulk.c)' = InfoPackets(bulk.c)
    BY <1>1, <2>2 DEF massVars, Empty, Asked, InfoPackets
  <2> QED
    BY <1>1, <1>5, <2>1, <2>2, <2>3, <2>4 DEF Informing, massVars, Phases
<1>6. CASE Ending
  <2>1. in2.kind = "csw" /\ g_mass_req.flg = FALSE /\ Empty(ub2) /\ ~Arrived
        /\ mass_out_fsm = "CMD"
    BY <1>6 DEF Ending, NoRequest
  <2>2. CASE bulk.stage = "in"
    <3>1. /\ bulk' = [bulk EXCEPT !.stage = "status"] /\ shadow' = shadow
          /\ bulk.c.op = "Read" /\ ramdisk = shadow
      BY <1>6, <2>1, <2>2 DEF Ending, HostTake2
    <3>2. HostKnows' /\ bulk'.stage = "status" /\ bulk'.c = bulk.c /\ bulk'.moved = bulk.moved
      BY <1>2, <3>1 DEF HostKnows
    <3>3. ReadsBack'
      BY <3>1, <3>2 DEF BulkInv, ReadsBack
    <3> QED
      BY <1>1, <2>1, <3>1, <3>2, <3>3 DEF Resting, massVars, Empty, Phases
  <2>3. CASE bulk.stage = "status"
    <3>1. /\ bulk' = [bulk EXCEPT !.stage = "idle"]
          /\ shadow' = IF bulk.c.op = "Write" THEN Written(bulk.c, bulk.moved) ELSE shadow
          /\ ramdisk' = shadow'
      BY <1>1, <1>6, <2>1, <2>3 DEF Ending, HostTake2, massVars
    <3>2. /\ bulk'.stage = "idle" /\ bulk'.c = bulk.c /\ bulk'.moved = bulk.moved
          /\ bulk' = [stage |-> bulk'.stage, c |-> bulk'.c, tag |-> bulk'.tag,
                      moved |-> bulk'.moved]
      BY <1>2, <3>1 DEF HostKnows
    <3>3. shadow' = [i \in Packets |-> shadow'[i]]
      <4>1. DOMAIN shadow = Packets /\ shadow = [i \in Packets |-> shadow[i]]
        BY <1>2 DEF HostKnows
      <4> QED
        BY <3>1, <4>1 DEF Written
    <3>4. HostKnows'
      BY <1>2, <3>2, <3>3 DEF HostKnows
    <3>5. ReadsBack'
      BY <3>1, <3>2 DEF BulkInv, ReadsBack
    <3> QED
      BY <1>1, <2>1, <3>1, <3>2, <3>4, <3>5 DEF Resting, massVars, Empty, Phases
  <2> QED
    BY <1>1, <2>2, <2>3
<1>7. ~(Resting \/ Commanded \/ Receiving)
  BY <1>1 DEF Resting, Commanded, Receiving
<1> QED
  BY <1>4, <1>5, <1>6, <1>7 DEF BulkInv

LEMMA BulkReset ==
  ASSUME BulkInv, HostReset
  PROVE  HostKnows' /\ ReadsBack' /\ Phases'
<1>1. /\ in2 = None /\ out3 = None /\ epint = {} /\ mass_out_fsm = "CMD"
      /\ bulk' = [bulk EXCEPT !.stage = "idle"]
      /\ UNCHANGED <<pc, epint, out3, in2, massVars, shadow>>
  BY DEF HostReset, Quiet, isrVars
<1>2. Resting
  <2>3. ~Arrived /\ 2 \notin epint
    BY <1>1 DEF Arrived
  <2>1. ~Commanded /\ ~Receiving /\ ~Sending /\ ~Informing
    <3>1. ~Commanded
      BY <2>3 DEF Commanded
    <3>2. ~Receiving
      BY <1>1 DEF Receiving
    <3>3. ~Sending
      BY <1>1, <2>3 DEF Sending
    <3>4. ~Informing
      BY <1>1, <2>3 DEF Informing
    <3> QED
      BY <3>1, <3>2, <3>3, <3>4
  <2>2. ~Ending
    BY <1>1 DEF Ending, None
  <2> QED
    BY <2>1, <2>2 DEF BulkInv
<1>3. HostKnows' /\ bulk'.stage = "idle" /\ bulk'.c = bulk.c /\ bulk'.moved = bulk.moved
  BY <1>1 DEF BulkInv, HostKnows
<1>4. ReadsBack'
  BY <1>1, <1>3 DEF BulkInv, ReadsBack
<1>5. Resting'
  BY <1>1, <1>2, <1>3 DEF Resting, Arrived, massVars, Empty
<1> QED
  BY <1>3, <1>4, <1>5 DEF Phases

\* A packet that is not served yet finds endpoint 2 empty.
LEMMA ArrivedAlone == ASSUME BulkInv, Arrived PROVE in2 = None
BY DEF BulkInv, Resting, Commanded, Receiving, Sending, Informing, Ending

LEMMA BulkStep ==
  ASSUME NormalCommands, BulkInv, [UsbNext]_usbVars
  PROVE  BulkInv'
<1>1. ASSUME HostKnows' /\ ReadsBack' /\ Phases', Snapshots' PROVE BulkInv'
  BY <1>1 DEF BulkInv, Phases
<1>2. CASE IsrUsbd
  <2>1. Snapshots'
    BY <1>2, SnapshotsIsr DEF BulkInv
  <2>2. CASE IsrEnter
    <3>1. UNCHANGED <<out3, in2, massVars, bulk, shadow>>
      BY <2>2 DEF IsrEnter, hostVars
    <3>2. Arrived' = Arrived
      BY <2>2, <3>1 DEF IsrEnter, Arrived
    <3>3. 2 \in epint' <=> 2 \in epint
      BY <2>2 DEF IsrEnter, BulkInv, Snapshots
    <3> QED
      BY <1>1, <2>1, <3>1, <3>2, <3>3, BulkStays
  <2>3. CASE IsrEp0
    <3>1. /\ UNCHANGED <<out3, in2, massVars, bulk, shadow>>
          /\ epint' = epint \/ epint' = epint \ {0}
      BY <2>3 DEF IsrEp0, hostVars
    <3>2. Arrived' = Arrived
      BY <2>3, <3>1 DEF IsrEp0, Arrived
    <3> QED
      BY <1>1, <2>1, <3>1, <3>2, BulkStays
  <2>4. CASE IsrEpx
    BY <1>1, <2>1, <2>4, BulkIn, BulkOut
  <2>5. CASE IsrClear
    <3>1. /\ UNCHANGED <<epint, in2, massVars, bulk, shadow>>
          /\ ~Arrived /\ ~Arrived'
      BY <2>5 DEF IsrClear, hostVars, Arrived
    <3>2. Arrived' = Arrived /\ (2 \in epint' <=> 2 \in epint)
      BY <2>5, <3>1 DEF Arrived, IsrClear
    <3> QED
      BY <1>1, <2>1, <3>1, <3>2, BulkStays
  <2> QED
    BY <1>2, <2>2, <2>3, <2>4, <2>5 DEF IsrUsbd
<1>3. CASE HostGoesOn \/ HostReset \/ (\E r \in Requests : HostSetup(r))
           \/ \E c \in Commands : HostCommand(c)
  <2>1. Snapshots'
    BY <1>3, SnapshotsHost, ArrivedAlone DEF BulkInv
  <2>2. CASE HostTake0 \/ HostEarly \/ HostStatus0 \/ \E r \in Requests : HostSetup(r)
    <3>1. /\ UNCHANGED <<pc, out3, in2, massVars, bulk, shadow>>
          /\ epint' = epint \cup {0}
      BY <2>2 DEF HostTake0, HostEarly, HostStatus0, HostSetup, device, isrVars
    <3>2. Arrived' = Arrived
      BY <3>1 DEF Arrived
    <3> QED
      BY <1>1, <2>1, <3>1, <3>2, BulkStays
  <2>3. CASE HostTake2
    BY <1>1, <2>1, <2>3, BulkTaken
  <2>4. CASE \E v \in Values : HostSend(v)
    BY <1>1, <2>1, <2>4, BulkSent
  <2>5. CASE \E c \in Commands : HostCommand(c)
    BY <1>1, <2>1, <2>5, BulkStart
  <2>6. CASE HostReset
    BY <1>1, <2>1, <2>6, BulkReset
  <2> QED
    BY <1>3, <2>2, <2>3, <2>4, <2>5, <2>6 DEF HostGoesOn
<1>4. CASE UNCHANGED usbVars
  <2>1. UNCHANGED <<pc, pend, epint, busReset, dataEnd, ctl, out3, in2, massVars, bulk, shadow>>
    BY <1>4 DEF usbVars, isrVars, ep0Vars, hostVars
  <2>2. Arrived' = Arrived
    BY <2>1 DEF Arrived
  <2>3. Snapshots'
    BY <2>1, <2>2 DEF BulkInv, Snapshots
  <2> QED
    BY <1>1, <2>1, <2>2, <2>3, BulkStays
<1> QED
  BY <1>2, <1>3, <1>4 DEF UsbNext

-----------------------------------------------------------------------------
(* Endpoint 0 *)

\* The length of a reply, against what the host asked for
LEMMA ReplyFacts ==
  ASSUME NormalRequests, NEW r \in Requests
  PROVE  /\ Reply(r) \in Nat /\ r.wLength \in Nat
         /\ r.wLength >= Reply(r) => Least(r.wLength, FullLength(r)) = Reply(r)
         /\ r.wLength < Reply(r) => /\ Least(r.wLength, FullLength(r)) = r.wLength
                                    /\ r.wLength > 0 /\ r.wLength % 8 = 0
<1>1. PICK w \in Nat : w = r.wLength
  BY UsbAssumption
<1>2. w >= Reply(r) \/ (w > 0 /\ w % 8 = 0)
  BY <1>1 DEF NormalRequests, EP0_PKT_SIZE
<1>3. CASE r.name = "config"
  <2>1. Reply(r) = (IF w > 9 THEN 39 ELSE 9) /\ FullLength(r) = 39
    BY <1>1, <1>3 DEF Reply, FullLength
  <2> QED
    BY <1>1, <1>2, <2>1 DEF Least
<1>4. CASE r.name = "string"
  <2>1. Reply(r) = Least(w, 20) /\ FullLength(r) = 20
    BY <1>1, <1>4 DEF Reply, FullLength
  <2> QED
    BY <1>1, <1>2, <2>1 DEF Least
<1>5. CASE r.name = "string0"
  <2>1. Reply(r) = Least(w, 4) /\ FullLength(r) = Least(w, 4)
    BY <1>1, <1>5 DEF Reply, FullLength
  <2> QED
    BY <1>1, <1>2, <2>1 DEF Least
<1>6. CASE r.name \notin {"config", "string", "string0"}
  <2>1. PICK k \in Nat : Reply(r) = k
    BY <1>6 DEF Reply
  <2>2. FullLength(r) = k
    BY <1>6, <2>1 DEF FullLength, Reply
  <2> QED
    BY <1>1, <1>2, <2>1, <2>2 DEF Least
<1> QED
  BY <1>3, <1>4, <1>5, <1>6

LEMMA Ep0Init == UsbInit => Ep0Inv
BY DEF UsbInit, Ep0Inv, Ep0Idle

\* What happens on the bulk endpoints leaves endpoint 0 alone.
LEMMA Ep0Stays ==
  ASSUME Ep0Inv, UNCHANGED <<ep0Vars, ctl, busReset>>
  PROVE  Ep0Inv'
<1>1. UNCHANGED <<out0, in0, setupEnd, dataEnd, usbd_state, ep0State, ub0, ctl, busReset>>
  BY DEF ep0Vars
<1>2. Ep0Idle => Ep0Idle'
  BY <1>1 DEF Ep0Idle, Delivered, CutShort
<1>3. Ep0Asked => Ep0Asked'
  BY <1>1 DEF Ep0Asked
<1>4. Ep0Silent => Ep0Silent'
  BY <1>1 DEF Ep0Silent, Delivered, CutShort
<1>5. Ep0First => Ep0First'
  BY <1>1 DEF Ep0First, NoTransfer, CutShort
<1>6. Ep0Replying => Ep0Replying'
  BY <1>1 DEF Ep0Replying, NoTransfer, CutShort
<1>7. Ep0Early => Ep0Early'
  BY <1>1 DEF Ep0Early, NoTransfer, Delivered, CutShort
<1> QED
  BY <1>1, <1>2, <1>3, <1>4, <1>5, <1>6, <1>7 DEF Ep0Inv

\* A packet of u into endpoint 0
LEMMA OnePacket ==
  ASSUME NEW u, NEW size \in Nat, NEW count \in Nat, NEW r, count <= size,
         u = [of |-> r, size |-> size, count |-> count], Transmit(u)
  PROVE  \/ /\ size - count >= 8
            /\ in0' = [of |-> r, n |-> 8, last |-> FALSE]
            /\ ub0' = [of |-> r, size |-> size, count |-> count + 8]
            /\ ep0State' = "TRANSMIT"
         \/ /\ size - count < 8
            /\ in0' = [of |-> r, n |-> size - count, last |-> TRUE]
            /\ ub0' = [of |-> r, size |-> size, count |-> size]
            /\ ep0State' = "INIT"
<1>1. PICK n : n = Least(size - count, 8)
  OBVIOUS
<1>2. u.of = r /\ u.size = size /\ u.count = count
  OBVIOUS
<1>3. /\ in0' = [of |-> r, n |-> n, last |-> n < 8]
      /\ ub0' = [u EXCEPT !.count = @ + n]
      /\ ep0State' = IF n < 8 THEN "INIT" ELSE "TRANSMIT"
  BY <1>1, <1>2 DEF Transmit, EP0_PKT_SIZE
<1>4. ub0' = [of |-> r, size |-> size, count |-> count + n]
  BY <1>3
<1>5. CASE size - count >= 8
  <2>1. n = 8
    BY <1>1, <1>5 DEF Least
  <2>2. (n < 8) = FALSE
    BY <2>1
  <2> QED
    BY <1>3, <1>4, <1>5, <2>1, <2>2
<1>6. CASE size - count < 8
  <2>1. n = size - count /\ count + n = size
    BY <1>1, <1>6 DEF Least
  <2>2. (n < 8) = TRUE
    BY <1>6, <2>1
  <2> QED
    BY <1>3, <1>4, <1>6, <2>1, <2>2
<1> QED
  BY <1>5, <1>6

\* A request is answered, or kept without an answer.
LEMMA Ep0Request ==
  ASSUME NormalRequests, Ep0Inv, Ep0Asked, Request(ctl.r), UNCHANGED <<ctl, busReset>>
  PROVE  Ep0Inv'
<1> DEFINE r == ctl.r
<1>1. /\ ctl.stage = "asked" /\ r \in Requests /\ ctl.got = 0 /\ in0 = None
      /\ ~setupEnd /\ ~dataEnd /\ ep0State = "INIT"
      /\ ctl.board = usbd_state
  BY DEF Ep0Asked
<1>2. out0' = None /\ setupEnd' = setupEnd /\ ctl' = ctl
  BY DEF Request
<1>3. r.wLength \in Nat /\ Reply(r) \in Nat
  BY <1>1, ReplyFacts
<1>4. /\ ctl' = [stage |-> ctl'.stage, r |-> ctl'.r, got |-> ctl'.got, board |-> ctl'.board]
      /\ ub0' = ub0 => ub0' = [of |-> ub0'.of, size |-> ub0'.size, count |-> ub0'.count]
  BY <1>2 DEF Ep0Inv
<1>5. CASE r.name \in Outputs
  <2>1. r.name \notin {"device", "config", "string0", "string", "interface", "endpoint",
                       "get_status", "get_configuration", "get_interface", "max_lun"}
    BY <1>5 DEF Outputs
  <2>2. FullLength(r) = 0 /\ ~CutShort(ctl)
    BY <2>1 DEF FullLength, Reply, CutShort
  <2>3. Delivered(ctl) = 0 /\ Delivered(ctl)' = Delivered(ctl)
    BY <1>2, <1>3, <2>2 DEF Least, Delivered, CutShort
  <2>4. r.name \notin Stopping /\ r.name \notin Unanswered
    BY <1>5 DEF Outputs, Stopping, Unanswered
  <2>5. Output(r)
    BY <1>5, <2>1, <2>4 DEF Request
  <2>6. ep0State' = "INIT" /\ in0' = in0 /\ ub0' = ub0
    BY <2>5 DEF Output
  <2> QED
    BY <1>1, <1>2, <1>4, <2>3, <2>6 DEF Ep0Silent, Ep0Inv
<1>6. CASE r.name \in Stopping \cup Unanswered
  <2>1. r.name \notin Outputs /\ ~(r.name = "device" /\ usbd_state = "DEFAULT")
        /\ ~(r.name \in Stopping /\ r.name \in Unanswered)
    BY <1>6 DEF Outputs, Stopping, Unanswered
  <2>2. UNCHANGED <<in0, dataEnd, ep0State, ub0>>
    BY <1>6, <2>1 DEF Request
  <2> QED
    BY <1>1, <1>2, <1>4, <2>2 DEF Ep0Silent, Ep0Inv
<1>7. CASE r.name = "device" /\ usbd_state = "DEFAULT"
  <2>1. r.name \notin Outputs /\ r.name \notin Stopping /\ r.name \notin Unanswered
    BY <1>7 DEF Outputs, Stopping, Unanswered
  <2>2. FirstDescriptor(r)
    BY <1>7, <2>1 DEF Request
  <2>3. in0' = [of |-> r, n |-> 8, last |-> TRUE] /\ UNCHANGED <<dataEnd, ep0State, ub0>>
    BY <2>2 DEF FirstDescriptor, EP0_PKT_SIZE
  <2>4. CutShort(ctl)'
    BY <1>1, <1>2, <1>7 DEF CutShort
  <2> QED
    BY <1>1, <1>2, <1>4, <1>7, <2>3, <2>4 DEF Ep0First, NoTransfer, Ep0Inv
<1>8. CASE /\ r.name \notin Outputs \cup Stopping \cup Unanswered
           /\ ~(r.name = "device" /\ usbd_state = "DEFAULT")
  <2>1. Input(r) /\ ~CutShort(ctl)'
    BY <1>1, <1>2, <1>8 DEF Request, CutShort
  <2>2. PICK size \in Nat : size = Reply(r)
    BY <1>3
  <2>3. Transmit([of |-> r, size |-> size, count |-> 0]) /\ dataEnd' = dataEnd
    BY <2>1, <2>2 DEF Input
  <2>4. 0 <= size /\ 0 \in Nat /\ size - 0 = size
    BY <2>2
  <2>5. \/ /\ size - 0 >= 8
           /\ in0' = [of |-> r, n |-> 8, last |-> FALSE]
           /\ ub0' = [of |-> r, size |-> size, count |-> 0 + 8]
           /\ ep0State' = "TRANSMIT"
        \/ /\ size - 0 < 8
           /\ in0' = [of |-> r, n |-> size - 0, last |-> TRUE]
           /\ ub0' = [of |-> r, size |-> size, count |-> size]
           /\ ep0State' = "INIT"
    BY <2>2, <2>3, <2>4, OnePacket
  <2>6. ub0' = [of |-> ub0'.of, size |-> ub0'.size, count |-> ub0'.count]
        /\ ub0'.of = r /\ ub0'.size = size
    BY <2>5
  <2>7. ctl'.got % 8 = 0 /\ ctl'.got = 0
    BY <1>1, <1>2
  <2>8. Ep0Replying'
    <3>1. \/ /\ in0' = [of |-> r, n |-> 8, last |-> FALSE]
             /\ ub0'.count = ctl'.got + 8 /\ ep0State' = "TRANSMIT"
          \/ /\ in0' = [of |-> r, n |-> ub0'.size - ctl'.got, last |-> TRUE]
             /\ ub0'.size - ctl'.got < 8
             /\ ub0'.count = ub0'.size /\ ep0State' = "INIT"
      BY <2>4, <2>5, <2>7
    <3>2. ub0'.count \in Nat /\ ub0'.count <= ub0'.size
      BY <2>2, <2>4, <2>5
    <3>3. ctl'.stage = "asked" /\ ctl'.r = r /\ ~CutShort(ctl)' /\ r \in Requests
          /\ ~setupEnd' /\ ~dataEnd' /\ out0' = None /\ ub0'.size = Reply(ctl'.r)
      BY <1>1, <1>2, <2>1, <2>2, <2>3, <2>6
    <3> QED
      BY <2>6, <2>7, <3>1, <3>2, <3>3 DEF Ep0Replying, NoTransfer, EP0_PKT_SIZE
  <2> QED
    BY <1>4, <2>6, <2>8 DEF Ep0Inv
<1> QED
  BY <1>5, <1>6, <1>7, <1>8

\* The next packet of a reply, also after the host has all that it wants
LEMMA Ep0Next ==
  ASSUME NormalRequests, Ep0Inv, NextPacket, Ep0Replying \/ Ep0Early,
         UNCHANGED <<ctl, busReset>>
  PROVE  Ep0Inv'
<1>1. /\ in0 = None /\ Transmit(ub0) /\ UNCHANGED <<out0, setupEnd, dataEnd, ctl>>
  BY DEF NextPacket
<1>2. ctl' = [stage |-> ctl'.stage, r |-> ctl'.r, got |-> ctl'.got, board |-> ctl'.board]
  BY <1>1 DEF Ep0Inv
<1>3. ub0 = [of |-> ub0.of, size |-> ub0.size, count |-> ub0.count]
  BY DEF Ep0Inv
<1>4. CASE Ep0Replying
  <2>1. PICK r \in Requests : r = ctl.r
    BY <1>4 DEF Ep0Replying
  <2>2. PICK size \in Nat, got \in Nat : size = Reply(r) /\ got = ctl.got
    BY <1>4, <2>1, ReplyFacts DEF Ep0Replying
  <2>3. got <= size /\ ub0 = [of |-> r, size |-> size, count |-> got] /\ got % 8 = 0
    <3>1. ub0.count = ctl.got
      BY <1>1, <1>4, ReplyIsOne DEF Ep0Replying
    <3> QED
      BY <1>3, <1>4, <2>1, <2>2, <3>1 DEF Ep0Replying, EP0_PKT_SIZE
  <2>4. \/ /\ size - got >= 8
           /\ in0' = [of |-> r, n |-> 8, last |-> FALSE]
           /\ ub0' = [of |-> r, size |-> size, count |-> got + 8]
           /\ ep0State' = "TRANSMIT"
        \/ /\ size - got < 8
           /\ in0' = [of |-> r, n |-> size - got, last |-> TRUE]
           /\ ub0' = [of |-> r, size |-> size, count |-> size]
           /\ ep0State' = "INIT"
    BY <1>1, <2>2, <2>3, OnePacket
  <2>5. ub0' = [of |-> ub0'.of, size |-> ub0'.size, count |-> ub0'.count]
        /\ ub0'.of = r /\ ub0'.size = size
    BY <2>4
  <2>6. \/ /\ in0' = [of |-> r, n |-> 8, last |-> FALSE]
           /\ ub0'.count = got + 8 /\ ep0State' = "TRANSMIT"
        \/ /\ in0' = [of |-> r, n |-> ub0'.size - got, last |-> TRUE]
           /\ ub0'.size - got < 8
           /\ ub0'.count = ub0'.size /\ ep0State' = "INIT"
    BY <2>4
  <2>7. ub0'.count \in Nat /\ ub0'.count <= ub0'.size
    <3>1. CASE size - got >= 8
      <4>1. got + 8 \in Nat /\ got + 8 <= size
        BY <2>2, <3>1
      <4> QED
        BY <2>4, <2>5, <3>1, <4>1
    <3>2. CASE size - got < 8
      BY <2>2, <2>4, <3>2
    <3> QED
      BY <2>2, <3>1, <3>2
  <2>8. Ep0Replying'
    <3>1. /\ ctl.stage = "asked" /\ out0 = None /\ ~setupEnd /\ ~dataEnd
          /\ ~CutShort(ctl)' /\ (ctl.got = 0 \/ ctl.got < ctl.r.wLength)
      BY <1>1, <1>4 DEF Ep0Replying, NoTransfer, CutShort
    <3> QED
      BY <1>1, <2>1, <2>2, <2>3, <2>5, <2>6, <2>7, <3>1
      DEF Ep0Replying, NoTransfer, EP0_PKT_SIZE
  <2> QED
    BY <1>2, <2>5, <2>8 DEF Ep0Inv
<1>5. CASE Ep0Early
  <2>1. PICK n, l : in0' = [of |-> ub0.of, n |-> n, last |-> l]
    BY <1>1 DEF Transmit
  <2>2. PICK m : ub0' = [ub0 EXCEPT !.count = m]
    BY <1>1 DEF Transmit
  <2>3. ub0' = [of |-> ub0.of, size |-> ub0.size, count |-> m]
    BY <1>3, <2>2
  <2>4. ub0'.of = ub0.of /\ in0'.of = ub0.of
        /\ ub0' = [of |-> ub0'.of, size |-> ub0'.size, count |-> ub0'.count]
    BY <2>1, <2>3
  <2>5. Ep0Early'
    BY <1>1, <1>5, <2>4 DEF Ep0Early, NoTransfer, Delivered, CutShort
  <2> QED
    BY <1>2, <2>4, <2>5 DEF Ep0Inv
<1> QED
  BY <1>4, <1>5

LEMMA Ep0Served ==
  ASSUME NormalRequests, BulkInv, Ep0Inv, IsrEp0
  PROVE  Ep0Inv'
<1>1. pc = "ep0" /\ ~busReset /\ busReset' = busReset /\ ctl' = ctl
  BY DEF IsrEp0, BulkInv, Snapshots, hostVars
<1>2. CASE 0 \notin pend
  BY <1>1, <1>2, Ep0Stays DEF IsrEp0
<1>3. CASE 0 \in pend
  <2>1. Ep0Handler
    BY <1>3 DEF IsrEp0
  <2>2. CASE Ep0Idle
    <3>1. CASE setupEnd
      <4>1. SetupEnd
        BY <2>1, <3>1 DEF Ep0Handler
      <4>2. /\ setupEnd' = FALSE /\ out0' = None /\ ep0State' = "INIT"
            /\ UNCHANGED <<in0, dataEnd, usbd_state, ub0>>
        BY <4>1 DEF SetupEnd
      <4>3. Ep0Idle'
        BY <1>1, <2>2, <4>2 DEF Ep0Idle, Delivered, CutShort
      <4> QED
        BY <1>1, <4>2, <4>3 DEF Ep0Inv
    <3>2. CASE ~setupEnd
      <4>1. out0 = None /\ ep0State = "INIT"
        BY <1>1, <2>2, <3>2 DEF Ep0Idle
      <4>2. UNCHANGED <<ep0Vars, halted>>
        BY <2>1, <3>2, <4>1 DEF Ep0Handler
      <4> QED
        BY <1>1, <4>2, Ep0Stays
    <3> QED
      BY <3>1, <3>2
  <2>3. CASE Ep0Asked
    <3>1. ctl.r \in Requests /\ out0 = ctl.r /\ ~setupEnd
      BY <2>3 DEF Ep0Asked
    <3>2. out0 # None
      BY <3>1, RequestIsOne
    <3>3. Request(ctl.r)
      BY <2>1, <3>1, <3>2 DEF Ep0Handler
    <3> QED
      BY <1>1, <2>3, <3>3, Ep0Request
  <2>4. CASE Ep0Silent \/ Ep0First
    <3>1. out0 = None /\ ~setupEnd /\ ep0State = "INIT"
      BY <2>4 DEF Ep0Silent, Ep0First, NoTransfer
    <3>2. UNCHANGED <<ep0Vars, halted>>
      BY <2>1, <3>1 DEF Ep0Handler
    <3> QED
      BY <1>1, <3>2, Ep0Stays
  <2>5. CASE Ep0Replying \/ Ep0Early
    <3>1. out0 = None /\ ~setupEnd
      BY <2>5 DEF Ep0Replying, Ep0Early, NoTransfer
    <3>2. NextPacket \/ UNCHANGED <<ep0Vars, halted>>
      BY <2>1, <3>1 DEF Ep0Handler
    <3> QED
      BY <1>1, <2>5, <3>2, Ep0Next, Ep0Stays
  <2> QED
    BY <2>2, <2>3, <2>4, <2>5 DEF Ep0Inv
<1> QED
  BY <1>2, <1>3

\* A control request begins.
LEMMA Ep0Start ==
  ASSUME Ep0Inv, NEW r \in Requests, HostSetup(r)
  PROVE  Ep0Inv'
<1>1. /\ ctl.stage = "idle" /\ ~busReset /\ ~setupEnd
      /\ out0' = r /\ UNCHANGED <<busReset, usbd_state, ep0State, ub0, in0, setupEnd, dataEnd>>
      /\ ctl' = [stage |-> "asked", r |-> r, got |-> 0, board |-> usbd_state]
  BY DEF HostSetup, device
<1>2. Ep0Idle
  BY <1>1 DEF Ep0Inv, Ep0Asked, Ep0Silent, Ep0First, Ep0Replying, Ep0Early
<1>3. Ep0Asked'
  BY <1>1, <1>2 DEF Ep0Idle, Ep0Asked
<1> QED
  BY <1>1, <1>3 DEF Ep0Inv

\* Fields of the control transfer when the host takes a packet
LEMMA TransferFields ==
  ASSUME Ep0Inv, NEW g, NEW s, ctl' = [ctl EXCEPT !.got = g, !.stage = s]
  PROVE  /\ ctl'.got = g /\ ctl'.stage = s /\ ctl'.r = ctl.r /\ ctl'.board = ctl.board
         /\ ctl' = [stage |-> ctl'.stage, r |-> ctl'.r, got |-> ctl'.got, board |-> ctl'.board]
<1>1. PICK a, b, c, d : ctl = [stage |-> a, r |-> b, got |-> c, board |-> d]
  BY DEF Ep0Inv
<1>2. ctl' = [stage |-> s, r |-> b, got |-> g, board |-> d]
  BY <1>1
<1>3. ctl.r = b /\ ctl.board = d
  BY <1>1
<1> QED
  BY <1>2, <1>3

\* The host takes a packet of a reply.
LEMMA Ep0Taken ==
  ASSUME NormalRequests, Ep0Inv, HostTake0
  PROVE  Ep0Inv'
<1>1. /\ ctl.stage = "asked" /\ in0 # None /\ in0' = None
      /\ UNCHANGED <<busReset, usbd_state, ep0State, ub0, out0, setupEnd, dataEnd>>
  BY DEF HostTake0, device
<1>2. PICK g, s :
        /\ g = ctl.got + in0.n
        /\ s = IF in0.last THEN "idle" ELSE IF g >= ctl.r.wLength THEN "early" ELSE "asked"
        /\ ctl' = [ctl EXCEPT !.got = g, !.stage = s]
  BY DEF HostTake0, Ep0Inv
<1>3. /\ ctl'.got = g /\ ctl'.stage = s /\ ctl'.r = ctl.r /\ ctl'.board = ctl.board
      /\ ctl' = [stage |-> ctl'.stage, r |-> ctl'.r, got |-> ctl'.got, board |-> ctl'.board]
      /\ ub0' = [of |-> ub0'.of, size |-> ub0'.size, count |-> ub0'.count]
  BY <1>1, <1>2, TransferFields DEF Ep0Inv
<1>4. CASE Ep0First
  <2>1. /\ CutShort(ctl) /\ ctl.got = 0
        /\ in0 = [of |-> ctl.r, n |-> 8, last |-> TRUE]
        /\ out0 = None /\ ~setupEnd /\ ~dataEnd /\ ep0State = "INIT"
    BY <1>4 DEF Ep0First, NoTransfer
  <2>2. in0.n = 8 /\ in0.last
    BY <2>1
  <2>3. g = 8 /\ s = "idle"
    BY <1>2, <2>1, <2>2
  <2>4. Delivered(ctl)' = 8
    BY <1>3, <2>1 DEF Delivered, CutShort, EP0_PKT_SIZE
  <2>5. Ep0Idle'
    BY <1>1, <1>3, <2>1, <2>3, <2>4 DEF Ep0Idle
  <2> QED
    BY <1>3, <2>5 DEF Ep0Inv
<1>5. CASE Ep0Replying
  <2>1. PICK r \in Requests : r = ctl.r
    BY <1>5 DEF Ep0Replying
  <2>2. PICK size \in Nat, w \in Nat, got \in Nat :
          size = Reply(r) /\ w = r.wLength /\ got = ctl.got
    BY <1>5, <2>1, ReplyFacts DEF Ep0Replying
  <2>3. /\ ~CutShort(ctl) /\ out0 = None /\ ~setupEnd /\ ~dataEnd
        /\ ub0.of = r /\ ub0.size = size /\ ub0.count \in Nat /\ ub0.count <= size
        /\ got % 8 = 0 /\ (got = 0 \/ got < w)
    BY <1>5, <2>1, <2>2 DEF Ep0Replying, NoTransfer, EP0_PKT_SIZE
  <2>4. /\ w >= size => Least(w, FullLength(r)) = size
        /\ w < size => Least(w, FullLength(r)) = w /\ w > 0 /\ w % 8 = 0
    BY <2>1, <2>2, ReplyFacts
  <2>7. ~CutShort(ctl)' /\ Delivered(ctl)' = Least(w, FullLength(r))
    BY <1>3, <2>1, <2>2, <2>3 DEF Delivered, CutShort
  <2>5. CASE /\ in0 = [of |-> r, n |-> 8, last |-> FALSE]
             /\ ub0.count = got + 8 /\ ep0State = "TRANSMIT"
    <3>1. in0.n = 8 /\ ~in0.last
      BY <2>5
    <3>2. g = got + 8 /\ s = IF g >= w THEN "early" ELSE "asked"
      BY <1>2, <2>1, <2>2, <3>1
    <3>3. g \in Nat /\ g % 8 = 0 /\ g <= size
      BY <2>2, <2>3, <2>5, <3>2
    <3>4. CASE g >= w
      <4>1. Least(w, FullLength(r)) = g
        <5>1. CASE w >= size
          BY <2>2, <2>4, <3>3, <3>4, <5>1
        <5>2. CASE w < size
          <6>1. got < w /\ w % 8 = 0
            BY <2>2, <2>3, <2>4, <5>2
          <6>2. got + 8 <= w
            BY <2>2, <2>3, <6>1
          <6> QED
            BY <2>2, <2>4, <3>2, <3>3, <3>4, <5>2, <6>2
        <5> QED
          BY <2>2, <5>1, <5>2
      <4>2. Ep0Early'
        BY <1>1, <1>3, <2>1, <2>3, <2>7, <3>2, <3>4, <4>1 DEF Ep0Early, NoTransfer
      <4> QED
        BY <1>3, <4>2 DEF Ep0Inv
    <3>5. CASE ~(g >= w)
      <4>1. g < w
        BY <2>2, <3>3, <3>5
      <4>2. Ep0Replying'
        BY <1>1, <1>3, <2>1, <2>2, <2>3, <2>5, <2>7, <3>2, <3>3, <3>5, <4>1
        DEF Ep0Replying, NoTransfer, EP0_PKT_SIZE
      <4> QED
        BY <1>3, <4>2 DEF Ep0Inv
    <3> QED
      BY <3>4, <3>5
  <2>6. CASE /\ in0 = [of |-> r, n |-> size - got, last |-> TRUE]
             /\ size - got < 8 /\ ub0.count = size /\ ep0State = "INIT"
    <3>1. in0.n = size - got /\ in0.last
      BY <2>6
    <3>2. g = size /\ s = "idle"
      BY <1>2, <2>2, <3>1
    <3>3. w >= size
      <4>1. SUFFICES ASSUME w < size PROVE FALSE
        BY <2>2
      <4>2. got < w /\ w % 8 = 0
        BY <2>2, <2>3, <2>4, <4>1
      <4>3. got + 8 <= w
        BY <2>2, <2>3, <4>2
      <4> QED
        BY <2>2, <2>6, <4>1, <4>3
    <3>4. Ep0Idle'
      BY <1>1, <1>3, <2>1, <2>3, <2>4, <2>6, <2>7, <3>2, <3>3 DEF Ep0Idle
    <3> QED
      BY <1>3, <3>4 DEF Ep0Inv
  <2> QED
    <3>1. in0 # None
      BY <1>1
    <3> QED
      BY <1>5, <2>1, <2>2, <2>3, <2>5, <2>6, <3>1 DEF Ep0Replying, EP0_PKT_SIZE
<1>6. ~(Ep0Idle \/ Ep0Asked \/ Ep0Silent \/ Ep0Early)
  BY <1>1 DEF Ep0Idle, Ep0Asked, Ep0Silent, Ep0Early
<1> QED
  BY <1>4, <1>5, <1>6 DEF Ep0Inv

\* The host sends its status packet, or has the board's.
LEMMA Ep0Ended ==
  ASSUME Ep0Inv, BulkInv, HostEarly \/ HostStatus0
  PROVE  Ep0Inv'
<1>1. UNCHANGED <<busReset, usbd_state, ep0State, ub0>>
  BY DEF HostEarly, HostStatus0, device
<1>2. ctl' = [ctl EXCEPT !.stage = "idle"]
  BY DEF HostEarly, HostStatus0
<1>3. /\ ctl'.stage = "idle" /\ ctl'.r = ctl.r /\ ctl'.board = ctl.board /\ ctl'.got = ctl.got
      /\ ctl' = [stage |-> ctl'.stage, r |-> ctl'.r, got |-> ctl'.got, board |-> ctl'.board]
      /\ ub0' = [of |-> ub0'.of, size |-> ub0'.size, count |-> ub0'.count]
  BY <1>1, <1>2 DEF Ep0Inv
<1>4. CASE HostEarly
  <2>1. /\ ctl.stage = "early" /\ setupEnd' = TRUE /\ out0' = [kind |-> "status"]
        /\ in0' = None /\ dataEnd' = dataEnd
    BY <1>4 DEF HostEarly
  <2>2. Ep0Early
    BY <2>1 DEF Ep0Inv, Ep0Idle, Ep0Asked, Ep0Silent, Ep0First, Ep0Replying
  <2>3. Ep0Idle'
    BY <1>3, <2>1, <2>2 DEF Ep0Early, NoTransfer, Ep0Idle, Delivered, CutShort
  <2> QED
    BY <1>3, <2>3 DEF Ep0Inv
<1>5. CASE HostStatus0
  <2>1. dataEnd /\ dataEnd' = FALSE /\ UNCHANGED <<out0, in0, setupEnd>>
    BY <1>5 DEF HostStatus0
  <2>2. Ep0Silent
    BY <2>1 DEF Ep0Inv, Ep0Idle, Ep0Asked, Ep0First, Ep0Replying, Ep0Early, NoTransfer
  <2>3. Ep0Idle'
    BY <1>1, <1>3, <2>1, <2>2 DEF Ep0Silent, Ep0Idle, Delivered, CutShort
  <2> QED
    BY <1>3, <2>3 DEF Ep0Inv
<1> QED
  BY <1>4, <1>5

LEMMA Ep0Reset ==
  ASSUME Ep0Inv, HostReset
  PROVE  Ep0Inv'
<1>1. /\ in0 = None /\ out0 = None /\ ~setupEnd /\ ~dataEnd
      /\ busReset' = TRUE /\ UNCHANGED ep0Vars
      /\ ctl' = [ctl EXCEPT !.stage = "idle", !.r = None]
  BY DEF HostReset, Quiet
<1>2. PICK a, b, c, d : ctl = [stage |-> a, r |-> b, got |-> c, board |-> d]
  BY DEF Ep0Inv
<1>3. ctl' = [stage |-> "idle", r |-> None, got |-> c, board |-> d]
  BY <1>1, <1>2
<1>4. Ep0Idle'
  BY <1>1, <1>3 DEF Ep0Idle, ep0Vars
<1> QED
  BY <1>1, <1>3, <1>4 DEF Ep0Inv, ep0Vars

LEMMA Ep0Entered ==
  ASSUME Ep0Inv, BulkInv, IsrEnter
  PROVE  Ep0Inv'
<1>1. ctl' = ctl
  BY DEF IsrEnter, hostVars
<1>2. CASE busReset
  <2>1. busReset' = FALSE /\ ep0State' = "INIT" /\ UNCHANGED <<out0, in0, setupEnd, dataEnd, ub0>>
    BY <1>2 DEF IsrEnter
  <2>2. ctl.stage = "idle"
    BY <1>2 DEF BulkInv, Snapshots
  <2>3. Ep0Idle
    BY <2>2 DEF Ep0Inv, Ep0Asked, Ep0Silent, Ep0First, Ep0Replying, Ep0Early
  <2>4. Ep0Idle'
    BY <1>1, <2>1, <2>3 DEF Ep0Idle, Delivered, CutShort
  <2> QED
    BY <1>1, <2>1, <2>4 DEF Ep0Inv
<1>3. CASE ~busReset
  BY <1>1, <1>3, Ep0Stays DEF IsrEnter
<1> QED
  BY <1>2, <1>3

LEMMA Ep0Step ==
  ASSUME NormalRequests, Ep0Inv, BulkInv, [UsbNext]_usbVars
  PROVE  Ep0Inv'
<1>1. CASE IsrUsbd
  <2>1. CASE IsrEpx \/ IsrClear
    <3>1. UNCHANGED <<ep0Vars, ctl, busReset>>
      BY <2>1 DEF IsrEpx, IsrClear, hostVars
    <3> QED
      BY <3>1, Ep0Stays
  <2> QED
    BY <1>1, <2>1, Ep0Entered, Ep0Served DEF IsrUsbd
<1>2. CASE HostTake2 \/ (\E v \in Values : HostSend(v)) \/ (\E c \in Commands : HostCommand(c))
           \/ UNCHANGED usbVars
  <2>1. UNCHANGED <<ep0Vars, ctl, busReset>>
    BY <1>2 DEF HostTake2, HostSend, HostCommand, usbVars, device, hostVars
  <2> QED
    BY <2>1, Ep0Stays
<1>3. CASE HostTake0 \/ HostEarly \/ HostStatus0 \/ HostReset \/ \E r \in Requests : HostSetup(r)
  BY <1>3, Ep0Taken, Ep0Ended, Ep0Reset, Ep0Start
<1> QED
  BY <1>1, <1>2, <1>3 DEF UsbNext, HostGoesOn

-----------------------------------------------------------------------------
\* The disk, the packets on their way and what the host has of its command and of
\* its request fit together, whatever the handler and the host do in between.
THEOREM UsbInvariant ==
  ASSUME NormalRequests, NormalCommands PROVE UsbSpec => []UsbInv
<1>1. UsbInit => UsbInv
  BY SnapshotsInit, BulkInit, Ep0Init DEF UsbInv, BulkInv
<1>2. UsbInv /\ [UsbNext]_usbVars => UsbInv'
  BY BulkStep, Ep0Step DEF UsbInv
<1> QED
  BY <1>1, <1>2, PTL DEF UsbSpec

\* The host reads from the disk what it has written on it.
THEOREM ReadsReturnWhatWasWritten ==
  ASSUME NormalRequests, NormalCommands PROVE UsbSpec => []ReadsBack
<1>1. UsbInv => ReadsBack
  BY DEF UsbInv, BulkInv
<1> QED
  BY <1>1, UsbInvariant, PTL

\* Every status is for the command that waits for it; a good one comes after all
\* of the command's data.
THEOREM StatusesInTurn ==
  ASSUME NormalRequests, NormalCommands PROVE UsbSpec => []StatusInTurn
<1>1. UsbInv => StatusInTurn
  <2> SUFFICES ASSUME UsbInv, in2 # None
               PROVE  IF in2.kind # "csw" THEN bulk.stage = "in"
                      ELSE in2.tag = bulk.tag /\ (in2.status = 0 => bulk.stage = "status")
    BY DEF StatusInTurn
  <2>1. HostKnows /\ (Sending \/ Informing \/ Ending)
    BY DEF UsbInv, BulkInv, Resting, Commanded, Receiving
  <2>2. CASE Sending
    <3>1. ub2.count = Len(bulk.moved) + 1 /\ ub2.count <= Size /\ in2.kind = "data"
          /\ bulk.stage = (IF Len(bulk.moved) < Size THEN "in" ELSE "status")
      BY <2>2 DEF Sending
    <3>2. Len(bulk.moved) \in Nat /\ Size \in Nat
      BY <2>1, <3>1, LengthsAreNats
    <3> QED
      BY <3>1, <3>2
  <2>3. CASE Informing
    BY <2>3 DEF Informing
  <2>4. CASE Ending
    BY <2>4 DEF Ending
  <2> QED
    BY <2>1, <2>2, <2>3, <2>4
<1> QED
  BY <1>1, UsbInvariant, PTL

\* A control request is answered with its own reply, complete up to the length
\* that the host asked for; but of a device descriptor asked for before
\* SET_ADDRESS exactly the first 8 bytes come, whatever was asked.
THEOREM RepliesAreExact ==
  ASSUME NormalRequests, NormalCommands PROVE UsbSpec => []RepliesExact
<1>1. UsbInv => RepliesExact
  <2> SUFFICES ASSUME UsbInv PROVE RepliesExact
    OBVIOUS
  <2>1. CASE Ep0Idle
    BY <2>1 DEF Ep0Idle, RepliesExact
  <2>2. CASE ~Ep0Idle
    <3>1. ctl.stage # "idle" /\ (in0 # None => in0.of = ctl.r)
      BY <2>2 DEF UsbInv, Ep0Inv, Ep0Asked, Ep0Silent, Ep0First, Ep0Replying, Ep0Early
    <3> QED
      BY <3>1 DEF RepliesExact
  <2> QED
    BY <2>1, <2>2
<1> QED
  BY <1>1, UsbInvariant, PTL
=============================================================================

----------------------------- MODULE StorageProofs -----------------------------
(***************************************************************************)
(* The life of a message on the I2C bus, for EEPROMs of any size, calls of *)
(* any length and any contents: an interrupt always finds the message it   *)
(* belongs to, its index stays within the message, and the bus is given up *)
(* before the program leaves its loop.  The argument follows a transfer    *)
(* from its address to its STOP: how many bytes the EEPROM has got or      *)
(* given is a function of msg.cnt and of whether an interrupt is pending.  *)
(* On top of it, the data: the bytes that a write has stored are those of  *)
(* the messages before its failure, and the bytes that a read has stored   *)
(* are those of the EEPROM, each in its place.                             *)
(*                                                                         *)
(* What a call of the SD card driver has moved, for cards of any size, any *)
(* contents, calls of any length and any number of faults: a call that     *)
(* succeeds has moved exactly its sectors, and one that fails has written  *)
(* a prefix of them and nothing else.  The argument is about who the       *)
(* driver believes the card to be: in every state of a transfer it knows   *)
(* the state that the card is in, up to the command whose answer is lost.  *)
(***************************************************************************)
EXTENDS I2c, SdCard, SequenceTheorems, TLAPS

-----------------------------------------------------------------------------
\* The I2C bus.

Byte == Cell \cup Value \cup {Junk}
Sent == bus \in {"addressTx", "tx"}
OnBus == bus \in {"tx", "rx"}

\* The messages, and the arguments of the calls.
Msgs == [flags : {0, 1}, len : Nat, cnt : Int, err : {0, -1}, buf : Seq(Byte)]
Jobs == [op : {"write", "read"}, addr : Cell, len : 1 .. MaxLen, data : Seq(Value)]

CallTypes ==
    /\ job \in Jobs /\ (job.op = "write" => Len(job.data) = job.len)
    /\ i \in 0 .. Messages(job) /\ (i2cpc # "idle" => i < Messages(job))
    /\ i2cpc \in {"idle", "start", "wait"}
    /\ ret \in {0, -1}

MsgTypes ==
    /\ msg \in Msgs
    /\ Len(msg.buf) = msg.len /\ msg.cnt \in -1 .. msg.len
    /\ i2cpc = "wait" => msg.len >= 1

\* What is sent is the address of a cell and a byte for it.
SentTypes == i2cpc = "wait" /\ msg.flags = 0 =>
    /\ msg.len <= 2 /\ msg.buf[1] \in Cell
    /\ msg.len = 2 => msg.buf[2] \in Value

BusTypes ==
    /\ bus \in {"free", "addressTx", "addressRx", "tx", "rx"}
    /\ IICDS \in Byte /\ got \in Seq(Byte)
    /\ mem \in [Cell -> Value] /\ ptr \in Cell

Flags == /\ ack \in BOOLEAN /\ pending \in BOOLEAN /\ nack \in BOOLEAN
         /\ driving \in BOOLEAN /\ busy \in BOOLEAN

\* A transfer belongs to the message of the program's loop, until its STOP.
TransferOfLoop ==
    /\ i2cpc # "wait" => bus = "free"
    /\ ~OnBus => ~pending /\ ~driving /\ got = <<>>
    /\ bus \in {"addressTx", "addressRx"} => msg.cnt = -1
    /\ bus # "free" => msg.err = 0 /\ (Sent <=> msg.flags = 0)
    /\ OnBus => /\ msg.cnt < msg.len
                /\ ~pending => msg.cnt >= 0
                /\ pending /\ msg.cnt = -1 /\ nack => ~driving

\* While sending, the EEPROM has got the bytes before the index.
Sending == bus = "tx" =>
    /\ ~driving
    /\ ~pending => Len(got) = msg.cnt /\ IICDS = msg.buf[msg.cnt + 1]
    /\ pending => Len(got) = msg.cnt + 1
    /\ \A n \in 1 .. Len(got) : got[n] = msg.buf[n]

\* While receiving, only the byte before the last leaves the EEPROM the bus.
Receiving == bus = "rx" =>
    /\ got = <<>>
    /\ ~pending => (ack <=> msg.cnt # msg.len - 1)
    /\ pending /\ driving => msg.cnt < msg.len - 1

I2cInv == /\ CallTypes /\ MsgTypes /\ SentTypes /\ BusTypes /\ Flags
          /\ TransferOfLoop /\ Sending /\ Receiving

-----------------------------------------------------------------------------
(* Facts about the data. *)

USE DEF Msgs

LEMMA ModType == ASSUME NEW a \in Nat, NEW b \in Nat \ {0} PROVE a % b \in 0 .. b - 1
OBVIOUS

LEMMA CellAtType == ASSUME NEW a \in Cell, NEW n \in Nat PROVE CellAt(a, n) \in Cell
BY ModType, I2cAssumption DEF CellAt, Cell

LEMMA MessagesType == ASSUME NEW j \in Jobs PROVE Messages(j) \in Nat \ {0}
BY I2cAssumption DEF Messages, Jobs

LEMMA FunctionIsSeq ==
    ASSUME NEW S, NEW n \in Nat, NEW f \in [1 .. n -> S]
    PROVE  f \in Seq(S) /\ Len(f) = n
OBVIOUS

\* The handler's updates of the message, one field after the other.
LEMMA BufUpdate ==
    ASSUME NEW m \in Msgs,
           NEW c \in Int, NEW b \in Seq(Byte), NEW n, n = [m EXCEPT !.cnt = c, !.buf = b]
    PROVE  /\ n \in Msgs
           /\ n.flags = m.flags /\ n.len = m.len /\ n.cnt = c /\ n.err = m.err /\ n.buf = b
<1> DEFINE k == [m EXCEPT !.cnt = c]
<1>1. k \in Msgs
  OBVIOUS
<1>2. n = [k EXCEPT !.buf = b]
  OBVIOUS
<1>3. n.flags = m.flags /\ n.len = m.len /\ n.cnt = c /\ n.err = m.err /\ n.buf = b
  OBVIOUS
<1> HIDE DEF k
<1> QED BY <1>1, <1>2, <1>3

LEMMA ErrUpdate ==
    ASSUME NEW m \in Msgs,
           NEW c \in Int, NEW e \in {0, -1}, NEW n, n = [m EXCEPT !.cnt = c, !.err = e]
    PROVE  /\ n \in Msgs
           /\ n.flags = m.flags /\ n.len = m.len /\ n.cnt = c /\ n.err = e /\ n.buf = m.buf
<1> DEFINE k == [m EXCEPT !.cnt = c]
<1>1. k \in Msgs
  OBVIOUS
<1>2. n = [k EXCEPT !.err = e]
  OBVIOUS
<1>3. n.flags = m.flags /\ n.len = m.len /\ n.cnt = c /\ n.err = e /\ n.buf = m.buf
  OBVIOUS
<1> HIDE DEF k
<1> QED BY <1>1, <1>2, <1>3

\* The messages that the calls build on their stack.
LEMMA MessageType ==
    ASSUME NEW j \in Jobs, j.op = "write" => Len(j.data) = j.len,
           NEW n \in 0 .. Messages(j), n < Messages(j),
           NEW m, m = Message(j, n)
    PROVE  /\ m \in Msgs
           /\ Len(m.buf) = m.len /\ m.cnt = -1 /\ m.err = 0 /\ m.len >= 1
           /\ m.flags = 0 => /\ m.len <= 2 /\ m.buf[1] \in Cell
                             /\ m.len = 2 => m.buf[2] \in Value
<1> USE I2cAssumption
<1>1. CASE j.op = "write"
  <2>1. CellAt(j.addr, n) \in Cell
    BY CellAtType DEF Jobs
  <2>2. j.data[n + 1] \in Value
    <3>1. n + 1 \in 1 .. Len(j.data)
      BY <1>1 DEF Messages, Jobs
    <3> QED BY <3>1, ElementOfSeq DEF Jobs
  <2> DEFINE b == <<CellAt(j.addr, n), j.data[n + 1]>>
  <2>3. b \in Seq(Byte) /\ Len(b) = 2 /\ b[1] \in Cell /\ b[2] \in Value
    BY <2>1, <2>2 DEF Byte
  <2>4. m = [flags |-> 0, len |-> 2, cnt |-> -1, err |-> 0, buf |-> b]
    BY <1>1 DEF Message
  <2> HIDE DEF b
  <2> QED BY <2>3, <2>4
<1>2. CASE j.op # "write" /\ n = 0
  <2>1. j.addr \in Cell
    BY DEF Jobs
  <2> DEFINE b == <<j.addr>>
  <2>2. b \in Seq(Byte) /\ Len(b) = 1 /\ b[1] \in Cell
    BY <2>1 DEF Byte
  <2>3. m = [flags |-> 0, len |-> 1, cnt |-> -1, err |-> 0, buf |-> b]
    BY <1>2 DEF Message
  <2> HIDE DEF b
  <2> QED BY <2>2, <2>3
<1>3. CASE j.op # "write" /\ n # 0
  <2>1. j.len \in Nat /\ j.len >= 1
    BY DEF Jobs
  <2> DEFINE b == [c \in 1 .. j.len |-> Junk]
  <2>2. b \in [1 .. j.len -> Byte]
    BY DEF Byte
  <2>3. b \in Seq(Byte) /\ Len(b) = j.len
    BY <2>1, <2>2, FunctionIsSeq
  <2>4. m = [flags |-> 1, len |-> j.len, cnt |-> -1, err |-> 0, buf |-> b]
    BY <1>3 DEF Message
  <2> HIDE DEF b
  <2> QED BY <2>1, <2>3, <2>4
<1> QED BY <1>1, <1>2, <1>3

\* The invariant is what InterruptHasMessage states, and more.
LEMMA InvImplies == I2cInv => InterruptHasMessage
<1> SUFFICES ASSUME I2cInv PROVE InterruptHasMessage
  OBVIOUS
<1>1. I2cTypeOK
  BY DEF I2cInv, CallTypes, MsgTypes, BusTypes, I2cTypeOK
<1>2. bus = "free" => ~pending /\ ~driving
  BY DEF I2cInv, TransferOfLoop, OnBus
<1>3. bus # "free" => i2cpc = "wait"
  BY DEF I2cInv, TransferOfLoop
<1> QED BY <1>1, <1>2, <1>3 DEF InterruptHasMessage

LEMMA I2cInitInv == I2cInit => I2cInv
<1> SUFFICES ASSUME I2cInit PROVE I2cInv
  OBVIOUS
<1> USE I2cAssumption DEF I2cInit
<1>1. CallTypes
  <2>1. 0 \in Cell /\ <<>> \in Seq(Value)
    BY DEF Cell
  <2>2. job \in Jobs /\ job.op = "read"
    BY <2>1 DEF Jobs
  <2> QED BY <2>2, MessagesType DEF CallTypes
<1>2. MsgTypes /\ SentTypes
  BY DEF MsgTypes, SentTypes
<1>3. BusTypes /\ TransferOfLoop /\ Sending /\ Receiving
  BY DEF BusTypes, TransferOfLoop, Sending, Receiving, OnBus, Sent, Byte, Cell
<1>4. Flags
  BY Zenon DEF Flags
<1> QED BY <1>1, <1>2, <1>3, <1>4 DEF I2cInv

-----------------------------------------------------------------------------
(* The program. *)

LEMMA CallKeeps ==
    ASSUME I2cInv, Called, job' \in Jobs, job'.op = "write" => Len(job'.data) = job'.len
    PROVE  I2cInv'
<1>1. /\ i2cpc = "idle" /\ i2cpc' = "start" /\ i' = 0 /\ bus = "free"
      /\ UNCHANGED <<ret, conVars, devVars>>
  BY DEF Called, I2cInv, TransferOfLoop
<1>2. CallTypes'
  BY <1>1, MessagesType DEF I2cInv, CallTypes
<1>3. (MsgTypes /\ SentTypes)'
  BY <1>1 DEF I2cInv, MsgTypes, SentTypes, conVars
<1>4. (BusTypes /\ Flags)'
  BY <1>1, Zenon DEF I2cInv, BusTypes, Flags, conVars, devVars
<1>5. (TransferOfLoop /\ Sending /\ Receiving)'
  BY <1>1 DEF I2cInv, TransferOfLoop, Sending, Receiving, OnBus, Sent, conVars, devVars
<1> QED BY <1>2, <1>3, <1>4, <1>5 DEF I2cInv

LEMMA StartKeeps == ASSUME I2cInv, StartMessage PROVE I2cInv'
<1>1. /\ i2cpc = "start" /\ i2cpc' = "wait" /\ bus = "free"
      /\ msg' = Message(job, i) /\ ack' = TRUE /\ got' = <<>>
      /\ bus' = (IF msg'.flags = 0 THEN "addressTx" ELSE "addressRx")
      /\ UNCHANGED <<job, i, ret, IICDS, pending, nack, mem, ptr, driving, busy>>
  BY DEF StartMessage, I2cInv, TransferOfLoop
<1>2. /\ msg' \in Msgs
      /\ Len(msg'.buf) = msg'.len /\ msg'.cnt = -1 /\ msg'.err = 0 /\ msg'.len >= 1
      /\ msg'.flags = 0 => /\ msg'.len <= 2 /\ msg'.buf[1] \in Cell
                           /\ msg'.len = 2 => msg'.buf[2] \in Value
  BY <1>1, MessageType DEF I2cInv, CallTypes
<1>3. CallTypes' /\ MsgTypes' /\ SentTypes'
  BY <1>1, <1>2 DEF I2cInv, CallTypes, MsgTypes, SentTypes
<1>4. BusTypes'
  BY <1>1 DEF I2cInv, BusTypes
<1>5. Flags'
  BY <1>1, Zenon DEF I2cInv, Flags
<1>6. TransferOfLoop' /\ Sending' /\ Receiving'
  BY <1>1, <1>2 DEF I2cInv, TransferOfLoop, Sending, Receiving, OnBus, Sent, MsgTypes
<1> QED BY <1>3, <1>4, <1>5, <1>6 DEF I2cInv

\* When the loop ends the transfer is over.
LEMMA DoneMeansFree == ASSUME I2cInv, i2cpc = "wait", Done PROVE bus = "free"
<1> SUFFICES ASSUME bus # "free" PROVE FALSE
  OBVIOUS
<1>1. msg.err = 0 /\ msg.cnt < msg.len
  BY DEF I2cInv, TransferOfLoop, OnBus, BusTypes, MsgTypes
<1> QED BY <1>1 DEF Done, I2cInv, MsgTypes

LEMMA EndKeeps == ASSUME I2cInv, EndMessage PROVE I2cInv'
<1>1. /\ i2cpc = "wait" /\ bus = "free"
      /\ i' = (IF Failed THEN i ELSE i + 1)
      /\ i2cpc' = (IF Failed \/ i' = Messages(job) THEN "idle" ELSE "start")
      /\ ret' = msg.err /\ UNCHANGED <<job, conVars, devVars>>
  BY DoneMeansFree DEF EndMessage
<1>2. CallTypes'
  <2>1. Messages(job) \in Nat \ {0} /\ i \in Nat /\ i < Messages(job)
    BY <1>1, MessagesType DEF I2cInv, CallTypes
  <2> QED BY <1>1, <2>1 DEF I2cInv, CallTypes, MsgTypes
<1>3. (MsgTypes /\ SentTypes)'
  BY <1>1 DEF I2cInv, MsgTypes, SentTypes, conVars
<1>4. (BusTypes /\ Flags)'
  BY <1>1, Zenon DEF I2cInv, BusTypes, Flags, conVars, devVars
<1>5. (TransferOfLoop /\ Sending /\ Receiving)'
  BY <1>1 DEF I2cInv, TransferOfLoop, Sending, Receiving, OnBus, Sent, conVars, devVars
<1> QED BY <1>2, <1>3, <1>4, <1>5 DEF I2cInv

-----------------------------------------------------------------------------
(* The interrupt handler. *)

\* A STOP after all of the message, or after an address without an answer.
LEMMA StopKeeps ==
    ASSUME I2cInv, pending, OnBus, Stop, UNCHANGED progVars, ~driving,
           msg' \in Msgs,
           Len(msg'.buf) = msg'.len, msg'.cnt \in -1 .. msg'.len,
           msg'.len = msg.len, msg'.flags = msg.flags,
           msg'.flags = 0 => msg'.buf = msg.buf
    PROVE  I2cInv'
<1>1. /\ i2cpc = "wait" /\ i2cpc' = "wait" /\ bus' = "free" /\ pending' = FALSE
      /\ got' = <<>>
      /\ UNCHANGED <<job, i, ret, IICDS, ack, nack, driving>>
  BY DEF Stop, I2cInv, TransferOfLoop, OnBus, progVars
<1>2. CallTypes' /\ MsgTypes' /\ SentTypes'
  BY <1>1 DEF I2cInv, CallTypes, MsgTypes, SentTypes
<1>3. /\ got # <<>> => got[1] \in Cell
      /\ Len(got) >= 2 => got[2] \in Value
  <2>1. CASE bus = "tx"
    <3>1. msg.flags = 0 /\ Len(got) <= msg.len
      BY <2>1 DEF I2cInv, TransferOfLoop, Sending, Sent, OnBus, MsgTypes
    <3>2. Len(got) \in Nat /\ (got # <<>> => Len(got) >= 1)
      BY EmptySeq, LenProperties DEF I2cInv, BusTypes
    <3>3. \A n \in 1 .. Len(got) : got[n] = msg.buf[n]
      BY <2>1 DEF I2cInv, Sending
    <3> QED BY <1>1, <3>1, <3>2, <3>3 DEF I2cInv, SentTypes, MsgTypes
  <2>2. CASE bus = "rx"
    BY <2>2 DEF I2cInv, Receiving
  <2> QED BY <2>1, <2>2 DEF OnBus
<1>4. BusTypes'
  <2>1. ptr' \in Cell
    BY <1>3 DEF Stop, I2cInv, BusTypes
  <2>2. mem' \in [Cell -> Value]
    <3>1. CASE Len(got) < 2
      BY <3>1 DEF Stop, I2cInv, BusTypes
    <3>2. CASE ~(Len(got) < 2)
      <4>1. got # <<>> /\ Len(got) >= 2
        BY <3>2, LenProperties DEF I2cInv, BusTypes
      <4> QED BY <1>3, <3>2, <4>1 DEF Stop, I2cInv, BusTypes
    <3> QED BY <3>1, <3>2
  <2> QED BY <1>1, <2>1, <2>2 DEF I2cInv, BusTypes
<1>5. Flags'
  <2>1. busy' \in BOOLEAN
    BY Zenon DEF Stop, I2cInv, Flags
  <2> QED BY <1>1, <2>1, Zenon DEF I2cInv, Flags
<1>6. TransferOfLoop' /\ Sending' /\ Receiving'
  BY <1>1 DEF TransferOfLoop, Sending, Receiving, OnBus, Sent
<1> QED BY <1>2, <1>4, <1>5, <1>6 DEF I2cInv

\* The next byte goes out.
LEMMA SendKeeps ==
    ASSUME I2cInv, pending, bus = "tx", UNCHANGED progVars,
           msg' = [msg EXCEPT !.cnt = msg.cnt + 1], msg.cnt + 1 < msg.len,
           IICDS' = msg.buf[msg.cnt + 2], Resume(ack)
    PROVE  I2cInv'
<1>1. /\ i2cpc = "wait" /\ UNCHANGED <<job, i, i2cpc, ret>>
      /\ ack' = ack /\ pending' = FALSE /\ UNCHANGED <<nack, bus, devVars>>
  BY DEF Resume, I2cInv, TransferOfLoop, progVars
<1>2. /\ msg.cnt \in Int /\ msg.cnt >= -1 /\ msg.len \in Nat /\ Len(msg.buf) = msg.len
      /\ msg.buf \in Seq(Byte)
  BY DEF I2cInv, MsgTypes
<1>3. CallTypes' /\ MsgTypes' /\ SentTypes'
  BY <1>1, <1>2 DEF I2cInv, CallTypes, MsgTypes, SentTypes
<1>4. BusTypes'
  <2>1. msg.buf[msg.cnt + 2] \in Byte
    <3>1. msg.cnt + 2 \in 1 .. Len(msg.buf)
      BY <1>2
    <3> QED BY <1>2, <3>1, ElementOfSeq
  <2> QED BY <1>1, <2>1 DEF I2cInv, BusTypes, devVars
<1>5. Flags'
  BY <1>1, Zenon DEF I2cInv, Flags, devVars
<1>6. TransferOfLoop' /\ Receiving'
  BY <1>1, <1>2 DEF I2cInv, MsgTypes, TransferOfLoop, Receiving, OnBus, Sent, devVars
<1>7. Sending'
  <2>1. Len(got) = msg.cnt + 1 /\ ~driving /\ \A n \in 1 .. Len(got) : got[n] = msg.buf[n]
    BY DEF I2cInv, Sending
  <2>2. msg'.cnt = msg.cnt + 1 /\ msg'.buf = msg.buf /\ (msg.cnt + 1) + 1 = msg.cnt + 2
    BY <1>2 DEF I2cInv, MsgTypes
  <2> QED BY <1>1, <2>1, <2>2 DEF Sending, devVars
<1> QED BY <1>3, <1>4, <1>5, <1>6, <1>7 DEF I2cInv

\* The next byte comes in; cnt of them have come.
LEMMA ReceiveKeeps ==
    ASSUME I2cInv, pending, bus = "rx", UNCHANGED <<progVars, IICDS>>,
           NEW b \in Seq(Byte), Len(b) = msg.len,
           msg' = [msg EXCEPT !.cnt = msg.cnt + 1, !.buf = b], msg.cnt + 1 < msg.len,
           Resume(~isLastData(msg.cnt + 1))
    PROVE  I2cInv'
<1>1. /\ i2cpc = "wait" /\ UNCHANGED <<job, i, i2cpc, ret>>
      /\ ack' = ~isLastData(msg.cnt + 1) /\ pending' = FALSE
      /\ UNCHANGED <<nack, bus, devVars>>
  BY DEF Resume, I2cInv, TransferOfLoop, progVars
<1>2. /\ msg.cnt \in Int /\ msg.cnt >= -1 /\ msg.len \in Nat /\ msg.flags = 1
      /\ msg'.cnt = msg.cnt + 1 /\ msg'.len = msg.len /\ msg'.flags = 1 /\ msg'.err = msg.err
      /\ msg'.buf = b
      /\ msg' \in Msgs
  <2>1. /\ msg \in Msgs
        /\ msg.cnt >= -1 /\ msg.flags = 1
    BY DEF I2cInv, MsgTypes, TransferOfLoop, Sent, OnBus
  <2>2. msg.cnt + 1 \in Int
    BY <2>1
  <2> QED BY <2>1, <2>2, BufUpdate
<1>3. CallTypes'
  BY <1>1 DEF I2cInv, CallTypes
<1>4. MsgTypes' /\ SentTypes'
  BY <1>1, <1>2 DEF MsgTypes, SentTypes
<1>5. BusTypes'
  BY <1>1 DEF I2cInv, BusTypes, devVars
<1>6. Flags'
  <2>1. ack' \in BOOLEAN
    BY <1>1, Zenon
  <2> QED BY <1>1, <2>1, Zenon DEF I2cInv, Flags, devVars
<1>7. TransferOfLoop' /\ Sending'
  BY <1>1, <1>2 DEF I2cInv, TransferOfLoop, Sending, OnBus, Sent, devVars
<1>8. Receiving'
  BY <1>1, <1>2 DEF I2cInv, Receiving, isLastData, devVars
<1> QED BY <1>3, <1>4, <1>5, <1>6, <1>7, <1>8 DEF I2cInv

LEMMA InterruptKeeps == ASSUME I2cInv, i2c_interrupt_func PROVE I2cInv'
<1>1. /\ pending /\ OnBus /\ UNCHANGED progVars /\ msg.err = 0
      /\ msg.cnt < msg.len /\ msg.cnt \in Int /\ msg.cnt >= -1 /\ msg.len \in Nat
  BY DEF i2c_interrupt_func, I2cInv, TransferOfLoop, OnBus, MsgTypes
<1>2. CASE msg.cnt + 1 = 0 /\ nack /\ msg' = NoDevice /\ Stop
  <2>1. ~driving
    BY <1>1, <1>2 DEF I2cInv, TransferOfLoop
  <2>2. /\ msg' \in Msgs
        /\ Len(msg'.buf) = msg'.len /\ msg'.cnt \in -1 .. msg'.len
        /\ msg'.len = msg.len /\ msg'.flags = msg.flags /\ msg'.buf = msg.buf
    <3>1. /\ msg \in Msgs
          /\ Len(msg.buf) = msg.len
      BY DEF I2cInv, MsgTypes
    <3>2. msg' = [msg EXCEPT !.cnt = 0, !.err = -1] /\ 0 \in Int /\ -1 \in {0, -1}
      BY <1>2 DEF NoDevice
    <3>3. /\ msg' \in Msgs
          /\ msg'.flags = msg.flags /\ msg'.len = msg.len /\ msg'.cnt = 0 /\ msg'.buf = msg.buf
      BY <3>1, <3>2, ErrUpdate
    <3> QED BY <1>1, <3>1, <3>3
  <2> QED BY <1>1, <1>2, <2>1, <2>2, StopKeeps
<1>3. CASE /\ msg.flags = 0 /\ msg' = [msg EXCEPT !.cnt = msg.cnt + 1]
           /\ IF MoreToDo(msg.cnt + 1) THEN IICDS' = msg.buf[(msg.cnt + 1) + 1] /\ Resume(ack)
                                       ELSE Stop
  <2>1. bus = "tx"
    BY <1>1, <1>3 DEF I2cInv, TransferOfLoop, OnBus, Sent
  <2>2. CASE MoreToDo(msg.cnt + 1)
    <3>1. (msg.cnt + 1) + 1 = msg.cnt + 2
      BY <1>1
    <3> QED BY <1>1, <1>3, <2>1, <2>2, <3>1, SendKeeps DEF MoreToDo
  <2>3. CASE ~MoreToDo(msg.cnt + 1)
    <3>1. ~driving
      BY <2>1 DEF I2cInv, Sending
    <3>2. /\ msg' \in Msgs
          /\ Len(msg'.buf) = msg'.len /\ msg'.cnt \in -1 .. msg'.len
          /\ msg'.len = msg.len /\ msg'.flags = msg.flags /\ msg'.buf = msg.buf
      BY <1>1, <1>3 DEF I2cInv, MsgTypes
    <3> QED BY <1>1, <1>3, <2>3, <3>1, <3>2, StopKeeps
  <2> QED BY <2>2, <2>3
<1>4. CASE /\ msg.flags = 1 /\ msg.cnt + 1 = 0
           /\ msg' = [msg EXCEPT !.cnt = 0]
           /\ Resume(~isLastData(0)) /\ UNCHANGED IICDS
  <2>1. bus = "rx" /\ 0 < msg.len
    BY <1>1, <1>4 DEF I2cInv, TransferOfLoop, OnBus, Sent, MsgTypes
  <2>2. msg.buf \in Seq(Byte) /\ Len(msg.buf) = msg.len
    BY DEF I2cInv, MsgTypes
  <2>3. msg' = [msg EXCEPT !.cnt = msg.cnt + 1, !.buf = msg.buf]
    BY <1>4 DEF I2cInv, MsgTypes
  <2> QED BY <1>1, <1>4, <2>1, <2>2, <2>3, ReceiveKeeps
<1>5. CASE /\ msg.flags = 1 /\ msg.cnt + 1 > 0
           /\ msg' = [msg EXCEPT !.cnt = msg.cnt + 1,
                                 !.buf = IF MoreToDo(msg.cnt + 1) THEN Store(msg.cnt + 1) ELSE @]
           /\ IF MoreToDo(msg.cnt + 1)
                THEN Resume(~isLastData(msg.cnt + 1)) /\ UNCHANGED IICDS ELSE Stop
  <2>1. bus = "rx"
    BY <1>1, <1>5 DEF I2cInv, TransferOfLoop, OnBus, Sent
  <2>2. CASE MoreToDo(msg.cnt + 1)
    <3>1. Store(msg.cnt + 1) \in Seq(Byte) /\ Len(Store(msg.cnt + 1)) = msg.len
      <4>1. /\ msg.buf \in Seq(Byte) /\ Len(msg.buf) = msg.len /\ IICDS \in Byte
            /\ msg.cnt + 1 \in 1 .. Len(msg.buf)
        BY <1>1, <1>5, <2>2 DEF I2cInv, MsgTypes, BusTypes, MoreToDo
      <4> QED BY <4>1, ExceptSeq DEF Store
    <3>2. msg' = [msg EXCEPT !.cnt = msg.cnt + 1, !.buf = Store(msg.cnt + 1)]
      BY <1>5, <2>2
    <3> QED BY <1>1, <1>5, <2>1, <2>2, <3>1, <3>2, ReceiveKeeps DEF MoreToDo
  <2>3. CASE ~MoreToDo(msg.cnt + 1)
    <3>1. ~driving
      BY <1>1, <2>1, <2>3 DEF I2cInv, Receiving, MoreToDo
    <3>2. /\ msg' \in Msgs
          /\ Len(msg'.buf) = msg'.len /\ msg'.cnt \in -1 .. msg'.len
          /\ msg'.len = msg.len /\ msg'.flags = msg.flags /\ msg'.buf = msg.buf
      <4>1. /\ msg \in Msgs
            /\ Len(msg.buf) = msg.len
        BY DEF I2cInv, MsgTypes
      <4>2. msg' = [msg EXCEPT !.cnt = msg.cnt + 1, !.buf = msg.buf] /\ msg.cnt + 1 \in Int
        BY <1>1, <1>5, <2>3
      <4>3. /\ msg' \in Msgs
            /\ msg'.flags = msg.flags /\ msg'.len = msg.len /\ msg'.cnt = msg.cnt + 1
            /\ msg'.buf = msg.buf
        BY <4>1, <4>2, BufUpdate
      <4> QED BY <1>1, <4>1, <4>3
    <3> QED BY <1>1, <1>5, <2>3, <3>1, <3>2, StopKeeps
  <2> QED BY <2>2, <2>3
<1> QED BY <1>2, <1>3, <1>4, <1>5 DEF i2c_interrupt_func

-----------------------------------------------------------------------------
(* The bus and the EEPROM. *)

LEMMA AddressKeeps == ASSUME I2cInv, SendAddress PROVE I2cInv'
<1>1. /\ bus \in {"addressTx", "addressRx"} /\ bus' = (IF bus = "addressTx" THEN "tx" ELSE "rx")
      /\ i2cpc = "wait" /\ msg.cnt = -1 /\ got = <<>> /\ msg.len \in Nat /\ msg.len >= 1
      /\ nack' = busy /\ driving' = (bus = "addressRx" /\ ~busy) /\ pending' = TRUE
      /\ UNCHANGED <<progVars, msg, IICDS, ack, mem, ptr, got, busy>>
  BY DEF SendAddress, I2cInv, TransferOfLoop, OnBus, MsgTypes
<1>2. CallTypes' /\ MsgTypes' /\ SentTypes'
  BY <1>1 DEF I2cInv, CallTypes, MsgTypes, SentTypes, progVars
<1>3. BusTypes'
  BY <1>1 DEF I2cInv, BusTypes
<1>4. Flags'
  BY <1>1, Zenon DEF I2cInv, Flags
<1>5. /\ nack' => ~driving'
      /\ bus' = "tx" => ~driving'
  BY <1>1
<1>6. TransferOfLoop'
  BY <1>1, <1>5 DEF I2cInv, TransferOfLoop, OnBus, Sent, progVars
<1>7. Sending' /\ Receiving'
  BY <1>1, <1>5 DEF Sending, Receiving
<1> QED BY <1>2, <1>3, <1>4, <1>6, <1>7 DEF I2cInv

LEMMA ByteOutKeeps == ASSUME I2cInv, SendByte PROVE I2cInv'
<1>1. /\ bus = "tx" /\ ~pending /\ got' = Append(got, IICDS) /\ pending' = TRUE
      /\ i2cpc = "wait" /\ got \in Seq(Byte) /\ IICDS \in Byte
      /\ UNCHANGED <<progVars, msg, IICDS, ack, nack, bus, mem, ptr, driving, busy>>
  BY DEF SendByte, I2cInv, TransferOfLoop, BusTypes
<1>2. CallTypes' /\ MsgTypes' /\ SentTypes'
  BY <1>1 DEF I2cInv, CallTypes, MsgTypes, SentTypes, progVars
<1>3. BusTypes'
  BY <1>1, AppendProperties DEF I2cInv, BusTypes
<1>4. Flags'
  BY <1>1, Zenon DEF I2cInv, Flags
<1>5. /\ msg.cnt \in Int /\ msg.cnt >= 0
      /\ Len(got) = msg.cnt /\ IICDS = msg.buf[msg.cnt + 1] /\ ~driving
      /\ \A n \in 1 .. Len(got) : got[n] = msg.buf[n]
  BY <1>1 DEF I2cInv, Sending, TransferOfLoop, OnBus, MsgTypes
<1>6. TransferOfLoop' /\ Receiving'
  BY <1>1, <1>5 DEF I2cInv, TransferOfLoop, Receiving, OnBus, Sent, progVars
<1>7. /\ Len(got') = msg.cnt + 1
      /\ \A n \in 1 .. Len(got') : got'[n] = msg.buf[n]
  BY <1>1, <1>5, AppendProperties
<1>8. Sending'
  BY <1>1, <1>5, <1>7 DEF Sending
<1> QED BY <1>2, <1>3, <1>4, <1>6, <1>8 DEF I2cInv

LEMMA ByteInKeeps == ASSUME I2cInv, ReceiveByte PROVE I2cInv'
<1>1. /\ bus = "rx" /\ ~pending /\ pending' = TRUE /\ i2cpc = "wait"
      /\ IICDS' = (IF driving THEN mem[ptr] ELSE Junk)
      /\ ptr' = (IF driving THEN (ptr + 1) % Size ELSE ptr)
      /\ driving' = (driving /\ ack)
      /\ UNCHANGED <<progVars, msg, ack, nack, bus, mem, got, busy>>
  BY DEF ReceiveByte, I2cInv, TransferOfLoop
<1>2. CallTypes' /\ MsgTypes' /\ SentTypes'
  BY <1>1 DEF I2cInv, CallTypes, MsgTypes, SentTypes, progVars
<1>3. BusTypes'
  <2>1. ptr' \in Cell
    BY <1>1, ModType, I2cAssumption DEF I2cInv, BusTypes, Cell
  <2>2. IICDS' \in Byte
    BY <1>1 DEF I2cInv, BusTypes, Byte
  <2> QED BY <1>1, <2>1, <2>2 DEF I2cInv, BusTypes
<1>4. Flags'
  BY <1>1, Zenon DEF I2cInv, Flags
<1>5. /\ msg.cnt \in Int /\ msg.cnt >= 0 /\ msg.cnt < msg.len /\ msg.len \in Nat
      /\ (ack <=> msg.cnt # msg.len - 1) /\ got = <<>>
  BY <1>1 DEF I2cInv, Receiving, TransferOfLoop, OnBus, MsgTypes
<1>6. driving' => msg.cnt < msg.len - 1
  <2>1. driving' => ack
    BY <1>1, Zenon
  <2> QED BY <1>5, <2>1
<1>7. TransferOfLoop' /\ Sending' /\ Receiving'
  BY <1>1, <1>5, <1>6 DEF I2cInv, TransferOfLoop, Sending, Receiving, OnBus, Sent, progVars
<1> QED BY <1>2, <1>3, <1>4, <1>7 DEF I2cInv

-----------------------------------------------------------------------------
\* Every step of the program, the handler, the bus and the EEPROM keeps it.
LEMMA I2cStep == I2cInv /\ [I2cNext]_i2cVars => I2cInv'
<1> SUFFICES ASSUME I2cInv, [I2cNext]_i2cVars PROVE I2cInv'
  OBVIOUS
<1>1. CASE \E a \in Cell, n \in 1 .. MaxLen : at24cxx_read(a, n)
  <2>1. PICK a \in Cell, n \in 1 .. MaxLen : at24cxx_read(a, n)
    BY <1>1
  <2>2. job' \in Jobs /\ job'.op = "read"
    BY <2>1 DEF at24cxx_read, Jobs
  <2> QED BY <2>1, <2>2, CallKeeps DEF at24cxx_read
<1>2. CASE \E a \in Cell, n \in 1 .. MaxLen : \E d \in [1 .. n -> Value] : at24cxx_write(a, d)
  <2>1. PICK a \in Cell, n \in 1 .. MaxLen : \E d \in [1 .. n -> Value] : at24cxx_write(a, d)
    BY <1>2
  <2>2. PICK d \in [1 .. n -> Value] : at24cxx_write(a, d)
    BY <2>1
  <2>3. d \in Seq(Value) /\ Len(d) = n
    BY FunctionIsSeq
  <2>4. job' \in Jobs /\ Len(job'.data) = job'.len
    BY <2>2, <2>3 DEF at24cxx_write, Jobs
  <2> QED BY <2>2, <2>4, CallKeeps DEF at24cxx_write
<1>3. CASE Program
  BY <1>3, StartKeeps, EndKeeps DEF Program
<1>4. CASE i2c_interrupt_func
  BY <1>4, InterruptKeeps
<1>5. CASE Bus
  BY <1>5, AddressKeeps, ByteOutKeeps, ByteInKeeps DEF Bus
<1>6. CASE EndWriteCycle
  <2>1. busy' = FALSE /\ UNCHANGED <<progVars, conVars, mem, ptr, got, driving>>
    BY <1>6 DEF EndWriteCycle
  <2>2. Flags'
    BY <2>1, Zenon DEF I2cInv, Flags, conVars
  <2>3. (CallTypes /\ MsgTypes /\ SentTypes /\ BusTypes)'
    BY <2>1 DEF I2cInv, CallTypes, MsgTypes, SentTypes, BusTypes, progVars, conVars
  <2>4. (TransferOfLoop /\ Sending /\ Receiving)'
    BY <2>1 DEF I2cInv, TransferOfLoop, Sending, Receiving, OnBus, Sent, progVars, conVars
  <2> QED BY <2>2, <2>3, <2>4 DEF I2cInv
<1>7. CASE UNCHANGED i2cVars
  <2>1. UNCHANGED progVars /\ UNCHANGED conVars /\ UNCHANGED devVars
    BY <1>7 DEF i2cVars
  <2>2. Flags'
    BY <2>1, Zenon DEF I2cInv, Flags, conVars, devVars
  <2>3. (CallTypes /\ MsgTypes /\ SentTypes /\ BusTypes)'
    BY <2>1 DEF I2cInv, CallTypes, MsgTypes, SentTypes, BusTypes, progVars, conVars, devVars
  <2>4. (TransferOfLoop /\ Sending /\ Receiving)'
    BY <2>1 DEF I2cInv, TransferOfLoop, Sending, Receiving, OnBus, Sent, progVars, conVars, devVars
  <2> QED BY <2>2, <2>3, <2>4 DEF I2cInv
<1> QED BY <1>1, <1>2, <1>3, <1>4, <1>5, <1>6, <1>7 DEF I2cNext

\* The inductive invariant of a transfer.
THEOREM I2cInvariant == I2cSpec => []I2cInv
BY I2cInitInv, I2cStep, PTL DEF I2cSpec

\* An interrupt of the controller always finds the message it belongs to, and
\* the EEPROM has given up the bus before the message is left.
THEOREM InterruptsFindTheirMessage == I2cSpec => []InterruptHasMessage
BY I2cInvariant, InvImplies, PTL
-----------------------------------------------------------------------------
(* The data: what a call has written, and what it has read. *)

\* A message of a write is a byte for its cell; it is in the EEPROM when the STOP
\* has come and the message has not failed.
WriteSoFar == job.op = "write" =>
    /\ i2cpc = "wait" => /\ msg.flags = 0 /\ msg.len = 2
                         /\ msg.buf[1] = CellAt(job.addr, i) /\ msg.buf[2] = job.data[i + 1]
    /\ i2cpc # "wait" \/ bus # "free" \/ msg.err # 0 => mem = Written(i)
    /\ i2cpc = "wait" /\ bus = "free" /\ msg.err = 0 => mem = Written(i + 1)
    /\ i2cpc = "idle" /\ ret = 0 => i = job.len

Placed(n) == \A k \in 1 .. n : msg.buf[k] = mem[CellAt(job.addr, k - 1)]

\* The first message of a read gives the EEPROM the address of the cell.
ReadMessages == job.op = "read" /\ i2cpc = "wait" =>
    IF i = 0 THEN msg.flags = 0 /\ msg.len = 1 /\ msg.buf[1] = job.addr
             ELSE msg.flags = 1 /\ msg.len = job.len

Pointed == job.op = "read" /\ \/ i2cpc = "start" /\ i = 1
                              \/ bus = "addressRx"
                              \/ i2cpc = "wait" /\ i = 0 /\ bus = "free" /\ msg.err = 0
           => ptr = job.addr

\* The EEPROM has given the bytes before the index and, when an interrupt is
\* pending, the byte at the index, which is in the data register.
Giving == job.op = "read" /\ bus = "rx" =>
    /\ ~pending => driving /\ ptr = CellAt(job.addr, msg.cnt) /\ Placed(msg.cnt)
    /\ pending /\ msg.cnt = -1 /\ ~nack => driving /\ ptr = job.addr
    /\ pending /\ msg.cnt >= 0 => /\ IICDS = mem[CellAt(job.addr, msg.cnt)]
                                  /\ ptr = CellAt(job.addr, msg.cnt + 1)
                                  /\ Placed(msg.cnt)
                                  /\ msg.cnt < msg.len - 1 => driving

ReadSoFar == job.op = "read" =>
    /\ i2cpc = "wait" /\ i = 1 /\ bus = "free" /\ msg.err = 0 => Placed(job.len - 1)
    /\ i2cpc = "idle" /\ msg.flags = 1 /\ ret = 0 => Placed(job.len - 1)

I2cDataInv == /\ before \in [Cell -> Value]
              /\ WriteSoFar /\ ReadMessages /\ Pointed /\ Giving /\ ReadSoFar

LEMMA DivMod ==
    ASSUME NEW a \in Nat, NEW b \in Nat \ {0}
    PROVE  a \div b \in Nat /\ a = b * (a \div b) + (a % b) /\ a % b \in 0 .. b - 1
OBVIOUS

LEMMA ModUnique ==
    ASSUME NEW q \in Nat, NEW r \in Nat, NEW b \in Nat \ {0}, r < b
    PROVE  (b * q + r) % b = r
OBVIOUS

LEMMA ModSmall == ASSUME NEW r \in Nat, NEW b \in Nat \ {0}, r < b PROVE r % b = r
OBVIOUS

LEMMA ModSucc ==
    ASSUME NEW a \in Nat, NEW b \in Nat \ {0}
    PROVE  ((a % b) + 1) % b = (a + 1) % b
<1>1. PICK q \in Nat, r \in 0 .. b - 1 : a = b * q + r /\ a % b = r
  BY DivMod
<1>2. CASE r + 1 < b
  <2>1. a + 1 = b * q + (r + 1)
    BY <1>1
  <2> QED BY <1>1, <1>2, <2>1, ModUnique, ModSmall
<1>3. CASE r + 1 = b
  <2>1. a + 1 = b * (q + 1) + 0
    BY <1>1, <1>3
  <2>2. (a + 1) % b = 0
    <3>1. q + 1 \in Nat /\ 0 \in Nat /\ 0 < b
      OBVIOUS
    <3>2. (b * (q + 1) + 0) % b = 0
      BY <3>1, ModUnique
    <3> QED BY <2>1, <3>2, Zenon
  <2>3. b = b * 1 + 0
    OBVIOUS
  <2>4. b % b = 0
    BY <2>3, ModUnique
  <2>5. (a % b) + 1 = b
    BY <1>1, <1>3
  <2>6. ((a % b) + 1) % b = b % b
    BY <2>5, Zenon
  <2> QED BY <2>2, <2>4, <2>6, Zenon
<1> QED BY <1>1, <1>2, <1>3

\* The EEPROM's own counter runs through the cells of the call.
LEMMA CellSteps ==
    ASSUME NEW a \in Cell, NEW n \in Nat
    PROVE  /\ CellAt(a, 0) = a
           /\ CellAt(a, n) \in Cell /\ CellAt(a, n + 1) = (CellAt(a, n) + 1) % Size
<1>1. Size \in Nat \ {0} /\ a \in Nat /\ a < Size
  BY I2cAssumption DEF Cell
<1>2. a + 0 = a /\ a + n \in Nat /\ (a + n) + 1 = a + (n + 1)
  BY <1>1
<1>3. CellAt(a, 0) = a
  BY <1>1, <1>2, ModSmall DEF CellAt
<1>4. (((a + n) % Size) + 1) % Size = (a + (n + 1)) % Size
  BY <1>1, <1>2, ModSucc
<1> QED BY <1>3, <1>4, CellAtType DEF CellAt

\* What Written says, of a call and of what the EEPROM held before it.
Over(j, b, n) ==
    [c \in Cell |-> LET ks == {k \in 1..n : CellAt(j.addr, k - 1) = c}
                    IN  IF ks = {} THEN b[c]
                        ELSE j.data[CHOOSE k \in ks : \A l \in ks : l <= k]]

LEMMA WrittenIsOver ==
    /\ Written(i) = Over(job, before, i) /\ Written(i + 1) = Over(job, before, i + 1)
    /\ Written(i)' = Over(job', before', i') /\ Written(i + 1)' = Over(job', before', i' + 1)
BY Zenon DEF Written, Over

LEMMA OverStart == ASSUME NEW j, NEW b \in [Cell -> Value] PROVE Over(j, b, 0) = b
BY DEF Over

\* The next byte of the data replaces what its cell held.
LEMMA OverNext ==
    ASSUME NEW j \in Jobs, NEW b \in [Cell -> Value], NEW n \in Nat
    PROVE  Over(j, b, n + 1) = [Over(j, b, n) EXCEPT ![CellAt(j.addr, n)] = j.data[n + 1]]
<1> DEFINE K(c, m) == {k \in 1 .. m : CellAt(j.addr, k - 1) = c}
           W(c, ks) == IF ks = {} THEN b[c]
                       ELSE j.data[CHOOSE k \in ks : \A l \in ks : l <= k]
           V(c, m) == W(c, K(c, m))
           d == CellAt(j.addr, n)
<1>1. Over(j, b, n + 1) = [c \in Cell |-> V(c, n + 1)] /\ Over(j, b, n) = [c \in Cell |-> V(c, n)]
  BY Zenon DEF Over
<1>2. V(d, n + 1) = j.data[n + 1]
  <2>1. n + 1 \in K(d, n + 1) /\ \A l \in K(d, n + 1) : l <= n + 1
    <3>1. (n + 1) - 1 = n /\ n + 1 \in 1 .. n + 1
      OBVIOUS
    <3> QED BY <3>1
  <2>2. \A k \in K(d, n + 1) : (\A l \in K(d, n + 1) : l <= k) => k = n + 1
    BY <2>1
  <2> DEFINE top == CHOOSE k \in K(d, n + 1) : \A l \in K(d, n + 1) : l <= k
  <2>3. top \in K(d, n + 1) /\ \A l \in K(d, n + 1) : l <= top
    BY <2>1, Zenon
  <2>4. top = n + 1
    <3> HIDE DEF top, K
    <3> QED BY <2>2, <2>3
  <2>5. K(d, n + 1) # {}
    BY <2>1, Zenon
  <2> QED BY <2>4, <2>5, Zenon
<1>3. ASSUME NEW c \in Cell, c # d
      PROVE  V(c, n + 1) = V(c, n)
  <2>1. K(c, n + 1) = K(c, n)
    <3>1. \A k \in 1 .. n + 1 : k \in 1 .. n \/ k = n + 1
      OBVIOUS
    <3>2. (n + 1) - 1 = n /\ \A k \in 1 .. n : k \in 1 .. n + 1
      OBVIOUS
    <3> QED BY <1>3, <3>1, <3>2
  <2> HIDE DEF K, W
  <2> QED BY <2>1
<1> HIDE DEF V
<1> QED BY <1>1, <1>2, <1>3

LEMMA I2cInitData == I2cInit => I2cDataInv
<1> SUFFICES ASSUME I2cInit PROVE I2cDataInv
  OBVIOUS
<1>1. /\ job.op = "read" /\ i2cpc = "idle" /\ bus = "free" /\ msg.flags = 0
      /\ before = mem /\ mem \in [Cell -> Value]
  BY DEF I2cInit
<1> QED BY <1>1 DEF I2cDataInv, WriteSoFar, ReadMessages, Pointed, Giving, ReadSoFar

\* What is used of I2cInv.
LEMMA JobFacts ==
    ASSUME I2cInv
    PROVE  /\ job \in Jobs /\ job.op \in {"write", "read"} /\ job.addr \in Cell
           /\ job.len \in Nat /\ job.len >= 1
           /\ i \in Nat /\ (i2cpc # "idle" => i < Messages(job))
           /\ (job.op = "write" => Messages(job) = job.len)
           /\ (job.op = "read" => Messages(job) = 2)
           /\ mem \in [Cell -> Value] /\ ptr \in Cell
           /\ (i2cpc # "wait" => bus = "free")
           /\ (bus # "free" => i2cpc = "wait" /\ msg.err = 0)
<1>1. job \in Jobs /\ i \in 0 .. Messages(job) /\ (i2cpc # "idle" => i < Messages(job))
  BY DEF I2cInv, CallTypes
<1>2. Messages(job) \in Nat /\ job.len \in 1 .. MaxLen
  BY <1>1, MessagesType DEF Jobs
<1>3. job.len \in Nat /\ job.len >= 1 /\ i \in Nat
  BY <1>1, <1>2, I2cAssumption
<1>4. job.op \in {"write", "read"} /\ job.addr \in Cell
  BY <1>1 DEF Jobs
<1>5. /\ (job.op = "write" => Messages(job) = job.len)
      /\ (job.op = "read" => Messages(job) = 2)
  BY DEF Messages
<1>6. /\ mem \in [Cell -> Value] /\ ptr \in Cell
      /\ (i2cpc # "wait" => bus = "free")
      /\ (bus # "free" => i2cpc = "wait" /\ msg.err = 0)
  BY DEF I2cInv, BusTypes, TransferOfLoop
<1> QED BY <1>1, <1>3, <1>4, <1>5, <1>6

LEMMA CallData == ASSUME I2cInv, I2cDataInv, Called PROVE I2cDataInv'
<1>1. /\ i2cpc' = "start" /\ i' = 0 /\ before' = mem /\ mem' = mem /\ bus' = "free"
      /\ mem \in [Cell -> Value]
  BY JobFacts DEF Called, conVars, devVars
<1>2. Written(i)' = mem'
  BY <1>1, WrittenIsOver, OverStart
<1> QED BY <1>1, <1>2 DEF I2cDataInv, WriteSoFar, ReadMessages, Pointed, Giving, ReadSoFar

LEMMA StartData == ASSUME I2cInv, I2cDataInv, StartMessage PROVE I2cDataInv'
<1>1. /\ i2cpc = "start" /\ i2cpc' = "wait" /\ msg' = Message(job, i)
      /\ bus' = (IF msg'.flags = 0 THEN "addressTx" ELSE "addressRx")
      /\ UNCHANGED <<job, i, ret, before, mem, ptr>>
  BY DEF StartMessage
<1>2. job.op = "write" =>
        /\ msg'.flags = 0 /\ msg'.len = 2
        /\ msg'.buf[1] = CellAt(job.addr, i) /\ msg'.buf[2] = job.data[i + 1]
  BY <1>1 DEF Message
<1>3. job.op = "read" => IF i = 0 THEN msg'.flags = 0 /\ msg'.len = 1 /\ msg'.buf[1] = job.addr
                                  ELSE msg'.flags = 1 /\ msg'.len = job.len
  BY <1>1 DEF Message
<1>4. Written(i)' = Written(i)
  BY <1>1, WrittenIsOver
<1>5. WriteSoFar'
  BY <1>1, <1>2, <1>4 DEF I2cDataInv, WriteSoFar
<1>6. ReadMessages' /\ Giving' /\ ReadSoFar'
  BY <1>1, <1>3 DEF ReadMessages, Giving, ReadSoFar
<1>7. Pointed'
  <2>1. job.op = "read" /\ bus' = "addressRx" => i = 1
    BY <1>1, <1>3, JobFacts
  <2> QED BY <1>1, <2>1 DEF I2cDataInv, Pointed
<1> QED BY <1>1, <1>5, <1>6, <1>7 DEF I2cDataInv

LEMMA EndData == ASSUME I2cInv, I2cDataInv, EndMessage PROVE I2cDataInv'
<1>1. /\ i2cpc = "wait" /\ bus = "free" /\ bus' = "free"
      /\ i' = (IF msg.err # 0 THEN i ELSE i + 1)
      /\ i2cpc' = (IF msg.err # 0 \/ i' = Messages(job) THEN "idle" ELSE "start")
      /\ ret' = msg.err /\ UNCHANGED <<job, before, msg, mem, ptr>>
  BY DoneMeansFree DEF EndMessage, Failed, conVars, devVars
<1>2. Written(i)' = (IF msg.err # 0 THEN Written(i) ELSE Written(i + 1))
  BY <1>1, WrittenIsOver
<1>3. WriteSoFar'
  BY <1>1, <1>2, JobFacts DEF I2cDataInv, WriteSoFar
<1>4. ReadMessages' /\ Giving'
  BY <1>1 DEF ReadMessages, Giving
<1>5. Pointed'
  <2>1. i' = 1 /\ i2cpc' = "start" => i = 0 /\ msg.err = 0
    BY <1>1, JobFacts
  <2> QED BY <1>1, <2>1 DEF I2cDataInv, Pointed
<1>6. ReadSoFar'
  <2> SUFFICES ASSUME job.op = "read", i2cpc' = "idle", msg.flags = 1, msg.err = 0
               PROVE  Placed(job.len - 1)'
    BY <1>1 DEF ReadSoFar
  <2>1. i = 1
    <3>1. i # 0
      BY <1>1 DEF I2cDataInv, ReadMessages
    <3> QED BY <1>1, <3>1, JobFacts
  <2>2. Placed(job.len - 1)
    BY <1>1, <2>1 DEF I2cDataInv, ReadSoFar
  <2> QED BY <1>1, <2>2 DEF Placed
<1> QED BY <1>1, <1>3, <1>4, <1>5, <1>6 DEF I2cDataInv

\* The address is not answered: the EEPROM has got nothing and gives nothing.
LEMMA NoDeviceData ==
    ASSUME I2cInv, I2cDataInv, pending, UNCHANGED progVars, msg.cnt = -1, msg' = NoDevice, Stop
    PROVE  I2cDataInv'
<1>1. /\ pending /\ i2cpc = "wait" /\ OnBus /\ bus' = "free"
      /\ UNCHANGED <<job, i, i2cpc, ret, before>>
  BY DEF progVars, Stop, I2cInv, TransferOfLoop, OnBus
<1>2. got = <<>>
  <2>1. CASE bus = "tx"
    <3>1. Len(got) = 0 /\ got \in Seq(Byte)
      BY <1>1, <2>1 DEF I2cInv, Sending, BusTypes
    <3> QED BY <3>1, EmptySeq
  <2>2. CASE bus = "rx"
    BY <2>2 DEF I2cInv, Receiving
  <2> QED BY <1>1, <2>1, <2>2 DEF OnBus
<1>3. mem' = mem /\ ptr' = ptr
  BY <1>2 DEF Stop
<1>4. /\ msg' \in Msgs
      /\ msg'.flags = msg.flags /\ msg'.len = msg.len /\ msg'.err = -1 /\ msg'.buf = msg.buf
  <2>1. msg \in Msgs /\ 0 \in Int /\ -1 \in {0, -1}
    BY DEF I2cInv, MsgTypes
  <2> QED BY <2>1, ErrUpdate DEF NoDevice
<1>5. Written(i)' = Written(i)
  BY <1>1, WrittenIsOver
<1>6. WriteSoFar'
  BY <1>1, <1>3, <1>4, <1>5 DEF I2cDataInv, WriteSoFar, OnBus
<1>7. ReadMessages'
  BY <1>1, <1>4 DEF I2cDataInv, ReadMessages
<1>8. Pointed' /\ Giving' /\ ReadSoFar'
  BY <1>1, <1>4 DEF Pointed, Giving, ReadSoFar
<1> QED BY <1>1, <1>6, <1>7, <1>8 DEF I2cDataInv

\* The STOP after all that is sent: the EEPROM takes it.
LEMMA SentData ==
    ASSUME I2cInv, I2cDataInv, pending, UNCHANGED progVars, bus = "tx", msg.cnt + 1 = msg.len,
           msg' = [msg EXCEPT !.cnt = msg.cnt + 1], Stop
    PROVE  I2cDataInv'
<1>1. /\ i2cpc = "wait" /\ bus' = "free" /\ UNCHANGED <<job, i, i2cpc, ret, before>>
      /\ msg.flags = 0 /\ msg.err = 0
  BY DEF progVars, Stop, I2cInv, TransferOfLoop, Sent, OnBus
<1>2. /\ got \in Seq(Byte) /\ Len(got) = msg.len /\ \A n \in 1 .. Len(got) : got[n] = msg.buf[n]
  BY DEF I2cInv, Sending, BusTypes
<1>3. /\ msg'.flags = msg.flags /\ msg'.len = msg.len /\ msg'.err = msg.err
      /\ msg'.buf = msg.buf
  BY DEF I2cInv, MsgTypes
<1>4. ASSUME job.op = "write"
      PROVE  mem' = Written(i + 1)
  <2>1. /\ Len(got) = 2 /\ got[1] = CellAt(job.addr, i) /\ got[2] = job.data[i + 1]
        /\ mem = Written(i)
    BY <1>1, <1>2, <1>4 DEF I2cDataInv, WriteSoFar
  <2>2. mem' = [mem EXCEPT ![CellAt(job.addr, i)] = job.data[i + 1]]
    BY <2>1 DEF Stop
  <2>3. Written(i + 1) = [Written(i) EXCEPT ![CellAt(job.addr, i)] = job.data[i + 1]]
    BY WrittenIsOver, OverNext, JobFacts DEF I2cDataInv
  <2> QED BY <2>1, <2>2, <2>3
<1>5. Written(i + 1)' = Written(i + 1)
  BY <1>1, WrittenIsOver
<1>6. WriteSoFar'
  BY <1>1, <1>3, <1>4, <1>5 DEF I2cDataInv, WriteSoFar
<1>7. ASSUME job.op = "read"
      PROVE  i = 0 /\ ptr' = job.addr
  <2>1. i = 0 /\ msg.len = 1 /\ msg.buf[1] = job.addr
    BY <1>1, <1>7 DEF I2cDataInv, ReadMessages
  <2>2. got # <<>> /\ got[1] = job.addr
    <3>1. Len(got) = 1 /\ 1 \in 1 .. Len(got)
      BY <1>2, <2>1
    <3>2. got # <<>>
      BY <3>1
    <3>3. got[1] = msg.buf[1]
      BY <1>2, <3>1, Zenon
    <3> QED BY <2>1, <3>2, <3>3
  <2> QED BY <2>1, <2>2 DEF Stop
<1>8. ReadMessages'
  BY <1>1, <1>3 DEF I2cDataInv, ReadMessages
<1>9. Pointed' /\ Giving' /\ ReadSoFar'
  BY <1>1, <1>7 DEF Pointed, Giving, ReadSoFar
<1> QED BY <1>1, <1>6, <1>8, <1>9 DEF I2cDataInv

\* Another byte goes out.
LEMMA SendData ==
    ASSUME I2cInv, I2cDataInv, UNCHANGED progVars, bus = "tx", bus' = "tx",
           msg'.flags = msg.flags, msg'.len = msg.len, msg'.err = msg.err, msg'.buf = msg.buf,
           UNCHANGED <<mem, ptr>>
    PROVE  I2cDataInv'
<1>1. /\ i2cpc = "wait" /\ UNCHANGED <<job, i, i2cpc, ret, before>>
      /\ Written(i)' = Written(i)
  BY WrittenIsOver DEF progVars, I2cInv, TransferOfLoop
<1>2. WriteSoFar' /\ ReadMessages'
  BY <1>1 DEF I2cDataInv, WriteSoFar, ReadMessages
<1>3. Pointed' /\ Giving' /\ ReadSoFar'
  BY <1>1 DEF Pointed, Giving, ReadSoFar
<1> QED BY <1>1, <1>2, <1>3 DEF I2cDataInv

\* What a call for bytes knows while they come.
LEMMA ReceivingFacts ==
    ASSUME I2cInv, I2cDataInv, bus = "rx"
    PROVE  /\ job.op = "read" /\ i2cpc = "wait" /\ i = 1 /\ msg.flags = 1 /\ msg.err = 0
           /\ msg.len = job.len /\ got = <<>>
           /\ msg.cnt \in Int /\ msg.cnt >= -1 /\ msg.cnt < msg.len /\ msg.len \in Nat
<1>1. /\ msg.flags = 1 /\ i2cpc = "wait" /\ msg.err = 0 /\ got = <<>>
      /\ msg.cnt \in Int /\ msg.cnt >= -1 /\ msg.cnt < msg.len /\ msg.len \in Nat
  BY DEF I2cInv, TransferOfLoop, Sent, OnBus, MsgTypes, Receiving
<1>2. job.op = "read"
  BY <1>1, JobFacts DEF I2cDataInv, WriteSoFar
<1>3. i # 0 /\ msg.len = job.len
  BY <1>1, <1>2 DEF I2cDataInv, ReadMessages
<1> QED BY <1>1, <1>2, <1>3, JobFacts

\* The frame of the steps that receive.
LEMMA ReceiveFrame ==
    ASSUME I2cInv, I2cDataInv, bus = "rx", UNCHANGED progVars, mem' = mem,
           bus' \in {"rx", "free"},
           msg'.flags = msg.flags, msg'.len = msg.len, msg'.err = msg.err, Giving', ReadSoFar'
    PROVE  I2cDataInv'
<1>1. /\ job.op = "read" /\ i2cpc = "wait" /\ i = 1 /\ UNCHANGED <<job, i, i2cpc, before>>
  BY ReceivingFacts DEF progVars
<1>2. WriteSoFar' /\ Pointed'
  BY <1>1 DEF WriteSoFar, Pointed
<1>3. ReadMessages'
  BY <1>1 DEF I2cDataInv, ReadMessages
<1> QED BY <1>1, <1>2, <1>3 DEF I2cDataInv

LEMMA InterruptData == ASSUME I2cInv, I2cDataInv, i2c_interrupt_func PROVE I2cDataInv'
<1>1. /\ pending /\ UNCHANGED progVars /\ OnBus /\ i2cpc = "wait"
      /\ msg \in Msgs /\ msg.cnt \in Int /\ msg.cnt >= -1 /\ msg.cnt < msg.len /\ msg.len \in Nat
  BY DEF i2c_interrupt_func, I2cInv, TransferOfLoop, OnBus, MsgTypes
<1>2. CASE msg.cnt + 1 = 0 /\ nack /\ msg' = NoDevice /\ Stop
  <2>1. msg.cnt = -1
    BY <1>1, <1>2
  <2> QED BY <1>1, <1>2, <2>1, NoDeviceData
<1>3. CASE /\ msg.flags = 0 /\ msg' = [msg EXCEPT !.cnt = msg.cnt + 1]
           /\ IF MoreToDo(msg.cnt + 1) THEN IICDS' = msg.buf[(msg.cnt + 1) + 1] /\ Resume(ack)
                                       ELSE Stop
  <2>1. bus = "tx"
    BY <1>1, <1>3 DEF I2cInv, TransferOfLoop, OnBus, Sent
  <2>2. /\ msg'.flags = msg.flags /\ msg'.len = msg.len /\ msg'.err = msg.err
        /\ msg'.buf = msg.buf
    BY <1>1, <1>3
  <2>3. CASE MoreToDo(msg.cnt + 1)
    <3>1. bus' = "tx" /\ UNCHANGED <<mem, ptr>>
      BY <1>3, <2>1, <2>3 DEF Resume, devVars
    <3> QED BY <1>1, <2>1, <2>2, <3>1, SendData
  <2>4. CASE ~MoreToDo(msg.cnt + 1)
    <3>1. msg.cnt + 1 = msg.len
      BY <1>1, <2>4 DEF MoreToDo
    <3> QED BY <1>1, <1>3, <2>1, <2>4, <3>1, SentData
  <2> QED BY <2>3, <2>4
<1>4. CASE /\ msg.flags = 1 /\ msg.cnt + 1 = 0 /\ ~nack
           /\ msg' = [msg EXCEPT !.cnt = 0]
           /\ Resume(~isLastData(0)) /\ UNCHANGED IICDS
  <2>1. bus = "rx" /\ bus' = "rx" /\ ~pending' /\ msg.cnt = -1
        /\ UNCHANGED <<mem, ptr, driving>>
    BY <1>1, <1>4 DEF I2cInv, TransferOfLoop, OnBus, Sent, Resume, devVars
  <2>2. /\ msg'.flags = msg.flags /\ msg'.len = msg.len /\ msg'.err = msg.err
        /\ msg'.cnt = 0
    BY <1>1, <1>4
  <2>3. job.op = "read" /\ i2cpc = "wait" /\ UNCHANGED <<job, i2cpc>>
    BY <1>1, <2>1, ReceivingFacts DEF progVars
  <2>4. driving /\ ptr = job.addr
    BY <1>1, <1>4, <2>1, <2>3 DEF I2cDataInv, Giving
  <2>5. CellAt(job.addr, 0) = job.addr
    BY CellSteps, JobFacts
  <2>6. Giving'
    BY <2>1, <2>2, <2>3, <2>4, <2>5 DEF Giving, Placed
  <2>7. ReadSoFar'
    BY <2>1, <2>3 DEF ReadSoFar
  <2> QED BY <1>1, <2>1, <2>2, <2>6, <2>7, ReceiveFrame
<1>5. CASE /\ msg.flags = 1 /\ msg.cnt + 1 > 0 /\ MoreToDo(msg.cnt + 1)
           /\ msg' = [msg EXCEPT !.cnt = msg.cnt + 1, !.buf = Store(msg.cnt + 1)]
           /\ Resume(~isLastData(msg.cnt + 1)) /\ UNCHANGED IICDS
  <2>1. bus = "rx" /\ bus' = "rx" /\ ~pending' /\ msg.cnt >= 0
        /\ UNCHANGED <<mem, ptr, driving>>
    BY <1>1, <1>5 DEF I2cInv, TransferOfLoop, OnBus, Sent, Resume, devVars
  <2>2. /\ msg.cnt + 1 \in 1 .. Len(msg.buf) /\ msg.buf \in Seq(Byte)
        /\ Store(msg.cnt + 1) \in Seq(Byte)
    <3>1. /\ msg.buf \in Seq(Byte) /\ Len(msg.buf) = msg.len /\ IICDS \in Byte
          /\ msg.cnt + 1 \in 1 .. Len(msg.buf)
      BY <1>1, <1>5 DEF I2cInv, MsgTypes, BusTypes, MoreToDo
    <3> QED BY <3>1, ExceptSeq DEF Store
  <2>3. /\ msg'.flags = msg.flags /\ msg'.len = msg.len /\ msg'.err = msg.err
        /\ msg'.cnt = msg.cnt + 1 /\ msg'.buf = Store(msg.cnt + 1)
    BY <1>1, <1>5, <2>2, BufUpdate
  <2>4. job.op = "read" /\ i2cpc = "wait" /\ UNCHANGED <<job, i2cpc>>
    BY <1>1, <2>1, ReceivingFacts DEF progVars
  <2>5. /\ IICDS = mem[CellAt(job.addr, msg.cnt)] /\ ptr = CellAt(job.addr, msg.cnt + 1)
        /\ Placed(msg.cnt) /\ driving
    BY <1>1, <1>5, <2>1, <2>4 DEF I2cDataInv, Giving, MoreToDo
  <2>6. Placed(msg.cnt)' /\ msg'.cnt = msg.cnt + 1
    <3> SUFFICES ASSUME NEW k \in 1 .. msg.cnt + 1
                 PROVE  Store(msg.cnt + 1)[k] = mem[CellAt(job.addr, k - 1)]
      BY <2>1, <2>3, <2>4 DEF Placed
    <3>1. Store(msg.cnt + 1)[k] = IF k = msg.cnt + 1 THEN IICDS ELSE msg.buf[k]
      BY <1>1, <2>2 DEF Store
    <3>2. CASE k = msg.cnt + 1
      <4>1. k - 1 = msg.cnt
        BY <1>1, <3>2
      <4> QED BY <2>5, <3>1, <3>2, <4>1
    <3>3. CASE k # msg.cnt + 1
      <4>1. k \in 1 .. msg.cnt
        BY <1>1, <3>3
      <4> QED BY <2>5, <3>1, <3>3, <4>1 DEF Placed
    <3> QED BY <3>2, <3>3
  <2>7. Giving'
    BY <2>1, <2>3, <2>4, <2>5, <2>6 DEF Giving
  <2>8. ReadSoFar'
    BY <2>1, <2>4 DEF ReadSoFar
  <2> QED BY <1>1, <2>1, <2>3, <2>7, <2>8, ReceiveFrame
<1>6. CASE /\ msg.flags = 1 /\ msg.cnt + 1 > 0 /\ ~MoreToDo(msg.cnt + 1)
           /\ msg' = [msg EXCEPT !.cnt = msg.cnt + 1, !.buf = msg.buf] /\ Stop
  <2>1. bus = "rx" /\ bus' = "free" /\ msg.cnt >= 0
    BY <1>1, <1>6 DEF I2cInv, TransferOfLoop, OnBus, Sent, Stop
  <2>2. /\ job.op = "read" /\ i2cpc = "wait" /\ UNCHANGED <<job, i2cpc>>
        /\ msg.len = job.len /\ got = <<>>
    BY <1>1, <2>1, ReceivingFacts DEF progVars
  <2>3. mem' = mem
    BY <1>6, <2>2 DEF Stop
  <2>4. msg.cnt = job.len - 1
    BY <1>1, <1>6, <2>2 DEF MoreToDo
  <2>5. Placed(job.len - 1)
    BY <1>1, <2>1, <2>2, <2>4 DEF I2cDataInv, Giving
  <2>6. /\ msg'.flags = msg.flags /\ msg'.len = msg.len /\ msg'.err = msg.err
        /\ msg'.buf = msg.buf
    <3>1. msg.cnt + 1 \in Int /\ msg.buf \in Seq(Byte)
      BY <1>1
    <3> QED BY <1>1, <1>6, <3>1, BufUpdate
  <2>7. ReadSoFar'
    BY <2>2, <2>3, <2>5, <2>6 DEF ReadSoFar, Placed
  <2>8. Giving'
    BY <2>1 DEF Giving
  <2> QED BY <1>1, <2>1, <2>3, <2>6, <2>7, <2>8, ReceiveFrame
<1> QED BY <1>1, <1>2, <1>3, <1>4, <1>5, <1>6 DEF i2c_interrupt_func

LEMMA AddressData == ASSUME I2cInv, I2cDataInv, SendAddress PROVE I2cDataInv'
<1>1. /\ bus \in {"addressTx", "addressRx"} /\ bus' = (IF bus = "addressTx" THEN "tx" ELSE "rx")
      /\ i2cpc = "wait" /\ msg.cnt = -1 /\ msg.flags = (IF bus = "addressTx" THEN 0 ELSE 1)
      /\ nack' = busy /\ (driving' <=> bus = "addressRx" /\ ~busy) /\ pending'
      /\ UNCHANGED <<job, i, i2cpc, ret, before, msg, IICDS, mem, ptr>>
  BY DEF SendAddress, progVars, I2cInv, TransferOfLoop, OnBus, Sent, MsgTypes, Msgs
<1>2. Written(i)' = Written(i)
  BY <1>1, WrittenIsOver
<1>3. WriteSoFar' /\ ReadMessages'
  BY <1>1, <1>2 DEF I2cDataInv, WriteSoFar, ReadMessages
<1>4. Pointed' /\ ReadSoFar'
  BY <1>1 DEF Pointed, ReadSoFar
<1>5. Giving'
  BY <1>1 DEF I2cDataInv, Pointed, Giving
<1> QED BY <1>1, <1>3, <1>4, <1>5 DEF I2cDataInv

LEMMA ByteOutData == ASSUME I2cInv, I2cDataInv, SendByte PROVE I2cDataInv'
BY SendData DEF SendByte

LEMMA ByteInData == ASSUME I2cInv, I2cDataInv, ReceiveByte PROVE I2cDataInv'
<1>1. /\ bus = "rx" /\ bus' = "rx" /\ ~pending /\ pending' /\ UNCHANGED <<progVars, msg, mem>>
      /\ IICDS' = (IF driving THEN mem[ptr] ELSE Junk)
      /\ ptr' = (IF driving THEN (ptr + 1) % Size ELSE ptr)
      /\ (driving' <=> driving /\ ack)
  BY DEF ReceiveByte
<1>2. /\ job.op = "read" /\ msg.cnt \in Int /\ msg.len \in Nat /\ job' = job /\ i2cpc' = "wait"
  BY <1>1, ReceivingFacts DEF progVars
<1>3. driving /\ ptr = CellAt(job.addr, msg.cnt) /\ Placed(msg.cnt)
  BY <1>1, <1>2 DEF I2cDataInv, Giving
<1>4. msg.cnt >= 0 /\ (ack <=> msg.cnt # msg.len - 1)
  BY <1>1 DEF I2cInv, Receiving, TransferOfLoop, OnBus
<1>5. ptr' = CellAt(job.addr, msg.cnt + 1)
  <2>1. job.addr \in Cell /\ msg.cnt \in Nat
    BY <1>2, <1>4, JobFacts
  <2>2. CellAt(job.addr, msg.cnt + 1) = (CellAt(job.addr, msg.cnt) + 1) % Size
    BY <2>1, CellSteps
  <2>3. ptr' = (ptr + 1) % Size
    BY <1>1, <1>3
  <2> QED BY <1>3, <2>2, <2>3
<1>6. Giving'
  BY <1>1, <1>2, <1>3, <1>4, <1>5 DEF Giving, Placed
<1>7. ReadSoFar'
  BY <1>1, <1>2 DEF ReadSoFar
<1> QED BY <1>1, <1>6, <1>7, ReceiveFrame

\* The steps of the EEPROM on its own, and none.
LEMMA FrameData ==
    ASSUME I2cInv, I2cDataInv, UNCHANGED <<progVars, conVars, mem, ptr, got, driving>>
    PROVE  I2cDataInv'
<1>1. UNCHANGED <<job, i, i2cpc, ret, before, msg, IICDS, ack, pending, nack, bus, mem, ptr, driving>>
  BY DEF progVars, conVars
<1>2. Written(i)' = Written(i) /\ Written(i + 1)' = Written(i + 1)
  BY <1>1, WrittenIsOver
<1> QED BY <1>1, <1>2 DEF I2cDataInv, WriteSoFar, ReadMessages, Pointed, Giving, ReadSoFar, Placed

LEMMA I2cDataStep == I2cInv /\ I2cDataInv /\ [I2cNext]_i2cVars => I2cDataInv'
<1> SUFFICES ASSUME I2cInv, I2cDataInv, [I2cNext]_i2cVars PROVE I2cDataInv'
  OBVIOUS
<1>1. CASE \E a \in Cell, n \in 1 .. MaxLen :
             at24cxx_read(a, n) \/ \E d \in [1 .. n -> Value] : at24cxx_write(a, d)
  BY <1>1, CallData DEF at24cxx_read, at24cxx_write
<1>2. CASE Program
  BY <1>2, StartData, EndData DEF Program
<1>3. CASE i2c_interrupt_func
  BY <1>3, InterruptData
<1>4. CASE Bus
  BY <1>4, AddressData, ByteOutData, ByteInData DEF Bus
<1>5. CASE EndWriteCycle
  BY <1>5, FrameData DEF EndWriteCycle
<1>6. CASE UNCHANGED i2cVars
  BY <1>6, FrameData DEF i2cVars, devVars
<1> QED BY <1>1, <1>2, <1>3, <1>4, <1>5, <1>6 DEF I2cNext

\* The inductive invariant of the data.
THEOREM I2cDataInvariant == I2cSpec => []I2cDataInv
BY I2cInvariant, I2cInitData, I2cDataStep, PTL DEF I2cSpec

\* A write that fails has stored exactly the bytes of the messages before the
\* failure, each in its own cell, and one that returns 0 has stored them all.
THEOREM WritesStoreAPrefix == I2cSpec => []WritesArePrefix
<1>1. I2cDataInv => WritesArePrefix
  BY DEF I2cDataInv, WriteSoFar, WritesArePrefix
<1> QED BY <1>1, I2cDataInvariant, PTL

\* Whatever the handler has stored by the end of a read that returns 0 is the
\* byte of the EEPROM that belongs there.
THEOREM ReadsStoreInPlace == I2cSpec => []ReadsArePlaced
<1>1. I2cDataInv => ReadsArePlaced
  BY DEF I2cDataInv, ReadSoFar, Placed, ReadsArePlaced
<1> QED BY <1>1, I2cDataInvariant, PTL

-----------------------------------------------------------------------------
\* The SD card.

Filler == CHOOSE v \in Contents : TRUE  \* what the card holds at first
Stored == Contents \cup {Filler}
Disk   == [0 .. Sectors - 1 -> Stored]

Climbing == {"CMD2", "CMD3", "CMD9", "CMD7", "ACMD6"}
Setup    == {"boot", "CMD0", "CMD1", "CMD8", "ACMD41"} \cup Climbing
Moving   == {"start", "move", "poll", "stop", "program", "done"}
States   == {"absent", "idle", "ready", "ident", "stby", "tran", "data", "rcv", "prg"}

Cards == [kind : Kinds, state : States, multi : BOOLEAN, busy : BOOLEAN,
          wide : BOOLEAN, rca : {1}]
NoType == ""
Known == [cCardType : {NoType, "MMC_CARD", "SDHC_V20_CARD", "SD_V1X_CARD", "INVALID_CARD"},
          iCardRCA : {0, 1}]
Xfers == [write : BOOLEAN, addr : Nat, count : Nat \ {0}, moved : Nat, good : Nat]

\* SDI_init has succeeded.
Up == sdpc \in Moving \/ (sdpc = "ready" /\ (sdret = 1 \/ calls < MaxTransfers))

DriverTypes ==
    /\ sdpc \in Setup \cup Moving \cup {"ready"}
    /\ SDCard \in Known
    /\ sdret \in {0, 1}
    /\ calls \in 0 .. MaxTransfers /\ sdfaults \in Nat

XferTypes ==
    /\ xfer \in Xfers
    /\ xfer.good <= xfer.moved
    /\ xfer.moved <= xfer.count /\ xfer.addr + xfer.count <= Sectors

DataTypes ==
    /\ sectors \in Disk /\ initial \in Disk
    /\ xfer.write => buffer \in [1 .. xfer.count -> Contents]

\* Where the call is: how much it has moved, and how far an error has gone unseen.
Progress ==
    /\ sdpc \in Setup => xfer.moved = 0 /\ sdret = 0 /\ calls = MaxTransfers
    /\ sdpc = "start" => xfer.moved = 0
    /\ sdpc = "move" => xfer.moved < xfer.count /\ xfer.moved <= xfer.good + 1
    /\ sdpc = "poll" => xfer.write /\ xfer.moved > 0
    /\ sdpc \in {"stop", "program", "done"} =>
          xfer.moved = xfer.count /\ xfer.moved <= xfer.good + 1
    /\ sdpc = "stop" => xfer.count > 1
    /\ sdpc = "program" => xfer.write

\* The state of the card, as far as the driver can know it.
CardState ==
    /\ sdpc = "CMD7" => SDCard.iCardRCA = card.rca
    /\ sdpc = "ACMD6" => card.state = "tran"
    /\ Up => /\ card.state \in {"tran", "data", "rcv", "prg"}
             /\ card.wide /\ SDCard.iCardRCA = card.rca
    /\ sdpc = "move" => /\ card.state = (IF xfer.write THEN "rcv" ELSE "data")
                        /\ card.multi <=> xfer.count > 1
    /\ sdpc = "poll" => IF xfer.count > 1 THEN card.state = "rcv" /\ card.multi
                                          ELSE card.state \in {"prg", "tran"}
    /\ sdpc \in {"program", "done"} => card.state \in {"prg", "tran"}
    /\ sdpc = "ready" /\ Up /\ (sdret = 1 \/ xfer.count = 1) => card.state \in {"prg", "tran"}

\* A call that writes has written what went well, and one that reads nothing.
OnCard == \A s \in 0 .. Sectors - 1 :
    sectors[s] = IF xfer.write /\ InCall(s) THEN buffer[s - xfer.addr + 1] ELSE initial[s]

InBuffer == ~xfer.write =>
    /\ buffer \in Seq(Stored) /\ Len(buffer) = xfer.moved
    /\ \A k \in 1 .. xfer.good : buffer[k] = sectors[xfer.addr + k - 1]

SdInv == /\ DriverTypes /\ XferTypes /\ card \in Cards /\ DataTypes
         /\ Progress /\ CardState /\ OnCard /\ InBuffer
-----------------------------------------------------------------------------
(* The card. *)

Commands == {"CMD1", "CMD8", "ACMD41", "CMD12", "CMD17", "CMD18", "CMD24", "CMD25"} \cup Climbing

LEMMA AfterType ==
    ASSUME NEW c \in Cards, NEW cmd \in Commands
    PROVE  /\ After(c, cmd) \in Cards
           /\ After(c, cmd).rca = c.rca /\ (c.wide => After(c, cmd).wide)
BY DEF After, Cards, States, Commands, Climbing

\* A command that is not known changes nothing and has no answer.
LEMMA SendEffect ==
    ASSUME NEW cmd, NEW answer, Send(cmd, answer), sdfaults \in Nat
    PROVE  /\ sdfaults' \in Nat
           /\ answer # "none" => Knows(card, cmd)
           /\ IF answer # "none" THEN card' = After(card, cmd)
              ELSE card' = card \/ (Knows(card, cmd) /\ card' = After(card, cmd))
BY DEF Send

LEMMA AfterState ==
    ASSUME NEW c \in Cards
    PROVE  /\ After(c, "CMD7").state = "tran"
           /\ After(c, "ACMD6").state = c.state /\ After(c, "ACMD6").wide
           /\ After(c, "CMD12").state = IF c.state = "data" THEN "tran" ELSE "prg"
           /\ \A cmd \in {"CMD17", "CMD18"} : /\ After(c, cmd).state = "data"
                                              /\ After(c, cmd).multi <=> cmd = "CMD18"
           /\ \A cmd \in {"CMD24", "CMD25"} : /\ After(c, cmd).state = "rcv"
                                              /\ After(c, cmd).multi <=> cmd = "CMD25"
<1>1. /\ After(c, "CMD7").state = "tran"
      /\ After(c, "ACMD6").state = c.state /\ After(c, "ACMD6").wide
      /\ After(c, "CMD12").state = IF c.state = "data" THEN "tran" ELSE "prg"
  BY DEF After, Cards
<1>2. ASSUME NEW cmd \in {"CMD17", "CMD18"}
      PROVE  After(c, cmd).state = "data" /\ (After(c, cmd).multi <=> cmd = "CMD18")
  BY DEF After, Cards
<1>3. ASSUME NEW cmd \in {"CMD24", "CMD25"}
      PROVE  After(c, cmd).state = "rcv" /\ (After(c, cmd).multi <=> cmd = "CMD25")
  BY DEF After, Cards
<1> QED BY <1>1, <1>2, <1>3

\* What a command leaves of the card's type, address and width.
LEMMA SendKeepsCard ==
    ASSUME card \in Cards, NEW cmd \in Commands, NEW answer, Send(cmd, answer), sdfaults \in Nat
    PROVE  card' \in Cards /\ card'.rca = card.rca /\ (card.wide => card'.wide)
BY SendEffect, AfterType

LEMMA Bounds == /\ Sectors \in Nat /\ Sectors >= 1 /\ MaxTransfers \in Nat /\ MaxFaults \in Nat
                /\ Transfers \subseteq [write : BOOLEAN, addr : Nat, count : Nat \ {0}]
                /\ \A t \in Transfers : t.addr + t.count <= Sectors
<1>1. Sectors \in {Sectors, Tries} /\ MaxTransfers \in {MaxTransfers, MaxFaults}
      /\ MaxFaults \in {MaxTransfers, MaxFaults}
  OBVIOUS
<1>2. Sectors \in Nat \ {0} /\ MaxTransfers \in Nat /\ MaxFaults \in Nat
  BY <1>1, SdAssumption, Zenon
<1> QED BY <1>2, SdAssumption

LEMMA SdInitInv == SdInit => SdInv
<1> SUFFICES ASSUME SdInit PROVE SdInv
  OBVIOUS
<1>1. card \in Cards
  <2>1. PICK k \in Kinds, s \in {"absent", "idle"} :
          card = [kind |-> k, state |-> s, multi |-> FALSE, busy |-> FALSE, wide |-> FALSE,
                  rca |-> 1]
    BY Zenon DEF SdInit
  <2> QED BY <2>1 DEF Cards, States
<1>2. /\ sdpc = "boot" /\ sdret = 0 /\ calls = MaxTransfers /\ sdfaults = MaxFaults
      /\ xfer = [write |-> FALSE, addr |-> 0, count |-> 1, moved |-> 0, good |-> 0]
      /\ sectors = [s \in 0 .. Sectors - 1 |-> Filler] /\ initial = sectors /\ buffer = <<>>
  BY DEF SdInit, Filler
<1>8. SDCard \in Known
  <2>1. SDCard = [cCardType |-> NoType, iCardRCA |-> 0]
    BY Zenon DEF SdInit, NoType
  <2> QED BY <2>1 DEF Known
<1>3. DriverTypes
  BY <1>2, <1>8, Bounds DEF DriverTypes, Setup
<1>4. Progress /\ CardState
  BY <1>2 DEF Progress, CardState, Setup, Moving, Up
<1>5. XferTypes
  BY <1>2, Bounds DEF XferTypes, Xfers
<1>6. DataTypes /\ OnCard
  BY <1>2 DEF DataTypes, OnCard, Disk, Stored
<1>7. InBuffer
  BY <1>2 DEF InBuffer
<1> QED BY <1>1, <1>3, <1>4, <1>5, <1>6, <1>7 DEF SdInv

\* The transfer's part of the invariant, in the steps that move nothing.
LEMMA DataStays ==
    ASSUME SdInv, UNCHANGED <<xfer, initial, buffer, sectors>>
    PROVE  (XferTypes /\ DataTypes /\ OnCard /\ InBuffer)'
BY DEF SdInv, XferTypes, DataTypes, OnCard, InBuffer, InCall

-----------------------------------------------------------------------------
(* SDI_init *)

LEMMA BootKeeps == ASSUME SdInv, Boot PROVE SdInv'
<1>1. (XferTypes /\ DataTypes /\ OnCard /\ InBuffer)'
  BY DataStays DEF Boot, unmoved
<1>2. (DriverTypes /\ card \in Cards /\ Progress /\ CardState)'
  BY DEF SdInv, Boot, unmoved, DriverTypes, Progress, CardState, Up, Setup, Climbing, Moving
<1> QED BY <1>1, <1>2 DEF SdInv

LEMMA CMD0Keeps == ASSUME SdInv, CMD0 PROVE SdInv'
<1>1. (XferTypes /\ DataTypes /\ OnCard /\ InBuffer)'
  BY DataStays DEF CMD0, unmoved
<1>2. (DriverTypes /\ card \in Cards /\ Progress /\ CardState)'
  BY DEF SdInv, CMD0, unmoved, DriverTypes, Progress, CardState, Up, Setup, Climbing, Moving,
         Cards, States
<1> QED BY <1>1, <1>2 DEF SdInv

LEMMA CMD1Keeps == ASSUME SdInv, CMD1 PROVE SdInv'
<1>1. (XferTypes /\ DataTypes /\ OnCard /\ InBuffer)'
  BY DataStays DEF CMD1, unmoved
<1>2. card' \in Cards /\ sdfaults' \in Nat
  BY SendKeepsCard, SendEffect DEF CMD1, SdInv, DriverTypes, Commands
<1>3. SDCard' \in Known
  BY DEF CMD1, SdInv, DriverTypes, Known
<1>4. sdpc = "CMD1" /\ sdpc' \in {"ACMD41", "CMD8"} /\ UNCHANGED <<sdret, calls, xfer>>
  BY DEF CMD1, unmoved
<1>5. (DriverTypes /\ Progress /\ CardState)'
  BY <1>2, <1>3, <1>4 DEF SdInv, DriverTypes, Progress, CardState, Up, Setup, Climbing, Moving
<1> QED BY <1>1, <1>2, <1>5 DEF SdInv

LEMMA CMD8Keeps == ASSUME SdInv, CMD8 PROVE SdInv'
<1>1. (XferTypes /\ DataTypes /\ OnCard /\ InBuffer)'
  BY DataStays DEF CMD8, unmoved
<1>2. card' \in Cards /\ sdfaults' \in Nat
  BY SendKeepsCard, SendEffect DEF CMD8, SdInv, DriverTypes, Commands
<1>3. SDCard' \in Known
  <2>1. PICK a \in Answer : SDCard' = [SDCard EXCEPT !.cCardType =
            CASE a = "good" -> "SDHC_V20_CARD" [] a = "none" -> "SD_V1X_CARD"
              [] OTHER -> "INVALID_CARD"]
    BY DEF CMD8
  <2>2. a = "good" \/ a = "none" \/ (a # "good" /\ a # "none")
    OBVIOUS
  <2>3. PICK k \in {"SDHC_V20_CARD", "SD_V1X_CARD", "INVALID_CARD"} :
            SDCard' = [SDCard EXCEPT !.cCardType = k]
    BY <2>1, <2>2
  <2> QED BY <2>3 DEF SdInv, DriverTypes, Known
<1>4. sdpc = "CMD8" /\ sdpc' = "ACMD41" /\ UNCHANGED <<sdret, calls, xfer>>
  BY DEF CMD8, unmoved
<1>5. (DriverTypes /\ Progress /\ CardState)'
  BY <1>2, <1>3, <1>4 DEF SdInv, DriverTypes, Progress, CardState, Up, Setup, Climbing, Moving
<1> QED BY <1>1, <1>2, <1>5 DEF SdInv

LEMMA ACMD41Keeps == ASSUME SdInv, ACMD41 PROVE SdInv'
<1>1. (XferTypes /\ DataTypes /\ OnCard /\ InBuffer)'
  BY DataStays DEF ACMD41, unmoved
<1>2. card' \in Cards /\ sdfaults' \in Nat
  <2>1. CASE \E a \in Answer : Send("ACMD41", a)
    BY <2>1, SendKeepsCard, SendEffect DEF SdInv, DriverTypes, Commands
  <2>2. CASE UNCHANGED <<card, sdfaults>>
    BY <2>2 DEF SdInv, DriverTypes
  <2> QED BY <2>1, <2>2 DEF ACMD41, Answer
<1>3. sdpc = "ACMD41" /\ sdpc' \in {"CMD2", "ACMD41", "ready"} /\ sdret' \in {0, sdret}
      /\ UNCHANGED <<SDCard, xfer, calls>>
  BY DEF ACMD41, Return, unmoved
<1>4. (DriverTypes /\ Progress /\ CardState)'
  BY <1>2, <1>3 DEF SdInv, DriverTypes, Progress, CardState, Up, Setup, Climbing, Moving
<1> QED BY <1>1, <1>2, <1>4 DEF SdInv

LEMMA ClimbKeeps == ASSUME SdInv, Climb PROVE SdInv'
<1>1. sdpc \in Climbing /\ sdret = 0 /\ xfer.moved = 0 /\ calls' = calls /\ calls = MaxTransfers
      /\ sectors' = sectors
  BY DEF Climb, Ladder, Climbing, SdInv, Progress, Setup
<1>2. PICK a \in Answer :
         /\ Send(sdpc, a)
         /\ IF a = "none"
            THEN Return(0) /\ UNCHANGED <<SDCard, xfer, initial, buffer>>
            ELSE /\ sdpc' = Ladder[sdpc]
                 /\ SDCard' = [SDCard EXCEPT !.iCardRCA = Address(sdpc, a)]
                 /\ xfer' = [write |-> FALSE, addr |-> 0, count |-> 1, moved |-> 0, good |-> 0]
                 /\ initial' = sectors
                 /\ buffer' = <<>>
                 /\ UNCHANGED sdret
  BY DEF Climb
<1>3. /\ card' \in Cards /\ sdfaults' \in Nat /\ card'.rca = card.rca
  BY <1>1, <1>2, SendKeepsCard, SendEffect DEF SdInv, DriverTypes, Commands
<1>4. CASE a = "none"
  <2>1. (XferTypes /\ DataTypes /\ OnCard /\ InBuffer)'
    BY <1>1, <1>2, <1>4, DataStays
  <2>2. (DriverTypes /\ Progress /\ CardState)'
    BY <1>1, <1>2, <1>3, <1>4
       DEF SdInv, Return, DriverTypes, Progress, CardState, Up, Setup, Climbing, Moving
  <2> QED BY <1>3, <2>1, <2>2 DEF SdInv
<1>5. CASE a # "none"
  <2>1. Knows(card, sdpc) /\ card' = After(card, sdpc) /\ sdpc' = Ladder[sdpc]
    BY <1>2, <1>3, <1>5, SendEffect DEF SdInv, DriverTypes
  <2>2. xfer' = [write |-> FALSE, addr |-> 0, count |-> 1, moved |-> 0, good |-> 0]
        /\ initial' = sectors /\ buffer' = <<>>
    BY <1>2, <1>5
  <2>3. (XferTypes /\ DataTypes /\ OnCard)'
    BY <1>1, <2>2, SdAssumption DEF SdInv, XferTypes, Xfers, DataTypes, OnCard, Disk
  <2>4. InBuffer'
    BY <2>2 DEF InBuffer
  <2>5. SDCard' \in Known
        /\ (sdpc # "CMD3" => SDCard' = SDCard)
    BY <1>2, <1>5 DEF SdInv, DriverTypes, Address, Cards, Known
  <2>6. (DriverTypes /\ Progress)'
    BY <1>1, <1>2, <1>3, <1>5, <2>2, <2>5
       DEF SdInv, DriverTypes, Progress, Setup, Climbing, Moving, Ladder
  <2>7. CardState'
    <3>1. sdpc = "CMD9" => SDCard'.iCardRCA = card'.rca
      BY <1>3, <2>1, <2>5 DEF Knows
    <3>2. sdpc = "CMD7" => card'.state = "tran"
      BY <2>1, AfterState DEF SdInv
    <3>3. sdpc = "ACMD6" => /\ card'.state = "tran" /\ card'.wide
                            /\ SDCard'.iCardRCA = card'.rca
      BY <1>3, <2>1, <2>5, AfterState DEF SdInv, CardState, Knows
    <3> QED BY <1>1, <1>2, <1>5, <2>1, <3>1, <3>2, <3>3 DEF CardState, Up, Climbing, Moving, Ladder
  <2> QED BY <1>3, <2>3, <2>4, <2>6, <2>7 DEF SdInv
<1> QED BY <1>4, <1>5

-----------------------------------------------------------------------------
(* Read_Mult_Block and Write_Mult_Block *)

LEMMA CardCallKeeps ==
    ASSUME SdInv, NEW t \in Transfers, NEW data \in [1 .. t.count -> Contents], Call(t, data)
    PROVE  SdInv'
<1>1. /\ sdpc = "ready" /\ sdpc' = "start" /\ Up
      /\ xfer' = [write |-> t.write, addr |-> t.addr, count |-> t.count, moved |-> 0,
                  good |-> 0]
      /\ initial' = sectors /\ sectors' = sectors /\ card' = card /\ SDCard' = SDCard
      /\ sdret' = sdret /\ sdfaults' = sdfaults /\ calls > 0 /\ calls' = calls - 1
      /\ buffer' = IF t.write THEN data ELSE <<>>
  BY DEF Call, Up
<1>2. t \in [write : BOOLEAN, addr : Nat, count : Nat \ {0}] /\ t.addr + t.count <= Sectors
  BY Bounds
<1>3. XferTypes'
  BY <1>1, <1>2 DEF XferTypes, Xfers
<1>4. DataTypes'
  BY <1>1 DEF SdInv, DataTypes
<1>5. OnCard'
  BY <1>1, <1>2, Bounds DEF SdInv, DataTypes, Disk, OnCard, InCall
<1>6. InBuffer'
  BY <1>1 DEF InBuffer
<1>7. DriverTypes'
  BY <1>1, Bounds DEF SdInv, DriverTypes, Moving
<1>8. Progress' /\ CardState'
  BY <1>1 DEF SdInv, Progress, CardState, Up, Setup, Climbing, Moving
<1> QED BY <1>1, <1>3, <1>4, <1>5, <1>6, <1>7, <1>8 DEF SdInv

LEMMA CardStartKeeps == ASSUME SdInv, Start PROVE SdInv'
<1>1. /\ sdpc = "start" /\ UNCHANGED <<SDCard, sdret, xfer, initial, buffer, calls, sectors>>
      /\ Up
  BY DEF Start, unmoved, Up, Moving
<1>2. PICK a \in Answer : Send(StartCmd(xfer), a) /\ sdpc' = IF a = "none" THEN "start" ELSE "move"
  BY DEF Start
<1>3. (XferTypes /\ DataTypes /\ OnCard /\ InBuffer)'
  BY <1>1, DataStays
<1>4. StartCmd(xfer) \in Commands
  BY DEF StartCmd, Commands
<1>5. card' \in Cards /\ sdfaults' \in Nat /\ card'.rca = card.rca /\ card'.wide
  BY <1>1, <1>2, <1>4, SendKeepsCard, SendEffect DEF SdInv, DriverTypes, CardState
<1>6. DriverTypes' /\ Progress'
  BY <1>1, <1>2, <1>5 DEF SdInv, DriverTypes, Progress, XferTypes, Xfers, Setup, Climbing, Moving
<1>7. card' = card \/ card' = After(card, StartCmd(xfer))
  BY <1>2, SendEffect DEF SdInv, DriverTypes
<1>8. card' = After(card, StartCmd(xfer)) =>
        /\ card'.state = (IF xfer.write THEN "rcv" ELSE "data")
        /\ card'.multi <=> xfer.count > 1
  <2> SUFFICES ASSUME card' = After(card, StartCmd(xfer))
               PROVE  /\ card'.state = (IF xfer.write THEN "rcv" ELSE "data")
                      /\ card'.multi <=> xfer.count > 1
    OBVIOUS
  <2>1. xfer.write \in BOOLEAN /\ xfer.count \in Nat /\ xfer.count # 0
    BY DEF SdInv, XferTypes, Xfers
  <2>2. (xfer.count = 1) <=> ~(xfer.count > 1)
    BY <2>1
  <2>3. CASE xfer.write
    <3>1. StartCmd(xfer) = IF xfer.count = 1 THEN "CMD24" ELSE "CMD25"
      BY <2>3 DEF StartCmd
    <3> QED BY <2>2, <2>3, <3>1, AfterState DEF SdInv
  <2>4. CASE ~xfer.write
    <3>1. StartCmd(xfer) = IF xfer.count = 1 THEN "CMD17" ELSE "CMD18"
      BY <2>4 DEF StartCmd
    <3> QED BY <2>2, <2>4, <3>1, AfterState DEF SdInv
  <2> QED BY <2>3, <2>4
<1>9. a # "none" => card' = After(card, StartCmd(xfer))
  BY <1>2, SendEffect DEF SdInv, DriverTypes
<1>10. CardState'
  <2>1. card'.state \in {"tran", "data", "rcv", "prg"}
    BY <1>1, <1>7, <1>8 DEF SdInv, CardState
  <2> QED BY <1>1, <1>2, <1>5, <1>8, <1>9, <2>1 DEF SdInv, CardState, Up, Moving
<1> QED BY <1>3, <1>5, <1>6, <1>10 DEF SdInv

\* A step after which the call returns 0, and that has moved nothing.
LEMMA FailKeeps ==
    ASSUME SdInv, sdpc \in {"move", "poll"}, sdfaults' \in Nat, Return(0),
           card' \in Cards, card'.rca = card.rca, card'.wide = card.wide,
           card'.state \in {"tran", "data", "rcv", "prg"},
           xfer.count = 1 => card'.state \in {"tran", "prg"},
           UNCHANGED <<SDCard, xfer, initial, buffer, calls, sectors>>
    PROVE  SdInv'
<1>1. (XferTypes /\ DataTypes /\ OnCard /\ InBuffer)'
  BY DataStays
<1>2. DriverTypes' /\ Progress'
  BY DEF Return, SdInv, DriverTypes, Progress, Setup, Climbing, Moving
<1>3. Up
  BY DEF SdInv, CardState, Up, Moving
<1>4. CardState'
  BY <1>3 DEF Return, SdInv, CardState, Up, Moving
<1> QED BY <1>1, <1>2, <1>4 DEF SdInv

\* The record of a transfer after one more sector.
LEMMA TookOne ==
    ASSUME SdInv, sdpc = "move", NEW sound \in BOOLEAN, xfer' = Took(xfer, sound)
    PROVE  /\ xfer' \in Xfers /\ xfer'.moved = xfer.moved + 1 /\ xfer'.moved <= xfer.count
           /\ xfer'.good = IF sound THEN xfer.good + 1 ELSE xfer.good
           /\ xfer'.write = xfer.write /\ xfer'.addr = xfer.addr /\ xfer'.count = xfer.count
           /\ Sector(xfer) \in 0 .. Sectors - 1
           /\ Sector(xfer) = xfer.addr + xfer.moved
           /\ xfer.moved \in Nat /\ xfer.good \in Nat /\ xfer.addr \in Nat /\ xfer.count \in Nat
           /\ xfer.good <= xfer.moved /\ xfer.moved < xfer.count /\ xfer.moved <= xfer.good + 1
<1>1. /\ xfer \in Xfers /\ xfer.good <= xfer.moved /\ xfer.moved < xfer.count
      /\ xfer.moved <= xfer.good + 1 /\ xfer.addr + xfer.count <= Sectors
  BY DEF SdInv, XferTypes, Progress
<1>2. /\ xfer' \in Xfers /\ xfer'.moved = xfer.moved + 1
      /\ xfer'.good = IF sound THEN xfer.good + 1 ELSE xfer.good
      /\ xfer'.write = xfer.write /\ xfer'.addr = xfer.addr /\ xfer'.count = xfer.count
  <2>1. xfer' = [xfer EXCEPT !.moved = xfer.moved + 1,
                             !.good = IF sound THEN xfer.good + 1 ELSE xfer.good]
    BY DEF Took
  <2> DEFINE g == IF sound THEN xfer.good + 1 ELSE xfer.good
  <2>2. xfer.good \in Nat /\ xfer.moved \in Nat /\ g \in Nat /\ xfer.moved + 1 \in Nat
    BY <1>1 DEF Xfers
  <2>3. xfer \in Xfers /\ xfer' = [xfer EXCEPT !.moved = xfer.moved + 1, !.good = g]
    BY <1>1, <2>1
  <2> HIDE DEF g
  <2>4. /\ xfer' \in Xfers /\ xfer'.moved = xfer.moved + 1 /\ xfer'.good = g
        /\ xfer'.write = xfer.write /\ xfer'.addr = xfer.addr /\ xfer'.count = xfer.count
    BY <2>2, <2>3 DEF Xfers
  <2> QED BY <2>4 DEF g
<1>3. /\ xfer.moved \in Nat /\ xfer.good \in Nat /\ xfer.addr \in Nat /\ xfer.count \in Nat
  BY <1>1 DEF Xfers
<1> QED BY <1>1, <1>2, <1>3, Bounds DEF Sector

\* A sector has been read, well or not: only the buffer's last place is new.
LEMMA ReadOneKeeps ==
    ASSUME SdInv, sdpc = "move", ~xfer.write, card.state = "data",
           UNCHANGED <<SDCard, initial, calls, sectors, sdret>>, sdfaults' \in Nat,
           NEW sound \in BOOLEAN, xfer' = Took(xfer, sound), ~Unsound(xfer),
           NEW v \in Stored, buffer' = Append(buffer, v),
           sound => v = sectors[Sector(xfer)],
           sdpc' = AfterSector,
           card' = [card EXCEPT !.state = IF card.multi THEN "data" ELSE "tran"]
    PROVE  SdInv'
<1>1. /\ xfer' \in Xfers /\ xfer'.moved = xfer.moved + 1 /\ xfer'.moved <= xfer.count
      /\ xfer'.good = IF sound THEN xfer.good + 1 ELSE xfer.good
      /\ ~xfer'.write /\ xfer'.addr = xfer.addr /\ xfer'.count = xfer.count
      /\ Sector(xfer) = xfer.addr + xfer.moved
      /\ xfer.moved \in Nat /\ xfer.good \in Nat /\ xfer.addr \in Nat /\ xfer.count \in Nat
      /\ xfer.good = xfer.moved
  BY TookOne DEF Unsound
<1>2. XferTypes' /\ DataTypes' /\ OnCard'
  BY <1>1 DEF SdInv, XferTypes, DataTypes, OnCard, InCall
<1>3. InBuffer'
  <2>1. buffer \in Seq(Stored) /\ Len(buffer) = xfer.moved
        /\ \A k \in 1 .. xfer.good : buffer[k] = sectors[xfer.addr + k - 1]
    BY DEF SdInv, InBuffer
  <2>2. /\ buffer' \in Seq(Stored) /\ Len(buffer') = xfer.moved + 1
        /\ buffer'[xfer.moved + 1] = v
        /\ \A k \in 1 .. xfer.moved : buffer'[k] = buffer[k]
    BY <1>1, <2>1, AppendProperties
  <2>3. ASSUME NEW k \in 1 .. xfer'.good PROVE buffer'[k] = sectors[xfer.addr + k - 1]
    <3>1. CASE k \in 1 .. xfer.moved
      BY <1>1, <2>1, <2>2, <3>1
    <3>2. CASE k \notin 1 .. xfer.moved
      <4>1. sound /\ k = xfer.moved + 1 /\ xfer.addr + k - 1 = Sector(xfer)
        BY <1>1, <3>2
      <4> QED BY <2>2, <4>1
    <3> QED BY <3>1, <3>2
  <2> QED BY <1>1, <2>2, <2>3 DEF InBuffer
<1>4. card' \in Cards /\ card'.rca = card.rca /\ card'.wide = card.wide
      /\ card'.state = (IF card.multi THEN "data" ELSE "tran") /\ card'.multi = card.multi
  BY DEF SdInv, Cards, States
<1>5. /\ (card.multi <=> xfer.count > 1) /\ xfer.count \in Nat \ {0}
      /\ sdpc' \in {"move", "stop", "done"}
      /\ sdpc' = "move" => xfer.moved + 1 < xfer.count
      /\ sdpc' # "move" => xfer.moved + 1 = xfer.count
      /\ sdpc' = "stop" => xfer.count > 1
      /\ sdpc' = "done" => xfer.count = 1
  BY <1>1 DEF SdInv, CardState, AfterSector, Finish, Stops, XferTypes, Xfers
<1>6. DriverTypes' /\ Progress'
  BY <1>1, <1>5 DEF SdInv, DriverTypes, Progress, Setup, Climbing, Moving
<1>7. CardState'
  <2>1. card.wide /\ SDCard.iCardRCA = card.rca
    BY DEF SdInv, CardState, Up, Moving
  <2>2. card'.state \in {"data", "tran"} /\ (card'.state = "tran" <=> xfer.count = 1)
    BY <1>4, <1>5
  <2>3. sdpc' = "move" => card'.state = "data"
    BY <1>1, <1>5, <2>2
  <2>4. sdpc' = "done" => card'.state = "tran"
    BY <1>5, <2>2
  <2> QED BY <1>1, <1>4, <1>5, <2>1, <2>2, <2>3, <2>4 DEF CardState, Up, Moving
<1> QED BY <1>2, <1>3, <1>4, <1>6, <1>7 DEF SdInv

LEMMA ReadKeeps == ASSUME SdInv, ReadSector PROVE SdInv'
<1>1. /\ sdpc = "move" /\ ~xfer.write /\ card.state = "data" /\ sdfaults \in Nat
      /\ card' = [card EXCEPT !.state = IF card.multi THEN "data" ELSE "tran"]
      /\ UNCHANGED <<SDCard, initial, calls, sectors>>
  BY DEF ReadSector, SdInv, DriverTypes
<1>2. CASE /\ ~Unsound(xfer)
           /\ xfer' = Took(xfer, TRUE)
           /\ buffer' = Append(buffer, sectors[Sector(xfer)])
           /\ sdpc' = AfterSector
           /\ UNCHANGED <<sdret, sdfaults>>
  <2>1. sectors[Sector(xfer)] \in Stored
    BY <1>1, <1>2, TookOne DEF SdInv, DataTypes, Disk
  <2> QED BY <1>1, <1>2, <2>1, ReadOneKeeps
<1>3. CASE /\ ~Unsound(xfer) /\ sdfaults > 0 /\ sdfaults' = sdfaults - 1
           /\ xfer' = Took(xfer, FALSE)
           /\ \E v \in Contents : buffer' = Append(buffer, v)
           /\ sdpc' = AfterSector
           /\ UNCHANGED sdret
  <2>1. PICK v \in Contents : buffer' = Append(buffer, v)
    BY <1>3
  <2>2. v \in Stored /\ sdfaults' \in Nat
    BY <1>1, <1>3 DEF Stored
  <2> QED BY <1>1, <1>3, <2>1, <2>2, ReadOneKeeps
<1>4. CASE /\ (sdfaults > 0 /\ sdfaults' = sdfaults - 1) \/ (Unsound(xfer) /\ UNCHANGED sdfaults)
           /\ Return(0)
           /\ UNCHANGED <<buffer, xfer>>
  <2>1. card' \in Cards /\ card'.rca = card.rca /\ card'.wide = card.wide
        /\ card'.state = (IF card.multi THEN "data" ELSE "tran")
    BY <1>1 DEF SdInv, Cards, States
  <2>2. xfer.count = 1 => ~card.multi
    BY <1>1 DEF SdInv, CardState
  <2>3. sdfaults' \in Nat
    BY <1>1, <1>4
  <2>4. /\ card'.state \in {"tran", "data", "rcv", "prg"}
        /\ xfer.count = 1 => card'.state \in {"tran", "prg"}
    BY <2>1, <2>2
  <2> QED BY <1>1, <1>4, <2>1, <2>3, <2>4, FailKeeps
<1> QED BY <1>2, <1>3, <1>4 DEF ReadSector

LEMMA WriteKeeps == ASSUME SdInv, WriteSector PROVE SdInv'
<1>1. /\ sdpc = "move" /\ sdpc' = "poll" /\ xfer.write /\ card.state = "rcv"
      /\ (card.multi <=> xfer.count > 1) /\ sdfaults \in Nat
      /\ UNCHANGED <<SDCard, sdret, initial, buffer, calls>>
  BY DEF WriteSector, SdInv, CardState, DriverTypes
<1>2. PICK sound \in BOOLEAN :
        /\ xfer' = Took(xfer, sound) /\ (sound => ~Unsound(xfer))
        /\ sectors' = IF sound THEN [sectors EXCEPT ![Sector(xfer)] = buffer[xfer.moved + 1]]
                               ELSE sectors
        /\ \/ card' = [card EXCEPT !.busy = TRUE,
                                   !.state = IF card.multi THEN "rcv" ELSE "prg"]
           \/ card' = [card EXCEPT !.state = IF card.multi THEN "rcv" ELSE "tran"]
        /\ sdfaults' = sdfaults \/ (sdfaults > 0 /\ sdfaults' = sdfaults - 1)
  BY DEF WriteSector
<1>3. sdfaults' \in Nat
  BY <1>1, <1>2
<1>4. /\ xfer' \in Xfers /\ xfer'.moved = xfer.moved + 1 /\ xfer'.moved <= xfer.count
      /\ xfer'.good = IF sound THEN xfer.good + 1 ELSE xfer.good
      /\ xfer'.write /\ xfer'.addr = xfer.addr /\ xfer'.count = xfer.count
      /\ Sector(xfer) \in 0 .. Sectors - 1 /\ Sector(xfer) = xfer.addr + xfer.moved
      /\ xfer.moved \in Nat /\ xfer.good \in Nat /\ xfer.addr \in Nat /\ xfer.count \in Nat
      /\ xfer.good <= xfer.moved /\ xfer.moved < xfer.count /\ xfer.moved <= xfer.good + 1
      /\ sound => xfer.good = xfer.moved
  <2>1. xfer' = Took(xfer, sound)
    BY <1>2
  <2>2. /\ xfer' \in Xfers /\ xfer'.moved = xfer.moved + 1 /\ xfer'.moved <= xfer.count
        /\ xfer'.good = IF sound THEN xfer.good + 1 ELSE xfer.good
        /\ xfer'.write = xfer.write /\ xfer'.addr = xfer.addr /\ xfer'.count = xfer.count
        /\ Sector(xfer) \in 0 .. Sectors - 1 /\ Sector(xfer) = xfer.addr + xfer.moved
        /\ xfer.moved \in Nat /\ xfer.good \in Nat /\ xfer.addr \in Nat /\ xfer.count \in Nat
        /\ xfer.good <= xfer.moved /\ xfer.moved < xfer.count /\ xfer.moved <= xfer.good + 1
    BY <1>1, <2>1, TookOne
  <2>3. sound => ~(xfer.good < xfer.moved)
    BY <1>2 DEF Unsound
  <2> QED BY <1>1, <2>2, <2>3
<1>5. XferTypes'
  BY <1>4 DEF SdInv, XferTypes
<1>6. DataTypes'
  <2>1. buffer \in [1 .. xfer.count -> Contents] /\ buffer[xfer.moved + 1] \in Contents
    BY <1>1, <1>4 DEF SdInv, DataTypes
  <2> QED BY <1>1, <1>2, <1>4, <2>1 DEF SdInv, DataTypes, Disk, Stored
<1>7. OnCard'
  <2> SUFFICES ASSUME NEW s \in 0 .. Sectors - 1
               PROVE  sectors'[s] = IF s \in xfer.addr .. xfer.addr + xfer'.good - 1
                                    THEN buffer[s - xfer.addr + 1] ELSE initial[s]
    BY <1>1, <1>4 DEF OnCard, InCall
  <2>1. sectors[s] = IF s \in xfer.addr .. xfer.addr + xfer.good - 1
                     THEN buffer[s - xfer.addr + 1] ELSE initial[s]
    BY <1>1 DEF SdInv, OnCard, InCall
  <2>2. DOMAIN sectors = 0 .. Sectors - 1
    BY DEF SdInv, DataTypes, Disk
  <2>3. CASE ~sound
    BY <1>2, <1>4, <2>1, <2>3
  <2>4. CASE sound /\ s = Sector(xfer)
    <3>1. s - xfer.addr + 1 = xfer.moved + 1
          /\ s \in xfer.addr .. xfer.addr + xfer'.good - 1
      BY <1>4, <2>4
    <3> QED BY <1>2, <2>2, <2>4, <3>1
  <2>5. CASE sound /\ s # Sector(xfer)
    <3>1. s \in xfer.addr .. xfer.addr + xfer'.good - 1
            <=> s \in xfer.addr .. xfer.addr + xfer.good - 1
      BY <1>4, <2>5, Bounds
    <3> QED BY <1>2, <2>1, <2>2, <2>5, <3>1
  <2> QED BY <2>3, <2>4, <2>5
<1>8. InBuffer'
  BY <1>4 DEF InBuffer
<1>9. card' \in Cards /\ card'.rca = card.rca /\ card'.wide = card.wide
      /\ (IF card.multi THEN card'.state = "rcv" ELSE card'.state \in {"prg", "tran"})
      /\ (card'.multi <=> card.multi)
  BY <1>2 DEF SdInv, Cards, States
<1>10. DriverTypes' /\ Progress'
  BY <1>1, <1>3, <1>4 DEF SdInv, DriverTypes, Progress, Setup, Climbing, Moving
<1>11. CardState'
  <2>1. card.wide /\ SDCard.iCardRCA = card.rca
    BY <1>1 DEF SdInv, CardState, Up, Moving
  <2>2. IF xfer'.count > 1 THEN card'.state = "rcv" /\ card'.multi
                           ELSE card'.state \in {"prg", "tran"}
    BY <1>1, <1>4, <1>9
  <2>3. card'.state \in {"tran", "data", "rcv", "prg"}
    BY <1>9
  <2> QED BY <1>1, <1>9, <2>1, <2>2, <2>3 DEF CardState, Up, Moving
<1> QED BY <1>5, <1>6, <1>7, <1>8, <1>9, <1>10, <1>11 DEF SdInv

LEMMA PollKeeps == ASSUME SdInv, Poll PROVE SdInv'
<1>1. /\ sdpc = "poll" /\ sdfaults' \in Nat
      /\ UNCHANGED <<SDCard, xfer, initial, buffer, calls, sectors, card>>
  BY DEF Poll, unmoved, SdInv, DriverTypes
<1>2. /\ xfer.write /\ xfer.moved \in Nat /\ xfer.count \in Nat /\ xfer.good \in Nat
      /\ xfer.moved > 0 /\ xfer.moved <= xfer.count
  BY <1>1 DEF SdInv, Progress, XferTypes, Xfers
<1>3. CASE Return(0)
  <2>1. card.state \in {"tran", "data", "rcv", "prg"}
        /\ (xfer.count = 1 => card.state \in {"tran", "prg"})
    BY <1>1 DEF SdInv, CardState, Up, Moving
  <2> QED BY <1>1, <1>3, <2>1, FailKeeps DEF SdInv
<1>4. CASE /\ xfer.moved - xfer.good < 2
           /\ sdpc' = IF xfer.moved = xfer.count THEN Finish(xfer) ELSE "move"
           /\ UNCHANGED sdret
  <2>1. (XferTypes /\ DataTypes /\ OnCard /\ InBuffer)'
    BY <1>1, DataStays
  <2>2. /\ sdpc' \in {"move", "stop", "program"}
        /\ sdpc' = "move" => xfer.moved < xfer.count
        /\ sdpc' # "move" => xfer.moved = xfer.count
        /\ sdpc' = "stop" <=> (sdpc' # "move" /\ xfer.count > 1)
        /\ xfer.moved <= xfer.good + 1
    BY <1>2, <1>4 DEF Finish, Stops
  <2>3. DriverTypes' /\ Progress'
    BY <1>1, <1>2, <1>4, <2>2 DEF SdInv, DriverTypes, Progress, Setup, Climbing, Moving
  <2>4. sdpc' = "move" => xfer.count > 1
    BY <1>2, <2>2
  <2>5. sdpc' = "program" => ~(xfer.count > 1)
    BY <2>2
  <2>6. CardState'
    BY <1>1, <1>2, <1>4, <2>2, <2>4, <2>5 DEF SdInv, CardState, Up, Moving
  <2> QED BY <1>1, <2>1, <2>3, <2>6 DEF SdInv
<1> QED BY <1>3, <1>4 DEF Poll

LEMMA CardStopKeeps == ASSUME SdInv, SendStop PROVE SdInv'
<1>1. /\ sdpc = "stop" /\ UNCHANGED <<SDCard, sdret, xfer, initial, buffer, calls, sectors>>
      /\ Up
  BY DEF SendStop, unmoved, Up, Moving
<1>2. PICK a \in Answer :
        /\ Send("CMD12", a)
        /\ sdpc' = IF a = "none" THEN "stop" ELSE IF xfer.write THEN "program" ELSE "done"
  BY DEF SendStop
<1>3. (XferTypes /\ DataTypes /\ OnCard /\ InBuffer)'
  BY <1>1, DataStays
<1>4. card' \in Cards /\ sdfaults' \in Nat /\ card'.rca = card.rca /\ card'.wide
  BY <1>1, <1>2, SendKeepsCard, SendEffect DEF SdInv, DriverTypes, CardState, Commands
<1>5. DriverTypes' /\ Progress'
  BY <1>1, <1>2, <1>4 DEF SdInv, DriverTypes, Progress, Setup, Climbing, Moving
<1>6. /\ card'.state \in {"tran", "data", "rcv", "prg"}
      /\ a # "none" => card'.state \in {"tran", "prg"}
  BY <1>1, <1>2, SendEffect, AfterState DEF SdInv, DriverTypes, CardState
<1>7. CardState'
  BY <1>1, <1>2, <1>4, <1>6 DEF SdInv, CardState, Up, Moving
<1> QED BY <1>3, <1>4, <1>5, <1>7 DEF SdInv

LEMMA ProgrammedKeeps == ASSUME SdInv, Programmed PROVE SdInv'
<1>1. (XferTypes /\ DataTypes /\ OnCard /\ InBuffer)'
  BY DataStays DEF Programmed, unmoved
<1>2. (DriverTypes /\ card \in Cards /\ Progress /\ CardState)'
  BY DEF SdInv, Programmed, unmoved, DriverTypes, Progress, CardState, Up, Setup, Climbing, Moving
<1> QED BY <1>1, <1>2 DEF SdInv

LEMMA SucceedKeeps == ASSUME SdInv, Succeed PROVE SdInv'
<1>1. (XferTypes /\ DataTypes /\ OnCard /\ InBuffer)'
  BY DataStays DEF Succeed, unmoved
<1>2. (DriverTypes /\ card \in Cards /\ Progress /\ CardState)'
  BY DEF SdInv, Succeed, Return, unmoved, DriverTypes, Progress, CardState, Up, Setup, Climbing,
         Moving
<1> QED BY <1>1, <1>2 DEF SdInv

-----------------------------------------------------------------------------
(* The card on its own, and every step. *)

LEMMA CardKeeps == ASSUME SdInv, CardGoesOn PROVE SdInv'
<1>1. UNCHANGED <<sdpc, SDCard, sdret, xfer, initial, buffer, calls, sectors, sdfaults>>
  BY DEF CardGoesOn, driverVars
<1>2. (XferTypes /\ DataTypes /\ OnCard /\ InBuffer)'
  BY <1>1, DataStays
<1>3. /\ card' \in Cards /\ card'.rca = card.rca /\ card'.wide = card.wide
      /\ card'.multi = card.multi
      /\ \/ card'.state = card.state
         \/ card.state = "prg" /\ card'.state = "tran"
         \/ card.state = "data" /\ card'.state = "tran" /\ sdpc = "start"
  BY DEF CardGoesOn, SdInv, Cards, States
<1>4. (DriverTypes /\ Progress)'
  BY <1>1 DEF SdInv, DriverTypes, Progress
<1>5. CardState'
  BY <1>1, <1>3 DEF SdInv, CardState, Up, Moving
<1> QED BY <1>2, <1>3, <1>4, <1>5 DEF SdInv

LEMMA SdStep == SdInv /\ [SdNext]_sdVars => SdInv'
<1> SUFFICES ASSUME SdInv, [SdNext]_sdVars PROVE SdInv'
  OBVIOUS
<1>1. CASE SDI_init
  BY <1>1, CMD0Keeps, CMD1Keeps, CMD8Keeps, ACMD41Keeps, ClimbKeeps DEF SDI_init
<1>2. CASE Start \/ ReadSector \/ WriteSector \/ Poll \/ SendStop \/ Programmed \/ Succeed
  BY <1>2, CardStartKeeps, ReadKeeps, WriteKeeps, PollKeeps, CardStopKeeps, ProgrammedKeeps, SucceedKeeps
<1>3. CASE Caller
  BY <1>3, BootKeeps, CardCallKeeps DEF Caller
<1>4. CASE CardGoesOn
  BY <1>4, CardKeeps
<1>5. CASE UNCHANGED sdVars
  <2>1. (XferTypes /\ DataTypes /\ OnCard /\ InBuffer)'
    BY <1>5, DataStays DEF sdVars, driverVars
  <2>2. (DriverTypes /\ card \in Cards /\ Progress /\ CardState)'
    BY <1>5 DEF SdInv, sdVars, driverVars, DriverTypes, Progress, CardState, Up
  <2> QED BY <2>1, <2>2 DEF SdInv
<1> QED BY <1>1, <1>2, <1>3, <1>4, <1>5 DEF SdNext, Driver

\* In every state the driver knows how far the call is and, but for the command
\* whose answer may be lost, the state that the card is in.
THEOREM CardInvariant == SdSpec => []SdInv
BY SdInitInv, SdStep, PTL DEF SdSpec

LEMMA CardInvImplies == SdInv => TransfersExact
<1> SUFFICES ASSUME SdInv PROVE TransfersExact
  OBVIOUS
<1>1. DOMAIN sectors = 0 .. Sectors - 1
  BY DEF SdInv, DataTypes, Disk
<1>2. sdpc = "done" => xfer.moved = xfer.count /\ xfer.good >= xfer.count - 1
  BY DEF SdInv, Progress, XferTypes, Xfers
<1>3. sdpc = "ready" /\ (sdret = 1 \/ (calls < MaxTransfers /\ xfer.count = 1)) =>
       /\ card.state \in {"tran", "prg"}
       /\ card.wide /\ SDCard.iCardRCA = card.rca
  BY DEF SdInv, CardState, Up
<1> QED BY <1>1, <1>2, <1>3 DEF SdInv, OnCard, InBuffer, TransfersExact

\* Every call has moved a prefix of its sectors and nothing else, and one that
\* succeeds all of them, or all but the last, whose error SDI_CheckDATend does not
\* report; after each call that succeeds, or moves one sector only, the card is
\* selected, four bits wide and in no transfer.
THEOREM CallsMoveTheirSectors == SdSpec => []TransfersExact
BY CardInvariant, CardInvImplies, PTL

LEMMA StrandedStep == SdInv /\ Stranded /\ [SdNext]_sdVars => Stranded'
<1> SUFFICES ASSUME SdInv, Stranded, [SdNext]_sdVars PROVE Stranded'
  OBVIOUS
<1>1. sdpc \in {"start", "stop"}
  BY DEF Stranded
<1>2. CASE Start
  <2>1. ~Knows(card, StartCmd(xfer))
    BY <1>2 DEF Start, Stranded, Knows, StartCmd
  <2> QED BY <1>2, <2>1 DEF Start, Send, Stranded
<1>3. CASE SendStop
  <2>1. ~Knows(card, "CMD12")
    BY <1>3 DEF SendStop, Stranded, Knows
  <2> QED BY <1>3, <2>1 DEF SendStop, Send, Stranded
<1>4. CASE CardGoesOn
  BY <1>1, <1>4 DEF CardGoesOn, driverVars, Stranded, SdInv, Cards
<1>5. CASE UNCHANGED sdVars
  BY <1>5 DEF sdVars, driverVars, Stranded
<1>6. ~(SDI_init \/ ReadSector \/ WriteSector \/ Poll \/ Programmed \/ Succeed \/ Caller)
  BY <1>1 DEF SDI_init, CMD0, CMD1, CMD8, ACMD41, Climb, Ladder, ReadSector, WriteSector, Poll,
              Programmed, Succeed, Caller, Boot, Call
<1> QED BY <1>2, <1>3, <1>4, <1>5, <1>6 DEF SdNext, Driver

\* What the code's loops "until it is answered" cost: once the card has obeyed the
\* command and its answer is lost, or the last transfer of several sectors has
\* failed, the driver repeats the command for ever, whatever the card does.
THEOREM StrandedForEver == SdSpec => [][Stranded => Stranded']_sdVars
<1>1. SdInv /\ [SdNext]_sdVars => [Stranded => Stranded']_sdVars
  BY StrandedStep
<1> QED BY <1>1, CardInvariant, PTL DEF SdSpec
=============================================================================

--------------------------------- MODULE I2c ---------------------------------
(***************************************************************************)
(* The I2C driver of drivers/i2c: at24cxx_write and at24cxx_read build     *)
(* messages on their stack, do_master_tx and do_master_rx start each one   *)
(* and spin on it, and i2c_interrupt_func, run after every byte, drives    *)
(* the rest of the transfer.  The interrupt handler is one step; the bus   *)
(* and the program go on between two of them.                              *)
(*                                                                         *)
(* The controller's shifter and the EEPROM are external.  The EEPROM       *)
(* stores a byte when the transfer stops and then ignores its address for  *)
(* a write cycle of any length; it gives up the bus during a read only     *)
(* after a byte that the master has not acknowledged.                      *)
(***************************************************************************)
EXTENDS Integers, SequencesExt

CONSTANTS Size,    \* number of cells of the EEPROM (256)
          Value,   \* what a cell may hold
          MaxLen,  \* bound on the length of a call's data
          Junk     \* an undefined byte: stack contents, or a silent bus

ASSUME I2cAssumption == Size \in Nat \ {0} /\ MaxLen \in Nat \ {0}

VARIABLES job,      \* the arguments of the at24cxx call
          i,        \* how many of its messages are done
          i2cpc,       \* where the program is
          msg,      \* *p_cur_msg
          ret,      \* what the last call returned
          IICDS,    \* the data register
          ack,      \* IICCON[7]: received bytes are acknowledged
          pending,  \* IICCON[4]: an interrupt is raised, the bus is held
          nack,     \* IICSTAT[0]: the last byte sent was not acknowledged
          bus,      \* the transfer on the bus
          mem, ptr, got, driving, busy,  \* the EEPROM
          before    \* history: mem when the call began

progVars == <<job, i, i2cpc, ret, before>>
conVars  == <<msg, IICDS, ack, pending, nack, bus>>
devVars  == <<mem, ptr, got, driving, busy>>
i2cVars  == <<progVars, conVars, devVars>>

Cell == 0..(Size - 1)

-----------------------------------------------------------------------------
\* The byte that the bus is about to transfer is the last one.
isLastData(cnt) == cnt = msg.len - 1

\* Mutants: the index is not that of the byte just received; the program does
\* not wait for the last byte; a failed message does not end the call.
MutStore(cnt)    == [msg.buf EXCEPT ![cnt + 1] = IICDS]
MutDone          == msg.err # 0 \/ msg.cnt = msg.len - 1
MutFailed        == FALSE

MoreToDo(cnt) == cnt < msg.len
Store(cnt)    == [msg.buf EXCEPT ![cnt] = IICDS]
NoDevice      == [msg EXCEPT !.cnt = 0, !.err = -1]

\* The condition on which do_master_tx and do_master_rx stop spinning.
Done == msg.err # 0 \/ msg.cnt = msg.len

\* The error that ends master_xfer and at24cxx_write early.
Failed == msg.err # 0

\* addr++, cut to the unsigned char of the EEPROM's address byte.
CellAt(a, n) == (a + n) % Size

\* The i-th message of a call: at24cxx_write sends the cell's address and one
\* byte in each, at24cxx_read sends the address and then reads.
Message(j, n) ==
    IF j.op = "write"
    THEN [flags |-> 0, len |-> 2, cnt |-> -1, err |-> 0,
          buf |-> <<CellAt(j.addr, n), j.data[n + 1]>>]
    ELSE IF n = 0
    THEN [flags |-> 0, len |-> 1, cnt |-> -1, err |-> 0, buf |-> <<j.addr>>]
    ELSE [flags |-> 1, len |-> j.len, cnt |-> -1, err |-> 0,
          buf |-> [k \in 1..j.len |-> Junk]]

Messages(j) == IF j.op = "write" THEN j.len ELSE 2

I2cInit ==
    /\ job = [op |-> "read", addr |-> 0, len |-> 1, data |-> <<>>]
    /\ i = 0
    /\ i2cpc = "idle"
    /\ msg = [flags |-> 0, len |-> 0, cnt |-> 0, err |-> 0, buf |-> <<>>]
    /\ ret = 0
    /\ IICDS = Junk
    /\ ack = TRUE
    /\ pending = FALSE
    /\ nack = FALSE
    /\ bus = "free"
    /\ mem \in [Cell -> Value]
    /\ ptr = 0
    /\ got = <<>>
    /\ driving = FALSE
    /\ busy = FALSE
    /\ before = mem

-----------------------------------------------------------------------------
\* The program.

Called ==
    /\ i2cpc = "idle"
    /\ i' = 0
    /\ i2cpc' = "start"
    /\ before' = mem
    /\ UNCHANGED <<ret, conVars, devVars>>

at24cxx_write(a, d) ==
    /\ Called
    /\ job' = [op |-> "write", addr |-> a, len |-> Len(d), data |-> d]

at24cxx_read(a, n) ==
    /\ Called
    /\ job' = [op |-> "read", addr |-> a, len |-> n, data |-> <<>>]

\* do_master_tx and do_master_rx up to their loop.
StartMessage ==
    /\ i2cpc = "start"
    /\ msg' = Message(job, i)
    /\ ack' = TRUE
    /\ bus' = IF msg'.flags = 0 THEN "addressTx" ELSE "addressRx"
    /\ got' = <<>>
    /\ i2cpc' = "wait"
    /\ UNCHANGED <<job, i, ret, before, IICDS, pending, nack, mem, ptr, driving, busy>>

\* Mutant: a message that failed is sent again.
MutEndMessage ==
    /\ i2cpc = "wait"
    /\ Done
    /\ i' = IF Failed THEN i ELSE i + 1
    /\ i2cpc' = IF i' = Messages(job) THEN "idle" ELSE "start"
    /\ ret' = msg.err
    /\ UNCHANGED <<job, before, conVars, devVars>>

\* The end of the loop, and master_xfer and at24cxx_write going on to the next
\* message or returning.
EndMessage ==
    /\ i2cpc = "wait"
    /\ Done
    /\ i' = IF Failed THEN i ELSE i + 1
    /\ i2cpc' = IF Failed \/ i' = Messages(job) THEN "idle" ELSE "start"
    /\ ret' = msg.err
    /\ UNCHANGED <<job, before, conVars, devVars>>

-----------------------------------------------------------------------------
\* i2c_interrupt_func, a disjunct for each way through it.

\* The STOP condition: the EEPROM takes the address and the byte it was sent.
Stop ==
    /\ bus' = "free"
    /\ pending' = FALSE
    /\ ptr' = IF got = <<>> THEN ptr ELSE got[1]
    /\ mem' = IF Len(got) < 2 THEN mem ELSE [mem EXCEPT ![got[1]] = got[2]]
    /\ busy' = (busy \/ Len(got) >= 2)
    /\ got' = <<>>
    /\ UNCHANGED <<IICDS, ack, nack, driving>>

Resume(a) ==
    /\ ack' = a
    /\ pending' = FALSE
    /\ UNCHANGED <<nack, bus, devVars>>

i2c_interrupt_func ==
    /\ pending
    /\ UNCHANGED progVars
    /\ LET cnt == msg.cnt + 1 IN
       \/ /\ cnt = 0 /\ nack
          /\ msg' = NoDevice
          /\ Stop
       \/ /\ msg.flags = 0
          /\ ~(cnt = 0 /\ nack)
          /\ msg' = [msg EXCEPT !.cnt = cnt]
          /\ IF MoreToDo(cnt) THEN IICDS' = msg.buf[cnt + 1] /\ Resume(ack) ELSE Stop
       \/ /\ msg.flags = 1
          /\ cnt = 0 /\ ~nack
          /\ msg' = [msg EXCEPT !.cnt = 0]
          /\ Resume(~isLastData(0)) /\ UNCHANGED IICDS
       \/ /\ msg.flags = 1
          /\ cnt > 0
          /\ msg' = [msg EXCEPT !.cnt = cnt,
                                !.buf = IF MoreToDo(cnt) THEN Store(cnt) ELSE @]
          /\ IF MoreToDo(cnt) THEN Resume(~isLastData(cnt)) /\ UNCHANGED IICDS ELSE Stop

-----------------------------------------------------------------------------
\* The bus and the EEPROM.

SendAddress ==
    /\ bus \in {"addressTx", "addressRx"}
    /\ ~pending
    /\ nack' = busy
    /\ driving' = (bus = "addressRx" /\ ~busy)
    /\ bus' = IF bus = "addressTx" THEN "tx" ELSE "rx"
    /\ pending' = TRUE
    /\ UNCHANGED <<progVars, msg, IICDS, ack, mem, ptr, got, busy>>

SendByte ==
    /\ bus = "tx"
    /\ ~pending
    /\ got' = Append(got, IICDS)
    /\ pending' = TRUE
    /\ UNCHANGED <<progVars, msg, IICDS, ack, nack, bus, mem, ptr, driving, busy>>

ReceiveByte ==
    /\ bus = "rx"
    /\ ~pending
    /\ IICDS' = IF driving THEN mem[ptr] ELSE Junk
    /\ ptr' = IF driving THEN (ptr + 1) % Size ELSE ptr
    /\ driving' = (driving /\ ack)
    /\ pending' = TRUE
    /\ UNCHANGED <<progVars, msg, ack, nack, bus, mem, got, busy>>

EndWriteCycle ==
    /\ busy
    /\ busy' = FALSE
    /\ UNCHANGED <<progVars, conVars, mem, ptr, got, driving>>

-----------------------------------------------------------------------------
Program == StartMessage \/ EndMessage
Bus     == SendAddress \/ SendByte \/ ReceiveByte

I2cNext ==
    \/ \E a \in Cell, n \in 1..MaxLen :
           at24cxx_read(a, n) \/ \E d \in [1..n -> Value] : at24cxx_write(a, d)
    \/ Program
    \/ i2c_interrupt_func
    \/ Bus
    \/ EndWriteCycle

I2cSpec == I2cInit /\ [][I2cNext]_i2cVars

\* The CPU runs the spinning program and takes the interrupts, and the bus
\* shifts the byte it was given.
I2cFairSpec == I2cSpec /\ WF_i2cVars(Program) /\ WF_i2cVars(i2c_interrupt_func) /\ WF_i2cVars(Bus)

-----------------------------------------------------------------------------
I2cTypeOK ==
    /\ i2cpc \in {"idle", "start", "wait"}
    /\ i \in 0..Messages(job)
    /\ ret \in {0, -1}
    /\ msg.flags \in {0, 1} /\ msg.err \in {0, -1}
    /\ msg.cnt \in -1..msg.len
    /\ Len(msg.buf) = msg.len
    /\ bus \in {"free", "addressTx", "addressRx", "tx", "rx"}
    /\ mem \in [Cell -> Value]
    /\ ptr \in Cell

\* The first n bytes of a call's data, written over what was there before it.
Written(n) ==
    [c \in Cell |-> LET ks == {k \in 1..n : CellAt(job.addr, k - 1) = c}
                    IN  IF ks = {} THEN before[c]
                        ELSE job.data[CHOOSE k \in ks : \A l \in ks : l <= k]]

\* at24cxx_write stops at the first message that fails, and the messages that
\* succeeded are exactly what the EEPROM holds: nothing is lost, doubled or
\* put into another cell, and a call that returns 0 has stored all its data.
WritesArePrefix ==
    job.op = "write" /\ i2cpc # "wait" =>
        /\ mem = Written(i)
        /\ i2cpc = "idle" /\ ret = 0 => i = job.len

\* Every byte that the interrupt handler has stored by the end of a read is
\* the EEPROM's, at its own place in the caller's buffer.
ReadsArePlaced ==
    job.op = "read" /\ i2cpc = "idle" /\ msg.flags = 1 /\ ret = 0 =>
        \A k \in 1..(job.len - 1) : msg.buf[k] = mem[CellAt(job.addr, k - 1)]

\* An interrupt finds the message it belongs to: the program is still in the
\* loop, so the message, which is on its stack, is alive and the index stays in
\* its buffer.  A transfer is started only when the one before it is over and
\* the EEPROM has given up the bus: the last byte of a read, and no other, was
\* left without an acknowledgement.  (An EEPROM that still drives the bus makes
\* the STOP condition impossible.)
InterruptHasMessage ==
    /\ I2cTypeOK
    /\ pending \/ bus # "free" => i2cpc = "wait"
    /\ pending => bus # "free"
    /\ bus = "free" => ~driving

\* at24cxx_read returns 0 with all the bytes it was asked for in the buffer.
ReadComplete ==
    job.op = "read" /\ i2cpc = "idle" /\ msg.flags = 1 /\ ret = 0 =>
        \A k \in 1..job.len : msg.buf[k] = mem[CellAt(job.addr, k - 1)]

\* Every call returns, whether or not the EEPROM answers.
CallsReturn == (i2cpc # "idle") ~> (i2cpc = "idle")
=============================================================================

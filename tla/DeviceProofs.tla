----------------------------- MODULE DeviceProofs -----------------------------
(***************************************************************************)
(* The safety of three devices' drivers that share no state: the audio     *)
(* player with its DMA channel, the clock with its waits, and the infrared *)
(* receiver with its ring and its decoder.                                 *)
(*                                                                         *)
(* The player, for files of any length and whether or not a transfer may   *)
(* end inside dma_start: what is heard is the file in order, the           *)
(* assertions hold, and a play is heard to its end.                        *)
(*                                                                         *)
(* The clock, for any period and any time-outs: how far it can be from the *)
(* true time, and when a wait can give up too early.  The argument: the    *)
(* hardware's time is jiffies periods, one more when a tick is pending,    *)
(* and what timer 4 has counted down; a read combines a value of jiffies   *)
(* and one of the counter that may belong to two different moments.        *)
(*                                                                         *)
(* The receiver, for a ring of any size and any frames: the ring, shared   *)
(* without a lock, is a queue; what is reported was sent; and nothing is   *)
(* missed without a cause.  The argument: every pulse on its way, in the   *)
(* ring or still in the air, has a label, the frame it is of and its place *)
(* in it, and the decoder, when it is in the middle of a frame, holds what *)
(* came before the next pulse of that very frame.                          *)
(***************************************************************************)
EXTENDS AudioPlayer, Clock, IrReceiver, SequenceTheorems, TLAPS

-----------------------------------------------------------------------------
(* The audio player: where its pieces and its transfer are. *)

On == IF dmasktrig THEN 1 ELSE 0

\* How many pieces have been handed to the channel.
Started ==
    /\ pc = "dma_init" => fptr = 0
    /\ pc \in {"loop", "running"} => Len(heard) + On = fptr
    /\ pc \in {"key", "wait"} => Len(heard) + On = fptr - 1
    /\ pc \in {"request", "trigger"} => Len(heard) = fptr - 1
    /\ pc = "exit" => Len(heard) + On \in {fptr, fptr - 1}

\* The transfer that runs is of the next piece to be heard, and it is not in
\* the buffer that the player fills.
Transfer ==
    /\ dmasktrig => sbuf[dcsrc] = taken /\ taken = Len(heard) + 1
    /\ dmasktrig /\ pc \in {"loop", "key", "wait"} => dcsrc # index
    /\ pc \in {"key", "wait", "request", "trigger", "running"} => sbuf[index] = fptr
    /\ pc \in {"request", "trigger", "running"} => dcsrc = index

\* dma_status and the registration say whether a transfer or its interrupt is
\* under way, except between the trigger and the assignment of RUN.
Status ==
    /\ ~(dmasktrig /\ irq)
    /\ dmasktrig \/ irq => requested
    /\ requested => dmasktrig \/ irq \/ pc = "trigger"
    /\ dmasktrig \/ irq => dma_status = "RUN" \/ pc = "running"
    /\ dma_status = "READY" => pc \in {"request", "trigger", "running"}
    /\ pc = "request" => dma_status = "READY" /\ ~requested
    /\ pc = "trigger" => dma_status = "READY" /\ requested
    /\ pc = "trigger" => ~dmasktrig /\ ~irq

\* The inductive invariant.
AudioInv == AudioTypeOK /\ HeardInOrder /\ PlayedOut /\ Started /\ Transfer /\ Status

USE AudioAssumption

\* The initial state: nothing has been heard and the channel is off.
LEMMA AudioInitInv == AudioInit => AudioInv
BY DEF AudioInit, AudioInv, AudioTypeOK, HeardInOrder, PlayedOut, Started, Transfer, Status, On

\* One more piece in order: what TransferEnds does to the history.
LEMMA AppendNext ==
    ASSUME NEW s \in Seq(Nat), NEW n \in Nat,
           \A i \in 1..Len(s) : s[i] = i, n = Len(s) + 1
    PROVE  /\ Append(s, n) \in Seq(Nat)
           /\ Len(Append(s, n)) = Len(s) + 1
           /\ \A i \in 1..Len(Append(s, n)) : Append(s, n)[i] = i
OBVIOUS

\* Every step of the player, of the channel and of the interrupt handler keeps
\* the invariant.
LEMMA NextInv == AudioInv /\ [AudioNext]_audioVars => AudioInv'
<1> SUFFICES ASSUME AudioInv, [AudioNext]_audioVars
             PROVE  AudioInv'
  OBVIOUS
<1> USE DEF AudioInv
<1>1. CASE Open
  <2>a. size' \in Nat /\ fptr' \in 0..size'
    BY <1>1 DEF Open
  <2>1. AudioTypeOK'
    BY <1>1, <2>a DEF Open, AudioTypeOK, dmaVars
  <2>2. HeardInOrder' /\ PlayedOut'
    BY <1>1 DEF Open, AudioTypeOK, HeardInOrder, PlayedOut, Started, Status, On, fileVars, dmaVars, Ready
  <2>3. Started'
    BY <1>1 DEF Open, AudioTypeOK, Started, Status, On, fileVars, dmaVars, Ready
  <2>4. Transfer'
    BY <1>1 DEF Open, AudioTypeOK, Transfer, Started, Status, On, fileVars, dmaVars, Ready
  <2>5. Status'
    BY <1>1 DEF Open, AudioTypeOK, Status, fileVars, dmaVars, Ready
  <2> QED BY <2>1, <2>2, <2>3, <2>4, <2>5
<1>2. CASE dma_init
  <2>1. dmasktrig' \in BOOLEAN
    BY <1>2, Zenon DEF dma_init
  <2>2. ~dmasktrig'
    BY <1>2 DEF dma_init, Status, Ready
  <2>3. /\ pc = "dma_init" /\ dma_status # "RUN"
        /\ pc' = "loop" /\ dma_status' = "INIT" /\ heard' = <<>>
        /\ UNCHANGED <<size, fptr, index, sbuf, failed, requested, dcsrc, taken, irq, iis>>
    BY <1>2, Zenon DEF dma_init, fileVars, Ready
  <2>4. heard' \in Seq(Nat) /\ Len(heard') = 0
    BY <2>3
  <2>9. early' \in BOOLEAN
    BY <1>2, Zenon DEF dma_init, AudioTypeOK
  <2>5. AudioTypeOK'
    BY <2>1, <2>3, <2>4, <2>9 DEF AudioTypeOK
  <2>6. HeardInOrder' /\ PlayedOut'
    BY <2>3, <2>4 DEF HeardInOrder, PlayedOut
  <2>7. Started' /\ Transfer'
    BY <2>2, <2>3, <2>4 DEF Started, Transfer, On
  <2>8. Status'
    BY <2>2, <2>3 DEF Status
  <2> QED BY <2>5, <2>6, <2>7, <2>8
<1>3. CASE f_read
  <2>1. AudioTypeOK'
    BY <1>3 DEF f_read, AudioTypeOK, fileVars, dmaVars, Ready
  <2>2. HeardInOrder' /\ PlayedOut'
    BY <1>3 DEF f_read, AudioTypeOK, HeardInOrder, PlayedOut, Started, Status, On, fileVars, dmaVars, Ready
  <2>3. Started'
    BY <1>3 DEF f_read, AudioTypeOK, Started, Status, On, fileVars, dmaVars, Ready
  <2>4. Transfer'
    BY <1>3 DEF f_read, AudioTypeOK, Transfer, Started, Status, On, fileVars, dmaVars, Ready
  <2>5. Status'
    BY <1>3 DEF f_read, AudioTypeOK, Status, fileVars, dmaVars, Ready
  <2> QED BY <2>1, <2>2, <2>3, <2>4, <2>5
<1>4. CASE f_read_fails
  <2>1. AudioTypeOK'
    BY <1>4 DEF f_read_fails, AudioTypeOK, fileVars, dmaVars, Ready
  <2>2. HeardInOrder' /\ PlayedOut'
    BY <1>4 DEF f_read_fails, AudioTypeOK, HeardInOrder, PlayedOut, Started, Status, On, fileVars, dmaVars, Ready
  <2>3. Started'
    BY <1>4 DEF f_read_fails, AudioTypeOK, Started, Status, On, fileVars, dmaVars, Ready
  <2>4. Transfer'
    BY <1>4 DEF f_read_fails, AudioTypeOK, Transfer, Started, Status, On, fileVars, dmaVars, Ready
  <2>5. Status'
    BY <1>4 DEF f_read_fails, AudioTypeOK, Status, fileVars, dmaVars, Ready
  <2> QED BY <2>1, <2>2, <2>3, <2>4, <2>5
<1>5. CASE EndOfFile
  <2>1. AudioTypeOK'
    BY <1>5 DEF EndOfFile, AudioTypeOK, fileVars, dmaVars, Ready
  <2>2. HeardInOrder' /\ PlayedOut'
    BY <1>5 DEF EndOfFile, AudioTypeOK, HeardInOrder, PlayedOut, Started, Status, On, fileVars, dmaVars, Ready
  <2>3. Started'
    BY <1>5 DEF EndOfFile, AudioTypeOK, Started, Status, On, fileVars, dmaVars, Ready
  <2>4. Transfer'
    BY <1>5 DEF EndOfFile, AudioTypeOK, Transfer, Started, Status, On, fileVars, dmaVars, Ready
  <2>5. Status'
    BY <1>5 DEF EndOfFile, AudioTypeOK, Status, fileVars, dmaVars, Ready
  <2> QED BY <2>1, <2>2, <2>3, <2>4, <2>5
<1>6. CASE Key
  <2>1. AudioTypeOK'
    BY <1>6 DEF Key, AudioTypeOK, fileVars, dmaVars, Ready
  <2>2. HeardInOrder' /\ PlayedOut'
    BY <1>6 DEF Key, AudioTypeOK, HeardInOrder, PlayedOut, Started, Status, On, fileVars, dmaVars, Ready
  <2>3. Started'
    BY <1>6 DEF Key, AudioTypeOK, Started, Status, On, fileVars, dmaVars, Ready
  <2>4. Transfer'
    BY <1>6 DEF Key, AudioTypeOK, Transfer, Started, Status, On, fileVars, dmaVars, Ready
  <2>5. Status'
    BY <1>6 DEF Key, AudioTypeOK, Status, fileVars, dmaVars, Ready
  <2> QED BY <2>1, <2>2, <2>3, <2>4, <2>5
<1>7. CASE dma_set
  <2>1. AudioTypeOK'
    BY <1>7 DEF dma_set, Free, AudioTypeOK, fileVars, dmaVars, Ready
  <2>2. HeardInOrder' /\ PlayedOut'
    BY <1>7 DEF dma_set, Free, AudioTypeOK, HeardInOrder, PlayedOut, Started, Status, On, fileVars, dmaVars, Ready
  <2>3. Started'
    BY <1>7 DEF dma_set, Free, AudioTypeOK, Started, Status, On, fileVars, dmaVars, Ready
  <2>4. Transfer'
    BY <1>7 DEF dma_set, Free, AudioTypeOK, Transfer, Started, Status, On, fileVars, dmaVars, Ready
  <2>5. Status'
    BY <1>7 DEF dma_set, Free, AudioTypeOK, Status, fileVars, dmaVars, Ready
  <2> QED BY <2>1, <2>2, <2>3, <2>4, <2>5
<1>8. CASE RequestIrq
  <2>1. AudioTypeOK'
    BY <1>8 DEF RequestIrq, AudioTypeOK, fileVars, dmaVars, Ready
  <2>2. HeardInOrder' /\ PlayedOut'
    BY <1>8 DEF RequestIrq, AudioTypeOK, HeardInOrder, PlayedOut, Started, Status, On, fileVars, dmaVars, Ready
  <2>3. Started'
    BY <1>8 DEF RequestIrq, AudioTypeOK, Started, Status, On, fileVars, dmaVars, Ready
  <2>4. Transfer'
    BY <1>8 DEF RequestIrq, AudioTypeOK, Transfer, Started, Status, On, fileVars, dmaVars, Ready
  <2>5. Status'
    BY <1>8 DEF RequestIrq, AudioTypeOK, Status, fileVars, dmaVars, Ready
  <2> QED BY <2>1, <2>2, <2>3, <2>4, <2>5
<1>9. CASE Trigger
  <2>1. AudioTypeOK'
    BY <1>9 DEF Trigger, AudioTypeOK, fileVars, dmaVars, Ready
  <2>2. HeardInOrder' /\ PlayedOut'
    BY <1>9 DEF Trigger, AudioTypeOK, HeardInOrder, PlayedOut, Started, Status, On, fileVars, dmaVars, Ready
  <2>3. Started'
    BY <1>9 DEF Trigger, AudioTypeOK, Started, Status, On, fileVars, dmaVars, Ready
  <2>4. Transfer'
    BY <1>9 DEF Trigger, AudioTypeOK, Transfer, Started, Status, On, fileVars, dmaVars, Ready
  <2>5. Status'
    BY <1>9 DEF Trigger, AudioTypeOK, Status, fileVars, dmaVars, Ready
  <2> QED BY <2>1, <2>2, <2>3, <2>4, <2>5
<1>10. CASE Running
  <2>1. AudioTypeOK'
    BY <1>10 DEF Running, Other, AudioTypeOK, fileVars, dmaVars, Ready
  <2>2. HeardInOrder' /\ PlayedOut'
    BY <1>10 DEF Running, Other, AudioTypeOK, HeardInOrder, PlayedOut, Started, Status, On, fileVars, dmaVars, Ready
  <2>3. Started'
    BY <1>10 DEF Running, Other, AudioTypeOK, Started, Status, On, fileVars, dmaVars, Ready
  <2>4. Transfer'
    BY <1>10 DEF Running, Other, AudioTypeOK, Transfer, Started, Status, On, fileVars, dmaVars, Ready
  <2>5. Status'
    BY <1>10 DEF Running, Other, AudioTypeOK, Status, fileVars, dmaVars, Ready
  <2> QED BY <2>1, <2>2, <2>3, <2>4, <2>5
<1>11. CASE Close
  <2>1. AudioTypeOK'
    BY <1>11 DEF Close, Over, AudioTypeOK, fileVars, dmaVars, Ready
  <2>2. HeardInOrder' /\ PlayedOut'
    BY <1>11 DEF Close, Over, AudioTypeOK, HeardInOrder, PlayedOut, Started, Status, On, fileVars, dmaVars, Ready
  <2>3. Started'
    BY <1>11 DEF Close, Over, AudioTypeOK, Started, Status, On, fileVars, dmaVars, Ready
  <2>4. Transfer'
    BY <1>11 DEF Close, Over, AudioTypeOK, Transfer, Started, Status, On, fileVars, dmaVars, Ready
  <2>5. Status'
    BY <1>11 DEF Close, Over, AudioTypeOK, Status, fileVars, dmaVars, Ready
  <2> QED BY <2>1, <2>2, <2>3, <2>4, <2>5
<1>12. CASE DMA2IntHandle
  <2>1. AudioTypeOK'
    BY <1>12 DEF DMA2IntHandle, AfterExit, StillWanted, AudioTypeOK, fileVars, dmaVars, Ready
  <2>2. HeardInOrder' /\ PlayedOut'
    BY <1>12 DEF DMA2IntHandle, AfterExit, StillWanted, AudioTypeOK, HeardInOrder, PlayedOut, Started, Status, On, fileVars, dmaVars, Ready
  <2>3. Started'
    BY <1>12 DEF DMA2IntHandle, AfterExit, StillWanted, AudioTypeOK, Started, Status, On, fileVars, dmaVars, Ready
  <2>4. Transfer'
    BY <1>12 DEF DMA2IntHandle, AfterExit, StillWanted, AudioTypeOK, Transfer, Started, Status, On, fileVars, dmaVars, Ready
  <2>5. Status'
    BY <1>12 DEF DMA2IntHandle, AfterExit, StillWanted, AudioTypeOK, Status, fileVars, dmaVars, Ready
  <2> QED BY <2>1, <2>2, <2>3, <2>4, <2>5
<1>13. CASE TransferEnds
  <2>1. sbuf[dcsrc] = taken /\ taken = Len(heard) + 1 /\ taken \in Nat /\ heard \in Seq(Nat)
    BY <1>13 DEF TransferEnds, AudioTypeOK, Transfer
  <2>2. heard' = Append(heard, taken)
    BY <1>13, <2>1 DEF TransferEnds
  <2>3. /\ heard' \in Seq(Nat) /\ Len(heard') = Len(heard) + 1
        /\ \A i \in 1..Len(heard') : heard'[i] = i
    BY <2>1, <2>2, AppendNext DEF HeardInOrder
  <2>4. AudioTypeOK' /\ HeardInOrder'
    BY <1>13, <2>3 DEF TransferEnds, AudioTypeOK, HeardInOrder, fileVars
  <2>5. PlayedOut' /\ Started' /\ Transfer' /\ Status'
    BY <1>13, <2>3 DEF TransferEnds, AudioTypeOK, PlayedOut, Started, Transfer, Status, On, fileVars
  <2> QED BY <2>4, <2>5
<1>14. CASE UNCHANGED audioVars
  BY <1>14 DEF audioVars, fileVars, dmaVars, AudioTypeOK, HeardInOrder, PlayedOut, Started, Transfer, Status, On
<1> QED
  BY <1>1, <1>2, <1>3, <1>4, <1>5, <1>6, <1>7, <1>8, <1>9, <1>10, <1>11, <1>12, <1>13, <1>14 DEF AudioNext, Player

\* The invariant holds in every state the player and the channel can reach.
THEOREM AudioInvariant == AudioSpec => []AudioInv
<1>1. AudioInv /\ [AudioNext]_audioVars => AudioInv'
  BY NextInv
<1> QED BY AudioInitInv, <1>1, PTL DEF AudioSpec

\* The pieces are heard in order, whole and once, however long the file is and
\* wherever the interrupt falls: the two buffers of read_wav_file are enough.
THEOREM HeardAsWritten == AudioSpec => []HeardInOrder
<1>1. AudioInv => HeardInOrder
  BY DEF AudioInv
<1> QED BY AudioInvariant, <1>1, PTL

\* Neither the DMA driver's assertions nor request_irq's can fail.
THEOREM AssertionsHold == AudioSpec => []NoAssertFails
<1>1. AudioInv => NoAssertFails
  BY DEF AudioInv, Status, NoAssertFails
<1> QED BY AudioInvariant, <1>1, PTL

\* A play that ends without a read error ends after its last transfer.
THEOREM HeardToTheEnd == AudioSpec => []PlayedOut
<1>1. AudioInv => PlayedOut
  BY DEF AudioInv
<1> QED BY AudioInvariant, <1>1, PTL

-----------------------------------------------------------------------------
(* The clock: where the hardware's time is. *)

Flags == tickPending \in BOOLEAN /\ ticked \in BOOLEAN /\ inHandler \in BOOLEAN

ClockTypes ==
  /\ Flags
  /\ now \in Nat /\ TCNTO4 \in 1 .. Period
  /\ jiffies \in Nat
  /\ clockpc \in {"idle", "start", "starting", "test", "testing", "read", "over"}
  /\ loaded \in [what : {"jiffies", "TCNTO4"}, value : Int, at : Nat]
  /\ waiting \in [timeout : Nat, start : Int, since : Nat]
  /\ timeRead \in [value : Int, at : Nat]

\* Where the hardware is: at most one tick is pending.
Elapsed ==
  /\ ~tickPending => now = Period * jiffies + (Period - TCNTO4)
  /\ tickPending => now = Period * jiffies + Period + (Period - TCNTO4)

\* What has been loaded first was in its range then, and jiffies not more than
\* two periods behind.
LoadedNear ==
  /\ loaded.at <= now
  /\ loaded.what = "jiffies" => /\ Period * loaded.value <= loaded.at
                                /\ Period * loaded.value > loaded.at - 2 * Period
  /\ loaded.what = "TCNTO4" => loaded.value \in 1 .. Period

\* As long as no tick has been pending since a wait began, what it has loaded
\* still fits the hardware, and so does what it has read.
Quiet ==
  ~ticked =>
    /\ ~tickPending
    /\ clockpc = "start" => waiting.since <= now
    /\ clockpc \in {"starting", "testing"} =>
         /\ waiting.since <= loaded.at
         /\ loaded.what = "jiffies" => loaded.value = jiffies
         /\ loaded.what = "TCNTO4" => Period * jiffies + (Period - loaded.value) = loaded.at
    /\ clockpc \in {"test", "testing", "over"} =>
         waiting.since <= waiting.start /\ waiting.start <= now
    /\ clockpc = "testing" => waiting.start <= loaded.at
    /\ clockpc = "over" => now - waiting.since >= waiting.timeout

ClockInv == ClockTypes /\ Elapsed /\ LoadedNear /\ ClockNearTrue /\ Quiet

-----------------------------------------------------------------------------
\* The next multiple of the period.
LEMMA OneMore ==
  ASSUME NEW j \in Nat PROVE Period * (j + 1) = Period * j + Period
BY ClockAssumption

LEMMA PeriodsAreNat == ASSUME NEW j \in Int PROVE Period * j \in Int
BY ClockAssumption

LEMMA ClockInitInv == ClockInit => ClockInv
<1> SUFFICES ASSUME ClockInit PROVE ClockInv
  OBVIOUS
<1>0. Flags
  BY Zenon DEF ClockInit, Flags
<1>1. ClockTypes
  BY <1>0, ClockAssumption DEF ClockInit, ClockTypes, NothingLoaded, NoWait, NothingRead
<1>2. Elapsed /\ LoadedNear /\ ClockNearTrue /\ Quiet
  BY ClockAssumption DEF ClockInit, Elapsed, LoadedNear, ClockNearTrue, Quiet, NothingLoaded, NothingRead
<1> QED BY <1>1, <1>2 DEF ClockInv

\* A read is within a period ahead of the time and two behind the first load.
LEMMA ReadNear ==
  ASSUME ClockTypes, Elapsed, LoadedNear,
         NEW time \in Int,
         time = IF loaded.what = "jiffies" THEN Microseconds(loaded.value, TCNTO4)
                                           ELSE Microseconds(jiffies, loaded.value)
  PROVE  time < now + Period /\ time > loaded.at - 2 * Period
<1>1. Period * jiffies \in Int /\ Period * loaded.value \in Int
  BY PeriodsAreNat DEF ClockTypes
<1>2. Period * jiffies <= now /\ Period * jiffies > now - 2 * Period
  BY <1>1, ClockAssumption DEF ClockTypes, Elapsed
<1>3. CASE loaded.what = "jiffies"
  <2>1. time = Period * loaded.value + (Period - TCNTO4)
    BY <1>3 DEF Microseconds
  <2> QED BY <1>1, <1>3, <2>1, ClockAssumption DEF ClockTypes, LoadedNear
<1>4. CASE loaded.what = "TCNTO4"
  <2>1. time = Period * jiffies + (Period - loaded.value)
    BY <1>4 DEF Microseconds
  <2> QED BY <1>1, <1>2, <1>4, <2>1, ClockAssumption DEF ClockTypes, LoadedNear
<1> QED BY <1>3, <1>4 DEF ClockTypes

\* A read during which no tick was pending is the time of the load of TCNTO4.
LEMMA ReadQuiet ==
  ASSUME ClockTypes, Elapsed, LoadedNear, Quiet, ~ticked,
         clockpc \in {"starting", "testing"},
         NEW time \in Int,
         time = IF loaded.what = "jiffies" THEN Microseconds(loaded.value, TCNTO4)
                                           ELSE Microseconds(jiffies, loaded.value)
  PROVE  time >= loaded.at /\ time <= now
BY PeriodsAreNat, ClockAssumption DEF ClockTypes, Elapsed, LoadedNear, Quiet, Microseconds

\* Every step of the counter, of the tick and of the wait keeps the invariant.
LEMMA ClockStepInv == ClockInv /\ [ClockNext]_clockVars => ClockInv'
<1> SUFFICES ASSUME ClockInv, [ClockNext]_clockVars PROVE ClockInv'
  OBVIOUS
<1> USE ClockAssumption DEF ClockInv
<1>0. Period * jiffies \in Int /\ Period * loaded.value \in Int
  BY PeriodsAreNat DEF ClockTypes
<1>1. CASE CountDown
  <2>0. Flags'
    BY <1>1, Zenon DEF CountDown, ClockTypes, Flags
  <2>1. ClockTypes'
    BY <1>1, <2>0 DEF CountDown, ClockTypes
  <2>2. Elapsed'
    <3>1. CASE TCNTO4 = 1
      <4>1. ~tickPending /\ tickPending' /\ TCNTO4' = Period
        BY <1>1, <3>1 DEF CountDown
      <4> QED BY <1>0, <1>1, <3>1, <4>1 DEF CountDown, ClockTypes, Elapsed
    <3>2. CASE TCNTO4 # 1
      <4>1. (tickPending' <=> tickPending) /\ TCNTO4' = TCNTO4 - 1
        BY <1>1, <3>2 DEF CountDown
      <4> QED BY <1>0, <1>1, <4>1 DEF CountDown, ClockTypes, Elapsed
    <3> QED BY <3>1, <3>2
  <2>3. LoadedNear' /\ ClockNearTrue'
    BY <1>0, <1>1 DEF CountDown, ClockTypes, LoadedNear, ClockNearTrue
  <2>4. Quiet'
    <3> SUFFICES ASSUME ~ticked' PROVE Quiet'
      BY DEF Quiet
    <3>1. ~ticked /\ ~tickPending'
      BY <1>1 DEF CountDown
    <3>2. now' = now + 1 /\ UNCHANGED <<jiffies, clockpc, loaded, waiting>>
      BY <1>1 DEF CountDown
    <3> QED BY <1>0, <3>1, <3>2 DEF ClockTypes, Quiet
  <2> QED BY <2>1, <2>2, <2>3, <2>4
<1>2. CASE tick_irq_hander
  <2>0. Flags'
    BY <1>2, Zenon DEF tick_irq_hander, ClockTypes, Flags
  <2>1. ClockTypes'
    BY <1>2, <2>0 DEF tick_irq_hander, ClockTypes
  <2>2. Elapsed'
    BY <1>0, <1>2, OneMore DEF tick_irq_hander, ClockTypes, Elapsed
  <2>3. LoadedNear' /\ ClockNearTrue'
    BY <1>2 DEF tick_irq_hander, LoadedNear, ClockNearTrue
  <2>4. Quiet'
    BY <1>2 DEF tick_irq_hander, Quiet
  <2> QED BY <2>1, <2>2, <2>3, <2>4
<1>3. CASE ir_event_get_timeout
  <2>1. ClockTypes'
    BY <1>3 DEF ir_event_get_timeout, ClockTypes, Flags
  <2>2. Elapsed' /\ LoadedNear' /\ ClockNearTrue'
    BY <1>3 DEF ir_event_get_timeout, Elapsed, LoadedNear, ClockNearTrue
  <2>3. Quiet'
    BY <1>3 DEF ir_event_get_timeout, Quiet, ClockTypes
  <2> QED BY <2>1, <2>2, <2>3
<1>4. CASE FirstLoad
  <2>1. ClockTypes'
    BY <1>4 DEF FirstLoad, ClockTypes, Flags
  <2>2. Elapsed' /\ ClockNearTrue'
    BY <1>4 DEF FirstLoad, Elapsed, ClockNearTrue
  <2>3. LoadedNear'
    BY <1>0, <1>4 DEF FirstLoad, ClockTypes, Elapsed, LoadedNear
  <2>4. Quiet'
    BY <1>0, <1>4 DEF FirstLoad, ClockTypes, Elapsed, Quiet
  <2> QED BY <2>1, <2>2, <2>3, <2>4
<1>5. CASE SecondLoad
  <2> DEFINE time == IF loaded.what = "jiffies" THEN Microseconds(loaded.value, TCNTO4)
                                                 ELSE Microseconds(jiffies, loaded.value)
  <2>1. time \in Int
    BY <1>0 DEF ClockTypes, Microseconds
  <2>2. /\ clockpc \in {"starting", "testing"}
        /\ timeRead' = [value |-> time, at |-> loaded.at]
        /\ waiting' = IF clockpc = "starting" THEN [waiting EXCEPT !.start = time] ELSE waiting
        /\ clockpc' = IF clockpc = "testing" /\ TimedOut(time, waiting) THEN "over"
                      ELSE IF inHandler THEN "read" ELSE "test"
        /\ inHandler' = FALSE /\ loaded' = NothingLoaded
        /\ UNCHANGED <<now, TCNTO4, tickPending, jiffies, ticked>>
    BY <1>5 DEF SecondLoad
  <2>3. time < now + Period /\ time > loaded.at - 2 * Period
    BY <2>1, ReadNear
  <2>4. ~ticked => time >= loaded.at /\ time <= now
    BY <2>1, <2>2, ReadQuiet
  <2> HIDE DEF time
  <2>0. Flags'
    BY <2>2, Zenon DEF ClockTypes, Flags
  <2>5. ClockTypes'
    BY <2>0, <2>1, <2>2 DEF ClockTypes, NothingLoaded
  <2>6. Elapsed' /\ LoadedNear'
    BY <2>2 DEF ClockTypes, Elapsed, LoadedNear, NothingLoaded
  <2>7. ClockNearTrue'
    BY <2>2, <2>3 DEF ClockNearTrue
  <2>8. Quiet'
    <3> SUFFICES ASSUME ~ticked PROVE Quiet'
      BY <2>2 DEF Quiet
    <3>1. CASE clockpc = "starting"
      BY <2>1, <2>2, <2>4, <3>1 DEF Quiet, ClockTypes
    <3>2. CASE clockpc = "testing"
      BY <2>1, <2>2, <2>4, <3>2 DEF Quiet, ClockTypes, TimedOut
    <3> QED BY <2>2, <3>1, <3>2
  <2> QED BY <2>5, <2>6, <2>7, <2>8
<1>6. CASE WaitReturns
  <2>1. ClockTypes'
    BY <1>6 DEF WaitReturns, ClockTypes, Flags, NoWait, NothingRead
  <2>2. Elapsed' /\ LoadedNear'
    BY <1>6 DEF WaitReturns, Elapsed, LoadedNear
  <2>3. ClockNearTrue' /\ Quiet'
    BY <1>6 DEF WaitReturns, ClockTypes, ClockNearTrue, Quiet, NothingRead
  <2> QED BY <2>1, <2>2, <2>3
<1>7. CASE UNCHANGED clockVars
  BY <1>7 DEF clockVars, ClockTypes, Flags, Elapsed, LoadedNear, ClockNearTrue, Quiet
<1> QED BY <1>1, <1>2, <1>3, <1>4, <1>5, <1>6, <1>7 DEF ClockNext

\* The inductive invariant of the clock.
THEOREM ClockInvariant == ClockSpec => []ClockInv
BY ClockInitInv, ClockStepInv, PTL DEF ClockSpec

\* The clock is less than one period fast and less than two slow, whatever the
\* order of the two loads and whatever happens between them.
THEOREM ClockIsNearTrue == ClockSpec => []ClockNearTrue
<1>1. ClockInv => ClockNearTrue
  BY DEF ClockInv
<1> QED BY <1>1, ClockInvariant, PTL

\* A wait gives up early only when a tick was pending since it began.
THEOREM WaitsAreWhole == ClockSpec => []EarlyOnlyAtTick
<1>1. ClockInv => EarlyOnlyAtTick
  BY DEF ClockInv, Quiet, EarlyOnlyAtTick
<1> QED BY <1>1, ClockInvariant, PTL

-----------------------------------------------------------------------------
(* The infrared receiver: its ring. *)

Index == 0 .. N - 1

\* The ring, what the remote control sends, and the event that is copied out.
RingInv ==
  /\ g_events \in [Index -> Pulse]
  /\ g_r \in Index /\ g_w \in Index
  /\ signal \in Seq(Pulse)
  /\ reading \in BOOLEAN
  /\ reading => g_r # g_w /\ event = g_events[g_r]

-----------------------------------------------------------------------------
(* Arithmetic of the indices. *)

LEMMA WrapType == ASSUME NEW i \in 0 .. 2 * N - 1 PROVE Wrap(i) \in Index
BY IrAssumption DEF Wrap, Index

\* How many events there are, after one is put or taken.
LEMMA FilledType ==
  ASSUME g_r \in Index, g_w \in Index
  PROVE  Filled \in 0 .. N - 1 /\ (Filled = 0 <=> g_r = g_w) /\ Wrap(g_r + Filled) = g_w
BY IrAssumption DEF Filled, Wrap, Index

LEMMA FilledPut ==
  ASSUME g_r \in Index, g_w \in Index, ~Full, g_r' = g_r, g_w' = NextPlace(g_w)
  PROVE  Filled' = Filled + 1
BY IrAssumption DEF Filled, Full, NextPlace, Wrap, Index

LEMMA FilledGet ==
  ASSUME g_r \in Index, g_w \in Index, g_r # g_w, g_r' = NextPlace(g_r), g_w' = g_w
  PROVE  Filled' = Filled - 1
BY IrAssumption DEF Filled, NextPlace, Wrap, Index

\* The slots that are filled are not the one that is written next.
LEMMA FilledSlots ==
  ASSUME g_r \in Index, g_w \in Index, NEW i \in 1 .. Filled
  PROVE  Wrap(g_r + i - 1) \in Index \ {g_w}
BY IrAssumption DEF Filled, Wrap, Index

\* The i-th event after one is taken is the next one before.
LEMMA SlotAfterGet ==
  ASSUME g_r \in Index, g_w \in Index, g_r # g_w, NEW i \in 1 .. Filled - 1
  PROVE  Wrap(NextPlace(g_r) + i - 1) = Wrap(g_r + i)
BY IrAssumption DEF Filled, NextPlace, Wrap, Index

-----------------------------------------------------------------------------
(* Content is a sequence of pulses. *)

LEMMA FunctionIsSeq ==
  ASSUME NEW S, NEW n \in Nat, NEW f \in [1 .. n -> S]
  PROVE  f \in Seq(S) /\ Len(f) = n
OBVIOUS

LEMMA ContentType ==
  ASSUME RingInv
  PROVE  /\ Content \in Seq(Pulse) /\ Len(Content) = Filled
         /\ \A i \in 1 .. Filled : Content[i] = g_events[Wrap(g_r + i - 1)]
<1>1. Filled \in Nat
  BY FilledType DEF RingInv
<1>2. \A i \in 1 .. Filled : g_events[Wrap(g_r + i - 1)] \in Pulse
  BY FilledSlots DEF RingInv
<1>3. Content \in [1 .. Filled -> Pulse]
  BY <1>2 DEF Content
<1> QED BY <1>1, <1>3, FunctionIsSeq DEF Content

\* The silent frame that is missed and those that follow it are pulses.
LEMMA PulsesType == ASSUME NEW f \in Frame PROVE Pulses(f) \in Seq(Pulse)
<1> DEFINE mid == [i \in 1 .. 2 * NBits |-> IF i % 2 = 1 THEN "low" ELSE Gap(f[i \div 2])]
<1>1. mid \in [1 .. 2 * NBits -> Pulse]
  BY DEF Pulse, Gap
<1>2. mid \in Seq(Pulse)
  BY <1>1, FunctionIsSeq DEF NBits
<1>3. /\ <<"head", "start">> \in Seq(Pulse) /\ <<"low", "silence">> \in Seq(Pulse)
      /\ <<"head", "repeat", "low", "silence">> \in Seq(Pulse)
  BY DEF Pulse
<1> HIDE DEF mid
<1>4. <<"head", "start">> \o mid \o <<"low", "silence">> \in Seq(Pulse)
  BY <1>2, <1>3, ConcatProperties
<1> QED BY <1>3, <1>4 DEF Pulses, mid

LEMMA RestType ==
  ASSUME NEW s \in Seq(Pulse), NEW i \in Nat \ {0}
  PROVE  SubSeq(s, i, Len(s)) \in Seq(Pulse)
<1>1. \A j \in i .. Len(s) : s[j] \in Pulse
  BY ElementOfSeq, LenProperties
<1> QED BY <1>1, SubSeqProperties, LenProperties

-----------------------------------------------------------------------------
(* The invariant. *)

LEMMA RingInit == IrInit => RingInv
<1> SUFFICES ASSUME IrInit PROVE RingInv
  OBVIOUS
<1>1. g_events \in [Index -> Pulse] /\ g_r \in Index /\ g_w \in Index
  BY IrAssumption DEF IrInit, Index, Pulse
<1>2. signal \in Seq(Pulse)
  <2>1. PICK f \in Frames : \E i \in 2 .. Len(Pulses(f)) :
          signal = SubSeq(Pulses(f), i, Len(Pulses(f)))
    BY DEF IrInit
  <2>2. PICK i \in 2 .. Len(Pulses(f)) : signal = SubSeq(Pulses(f), i, Len(Pulses(f)))
    BY <2>1
  <2>3. Pulses(f) \in Seq(Pulse)
    BY IrAssumption, PulsesType
  <2>4. i \in Nat \ {0}
    BY <2>3, LenProperties
  <2> QED BY <2>2, <2>3, <2>4, RestType
<1>3. reading = FALSE
  BY DEF IrInit
<1> QED BY <1>1, <1>2, <1>3, Zenon DEF RingInv

\* The interrupt handler puts an event, or drops it.
LEMMA PutKeeps ==
  ASSUME RingInv, NEW e \in Pulse, ir_event_put(e), UNCHANGED <<reading, event>>,
         signal' \in Seq(Pulse)
  PROVE  /\ RingInv'
         /\ (dropped' /\ UNCHANGED Content) \/ (dropped' = dropped /\ Queue!Put(e))
<1>1. CASE Full
  <2>1. UNCHANGED ringVars /\ dropped'
    BY <1>1 DEF ir_event_put
  <2>2. RingInv'
    BY <2>1, Zenon DEF RingInv, ringVars
  <2>3. UNCHANGED Content
    BY <2>1, Zenon DEF Content, Filled, ringVars
  <2> QED BY <2>1, <2>2, <2>3
<1>2. CASE ~Full
  <2>1. /\ g_events' = [g_events EXCEPT ![g_w] = e]
        /\ g_w' = NextPlace(g_w) /\ g_r' = g_r /\ dropped' = dropped
    BY <1>2 DEF ir_event_put
  <2>2. g_w' \in Index /\ g_events' \in [Index -> Pulse]
    BY <2>1, IrAssumption DEF RingInv, NextPlace, Wrap, Index
  <2>3. reading => g_r' # g_w' /\ g_events'[g_r'] = g_events[g_r]
    BY <1>2, <2>1 DEF RingInv, Full
  <2>4. RingInv'
    BY <2>1, <2>2, <2>3, Zenon DEF RingInv
  <2>5. Filled' = Filled + 1 /\ Filled \in 0 .. N - 1 /\ Filled' \in 0 .. N - 1
    BY <1>2, <2>1, <2>2, FilledPut, FilledType, IrAssumption DEF RingInv, Filled, Index
  <2>6. Content' \in Seq(Pulse) /\ Len(Content') = Filled + 1
    <3>1. \A i \in 1 .. Filled' : Content'[i] = g_events'[Wrap(g_r' + i - 1)] /\ Content'[i] \in Pulse
      <4> SUFFICES ASSUME NEW i \in 1 .. Filled'
                   PROVE  Wrap(g_r' + i - 1) \in Index
        BY <2>2 DEF Content
      <4> QED BY <2>1, <2>5, WrapType, IrAssumption DEF RingInv, Index
    <3>2. Content' \in [1 .. Filled' -> Pulse]
      BY <3>1 DEF Content
    <3> QED BY <2>5, <3>2, FunctionIsSeq
  <2>7. \A i \in 1 .. Filled + 1 : Content'[i] = Append(Content, e)[i]
    <3> SUFFICES ASSUME NEW i \in 1 .. Filled + 1
                 PROVE  Content'[i] = Append(Content, e)[i]
      OBVIOUS
    <3>1. Content'[i] = g_events'[Wrap(g_r + i - 1)]
      BY <2>1, <2>5 DEF Content
    <3>2. CASE i \in 1 .. Filled
      <4>1. Content'[i] = g_events[Wrap(g_r + i - 1)]
        BY <2>1, <3>1, <3>2, FilledSlots DEF RingInv
      <4> QED BY <3>2, <4>1, ContentType, AppendProperties
    <3>3. CASE i = Filled + 1
      <4>1. Wrap(g_r + i - 1) = g_w
        BY <2>5, <3>3, FilledType DEF RingInv, Index
      <4>2. Content'[i] = e
        BY <2>1, <3>1, <4>1 DEF RingInv
      <4> QED BY <3>3, <4>2, ContentType, AppendProperties
    <3>4. i \in 1 .. Filled \/ i = Filled + 1
      BY <2>5, IrAssumption
    <3> QED BY <3>2, <3>3, <3>4
  <2>8. Content' = Append(Content, e)
    BY <2>6, <2>7, ContentType, AppendProperties, SeqEqual
  <2>9. Len(Content) < N - 1
    BY <2>5, ContentType, IrAssumption
  <2> QED BY <2>1, <2>4, <2>8, <2>9 DEF Queue!Put
<1> QED BY <1>1, <1>2

\* The program takes the event that it has copied.
LEMMA GetKeeps ==
  ASSUME RingInv, TakeEvent
  PROVE  RingInv' /\ Queue!Get
<1>1. /\ reading /\ ~reading' /\ g_r' = NextPlace(g_r)
      /\ UNCHANGED <<g_events, g_w, signal>>
  BY DEF TakeEvent
<1>2. g_r # g_w
  BY <1>1 DEF RingInv
<1>3. g_r' \in Index
  BY <1>1, IrAssumption DEF RingInv, NextPlace, Wrap, Index
<1>4. RingInv'
  <2>1. reading' \in BOOLEAN
    BY Zenon DEF TakeEvent
  <2> QED BY <1>1, <1>3, <2>1, Zenon DEF RingInv
<1>5. Filled' = Filled - 1 /\ Filled \in 1 .. N - 1
  BY <1>1, <1>2, FilledGet, FilledType, IrAssumption DEF RingInv
<1>6. Content # <<>>
  BY <1>5, ContentType
<1>7. Content' \in Seq(Pulse) /\ Len(Content') = Filled - 1
  <2>1. \A i \in 1 .. Filled' : g_events'[Wrap(g_r' + i - 1)] \in Pulse
    <3> SUFFICES ASSUME NEW i \in 1 .. Filled' PROVE Wrap(g_r' + i - 1) \in Index
      BY <1>1 DEF RingInv
    <3> QED BY <1>3, <1>5, WrapType, IrAssumption DEF Index
  <2>2. Content' \in [1 .. Filled' -> Pulse]
    BY <2>1 DEF Content
  <2> QED BY <1>5, <2>2, FunctionIsSeq
<1>8. \A i \in 1 .. Filled - 1 : Content'[i] = Tail(Content)[i]
  <2> SUFFICES ASSUME NEW i \in 1 .. Filled - 1 PROVE Content'[i] = Tail(Content)[i]
    OBVIOUS
  <2>1. Content'[i] = g_events[Wrap(g_r + i)]
    BY <1>1, <1>2, <1>5, SlotAfterGet DEF Content, RingInv
  <2>2. i + 1 \in 1 .. Filled /\ g_r + (i + 1) - 1 = g_r + i
    BY <1>5 DEF RingInv, Index
  <2>3. Content[i + 1] = g_events[Wrap(g_r + i)]
    BY <2>2, ContentType
  <2> QED BY <1>5, <1>6, <2>1, <2>3, ContentType, HeadTailProperties
<1>9. Content' = Tail(Content)
  BY <1>5, <1>6, <1>7, <1>8, ContentType, HeadTailProperties, SeqEqual
<1> QED BY <1>4, <1>6, <1>9 DEF Queue!Get

\* Every step keeps the invariant and maps to a step of the queue or to none.
LEMMA RingStep ==
  RingInv /\ [IrNext]_irVars => RingInv' /\ [Queue!QueueNext]_Content
<1> SUFFICES ASSUME RingInv, [IrNext]_irVars
             PROVE  RingInv' /\ [Queue!QueueNext]_Content
  OBVIOUS
<1>a. ASSUME UNCHANGED ringVars PROVE UNCHANGED Content
  BY <1>a, Zenon DEF Content, Filled, ringVars
<1>1. CASE \E f \in Frames : Press(f)
  <2>1. PICK f \in Frames : Press(f)
    BY <1>1
  <2>2. signal' \in Seq(Pulse)
    BY <2>1, PulsesType, IrAssumption DEF Press
  <2>3. UNCHANGED <<ringVars, reading, event>>
    BY <2>1 DEF Press, necVars
  <2>4. RingInv'
    BY <2>2, <2>3, Zenon DEF RingInv, ringVars
  <2> QED BY <1>a, <2>3, <2>4
<1>2. CASE irda_irq
  <2>1. UNCHANGED <<reading, event>>
    BY <1>2 DEF irda_irq, necVars
  <2>2. PICK e \in Pulse : ir_event_put(e) /\ signal' \in Seq(Pulse)
    <3>1. signal \in Seq(Pulse) /\ signal # <<>>
      BY <1>2 DEF irda_irq, RingInv
    <3>2. Head(signal) \in Pulse /\ Tail(signal) \in Seq(Pulse)
      BY <3>1, HeadTailProperties
    <3>3. /\ "silence" \in Pulse
          /\ <<"silence">> \o SubSeq(signal, 3, Len(signal)) \in Seq(Pulse)
      <4>1. SubSeq(signal, 3, Len(signal)) \in Seq(Pulse)
        BY <3>1, RestType
      <4>2. "silence" \in Pulse /\ <<"silence">> \in Seq(Pulse)
        BY DEF Pulse
      <4> QED BY <4>1, <4>2, ConcatProperties
    <3> QED BY <1>2, <3>2, <3>3 DEF irda_irq
  <2>3. RingInv' /\ ((UNCHANGED Content) \/ Queue!Put(e))
    BY <2>1, <2>2, PutKeeps
  <2> QED BY <2>3 DEF Queue!QueueNext
<1>3. CASE CopyEvent
  <2>1. /\ UNCHANGED <<ringVars, signal>> /\ reading' = TRUE
        /\ g_r # g_w /\ event' = g_events[g_r]
    BY <1>3 DEF CopyEvent, Empty, Oldest
  <2>2. RingInv'
    BY <2>1, Zenon DEF RingInv, ringVars
  <2> QED BY <1>a, <2>1, <2>2
<1>4. CASE TakeEvent
  BY <1>4, GetKeeps DEF Queue!QueueNext
<1>5. CASE GiveUp \/ UNCHANGED irVars
  <2>1. UNCHANGED <<ringVars, signal, reading, event>>
    BY <1>5, Zenon DEF GiveUp, irVars, necVars
  <2>2. RingInv'
    BY <2>1, Zenon DEF RingInv, ringVars
  <2> QED BY <1>a, <2>1, <2>2
<1> QED BY <1>1, <1>2, <1>3, <1>4, <1>5 DEF IrNext

-----------------------------------------------------------------------------
(* Theorems. *)

\* The slot that is being copied out is the oldest.
LEMMA CopyOldest == ASSUME RingInv, reading PROVE Content # <<>> /\ event = Head(Content)
<1>1. Filled \in 1 .. N - 1 /\ Wrap(g_r + 1 - 1) = g_r
  BY FilledType, IrAssumption DEF RingInv, Wrap, Index
<1>2. Content # <<>> /\ Content[1] = g_events[g_r]
  BY <1>1, ContentType
<1> QED BY <1>2, ContentType DEF RingInv

LEMMA QueueStarts == IrInit => Queue!QueueInit
<1> SUFFICES ASSUME IrInit PROVE Content = <<>>
  BY DEF Queue!QueueInit
<1>1. Filled = 0
  BY IrAssumption DEF IrInit, Filled
<1> QED BY <1>1, RingInit, ContentType, EmptySeq

\* The ring keeps its indices in range, and the slot that is being copied out
\* holds what was copied.
THEOREM RingInvariant == IrSpec => []RingInv
<1>1. RingInv /\ [IrNext]_irVars => RingInv'
  BY RingStep
<1> QED BY <1>1, RingInit, PTL DEF IrSpec

\* The ring, shared without a lock, implements a bounded queue.
THEOREM RingIsQueue == IrSpec => ImplementsQueue
<1> QED BY RingInvariant, RingStep, QueueStarts, PTL
        DEF IrSpec, ImplementsQueue, Queue!QueueSpec

\* The copy that the program makes between two interrupts is the oldest event
\* of the queue until it is taken.
CopyIsOldest == reading => Content # <<>> /\ event = Head(Content)

THEOREM CopyStaysOldest == IrSpec => []CopyIsOldest
<1>1. RingInv => CopyIsOldest
  BY CopyOldest DEF CopyIsOldest
<1> QED BY <1>1, RingInvariant, PTL

-----------------------------------------------------------------------------
(* The infrared receiver: its decoder.  Every pulse that is on its way, in   *)
(* the ring or still in the air, has a label: its frame, the frame's number  *)
(* among those sent, 0 for the one that is missed, and its place in it.      *)

Label == [frame : Frame, number : Nat, at : Nat]
Rest  == Content \o signal

Final(a)   == a.at = Len(Pulses(a.frame))
Belongs(a) == /\ a \in Label /\ a.at \in 1 .. Len(Pulses(a.frame))
              /\ a.number = 0 => a.at # 1
              /\ a.number # 0 => a.number <= Len(sent) /\ a.frame = sent[a.number]
IsPulse(p, a) == p = Pulses(a.frame)[a.at] \/ (misread /\ p = "silence")
Follows(b, a) ==
  /\ b \in Label
  /\ Final(a) => b.number = a.number + 1 /\ b.at = 1
  /\ ~Final(a) => b.number = a.number /\ b.frame = a.frame /\ b.at = a.at + 1

\* What irda_nec_read makes of a frame.
PairOf(f) == IF f = <<>> THEN <<>> ELSE <<f[1], f[3]>>

\* The pulses accepted and the bits decoded before place n of frame f.
Stage(f, n)    == IF f = <<>> /\ n = 3 THEN -1 ELSE n - 1
BitsBefore(n) == IF n <= 3 THEN 0 ELSE (n - 3) \div 2

\* In the middle of a frame the decoder has what came before the next pulse.
Synced(a, n, v) ==
  n # 0 => /\ a.number # 0 /\ a.at # 1 /\ ~Final(a)
           /\ n = Stage(a.frame, a.at)
           /\ Len(v) = BitsBefore(a.at)
           /\ \A i \in 1 .. Len(v) : v[i] = a.frame[i]

LEMMA ConcatIs ==
  ASSUME NEW S, NEW s \in Seq(S), NEW t \in Seq(S), NEW u, u = s \o t
  PROVE  /\ u \in Seq(S) /\ Len(u) = Len(s) + Len(t)
         /\ \A i \in 1 .. Len(s) : u[i] = s[i]
         /\ \A i \in 1 .. Len(t) : u[Len(s) + i] = t[i]
<1>1. Len(s) \in Nat /\ Len(t) \in Nat
  BY LenProperties
<1>2. /\ u \in Seq(S) /\ Len(u) = Len(s) + Len(t)
      /\ \A i \in 1 .. Len(s) + Len(t) : u[i] = IF i <= Len(s) THEN s[i] ELSE t[i - Len(s)]
  BY ConcatProperties
<1>3. ASSUME NEW i \in 1 .. Len(s) PROVE u[i] = s[i]
  <2>1. i \in 1 .. Len(s) + Len(t) /\ i <= Len(s)
    BY <1>1
  <2> QED BY <1>2, <2>1
<1>4. ASSUME NEW i \in 1 .. Len(t) PROVE u[Len(s) + i] = t[i]
  <2>1. PICK j \in 1 .. Len(s) + Len(t) : j = Len(s) + i /\ ~(j <= Len(s)) /\ j - Len(s) = i
    BY <1>1
  <2> QED BY <1>2, <2>1
<1> QED BY <1>2, <1>3, <1>4

LEMMA RepeatPulses ==
  /\ Len(Pulses(<<>>)) = 4
  /\ Pulses(<<>>)[1] = "head" /\ Pulses(<<>>)[2] = "repeat"
  /\ Pulses(<<>>)[3] = "low" /\ Pulses(<<>>)[4] = "silence"
BY DEF Pulses

LEMMA KeyPulses ==
  ASSUME NEW f \in Frame, f # <<>>
  PROVE  /\ Len(Pulses(f)) = 12
         /\ Pulses(f)[1] = "head" /\ Pulses(f)[2] = "start"
         /\ \A i \in 3 .. 10 : Pulses(f)[i] = IF i % 2 = 1 THEN "low" ELSE Gap(f[(i - 2) \div 2])
         /\ Pulses(f)[11] = "low" /\ Pulses(f)[12] = "silence"
<1> DEFINE mid == [i \in 1 .. 2 * NBits |-> IF i % 2 = 1 THEN "low" ELSE Gap(f[i \div 2])]
           a == <<"head", "start">>
           c == <<"low", "silence">>
<1>1. /\ a \in Seq(Pulse) /\ Len(a) = 2 /\ a[1] = "head" /\ a[2] = "start"
      /\ c \in Seq(Pulse) /\ Len(c) = 2 /\ c[1] = "low" /\ c[2] = "silence"
  BY DEF Pulse
<1>2. mid \in Seq(Pulse) /\ Len(mid) = 8
  <2>1. mid \in [1 .. 8 -> Pulse]
    BY DEF Pulse, Gap, NBits
  <2> HIDE DEF mid
  <2> QED BY <2>1, FunctionIsSeq
<1>3. \A j \in 1 .. 8 : mid[j] = IF j % 2 = 1 THEN "low" ELSE Gap(f[j \div 2])
  BY DEF NBits
<1>4. Pulses(f) = (a \o mid) \o c
  BY DEF Pulses
<1> HIDE DEF mid, a, c
<1>c. a \in Seq(Pulse) /\ mid \in Seq(Pulse) /\ c \in Seq(Pulse)
  BY <1>1, <1>2
<1>a. PICK u : u = a \o mid
  OBVIOUS
<1>b. PICK w : w = u \o c
  OBVIOUS
<1>5. /\ u \in Seq(Pulse) /\ Len(u) = 10
      /\ \A i \in 1 .. 2 : u[i] = a[i]
      /\ \A i \in 1 .. 8 : u[2 + i] = mid[i]
  <2>1. /\ u \in Seq(Pulse) /\ Len(u) = Len(a) + Len(mid)
        /\ \A i \in 1 .. Len(a) : u[i] = a[i]
        /\ \A i \in 1 .. Len(mid) : u[Len(a) + i] = mid[i]
    BY <1>c, <1>a, ConcatIs
  <2> QED BY <1>1, <1>2, <2>1
<1>6. /\ Len(w) = 12
      /\ \A i \in 1 .. 10 : w[i] = u[i]
      /\ \A i \in 1 .. 2 : w[10 + i] = c[i]
  <2>0. u \in Seq(Pulse)
    BY <1>5
  <2>1. /\ Len(w) = Len(u) + Len(c)
        /\ \A i \in 1 .. Len(u) : w[i] = u[i]
        /\ \A i \in 1 .. Len(c) : w[Len(u) + i] = c[i]
    BY <1>c, <2>0, <1>b, ConcatIs
  <2> QED BY <1>1, <1>5, <2>1
<1>7. Pulses(f) = w
  BY <1>4, <1>a, <1>b
<1>8. \A i \in 3 .. 10 : w[i] = IF i % 2 = 1 THEN "low" ELSE Gap(f[(i - 2) \div 2])
  <2> TAKE i \in 3 .. 10
  <2>1. PICK j \in 1 .. 8 : j = i - 2
    OBVIOUS
  <2>2. w[i] = mid[j]
    <3>1. w[i] = u[i] /\ i = 2 + j
      BY <1>6, <2>1
    <3> QED BY <1>5, <3>1
  <2>3. j % 2 = 1 <=> i % 2 = 1
    BY <2>1
  <2> QED BY <1>3, <2>1, <2>2, <2>3
<1>9. w[1] = "head" /\ w[2] = "start" /\ w[11] = "low" /\ w[12] = "silence"
  <2>1. w[1] = u[1] /\ w[2] = u[2] /\ w[10 + 1] = c[1] /\ w[10 + 2] = c[2]
    BY <1>6
  <2> QED BY <1>1, <1>5, <2>1
<1> QED BY <1>6, <1>7, <1>8, <1>9

\* The places of a frame's pulses.
LEMMA Places ==
  ASSUME NEW a \in Label, a.at \in 1 .. Len(Pulses(a.frame))
  PROVE  /\ Pulses(a.frame)[a.at] = "head" <=> a.at = 1
         /\ Pulses(a.frame)[a.at] = "silence" <=> Final(a)
         /\ a.frame = <<>> => a.at \in 1 .. 4 /\ (Final(a) <=> a.at = 4)
         /\ a.frame # <<>> => a.at \in 1 .. 12 /\ (Final(a) <=> a.at = 12)
<1>1. a.frame \in Frame /\ a.at \in Nat
  BY DEF Label
<1>2. CASE a.frame = <<>>
  <2>1. a.at \in 1 .. 4 /\ (Final(a) <=> a.at = 4)
    BY <1>2, RepeatPulses DEF Final
  <2>2. a.at \in {1, 2, 3, 4}
    BY <2>1
  <2> QED BY <1>2, <2>1, <2>2, RepeatPulses
<1>3. CASE a.frame # <<>>
  <2>1. a.at \in 1 .. 12 /\ (Final(a) <=> a.at = 12)
    BY <1>1, <1>3, KeyPulses DEF Final
  <2>2. CASE a.at \in 3 .. 10
    <3>1. Pulses(a.frame)[a.at] \in {"low", "zero", "one"}
      BY <1>1, <1>3, <2>2, KeyPulses DEF Gap
    <3> QED BY <1>3, <2>1, <2>2, <3>1
  <2>3. CASE a.at \notin 3 .. 10
    <3>1. a.at \in {1, 2, 11, 12}
      BY <2>1, <2>3
    <3> QED BY <1>1, <1>3, <2>1, <3>1, KeyPulses
  <2> QED BY <2>2, <2>3
<1> QED BY <1>2, <1>3

\* What the decoder does with the pulse of label a.
DecodeGood(a, p) ==
  /\ val' \in Seq(Bit) /\ (k' = 0 => val' = <<>>)
  /\ Final(a) => k' = 0
  /\ \A b : Follows(b, a) => Synced(b, k', val')
  /\ reported' # reported =>
       a.number # 0 /\ reported' = Append(reported, PairOf(a.frame))
  /\ p = Pulses(a.frame)[a.at] /\ (k = 0 => a.number = 0 \/ a.at = 1 \/ Final(a)) =>
       /\ reported' = IF a.number # 0 /\ a.at = Len(Pulses(a.frame)) - 1
                      THEN Append(reported, PairOf(a.frame)) ELSE reported
       /\ k' = 0 => Final(a) \/ a.number = 0 \/ a.at = Len(Pulses(a.frame)) - 1

LEMMA DecodeRefuses ==
  ASSUME NEW p, ~Expected(k, p), Decode(p)
  PROVE  k' = 0 /\ val' = <<>> /\ reported' = reported
BY DEF Decode

LEMMA NeverExpected == \A n : ~Expected(n, "silence")
BY DEF Expected

LEMMA DecodeStep ==
  ASSUME NEW a, Belongs(a), NEW p, IsPulse(p, a), Synced(a, k, val), Decode(p),
         val \in Seq(Bit), k = 0 => val = <<>>
  PROVE  DecodeGood(a, p)
<1>1. /\ a \in Label /\ a.at \in 1 .. Len(Pulses(a.frame))
      /\ a.frame \in Frame /\ a.number \in Nat /\ a.at \in Nat
      /\ a.number = 0 => a.at # 1
  BY DEF Belongs, Label
<1>2. /\ Pulses(a.frame)[a.at] = "head" <=> a.at = 1
      /\ Pulses(a.frame)[a.at] = "silence" <=> Final(a)
      /\ a.frame = <<>> => a.at \in 1 .. 4 /\ (Final(a) <=> a.at = 4)
      /\ a.frame # <<>> => a.at \in 1 .. 12 /\ (Final(a) <=> a.at = 12)
  BY <1>1, Places
<1>3. Len(Pulses(a.frame)) = IF a.frame = <<>> THEN 4 ELSE 12
  BY <1>1, RepeatPulses, KeyPulses
<1>4. <<>> \in Seq(Bit)
  BY EmptySeq
<1>5. CASE p = "silence"
  <2>1. k' = 0 /\ val' = <<>> /\ reported' = reported
    BY <1>5, DecodeRefuses, NeverExpected
  <2>2. p = Pulses(a.frame)[a.at] => Final(a)
    BY <1>2, <1>5
  <2>3. Final(a) => a.at # Len(Pulses(a.frame)) - 1
    BY <1>1, <1>3 DEF Final
  <2> QED BY <1>4, <2>1, <2>2, <2>3 DEF DecodeGood, Synced
<1>6. CASE p # "silence"
  <2>1. p = Pulses(a.frame)[a.at] /\ ~Final(a)
    BY <1>2, <1>6 DEF IsPulse
  <2>2. CASE k = 0 /\ p # "head"
    <3>1. ~Expected(k, p)
      BY <2>2 DEF Expected
    <3>2. k' = 0 /\ val' = <<>> /\ reported' = reported
      BY <3>1, DecodeRefuses
    <3>3. a.at # 1
      BY <1>2, <2>1, <2>2
    <3> QED BY <1>4, <2>1, <2>2, <3>2, <3>3 DEF DecodeGood, Synced
  <2>3. CASE k = 0 /\ p = "head"
    <3>1. a.at = 1 /\ a.number # 0
      BY <1>1, <1>2, <2>1, <2>3
    <3>2. Expected(k, p) /\ k \notin {-1, 2 + 2 * NBits} /\ p # "repeat"
      BY <2>3 DEF Expected, NBits
    <3>3. k' = 1 /\ val' = <<>> /\ reported' = reported
      BY <2>3, <3>2 DEF Decode
    <3>4. ASSUME NEW b, Follows(b, a) PROVE Synced(b, k', val')
      <4>1. b \in Label /\ b.number = a.number /\ b.frame = a.frame /\ b.at = 2
        BY <2>1, <3>1, <3>4 DEF Follows
      <4>2. ~Final(b)
        <5>1. Len(Pulses(b.frame)) = Len(Pulses(a.frame)) /\ Len(Pulses(a.frame)) # 2
          BY <1>3, <4>1
        <5> QED BY <4>1, <5>1 DEF Final
      <4> QED BY <3>1, <3>3, <4>1, <4>2 DEF Synced, Stage, BitsBefore
    <3>5. a.at # Len(Pulses(a.frame)) - 1
      BY <1>3, <3>1
    <3> QED BY <1>4, <2>1, <3>3, <3>4, <3>5 DEF DecodeGood
  <2>4. CASE k # 0 /\ a.frame = <<>>
    <3>1. a.number # 0 /\ a.at \in {2, 3} /\ k = (IF a.at = 3 THEN -1 ELSE 1) /\ Len(val) = 0
      BY <1>2, <2>1, <2>4 DEF Synced, Stage, BitsBefore
    <3>2. val = <<>>
      BY <3>1, EmptySeq
    <3>3. CASE a.at = 2
      <4>1. k = 1 /\ p = "repeat"
        BY <2>1, <2>4, <3>1, <3>3, RepeatPulses
      <4>2. k' = -1 /\ val' = <<>> /\ reported' = reported
        BY <3>2, <4>1 DEF Decode, Expected, NBits
      <4>3. ASSUME NEW b, Follows(b, a) PROVE Synced(b, k', val')
        <5>1. b \in Label /\ b.number = a.number /\ b.frame = <<>> /\ b.at = 3
          BY <2>1, <2>4, <3>3, <4>3 DEF Follows
        <5>2. ~Final(b)
          <6>1. Len(Pulses(b.frame)) = Len(Pulses(a.frame)) /\ Len(Pulses(a.frame)) # 3
            BY <1>3, <2>4, <5>1
          <6> QED BY <5>1, <6>1 DEF Final
        <5> QED BY <3>1, <4>2, <5>1, <5>2 DEF Synced, Stage, BitsBefore
      <4>4. a.at # Len(Pulses(a.frame)) - 1
        BY <1>3, <2>4, <3>3
      <4> QED BY <1>4, <2>1, <4>2, <4>3, <4>4 DEF DecodeGood
    <3>4. CASE a.at = 3
      <4>1. k = -1 /\ p = "low"
        BY <2>1, <2>4, <3>1, <3>4, RepeatPulses
      <4>2. k' = 0 /\ val' = <<>> /\ reported' = Append(reported, <<>>)
        BY <4>1 DEF Decode, Expected
      <4>3. PairOf(a.frame) = <<>> /\ a.at = Len(Pulses(a.frame)) - 1
        BY <1>3, <2>4, <3>4 DEF PairOf
      <4> QED BY <1>4, <2>1, <3>1, <4>2, <4>3 DEF DecodeGood, Synced
    <3> QED BY <3>1, <3>3, <3>4
  <2>5. CASE k # 0 /\ a.frame # <<>>
    <3>1. /\ a.number # 0 /\ a.at \in 2 .. 11 /\ k = a.at - 1 /\ k \in 1 .. 10
          /\ Len(val) = BitsBefore(a.at)
          /\ \A i \in 1 .. Len(val) : val[i] = a.frame[i]
      BY <1>2, <2>1, <2>5 DEF Synced, Stage
    <3>2. CASE a.at = 11
      <4>1. k = 10 /\ p = "low" /\ Len(val) = 4
        BY <1>1, <2>1, <2>5, <3>1, <3>2, KeyPulses DEF BitsBefore
      <4>2. val[1] = a.frame[1] /\ val[3] = a.frame[3] /\ val[4] = a.frame[4]
        BY <3>1, <4>1
      <4>3. a.frame[4] = 1 - a.frame[3] /\ a.frame[3] \in Bit
        BY <1>1, <2>5 DEF Frame, NBits
      <4>4. Valid(val)
        BY <4>2, <4>3 DEF Valid, Bit
      <4>5. Expected(k, p) /\ k = 2 + 2 * NBits
        BY <4>1 DEF Expected, NBits
      <4>6. /\ k' = 0 /\ val' = <<>>
            /\ reported' = Append(reported, <<val[1], val[3]>>)
        BY <4>4, <4>5 DEF Decode, NBits
      <4>7. reported' = Append(reported, PairOf(a.frame))
        BY <2>5, <4>2, <4>6 DEF PairOf
      <4>8. a.at = Len(Pulses(a.frame)) - 1
        BY <1>3, <2>5, <3>2
      <4> QED BY <1>4, <2>1, <3>1, <4>6, <4>7, <4>8 DEF DecodeGood, Synced
    <3>3. CASE a.at # 11
      <4>1. a.at \in 2 .. 10 /\ k \in 1 .. 9 /\ a.at # Len(Pulses(a.frame)) - 1
        BY <1>3, <2>5, <3>1, <3>3
      <4>2. /\ Expected(k, p) /\ p # "repeat"
            /\ k % 2 = 1 /\ k # 1 => p = Gap(a.frame[(a.at - 2) \div 2])
        <5>1. CASE a.at = 2
          BY <1>1, <2>1, <2>5, <3>1, <5>1, KeyPulses DEF Expected
        <5>2. CASE a.at \in 3 .. 10
          <6>1. p = IF a.at % 2 = 1 THEN "low" ELSE Gap(a.frame[(a.at - 2) \div 2])
            BY <1>1, <2>1, <2>5, <5>2, KeyPulses
          <6>2. (k % 2 = 1 <=> a.at % 2 = 0) /\ (k % 2 = 0 <=> a.at % 2 = 1) /\ k \in 2 .. 9
            BY <3>1, <5>2
          <6>3. CASE a.at % 2 = 1
            BY <6>1, <6>2, <6>3 DEF Expected, NBits
          <6>4. CASE a.at % 2 = 0
            <7>1. p = Gap(a.frame[(a.at - 2) \div 2]) /\ p \in {"zero", "one"}
              BY <6>1, <6>4 DEF Gap
            <7>2. k \in 2 .. 9 /\ k % 2 = 1
              BY <6>2, <6>4
            <7> QED BY <7>1, <7>2 DEF Expected, NBits
          <6> QED BY <5>2, <6>3, <6>4
        <5> QED BY <4>1, <5>1, <5>2
      <4>3. /\ k' = k + 1 /\ reported' = reported
            /\ val' = IF k >= 2 /\ k % 2 = 1 THEN Append(val, BitOf(p)) ELSE val
        BY <4>1, <4>2 DEF Decode, NBits
      <4>4. ASSUME NEW b, Follows(b, a)
            PROVE  b.number = a.number /\ b.frame = a.frame /\ b.at = a.at + 1 /\ ~Final(b)
        <5>1. b.number = a.number /\ b.frame = a.frame /\ b.at = a.at + 1
          BY <2>1, <4>4 DEF Follows
        <5>2. Len(Pulses(b.frame)) = Len(Pulses(a.frame)) /\ Len(Pulses(a.frame)) = 12
          BY <1>3, <2>5, <5>1
        <5>3. b.at # 12
          BY <4>1, <5>1
        <5> QED BY <5>1, <5>2, <5>3 DEF Final
      <4>5. CASE k >= 2 /\ k % 2 = 1
        <5>1. PICK j \in 1 .. 4 : a.at = 2 * j + 2
          BY <3>1, <4>1, <4>5
        <5>2. (a.at - 2) \div 2 = j /\ Len(val) = j - 1
          BY <3>1, <5>1 DEF BitsBefore
        <5>3. a.frame[j] \in Bit
          BY <1>1, <2>5, <5>1 DEF Frame, NBits
        <5>4. BitOf(p) = a.frame[j]
          BY <4>2, <4>5, <5>2, <5>3 DEF BitOf, Gap, Bit
        <5>5. val' = Append(val, a.frame[j])
          BY <4>3, <4>5, <5>4
        <5>6. /\ val' \in Seq(Bit) /\ Len(val') = j
              /\ \A i \in 1 .. j - 1 : val'[i] = val[i]
              /\ val'[j] = a.frame[j]
          BY <5>2, <5>3, <5>5, AppendProperties
        <5>7. \A i \in 1 .. j : val'[i] = a.frame[i]
          BY <3>1, <5>1, <5>2, <5>6
        <5>8. BitsBefore(a.at + 1) = j
          BY <5>1 DEF BitsBefore
        <5>9. ASSUME NEW b, Follows(b, a) PROVE Synced(b, k', val')
          <6>1. k' = Stage(b.frame, b.at) /\ b.at # 1 /\ b.number # 0
            <7>1. b.frame # <<>> /\ b.at = a.at + 1 /\ b.number = a.number
              BY <2>5, <4>4, <5>9
            <7>2. Stage(b.frame, b.at) = b.at - 1
              BY <7>1, Zenon DEF Stage
            <7> QED BY <3>1, <4>1, <4>3, <7>1, <7>2
          <6>2. Len(val') = BitsBefore(b.at) /\ \A i \in 1 .. Len(val') : val'[i] = b.frame[i]
            BY <4>4, <5>6, <5>7, <5>8, <5>9
          <6> QED BY <4>4, <5>9, <6>1, <6>2 DEF Synced
        <5> QED BY <2>1, <4>1, <4>3, <5>6, <5>9 DEF DecodeGood
      <4>6. CASE ~(k >= 2 /\ k % 2 = 1)
        <5>1. val' = val
          BY <4>3, <4>6
        <5>2. BitsBefore(a.at + 1) = BitsBefore(a.at)
          BY <3>1, <4>1, <4>6 DEF BitsBefore
        <5>3. ASSUME NEW b, Follows(b, a) PROVE Synced(b, k', val')
          <6>1. k' = Stage(b.frame, b.at) /\ b.at # 1 /\ b.number # 0
            <7>1. b.frame # <<>> /\ b.at = a.at + 1 /\ b.number = a.number
              BY <2>5, <4>4, <5>3
            <7>2. Stage(b.frame, b.at) = b.at - 1
              BY <7>1, Zenon DEF Stage
            <7> QED BY <3>1, <4>1, <4>3, <7>1, <7>2
          <6>2. Len(val') = BitsBefore(b.at) /\ \A i \in 1 .. Len(val') : val'[i] = b.frame[i]
            BY <3>1, <4>4, <5>1, <5>2, <5>3
          <6> QED BY <4>4, <5>3, <6>1, <6>2 DEF Synced
        <5> QED BY <2>1, <4>1, <4>3, <5>1, <5>3 DEF DecodeGood
      <4> QED BY <4>5, <4>6
    <3> QED BY <3>2, <3>3
  <2> QED BY <2>2, <2>3, <2>4, <2>5
<1> QED BY <1>5, <1>6

-----------------------------------------------------------------------------
(* The infrared receiver: the labels of what is on its way.                  *)

\* The pulses on their way are of the labels L, one after the other, up to the
\* end of the last frame sent.
Carries(L) ==
  /\ L \in [1 .. Len(Rest) -> Label]
  /\ \A i \in 1 .. Len(Rest) : Belongs(L[i]) /\ IsPulse(Rest[i], L[i])
  /\ \A i \in 1 .. Len(Rest) - 1 : Follows(L[i + 1], L[i])
  /\ Len(Rest) # 0 => Final(L[Len(Rest)]) /\ L[Len(Rest)].number = Len(sent)

\* The frames that end before the pulse of label a.
EndedBy(a) == IF a.number = 0 THEN 0 ELSE IF Final(a) THEN a.number ELSE a.number - 1

InPlace(L) ==
  /\ Len(Rest) = 0 => k = 0
  /\ Len(Rest) # 0 => Synced(L[1], k, val)

OnTime(L) ==
  ~gaveUp /\ ~misread =>
    /\ \A i \in 1 .. Len(reported) : i <= Len(sent) /\ reported[i] = PairOf(sent[i])
    /\ Len(Rest) = 0 => Len(reported) = Len(sent)
    /\ Len(Rest) # 0 => /\ Len(reported) = EndedBy(L[1])
                        /\ k = 0 => L[1].number = 0 \/ L[1].at = 1 \/ Final(L[1])

Reports == {PairOf(f) : f \in Frame}

Decoded ==
  /\ val \in Seq(Bit) /\ (k = 0 => val = <<>>)
  /\ reported \in Seq(Reports)
  /\ \A i \in 1 .. Len(reported) : \E j \in 1 .. Len(sent) : reported[i] = PairOf(sent[j])

Flags3 == dropped \in BOOLEAN /\ misread \in BOOLEAN /\ gaveUp \in BOOLEAN

DecoderInv ==
  /\ Flags3 /\ sent \in Seq(Frame)
  /\ ~dropped => Decoded /\ \E L : Carries(L) /\ InPlace(L) /\ OnTime(L)

LEMMA FrameLength ==
  ASSUME NEW f \in Frame
  PROVE  Pulses(f) \in Seq(Pulse) /\ Len(Pulses(f)) \in {4, 12}
BY PulsesType, RepeatPulses, KeyPulses

\* What is on its way is what is in the ring and then what is in the air.
RestShape ==
  /\ Content \in Seq(Pulse) /\ signal \in Seq(Pulse) /\ Rest \in Seq(Pulse)
  /\ Len(Content) \in Nat /\ Len(signal) \in Nat /\ Len(Rest) \in Nat
  /\ Len(Rest) = Len(Content) + Len(signal)
  /\ \A i \in 1 .. Len(Content) : Rest[i] = Content[i]
  /\ \A i \in 1 .. Len(signal) : Rest[Len(Content) + i] = signal[i]

LEMMA RestIs == RingInv => RestShape
<1> SUFFICES ASSUME RingInv PROVE RestShape
  OBVIOUS
<1>1. Content \in Seq(Pulse) /\ signal \in Seq(Pulse)
  BY ContentType DEF RingInv
<1>2. PICK u : u = Content \o signal
  OBVIOUS
<1>3. /\ u \in Seq(Pulse) /\ Len(u) = Len(Content) + Len(signal)
      /\ \A i \in 1 .. Len(Content) : u[i] = Content[i]
      /\ \A i \in 1 .. Len(signal) : u[Len(Content) + i] = signal[i]
  BY <1>1, <1>2, ConcatIs
<1>4. Rest = u
  BY <1>2 DEF Rest
<1>5. Len(Content) \in Nat /\ Len(signal) \in Nat /\ Len(u) \in Nat
  BY <1>1, <1>3, LenProperties
<1> QED BY <1>1, <1>3, <1>4, <1>5, Zenon DEF RestShape

LEMMA RestIsNext == RingInv' => RestShape'
BY RestIs, PTL

\* The labels stay good when nothing is taken and nothing is sent.
LEMMA SameLabels ==
  ASSUME NEW L, Carries(L), sent' = sent, misread => misread', Len(Rest') = Len(Rest),
         Len(Rest) \in Nat,
         \A i \in 1 .. Len(Rest) : Rest'[i] = Rest[i] \/ (misread' /\ Rest'[i] = "silence")
  PROVE  Carries(L)'
<1>1. ASSUME NEW i \in 1 .. Len(Rest) PROVE Belongs(L[i])' /\ IsPulse(Rest[i], L[i])'
  <2>1. Belongs(L[i]) /\ IsPulse(Rest[i], L[i])
    BY <1>1 DEF Carries
  <2>2. Belongs(L[i])'
    BY <2>1 DEF Belongs
  <2>3. IsPulse(Rest[i], L[i])'
    BY <2>1 DEF IsPulse
  <2> QED BY <2>2, <2>3
<1> QED BY <1>1 DEF Carries

\* A pulse is in the ring that was in the air; it or the next may be misread.
LEMMA PulseMoves ==
  ASSUME RestShape, RestShape', NEW e \in Pulse, Content' = Append(Content, e),
         Len(signal) # 0, Len(signal') = Len(signal) - 1,
         e = signal[1] \/ (misread' /\ e = "silence"),
         \A i \in 1 .. Len(signal) - 1 :
           signal'[i] = signal[i + 1] \/ (misread' /\ signal'[i] = "silence")
  PROVE  /\ Len(Rest') = Len(Rest)
         /\ \A i \in 1 .. Len(Rest) : Rest'[i] = Rest[i] \/ (misread' /\ Rest'[i] = "silence")
<1>1. /\ Len(Content) \in Nat /\ Len(signal) \in Nat /\ Len(Content') = Len(Content) + 1
      /\ \A i \in 1 .. Len(Content) : Content'[i] = Content[i]
      /\ Content'[Len(Content) + 1] = e
  <2>1. Content \in Seq(Pulse) /\ Len(Content) \in Nat /\ Len(signal) \in Nat
    BY DEF RestShape
  <2> QED BY <2>1, AppendProperties
<1>2. Len(Rest) = Len(Content) + Len(signal) /\ Len(Rest') = Len(Content') + Len(signal')
  BY DEF RestShape
<1>3. Len(Rest') = Len(Rest)
  BY <1>1, <1>2
<1>4. ASSUME NEW i \in 1 .. Len(Rest)
      PROVE  Rest'[i] = Rest[i] \/ (misread' /\ Rest'[i] = "silence")
  <2>1. CASE i \in 1 .. Len(Content)
    <3>1. Rest[i] = Content[i] /\ Rest'[i] = Content'[i]
      BY <1>1, <2>1 DEF RestShape
    <3> QED BY <1>1, <2>1, <3>1
  <2>2. CASE i = Len(Content) + 1
    <3>1. Rest'[i] = e
      <4>1. i \in 1 .. Len(Content')
        BY <1>1, <2>2
      <4>2. Rest'[i] = Content'[i]
        BY <4>1 DEF RestShape
      <4> QED BY <1>1, <2>2, <4>2
    <3>2. Rest[i] = signal[1]
      BY <1>1, <2>2 DEF RestShape
    <3> QED BY <3>1, <3>2
  <2>3. CASE i > Len(Content) + 1
    <3>1. PICK j \in 1 .. Len(signal) - 1 : i = Len(Content) + 1 + j
      <4>1. i - Len(Content) - 1 \in 1 .. Len(signal) - 1
        BY <1>1, <1>2, <2>3
      <4>2. i = Len(Content) + 1 + (i - Len(Content) - 1)
        BY <1>1
      <4> QED BY <4>1, <4>2
    <3>2. Rest'[i] = signal'[j]
      BY <1>1, <3>1 DEF RestShape
    <3>3. Rest[i] = signal[j + 1]
      <4>1. j + 1 \in 1 .. Len(signal) /\ i = Len(Content) + (j + 1)
        BY <1>1, <3>1
      <4> QED BY <4>1 DEF RestShape
    <3> QED BY <3>2, <3>3
  <2> QED BY <1>1, <2>1, <2>2, <2>3
<1> QED BY <1>3, <1>4

\* The interrupt handler, when it drops nothing.
LEMMA IrqMoves ==
  ASSUME RingInv, irda_irq, ~dropped', Flags3
  PROVE  /\ ~dropped /\ misread' \in BOOLEAN /\ (misread => misread')
         /\ Len(Rest') = Len(Rest)
         /\ \A i \in 1 .. Len(Rest) : Rest'[i] = Rest[i] \/ (misread' /\ Rest'[i] = "silence")
<1>1. /\ UNCHANGED <<reading, event>> /\ signal # <<>> /\ signal \in Seq(Pulse)
      /\ "silence" \in Pulse
  BY DEF irda_irq, necVars, RingInv, Pulse
<1>2. /\ Head(signal) = signal[1] /\ Head(signal) \in Pulse /\ Tail(signal) \in Seq(Pulse)
      /\ Len(Tail(signal)) = Len(signal) - 1
      /\ \A i \in 1 .. Len(signal) - 1 : Tail(signal)[i] = signal[i + 1]
      /\ Len(signal) \in Nat /\ Len(signal) # 0
  BY <1>1, HeadTailProperties, LenProperties, EmptySeq
<1>3. ASSUME NEW e \in Pulse, ir_event_put(e), signal' \in Seq(Pulse),
             Len(signal') = Len(signal) - 1,
             e = signal[1] \/ (misread' /\ e = "silence"),
             \A i \in 1 .. Len(signal) - 1 :
               signal'[i] = signal[i + 1] \/ (misread' /\ signal'[i] = "silence")
      PROVE  /\ ~dropped /\ Len(Rest') = Len(Rest)
             /\ \A i \in 1 .. Len(Rest) :
                  Rest'[i] = Rest[i] \/ (misread' /\ Rest'[i] = "silence")
  <2>1. RingInv' /\ dropped' = dropped /\ Content' = Append(Content, e)
    BY <1>1, <1>3, PutKeeps DEF Queue!Put
  <2>2. RestShape /\ RestShape'
    BY <2>1, RestIs, RestIsNext
  <2> QED BY <1>2, <1>3, <2>1, <2>2, PulseMoves
<1>4. CASE ir_event_put(Head(signal)) /\ signal' = Tail(signal) /\ UNCHANGED misread
  <2>1. misread' = misread
    BY <1>4
  <2>2. PICK t : t = Tail(signal)
    OBVIOUS
  <2>3. signal' = t /\ t \in Seq(Pulse) /\ Len(t) = Len(signal) - 1
        /\ \A i \in 1 .. Len(signal) - 1 : t[i] = signal[i + 1]
    BY <1>2, <1>4, <2>2
  <2>4. ir_event_put(Head(signal))
    BY <1>4
  <2> QED BY <1>2, <1>3, <2>1, <2>3, <2>4 DEF Flags3
<1>5. CASE /\ misread' = TRUE /\ ir_event_put("silence") /\ Len(signal) > 1
           /\ signal' = <<"silence">> \o SubSeq(signal, 3, Len(signal))
  <2>1. PICK t : t = SubSeq(signal, 3, Len(signal))
    OBVIOUS
  <2>2. t \in Seq(Pulse) /\ Len(t) = Len(signal) - 2
        /\ \A i \in 1 .. Len(signal) - 2 : t[i] = signal[i + 2]
    <3>1. \A j \in 3 .. Len(signal) : signal[j] \in Pulse
      BY <1>1, <1>2, ElementOfSeq
    <3>2. Len(signal) >= 2
      BY <1>2, <1>5
    <3>3. Len(t) = IF 3 <= Len(signal) + 1 THEN Len(signal) - 3 + 1 ELSE 0
      BY <1>2, <2>1, <3>1, SubSeqProperties
    <3>4. t \in Seq(Pulse) /\ \A i \in 1 .. Len(signal) - 3 + 1 : t[i] = signal[3 + i - 1]
      BY <1>1, <1>2, <2>1, <3>1, <3>2, SubSeqProperties
    <3>a. PICK n \in Nat : n = Len(signal)
      BY <1>2
    <3>5. Len(t) = Len(signal) - 2
      <4>1. n >= 2 /\ Len(t) = IF 3 <= n + 1 THEN n - 3 + 1 ELSE 0
        BY <3>2, <3>3, <3>a
      <4> QED BY <3>a, <4>1
    <3>6. ASSUME NEW i \in 1 .. Len(signal) - 2 PROVE t[i] = signal[i + 2]
      <4>1. i \in 1 .. Len(signal) - 3 + 1 /\ 3 + i - 1 = i + 2
        BY <1>2
      <4> QED BY <3>4, <4>1
    <3> QED BY <3>4, <3>5, <3>6
  <2>3. PICK h : h = <<"silence">>
    OBVIOUS
  <2>4. h \in Seq(Pulse) /\ Len(h) = 1 /\ h[1] = "silence"
    BY <1>1, <2>3
  <2>5. signal' = h \o t
    BY <1>5, <2>1, <2>3
  <2>6. /\ signal' \in Seq(Pulse) /\ Len(signal') = Len(h) + Len(t)
        /\ \A i \in 1 .. Len(h) : signal'[i] = h[i]
        /\ \A i \in 1 .. Len(t) : signal'[Len(h) + i] = t[i]
    <3>1. PICK u : u = signal'
      OBVIOUS
    <3>2. u = h \o t /\ h \in Seq(Pulse) /\ t \in Seq(Pulse)
      BY <2>2, <2>4, <2>5, <3>1
    <3>3. /\ u \in Seq(Pulse) /\ Len(u) = Len(h) + Len(t)
          /\ \A i \in 1 .. Len(h) : u[i] = h[i]
          /\ \A i \in 1 .. Len(t) : u[Len(h) + i] = t[i]
      BY <3>2, ConcatIs
    <3> QED BY <3>1, <3>3
  <2>7. Len(signal') = Len(signal) - 1
    BY <1>2, <2>2, <2>4, <2>6
  <2>8. ASSUME NEW i \in 1 .. Len(signal) - 1
        PROVE  signal'[i] = signal[i + 1] \/ signal'[i] = "silence"
    <3>1. CASE i = 1
      BY <2>4, <2>6, <3>1
    <3>2. CASE i # 1
      <4>1. i - 1 \in 1 .. Len(signal) - 2 /\ 1 + (i - 1) = i /\ (i - 1) + 2 = i + 1
        BY <1>2, <3>2
      <4>2. signal'[1 + (i - 1)] = t[i - 1] /\ t[i - 1] = signal[(i - 1) + 2]
        BY <2>2, <2>4, <2>6, <4>1
      <4> QED BY <4>1, <4>2
    <3> QED BY <3>1, <3>2
  <2>9. ir_event_put("silence") /\ misread'
    BY <1>5
  <2> QED BY <1>1, <1>3, <1>5, <2>6, <2>7, <2>8, <2>9
<1> QED BY <1>4, <1>5 DEF irda_irq

\* A step that takes nothing from the ring and sends nothing.
LEMMA DecoderWaits ==
  ASSUME DecoderInv, RestShape, UNCHANGED <<k, val, reported, sent, gaveUp>>, Flags3',
         ~dropped' =>
           /\ ~dropped /\ (misread => misread')
           /\ Len(Rest') = Len(Rest)
           /\ \A i \in 1 .. Len(Rest) : Rest'[i] = Rest[i] \/ (misread' /\ Rest'[i] = "silence")
  PROVE  DecoderInv'
<1>1. (Flags3 /\ sent \in Seq(Frame))'
  BY DEF DecoderInv
<1>2. ASSUME ~dropped' PROVE (Decoded /\ \E L : Carries(L) /\ InPlace(L) /\ OnTime(L))'
  <2>1. PICK L : Carries(L) /\ InPlace(L) /\ OnTime(L)
    BY <1>2 DEF DecoderInv
  <2>2. Decoded'
    BY <1>2 DEF DecoderInv, Decoded
  <2>3. Carries(L)'
    BY <1>2, <2>1, SameLabels DEF RestShape
  <2>4. InPlace(L)'
    BY <1>2, <2>1 DEF InPlace, Synced
  <2>5. OnTime(L)'
    BY <1>2, <2>1 DEF OnTime, EndedBy
  <2> QED BY <2>2, <2>3, <2>4, <2>5
<1> QED BY <1>1, <1>2 DEF DecoderInv

\* A label is still good when another frame is sent.
LEMMA BelongsStill ==
  ASSUME NEW a, Belongs(a), sent \in Seq(Frame), NEW f \in Frame, sent' = Append(sent, f)
  PROVE  Belongs(a)'
<1>1. /\ Len(sent) \in Nat /\ Len(sent') = Len(sent) + 1
      /\ \A i \in 1 .. Len(sent) : sent'[i] = sent[i]
  BY LenProperties, AppendProperties
<1>2. /\ a \in Label /\ a.at \in 1 .. Len(Pulses(a.frame)) /\ a.number \in Nat
      /\ a.number = 0 => a.at # 1
      /\ a.number # 0 => a.number <= Len(sent) /\ a.frame = sent[a.number]
  BY DEF Belongs, Label
<1>3. a.number # 0 => a.number <= Len(sent') /\ a.frame = sent'[a.number]
  <2> SUFFICES ASSUME a.number # 0 PROVE a.number <= Len(sent') /\ a.frame = sent'[a.number]
    OBVIOUS
  <2>1. a.number \in 1 .. Len(sent)
    BY <1>1, <1>2
  <2> QED BY <1>1, <1>2, <2>1
<1> QED BY <1>2, <1>3, Zenon DEF Belongs

\* The labels once frame f is sent too.
Labelled(L, n, f) ==
  [i \in 1 .. n + Len(Pulses(f)) |->
     IF i <= n THEN L[i] ELSE [frame |-> f, number |-> Len(sent) + 1, at |-> i - n]]

LEMMA PressLabels ==
  ASSUME NEW L, NEW f \in Frame, Carries(L), RestShape, RestShape', Content' = Content,
         Len(signal) = 0, signal' = Pulses(f), sent \in Seq(Frame), sent' = Append(sent, f),
         misread' = misread, NEW M, M = Labelled(L, Len(Rest), f)
  PROVE  Carries(M)'
<1> DEFINE n == Len(Rest)
           m == Len(Pulses(f))
           c == Len(sent) + 1
<1>1. /\ n \in Nat /\ m \in {4, 12} /\ c \in Nat \ {0} /\ Len(Rest') = n + m
      /\ \A i \in 1 .. n : Rest'[i] = Rest[i]
      /\ \A i \in 1 .. m : Rest'[n + i] = Pulses(f)[i]
  <2>1. n = Len(Content) /\ n \in Nat /\ Len(Rest') = n + m
    BY FrameLength DEF RestShape
  <2>2. \A i \in 1 .. n : Rest'[i] = Rest[i]
    BY <2>1 DEF RestShape
  <2>3. \A i \in 1 .. m : Rest'[n + i] = Pulses(f)[i]
    BY <2>1 DEF RestShape
  <2> HIDE DEF n, m
  <2> QED BY <2>1, <2>2, <2>3, FrameLength, LenProperties DEF m
<1>2. /\ Len(sent') = c /\ sent'[c] = f
  BY AppendProperties
<1>3. M = [i \in 1 .. n + m |->
             IF i <= n THEN L[i] ELSE [frame |-> f, number |-> c, at |-> i - n]]
  BY DEF Labelled
<1>4. /\ L \in [1 .. n -> Label]
      /\ \A i \in 1 .. n : Belongs(L[i]) /\ IsPulse(Rest[i], L[i])
      /\ \A i \in 1 .. n - 1 : Follows(L[i + 1], L[i])
      /\ n # 0 => Final(L[n]) /\ L[n].number = Len(sent)
  BY DEF Carries
<1> HIDE DEF n, m, c
<1>5. ASSUME NEW i \in 1 .. n PROVE M[i] = L[i]
  BY <1>1, <1>3
<1>6. ASSUME NEW j \in 1 .. m
      PROVE  /\ M[n + j] \in Label /\ M[n + j].frame = f /\ M[n + j].number = c
             /\ M[n + j].at = j /\ (Final(M[n + j]) <=> j = m)
  <2>1. M[n + j] = [frame |-> f, number |-> c, at |-> j]
    <3>1. PICK i \in 1 .. n + m : i = n + j /\ ~(i <= n) /\ i - n = j
      BY <1>1
    <3> QED BY <1>3, <3>1
  <2> QED BY <1>1, <2>1 DEF Label, Final, m
<1>7. ASSUME NEW i \in 1 .. n + m, i \notin 1 .. n PROVE \E j \in 1 .. m : i = n + j
  <2>1. i - n \in 1 .. m /\ i = n + (i - n)
    BY <1>1, <1>7
  <2> QED BY <2>1
<1>8. ASSUME NEW i \in 1 .. n + m PROVE M[i] \in Label /\ Belongs(M[i])' /\ IsPulse(Rest[i], M[i])'
  <2>1. CASE i \in 1 .. n
    <3>1. Belongs(L[i])'
      BY <1>4, <2>1, BelongsStill
    <3>2. IsPulse(Rest[i], L[i])'
      BY <1>1, <1>4, <2>1 DEF IsPulse
    <3> QED BY <1>4, <1>5, <2>1, <3>1, <3>2
  <2>2. CASE i \notin 1 .. n
    <3>1. PICK j \in 1 .. m : i = n + j
      BY <1>7, <2>2
    <3>2. j \in 1 .. Len(Pulses(f))
      BY DEF m
    <3>3. Belongs(M[i])'
      BY <1>1, <1>2, <1>6, <3>1, <3>2 DEF Belongs
    <3>4. IsPulse(Rest[i], M[i])'
      BY <1>1, <1>6, <3>1 DEF IsPulse
    <3> QED BY <1>6, <3>1, <3>3, <3>4
  <2> QED BY <2>1, <2>2
<1>9. ASSUME NEW i \in 1 .. n + m - 1 PROVE Follows(M[i + 1], M[i])
  <2>1. CASE i \in 1 .. n - 1
    <3>1. i \in 1 .. n /\ i + 1 \in 1 .. n
      BY <1>1, <2>1
    <3> QED BY <1>4, <1>5, <2>1, <3>1
  <2>2. CASE i = n
    <3>1. n \in 1 .. n /\ n # 0 /\ 1 \in 1 .. m
      BY <1>1, <2>2
    <3>2. M[i] = L[n] /\ Final(L[n]) /\ L[n].number + 1 = c
      BY <1>4, <1>5, <2>2, <3>1 DEF c
    <3>3. M[i + 1] \in Label /\ M[i + 1].number = c /\ M[i + 1].at = 1
      BY <1>6, <2>2, <3>1
    <3> QED BY <3>2, <3>3 DEF Follows
  <2>3. CASE i \notin 1 .. n - 1 /\ i # n
    <3>0. i \in 1 .. n + m /\ i \notin 1 .. n
      BY <1>1, <2>3
    <3>1. PICK j \in 1 .. m : i = n + j
      BY <1>7, <3>0
    <3>2. j + 1 \in 1 .. m /\ i + 1 = n + (j + 1) /\ j # m
      BY <1>1, <3>1
    <3>3. /\ M[i + 1] \in Label /\ M[i + 1].number = c /\ M[i + 1].at = j + 1
          /\ M[i + 1].frame = f
      BY <1>6, <3>2
    <3>4. M[i].number = c /\ M[i].frame = f /\ M[i].at = j /\ ~Final(M[i])
      BY <1>6, <3>1, <3>2
    <3> QED BY <3>3, <3>4 DEF Follows
  <2> QED BY <2>1, <2>2, <2>3
<1>10. Final(M[n + m]) /\ M[n + m].number = c
  <2>1. m \in 1 .. m
    BY <1>1
  <2> QED BY <1>6, <2>1
<1>11. M \in [1 .. n + m -> Label]
  BY <1>3, <1>8
<1>12. Carries(M)'
  <2>1. /\ M \in [1 .. Len(Rest') -> Label]
        /\ \A i \in 1 .. Len(Rest') : Belongs(M[i])' /\ IsPulse(Rest[i], M[i])'
        /\ \A i \in 1 .. Len(Rest') - 1 : Follows(M[i + 1], M[i])
        /\ Final(M[Len(Rest')]) /\ M[Len(Rest')].number = Len(sent')
    BY <1>1, <1>2, <1>8, <1>9, <1>10, <1>11
  <2>2. (\A i \in 1 .. Len(Rest) - 1 : Follows(M[i + 1], M[i]))'
    BY <2>1
  <2> QED BY <2>1, <2>2 DEF Carries
<1> QED BY <1>12

\* The user presses a key.
LEMMA DecoderPress ==
  ASSUME RingInv, RingInv', DecoderInv, NEW f \in Frame, Press(f)
  PROVE  DecoderInv'
<1>1. /\ Len(signal) = 0 /\ signal' = Pulses(f) /\ sent' = Append(sent, f) /\ sent \in Seq(Frame)
      /\ k' = k /\ val' = val /\ reported' = reported /\ gaveUp' = gaveUp
      /\ dropped' = dropped /\ misread' = misread
  BY DEF Press, necVars, DecoderInv
<1>2. Content' = Content
  BY Zenon DEF Press, Content, Filled, ringVars
<1>3. RestShape /\ RestShape'
  BY RestIs, RestIsNext
<1>4. /\ Len(sent) \in Nat /\ Len(sent') = Len(sent) + 1 /\ sent' \in Seq(Frame)
      /\ \A i \in 1 .. Len(sent) : sent'[i] = sent[i]
  BY <1>1, LenProperties, AppendProperties
<1>5. Flags3' /\ (sent \in Seq(Frame))'
  BY <1>1, <1>4 DEF DecoderInv, Flags3
<1>6. ASSUME ~dropped' PROVE (Decoded /\ \E L : Carries(L) /\ InPlace(L) /\ OnTime(L))'
  <2>1. PICK L : Carries(L) /\ InPlace(L) /\ OnTime(L)
    BY <1>1, <1>6 DEF DecoderInv
  <2>2. Decoded
    BY <1>1, <1>6 DEF DecoderInv
  <2>3. PICK M : M = Labelled(L, Len(Rest), f)
    OBVIOUS
  <2>4. Carries(M)'
    BY <1>1, <1>2, <1>3, <2>1, <2>3, PressLabels
  <2>5. /\ Len(Rest) \in Nat /\ Len(Rest') = Len(Rest) + Len(Pulses(f))
        /\ Len(Pulses(f)) \in {4, 12}
    <3>1. Len(signal') = Len(Pulses(f)) /\ Len(Content') = Len(Content)
      BY <1>1, <1>2
    <3> QED BY <1>1, <1>3, <3>1, FrameLength DEF RestShape
  <2>a. PICK m \in {4, 12} : m = Len(Pulses(f))
    BY <2>5
  <2>b. Len(Rest') # 0
    BY <2>5, <2>a
  <2>6. CASE Len(Rest) = 0
    <3>1. 1 \in 1 .. 0 + Len(Pulses(f))
      BY <2>a
    <3>2. M[1] = [frame |-> f, number |-> Len(sent) + 1, at |-> 1]
      BY <2>3, <2>6, <3>1 DEF Labelled
    <3>3. M[1].at = 1 /\ M[1].number = Len(sent) + 1 /\ M[1].frame = f
      BY <3>2
    <3>4. EndedBy(M[1]) = Len(sent)
      <4>1. ~Final(M[1])
        <5>1. Len(Pulses(M[1].frame)) = m
          BY <2>a, <3>3, Zenon
        <5>2. m # 1
          OBVIOUS
        <5> QED BY <3>3, <5>1, <5>2, Zenon DEF Final
      <4>2. PICK n \in Nat : n = Len(sent)
        BY <1>4
      <4> QED BY <3>3, <4>1, <4>2 DEF EndedBy
    <3>5. k = 0 /\ InPlace(M)'
      BY <1>1, <2>1, <2>5, <2>6 DEF InPlace, Synced
    <3>6. OnTime(M)'
      <4> SUFFICES ASSUME ~gaveUp', ~misread'
                   PROVE  /\ \A i \in 1 .. Len(reported') :
                               i <= Len(sent') /\ reported'[i] = PairOf(sent'[i])
                          /\ Len(reported') = EndedBy(M[1])
        BY <2>b, <3>3, Zenon DEF OnTime
      <4>1. /\ \A i \in 1 .. Len(reported) : i <= Len(sent) /\ reported[i] = PairOf(sent[i])
            /\ Len(reported) = Len(sent)
        BY <1>1, <2>1, <2>6 DEF OnTime
      <4> QED BY <1>1, <1>4, <3>4, <4>1
    <3>7. Decoded'
      <4>1. \A i \in 1 .. Len(reported) : \E j \in 1 .. Len(sent') : reported[i] = PairOf(sent'[j])
        BY <1>4, <2>2 DEF Decoded
      <4> QED BY <1>1, <2>2, <4>1 DEF Decoded
    <3> QED BY <2>4, <3>5, <3>6, <3>7
  <2>7. CASE Len(Rest) # 0
    <3>1. M[1] = L[1]
      <4>1. 1 \in 1 .. Len(Rest) + Len(Pulses(f)) /\ 1 <= Len(Rest)
        BY <2>5, <2>7
      <4> QED BY <2>3, <4>1 DEF Labelled
    <3>5. InPlace(M)'
      BY <1>1, <2>1, <2>5, <2>7, <3>1 DEF InPlace, Synced
    <3>6. OnTime(M)'
      <4> SUFFICES ASSUME ~gaveUp', ~misread'
                   PROVE  /\ \A i \in 1 .. Len(reported') :
                               i <= Len(sent') /\ reported'[i] = PairOf(sent'[i])
                          /\ Len(reported') = EndedBy(M[1])
                          /\ k' = 0 => M[1].number = 0 \/ M[1].at = 1 \/ Final(M[1])
        BY <2>b, Zenon DEF OnTime
      <4>1. /\ \A i \in 1 .. Len(reported) : i <= Len(sent) /\ reported[i] = PairOf(sent[i])
            /\ Len(reported) = EndedBy(L[1])
            /\ k = 0 => L[1].number = 0 \/ L[1].at = 1 \/ Final(L[1])
        BY <1>1, <2>1, <2>7 DEF OnTime
      <4>2. \A i \in 1 .. Len(reported) : i <= Len(sent') /\ reported[i] = PairOf(sent'[i])
        <5> TAKE i \in 1 .. Len(reported)
        <5>1. i <= Len(sent) /\ reported[i] = PairOf(sent[i]) /\ i \in 1 .. Len(sent)
          BY <1>4, <4>1
        <5> QED BY <1>4, <5>1
      <4> QED BY <1>1, <3>1, <4>1, <4>2
    <3>7. Decoded'
      <4>1. \A i \in 1 .. Len(reported) : \E j \in 1 .. Len(sent') : reported[i] = PairOf(sent'[j])
        BY <1>4, <2>2 DEF Decoded
      <4> QED BY <1>1, <2>2, <4>1 DEF Decoded
    <3> QED BY <2>4, <3>5, <3>6, <3>7
  <2> QED BY <2>6, <2>7
<1> QED BY <1>5, <1>6 DEF DecoderInv

\* The wait for an event times out.
LEMMA DecoderGivesUp == ASSUME RingInv, DecoderInv, GiveUp PROVE DecoderInv'
<1>1. /\ k' = 0 /\ val' = <<>> /\ gaveUp' = TRUE /\ reported' = reported /\ sent' = sent
      /\ dropped' = dropped /\ misread' = misread /\ signal' = signal
  BY DEF GiveUp
<1>2. Rest' = Rest
  BY Zenon DEF GiveUp, Rest, Content, Filled, ringVars
<1>3. (Flags3 /\ sent \in Seq(Frame))'
  BY <1>1 DEF DecoderInv, Flags3
<1>4. ASSUME ~dropped' PROVE (Decoded /\ \E L : Carries(L) /\ InPlace(L) /\ OnTime(L))'
  <2>1. PICK L : Carries(L)
    BY <1>1, <1>4 DEF DecoderInv
  <2>2. Decoded'
    <3>1. Decoded /\ <<>> \in Seq(Bit)
      BY <1>1, <1>4, EmptySeq DEF DecoderInv
    <3> QED BY <1>1, <3>1 DEF Decoded
  <2>3. Carries(L)'
    <3>1. Len(Rest) \in Nat
      BY RestIs DEF RestShape
    <3> QED BY <1>1, <1>2, <2>1, <3>1, SameLabels
  <2>4. InPlace(L)' /\ OnTime(L)'
    BY <1>1 DEF InPlace, Synced, OnTime
  <2> QED BY <2>2, <2>3, <2>4
<1> QED BY <1>3, <1>4 DEF DecoderInv

\* The program takes a pulse and decodes it.
LEMMA TakeMoves ==
  ASSUME RingInv, TakeEvent
  PROVE  /\ RestShape /\ RestShape' /\ Len(Rest) # 0 /\ event = Rest[1]
         /\ Len(Rest') = Len(Rest) - 1
         /\ \A i \in 1 .. Len(Rest) - 1 : Rest'[i] = Rest[i + 1]
<1>1. /\ RestShape /\ RestShape' /\ Content # <<>> /\ Content' = Tail(Content)
      /\ event = Head(Content) /\ signal' = signal
  BY GetKeeps, CopyOldest, RestIs, RestIsNext DEF Queue!Get, TakeEvent
<1>2. PICK n \in Nat : n = Len(Content) /\ n # 0
  BY <1>1, EmptySeq DEF RestShape
<1>3. /\ Head(Content) = Content[1] /\ Len(Tail(Content)) = Len(Content) - 1
      /\ \A i \in 1 .. Len(Content) - 1 : Tail(Content)[i] = Content[i + 1]
  BY <1>1, HeadTailProperties DEF RestShape
<1>4. PICK m \in Nat : m = Len(signal)
  BY <1>1 DEF RestShape
<1>5. /\ Len(Rest) = n + m /\ Len(Rest') = (n - 1) + m
      /\ \A i \in 1 .. n : Rest[i] = Content[i]
      /\ \A i \in 1 .. m : Rest[n + i] = signal[i]
      /\ \A i \in 1 .. n - 1 : Rest'[i] = Content[i + 1]
      /\ \A i \in 1 .. m : Rest'[(n - 1) + i] = signal[i]
  <2>1. Len(Content') = n - 1 /\ Len(signal') = m
    BY <1>1, <1>2, <1>3, <1>4
  <2>2. \A i \in 1 .. n - 1 : Content'[i] = Content[i + 1]
    BY <1>1, <1>2, <1>3
  <2> QED BY <1>1, <1>2, <1>4, <2>1, <2>2 DEF RestShape
<1>6. ASSUME NEW i \in 1 .. Len(Rest) - 1 PROVE Rest'[i] = Rest[i + 1]
  <2>1. CASE i \in 1 .. n - 1
    <3>1. i + 1 \in 1 .. n
      BY <1>2, <2>1
    <3> QED BY <1>5, <2>1, <3>1
  <2>2. CASE i \notin 1 .. n - 1
    <3>1. PICK j \in 1 .. m : i = (n - 1) + j /\ i + 1 = n + j
      <4>1. i - (n - 1) \in 1 .. m /\ i = (n - 1) + (i - (n - 1))
        BY <1>2, <1>4, <1>5, <2>2
      <4> QED BY <1>2, <4>1
    <3> QED BY <1>5, <3>1
  <2> QED BY <2>1, <2>2
<1>7. event = Rest[1]
  <2>1. 1 \in 1 .. n
    BY <1>2
  <2> QED BY <1>1, <1>3, <1>5, <2>1
<1> QED BY <1>1, <1>2, <1>4, <1>5, <1>6, <1>7

\* How many frames end before the next pulse.
LEMMA EndedNext ==
  ASSUME NEW a, Belongs(a), NEW b, Follows(b, a)
  PROVE  /\ EndedBy(b) = IF a.number # 0 /\ a.at = Len(Pulses(a.frame)) - 1
                         THEN a.number ELSE EndedBy(a)
         /\ Final(a) => b.at = 1
         /\ a.number = 0 /\ ~Final(a) => b.number = 0
         /\ a.at = Len(Pulses(a.frame)) - 1 => Final(b)
<1>1. /\ a.number \in Nat /\ a.at \in Nat /\ b.number \in Nat /\ b.at \in Nat
      /\ a.frame \in Frame /\ b.frame \in Frame
  BY DEF Belongs, Follows, Label
<1>2. PICK m \in {4, 12} : m = Len(Pulses(a.frame))
  BY <1>1, FrameLength
<1>3. PICK l \in {4, 12} : l = Len(Pulses(b.frame))
  BY <1>1, FrameLength
<1>4. CASE Final(a)
  <2>1. b.number = a.number + 1 /\ b.at = 1 /\ a.at = m
    BY <1>2, <1>4 DEF Follows, Final
  <2>2. ~Final(b)
    <3>1. l # 1
      OBVIOUS
    <3> QED BY <1>3, <2>1, <3>1, Zenon DEF Final
  <2>3. EndedBy(b) = a.number /\ EndedBy(a) = a.number
    BY <1>1, <1>4, <2>1, <2>2 DEF EndedBy
  <2>4. a.at # Len(Pulses(a.frame)) - 1
    BY <1>2, <2>1
  <2> QED BY <1>4, <2>1, <2>3, <2>4
<1>5. CASE ~Final(a)
  <2>1. b.number = a.number /\ b.frame = a.frame /\ b.at = a.at + 1
    BY <1>5 DEF Follows
  <2>2. Final(b) <=> a.at = Len(Pulses(a.frame)) - 1
    <3>1. Len(Pulses(b.frame)) = m
      BY <1>2, <2>1
    <3> QED BY <1>1, <1>2, <2>1, <3>1 DEF Final
  <2>3. EndedBy(b) = IF a.number = 0 THEN 0 ELSE IF Final(b) THEN a.number ELSE a.number - 1
    BY <2>1 DEF EndedBy
  <2>4. EndedBy(a) = IF a.number = 0 THEN 0 ELSE a.number - 1
    BY <1>5 DEF EndedBy
  <2> QED BY <1>5, <2>1, <2>2, <2>3, <2>4
<1> QED BY <1>4, <1>5

\* The frames reported are those that ended before the next pulse, in order.
LEMMA ReportNext ==
  ASSUME NEW a, Belongs(a), Len(sent) \in Nat, reported \in Seq(Reports),
         \A i \in 1 .. Len(reported) : i <= Len(sent) /\ reported[i] = PairOf(sent[i]),
         Len(reported) = EndedBy(a),
         reported' = IF a.number # 0 /\ a.at = Len(Pulses(a.frame)) - 1
                     THEN Append(reported, PairOf(a.frame)) ELSE reported
  PROVE  /\ \A i \in 1 .. Len(reported') : i <= Len(sent) /\ reported'[i] = PairOf(sent[i])
         /\ Len(reported') = IF a.number # 0 /\ a.at = Len(Pulses(a.frame)) - 1
                             THEN a.number ELSE EndedBy(a)
<1>1. CASE a.number # 0 /\ a.at = Len(Pulses(a.frame)) - 1
  <2>1. a.number \in Nat \ {0} /\ a.number <= Len(sent) /\ a.frame = sent[a.number] /\ a.at \in Nat
    BY <1>1 DEF Belongs, Label
  <2>2. ~Final(a)
    <3>1. Len(Pulses(a.frame)) \in Nat
      BY FrameLength DEF Belongs, Label
    <3> QED BY <1>1, <2>1, <3>1 DEF Final
  <2>3. Len(reported) = a.number - 1
    BY <1>1, <2>2 DEF EndedBy
  <2>4. reported' = Append(reported, PairOf(a.frame)) /\ PairOf(a.frame) \in Reports
    BY <1>1 DEF Reports, Belongs, Label
  <2>5. /\ Len(reported') = Len(reported) + 1
        /\ \A i \in 1 .. Len(reported) : reported'[i] = reported[i]
        /\ reported'[Len(reported) + 1] = PairOf(a.frame)
    BY <2>4, AppendProperties
  <2>6. Len(reported') = a.number
    BY <2>1, <2>3, <2>5
  <2>7. ASSUME NEW i \in 1 .. Len(reported')
        PROVE  i <= Len(sent) /\ reported'[i] = PairOf(sent[i])
    <3>1. CASE i = a.number
      <4>1. i = Len(reported) + 1
        BY <2>1, <2>3, <3>1
      <4>2. reported'[i] = PairOf(a.frame)
        BY <2>5, <4>1
      <4> QED BY <2>1, <3>1, <4>2
    <3>2. CASE i # a.number
      <4>1. i \in 1 .. Len(reported)
        BY <2>1, <2>3, <2>6, <3>2
      <4> QED BY <2>5, <4>1
    <3> QED BY <3>1, <3>2
  <2> QED BY <1>1, <2>6, <2>7
<1>2. CASE ~(a.number # 0 /\ a.at = Len(Pulses(a.frame)) - 1)
  BY <1>2
<1> QED BY <1>1, <1>2

LEMMA DecoderTakes == ASSUME RingInv, DecoderInv, TakeEvent PROVE DecoderInv'
<1>1. /\ Decode(event) /\ UNCHANGED <<gaveUp, sent, dropped, misread>>
      /\ gaveUp' = gaveUp /\ sent' = sent /\ dropped' = dropped /\ misread' = misread
  BY DEF TakeEvent
<1>2. (Flags3 /\ sent \in Seq(Frame))' /\ sent \in Seq(Frame) /\ Len(sent) \in Nat
  BY <1>1, LenProperties DEF DecoderInv, Flags3
<1>3. ASSUME ~dropped' PROVE (Decoded /\ \E L : Carries(L) /\ InPlace(L) /\ OnTime(L))'
  <2>1. PICK L : Carries(L) /\ InPlace(L) /\ OnTime(L)
    BY <1>1, <1>3 DEF DecoderInv
  <2>2. Decoded
    BY <1>1, <1>3 DEF DecoderInv
  <2>3. /\ RestShape /\ RestShape' /\ Len(Rest) # 0 /\ event = Rest[1]
        /\ Len(Rest') = Len(Rest) - 1
        /\ \A i \in 1 .. Len(Rest) - 1 : Rest'[i] = Rest[i + 1]
    BY TakeMoves
  <2>4. PICK n \in Nat \ {0} : n = Len(Rest)
    BY <2>3 DEF RestShape
  <2>5. PICK a : a = L[1]
    OBVIOUS
  <2>6. /\ L \in [1 .. n -> Label] /\ 1 \in 1 .. n
        /\ \A i \in 1 .. n : Belongs(L[i]) /\ IsPulse(Rest[i], L[i])
        /\ \A i \in 1 .. n - 1 : Follows(L[i + 1], L[i])
        /\ Final(L[n]) /\ L[n].number = Len(sent)
    BY <2>1, <2>4 DEF Carries
  <2>7. Belongs(a) /\ IsPulse(event, a) /\ Synced(a, k, val)
    BY <2>1, <2>3, <2>5, <2>6 DEF InPlace
  <2>8. val \in Seq(Bit) /\ (k = 0 => val = <<>>)
    BY <2>2 DEF Decoded
  <2>9. DecodeGood(a, event)
    BY <1>1, <2>7, <2>8, DecodeStep
  <2>10. PICK M : M = [i \in 1 .. n - 1 |-> L[i + 1]]
    OBVIOUS
  <2>11. /\ M \in [1 .. n - 1 -> Label]
         /\ \A i \in 1 .. n - 1 : M[i] = L[i + 1] /\ i + 1 \in 1 .. n
    BY <2>6, <2>10
  <2>12. Carries(M)'
    <3>1. ASSUME NEW i \in 1 .. n - 1 PROVE Belongs(M[i])' /\ IsPulse(Rest[i], M[i])'
      <4>1. Belongs(L[i + 1]) /\ IsPulse(Rest[i + 1], L[i + 1]) /\ Rest'[i] = Rest[i + 1]
        BY <2>3, <2>4, <2>6, <2>11
      <4>2. Belongs(M[i])'
        BY <1>1, <2>11, <4>1 DEF Belongs
      <4>3. IsPulse(Rest[i], M[i])'
        BY <1>1, <2>11, <4>1 DEF IsPulse
      <4> QED BY <4>2, <4>3
    <3>2. ASSUME NEW i \in 1 .. n - 1 - 1 PROVE Follows(M[i + 1], M[i])
      <4>1. i \in 1 .. n - 1 /\ i + 1 \in 1 .. n - 1
        BY <2>4
      <4> QED BY <2>6, <2>11, <4>1
    <3>3. n - 1 # 0 => Final(M[n - 1]) /\ M[n - 1].number = Len(sent)
      <4> SUFFICES ASSUME n - 1 # 0 PROVE Final(M[n - 1]) /\ M[n - 1].number = Len(sent)
        OBVIOUS
      <4>1. n - 1 \in 1 .. n - 1 /\ (n - 1) + 1 = n
        BY <2>4
      <4>2. M[n - 1] = L[n]
        BY <2>11, <4>1
      <4> QED BY <2>6, <4>2
    <3>4. Len(Rest') = n - 1
      BY <2>3, <2>4
    <3>5. (\A i \in 1 .. Len(Rest) - 1 : Follows(M[i + 1], M[i]))'
      BY <3>2, <3>4
    <3>6. (\A i \in 1 .. Len(Rest) : Belongs(M[i]) /\ IsPulse(Rest[i], M[i]))'
      BY <3>1, <3>4
    <3>7. /\ M \in [1 .. Len(Rest') -> Label]
          /\ Len(Rest') # 0 => Final(M[Len(Rest')]) /\ M[Len(Rest')].number = Len(sent')
      BY <1>1, <2>11, <3>3, <3>4
    <3> QED BY <3>5, <3>6, <3>7 DEF Carries
  <2>13. Decoded'
    <3>1. val' \in Seq(Bit) /\ (k' = 0 => val' = <<>>)
      BY <2>9 DEF DecodeGood
    <3>2. CASE reported' = reported
      BY <1>1, <2>2, <3>1, <3>2 DEF Decoded
    <3>3. CASE reported' # reported
      <4>1. a.number # 0 /\ reported' = Append(reported, PairOf(a.frame))
        BY <2>9, <3>3 DEF DecodeGood
      <4>2. a.number \in 1 .. Len(sent) /\ a.frame = sent[a.number] /\ PairOf(a.frame) \in Reports
        BY <1>2, <2>7, <4>1 DEF Belongs, Label, Reports
      <4>3. /\ reported \in Seq(Reports)
            /\ \A i \in 1 .. Len(reported) : \E j \in 1 .. Len(sent) : reported[i] = PairOf(sent[j])
        BY <2>2 DEF Decoded
      <4>4. /\ reported' \in Seq(Reports) /\ Len(reported') = Len(reported) + 1
            /\ \A i \in 1 .. Len(reported) : reported'[i] = reported[i]
            /\ reported'[Len(reported) + 1] = PairOf(a.frame)
        BY <4>1, <4>2, <4>3, AppendProperties
      <4>5. ASSUME NEW i \in 1 .. Len(reported')
            PROVE  \E j \in 1 .. Len(sent) : reported'[i] = PairOf(sent[j])
        <5>1. i \in 1 .. Len(reported) \/ i = Len(reported) + 1
          <6>1. Len(reported) \in Nat
            BY <4>3, LenProperties
          <6> QED BY <4>4, <6>1
        <5>2. CASE i \in 1 .. Len(reported)
          BY <4>3, <4>4, <5>2
        <5>3. CASE i = Len(reported) + 1
          BY <4>2, <4>4, <5>3
        <5> QED BY <5>1, <5>2, <5>3
      <4> QED BY <1>1, <3>1, <4>4, <4>5 DEF Decoded
    <3> QED BY <3>2, <3>3
  <2>14. n - 1 # 0 => M[1] = L[2] /\ Follows(L[2], a)
    <3> SUFFICES ASSUME n - 1 # 0 PROVE M[1] = L[2] /\ Follows(L[2], a)
      OBVIOUS
    <3>1. 1 \in 1 .. n - 1
      BY <2>4
    <3> QED BY <2>5, <2>6, <2>11, <3>1
  <2>15. n - 1 = 0 => Final(a) /\ a.number = Len(sent)
    <3> SUFFICES ASSUME n - 1 = 0 PROVE Final(a) /\ a.number = Len(sent)
      OBVIOUS
    <3>1. n = 1
      BY <2>4
    <3>2. L[n] = a
      BY <2>5, <3>1
    <3> QED BY <2>6, <3>2
  <2>16. InPlace(M)'
    <3>1. Len(Rest') = n - 1
      BY <2>3, <2>4
    <3>2. n - 1 = 0 => k' = 0
      BY <2>9, <2>15 DEF DecodeGood
    <3>3. n - 1 # 0 => Synced(M[1], k', val')
      BY <2>9, <2>14 DEF DecodeGood
    <3> QED BY <3>1, <3>2, <3>3 DEF InPlace, Synced
  <2>17. OnTime(M)'
    <3> SUFFICES ASSUME ~gaveUp, ~misread
                 PROVE  /\ \A i \in 1 .. Len(reported') :
                             i <= Len(sent) /\ reported'[i] = PairOf(sent[i])
                        /\ n - 1 = 0 => Len(reported') = Len(sent)
                        /\ n - 1 # 0 =>
                             /\ Len(reported') = EndedBy(M[1])
                             /\ k' = 0 => M[1].number = 0 \/ M[1].at = 1 \/ Final(M[1])
      <4>1. Len(Rest') = n - 1
        BY <2>3, <2>4
      <4> QED BY <1>1, <4>1 DEF OnTime, EndedBy
    <3>1. /\ \A i \in 1 .. Len(reported) : i <= Len(sent) /\ reported[i] = PairOf(sent[i])
          /\ Len(reported) = EndedBy(a)
          /\ k = 0 => a.number = 0 \/ a.at = 1 \/ Final(a)
      BY <2>1, <2>3, <2>5 DEF OnTime
    <3>2. event = Pulses(a.frame)[a.at]
      BY <2>7 DEF IsPulse
    <3>3. /\ reported' = IF a.number # 0 /\ a.at = Len(Pulses(a.frame)) - 1
                         THEN Append(reported, PairOf(a.frame)) ELSE reported
          /\ k' = 0 => Final(a) \/ a.number = 0 \/ a.at = Len(Pulses(a.frame)) - 1
      BY <2>9, <3>1, <3>2, Zenon DEF DecodeGood
    <3>4. /\ \A i \in 1 .. Len(reported') : i <= Len(sent) /\ reported'[i] = PairOf(sent[i])
          /\ Len(reported') = IF a.number # 0 /\ a.at = Len(Pulses(a.frame)) - 1
                              THEN a.number ELSE EndedBy(a)
      <4>1. reported \in Seq(Reports)
        BY <2>2 DEF Decoded
      <4> QED BY <1>2, <2>7, <3>1, <3>3, <4>1, ReportNext
    <3>5. n - 1 = 0 => Len(reported') = Len(sent)
      <4> SUFFICES ASSUME n - 1 = 0 PROVE Len(reported') = Len(sent)
        OBVIOUS
      <4>1. Final(a) /\ a.number = Len(sent) /\ EndedBy(a) = a.number
        BY <2>15 DEF EndedBy
      <4> QED BY <3>4, <4>1
    <3>6. n - 1 # 0 => /\ Len(reported') = EndedBy(M[1])
                       /\ k' = 0 => M[1].number = 0 \/ M[1].at = 1 \/ Final(M[1])
      <4> SUFFICES ASSUME n - 1 # 0
                   PROVE  /\ Len(reported') = EndedBy(L[2])
                          /\ k' = 0 => L[2].number = 0 \/ L[2].at = 1 \/ Final(L[2])
        BY <2>14
      <4>1. /\ EndedBy(L[2]) = IF a.number # 0 /\ a.at = Len(Pulses(a.frame)) - 1
                               THEN a.number ELSE EndedBy(a)
            /\ Final(a) => L[2].at = 1
            /\ a.number = 0 /\ ~Final(a) => L[2].number = 0
            /\ a.at = Len(Pulses(a.frame)) - 1 => Final(L[2])
        BY <2>7, <2>14, EndedNext
      <4> QED BY <3>3, <3>4, <4>1
    <3> QED BY <3>4, <3>5, <3>6
  <2> QED BY <2>12, <2>13, <2>16, <2>17
<1> QED BY <1>2, <1>3 DEF DecoderInv

\* The frame that is missed is the only one on its way.
LEMMA DecoderInit == IrInit => DecoderInv
<1> SUFFICES ASSUME IrInit PROVE DecoderInv
  OBVIOUS
<1>1. /\ k = 0 /\ val = <<>> /\ reported = <<>> /\ sent = <<>>
      /\ Flags3 /\ g_r = 0 /\ g_w = 0
  BY DEF IrInit, Flags3
<1>2. Len(sent) = 0 /\ Len(reported) = 0
  BY <1>1
<1>3. Decoded /\ sent \in Seq(Frame)
  BY <1>1, <1>2, EmptySeq DEF Decoded
<1>4. RestShape /\ Len(Content) = 0
  <2>1. RingInv
    BY RingInit
  <2>2. Filled = 0
    BY <1>1 DEF Filled
  <2> QED BY <2>1, <2>2, ContentType, RestIs
<1>5. PICK f \in Frame : \E i \in 2 .. Len(Pulses(f)) : signal = SubSeq(Pulses(f), i, Len(Pulses(f)))
  BY IrAssumption DEF IrInit
<1>6. PICK s : s = Pulses(f)
  OBVIOUS
<1>7. PICK m \in {4, 12} : m = Len(s) /\ s \in Seq(Pulse)
  BY <1>6, FrameLength
<1>8. PICK p \in 2 .. m : signal = SubSeq(s, p, m)
  BY <1>5, <1>6, <1>7
<1>9. PICK n \in Nat \ {0} : n = m - p + 1
  OBVIOUS
<1>10. /\ Len(signal) = n
       /\ \A i \in 1 .. n : signal[i] = s[p + i - 1] /\ p + i - 1 \in 2 .. m
  <2>1. \A j \in p .. m : s[j] \in Pulse
    <3>1. \A j \in p .. m : j \in 1 .. Len(s)
      BY <1>7
    <3> QED BY <1>7, <3>1, ElementOfSeq
  <2>2. p <= m + 1 /\ p \in Int /\ m \in Int
    BY <1>7
  <2>3. Len(signal) = IF p <= m + 1 THEN m - p + 1 ELSE 0
    BY <1>7, <1>8, <2>1, <2>2, SubSeqProperties
  <2>4. \A i \in 1 .. m - p + 1 : signal[i] = s[p + i - 1]
    BY <1>7, <1>8, <2>1, <2>2, SubSeqProperties
  <2>5. \A i \in 1 .. n : p + i - 1 \in 2 .. m
    BY <1>9
  <2> QED BY <1>9, <2>2, <2>3, <2>4, <2>5
<1>11. Len(Rest) = n /\ \A i \in 1 .. n : Rest[i] = s[p + i - 1]
  <2>1. \A i \in 1 .. n : Rest[0 + i] = signal[i]
    BY <1>4, <1>10 DEF RestShape
  <2>2. Len(Rest) = 0 + n
    BY <1>4, <1>10 DEF RestShape
  <2>3. \A i \in 1 .. n : 0 + i = i
    OBVIOUS
  <2> QED BY <1>9, <1>10, <2>1, <2>2, <2>3
<1>12. PICK L : L = [i \in 1 .. n |-> [frame |-> f, number |-> 0, at |-> p + i - 1]]
  OBVIOUS
<1>13. \A i \in 1 .. n : /\ L[i] \in Label /\ L[i].frame = f /\ L[i].number = 0
                         /\ L[i].at = p + i - 1 /\ L[i].at \in 2 .. m
  BY <1>10, <1>12 DEF Label
<1>14. L \in [1 .. n -> Label]
  BY <1>12, <1>13
<1>15. \A i \in 1 .. n : Len(Pulses(L[i].frame)) = m
  BY <1>6, <1>7, <1>13
<1>16. \A i \in 1 .. n : Final(L[i]) <=> i = n
  <2> TAKE i \in 1 .. n
  <2>1. L[i].at = m <=> i = n
    BY <1>9, <1>13
  <2> QED BY <1>15, <2>1 DEF Final
<1>17. Carries(L)
  <2>1. ASSUME NEW i \in 1 .. n PROVE Belongs(L[i]) /\ IsPulse(Rest[i], L[i])
    <3>1. L[i].at \in 1 .. Len(Pulses(L[i].frame)) /\ L[i].at # 1
      BY <1>13, <1>15
    <3>2. Belongs(L[i])
      BY <1>13, <3>1 DEF Belongs
    <3>3. IsPulse(Rest[i], L[i])
      BY <1>6, <1>11, <1>13 DEF IsPulse
    <3> QED BY <3>2, <3>3
  <2>2. ASSUME NEW i \in 1 .. n - 1 PROVE Follows(L[i + 1], L[i])
    <3>1. i \in 1 .. n /\ i + 1 \in 1 .. n /\ i # n /\ p + (i + 1) - 1 = (p + i - 1) + 1
      BY <1>9
    <3>2. ~Final(L[i])
      BY <1>16, <3>1
    <3>3. /\ L[i + 1] \in Label /\ L[i + 1].number = L[i].number
          /\ L[i + 1].frame = L[i].frame /\ L[i + 1].at = L[i].at + 1
      BY <1>13, <3>1
    <3> QED BY <3>2, <3>3 DEF Follows
  <2>3. Final(L[n]) /\ L[n].number = Len(sent)
    <3>1. n \in 1 .. n
      BY <1>9
    <3> QED BY <1>2, <1>13, <1>16, <3>1
  <2> QED BY <1>11, <1>14, <2>1, <2>2, <2>3 DEF Carries
<1>18. L[1].number = 0
  <2>1. 1 \in 1 .. n
    BY <1>9
  <2> QED BY <1>13, <2>1
<1>19. InPlace(L) /\ OnTime(L)
  <2>1. Len(Rest) # 0
    BY <1>9, <1>11
  <2>2. EndedBy(L[1]) = 0
    BY <1>18 DEF EndedBy
  <2>3. InPlace(L)
    BY <1>1, <2>1 DEF InPlace, Synced
  <2>4. \A i \in 1 .. Len(reported) : FALSE
    BY <1>2
  <2>5. OnTime(L)
    BY <1>2, <1>18, <2>1, <2>2, <2>4 DEF OnTime
  <2> QED BY <2>3, <2>5
<1> QED BY <1>1, <1>3, <1>17, <1>19 DEF DecoderInv

LEMMA DecoderNext ==
  ASSUME RingInv, DecoderInv, [IrNext]_irVars
  PROVE  DecoderInv'
<1>1. RingInv' /\ RestShape
  BY RingStep, RestIs
<1>2. CASE \E f \in Frames : Press(f)
  BY <1>1, <1>2, DecoderPress, IrAssumption
<1>3. CASE irda_irq
  <2>1. UNCHANGED <<k, val, reported, sent, gaveUp>>
    BY <1>3 DEF irda_irq, necVars
  <2>2. Flags3 /\ Flags3'
    <3>1. misread' \in BOOLEAN /\ dropped' \in BOOLEAN
      BY <1>3 DEF irda_irq, ir_event_put, DecoderInv, Flags3
    <3> QED BY <2>1, <3>1 DEF DecoderInv, Flags3
  <2> QED BY <1>1, <1>3, <2>1, <2>2, IrqMoves, DecoderWaits
<1>4. CASE CopyEvent \/ UNCHANGED irVars
  <2>1. /\ UNCHANGED <<k, val, reported, sent, gaveUp>>
        /\ dropped' = dropped /\ misread' = misread
    BY <1>4, Zenon DEF CopyEvent, irVars, necVars
  <2>2. Rest' = Rest
    BY <1>4, Zenon DEF CopyEvent, irVars, necVars, ringVars, Rest, Content, Filled
  <2>3. Flags3'
    BY <2>1 DEF DecoderInv, Flags3
  <2> QED BY <1>1, <2>1, <2>2, <2>3, DecoderWaits
<1>5. CASE TakeEvent
  BY <1>5, DecoderTakes
<1>6. CASE GiveUp
  BY <1>6, DecoderGivesUp
<1> QED BY <1>2, <1>3, <1>4, <1>5, <1>6 DEF IrNext

\* What the decoder has so far is a beginning of the frame whose pulses come.
THEOREM DecoderInvariant == IrSpec => []DecoderInv
<1>1. RingInv /\ DecoderInv /\ [IrNext]_irVars => DecoderInv'
  BY DecoderNext
<1> QED BY <1>1, DecoderInit, RingInvariant, PTL DEF IrSpec

\* Without an overflow what is reported was sent, whatever timeouts, misread
\* pulses and the missed frame do: any ring, any frames, any number of them.
THEOREM WhatIsReportedWasSent == IrSpec => []ReportedWasSent
<1>1. DecoderInv => ReportedWasSent
  <2> SUFFICES ASSUME DecoderInv, ~dropped, NEW r \in Range(reported) PROVE r \in SentPairs
    BY DEF ReportedWasSent
  <2>1. /\ sent \in Seq(Frame) /\ reported \in Seq(Reports)
        /\ \A i \in 1 .. Len(reported) : \E j \in 1 .. Len(sent) : reported[i] = PairOf(sent[j])
    BY DEF DecoderInv, Decoded
  <2>2. PICK i \in 1 .. Len(reported) : r = reported[i]
    BY <2>1, LenProperties DEF Range
  <2>3. PICK j \in 1 .. Len(sent) : r = PairOf(sent[j])
    BY <2>1, <2>2
  <2>4. sent[j] \in Range(sent)
    BY <2>1, LenProperties DEF Range
  <2> QED BY <2>3, <2>4 DEF SentPairs, PairOf
<1> QED BY <1>1, DecoderInvariant, PTL

\* Without a cause for a miss, the drained decoder has reported every frame,
\* once and in order.
THEOREM EveryFrameIsReported == IrSpec => []AllReported
<1>1. RingInv /\ DecoderInv => AllReported
  <2> SUFFICES ASSUME RingInv, DecoderInv, ~dropped, ~gaveUp, ~misread, signal = <<>>, Empty
               PROVE  reported = [i \in 1 .. Len(sent) |-> PairOf(sent[i])]
    BY DEF AllReported, PairOf
  <2>1. PICK L : OnTime(L)
    BY DEF DecoderInv
  <2>2. Filled = 0
    BY FilledType DEF RingInv, Empty
  <2>3. Len(Content) = 0 /\ Len(signal) = 0 /\ RestShape
    BY <2>2, ContentType, RestIs
  <2>4. Len(Rest) = 0
    BY <2>3 DEF RestShape
  <2>5. /\ Len(reported) = Len(sent)
        /\ \A i \in 1 .. Len(reported) : reported[i] = PairOf(sent[i])
    BY <2>1, <2>4 DEF OnTime
  <2>6. reported \in Seq(Reports)
    BY DEF DecoderInv, Decoded
  <2>7. reported = [i \in 1 .. Len(reported) |-> reported[i]]
    BY <2>6, LenProperties
  <2> QED BY <2>5, <2>7
<1> QED BY <1>1, DecoderInvariant, RingInvariant, PTL
=============================================================================

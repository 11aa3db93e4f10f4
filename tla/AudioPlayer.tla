----------------------------- MODULE AudioPlayer -----------------------------
(***************************************************************************)
(* Playing a file: read_wav_file of sound/wav.c fills two buffers in turn  *)
(* and hands each to the DMA driver of sound/dma.c, whose interrupt        *)
(* handler DMA2IntHandle ends a transfer.  The player and the handler      *)
(* share dma_status, the interrupt's registration and the DMA channel.     *)
(* No caller sets dma_end_func, so DMA2IntHandle always goes on to         *)
(* dma_exit and dma_init.                                                  *)
(*                                                                         *)
(* A file is its number of buffers' worth of samples, and a buffer holds   *)
(* the number of the piece that was last read into it.  What a mono file   *)
(* adds, a second copy of each sample, happens where f_read is here.       *)
(***************************************************************************)
EXTENDS Integers, Sequences

CONSTANT MaxPieces  \* bound on the length of a file

ASSUME AudioAssumption == MaxPieces \in Nat

VARIABLES pc,           \* where the player is
          size, fptr,   \* of the file, in pieces
          index,        \* the buffer being filled
          sbuf,         \* the piece in each buffer
          failed,       \* f_read returned an error
          dma_status,
          requested,    \* DMA2IntHandle is registered and IRQ_DMA2 unmasked
          iis,          \* the IIS interface is enabled
          dcsrc, taken, \* the buffer of the transfer, and its piece at the start
          dmasktrig,    \* the channel is on
          irq,          \* IRQ_DMA2 is pending
          heard,        \* history: the pieces played since dma_init
          early         \* history: a transfer was over before dma_start was

fileVars  == <<size, fptr, index, sbuf, failed>>
dmaVars   == <<dma_status, requested, dcsrc, taken, dmasktrig, irq>>
audioVars == <<pc, fileVars, dmaVars, iis, heard, early>>

Ready == dma_status # "RUN"   \* dma_can_run

-----------------------------------------------------------------------------
AudioInit ==
    /\ pc = "shell"
    /\ size = 0 /\ fptr = 0 /\ index = 0
    /\ sbuf = [b \in {0, 1} |-> 0]
    /\ failed = FALSE
    /\ dma_status = "INIT"
    /\ requested = FALSE
    /\ iis = FALSE
    /\ dcsrc = 0 /\ taken = 0
    /\ dmasktrig = FALSE
    /\ irq = FALSE
    /\ heard = <<>>
    /\ early = FALSE

Other(b) == (b + 1) % 2

\* The wav command: the header is read and the interface enabled.
Open ==
    /\ pc = "shell"
    /\ size' \in 0..MaxPieces
    /\ fptr' = 0 /\ index' = 0
    /\ failed' = FALSE
    /\ iis' = TRUE
    /\ pc' = "dma_init"
    /\ UNCHANGED <<sbuf, dmaVars, heard, early>>

\* dma_init: it waits for the transfer, and clears the channel unless the
\* interrupt handler has done it.
dma_init ==
    /\ pc = "dma_init"
    /\ Ready
    /\ dmasktrig' = (dma_status = "INIT" /\ dmasktrig)
    /\ dma_status' = "INIT"
    /\ heard' = <<>>
    /\ pc' = "loop"
    /\ UNCHANGED <<fileVars, requested, dcsrc, taken, irq, iis, early>>

f_read ==
    /\ pc = "loop" /\ fptr # size
    /\ fptr' = fptr + 1
    /\ sbuf' = [sbuf EXCEPT ![index] = fptr + 1]
    /\ pc' = "key"
    /\ UNCHANGED <<size, index, failed, dmaVars, iis, heard, early>>

f_read_fails ==
    /\ pc = "loop" /\ fptr # size
    /\ failed' = TRUE
    /\ iis' = FALSE
    /\ pc' = "shell"
    /\ UNCHANGED <<size, fptr, index, sbuf, dmaVars, heard, early>>

EndOfFile ==
    /\ pc = "loop" /\ fptr = size
    /\ pc' = "exit"
    /\ UNCHANGED <<fileVars, dmaVars, iis, heard, early>>

\* serial_getc_async: q ends the play, the volume keys do not.
Key ==
    /\ pc = "key"
    /\ pc' \in {"wait", "exit"}
    /\ UNCHANGED <<fileVars, dmaVars, iis, heard, early>>

\* Mutant: the buffer is handed over without a wait.
MutFree == TRUE
Free == Ready

dma_set ==
    /\ pc = "wait"
    /\ Free
    /\ dcsrc' = index
    /\ dma_status' = "READY"
    /\ pc' = "request"
    /\ UNCHANGED <<fileVars, requested, taken, dmasktrig, irq, iis, heard, early>>

\* dma_start: request_irq, then the trigger, then the status.
RequestIrq ==
    /\ pc = "request"
    /\ requested' = TRUE
    /\ pc' = "trigger"
    /\ UNCHANGED <<fileVars, dma_status, dcsrc, taken, dmasktrig, irq, iis, heard, early>>

Trigger ==
    /\ pc = "trigger"
    /\ dmasktrig' = TRUE
    /\ taken' = sbuf[dcsrc]
    /\ pc' = "running"
    /\ UNCHANGED <<fileVars, dma_status, requested, dcsrc, irq, iis, heard, early>>

Running ==
    /\ pc = "running"
    /\ dma_status' = "RUN"
    /\ index' = Other(index)
    /\ pc' = "loop"
    /\ UNCHANGED <<size, fptr, sbuf, failed, requested, dcsrc, taken, dmasktrig, irq, iis, heard, early>>

Over == Ready

Close ==
    /\ pc = "exit"
    /\ Over
    /\ iis' = FALSE
    /\ pc' = "shell"
    /\ UNCHANGED <<fileVars, dmaVars, heard, early>>

-----------------------------------------------------------------------------
\* The channel: it moves samples while the interface asks for them, stops by
\* itself after the last one and raises the interrupt.  A piece that was
\* overwritten on the way is heard as 0.
TransferEnds ==
    /\ dmasktrig /\ iis
    /\ heard' = Append(heard, IF sbuf[dcsrc] = taken THEN taken ELSE 0)
    /\ dmasktrig' = FALSE
    /\ irq' = TRUE
    /\ early' = (early \/ pc = "running")
    /\ UNCHANGED <<pc, fileVars, dma_status, requested, dcsrc, taken, iis>>

\* Mutants of what the handler leaves: the status stays as it is, or the
\* handler stays registered.
MutAfterExit   == "RUN"
MutStillWanted == TRUE

AfterExit   == "INIT"
StillWanted == FALSE

\* DMA2IntHandle, dma_exit and its free_irq and dma_init.
DMA2IntHandle ==
    /\ irq /\ requested
    /\ irq' = FALSE
    /\ requested' = StillWanted
    /\ dmasktrig' = FALSE
    /\ dma_status' = AfterExit
    /\ UNCHANGED <<pc, fileVars, dcsrc, taken, iis, heard, early>>

Player ==
    \/ dma_init \/ f_read \/ f_read_fails \/ EndOfFile \/ Key
    \/ dma_set \/ RequestIrq \/ Trigger \/ Running \/ Close

AudioNext == Open \/ Player \/ TransferEnds \/ DMA2IntHandle

AudioSpec == AudioInit /\ [][AudioNext]_audioVars

\* The shell's task runs on, the interface drains the buffer it is given, and
\* the CPU takes interrupts.
AudioFairSpec ==
    AudioSpec /\ WF_audioVars(Player) /\ WF_audioVars(TransferEnds) /\ WF_audioVars(DMA2IntHandle)

-----------------------------------------------------------------------------
AudioTypeOK ==
    /\ pc \in {"shell", "dma_init", "loop", "key", "wait", "request",
               "trigger", "running", "exit"}
    /\ size \in Nat /\ fptr \in 0..size
    /\ index \in {0, 1} /\ dcsrc \in {0, 1}
    /\ sbuf \in [{0, 1} -> Nat]
    /\ taken \in Nat
    /\ dma_status \in {"READY", "INIT", "RUN"}
    /\ failed \in BOOLEAN /\ requested \in BOOLEAN /\ iis \in BOOLEAN
    /\ dmasktrig \in BOOLEAN /\ irq \in BOOLEAN /\ early \in BOOLEAN
    /\ heard \in Seq(Nat)

\* What is heard is the file: its pieces in order, none twice, none left out
\* and none with another's samples in it, although the player reads the next
\* piece while the channel is playing.
HeardInOrder == \A k \in 1..Len(heard) : heard[k] = k

\* The assertions of the DMA driver and of request_irq hold: no transfer is
\* prepared while one runs, none is started that was not prepared, and the
\* handler of the last one is gone by then.
NoAssertFails ==
    /\ pc = "request" => dma_status = "READY" /\ ~requested
    /\ pc = "trigger" => requested

\* A play that ended without a read error has been heard to its end: the
\* interface is switched off after the last transfer it started.
PlayedOut ==
    pc = "shell" /\ ~failed => ~dmasktrig /\ Len(heard) \in {fptr, fptr - 1}

\* Every play ends, by itself or at the key, unless a transfer is so short that
\* its interrupt comes between the trigger and the assignment of RUN, which then
\* nobody takes back.
PlayEnds == []~early => ((pc # "shell") ~> (pc = "shell"))
=============================================================================

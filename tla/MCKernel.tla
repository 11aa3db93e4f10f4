------------------------------- MODULE MCKernel -------------------------------
(***************************************************************************)
(* The parts with small state spaces, each on its own: a behaviour is one  *)
(* of the scheduler, of the clock, of the audio player, of the EEPROM, of  *)
(* the SD card or of the heap, and leaves the variables of the others      *)
(* alone.                                                                  *)
(*                                                                         *)
(* Three threads of the priority 2 that do_fork and INIT_TASK give; waits  *)
(* over three ticks of the clock; files of up to four pieces, so that each *)
(* buffer is filled twice; an EEPROM of three cells and calls of up to     *)
(* three bytes, so that the addresses wrap and a call has a first, a       *)
(* middle and a last byte; every kind of card, and calls for one and two   *)
(* of its three sectors; the heap of MCKmalloc.                            *)
(***************************************************************************)
EXTENDS Scheduler, Clock, AudioPlayer, I2c, SdCard, MCKmalloc

CONSTANTS t1, t2, t3

MCThread   == {t1, t2, t3}
MCPriority == [t \in MCThread \cup {initTask} |-> 2]

MCTransfers == [write : BOOLEAN, addr : {0, 1}, count : {1, 2}]

VARIABLE part  \* the part that the behaviour is about

allVars == <<part, schedVars, clockVars, audioVars, i2cVars, sdVars, heapVars>>

MCInit ==
    /\ part \in {"scheduler", "clock", "audio", "i2c", "sdcard", "heap"}
    /\ Init /\ ClockInit /\ AudioInit /\ I2cInit /\ SdInit /\ HeapInit
    /\ part # "i2c" => mem = [n \in Cell |-> CHOOSE v \in Value : TRUE]
    /\ part # "sdcard" => card.kind = "absent"

SchedulerOnly ==
    part = "scheduler" /\ UNCHANGED <<part, clockVars, audioVars, i2cVars, sdVars, heapVars>>
ClockOnly ==
    part = "clock" /\ UNCHANGED <<part, schedVars, audioVars, i2cVars, sdVars, heapVars>>
AudioOnly ==
    part = "audio" /\ UNCHANGED <<part, schedVars, clockVars, i2cVars, sdVars, heapVars>>
I2cOnly ==
    part = "i2c" /\ UNCHANGED <<part, schedVars, clockVars, audioVars, sdVars, heapVars>>
SdOnly ==
    part = "sdcard" /\ UNCHANGED <<part, schedVars, clockVars, audioVars, i2cVars, heapVars>>
HeapOnly ==
    part = "heap" /\ UNCHANGED <<part, schedVars, clockVars, audioVars, i2cVars, sdVars>>

MCNext ==
    \/ SchedulerOnly /\ Next
    \/ ClockOnly /\ ClockNext
    \/ AudioOnly /\ AudioNext
    \/ I2cOnly /\ I2cNext
    \/ SdOnly /\ SdNext
    \/ HeapOnly /\ HeapNext

\* The fairness of each part's own specification.  A behaviour has one part, so
\* one condition serves an action of each.
MCSpec ==
    /\ MCInit /\ [][MCNext]_allVars
    /\ WF_allVars(\/ AudioOnly /\ Player
                  \/ I2cOnly /\ Program
                  \/ SdOnly /\ Driver)
    /\ WF_allVars(\/ AudioOnly /\ TransferEnds
                  \/ I2cOnly /\ i2c_interrupt_func
                  \/ SdOnly /\ CardGoesOn)
    /\ WF_allVars(\/ AudioOnly /\ DMA2IntHandle
                  \/ I2cOnly /\ Bus)
===============================================================================

------------------------------ MODULE Interrupts ------------------------------
(***************************************************************************)
(* Interrupt requests: interrupt_desc and request_irq, free_irq, do_irq of *)
(* kernel/interrupt.c over the mask, acknowledge and demultiplexing        *)
(* functions of kernel/irq.c, at the level of single accesses to the       *)
(* registers of the interrupt controller.                                  *)
(*                                                                         *)
(* The program requests and frees lines with interrupts enabled, so a      *)
(* device may raise one and the CPU may take it between any two accesses.  *)
(* The controller latches one request in INTPND, which a mask written      *)
(* later does not take back; until the CPU answers it the program may get  *)
(* MaxSlip accesses further.  An answered request that do_irq leaves in    *)
(* INTPND is taken again before the program's next instruction.            *)
(* In do_irq interrupts are masked, but devices still raise them.          *)
(*                                                                         *)
(* Main lines have a bit in SRCPND and INTMSK.  External lines (EINT8..23; *)
(* EINT4..7 are a second such group) have one in EINTPEND and EINTMASK and *)
(* share a main line, extParent.  Sub lines (INT_TC, INT_ADC) have one in  *)
(* SUBSRCPND and INTSUBMSK and share subParent.                            *)
(***************************************************************************)
EXTENDS Integers, FiniteSets

CONSTANTS Main, Ext, Sub,       \* lines that can be requested
          extParent, subParent, \* IRQ_EINT8t23, IRQ_ADCPARENT
          NoIrq,
          OneShot,  \* lines whose handler frees them: IRQ_TIMER2 of delay_u and
                    \* IRQ_DMA2; the program waits until it has
          Rerequest, \* lines the program requests again without freeing them
          MaxSlip   \* accesses of the program between a latch and its interrupt

Line == Main \cup {extParent, subParent}
Irq == Main \cup Ext \cup Sub

ASSUME InterruptsAssumption ==
    /\ Main \cap Ext = {} /\ Main \cap Sub = {} /\ Ext \cap Sub = {}
    /\ NoIrq \notin Irq \cup Line /\ extParent \notin Irq /\ subParent \notin Irq /\ extParent # subParent
    /\ OneShot \subseteq Main /\ Rerequest \subseteq Irq
    /\ MaxSlip \in Nat

VARIABLES requested,   \* lines whose handler is not dummy_isr
          INTMSK, EINTMASK, INTSUBMSK,  \* masked lines
          SRCPND, EINTPEND, SUBSRCPND,  \* pending lines
          INTPND,      \* the request latched for the CPU, INTOFFSET, or NoIrq
          slip,        \* accesses of the program since; MaxSlip once it is taken
          call, arg,   \* the program in request_irq or free_irq, of which line
          phase, cur,  \* do_irq, and the line whose handle_irq it is in
          todo,        \* the lines a demultiplexer has still to handle
          asserted,    \* an assert(0) was reached: interrupts off, while (1)
          owed,        \* history: raised, requested, and its handler not called
                       \* since; but for the loss between handler and ack
          late         \* history: free_irq has forgotten the handler of a line
                       \* whose request stood in INTPND

masks == <<INTMSK, EINTMASK, INTSUBMSK>>
pends == <<SRCPND, EINTPEND, SUBSRCPND>>
program == <<call, arg>>
cpu == <<phase, cur, todo>>
latch == <<INTPND, slip>>
vars == <<requested, masks, pends, latch, program, cpu, asserted, owed, late>>

-----------------------------------------------------------------------------
\* irq_init gives the sub lines, too, the controller of the external lines.
UsesExtController(i) == i \in Ext \cup Sub

\* 1UL << (irq - EXTINT_OFF): for a sub line the shift leaves no bit.
ExtBit(i) == {i} \cap Ext

Open(i) == CASE i \in Main -> i \notin INTMSK
             [] i \in Ext  -> i \notin EINTMASK /\ extParent \notin INTMSK
             [] i \in Sub  -> i \notin INTSUBMSK /\ subParent \notin INTMSK

\* Mutant: the handler is dropped without the line being masked.
MutFreeFrom == "forget"

\* free_irq masks the line first.
FreeFrom == "mask"

\* Mutant: the parent stays masked.
MutAfterUnmask(extmask) == "none"

\* What follows a write of EINTMASK.
AfterUnmask(extmask) == IF extmask # Ext THEN "unmask_parent" ELSE "none"
AfterMask(extmask) == IF extmask = Ext THEN "mask_parent" ELSE "forget"

\* s3c_irq_ack writes one bit.
Acked(line) == {line}
AckLine == IF UsesExtController(cur) THEN extParent ELSE cur

\* irq_init has run, and enable_irq.
Init ==
    /\ requested = {}
    /\ INTMSK = Line /\ EINTMASK = Ext /\ INTSUBMSK = Sub
    /\ SRCPND = {} /\ EINTPEND = {} /\ SUBSRCPND = {}
    /\ INTPND = NoIrq /\ slip = 0
    /\ call = "none" /\ arg = NoIrq
    /\ phase = "idle" /\ cur = NoIrq /\ todo = {}
    /\ asserted = FALSE
    /\ owed = {} /\ late = FALSE

-----------------------------------------------------------------------------
\* The devices.  External and sub lines reach SRCPND unless masked.
Raise(i) ==
    /\ ~asserted
    /\ EINTPEND' = EINTPEND \cup ({i} \cap Ext)
    /\ SUBSRCPND' = SUBSRCPND \cup ({i} \cap Sub)
    /\ SRCPND' = SRCPND \cup ({i} \cap Main)
                        \cup {p \in {extParent} : i \in Ext \ EINTMASK}
                        \cup {p \in {subParent} : i \in Sub \ INTSUBMSK}
    /\ owed' = IF i \in requested /\ ~(cur = i /\ phase = "ack")
                 THEN owed \cup {i} ELSE owed
    /\ UNCHANGED <<requested, masks, latch, program, cpu, asserted, late>>

\* A pending external line that is not masked keeps its parent pending.
Latch ==
    /\ ~asserted
    /\ EINTPEND \ EINTMASK # {}
    /\ SRCPND' = SRCPND \cup {extParent}
    /\ UNCHANGED <<requested, masks, EINTPEND, SUBSRCPND, latch, program, cpu,
                   asserted, owed, late>>

\* The controller latches one pending line that is not masked.  A CPU that is in
\* do_irq takes it as soon as it returns.
Arbitrate(line) ==
    /\ ~asserted /\ INTPND = NoIrq
    /\ line \in SRCPND \ INTMSK
    /\ INTPND' = line
    /\ slip' = IF phase = "idle" THEN 0 ELSE MaxSlip
    /\ UNCHANGED <<requested, masks, pends, program, cpu, asserted, owed, late>>

-----------------------------------------------------------------------------
\* The program runs between interrupts, and a little way on from a latch.
ProgramRuns ==
    /\ ~asserted /\ phase = "idle"
    /\ INTPND # NoIrq => slip < MaxSlip
    /\ slip' = IF INTPND = NoIrq THEN slip ELSE slip + 1
    /\ UNCHANGED <<pends, INTPND, cpu>>

\* The program makes no call while it waits for a one-shot line.
BeginsCall == ProgramRuns /\ call = "none" /\ requested \cap OneShot = {}

request_irq(i) ==
    /\ BeginsCall
    /\ i \in requested => i \in Rerequest
    /\ IF i \in requested
         THEN /\ asserted' = TRUE
              /\ UNCHANGED <<requested, program>>
         ELSE /\ requested' = requested \cup {i}
              /\ call' = "unmask" /\ arg' = i
              /\ UNCHANGED asserted
    /\ UNCHANGED <<masks, owed, late>>

free_irq(i) ==
    /\ BeginsCall
    /\ i \in requested
    /\ call' = FreeFrom /\ arg' = i
    /\ UNCHANGED <<requested, masks, asserted, owed, late>>

\* s3c_irq_unmask and s3c_irqext_unmask, which then may unmask the parent.
Unmask ==
    /\ ProgramRuns /\ call = "unmask"
    /\ IF UsesExtController(arg)
         THEN /\ EINTMASK' = EINTMASK \ ExtBit(arg)
              /\ call' = AfterUnmask(EINTMASK')
              /\ UNCHANGED INTMSK
         ELSE /\ INTMSK' = INTMSK \ {arg}
              /\ call' = "none"
              /\ UNCHANGED EINTMASK
    /\ UNCHANGED <<requested, INTSUBMSK, arg, asserted, owed, late>>

UnmaskParent ==
    /\ ProgramRuns /\ call = "unmask_parent"
    /\ INTMSK' = INTMSK \ {extParent}
    /\ call' = "none"
    /\ UNCHANGED <<requested, EINTMASK, INTSUBMSK, arg, asserted, owed, late>>

\* s3c_irq_mask and s3c_irqext_mask, which then may mask the parent.
Mask ==
    /\ ProgramRuns /\ call = "mask"
    /\ IF UsesExtController(arg)
         THEN /\ EINTMASK' = EINTMASK \cup ExtBit(arg)
              /\ call' = AfterMask(EINTMASK')
              /\ UNCHANGED INTMSK
         ELSE /\ INTMSK' = INTMSK \cup {arg}
              /\ call' = "forget"
              /\ UNCHANGED EINTMASK
    /\ UNCHANGED <<requested, INTSUBMSK, arg, asserted, owed, late>>

MaskParent ==
    /\ ProgramRuns /\ call = "mask_parent"
    /\ INTMSK' = INTMSK \cup {extParent}
    /\ call' = "forget"
    /\ UNCHANGED <<requested, EINTMASK, INTSUBMSK, arg, asserted, owed, late>>

\* handler = dummy_isr, the end of free_irq.
Forget ==
    /\ ProgramRuns /\ call = "forget"
    /\ requested' = requested \ {arg} /\ owed' = owed \ {arg}
    /\ late' = (late \/ INTPND = arg)
    /\ call' = "none"
    /\ UNCHANGED <<masks, arg, asserted>>

-----------------------------------------------------------------------------
\* do_irq: the line in INTOFFSET, masked meanwhile or not.  The handle_irq of a
\* parent is a demultiplexer.
do_irq(line) ==
    /\ ~asserted /\ phase = "idle"
    /\ INTPND = line
    /\ slip' = MaxSlip
    /\ IF line \in Main
         THEN phase' = "handler" /\ cur' = line /\ todo' = {}
         ELSE /\ phase' = "demux" /\ cur' = NoIrq
              /\ todo' = IF line = extParent THEN EINTPEND \ EINTMASK
                                             ELSE SUBSRCPND \ INTSUBMSK
    /\ UNCHANGED <<requested, masks, pends, INTPND, program, asserted, owed, late>>

\* One turn of a demultiplexer; after the last it returns, without an ack.
Demux ==
    /\ ~asserted /\ phase = "demux"
    /\ \/ /\ todo = {}
          /\ phase' = "idle"
          /\ UNCHANGED <<cur, todo>>
       \/ \E i \in todo :
              /\ phase' = "handler" /\ cur' = i /\ todo' = todo \ {i}
    /\ UNCHANGED <<requested, masks, pends, latch, program, asserted, owed, late>>

\* handle_irq: the handler.  A one-shot handler calls free_irq.
CallHandler ==
    /\ ~asserted /\ phase = "handler"
    /\ IF cur \in requested
         THEN /\ phase' = "ack"
              /\ owed' = owed \ {cur}
              /\ requested' = requested \ ({cur} \cap OneShot)
              /\ INTMSK' = INTMSK \cup ({cur} \cap OneShot)
              /\ UNCHANGED asserted
         ELSE /\ asserted' = TRUE
              /\ UNCHANGED <<phase, owed, requested, INTMSK>>
    /\ UNCHANGED <<EINTMASK, INTSUBMSK, pends, latch, program, cur, todo, late>>

\* s3c_irqext_ack clears the line, and acks the parent, too, when it then reads
\* that no external line is pending any more.
AckExt ==
    /\ ~asserted /\ phase = "ack" /\ UsesExtController(cur)
    /\ EINTPEND' = EINTPEND \ ExtBit(cur)
    /\ phase' = "check"
    /\ UNCHANGED <<requested, masks, SRCPND, SUBSRCPND, latch, program, cur, todo,
                   asserted, owed, late>>

Check ==
    /\ ~asserted /\ phase = "check"
    /\ phase' = IF EINTPEND \ EINTMASK = {} THEN "ack_parent" ELSE "demux"
    /\ UNCHANGED <<requested, masks, pends, latch, program, cur, todo, asserted,
                   owed, late>>

\* s3c_irq_ack writes SRCPND, then INTPND, of the line or of its parent.
AckSource ==
    /\ ~asserted
    /\ phase = "ack_parent" \/ (phase = "ack" /\ ~UsesExtController(cur))
    /\ SRCPND' = SRCPND \ Acked(AckLine)
    /\ phase' = "ack_latch"
    /\ UNCHANGED <<requested, masks, EINTPEND, SUBSRCPND, latch, program, cur, todo,
                   asserted, owed, late>>

AckLatch ==
    /\ ~asserted /\ phase = "ack_latch"
    /\ IF INTPND = AckLine THEN INTPND' = NoIrq /\ slip' = 0
                           ELSE UNCHANGED latch
    /\ phase' = IF UsesExtController(cur) THEN "demux" ELSE "idle"
    /\ UNCHANGED <<requested, masks, pends, program, cur, todo, asserted, owed, late>>

Handling == Demux \/ CallHandler \/ AckExt \/ Check \/ AckSource \/ AckLatch
Calling  == Unmask \/ UnmaskParent \/ Mask \/ MaskParent \/ Forget

Next ==
    \/ \E i \in Irq : Raise(i) \/ request_irq(i) \/ free_irq(i)
    \/ Latch
    \/ Calling
    \/ \E line \in Line : Arbitrate(line) \/ do_irq(line)
    \/ Handling

Spec == Init /\ [][Next]_vars

\* No request is on its way to the CPU.
Quiet == INTPND = NoIrq /\ SRCPND \ INTMSK = {}

\* Devices leave the CPU time: none raises its line for ever while a call is under
\* way, and no external line comes for ever before do_irq is done with the last.
DevicesRest ==
    /\ []<>(call = "none") \/ <>[][\A i \in Irq : ~Raise(i)]_vars
    /\ <>[][\A i \in Ext : Raise(i) => phase = "idle"]_vars

\* The CPU takes what is latched and runs, the controller holds its pending bits,
\* and its arbiter passes over no line for ever.  The program gets on only where
\* no request is pending; it and the devices owe nothing but to finish a call
\* that was begun.
FairSpec ==
    /\ Spec
    /\ WF_vars(Latch) /\ WF_vars(Handling) /\ WF_vars(\E line \in Line : do_irq(line))
    /\ \A line \in Line : SF_vars(Arbitrate(line))
    /\ WF_vars(Quiet /\ Calling) /\ DevicesRest

-----------------------------------------------------------------------------
\* Types of the registers and of what runs.
TypeOK ==
    /\ requested \subseteq Irq /\ owed \subseteq Irq
    /\ INTMSK \subseteq Line /\ EINTMASK \subseteq Ext /\ INTSUBMSK \subseteq Sub
    /\ SRCPND \subseteq Line /\ EINTPEND \subseteq Ext /\ SUBSRCPND \subseteq Sub
    /\ INTPND \in Line \cup {NoIrq} /\ slip \in 0 .. MaxSlip
    /\ call \in {"none", "unmask", "unmask_parent", "mask", "mask_parent", "forget"}
    /\ arg \in Irq \cup {NoIrq} /\ cur \in Irq \cup {NoIrq}
    /\ phase \in {"idle", "demux", "handler", "ack", "check", "ack_parent", "ack_latch"}
    /\ todo \subseteq Irq
    /\ asserted \in BOOLEAN /\ late \in BOOLEAN

\* No assert(0) is reached, neither the one of request_irq nor that of dummy_isr,
\* by a line that is handled while nobody has requested it; but for one case: a
\* request already latched when free_irq masked the line, and not taken before
\* free_irq forgot the handler.
NoAssertFails == asserted => late

\* Between calls, exactly the requested lines have a way to the CPU: the line's
\* own mask bit and that of the line it shares are clear.
RequestedIsOpen == call = "none" => \A i \in Irq : i \in requested <=> Open(i)

\* The demultiplexer of the external lines is entered and finds nothing: it returns
\* without an ack, and is entered again before the program's next instruction.
\* A line masked with its request already at the parent leaves the kernel here.
Storm == phase = "idle" /\ INTPND = extParent /\ EINTPEND \ EINTMASK = {}

\* A request that came before its handler was called, or after its ack, is
\* handled, unless the line is freed, the kernel stops at an assertion or is
\* caught in a storm: nothing acknowledges more than what was handled, nor
\* masks a line for good.
OwedIsHandled == \A i \in Irq : i \in owed ~> i \notin owed \/ asserted \/ Storm
=============================================================================

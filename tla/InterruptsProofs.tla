--------------------------- MODULE InterruptsProofs ---------------------------
(***************************************************************************)
(* Requests and masks of the interrupt lines, for any number of main and   *)
(* external lines, without the sub lines (whose masks are wrong, see the   *)
(* README) and for programs that free a line before they request it again. *)
(* The argument: the program changes a line's own mask and its handler in  *)
(* an order that never leaves a line open without a handler, the shared    *)
(* line is open whenever an external line is, and do_irq, which may find   *)
(* its line masked meanwhile, still finds a handler, unless free_irq ran   *)
(* to its end over a latched request.  That takes two accesses.            *)
(***************************************************************************)
EXTENDS Interrupts, TLAPS

\* The lines whose own mask bit is clear.
Unmasked == (Main \ INTMSK) \cup (Ext \ EINTMASK)

\* Every line that the program is not working on is requested when its own bit
\* is clear, and only then.
OthersMatch == \A i \in Irq : call = "none" \/ i # arg => (i \in requested <=> i \in Unmasked)

\* The line that the program is working on has a handler throughout, and its
\* own bit is as the call has left it.
ArgMatches ==
    /\ call # "none" => arg \in requested
    /\ call \in {"unmask_parent", "mask"} => arg \in Unmasked
    /\ call \in {"unmask", "mask_parent", "forget"} => arg \notin Unmasked
    /\ call \in {"mask", "mask_parent", "forget"} => arg \notin OneShot
    /\ call = "unmask_parent" => arg \in Ext

\* The shared line is open when an external line is, but while a call is about
\* to open it, and may be closed only when none is.
ParentMatches ==
    /\ call # "unmask_parent" /\ EINTMASK # Ext => extParent \notin INTMSK
    /\ call = "mask_parent" => EINTMASK = Ext

\* What do_irq works on: external lines are open, of the main lines only the
\* latched one, and that has a handler but for the excepted case; only its own
\* handler masks a one-shot line.
HandlesLatched ==
    /\ phase = "handler" /\ cur \in Ext => cur \in Unmasked
    /\ phase \in {"handler", "ack", "ack_latch"} /\ cur \in Main => INTPND = cur
    /\ INTPND \in Main =>
          \/ INTPND \in requested \/ late
          \/ phase \in {"ack", "ack_latch"} /\ cur = INTPND
    /\ INTPND \in OneShot =>
          \/ INTPND \in Unmasked
          \/ phase \in {"ack", "ack_latch"} /\ cur = INTPND
    /\ todo \subseteq Ext \ EINTMASK
    /\ phase = "idle" \/ (phase # "demux" /\ cur \in Main) => todo = {}
    /\ phase \in {"handler", "ack", "check", "ack_parent", "ack_latch"} => cur \in Irq
    /\ phase \in {"check", "ack_parent"} => cur \notin Main

\* A latched request whose line is masked has let the program do an access.
SlippedMask == call = "forget" /\ INTPND = arg => slip > 0

IrqInv ==
    /\ TypeOK /\ (asserted => late) /\ (late => MaxSlip > 1)
    /\ OthersMatch /\ ArgMatches /\ ParentMatches /\ HandlesLatched /\ SlippedMask

NormalUse == Sub = {} /\ Rerequest = {}

-----------------------------------------------------------------------------
\* The registers and the history keep their types.
LEMMA TypeStep ==
    ASSUME NormalUse, IrqInv, [Next]_vars
    PROVE  TypeOK'
<1> USE InterruptsAssumption DEF IrqInv, TypeOK, NormalUse, Irq, Line
<1>1. CASE \E i \in Irq : Raise(i)
  BY <1>1 DEF Raise, masks, latch, program, cpu
<1>2. CASE \E i \in Irq : request_irq(i)
  <2>1. PICK i \in Irq : request_irq(i)
    BY <1>2
  <2>2. i \notin requested /\ UNCHANGED asserted
    BY <2>1 DEF request_irq
  <2> QED BY <2>1, <2>2 DEF request_irq, BeginsCall, ProgramRuns, masks, pends, program, cpu
<1>3. CASE \E i \in Irq : free_irq(i)
  BY <1>3 DEF free_irq, FreeFrom, BeginsCall, ProgramRuns, masks, pends, cpu
<1>4. CASE Latch
  BY <1>4 DEF Latch, masks, latch, program, cpu
<1>5. CASE Unmask
  BY <1>5 DEF Unmask, AfterUnmask, ProgramRuns, pends, cpu
<1>6. CASE UnmaskParent
  BY <1>6 DEF UnmaskParent, ProgramRuns, pends, cpu
<1>7. CASE Mask
  BY <1>7 DEF Mask, AfterMask, ExtBit, UsesExtController, ProgramRuns, ArgMatches, pends, cpu
<1>8. CASE MaskParent
  BY <1>8 DEF MaskParent, ProgramRuns, pends, cpu
<1>9. CASE Forget
  BY <1>9 DEF Forget, ProgramRuns, masks, pends, cpu
<1>10. CASE \E line \in Line : do_irq(line)
  BY <1>10 DEF do_irq, masks, pends, program
<1>11. CASE Demux
  BY <1>11 DEF Demux, masks, pends, latch, program
<1>12. CASE CallHandler
  BY <1>12 DEF CallHandler, pends, latch, program
<1>13. CASE AckExt \/ Check
  BY <1>13 DEF AckExt, Check, masks, pends, latch, program
<1>14. CASE AckSource \/ AckLatch
  BY <1>14 DEF AckSource, AckLatch, masks, pends, latch, program
<1>15. CASE \E line \in Line : Arbitrate(line)
  BY <1>15 DEF Arbitrate, masks, pends, program, cpu
<1>16. CASE UNCHANGED vars
  BY <1>16 DEF vars, masks, pends, latch, program, cpu
<1> QED
  BY <1>1, <1>2, <1>3, <1>4, <1>5, <1>6, <1>7, <1>8, <1>9, <1>10, <1>11, <1>12, <1>13, <1>14,
     <1>15, <1>16
  DEF Next, Calling, Handling

\* Masks, calls and handlers that nothing touches still match.
LEMMA LinesKeep ==
    ASSUME IrqInv, UNCHANGED <<requested, masks, program>>
    PROVE  (OthersMatch /\ ArgMatches /\ ParentMatches)'
BY DEF IrqInv, OthersMatch, ArgMatches, ParentMatches, Unmasked, masks, program

\* Steps of the devices and the controller touch neither masks nor handlers, and
\* what the controller latches is open.
LEMMA DevicesKeep ==
    ASSUME IrqInv,
           UNCHANGED <<requested, masks, program, cpu, late>>,
           \/ UNCHANGED latch
           \/ \E line \in Line : Arbitrate(line)
    PROVE  (OthersMatch /\ ArgMatches /\ ParentMatches /\ HandlesLatched /\ SlippedMask)'
<1> USE InterruptsAssumption DEF IrqInv, Irq, Line
<1>1. (OthersMatch /\ ArgMatches /\ ParentMatches)' /\ UNCHANGED Unmasked
  BY LinesKeep DEF Unmasked, masks
<1>2. CASE UNCHANGED latch
  BY <1>1, <1>2 DEF HandlesLatched, SlippedMask, latch, masks, program, cpu
<1>3. CASE \E line \in Line : Arbitrate(line)
  <2>1. PICK line \in Line : Arbitrate(line)
    BY <1>3
  <2>2. INTPND = NoIrq /\ INTPND' = line /\ line \notin INTMSK
    BY <2>1 DEF Arbitrate
  <2>3. line \in Main => line \in Unmasked
    BY <2>2 DEF Unmasked
  <2>4. line \in Main => line \in requested
    BY <2>3 DEF OthersMatch, ArgMatches
  <2>5. HandlesLatched'
    BY <1>1, <2>2, <2>3, <2>4 DEF HandlesLatched, masks, cpu
  <2>6. SlippedMask'
    BY <2>2, <2>3 DEF SlippedMask, ArgMatches, program, TypeOK
  <2> QED BY <1>1, <2>5, <2>6
<1> QED BY <1>2, <1>3

\* An access of the program leaves do_irq's part alone, as long as it takes no
\* handler from a latched request but in the excepted case.
LEMMA SlipKeeps ==
    ASSUME IrqInv, ProgramRuns,
           INTPND \in requested => INTPND \in requested' \/ late',
           INTPND \in OneShot \cap Unmasked => INTPND \in Unmasked',
           late => late'
    PROVE  HandlesLatched'
BY InterruptsAssumption
DEF IrqInv, ProgramRuns, HandlesLatched, Unmasked, Irq, cpu

\* How far the calls go past a latched request.
LEMMA CallsSlip ==
    ASSUME NormalUse, IrqInv,
           \/ \E i \in Irq : request_irq(i) \/ free_irq(i)
           \/ Calling
    PROVE  (HandlesLatched /\ SlippedMask /\ (asserted => late) /\ (late => MaxSlip > 1))'
<1> USE InterruptsAssumption DEF NormalUse
<1>1. ProgramRuns /\ ~asserted /\ INTPND' = INTPND
  BY DEF request_irq, free_irq, BeginsCall, Calling, Unmask, UnmaskParent, Mask, MaskParent,
         Forget, ProgramRuns
<1>2. slip \in Nat /\ (INTPND # NoIrq => slip < MaxSlip /\ slip' = slip + 1)
  BY <1>1 DEF ProgramRuns, IrqInv, TypeOK
<1>3. CASE \E i \in Irq : request_irq(i) \/ free_irq(i)
  <2>1. /\ ~asserted' /\ late' = late /\ requested \subseteq requested' /\ call' # "forget"
        /\ UNCHANGED Unmasked
    BY <1>1, <1>3 DEF request_irq, free_irq, FreeFrom, Unmasked, masks
  <2> QED BY <1>1, <2>1, SlipKeeps DEF SlippedMask, IrqInv
<1>4. CASE Unmask \/ UnmaskParent
  <2>1. /\ ~asserted' /\ late' = late /\ requested' = requested /\ call' # "forget"
        /\ Unmasked \subseteq Unmasked'
    BY <1>1, <1>4 DEF Unmask, UnmaskParent, AfterUnmask, Unmasked
  <2> QED BY <1>1, <2>1, SlipKeeps DEF SlippedMask, IrqInv
<1>5. CASE Mask \/ MaskParent
  <2>1. ~asserted' /\ late' = late /\ requested' = requested /\ arg' = arg
    BY <1>1, <1>5 DEF Mask, MaskParent
  <2>2. arg \in Irq
    BY <1>5 DEF IrqInv, ArgMatches, TypeOK, Mask, MaskParent
  <2>3. SlippedMask'
    BY <1>1, <1>2, <2>1, <2>2 DEF SlippedMask
  <2>4. arg \notin OneShot \/ call = "mask_parent"
    BY <1>5 DEF IrqInv, ArgMatches, Mask, MaskParent
  <2>5. INTPND \in OneShot \cap Unmasked => INTPND \in Unmasked'
    BY <1>5, <2>4, InterruptsAssumption
    DEF Mask, MaskParent, Unmasked, ExtBit, Line, Irq, UsesExtController
  <2> QED BY <1>1, <2>1, <2>3, <2>5, SlipKeeps DEF IrqInv
<1>6. CASE Forget
  <2>1. /\ ~asserted' /\ late' = (late \/ INTPND = arg) /\ requested' = requested \ {arg}
        /\ call = "forget" /\ call' = "none" /\ UNCHANGED Unmasked
    BY <1>1, <1>6 DEF Forget, Unmasked, masks
  <2>2. arg \in Irq
    BY <2>1 DEF IrqInv, ArgMatches, TypeOK
  <2>3. INTPND = arg => MaxSlip > 1
    BY <1>2, <2>1, <2>2 DEF IrqInv, SlippedMask
  <2>4. late' => MaxSlip > 1
    BY <2>1, <2>3 DEF IrqInv
  <2> QED BY <1>1, <2>1, <2>4, SlipKeeps DEF SlippedMask
<1> QED BY <1>3, <1>4, <1>5, <1>6 DEF Calling

\* The program's calls keep masks and handlers matched.
LEMMA CallsKeep ==
    ASSUME NormalUse, IrqInv,
           \/ \E i \in Irq : request_irq(i) \/ free_irq(i)
           \/ Calling
    PROVE  (OthersMatch /\ ArgMatches /\ ParentMatches)'
<1> USE InterruptsAssumption DEF IrqInv, NormalUse, TypeOK, Irq, Line, ProgramRuns, BeginsCall, cpu
<1>1. CASE \E i \in Irq : request_irq(i)
  <2>1. PICK i \in Irq : request_irq(i)
    BY <1>1
  <2>2. /\ i \notin requested /\ call = "none" /\ phase = "idle"
        /\ requested' = requested \cup {i} /\ call' = "unmask" /\ arg' = i
        /\ UNCHANGED <<masks, cpu, asserted>>
    BY <2>1 DEF request_irq
  <2>3. UNCHANGED Unmasked
    BY <2>2 DEF masks, Unmasked
  <2>4. (OthersMatch /\ ArgMatches)'
    BY <2>2, <2>3 DEF OthersMatch, ArgMatches
  <2>5. ParentMatches'
    BY <2>2, <2>3 DEF ParentMatches, masks
  <2> QED BY <2>2, <2>4, <2>5
<1>2. CASE \E i \in Irq : free_irq(i)
  <2>1. PICK i \in Irq : free_irq(i)
    BY <1>2
  <2>2. /\ i \in requested /\ i \notin OneShot /\ call = "none" /\ phase = "idle"
        /\ call' = "mask" /\ arg' = i
        /\ UNCHANGED <<requested, masks, cpu, asserted>>
    BY <2>1 DEF free_irq, FreeFrom
  <2>3. UNCHANGED Unmasked
    BY <2>2 DEF masks, Unmasked
  <2>4. (OthersMatch /\ ArgMatches)'
    BY <2>2, <2>3 DEF OthersMatch, ArgMatches
  <2>5. ParentMatches'
    BY <2>2, <2>3 DEF ParentMatches, masks
  <2> QED BY <2>2, <2>4, <2>5
<1>3. CASE Unmask
  <2>1. /\ call = "unmask" /\ phase = "idle" /\ arg \in requested \ Unmasked
        /\ UNCHANGED <<requested, arg, cpu, asserted>>
    BY <1>3 DEF Unmask, ArgMatches
  <2>2. CASE arg \in Ext
    <3>1. EINTMASK' = EINTMASK \ {arg} /\ INTMSK' = INTMSK /\ call' = "unmask_parent"
      BY <1>3, <2>1, <2>2 DEF Unmask, UsesExtController, ExtBit, AfterUnmask
    <3>2. Unmasked' = Unmasked \cup {arg}
      BY <2>2, <3>1 DEF Unmasked
    <3>3. (OthersMatch /\ ArgMatches)'
      BY <2>1, <2>2, <3>1, <3>2 DEF OthersMatch, ArgMatches
    <3>4. ParentMatches'
      BY <2>1, <3>1, <3>2 DEF ParentMatches
    <3> QED BY <2>1, <3>3, <3>4
  <2>3. CASE arg \in Main
    <3>1. EINTMASK' = EINTMASK /\ INTMSK' = INTMSK \ {arg} /\ call' = "none"
      BY <1>3, <2>3 DEF Unmask, UsesExtController
    <3>2. Unmasked' = Unmasked \cup {arg}
      BY <2>3, <3>1 DEF Unmasked
    <3>3. (OthersMatch /\ ArgMatches)'
      BY <2>1, <3>1, <3>2 DEF OthersMatch, ArgMatches
    <3>4. ParentMatches'
      BY <2>1, <3>1, <3>2 DEF ParentMatches
    <3> QED BY <2>1, <3>3, <3>4
  <2> QED BY <2>1, <2>2, <2>3
<1>4. CASE UnmaskParent
  <2>1. /\ call = "unmask_parent" /\ phase = "idle" /\ call' = "none"
        /\ INTMSK' = INTMSK \ {extParent}
        /\ UNCHANGED <<requested, EINTMASK, arg, cpu, asserted>>
    BY <1>4 DEF UnmaskParent
  <2>2. UNCHANGED Unmasked
    BY <2>1 DEF Unmasked
  <2>3. (OthersMatch /\ ArgMatches)'
    BY <2>1, <2>2 DEF OthersMatch, ArgMatches
  <2>4. ParentMatches'
    BY <2>1, <2>2 DEF ParentMatches
  <2> QED BY <2>1, <2>3, <2>4
<1>5. CASE Mask
  <2>1. /\ call = "mask" /\ phase = "idle" /\ arg \in requested \cap Unmasked
        /\ arg \notin OneShot
        /\ UNCHANGED <<requested, arg, cpu, asserted>>
    BY <1>5 DEF Mask, ArgMatches
  <2>2. CASE arg \in Ext
    <3>1. /\ EINTMASK' = EINTMASK \cup {arg} /\ INTMSK' = INTMSK
          /\ call' = (IF EINTMASK' = Ext THEN "mask_parent" ELSE "forget")
      BY <1>5, <2>2 DEF Mask, UsesExtController, ExtBit, AfterMask
    <3>2. Unmasked' = Unmasked \ {arg}
      BY <2>2, <3>1 DEF Unmasked
    <3>3. EINTMASK # Ext
      BY <2>1, <2>2 DEF Unmasked
    <3>4. (OthersMatch /\ ArgMatches)'
      BY <2>1, <3>1, <3>2 DEF OthersMatch, ArgMatches
    <3>5. ParentMatches'
      BY <2>1, <3>1, <3>3 DEF ParentMatches
    <3> QED BY <2>1, <3>4, <3>5
  <2>3. CASE arg \in Main
    <3>1. EINTMASK' = EINTMASK /\ INTMSK' = INTMSK \cup {arg} /\ call' = "forget"
      BY <1>5, <2>3 DEF Mask, UsesExtController
    <3>2. Unmasked' = Unmasked \ {arg}
      BY <2>3, <3>1 DEF Unmasked
    <3>3. (OthersMatch /\ ArgMatches)'
      BY <2>1, <3>1, <3>2 DEF OthersMatch, ArgMatches
    <3>4. ParentMatches'
      BY <2>1, <2>3, <3>1 DEF ParentMatches
    <3> QED BY <2>1, <3>3, <3>4
  <2> QED BY <2>1, <2>2, <2>3
<1>6. CASE MaskParent
  <2>1. /\ call = "mask_parent" /\ phase = "idle" /\ call' = "forget"
        /\ INTMSK' = INTMSK \cup {extParent}
        /\ UNCHANGED <<requested, EINTMASK, arg, cpu, asserted>>
    BY <1>6 DEF MaskParent
  <2>2. UNCHANGED Unmasked
    BY <2>1 DEF Unmasked
  <2>3. (OthersMatch /\ ArgMatches)'
    BY <2>1, <2>2 DEF OthersMatch, ArgMatches
  <2>4. ParentMatches'
    BY <2>1, <2>2 DEF ParentMatches
  <2> QED BY <2>1, <2>3, <2>4
<1>7. CASE Forget
  <2>1. /\ call = "forget" /\ phase = "idle" /\ call' = "none"
        /\ requested' = requested \ {arg}
        /\ UNCHANGED <<masks, arg, cpu, asserted>>
    BY <1>7 DEF Forget
  <2>2. UNCHANGED Unmasked
    BY <2>1 DEF Unmasked, masks
  <2>3. (OthersMatch /\ ArgMatches)'
    BY <2>1, <2>2 DEF OthersMatch, ArgMatches
  <2>4. ParentMatches'
    BY <2>1, <2>2 DEF ParentMatches, masks
  <2> QED BY <2>1, <2>3, <2>4
<1> QED BY <1>1, <1>2, <1>3, <1>4, <1>5, <1>6, <1>7 DEF Calling

\* do_irq, whose handlers free at most their own one-shot line.
LEMMA HandlingKeeps ==
    ASSUME NormalUse, IrqInv,
           Handling \/ \E line \in Line : do_irq(line)
    PROVE  (/\ asserted => late
            /\ OthersMatch /\ ArgMatches /\ ParentMatches /\ HandlesLatched /\ SlippedMask)'
<1> USE InterruptsAssumption DEF IrqInv, NormalUse, TypeOK, Irq, Line
<1>1. CASE \E line \in Line : do_irq(line)
  <2>1. PICK line \in Line : do_irq(line)
    BY <1>1
  <2>2. UNCHANGED <<requested, masks, program, INTPND, asserted, late, Unmasked>>
    BY <2>1 DEF do_irq, Unmasked, masks
  <2>3. (OthersMatch /\ ArgMatches /\ ParentMatches)'
    BY <2>2, LinesKeep
  <2>4. HandlesLatched'
    BY <2>1, <2>2 DEF do_irq, HandlesLatched, Unmasked, masks
  <2>5. SlippedMask'
    BY <2>1, <2>2 DEF do_irq, SlippedMask, program
  <2> QED BY <2>2, <2>3, <2>4, <2>5
<1>2. CASE Demux
  <2>1. UNCHANGED <<requested, masks, program, latch, asserted, late, Unmasked>>
    BY <1>2 DEF Demux, Unmasked, masks
  <2>2. (OthersMatch /\ ArgMatches /\ ParentMatches)'
    BY <2>1, LinesKeep
  <2>3. HandlesLatched'
    BY <1>2, <2>1 DEF Demux, HandlesLatched, Unmasked, masks, latch
  <2>4. SlippedMask'
    BY <2>1 DEF SlippedMask, program, latch
  <2> QED BY <2>1, <2>2, <2>3, <2>4
<1>3. CASE CallHandler /\ cur \in requested
  <2>1. cur \in Irq /\ phase = "handler"
    BY <1>3 DEF CallHandler, HandlesLatched
  <2>2. /\ phase' = "ack"
        /\ requested' = requested \ ({cur} \cap OneShot)
        /\ INTMSK' = INTMSK \cup ({cur} \cap OneShot)
        /\ UNCHANGED <<EINTMASK, program, latch, cur, todo, asserted, late>>
    BY <1>3, <2>1 DEF CallHandler
  <2>3. Unmasked' = Unmasked \ ({cur} \cap OneShot)
    BY <2>2 DEF Unmasked
  <2>4. cur \in OneShot /\ call # "none" => cur # arg
    BY <2>1 DEF ArgMatches, HandlesLatched
  <2>5. UNCHANGED <<call, arg, INTPND, slip>>
    BY <2>2 DEF program, latch
  <2>6. OthersMatch'
    BY <2>1, <2>2, <2>3, <2>5 DEF OthersMatch
  <2>7. ArgMatches'
    BY <2>2, <2>3, <2>4, <2>5 DEF ArgMatches
  <2>8. ParentMatches'
    BY <2>1, <2>2, <2>5 DEF ParentMatches
  <2>9. HandlesLatched'
    BY <2>1, <2>2, <2>3, <2>5 DEF HandlesLatched
  <2>10. SlippedMask'
    BY <2>5 DEF SlippedMask
  <2> QED BY <2>2, <2>6, <2>7, <2>8, <2>9, <2>10
<1>4. CASE CallHandler /\ cur \notin requested
  <2>1. UNCHANGED <<requested, masks, program, latch, cpu, late>> /\ phase = "handler"
    BY <1>4 DEF CallHandler, masks, cpu
  <2>2. cur \notin Ext
    BY <1>4, <2>1 DEF HandlesLatched, OthersMatch, ArgMatches
  <2>3. late
    BY <1>4, <2>1, <2>2 DEF HandlesLatched
  <2> QED BY <2>1, <2>3, DevicesKeep
<1>5. CASE AckExt \/ Check \/ AckSource
  <2>1. UNCHANGED <<requested, masks, program, latch, asserted, late, cur, todo, Unmasked>>
    BY <1>5 DEF AckExt, Check, AckSource, Unmasked, masks
  <2>2. (OthersMatch /\ ArgMatches /\ ParentMatches)'
    BY <2>1, LinesKeep
  <2>3. /\ phase \in {"ack", "check", "ack_parent"}
        /\ phase' \in {"check", "ack_parent", "demux", "ack_latch"}
        /\ phase' = "ack_latch" \/ cur \notin Main
    BY <1>5 DEF AckExt, Check, AckSource, UsesExtController, HandlesLatched
  <2>4. HandlesLatched'
    BY <2>1, <2>3 DEF HandlesLatched, masks, latch
  <2>5. SlippedMask'
    BY <2>1 DEF SlippedMask, program, latch
  <2> QED BY <2>1, <2>2, <2>4, <2>5
<1>6. CASE AckLatch
  <2>1. UNCHANGED <<requested, masks, program, asserted, late, cur, todo, Unmasked>>
    BY <1>6 DEF AckLatch, Unmasked, masks
  <2>2. (OthersMatch /\ ArgMatches /\ ParentMatches)'
    BY <2>1, LinesKeep
  <2>3. /\ phase = "ack_latch" /\ cur \in Irq
        /\ cur \in Main => phase' = "idle" /\ INTPND' = NoIrq
        /\ cur \notin Main => phase' = "demux"
        /\ INTPND' = NoIrq \/ UNCHANGED latch
    BY <1>6 DEF AckLatch, AckLine, UsesExtController, HandlesLatched
  <2>4. HandlesLatched'
    BY <2>1, <2>3 DEF HandlesLatched, masks, latch
  <2>5. SlippedMask'
    BY <2>1, <2>3 DEF SlippedMask, program, latch, ArgMatches
  <2> QED BY <2>1, <2>2, <2>4, <2>5
<1> QED BY <1>1, <1>2, <1>3, <1>4, <1>5, <1>6 DEF Handling

LEMMA IrqInit == NormalUse /\ Init => IrqInv
<1> SUFFICES ASSUME NormalUse, Init PROVE IrqInv
  OBVIOUS
<1> USE InterruptsAssumption DEF NormalUse, Init, Irq, Line, Unmasked
<1>1. slip \in 0 .. MaxSlip /\ ~asserted /\ ~late
  OBVIOUS
<1>2. TypeOK
  BY <1>1 DEF TypeOK
<1>3. OthersMatch /\ ArgMatches /\ ParentMatches
  BY DEF OthersMatch, ArgMatches, ParentMatches
<1>4. HandlesLatched /\ SlippedMask
  BY DEF HandlesLatched, SlippedMask
<1> QED BY <1>1, <1>2, <1>3, <1>4 DEF IrqInv

\* Every step, of the devices, the program or do_irq, keeps the invariant.
LEMMA IrqStep == NormalUse /\ IrqInv /\ [Next]_vars => IrqInv'
<1> SUFFICES ASSUME NormalUse, IrqInv, [Next]_vars PROVE IrqInv'
  OBVIOUS
<1>1. TypeOK'
  BY TypeStep
<1>2. CASE \/ (\E i \in Irq : Raise(i)) \/ Latch \/ UNCHANGED vars
           \/ \E line \in Line : Arbitrate(line)
  <2>1. /\ UNCHANGED <<requested, masks, program, cpu, asserted, late>>
        /\ UNCHANGED latch \/ \E line \in Line : Arbitrate(line)
    BY <1>2 DEF Raise, Latch, Arbitrate, vars
  <2> QED BY <1>1, <2>1, DevicesKeep DEF IrqInv
<1>3. CASE (\E i \in Irq : request_irq(i) \/ free_irq(i)) \/ Calling
  BY <1>1, <1>3, CallsKeep, CallsSlip DEF IrqInv
<1>4. CASE Handling \/ \E line \in Line : do_irq(line)
  <2>1. late' = late
    BY <1>4 DEF Handling, Demux, CallHandler, AckExt, Check, AckSource, AckLatch, do_irq
  <2> QED BY <1>1, <1>4, <2>1, HandlingKeeps DEF IrqInv
<1> QED BY <1>2, <1>3, <1>4 DEF Next

-----------------------------------------------------------------------------
\* The inductive invariant of the interrupt lines.
THEOREM IrqInvariant == ASSUME NormalUse PROVE Spec => []IrqInv
<1>1. Init => IrqInv
  BY IrqInit
<1>2. IrqInv /\ [Next]_vars => IrqInv'
  BY IrqStep
<1> QED BY <1>1, <1>2, PTL DEF Spec

\* Wherever an interrupt falls, no line is handled that nobody has requested, but
\* one that was latched before free_irq masked it and taken after free_irq forgot
\* its handler; and none is requested twice.
THEOREM NoAssertionFails == ASSUME NormalUse PROVE Spec => []NoAssertFails
<1>1. IrqInv => NoAssertFails
  BY DEF IrqInv, NoAssertFails
<1> QED BY <1>1, IrqInvariant, PTL

\* On a CPU that answers a latched request before the program's second access, the
\* excepted case does not arise: the order of free_irq, mask first, is enough.
THEOREM PromptCpuNeverFails == ASSUME NormalUse, MaxSlip \leq 1 PROVE Spec => []~asserted
<1>1. IrqInv => ~asserted
  BY InterruptsAssumption DEF IrqInv
<1> QED BY <1>1, IrqInvariant, PTL

\* Between calls exactly the requested lines have a way to the CPU, for any
\* number of external lines on the shared one.
THEOREM RequestedStayOpen == ASSUME NormalUse PROVE Spec => []RequestedIsOpen
<1>1. ASSUME IrqInv PROVE RequestedIsOpen
  <2> SUFFICES ASSUME call = "none", NEW i \in Irq PROVE i \in requested <=> Open(i)
    BY DEF RequestedIsOpen
  <2>1. i \in requested <=> i \in Unmasked
    BY <1>1 DEF IrqInv, OthersMatch
  <2>2. CASE i \in Main
    BY <2>1, <2>2, InterruptsAssumption DEF Open, Unmasked
  <2>3. CASE i \in Ext
    <3>1. i \notin EINTMASK => extParent \notin INTMSK
      BY <1>1, <2>3 DEF IrqInv, ParentMatches
    <3>2. i \notin Main /\ i \notin Sub
      BY <2>3, InterruptsAssumption
    <3> QED BY <2>1, <2>3, <3>1, <3>2 DEF Open, Unmasked
  <2> QED BY <2>2, <2>3 DEF NormalUse, Irq
<1>2. IrqInv => RequestedIsOpen
  BY <1>1
<1> QED BY <1>2, IrqInvariant, PTL
=============================================================================

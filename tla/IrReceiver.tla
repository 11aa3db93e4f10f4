----------------------------- MODULE IrReceiver ------------------------------
(***************************************************************************)
(* The infrared receiver of drivers/sensors/irda: irda_irq, run at both    *)
(* edges of the signal, puts the pulse that has just ended into the ring   *)
(* of circle_buffer.c, and irda_nec_read takes pulses out and decodes the  *)
(* NEC protocol.  The ring's indices are shared without a lock: g_w is the *)
(* interrupt's, g_r is the program's.                                      *)
(*                                                                         *)
(* A pulse is its polarity and duration as irda_nec_read tells them apart; *)
(* a byte of the protocol is one bit long.  The remote control is          *)
(* external: when the receiver is switched on it may be anywhere within a  *)
(* frame, which is then missed.  The clock that measures the pulses may be  *)
(* a tick wrong, as module Clock shows.                                    *)
(***************************************************************************)
EXTENDS Integers, SequencesExt

CONSTANTS N,          \* slots of the ring (1024)
          Frames,     \* the frames the remote control may send
          MaxFrames,  \* bound on the frames sent
          Timeouts,   \* TRUE: ir_event_get_timeout may give up at any time
          Misreadings \* TRUE: the clock may be read wrong, once

\* Address, its complement, data and its complement.  Not all remote controls
\* send the address's complement; the empty frame is the repeat code.
Bit == {0, 1}
NBits == 4
Frame == {f \in [1..NBits -> Bit] : f[4] = 1 - f[3]} \cup {<<>>}

ASSUME IrAssumption ==
    /\ N \in Nat \ {0, 1}
    /\ Frames \subseteq Frame
    /\ MaxFrames \in Nat
    /\ Timeouts \in BOOLEAN /\ Misreadings \in BOOLEAN

VARIABLES g_events, g_r, g_w,
          reading,     \* an event is copied but g_r not yet advanced
          event,       \* the copy
          k, val,      \* irda_nec_read: pulses accepted, bits decoded
          signal,      \* the pulses the remote control has yet to send
          sent,        \* history: the frames it began to send
          reported,    \* history: what irda_nec_read has returned
          dropped,     \* history: an event came when the ring was full
          misread,     \* history: the clock was read wrong at an edge
          gaveUp       \* history: a wait for an event timed out

ringVars == <<g_events, g_r, g_w>>
necVars  == <<reading, event, k, val, reported, gaveUp>>
irVars   == <<ringVars, necVars, signal, sent, dropped, misread>>

\* The 9 ms pulse, the 4.5 ms and 2.25 ms gaps, the 0.56 ms pulse of a bit and
\* of the end, the gap after a bit's pulse, and the silence between frames.
Pulse == {"head", "start", "repeat", "low", "zero", "one", "silence"}

Gap(b) == IF b = 1 THEN "one" ELSE "zero"

\* The pulses of a frame.
Pulses(f) ==
    IF f = <<>> THEN <<"head", "repeat", "low", "silence">>
    ELSE <<"head", "start">>
         \o [i \in 1..2 * NBits |-> IF i % 2 = 1 THEN "low" ELSE Gap(f[i \div 2])]
         \o <<"low", "silence">>

-----------------------------------------------------------------------------
\* The ring.

\* Mutant: the ring is filled to its last slot.
MutFull == FALSE

\* i & 0x3FF, of an index that has passed the end at most once.
Wrap(i) == IF i >= N THEN i - N ELSE i

NextPlace(i) == Wrap(i + 1)
Empty        == g_r = g_w
Full         == NextPlace(g_w) = g_r
Oldest       == g_events[g_r]

\* ir_event_put: called by the interrupt handler only.
ir_event_put(e) ==
    IF Full
    THEN dropped' = TRUE /\ UNCHANGED ringVars
    ELSE /\ g_events' = [g_events EXCEPT ![g_w] = e]
         /\ g_w' = NextPlace(g_w)
         /\ UNCHANGED <<g_r, dropped>>

-----------------------------------------------------------------------------
\* irda_nec_read after k accepted pulses.  0 is the test for the 9 ms pulse,
\* -1 the end of a repeat code.

\* Mutants: the repeat code is not known; the two bits are swapped.
MutExpected(n, p) ==
    \/ n = 0 /\ p = "head"
    \/ n = 1 /\ p = "start"
    \/ n \in 2..(2 + 2 * NBits) /\ n % 2 = 0 /\ p = "low"
    \/ n \in 2..(1 + 2 * NBits) /\ n % 2 = 1 /\ p \in {"zero", "one"}
MutBitOf(p) == IF p = "zero" THEN 1 ELSE 0

BitOf(p) == IF p = "one" THEN 1 ELSE 0

\* The pulse that irda_nec_read accepts after n others.
Expected(n, p) ==
    \/ n = 0 /\ p = "head"
    \/ n = 1 /\ p \in {"start", "repeat"}
    \/ n = -1 /\ p = "low"
    \/ n \in 2..(2 + 2 * NBits) /\ n % 2 = 0 /\ p = "low"
    \/ n \in 2..(1 + 2 * NBits) /\ n % 2 = 1 /\ p \in {"zero", "one"}

\* byte[2] == ~byte[3]; the address's complement is not tested.
Valid(v) == v[3] # v[4]

\* What the decoder does with pulse p: it returns, with or without a frame, or
\* goes on to the next.
Decode(p) ==
    LET more == Expected(k, p) /\ k \notin {-1, 2 + 2 * NBits}
    IN  /\ k' = IF ~more THEN 0 ELSE IF p = "repeat" THEN -1 ELSE k + 1
        /\ val' = IF ~more THEN <<>>
                  ELSE IF k >= 2 /\ k % 2 = 1 THEN Append(val, BitOf(p))
                  ELSE val
        /\ reported' = IF ~Expected(k, p) THEN reported
                       ELSE IF k = -1 THEN Append(reported, <<>>)
                       ELSE IF k = 2 + 2 * NBits /\ Valid(val)
                       THEN Append(reported, <<val[1], val[3]>>)
                       ELSE reported

-----------------------------------------------------------------------------
IrInit ==
    /\ g_events = [i \in 0..(N - 1) |-> "silence"]
    /\ g_r = 0 /\ g_w = 0
    /\ reading = FALSE /\ event = "silence"
    /\ k = 0 /\ val = <<>>
    /\ \E f \in Frames : \E i \in 2..Len(Pulses(f)) :
           signal = SubSeq(Pulses(f), i, Len(Pulses(f)))
    /\ sent = <<>> /\ reported = <<>>
    /\ dropped = FALSE /\ misread = FALSE /\ gaveUp = FALSE

\* The user presses a key of the remote control.
Press(f) ==
    /\ signal = <<>>
    /\ Len(sent) < MaxFrames
    /\ signal' = Pulses(f)
    /\ sent' = Append(sent, f)
    /\ UNCHANGED <<ringVars, necVars, dropped, misread>>

\* A pulse ends and the interrupt handler records it.  When it reads the clock
\* wrong the pulse has an impossible duration, and so has the next one.
irda_irq ==
    /\ signal # <<>>
    /\ \/ ir_event_put(Head(signal)) /\ signal' = Tail(signal) /\ UNCHANGED misread
       \/ /\ Misreadings /\ ~misread /\ Len(signal) > 1
          /\ misread' = TRUE
          /\ ir_event_put("silence")
          /\ signal' = <<"silence">> \o SubSeq(signal, 3, Len(signal))
    /\ UNCHANGED <<necVars, sent>>

\* ir_event_get and ir_event_get_timeout: the test and the copy, then g_r.
CopyEvent ==
    /\ ~reading
    /\ ~Empty
    /\ event' = Oldest
    /\ reading' = TRUE
    /\ UNCHANGED <<ringVars, k, val, reported, gaveUp, signal, sent, dropped, misread>>

TakeEvent ==
    /\ reading
    /\ g_r' = NextPlace(g_r)
    /\ reading' = FALSE
    /\ Decode(event)
    /\ UNCHANGED <<g_events, g_w, event, gaveUp, signal, sent, dropped, misread>>

\* ir_event_get_timeout gives up; the rest of the frame will be garbage.
GiveUp ==
    /\ Timeouts
    /\ ~reading
    /\ k # 0
    /\ k' = 0 /\ val' = <<>>
    /\ gaveUp' = TRUE
    /\ UNCHANGED <<ringVars, reading, event, reported, signal, sent, dropped, misread>>

IrNext == (\E f \in Frames : Press(f)) \/ irda_irq \/ CopyEvent \/ TakeEvent \/ GiveUp

IrSpec == IrInit /\ [][IrNext]_irVars

-----------------------------------------------------------------------------
\* The events between the two indices, oldest first.
Filled  == IF g_r <= g_w THEN g_w - g_r ELSE g_w + N - g_r
Content == [i \in 1..Filled |-> g_events[Wrap(g_r + i - 1)]]

Queue == INSTANCE EventQueue WITH queue <- Content, Event <- Pulse, Limit <- N - 1

\* The ring is a queue of N - 1 events, whatever the interleaving of the
\* interrupt with the two steps of a read.
ImplementsQueue == Queue!QueueSpec

SentPairs == {IF f = <<>> THEN <<>> ELSE <<f[1], f[3]>> : f \in Range(sent)}

\* Without an overflow, every address and data reported together were sent
\* together, although frames are cut short by timeouts, by misread pulses and by
\* the receiver's being switched on in the middle of one.
ReportedWasSent == ~dropped => Range(reported) \subseteq SentPairs

\* Nothing is missed without a cause: if no event was dropped, no wait timed
\* out and the clock was right then, once the ring is drained, each frame sent
\* has been reported, once and in order.
AllReported ==
    ~dropped /\ ~gaveUp /\ ~misread /\ signal = <<>> /\ Empty =>
        reported = [i \in 1..Len(sent) |->
                       IF sent[i] = <<>> THEN <<>> ELSE <<sent[i][1], sent[i][3]>>]
=============================================================================

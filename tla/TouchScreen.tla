------------------------------ MODULE TouchScreen ------------------------------
(***************************************************************************)
(* The touch screen driver of drivers/touch_screen.c, a client of the      *)
(* kernel timers (module Timers): its two interrupt handlers, its timer    *)
(* function, and the program that reads the reports they leave.            *)
(*                                                                         *)
(* The stylus, the A/D converter and the interrupt controller act on their *)
(* own.  A handler runs with interrupts masked, so it is one step; the     *)
(* program's reading is interrupted anywhere.  The behaviour starts as     *)
(* init_Ts returns, long after timer_init's own test timer fired.          *)
(***************************************************************************)
EXTENDS Timers

CONSTANTS ts,       \* ts_timer, the one timer there is
          Delay,    \* the ticks init_Ts gives to init_timer: 10 in the code
          NSamples, \* conversions averaged into one report: 16 in the code
          Point     \* coordinates of the screen

ASSUME TouchScreenAssumption ==
    /\ Timer = {ts}
    /\ Delay \in 1..MaxJiffies /\ Delays = {Delay}
    /\ NSamples \in Nat \ {0}
    /\ Point \subseteq Nat /\ Point # {}

Report == [x : Point, y : Point, pressure : {1}]
UpReport == [x |-> -1, y |-> -1, pressure |-> 0]

VARIABLES pen,        \* the stylus touches the screen
          mode,       \* ADCTSC: waiting for "down" or "up", or converting ("auto")
          conv,       \* ADCCON started, conversion not yet done
          tcPending,  \* INT_TC requested and not handled
          adcPending, \* INT_ADC requested and not handled
          adc_cnt,    \* samples in the sums of Isr_Adc
          g_ts,       \* g_ts_x, g_ts_y, g_ts_pressure
          valid,      \* g_ts_data_valid
          pc, copy,   \* where the program is in ts_read_raw, and *px, *py, *ppressure
          reported,   \* history: the last report that was accepted
          bounced     \* history: an event of the hardware fell into the microseconds
                      \* between a request and its handler, or INT_ADC was served
                      \* before an INT_TC that came in the meantime

device == <<pen, mode, conv, tcPending, adcPending>>
reader == <<pc, copy>>
reports == <<g_ts, valid, reported>>
tsVars == <<timerVars, device, adc_cnt, reader, reports, bounced>>

-----------------------------------------------------------------------------
\* Mutant: a report overwrites one that was not yet read.
Mutreport_ts_xy(r) ==
    g_ts' = r /\ valid' = TRUE /\ reported' = r

\* report_ts_xy: dropped while the last report is unread.
report_ts_xy(r) ==
    IF valid THEN UNCHANGED reports
             ELSE g_ts' = r /\ valid' = TRUE /\ reported' = r

\* add_timer(&ts_timer), del_timer(&ts_timer): whether or not it is listed.
add_ts == /\ ListAddToBehind(AddPoint(ts), ts)
          /\ linked' = linked \cup {ts} /\ fired' = fired \ {ts}
          /\ UNCHANGED <<expire, jiffies, softirq>>

\* Mutant: the timer stays set when the stylus goes up.
Mutdel_ts == UNCHANGED timerVars

del_ts == /\ ListDel(ts)
          /\ linked' = linked \ {ts}
          /\ UNCHANGED <<expire, jiffies, softirq, fired>>

\* Mutant: ADC_START is forgotten.
MutStartConversion == mode' = "auto" /\ UNCHANGED conv

\* mode_auto_xy, then ADC_START.
StartConversion == mode' = "auto" /\ conv' = TRUE

\* Mutant: the driver stops converting but does not wait for the next touch.
MutStylusUp == del_ts /\ report_ts_xy(UpReport) /\ UNCHANGED <<mode, conv>>

\* Both handlers, finding the stylus up: report it and wait_down_int.
StylusUp == /\ del_ts
            /\ report_ts_xy(UpReport)
            /\ mode' = "down"
            /\ UNCHANGED conv

\* The sample at hand completes the average.
LastSample == adc_cnt + 1 = NSamples

\* ADCDAT0 bit 15, "up": it tells the state of the stylus in the waiting
\* modes only, and anything while the converter has the screen.
BitUp == IF mode = "auto" THEN BOOLEAN ELSE {~pen}

-----------------------------------------------------------------------------
\* init_Ts has just returned.
TsInit ==
    /\ next = [n \in Node |-> n] /\ prev = next
    /\ expire = [t \in Timer |-> Delay]
    /\ jiffies = 0 /\ softirq = FALSE /\ linked = {} /\ fired = {}
    /\ pen = FALSE /\ mode = "down" /\ conv = FALSE
    /\ tcPending = FALSE /\ adcPending = FALSE
    /\ adc_cnt = 0
    /\ g_ts = [x |-> 0, y |-> 0, pressure |-> 0] /\ valid = FALSE
    /\ reported = g_ts
    /\ pc = "wait" /\ copy = g_ts
    /\ bounced = FALSE

\* The hand.
Pen == /\ pen' = ~pen
       /\ bounced' = (bounced \/ tcPending \/ adcPending)
       /\ UNCHANGED <<timerVars, mode, conv, tcPending, adcPending, adc_cnt,
                      reader, reports>>

\* The waiting modes request INT_TC when the stylus is as awaited.
RaiseTc == /\ ~tcPending /\ mode = (IF pen THEN "down" ELSE "up")
           /\ tcPending' = TRUE
           /\ UNCHANGED <<timerVars, pen, mode, conv, adcPending, adc_cnt,
                          reader, reports, bounced>>

\* A conversion ends and requests INT_ADC.
EndConversion == /\ conv
                 /\ conv' = FALSE /\ adcPending' = TRUE
                 /\ bounced' = (bounced \/ adcPending)
                 /\ UNCHANGED <<timerVars, pen, mode, tcPending, adc_cnt,
                                reader, reports>>

Isr_Tc == /\ ~softirq /\ tcPending
          /\ tcPending' = FALSE
          /\ \E up \in BitUp :
                 IF up THEN StylusUp
                       ELSE StartConversion /\ UNCHANGED <<timerVars, reports>>
          /\ UNCHANGED <<pen, adcPending, adc_cnt, reader, bounced>>

\* After wait_up_int the bit is good.  All samples but the last start the next
\* conversion; the last reports and sets the timer.
Isr_Adc ==
    /\ ~softirq /\ adcPending
    /\ adcPending' = FALSE
    /\ bounced' = (bounced \/ tcPending)
    /\ \/ /\ ~pen
          /\ adc_cnt' = 0
          /\ StylusUp
       \/ /\ pen /\ ~LastSample
          /\ adc_cnt' = adc_cnt + 1
          /\ StartConversion
          /\ UNCHANGED <<timerVars, reports>>
       \/ /\ pen /\ LastSample
          /\ adc_cnt' = 0
          /\ \E r \in Report : report_ts_xy(r)
          /\ mode' = "up"
          /\ add_ts
          /\ UNCHANGED conv
    /\ UNCHANGED <<pen, tcPending, reader>>

\* The tick.  Nothing depends on jiffies once ts_timer is due, so it may stop
\* at the bound and stand for every later tick.
TsTick == /\ ~softirq
          /\ jiffies' = IF jiffies < MaxJiffies THEN jiffies + 1 ELSE jiffies
          /\ softirq' = Due(next[head], jiffies')
          /\ UNCHANGED <<next, prev, expire, linked, fired, device, adc_cnt, reader,
                         reports, bounced>>

\* do_timer fires ts_timer and calls timer_handle.
timer_handle == /\ Fire(ts)
                /\ StartConversion
                /\ UNCHANGED <<pen, tcPending, adcPending, adc_cnt, reader, reports,
                               bounced>>

TsTimerEnds == /\ DoTimerEnds
               /\ UNCHANGED <<device, adc_cnt, reader, reports, bounced>>

\* ts_read_raw: wait for a report, copy it word by word, and give it up.
CopyWord(at, field, then) ==
    /\ pc = at
    /\ copy' = [copy EXCEPT ![field] = g_ts[field]]
    /\ pc' = then
    /\ UNCHANGED reports

ts_read_raw ==
    /\ ~softirq
    /\ \/ pc = "wait" /\ valid /\ pc' = "x" /\ UNCHANGED <<copy, reports>>
       \/ CopyWord("x", "x", "y")
       \/ CopyWord("y", "y", "pressure")
       \/ CopyWord("pressure", "pressure", "clear")
       \/ /\ pc = "clear" /\ pc' = "wait"
          /\ valid' = FALSE
          /\ UNCHANGED <<copy, g_ts, reported>>
    /\ UNCHANGED <<timerVars, device, adc_cnt, bounced>>

TsNext == \/ Pen \/ RaiseTc \/ EndConversion
          \/ Isr_Tc \/ Isr_Adc
          \/ TsTick \/ timer_handle \/ TsTimerEnds
          \/ ts_read_raw

TsSpec == TsInit /\ [][TsNext]_tsVars

\* The hardware keeps its promises and a requested interrupt is handled.  The
\* program need not read.
TsFairSpec ==
    /\ TsSpec
    /\ WF_tsVars(RaiseTc) /\ WF_tsVars(EndConversion)
    /\ SF_tsVars(Isr_Tc) /\ SF_tsVars(Isr_Adc)
    /\ SF_tsVars(TsTick) /\ WF_tsVars(timer_handle \/ TsTimerEnds)

-----------------------------------------------------------------------------
\* The driver deletes its timer when it is not listed, and adds it with the
\* expiry it was given once, at init_Ts: unless the stylus bounces, the list
\* survives that.
TsListSound == ~bounced => ListSound

\* What ts_read_raw returns is one report, never a mix of two: the handlers
\* write g_ts_* only while the program is not between its copies.
NoTornRead == pc = "clear" => copy = reported

\* While the stylus is held, it is sampled again and again.
HeldIsSampled == []~bounced /\ <>[]pen => []<>conv

\* After the stylus left for good, the driver comes to rest: no conversion and
\* no timer, waiting for the next touch.
ReleaseSettles == []~bounced /\ <>[]~pen => <>[](mode = "down" /\ ~conv /\ linked = {})
=============================================================================

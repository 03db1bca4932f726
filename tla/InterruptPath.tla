---------------------------- MODULE InterruptPath ----------------------------
(***************************************************************************)
(* The interrupt path of the demo firmware: timer_wb, gpio_wb and a button *)
(* pulse feed pic_wb, whose line interrupts the main loop of               *)
(* sw/apps/full_demo/main.c; soc_irq_handler and the main loop share       *)
(* irq_events, dip_sample_request, led_timer_run and the PIC mask.         *)
(*                                                                         *)
(* A step of the firmware is one access to a device or to a shared         *)
(* variable; the devices and the processor's interrupt entry interleave    *)
(* with them at every such boundary.                                       *)
(***************************************************************************)
EXTENDS Naturals, Sequences

CONSTANTS Pins,         \* the DIP switches of GPIO1
          LedPin,       \* DIP0, which switches the timer-driven LEDs
          ActionPins,   \* DIP_ACTION_MASK: pins that act on OFF->ON only
          MaxPresses,   \* bound: presses of the button on EXT0
          MaxToggles    \* bound: movements of the switches

ASSUME PathConstants == /\ LedPin \in Pins \ ActionPins /\ ActionPins \subseteq Pins
                        /\ MaxPresses \in Nat /\ MaxToggles \in Nat

Sources == {"GPIO1", "TIMER", "EXT0"}     \* PIC_IRQ_*
EXT0    == "EXT0"                         \* EV_EXT0_LED_BLINK in irq_events
Events  == Pins \cup {EXT0}

VARIABLES
  \* devices
  timer_status,    \* timer_wb: some bit of status_reg is set
  int_status,      \* gpio_wb: latched rising edges
  level,           \* the switches, as gpio_read returns them
  pic_status, pic_mask,
  \* processor
  mie,             \* mstatus.MIE
  isr,             \* [at, pending, status]: the handler and its locals
  pc,              \* index in Program of the main loop
  \* variables shared by the handler and the main loop
  irq_events, dip_sample_request, led_timer_run,
  \* locals and statics of the main loop
  irq_bits, request, shadow, events, saved_run,
  \* bounds and history
  presses, toggles,
  dropped,         \* the current critical section did not disable interrupts
  ticked           \* a timer event since the firmware last cleared the timer

devVars  == <<timer_status, int_status, level, pic_status, pic_mask>>
shared   == <<irq_events, dip_sample_request, led_timer_run>>
mainVars == <<irq_bits, request, shadow, events, saved_run>>
bounds   == <<presses, toggles>>
vars == <<devVars, mie, isr, pc, shared, mainVars, bounds, dropped, ticked>>

NoIsr == [at |-> "out", pending |-> {}, status |-> {}]

Init ==
  /\ timer_status = FALSE /\ int_status = {}
  /\ level = [p \in Pins |-> FALSE]
  /\ pic_status = {} /\ pic_mask = Sources
  /\ mie = TRUE /\ isr = NoIsr /\ pc = 1
  /\ irq_events = {} /\ dip_sample_request = FALSE /\ led_timer_run = FALSE
  /\ irq_bits = {} /\ request = FALSE /\ shadow = [p \in Pins |-> FALSE]
  /\ events = {} /\ saved_run = FALSE
  /\ presses = 0 /\ toggles = 0
  /\ dropped = FALSE /\ ticked = FALSE

(***************************************************************************)
(* Devices.  pic_status latches its sources every cycle, so a level that   *)
(* is still up comes back after it has been cleared.                       *)
(***************************************************************************)
Levels(timer, gpio) == (IF timer THEN {"TIMER"} ELSE {})
                       \cup (IF gpio # {} THEN {"GPIO1"} ELSE {})

\* Set the devices and let the PIC latch; cleared is what is written to it.
Devices(timer, gpio, pulses, cleared) ==
  /\ timer_status' = timer /\ int_status' = gpio
  /\ pic_status' = ((pic_status \cup pulses) \ cleared) \cup Levels(timer, gpio)

pic_line == pic_status \cap pic_mask # {}

Tick ==
  /\ Devices(TRUE, int_status, {}, {})
  /\ ticked' = TRUE
  /\ UNCHANGED <<level, pic_mask, mie, isr, pc, shared, mainVars, bounds, dropped>>

\* zcu102_button_irq_filter: one pulse per debounced press.
Press ==
  /\ presses < MaxPresses /\ presses' = presses + 1
  /\ Devices(timer_status, int_status, {"EXT0"}, {})
  /\ UNCHANGED <<level, pic_mask, mie, isr, pc, shared, mainVars, toggles,
                 dropped, ticked>>

\* A switch moves; GPIO1 is set up for rising edges only.
Toggle(p) ==
  /\ toggles < MaxToggles /\ toggles' = toggles + 1
  /\ level' = [level EXCEPT ![p] = ~@]
  /\ Devices(timer_status, IF level[p] THEN int_status ELSE int_status \cup {p}, {}, {})
  /\ UNCHANGED <<pic_mask, mie, isr, pc, shared, mainVars, presses, dropped, ticked>>

(***************************************************************************)
(* The main loop, straight-line but for the jumps that Sample, Process and *)
(* LedSwitch make.                                                         *)
(***************************************************************************)
Program == <<
  "disable", "load_events", "clear_events", "enable", "sample_bits", "stable_bits",
  "disable", "load_request", "clear_request", "enable", "sample_all", "stable_all",
  "process",
  "disable", "save_run", "stop_run", "mask_timer", "clear_timer", "clear_pic", "enable",
  "blink",
  "disable", "clear_timer", "clear_pic", "restore_run", "unmask_timer", "enable",
  "led_switch">>
Labels == 1 .. Len(Program)

Label(l) == CHOOSE i \in Labels : Program[i] = l     \* of a label that occurs once

At(l)    == isr.at = "out" /\ Program[pc] = l
Goto(i)  == pc' = i
Then     == pc' = pc + 1

\* csrc mstatus retires.  RvPipeline!TrapDropsEx: an interrupt taken while it
\* is in EX returns behind it with interrupts still enabled.
Disable ==
  /\ At("disable") /\ Then
  /\ mie' = FALSE
  /\ UNCHANGED <<devVars, isr, shared, mainVars, bounds, dropped, ticked>>

Enable ==
  /\ At("enable") /\ Then
  /\ mie' = TRUE /\ dropped' = FALSE
  /\ UNCHANGED <<devVars, isr, shared, mainVars, bounds, ticked>>

LoadEvents ==
  /\ At("load_events") /\ Then
  /\ irq_bits' = irq_events /\ events' = irq_events \cap {EXT0}
  /\ UNCHANGED <<devVars, mie, isr, shared, request, shadow, saved_run, bounds,
                 dropped, ticked>>

ClearEvents ==
  /\ At("clear_events") /\ Then
  /\ irq_events' = {}
  /\ UNCHANGED <<devVars, mie, isr, dip_sample_request, led_timer_run, mainVars,
                 bounds, dropped, ticked>>

LoadRequest ==
  /\ At("load_request") /\ Then
  /\ request' = dip_sample_request
  /\ UNCHANGED <<devVars, mie, isr, shared, irq_bits, shadow, events, saved_run,
                 bounds, dropped, ticked>>

ClearRequest ==
  /\ At("clear_request") /\ Then
  /\ dip_sample_request' = FALSE
  /\ UNCHANGED <<devVars, mie, isr, irq_events, led_timer_run, mainVars, bounds,
                 dropped, ticked>>

\* sample_dip_events: a first read decides whether there is anything to
\* debounce, a second one, after the delay, is what counts.
Changed(mask) == {p \in mask : level[p] # shadow[p]}
Mask == IF Program[pc] \in {"sample_bits", "stable_bits"} THEN irq_bits \cap Pins
        ELSE IF request THEN Pins ELSE {}

Sample ==
  /\ At("sample_bits") \/ At("sample_all")
  /\ Goto(IF Changed(Mask) = {} THEN pc + 2 ELSE pc + 1)
  /\ UNCHANGED <<devVars, mie, isr, shared, mainVars, bounds, dropped, ticked>>

Stable ==
  /\ At("stable_bits") \/ At("stable_all")
  /\ Then
  /\ events' = events \cup {p \in Changed(Mask) : p \in ActionPins => level[p]}
  /\ shadow' = [p \in Pins |-> IF p \in Mask THEN level[p] ELSE shadow[p]]
  /\ UNCHANGED <<devVars, mie, isr, shared, irq_bits, request, saved_run, bounds,
                 dropped, ticked>>

\* process_events: the blink effect if the button was pressed.
Process ==
  /\ At("process")
  /\ Goto(IF EXT0 \in events THEN pc + 1 ELSE Label("led_switch"))
  /\ UNCHANGED <<devVars, mie, isr, shared, mainVars, bounds, dropped, ticked>>

SaveRun ==
  /\ At("save_run") /\ Then
  /\ saved_run' = led_timer_run
  /\ UNCHANGED <<devVars, mie, isr, shared, irq_bits, request, shadow, events,
                 bounds, dropped, ticked>>

\* A bug to detect: the effect relies on the PIC mask to keep the timer quiet.
LeavesRun ==
  /\ At("stop_run") \/ At("restore_run")
  /\ Then
  /\ UNCHANGED <<devVars, mie, isr, shared, mainVars, bounds, dropped, ticked>>

SetRun ==
  /\ At("stop_run") \/ At("restore_run")
  /\ Then
  /\ led_timer_run' = (At("restore_run") /\ saved_run)
  /\ UNCHANGED <<devVars, mie, isr, irq_events, dip_sample_request, mainVars,
                 bounds, dropped, ticked>>

SetMask ==
  /\ At("mask_timer") \/ At("unmask_timer")
  /\ Then
  /\ pic_mask' = IF At("mask_timer") THEN pic_mask \ {"TIMER"} ELSE pic_mask \cup {"TIMER"}
  /\ UNCHANGED <<timer_status, int_status, level, pic_status, mie, isr, shared,
                 mainVars, bounds, dropped, ticked>>

MainClearTimer ==
  /\ At("clear_timer") /\ Then
  /\ Devices(FALSE, int_status, {}, {})
  /\ ticked' = FALSE
  /\ UNCHANGED <<level, pic_mask, mie, isr, shared, mainVars, bounds, dropped>>

MainClearPic ==
  /\ At("clear_pic") /\ Then
  /\ Devices(timer_status, int_status, {}, {"TIMER"})
  /\ UNCHANGED <<level, pic_mask, mie, isr, shared, mainVars, bounds, dropped, ticked>>

Blink ==
  /\ At("blink") /\ Then
  /\ UNCHANGED <<devVars, mie, isr, shared, mainVars, bounds, dropped, ticked>>

\* A bug to detect: DIP0 toggles the timer LEDs instead of setting them.
TogglesRun ==
  /\ At("led_switch") /\ Goto(1)
  /\ led_timer_run' = IF LedPin \in events THEN ~led_timer_run ELSE led_timer_run
  /\ UNCHANGED <<devVars, mie, isr, irq_events, dip_sample_request, mainVars,
                 bounds, dropped, ticked>>

LedSwitch ==
  /\ At("led_switch") /\ Goto(1)
  /\ led_timer_run' = IF LedPin \in events THEN shadow[LedPin] ELSE led_timer_run
  /\ UNCHANGED <<devVars, mie, isr, irq_events, dip_sample_request, mainVars,
                 bounds, dropped, ticked>>

Main == \/ Disable \/ Enable \/ LoadEvents \/ ClearEvents \/ LoadRequest
        \/ ClearRequest \/ Sample \/ Stable \/ Process \/ SaveRun \/ SetRun
        \/ SetMask \/ MainClearTimer \/ MainClearPic \/ Blink \/ LedSwitch

(***************************************************************************)
(* Interrupt entry, soc_irq_handler and mret.                              *)
(***************************************************************************)
Enter ==
  /\ isr.at = "out" /\ mie /\ pic_line
  /\ mie' = FALSE
  /\ isr' = [isr EXCEPT !.at = "read_pic"]
  /\ UNCHANGED <<devVars, shared, mainVars, bounds, ticked>>

TakeInterrupt == Enter /\ UNCHANGED <<pc, dropped>>

TakeInterruptInDisable ==
  /\ At("disable") /\ Then
  /\ Enter
  /\ dropped' = TRUE

InIsr(l, next) == isr.at = l /\ isr' = [isr EXCEPT !.at = next]

ReadPic ==
  /\ isr.at = "read_pic"
  /\ isr' = [isr EXCEPT !.at = "timer", !.pending = pic_status]
  /\ UNCHANGED <<devVars, mie, pc, shared, mainVars, bounds, dropped, ticked>>

\* A bug to detect: the handler leaves the timer's STATUS set.
HandleWithoutClear ==
  /\ InIsr("timer", "timer_count")
  /\ ticked' = (ticked /\ "TIMER" \notin isr.pending)
  /\ UNCHANGED <<devVars, mie, pc, shared, mainVars, bounds, dropped>>

HandleTimer ==
  /\ InIsr("timer", "timer_count")
  /\ IF "TIMER" \in isr.pending
       THEN Devices(FALSE, int_status, {}, {}) /\ ticked' = FALSE
       ELSE UNCHANGED <<timer_status, int_status, pic_status, ticked>>
  /\ UNCHANGED <<level, pic_mask, mie, pc, shared, mainVars, bounds, dropped>>

\* A bug to detect: only edges ask for a sample.
CountOnly ==
  /\ InIsr("timer_count", "gpio_read")
  /\ UNCHANGED <<devVars, mie, pc, shared, mainVars, bounds, dropped, ticked>>

CountTimer ==
  /\ InIsr("timer_count", "gpio_read")
  /\ IF "TIMER" \in isr.pending
       THEN dip_sample_request' = TRUE
       ELSE UNCHANGED dip_sample_request
  /\ UNCHANGED <<devVars, mie, pc, irq_events, led_timer_run, mainVars, bounds,
                 dropped, ticked>>

ReadGpio ==
  /\ isr.at = "gpio_read"
  /\ isr' = [isr EXCEPT !.at = "gpio_clear",
                        !.status = IF "GPIO1" \in isr.pending THEN int_status ELSE {}]
  /\ UNCHANGED <<devVars, mie, pc, shared, mainVars, bounds, dropped, ticked>>

ClearGpio ==
  /\ InIsr("gpio_clear", "record")
  /\ Devices(timer_status, int_status \ isr.status, {}, {})
  /\ UNCHANGED <<level, pic_mask, mie, pc, shared, mainVars, bounds, dropped, ticked>>

Record ==
  /\ InIsr("record", "clear_pic")
  /\ irq_events' = irq_events \cup isr.status
                   \cup (IF "EXT0" \in isr.pending THEN {EXT0} ELSE {})
  /\ dip_sample_request' = (dip_sample_request \/ "GPIO1" \in isr.pending)
  /\ UNCHANGED <<devVars, mie, pc, led_timer_run, mainVars, bounds, dropped, ticked>>

\* A bug to detect: pic_clear(0xffffffff) instead of what was read at entry.
ClearAllPic ==
  /\ InIsr("clear_pic", "mret")
  /\ Devices(timer_status, int_status, {}, Sources)
  /\ UNCHANGED <<level, pic_mask, mie, pc, shared, mainVars, bounds, dropped, ticked>>


ClearPic ==
  /\ InIsr("clear_pic", "mret")
  /\ Devices(timer_status, int_status, {}, isr.pending)
  /\ UNCHANGED <<level, pic_mask, mie, pc, shared, mainVars, bounds, dropped, ticked>>

Mret ==
  /\ isr.at = "mret"
  /\ isr' = NoIsr /\ mie' = TRUE
  /\ UNCHANGED <<devVars, pc, shared, mainVars, bounds, dropped, ticked>>

Isr == \/ ReadPic \/ HandleTimer \/ CountTimer \/ ReadGpio \/ ClearGpio \/ Record
       \/ ClearPic \/ Mret

Processor == Main \/ TakeInterrupt \/ TakeInterruptInDisable \/ Isr
Next == Tick \/ Press \/ (\E p \in Pins : Toggle(p)) \/ Processor
Spec == Init /\ [][Next]_vars

\* The timer keeps counting; the processor keeps retiring; a pending interrupt
\* is taken (RvPipeline!IrqNotIgnored); a timer period is long enough for the
\* main loop to advance between two runs of the handler.
Fairness == /\ WF_vars(Tick) /\ WF_vars(Processor)
            /\ SF_vars(TakeInterrupt) /\ SF_vars(Main)
FairSpec == Spec /\ Fairness

(***************************************************************************)
(* Properties                                                              *)
(***************************************************************************)
\* Where an event is between the pin and take_events.
Recorded == isr.at \in {"clear_pic", "mret", "out"}
Pending(e) ==
  \/ e \in irq_events
  \/ ~Recorded /\ (e \in isr.status \/ (e = EXT0 /\ EXT0 \in isr.pending))
  \/ e \in int_status
  \/ e = EXT0 /\ EXT0 \in pic_status

\* A press or an edge stays pending until take_events clears irq_events: none of
\* the handler's three acknowledgements drops one, even with the handler inside
\* take_events because its csrc was lost (RvPipeline!TrapDropsEx).  And the main
\* loop has what it clears, unless that csrc was lost.
EventsKept ==
  [][\A e \in Events : Pending(e) /\ ~Pending(e)'
       => At("clear_events") /\ (e \in irq_bits \/ dropped)]_vars

\* soc_irq_handler counts a timer interrupt only if the timer fired since the
\* firmware last cleared it: the order timer first, PIC last leaves no echo.
NoEchoedTick ==
  isr.at = "timer" /\ "TIMER" \in isr.pending => ticked \/ dropped

\* main.c:578: an effect has the LEDs to itself: the handler, which also serves
\* a masked timer when another interrupt brings it in, does not write them; and
\* led_timer_run is what the debounced DIP0 says, or will be once the effect has
\* put it back, however often the switch moved meanwhile.
InEffect == pc \in Label("blink") .. Label("restore_run")
RunHidden == pc \in Label("stop_run") .. Label("restore_run")
LedsHaveOneOwner ==
  /\ InEffect => ~(isr.at = "timer_count" /\ "TIMER" \in isr.pending /\ led_timer_run)
  /\ LedPin \notin events =>
       shadow[LedPin] = IF RunHidden THEN saved_run ELSE led_timer_run

\* Whatever edges were missed, dip_shadow ends at the position of the switch:
\* the timer interrupt asks for a sample even when no edge interrupt comes.
ShadowSettles == \A p \in Pins : <>[](shadow[p] = level[p])
=============================================================================

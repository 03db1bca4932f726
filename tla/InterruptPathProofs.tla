------------------------- MODULE InterruptPathProofs -------------------------
(***************************************************************************)
(* Theorems about the interrupt path, for any set of switches and any      *)
(* number of presses, movements and timer events.                          *)
(***************************************************************************)
EXTENDS InterruptPath, TLAPS

(***************************************************************************)
(* The main loop by position.                                              *)
(***************************************************************************)
LEMMA Positions ==
  /\ Labels = 1 .. 28
  /\ \A i \in Labels :
       /\ Program[i] = "disable"      <=> i \in {1, 7, 14, 22}
       /\ Program[i] = "enable"       <=> i \in {4, 10, 20, 27}
       /\ Program[i] = "load_events"  <=> i = 2
       /\ Program[i] = "clear_events" <=> i = 3
       /\ Program[i] = "load_request" <=> i = 8
       /\ Program[i] = "clear_request" <=> i = 9
       /\ Program[i] \in {"sample_bits", "sample_all"} <=> i \in {5, 11}
       /\ Program[i] \in {"stable_bits", "stable_all"} <=> i \in {6, 12}
       /\ Program[i] = "process"      <=> i = 13
       /\ Program[i] = "save_run"     <=> i = 15
       /\ Program[i] = "stop_run"     <=> i = 16
       /\ Program[i] = "mask_timer"   <=> i = 17
       /\ Program[i] = "clear_timer"  <=> i \in {18, 23}
       /\ Program[i] = "clear_pic"    <=> i \in {19, 24}
       /\ Program[i] = "blink"        <=> i = 21
       /\ Program[i] = "restore_run"  <=> i = 25
       /\ Program[i] = "unmask_timer" <=> i = 26
       /\ Program[i] = "led_switch"   <=> i = 28
<1>1. Labels = 1 .. 28
  BY DEF Labels, Program
<1>2. QED
  BY <1>1 DEF Program

LEMMA UniqueLabels ==
  /\ Label("stop_run") = 16 /\ Label("blink") = 21
  /\ Label("restore_run") = 25 /\ Label("led_switch") = 28
BY Positions DEF Label

(***************************************************************************)
(* The inductive invariant.                                                *)
(***************************************************************************)
IsrSteps == {"out", "read_pic", "timer", "timer_count", "gpio_read", "gpio_clear",
             "record", "clear_pic", "mret"}

TypeOK ==
  /\ timer_status \in BOOLEAN /\ int_status \subseteq Pins
  /\ level \in [Pins -> BOOLEAN]
  /\ pic_status \subseteq Sources /\ pic_mask \subseteq Sources
  /\ mie \in BOOLEAN /\ pc \in Labels
  /\ isr \in [at: IsrSteps, pending: SUBSET Sources, status: SUBSET Pins]
  /\ irq_events \subseteq Events
  /\ dip_sample_request \in BOOLEAN /\ led_timer_run \in BOOLEAN
  /\ irq_bits \subseteq Events /\ request \in BOOLEAN
  /\ shadow \in [Pins -> BOOLEAN] /\ events \subseteq Events /\ saved_run \in BOOLEAN
  /\ dropped \in BOOLEAN /\ ticked \in BOOLEAN

\* Between csrc and csrs, unless the csrc was lost, the main loop is alone.
Critical == (2 .. 4) \cup (8 .. 10) \cup (15 .. 20) \cup (23 .. 27)
Atomic == pc \in Critical /\ ~dropped => ~mie /\ isr.at = "out"

\* The handler's locals, before they are read.
Locals ==
  /\ isr.at \in {"out", "read_pic"} => isr.pending = {}
  /\ isr.at \in {"out", "read_pic", "timer", "timer_count", "gpio_read"} => isr.status = {}

\* A timer request the PIC remembers without a timer event since the timer was
\* last cleared is about to be cleared too, by whoever cleared the timer.
HandlerClears == /\ isr.at \in {"timer_count", "gpio_read", "gpio_clear", "record", "clear_pic"}
                 /\ "TIMER" \in isr.pending
MainClears    == pc \in {19, 24}
Requests ==
  /\ timer_status => ticked
  /\ "TIMER" \in pic_status => ticked \/ HandlerClears \/ MainClears

\* Around an effect led_timer_run is off and saved_run stands in for it.
Effects ==
  /\ pc \in 17 .. 25 => ~led_timer_run
  /\ LedPin \notin events \/ pc \in 1 .. 2 =>
       shadow[LedPin] = IF pc \in 16 .. 25 THEN saved_run ELSE led_timer_run

\* What is cleared has been copied.
Copied ==
  /\ pc = 3 /\ ~dropped => irq_events \subseteq irq_bits
  /\ isr.at = "clear_pic" /\ EXT0 \in isr.pending => EXT0 \in irq_events

PathInv == /\ TypeOK /\ Atomic /\ Locals /\ Requests /\ NoEchoedTick
           /\ Effects /\ Copied

LEMMA DistinctSources == EXT0 # "TIMER" /\ Sources = {"GPIO1", "TIMER", EXT0}
BY DEF EXT0, Sources

\* Where the main loop goes.
Advances == isr.at = "out" /\ pc' = pc + 1

LEMMA MainFlow ==
  ASSUME TypeOK
  PROVE  /\ Disable => pc \in {1, 7, 14, 22} /\ Advances
         /\ Enable => pc \in {4, 10, 20, 27} /\ Advances
         /\ LoadEvents => pc = 2 /\ Advances
         /\ ClearEvents => pc = 3 /\ Advances
         /\ LoadRequest => pc = 8 /\ Advances
         /\ ClearRequest => pc = 9 /\ Advances
         /\ Sample => pc \in {5, 11} /\ isr.at = "out" /\ pc' \in {pc + 1, pc + 2}
         /\ Stable => pc \in {6, 12} /\ Advances
         /\ Process => pc = 13 /\ isr.at = "out" /\ pc' \in {14, 28}
         /\ SaveRun => pc = 15 /\ Advances
         /\ SetRun => /\ pc \in {16, 25} /\ Advances
                      /\ led_timer_run' = (pc = 25 /\ saved_run)
         /\ SetMask => pc \in {17, 26} /\ Advances
         /\ MainClearTimer => pc \in {18, 23} /\ Advances
         /\ MainClearPic => pc \in {19, 24} /\ Advances
         /\ Blink => pc = 21 /\ Advances
         /\ LedSwitch => pc = 28 /\ isr.at = "out" /\ pc' = 1
         /\ TakeInterruptInDisable => pc \in {1, 7, 14, 22} /\ Advances
<1> USE DEF TypeOK, At, Then, Goto, Advances
<1>1. pc \in Labels
  OBVIOUS
<1>2. /\ Disable => pc \in {1, 7, 14, 22} /\ Advances
      /\ Enable => pc \in {4, 10, 20, 27} /\ Advances
      /\ LoadEvents => pc = 2 /\ Advances
      /\ ClearEvents => pc = 3 /\ Advances
      /\ LoadRequest => pc = 8 /\ Advances
      /\ ClearRequest => pc = 9 /\ Advances
  BY <1>1, Positions DEF Disable, Enable, LoadEvents, ClearEvents, LoadRequest, ClearRequest
<1>3. /\ Sample => pc \in {5, 11} /\ isr.at = "out" /\ pc' \in {pc + 1, pc + 2}
      /\ Stable => pc \in {6, 12} /\ Advances
      /\ Process => pc = 13 /\ isr.at = "out" /\ pc' \in {14, 28}
  BY <1>1, Positions, UniqueLabels DEF Sample, Stable, Process
<1>4. /\ SaveRun => pc = 15 /\ Advances
      /\ SetMask => pc \in {17, 26} /\ Advances
      /\ MainClearTimer => pc \in {18, 23} /\ Advances
      /\ MainClearPic => pc \in {19, 24} /\ Advances
      /\ Blink => pc = 21 /\ Advances
      /\ LedSwitch => pc = 28 /\ isr.at = "out" /\ pc' = 1
      /\ TakeInterruptInDisable => pc \in {1, 7, 14, 22} /\ Advances
  BY <1>1, Positions DEF SaveRun, SetMask, MainClearTimer, MainClearPic, Blink, LedSwitch,
     TakeInterruptInDisable
<1>5. SetRun => /\ pc \in {16, 25} /\ Advances
                /\ led_timer_run' = (pc = 25 /\ saved_run)
  BY <1>1, Positions DEF SetRun
<1>6. QED
  BY <1>2, <1>3, <1>4, <1>5

(***************************************************************************)
(* Steps.                                                                  *)
(***************************************************************************)
LEMMA TypeStep == TypeOK /\ [Next]_vars => TypeOK'
<1> SUFFICES ASSUME TypeOK, [Next]_vars PROVE TypeOK'
  OBVIOUS
<1> USE DEF TypeOK, devVars, shared, mainVars, bounds
<1>1. CASE Tick \/ Press \/ \E p \in Pins : Toggle(p)
  BY ZenonT(60), <1>1 DEF Tick, Press, Toggle, Devices, Levels, Sources
<1>2. CASE Main
  <2>1. pc' \in Labels
    BY <1>2, MainFlow, Positions DEF Main, Advances
  <2>2. CASE Disable \/ Enable \/ Sample \/ Process \/ Blink
    BY ZenonT(60), <2>1, <2>2 DEF Disable, Enable, Sample, Process, Blink
  <2>3. CASE LoadEvents \/ ClearEvents \/ LoadRequest \/ ClearRequest
    BY ZenonT(60), <2>1, <2>3 DEF LoadEvents, ClearEvents, LoadRequest, ClearRequest, Events
  <2>4. CASE Stable
    BY <2>1, <2>4 DEF Stable, Changed, Mask, Events
  <2>5. CASE SaveRun \/ SetRun \/ LedSwitch
    BY <2>1, <2>5, PathConstants DEF SaveRun, SetRun, LedSwitch
  <2>6. CASE SetMask \/ MainClearTimer \/ MainClearPic
    BY ZenonT(60), <2>1, <2>6 DEF SetMask, MainClearTimer, MainClearPic, Devices, Levels, Sources
  <2>7. QED
    BY <1>2, <2>2, <2>3, <2>4, <2>5, <2>6 DEF Main
<1>3. CASE TakeInterrupt \/ TakeInterruptInDisable
  <2>1. Enter /\ isr' \in [at: IsrSteps, pending: SUBSET Sources, status: SUBSET Pins]
    BY <1>3 DEF TakeInterrupt, TakeInterruptInDisable, Enter, IsrSteps
  <2>2. pc' \in Labels /\ dropped' \in BOOLEAN
    <3>1. CASE TakeInterrupt
      BY <3>1 DEF TakeInterrupt
    <3>2. CASE TakeInterruptInDisable
      <4>1. pc \in {1, 7, 14, 22} /\ pc' = pc + 1
        BY <3>2, MainFlow DEF Advances
      <4>2. QED
        BY <3>2, <4>1, Positions DEF TakeInterruptInDisable
    <3>3. QED
      BY <1>3, <3>1, <3>2
  <2>3. QED
    BY <2>1, <2>2 DEF Enter
<1>4. CASE ReadPic \/ HandleTimer \/ CountTimer \/ ReadGpio \/ Mret
  <2>1. isr' \in [at: IsrSteps, pending: SUBSET Sources, status: SUBSET Pins]
    <3>1. CASE ReadPic
      BY <3>1 DEF ReadPic, IsrSteps
    <3>2. CASE HandleTimer \/ CountTimer
      BY <3>2 DEF HandleTimer, CountTimer, InIsr, IsrSteps
    <3>3. CASE ReadGpio
      BY <3>3 DEF ReadGpio, IsrSteps
    <3>4. CASE Mret
      BY <3>4 DEF Mret, NoIsr, IsrSteps
    <3>5. QED
      BY <1>4, <3>1, <3>2, <3>3, <3>4
  <2>2. CASE HandleTimer
    BY <2>1, <2>2 DEF HandleTimer, Devices, Levels, Sources
  <2>3. CASE ReadPic \/ CountTimer \/ ReadGpio \/ Mret
    BY ZenonT(60), <2>1, <2>3 DEF ReadPic, CountTimer, ReadGpio, Mret
  <2>4. QED
    BY <1>4, <2>2, <2>3
<1>5. CASE ClearGpio \/ Record \/ ClearPic
  BY ZenonT(60), <1>5 DEF ClearGpio, Record, ClearPic, InIsr, IsrSteps, Devices, Levels, Sources, Events
<1>6. CASE UNCHANGED vars
  BY <1>6 DEF vars
<1>7. QED
  BY <1>1, <1>2, <1>3, <1>4, <1>5, <1>6 DEF Next, Processor, Isr

LEMMA AtomicStep == TypeOK /\ Atomic /\ [Next]_vars => Atomic'
<1> SUFFICES ASSUME TypeOK, Atomic, [Next]_vars PROVE Atomic'
  OBVIOUS
<1> USE DEF TypeOK, Atomic, Critical, devVars, shared, mainVars, bounds
<1>1. CASE Tick \/ Press \/ \E p \in Pins : Toggle(p)
  BY <1>1 DEF Tick, Press, Toggle
<1>2. CASE Main
  <2>1. CASE Disable \/ Enable
    <3>1. CASE Disable
      BY <3>1 DEF Disable, At
    <3>2. CASE Enable
      <4>1. pc \in {4, 10, 20, 27} /\ pc' = pc + 1
        BY <3>2, MainFlow DEF Advances
      <4>2. QED
        BY <4>1
    <3>3. QED
      BY <2>1, <3>1, <3>2
  <2>2. CASE Main /\ ~Disable /\ ~Enable
    <3>1. UNCHANGED <<mie, isr, dropped>>
      BY <2>2 DEF Main, LoadEvents, ClearEvents, LoadRequest, ClearRequest, Sample, Stable,
         Process, SaveRun, SetRun, SetMask, MainClearTimer, MainClearPic, Blink, LedSwitch
    <3>2. pc' \in Critical => pc \in Critical
      BY <2>2, MainFlow, Positions DEF Main, Advances
    <3>3. QED
      BY <3>1, <3>2
  <2>3. QED
    BY <1>2, <2>1, <2>2
<1>3. CASE TakeInterrupt \/ TakeInterruptInDisable
  BY <1>3 DEF TakeInterrupt, TakeInterruptInDisable, Enter
<1>4. CASE Isr
  BY <1>4 DEF Isr, ReadPic, HandleTimer, CountTimer, ReadGpio, ClearGpio, Record, ClearPic, Mret,
     InIsr
<1>5. CASE UNCHANGED vars
  BY <1>5 DEF vars
<1>6. QED
  BY <1>1, <1>2, <1>3, <1>4, <1>5 DEF Next, Processor

LEMMA LocalsStep == TypeOK /\ Locals /\ [Next]_vars => Locals'
<1> SUFFICES ASSUME TypeOK, Locals, [Next]_vars PROVE Locals'
  OBVIOUS
<1> USE DEF TypeOK, Locals
<1>1. CASE UNCHANGED isr
  BY <1>1
<1>2. CASE TakeInterrupt \/ TakeInterruptInDisable
  BY <1>2 DEF TakeInterrupt, TakeInterruptInDisable, Enter
<1>3. CASE Isr
  <2>1. CASE ReadPic
    BY <2>1 DEF ReadPic
  <2>2. CASE ReadGpio
    BY <2>2 DEF ReadGpio
  <2>3. CASE Mret
    BY <2>3 DEF Mret, NoIsr
  <2>4. CASE HandleTimer \/ CountTimer \/ ClearGpio \/ Record \/ ClearPic
    BY <2>4 DEF HandleTimer, CountTimer, ClearGpio, Record, ClearPic, InIsr
  <2>5. QED
    BY <1>3, <2>1, <2>2, <2>3, <2>4 DEF Isr
<1>4. CASE ~(TakeInterrupt \/ TakeInterruptInDisable \/ Isr)
  <2>1. UNCHANGED isr
    BY <1>4 DEF Next, Processor, Main, Tick, Press, Toggle, Disable, Enable, LoadEvents,
       ClearEvents, LoadRequest, ClearRequest, Sample, Stable, Process, SaveRun, SetRun, SetMask,
       MainClearTimer, MainClearPic, Blink, LedSwitch, vars
  <2>2. QED
    BY <1>1, <2>1
<1>5. QED
  BY <1>2, <1>3, <1>4

\* No tick without a timer event.
LEMMA RequestsStep ==
  TypeOK /\ Atomic /\ Requests /\ NoEchoedTick /\ [Next]_vars => Requests' /\ NoEchoedTick'
<1> SUFFICES ASSUME TypeOK, Atomic, Requests, NoEchoedTick, [Next]_vars
             PROVE  Requests' /\ NoEchoedTick'
  OBVIOUS
<1> USE DEF TypeOK, Requests, NoEchoedTick, HandlerClears, MainClears, devVars, shared, mainVars,
            bounds
<1>1. CASE Tick \/ Press \/ \E p \in Pins : Toggle(p)
  BY <1>1, DistinctSources DEF Tick, Press, Toggle, Devices, Levels, Sources
<1>2. CASE Main
  <2>1. isr.at = "out" /\ isr' = isr
    BY <1>2 DEF Main, Disable, Enable, LoadEvents, ClearEvents, LoadRequest, ClearRequest, Sample,
       Stable, Process, SaveRun, SetRun, SetMask, MainClearTimer, MainClearPic, Blink, LedSwitch,
       At
  <2>2. CASE MainClearTimer
    <3>1. timer_status' = FALSE /\ pc' \in {19, 24}
      <4>1. pc \in {18, 23} /\ pc' = pc + 1
        BY <2>2, MainFlow DEF Advances
      <4>2. QED
        BY <2>2, <4>1 DEF MainClearTimer, Devices
    <3>2. QED
      BY <2>1, <3>1
  <2>3. CASE MainClearPic
    <3>1. "TIMER" \in pic_status' => timer_status
      BY <2>3 DEF MainClearPic, Devices, Levels
    <3>2. timer_status' = timer_status /\ ticked' = ticked
      BY <2>3 DEF MainClearPic, Devices
    <3>3. QED
      BY <2>1, <3>1, <3>2
  <2>4. CASE ~MainClearTimer /\ ~MainClearPic
    <3>1. UNCHANGED <<timer_status, pic_status, ticked>>
      BY <1>2, <2>4 DEF Main, Disable, Enable, LoadEvents, ClearEvents, LoadRequest,
         ClearRequest, Sample, Stable, Process, SaveRun, SetRun, SetMask, Blink, LedSwitch
    <3>2. pc \notin {19, 24}
      BY <1>2, <2>4, MainFlow DEF Main
    <3>3. QED
      BY <2>1, <3>1, <3>2
  <2>5. QED
    BY <2>2, <2>3, <2>4
<1>3. CASE TakeInterrupt \/ TakeInterruptInDisable
  <2>1. /\ Enter /\ isr.at = "out" /\ isr'.at = "read_pic"
        /\ UNCHANGED <<timer_status, pic_status, ticked>>
    BY <1>3 DEF TakeInterrupt, TakeInterruptInDisable, Enter
  <2>2. pc \in {19, 24} => pc' = pc
    BY <1>3, MainFlow DEF TakeInterrupt
  <2>3. QED
    BY <2>1, <2>2
<1>4. CASE ReadPic
  <2>1. /\ isr.at = "read_pic" /\ isr'.at = "timer" /\ isr'.pending = pic_status
        /\ UNCHANGED <<timer_status, pic_status, ticked, pc, dropped>>
    BY <1>4 DEF ReadPic
  <2>2. pc \in {19, 24} => dropped
    BY <2>1 DEF Atomic, Critical
  <2>3. QED
    BY <2>1, <2>2
<1>5. CASE HandleTimer
  BY <1>5 DEF HandleTimer, InIsr, Devices, Levels
<1>6. CASE ClearPic
  BY <1>6 DEF ClearPic, InIsr, Devices, Levels
<1>7. CASE CountTimer \/ ReadGpio \/ Record \/ Mret
  <2>1. UNCHANGED <<timer_status, pic_status, ticked, pc>>
    BY <1>7 DEF CountTimer, ReadGpio, Record, Mret
  <2>2. (HandlerClears => HandlerClears') /\ isr'.at # "timer"
    <3>1. CASE CountTimer \/ Record
      BY <3>1 DEF CountTimer, Record, InIsr
    <3>2. CASE ReadGpio
      BY <3>2 DEF ReadGpio
    <3>3. CASE Mret
      BY <3>3 DEF Mret, NoIsr
    <3>4. QED
      BY <1>7, <3>1, <3>2, <3>3
  <2>3. QED
    BY <2>1, <2>2
<1>8. CASE ClearGpio
  BY <1>8 DEF ClearGpio, InIsr, Devices, Levels
<1>9. CASE UNCHANGED vars
  BY <1>9 DEF vars
<1>10. QED
  BY <1>1, <1>2, <1>3, <1>4, <1>5, <1>6, <1>7, <1>8, <1>9 DEF Next, Processor, Isr

\* The LEDs through an effect.
LEMMA EffectsStep == TypeOK /\ Effects /\ [Next]_vars => Effects'
<1> SUFFICES ASSUME TypeOK, Effects, [Next]_vars PROVE Effects'
  OBVIOUS
<1>1. /\ pc \in 1 .. 28 /\ LedPin \in Pins \ ActionPins
      /\ led_timer_run \in BOOLEAN /\ saved_run \in BOOLEAN
      /\ shadow \in [Pins -> BOOLEAN] /\ level \in [Pins -> BOOLEAN]
  BY Positions, PathConstants DEF TypeOK
<1> USE DEF Effects
<1>2. CASE LoadEvents
  <2>1. /\ pc = 2 /\ pc' = 3 /\ UNCHANGED <<shadow, led_timer_run>>
    BY <1>2, MainFlow DEF LoadEvents, Advances, shared
  <2>2. QED
    BY <1>1, <2>1
<1>3. CASE Stable
  <2>1. /\ pc \in {6, 12} /\ pc' = pc + 1 /\ led_timer_run' = led_timer_run
        /\ events \subseteq events'
        /\ LedPin \notin events' => shadow'[LedPin] = shadow[LedPin]
    <3>1. pc \in {6, 12} /\ pc' = pc + 1
      BY <1>3, MainFlow DEF Advances
    <3>2. led_timer_run' = led_timer_run /\ events \subseteq events'
      BY <1>3 DEF Stable, shared
    <3>3. LedPin \in Mask /\ level[LedPin] # shadow[LedPin] => LedPin \in events'
      BY <1>1, <1>3 DEF Stable, Changed
    <3>4. shadow'[LedPin] = IF LedPin \in Mask THEN level[LedPin] ELSE shadow[LedPin]
      BY <1>1, <1>3 DEF Stable
    <3>5. QED
      BY <3>1, <3>2, <3>3, <3>4
  <2>2. QED
    BY <1>1, <2>1
<1>4. CASE SaveRun
  <2>1. /\ pc = 15 /\ pc' = 16 /\ saved_run' = led_timer_run
        /\ UNCHANGED <<led_timer_run, shadow, events>>
    BY <1>4, MainFlow DEF SaveRun, Advances, shared
  <2>2. QED
    BY <1>1, <2>1
<1>5. CASE SetRun
  <2>1. /\ pc \in {16, 25} /\ pc' = pc + 1 /\ led_timer_run' = (pc = 25 /\ saved_run)
        /\ UNCHANGED <<saved_run, shadow, events>>
    BY <1>5, MainFlow DEF SetRun, Advances, mainVars
  <2>2. CASE pc = 16
    <3>1. led_timer_run' = FALSE /\ pc' = 17
      <4>1. pc' = 17 /\ ~(pc = 25)
        BY <2>1, <2>2
      <4>2. led_timer_run' = FALSE
        BY <2>1, <4>1, Zenon
      <4>3. QED
        BY <4>1, <4>2
    <3>2. QED
      BY <1>1, <2>1, <2>2, <3>1
  <2>3. CASE pc = 25
    <3>1. led_timer_run' = saved_run /\ pc' = 26
      BY <1>1, <2>1, <2>3
    <3>2. QED
      BY <1>1, <2>1, <2>3, <3>1
  <2>4. QED
    BY <2>1, <2>2, <2>3
<1>6. CASE LedSwitch
  <2>1. pc = 28 /\ pc' = 1
    BY <1>6, MainFlow
  <2>2. /\ led_timer_run' = IF LedPin \in events THEN shadow[LedPin] ELSE led_timer_run
        /\ UNCHANGED <<saved_run, shadow, events>>
    BY <1>6 DEF LedSwitch, mainVars
  <2>3. QED
    BY <1>1, <2>1, <2>2
<1>7. CASE ~(LoadEvents \/ Stable \/ SaveRun \/ SetRun \/ LedSwitch)
  <2>1. UNCHANGED <<led_timer_run, saved_run, shadow, events>>
    BY <1>7 DEF Next, Processor, Main, Isr, Enter, Tick, Press, Toggle, Disable, Enable,
       ClearEvents, LoadRequest, ClearRequest, Sample, Process, SetMask, MainClearTimer,
       MainClearPic, Blink, TakeInterrupt, TakeInterruptInDisable, ReadPic, HandleTimer,
       CountTimer, ReadGpio, ClearGpio, Record, ClearPic, Mret, vars, shared, mainVars
  <2>2. /\ pc' \in 17 .. 25 => pc \in 17 .. 25
        /\ pc' \in 16 .. 25 <=> pc \in 16 .. 25
        /\ pc' \in 1 .. 2 => pc \in 1 .. 2
    <3>1. CASE pc' = pc
      BY <3>1
    <3>2. CASE pc' # pc
      <4>1. Main \/ TakeInterruptInDisable
        BY <3>2 DEF Next, Processor, Isr, Enter, Tick, Press, Toggle, TakeInterrupt, ReadPic,
           HandleTimer, CountTimer, ReadGpio, ClearGpio, Record, ClearPic, Mret, vars
      <4>2. \/ /\ pc \in {1, 3, 4, 7, 8, 9, 10, 14, 17, 18, 19, 20, 21, 22, 23, 24, 26, 27}
               /\ pc' = pc + 1
            \/ pc \in {5, 11} /\ pc' \in {pc + 1, pc + 2}
            \/ pc = 13 /\ pc' \in {14, 28}
        BY <1>7, <4>1, MainFlow DEF Main, Advances
      <4>3. QED
        BY <4>2
    <3>3. QED
      BY <3>1, <3>2
  <2>3. QED
    BY <2>1, <2>2
<1>8. QED
  BY <1>2, <1>3, <1>4, <1>5, <1>6, <1>7

\* What take_events and the handler clear.
LEMMA CopiedStep == TypeOK /\ Atomic /\ Copied /\ [Next]_vars => Copied'
<1> SUFFICES ASSUME TypeOK, Atomic, Copied, [Next]_vars PROVE Copied'
  OBVIOUS
<1> USE DEF Copied
<1>1. CASE Record
  <2>1. /\ isr.at = "record" /\ UNCHANGED <<pc, dropped>> /\ irq_events \subseteq irq_events'
        /\ EXT0 \in isr'.pending => EXT0 \in irq_events'
    BY <1>1, DistinctSources DEF Record, InIsr, TypeOK, EXT0
  <2>2. pc = 3 => dropped
    BY <2>1 DEF Atomic, Critical
  <2>3. QED
    BY <2>1, <2>2
<1>2. CASE LoadEvents
  BY <1>2 DEF LoadEvents, shared, At
<1>3. CASE ClearEvents
  BY <1>3 DEF ClearEvents, At
<1>4. CASE ~(Record \/ LoadEvents \/ ClearEvents)
  <2>1. UNCHANGED irq_events /\ (isr'.at = "clear_pic" => UNCHANGED isr)
    <3>1. CASE Isr
      <4>1. UNCHANGED irq_events
        BY <1>4, <3>1 DEF Isr, ReadPic, HandleTimer, CountTimer, ReadGpio, ClearGpio, ClearPic,
           Mret, shared
      <4>2. isr'.at # "clear_pic"
        <5>1. CASE ReadPic \/ ReadGpio
          BY <5>1 DEF ReadPic, ReadGpio, TypeOK
        <5>2. CASE HandleTimer \/ CountTimer \/ ClearGpio \/ ClearPic
          BY <5>2 DEF HandleTimer, CountTimer, ClearGpio, ClearPic, InIsr, TypeOK
        <5>3. CASE Mret
          BY <5>3 DEF Mret, NoIsr
        <5>4. QED
          BY <1>4, <3>1, <5>1, <5>2, <5>3 DEF Isr
      <4>3. QED
        BY <4>1, <4>2
    <3>2. CASE TakeInterrupt \/ TakeInterruptInDisable
      BY <3>2 DEF TakeInterrupt, TakeInterruptInDisable, Enter, shared, TypeOK
    <3>3. CASE ~(Isr \/ TakeInterrupt \/ TakeInterruptInDisable)
      BY <1>4, <3>3 DEF Next, Processor, Main, Tick, Press, Toggle, Disable, Enable, LoadRequest,
         ClearRequest, Sample, Stable, Process, SaveRun, SetRun, LedSwitch, SetMask,
         MainClearTimer, MainClearPic, Blink, vars, shared
    <3>4. QED
      BY <3>1, <3>2, <3>3
  <2>2. pc' = 3 => UNCHANGED <<pc, irq_bits, dropped>>
    <3>1. CASE Main \/ TakeInterruptInDisable
      BY <1>4, <3>1, MainFlow DEF Main, Advances
    <3>2. CASE ~(Main \/ TakeInterruptInDisable)
      BY <3>2 DEF Next, Processor, Isr, Enter, Tick, Press, Toggle, TakeInterrupt, ReadPic,
         HandleTimer, CountTimer, ReadGpio, ClearGpio, Record, ClearPic, Mret, vars, mainVars
    <3>3. QED
      BY <3>1, <3>2
  <2>3. QED
    BY <2>1, <2>2
<1>5. QED
  BY <1>1, <1>2, <1>3, <1>4

LEMMA PathInvInit == Init => PathInv
<1> SUFFICES ASSUME Init PROVE PathInv
  OBVIOUS
<1>1. TypeOK
  <2>1. pc \in Labels
    BY Positions DEF Init
  <2>2. isr \in [at: IsrSteps, pending: SUBSET Sources, status: SUBSET Pins]
    BY DEF Init, NoIsr, IsrSteps
  <2>3. QED
    BY <2>1, <2>2 DEF Init, TypeOK
<1>2. /\ pc = 1 /\ isr = NoIsr /\ timer_status = FALSE /\ pic_status = {}
      /\ led_timer_run = FALSE /\ shadow[LedPin] = FALSE
  BY PathConstants DEF Init
<1>3. Atomic /\ Locals /\ Requests /\ NoEchoedTick /\ Copied
  BY <1>2 DEF Atomic, Critical, Locals, Requests, NoEchoedTick, Copied, NoIsr
<1>4. Effects
  <2>1. pc \notin 16 .. 25 /\ pc \notin 17 .. 25 /\ ~led_timer_run
    BY <1>2
  <2>2. shadow[LedPin] = led_timer_run
    BY <1>2
  <2>3. QED
    BY <2>1, <2>2, Zenon DEF Effects
<1>5. QED
  BY <1>1, <1>3, <1>4 DEF PathInv

LEMMA PathInvStep == PathInv /\ [Next]_vars => PathInv'
BY TypeStep, AtomicStep, LocalsStep, RequestsStep, EffectsStep, CopiedStep DEF PathInv

\* The handler counts a timer interrupt only for a timer event that it has not
\* counted before and that the main loop has not thrown away.
THEOREM NoTickIsEchoed == Spec => []NoEchoedTick
<1>1. PathInv => NoEchoedTick
  BY DEF PathInv
<1>2. QED
  BY <1>1, PathInvInit, PathInvStep, PTL DEF Spec

\* During an effect the handler does not write the LEDs, and outside one
\* led_timer_run is the position of the debounced DIP0.
THEOREM OneOwnerOfLeds == Spec => []LedsHaveOneOwner
<1>1. PathInv => LedsHaveOneOwner
  BY UniqueLabels DEF PathInv, TypeOK, Effects, LedsHaveOneOwner, InEffect, RunHidden
<1>2. QED
  BY <1>1, PathInvInit, PathInvStep, PTL DEF Spec

\* No acknowledgement of the handler drops a press or an edge; take_events clears
\* what the main loop has, but for the critical sections whose csrc was lost.
THEOREM NoEventIsLost == Spec => EventsKept
<1>1. ASSUME PathInv, Next, NEW e \in Events, Pending(e), ~Pending(e)'
      PROVE  At("clear_events") /\ (e \in irq_bits \/ dropped)
  <2>1. TypeOK /\ Locals /\ Copied
    BY <1>1 DEF PathInv
  <2> USE <1>1 DEF Pending, Recorded
  <2>2. CASE Isr
    <3>1. CASE ReadPic
      BY <2>1, <3>1 DEF ReadPic, devVars, shared, Locals, TypeOK
    <3>2. CASE HandleTimer
      BY <2>1, <3>2, DistinctSources DEF HandleTimer, Devices, Levels, InIsr, shared, TypeOK
    <3>3. CASE CountTimer
      BY <2>1, <3>3 DEF CountTimer, InIsr, devVars, TypeOK
    <3>4. CASE ReadGpio
      BY <2>1, <3>4 DEF ReadGpio, devVars, shared, Locals, TypeOK
    <3>5. CASE ClearGpio
      BY <2>1, <3>5, DistinctSources DEF ClearGpio, InIsr, Devices, Levels, shared, TypeOK
    <3>6. CASE Record
      BY <2>1, <3>6 DEF Record, InIsr, devVars, TypeOK, EXT0
    <3>7. CASE ClearPic
      BY <2>1, <3>7 DEF ClearPic, InIsr, Devices, Levels, shared, Copied, TypeOK
    <3>8. CASE Mret
      BY <2>1, <3>8 DEF Mret, NoIsr, devVars, shared, TypeOK
    <3>9. QED
      BY <2>2, <3>1, <3>2, <3>3, <3>4, <3>5, <3>6, <3>7, <3>8 DEF Isr
  <2>3. CASE ClearEvents
    <3>1. pc = 3 /\ UNCHANGED <<devVars, isr>>
      BY <2>1, <2>3, MainFlow DEF ClearEvents
    <3>2. QED
      BY <2>1, <2>3, <3>1 DEF Copied, devVars, ClearEvents
  <2>4. CASE Tick \/ Press \/ \E p \in Pins : Toggle(p)
    BY <2>1, <2>4 DEF Tick, Press, Toggle, Devices, Levels, shared, TypeOK
  <2>5. CASE TakeInterrupt \/ TakeInterruptInDisable
    BY <2>1, <2>5 DEF TakeInterrupt, TakeInterruptInDisable, Enter, devVars, shared, TypeOK
  <2>6. CASE MainClearTimer \/ MainClearPic
    BY <2>1, <2>6, DistinctSources DEF MainClearTimer, MainClearPic, Devices, Levels, shared
  <2>7. CASE Main /\ ~(ClearEvents \/ MainClearTimer \/ MainClearPic)
    <3>1. UNCHANGED <<int_status, pic_status, isr, irq_events>>
      BY <2>7 DEF Main, Disable, Enable, LoadEvents, LoadRequest, ClearRequest, Sample, Stable,
         Process, SaveRun, SetRun, SetMask, Blink, LedSwitch, devVars, shared
    <3>2. QED
      BY <3>1
  <2>8. QED
    BY <2>2, <2>3, <2>4, <2>5, <2>6, <2>7 DEF Next, Processor
<1>2. PathInv /\ [Next]_vars
        => [\A e \in Events : Pending(e) /\ ~Pending(e)'
             => At("clear_events") /\ (e \in irq_bits \/ dropped)]_vars
  BY <1>1
<1>3. QED
  BY <1>2, PathInvInit, PathInvStep, PTL DEF Spec, EventsKept
=============================================================================

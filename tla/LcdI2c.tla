------------------------------- MODULE LcdI2c -------------------------------
(***************************************************************************)
(* sw/lib/lcd_i2c.c over i2c.c and I2cMaster: full_demo, which initialises *)
(* the display and then uses it without looking at results, and i2c_scan.  *)
(* The display is external: an HD44780 with a four-bit bus on the outputs  *)
(* of the PCF8574 expander.                                                *)
(*                                                                         *)
(* A call is the list of bytes it writes to the expander (todo); it ends   *)
(* with the first one that fails.                                          *)
(***************************************************************************)
EXTENDS I2cMaster

CONSTANTS Chars,           \* characters the program writes
          MaxCalls,        \* bound: calls after the initialisation
          MaxFaults        \* bound: disturbed bits, missing acknowledges, resets

ASSUME LcdAssumption == /\ Address \in 1..126 /\ Chars \subseteq 0..255
                        /\ MaxCalls \in Nat /\ MaxFaults \in Nat

VARIABLES
    app,          \* "demo", "scan", or "off": the display is not used
    call,         \* the bytes the current call is to send to the display
    todo,         \* the i2c_write_cmds it still makes, the current one first
    sent,         \* byte of the current i2c_write_cmd, NoByte between two
    backlight,
    result,       \* of the last call, Running during one
    clean,        \* every call since the last reset has returned 0
    found,        \* addresses the scan has found
    out,          \* outputs of the expander
    mode, half,   \* of the display: bits of its bus, first nibble of a byte
    executed,     \* the last bytes it has executed in this call
    made, faults \* counters
lcdVars == <<mode, half, executed>>
callVars == <<app, call, todo, sent, backlight, result, clean, found, made>>
lcdI2cVars == <<i2cVars, callVars, out, lcdVars, faults>>

-----------------------------------------------------------------------------
(* The display *)

LCD_RS == 1
LCD_RW == 2
LCD_ENABLE == 4
LCD_BACKLIGHT == 8
Has(v, flag) == (v \div flag) % 2 = 1
NoHalf == -1
Running == 1
Window == 5

Executes(byte) ==
    LET all == Append(executed, byte)
    IN  executed' = IF Len(all) > Window THEN Tail(all) ELSE all
\* The enable line falls with v on the others.  A function set (001b in the
\* upper bits) chooses the width of the bus.  A read takes its half, too.
Latch(v) ==
    LET nibble == v \div 16
        byte == 16 * half + nibble
        FunctionSet(n) == ~Has(v, LCD_RS) /\ n \in {2, 3}
        Width(n) == IF n = 3 THEN 8 ELSE 4
    IN  CASE Has(v, LCD_RW) /\ mode = 4 ->
                 half' = (IF half = NoHalf THEN 0 ELSE NoHalf) /\ UNCHANGED <<mode, executed>>
          [] Has(v, LCD_RW) /\ mode = 8 -> UNCHANGED lcdVars
          [] ~Has(v, LCD_RW) /\ mode = 8 ->
                 /\ mode' = IF FunctionSet(nibble) THEN Width(nibble) ELSE mode
                 /\ Executes(16 * nibble) /\ UNCHANGED half
          [] ~Has(v, LCD_RW) /\ mode = 4 /\ half = NoHalf ->
                 half' = nibble /\ UNCHANGED <<mode, executed>>
          [] OTHER ->
                 /\ mode' = IF FunctionSet(half) THEN Width(half) ELSE mode
                 /\ Executes(byte) /\ half' = NoHalf
\* The expander sets its outputs when it acknowledges a byte; lines that change
\* together with the enable line may be read before or after.
Expander ==
    IF receiver'.ack /\ ~receiver.ack /\ receiver.at = "data"
    THEN /\ out' = receiver.byte
         /\ IF Has(out, LCD_ENABLE) /\ ~Has(out', LCD_ENABLE)
            THEN Latch(out) \/ Latch(out')
            ELSE UNCHANGED lcdVars
    ELSE UNCHANGED <<out, lcdVars>>

-----------------------------------------------------------------------------
(* lcd_i2c.c: the i2c_write_cmds of each call, up to the first that fails. *)

i2c_write_cmd(byte, flags) == <<[byte |-> byte, flags |-> flags \cup {"write"}]>>
lcd_expander_write(value) ==
    i2c_write_cmd(2 * Address, {"start"}) \o i2c_write_cmd(value, {"stop"})
lcd_pulse_enable(value) ==
    lcd_expander_write(value + LCD_ENABLE) \o lcd_expander_write(value)
lcd_write_nibble(nibble, flags) ==
    LET value == 16 * (nibble % 16) + flags
    IN  lcd_expander_write(value) \o lcd_pulse_enable(value)
lcd_send(value, flags) ==
    lcd_write_nibble(value \div 16, flags) \o lcd_write_nibble(value, flags)
lcd_command(command, light) == lcd_send(command, light)
lcd_i2c_putc(value, light) == lcd_send(value, LCD_RS + light)

InitCommands == <<40, 8, 1, 6, 12>>
Nibble(n) == lcd_write_nibble(n, LCD_BACKLIGHT)
Setup(i) == lcd_command(InitCommands[i], LCD_BACKLIGHT)
SetupAll == Setup(1) \o Setup(2) \o Setup(3) \o Setup(4) \o Setup(5)
\* Mutant: one nibble of 3 less.
lcd_i2c_init_short == Nibble(3) \o Nibble(3) \o Nibble(2) \o SetupAll
lcd_i2c_init == Nibble(3) \o Nibble(3) \o Nibble(3) \o Nibble(2) \o SetupAll

row_offsets == <<0, 64, 20, 84>>
set_cursor(column, row) ==
    128 + column + row_offsets[(IF row > 3 THEN 3 ELSE row) + 1]
\* clear, home, display off and on, the rows.
DemoCommands == {1, 2, 8, 12} \cup {set_cursor(0, row) : row \in {1, 3, 4}}

scan_write(address) == i2c_write_cmd(2 * address, {"start", "stop"})
ScanWrites == scan_write(Address - 1) \o scan_write(Address) \o scan_write(Address + 1)

-----------------------------------------------------------------------------
(* The programs *)

LcdInit ==
    /\ I2cInit
    /\ app \in {"demo", "scan"}
    /\ call = IF app = "demo" THEN InitCommands ELSE <<>>
    /\ todo = IF app = "demo" THEN lcd_i2c_init ELSE ScanWrites
    /\ sent = NoByte /\ backlight = LCD_BACKLIGHT
    /\ result = Running /\ clean = TRUE /\ found = {} /\ made = 0
    /\ out \in {0, 16 + LCD_ENABLE, 32 + LCD_ENABLE + LCD_RS}
    /\ \/ mode = 8 /\ half = NoHalf
       \/ mode = 4 /\ half \in {NoHalf, 0, 2, 3}
    /\ executed = <<>> /\ faults = 0

\* What the programs do with the display after lcd_i2c_init; they look at no
\* result (full_demo main.c:168-199, 704-716).
LcdCall ==
    /\ app = "demo" /\ result # Running /\ made < MaxCalls
    /\ \/ \E c \in DemoCommands :
            call' = <<c>> /\ todo' = lcd_command(c, backlight) /\ UNCHANGED backlight
       \/ \E c \in Chars :
            call' = <<c>> /\ todo' = lcd_i2c_putc(c, backlight) /\ UNCHANGED backlight
       \/ \E light \in {0, LCD_BACKLIGHT} :
            call' = <<>> /\ todo' = lcd_expander_write(light) /\ backlight' = light
    /\ result' = Running /\ executed' = <<>> /\ made' = made + 1
    /\ UNCHANGED <<i2cVars, app, sent, clean, found, out, mode, half, faults>>

WriteStarts ==
    /\ todo # <<>> /\ sent = NoByte
    /\ Command(Head(todo).flags, Head(todo).byte)
    /\ sent' = Head(todo).byte
    /\ UNCHANGED <<app, call, todo, backlight, result, clean, found, made,
                   out, lcdVars, faults>>

\* The polls of i2c_wait_idle end when TIP is down; no time-out is that short.
\* A call ends with a failure, the scan goes on; without a display full_demo
\* does not use it.
WriteReturns ==
    /\ sent # NoByte /\ ~transfer_in_progress
    /\ sent' = NoByte
    /\ LET failed == WriteResult # 0
           ends == (app = "demo" /\ failed) \/ Len(todo) = 1
       IN  /\ todo' = IF ends THEN <<>> ELSE Tail(todo)
           /\ result' = IF ~ends THEN result ELSE IF app = "scan" THEN 0 ELSE WriteResult
           /\ clean' = (clean /\ ~(app = "demo" /\ failed))
           /\ found' = IF app = "scan" /\ ~failed THEN found \cup {sent \div 2} ELSE found
           /\ app' = IF app = "demo" /\ failed /\ made = 0 THEN "off" ELSE app
    /\ UNCHANGED <<i2cVars, call, backlight, made, out, lcdVars, faults>>

-----------------------------------------------------------------------------
(* The bus, and what goes wrong *)

BusTick(pull, accepts) ==
    /\ Tick(sent, pull, accepts) /\ Expander
    /\ UNCHANGED callVars
MasterTick == BusTick(FALSE, TRUE) /\ UNCHANGED faults

BitDisturbed == BusTick(TRUE, TRUE)
AckMissing == receiver.n = 8 /\ BusTick(FALSE, FALSE) /\ ~scl_low /\ scl_low'
\* The display keeps its power.
BoardReset ==
    /\ app = "demo"
    /\ I2cReset
    /\ call' = InitCommands /\ todo' = lcd_i2c_init /\ sent' = NoByte
    /\ backlight' = LCD_BACKLIGHT /\ result' = Running /\ clean' = TRUE
    /\ made' = 0 /\ executed' = <<>>
    /\ UNCHANGED <<app, found, out, mode, half>>
LcdFault ==
    /\ faults < MaxFaults /\ faults' = faults + 1
    /\ BitDisturbed \/ AckMissing \/ BoardReset

LcdNext == LcdCall \/ WriteStarts \/ WriteReturns \/ MasterTick \/ LcdFault
LcdSpec == LcdInit /\ [][LcdNext]_lcdI2cVars

-----------------------------------------------------------------------------
\* i2c.c:45: 0 means that the receiver has acknowledged this very byte, though
\* bits or acknowledges may have been lost and a START not been seen
\* (i2c_wb.v:184, 215).
ReturnTells ==
    sent # NoByte /\ ~transfer_in_progress /\ WriteResult = 0 => taken = sent

\* lcd_i2c.c:68, 55: whatever state a reset or an unfinished call has left the
\* display and its expander in, after lcd_i2c_init has returned 0 and as long
\* as no call has failed since, it has executed exactly the bytes of each call,
\* with both halves in step; and with nothing disturbed nothing fails.
LcdInSync ==
    /\ app = "demo" /\ result = 0 /\ clean =>
           mode = 4 /\ half = NoHalf /\ executed = call
    /\ faults = 0 => /\ result \in {0, Running}
                     /\ app = "scan" /\ result = 0 => found = {Address}
=============================================================================

# MiniSoC with a Kyber-512 accelerator: a TLA+ verification project

The repository is a small system on chip: a two-stage RV32I processor, a
Wishbone bus with memories and peripherals, a Kyber-512 KEM accelerator, the
bare-metal firmware that drives them, and the C reference of the KEM the
accelerator is tested against. This directory holds TLA+ modules
translated from that code, the TLC configurations that check them on small
instances, and proofs, checked by TLAPS, of what holds for every instance.

Run everything from this directory:

    tlc -workers 2 -config RvPipeline.cfg MCRvPipeline      # a model-checking run
    tlapm RvPipelineProofs.tla                              # a proof module

`PROJECT.json` lists the runs, the theorems, the hazards, and for every
definition that models code the file and the lines it was translated from.
Operators marked *mutant* or *a bug to detect* in the modules are deliberately
wrong variants of the definition they stand next to: with one of them in its
place the run must report the property that `PROJECT.json` names. They show that
each property can fail.

---------------------------------------------------------------------------

## 1. Inventory of the system

### Components, their state and their operations

| Component | Source | State | Operations |
|---|---|---|---|
| CPU core | `rtl/cpu/rv32i_2stage_wb.v` | `pc`, `fetch_pc`, IF/ID, ID/EX, the bus port, pending flags, 6 CSRs, 32 registers | fetch, decode with bypass, execute, load/store, redirect, trap, interrupt entry, `mret` |
| Bus interconnect | `rtl/bus/wb_interconnect.v`, `rtl/soc_top.v` | `none_err_pending` | address decode, answer multiplexing, error for unmapped addresses |
| Memories | `rtl/mem/*.v` | arrays, an acknowledge bit each | single-cycle read and write |
| Timer | `rtl/periph/timer_wb.v` | counter, reload, mode, `status_reg` | count, reload, one-shot, read and clear STATUS |
| GPIO | `rtl/periph/gpio_wb.v` | outputs, synchronised inputs, `int_status` | edge and level latches, write-1-to-clear |
| PIC | `rtl/periph/pic_wb.v` | `pic_status`, `pic_mask` | latch sources, mask, write-1-to-clear |
| Button filter | `rtl/board/zcu102_soc_wrapper.v:237` | synchroniser, debounce counter | one pulse per press |
| UART | `rtl/periph/uart_wb.v` | two 32-entry FIFOs, shift registers, error flags | send, receive, status read-and-clear |
| I2C master, LCD driver | `rtl/periph/i2c_wb.v`, `sw/lib/i2c.c`, `lcd_i2c.c` | bit and byte state machine, arbitration and acknowledge flags; the display's cursor and backlight | start, byte, stop; initialise, command, text |
| Kyber bus wrapper | `rtl/kyber/kyber_wb_slave.v`, `kyber_ext_data_bram.v` | access pipeline, opcode, start and reset pulses, done/error/interrupt latches, seed, data window | register accesses, start, soft reset, acknowledge |
| Kyber core FSM | `rtl/kyber/kyber512_core_fsm.v` | 35 states, some 45 control registers, polynomial banks, 8-entry coefficient FIFO | KeyGen, Encaps, Decaps |
| Kyber units | `rtl/kyber/kyber_*.v`, `kyber512_ct_*.v`, `keccak_*.v` | a state machine each | hash/PRF/XOF, noise, NTT, rejection sampling, multiply-accumulate, pack, unpack, compare |
| Kyber arithmetic | `kyber_pqc_math.v`, `kyber_pwma_local.v`, `kyber_codec_blocks.v`, `keccak_round_function.v`, ... | pipeline registers | reductions, butterflies, base multiplication, accumulation, compression, Keccak rounds |
| Kyber driver | `sw/lib/kyber.c` | none of its own; the accelerator's | `kyber_keygen`, `kyber_encaps`, `kyber_decaps`, `kyber_wait_done` |
| Demo firmware | `sw/apps/full_demo/main.c`, `sw/trap.S`, `sw/lib/irq.c`, `pic.c`, `timer.c`, `gpio.c` | `irq_events`, `dip_sample_request`, `led_timer_run`, `dip_shadow`; key and ciphertext buffers with `have_keypair`, `have_capsule` | interrupt handler, main loop, LED effects, switch actions |
| UART bootloader, loader | `sw/apps/uart_bootloader/main.c`, `sw/tools/uart_loader.py` | packet parser, IMEM being written; the loader's stage | handshake, binary packets, Intel HEX, jump to the program; time-outs, exit codes |
| Other firmware | `sw/apps/*` | none | smoke tests and demonstrations |
| Host tools, scripts, FPGA flow | `tools/`, `scripts/`, `fpga/` | - | build, test, program, serial GUI |
| Reference KEM | `kyber/ref/` | the incremental sponge's position | key generation, encapsulation, decapsulation; SHA-3 and SHAKE; polynomial arithmetic on `int16_t` |

### Interactions

The CPU is the only bus master. One port carries both fetches and data accesses,
so an answer belongs to whichever is pending. Peripherals raise levels or pulses
that the PIC latches; its line is `irq_i` of the core, which samples it only at
certain cycles. The handler (`trap.S`, then `soc_irq_handler`) and the main loop
share variables and devices, and protect the sharing with
`irq_global_disable`, one `csrc mstatus`. The driver talks to the accelerator's
wrapper by polling; the wrapper talks to the core with a start pulse, a
one-clock `done`, a `busy` level that lags behind, and a dual-ported data
window that core and master both see. Inside the core the FSM starts the units with
one-clock pulses and learns that they have finished from one-clock pulses, which
nobody latches for it unless it does so itself; the matrix sampler, the sponge
and the FIFO stream coefficients beside it all the time. The programs
of the firmware run one after the other on the same peripherals: the
bootloader jumps to the program it has received, whose first act on the UART
is to empty its FIFOs. The loader on the host knows the board only through what
the board prints.

### What is hard, and what makes each component correct

* **CPU.** The instruction in EX commits in the same cycle in which the next is
  decoded and the one after is fetched, and the trap and redirect logic sees
  all three. Correct: the pipeline does what a machine does that executes one
  instruction after the other, with traps only between two of them; every
  operand is current; no fetched word of a wrong path is executed; an enabled
  interrupt is not missed for ever.
* **Wrapper.** Pulses and levels that overlap by one clock: a start is not yet
  `busy`, a completion may meet the acknowledgement of the previous one, a soft
  reset may meet a `done`. Correct: a completion seen means an idle core; a
  start is never lost on a busy one; the inputs are frozen from start to end.
* **Driver.** It may give up on a call and make another one. Correct: what a
  call returns derives from that call's inputs alone; no access is refused;
  the poll ends.
* **Core FSM.** 35 states, banks and registers shared by all three operations,
  a stream that runs beside them, hand-made handshakes, no clearing of memory
  on reset. Correct: each operation computes the KEM's function of its inputs
  whatever happened before, and ends; parties agree exactly when the ciphertext
  is untouched.
* **Coefficient stream.** No back-pressure on what the sampler has already
  committed. Correct: nothing is lost, doubled or cut from another polynomial's
  data; the FIFO does not overrun; the matrix arrives.
* **Interrupt path.** Latches at three levels that are acknowledged in a certain
  order, while events go on arriving. Correct: no press or edge is lost between
  pin and main loop; no interrupt is served twice; an LED effect owns the LEDs;
  the firmware's idea of the switches becomes right.
* **Arithmetic.** Reductions that are valid for a range of inputs, sums that grow
  layer after layer in 16 bits, divisions by multiplication that may be wrong for
  one coefficient in 3329. Correct: nothing leaves its range, and accelerator and
  reference agree on every residue.
* **Reference.** A sponge fed in pieces; a rejection key that must come out
  whenever one bit differs. Correct: the cuts do not matter, the vectors are
  reproduced, decapsulation agrees exactly with untouched ciphertexts.
* **UART.** A push, a pop and a clear in one clock, on a full or empty FIFO; a
  program that ends while bytes are still to be sent. Correct: both FIFOs are
  queues; nothing a program printed is thrown away by the next.
* **Bootloader and loader.** Lost and garbled bytes, a board that prints while
  its FIFO fills up, a loader stopped in a packet. Correct: only loadable regions
  are written, what is started is what was sent, exit code 0 tells the truth,
  every attempt ends.
* **I2C and LCD.** Disturbed bits, missing acknowledges, a display that takes
  nibbles and does not know where a byte begins. Correct: a call that returns 0
  has delivered its bytes, and initialisation recovers from any state.
* **Demo's key exchange.** Steps that fail half way, with flags that say which
  buffers are good. Correct: the flags are true.

`PROJECT.json` lists 40 hazards at their lines, each with the properties that
would catch it or the reason why none does yet.

---------------------------------------------------------------------------

## 2. Modules

    RvInstr  <--extends--  RvIsa          the sequential machine (abstract)
       ^---------extends-- RvPipeline     the two-stage core; INSTANCE RvIsa WITH ...
                              ^-- MCRvPipeline, RvPipelineProofs

    KyberSlave               the accelerator's bus wrapper, any master
       ^-- KyberDriver       ... with sw/lib/kyber.c as master, after another one
              ^-- MCKyberDriver, KyberDriverProofs

    KyberTerms <-- KyberKem  the KEM of kyber/ref, as functions on terms (abstract)
                      ^-- KyberCore       the FSM and its units
                             ^-- KyberCoreProofs

    XofStream                sampler, sponge and FIFO, clock by clock
       ^-- XofStreamProofs

    KyberReduce <-- KyberNtt <-- KyberMul        products, on both sides
                       ^-- KyberCodec <-- KyberSweep    conversions, every coefficient
    Keccak <-- Fips202 <-- Shake                 the sponge, fed in pieces
    KyberCodec, Fips202 <-- KyberScheme <-- KyberKat     kem.c on its vectors
    KyberMul, KyberSweep <-- KyberMulProofs
    KyberMul, KyberSweep, Shake, KyberKat <-- KyberRef <-- MCKyberRef
    (EagerFunctions: helper of Keccak and KyberCodec)

    InterruptPath            timer, GPIO, button, PIC, trap.S, full_demo
       ^-- InterruptPathProofs

    Bootloader <-- UartLoad <-- MCUartLoad       the board and uart_loader.py
                      ^-- UartLoadProofs

    BoundedFifo              what a FIFO promises (abstract)
    UartPort                 uart_wb.v and uart.c; INSTANCE BoundedFifo WITH ...
    I2cMaster <-- LcdI2c     i2c_wb.v, i2c.c, lcd_i2c.c and the display
    DemoFlow                 the key exchange of full_demo
    UartPort, LcdI2c, DemoFlow <-- Firmware
                                      ^-- FirmwareProofs

### `RvInstr`, `RvIsa`, `RvPipeline`: the processor

`RvInstr` has what an instruction does by itself: the classes the decoder tells
apart, the adders, the CSR file, trap entry. An instruction is a record of the
decoder's outputs instead of a bit pattern. Addresses count half-words: bit 0 of
a program counter is always 0 in the code, and bit 1, which the code checks, is
the parity. The ALU is an adder and branches compare for equality; the other
functions do not change the control.

`RvIsa` is what the core promises: its state is what a programmer sees
(`arch = [pc, regs, csr, mem]`), its steps are a whole instruction, a whole
trap entry, or an instruction followed by a trap entry (the hardware does both
in one cycle). It knows no pipeline.

`RvPipeline` is the clocked process of `rv32i_2stage_wb.v`. A step is a clock
edge at which something happens; cycles that only wait for the bus are stuttering,
so a slave may take any time. One action per branch of the clocked process:
`TrapAtFetch` (685), `Redirect` (711), `DataAccess`, `Advance`, `TrapAtMem`,
`AdvanceAfterMem`, `TrapWhenIdle`, `IssueWhenIdle`; the combinational signals
have their names from the code (`exec_irq_pending`, `exec_control_redirect`,
`trap_taken`, ...). `irq` changes at any time. The refinement mapping is
`Machine == INSTANCE RvIsa WITH arch <- [pc |-> ArchPc, ...]`: an instruction in
EX has not happened yet, so the programmer's pc is that of EX if EX is valid,
else the address in flight, else `pc`.

### `KyberSlave`, `KyberDriver`: the accelerator as software sees it

`KyberSlave` is the wrapper clock by clock: the access accepted in one cycle
(`pending`), answered in the next (`reply`); one action per register that can be
written; `Latched` is the part of the clocked process that runs in every cycle,
and its order with respect to the register writes is that of the code. The core
behind it is reduced to what the wrapper can see: the stages at which it reads an
input region, writes an output region or looks at the opcode again, each for any
number of cycles. Regions of the data window hold a *token*: whose data it is,
or `Torn` when two calls' data is mixed or half written. `Spec` lets an
arbitrary master issue any request.

`KyberDriver` replaces the master by the three functions of `kyber.c`: a call is
the list of its bus accesses, the loop of `kyber_wait_done`, and a second list
that collects results. `PollGivesUp` is the timeout at any time at all. Any
time may pass between two accesses (`Elsewhere`), and before the program that
makes the calls another one may own the bus (`OtherRuns`) and access the wrapper with
any of `OtherRequests`: the properties of the driver hold in whatever state it has left
the wrapper when the second program starts (`HandOver`), an operation under way included.
Those of the wrapper are checked under both programs.

### `KyberTerms`, `KyberKem`, `KyberCore`: what the accelerator computes

Values are terms: the expression that produced a polynomial or a hash. Two are
equal exactly when they were produced in the same way from the same inputs, so a
wrong bank, nonce, order, a stale accumulator or a transposed matrix all show,
and arithmetic does not clutter the model. `KyberKem` has the KEM of
`kyber/ref/kem.c` and `indcpa.c` as three functions on terms; decryption
recovers the message of an honest ciphertext and gives noise for any other.

`KyberCore` is the FSM: an action per state (`KgLoadSeed` ... `DecPack`), with
the control registers of the code as fields of `ctl` under their names, the banks
and data registers as `mem`, the data window as `ext`. A loop over the words of
one object is one step; a unit runs for any time, then its done output is up
for one clock (`pulse`), and what the FSM does not look at in that clock is
gone: only the ciphertext packer holds its done. The host may start any
operation when the core is idle, overwrite a part of the ciphertext, and reset
the core at any step; a reset clears the
control registers and neither data registers nor memory.

### `XofStream`: the coefficient stream

The sampler's states with the bit count of its buffer, the sponge's XOF states
with the word it shows, and the FIFO with its pointers, one clock of all three
per step. Candidates are accepted or rejected freely, the permutation takes any
time, the consumer takes pairs when it likes. Each coefficient carries which
polynomial and index it is, or `Stale` if the words it was cut from were not
that polynomial's, in order.

### `KyberReduce`, `KyberNtt`, `KyberMul`: the arithmetic, on both sides

`KyberReduce` has the functions of `reduce.c` and the accelerator's pipelined
units as the values they compute, with every truncation to 16 bits and with the
units' shifts and adds in place of multiplications. `KyberNtt` has one layer of
each transform for each side. `KyberMul` computes a sum of K products twice, a
layer, a product or a pass per step: `p`, `r` are the reference's polynomials,
`hp`, `hr` the accelerator's. With `keygen` the sum stays in the transformed
domain, as for the public key; without, it is transformed back, as for
ciphertexts and messages. The product modulo X^256 + 1 by its definition is the
third opinion.

### `KyberCodec`, `KyberSweep`: conversions

Compression, packing, messages and samplers of `poly.c`, `polyvec.c`, `cbd.c` and of
`kyber_codec_blocks.v`, `kyber_cbd_sampler.v`. `KyberSweep` takes every
coefficient from 0 to q-1 through all of them.

### `Keccak`, `Fips202`, `Shake`; `KyberScheme`, `KyberKat`

`Keccak` is the permutation as `fips202.c` unrolls it, two rounds at a time, and
as `keccak_round_function.v` does a round; a lane is the set of its bits.
`Fips202` is the sponge with its incremental interface, `Shake` a caller who cuts
message and output as the interface allows. `KyberScheme` is `kem.c` and `indcpa.c`
to the byte, a function call per step and with the parameters of K = 2, 3, 4;
`KyberKat` is the test the demos make of it: key pair, encapsulation, perhaps one
bit inverted, decapsulation, from the seeds of `kyber_demo_ref.h`.
`KyberRef` puts the four tasks into one system: a behaviour is one of them.

### `InterruptPath`: events from the pin to the main loop

One access to a device or to a shared variable per step. `Program` is the list of
the main loop's accesses in order (take_events, sample_dip_events,
process_events with the blink effect, DIP0's switching of the LEDs); the handler
is `isr.at`, from `read_pic` to `mret`. Devices step in between: `Tick`,
`Press`, `Toggle`. The PIC latches its sources in every cycle, so a level which
is still up comes back after a clear. `TakeInterruptInDisable` is the one thing
the model takes from `RvPipeline`: an interrupt taken while the `csrc` of
`irq_global_disable` is in EX returns behind it with interrupts still on
(section 6). Of the actions the switches select, only DIP0's touches what
the interrupt path reads.

### `Bootloader`, `UartLoad`: loading a program

`Bootloader` is `main.c` a received byte at a time: `pc` says what the next byte is,
from the magic of a packet or the colon of a record to the checksum, and
what is done before it is read. The check `write_payload_byte`
repeats for each byte (errors 0x12 and 0x26) is left out: `ByteCheckIsRedundant`.
Bytes arrive in the receive FIFO whether or not the program reads; while it prints an error it does not, and a full FIFO drops
them. `UartLoad` is the other end, `uart_loader.py`: probe, wait for the answer,
stream, wait for the verdict, exit code; the line, which loses or garbles
a byte; and the user, who presses reset, stops the loader and starts it again.
Its `doubt` records what may excuse a wrong verdict.

### `UartPort`, `BoundedFifo`: the serial port across programs

A step of `UartPort` is a clock with at most one register access. The FIFOs are the
registers of `uart_wb.v` (memory, two pointers, count), so that what is taken
and given in the same clock is decided as it is there. `FifosAreQueues` is the
refinement: under `Contents` each FIFO is the queue of `BoundedFifo`. Programs run
one after the other; each begins with `uart_init_div` and ends with
`uart_wait_tx_idle`, as the bootloader's `jump_to` does.

### `I2cMaster`, `LcdI2c`: the display

`I2cMaster` has the states of `i2c_wb.v` a bit at a time, with the receiver that listens
at the other end: a START it may miss, a bit that is held low. `LcdI2c` has
`i2c_write_cmd` and the driver on top: each call is the list of bytes it
writes to the expander and ends with the first that fails. The display takes
what falls on its bus at a falling E, in the width its mode says.

### `DemoFlow`, `Firmware`

`DemoFlow` is the order of calls in `run_keygen_demo`, `run_encaps_demo` and
`run_decaps_demo` with what each failure skips. `Firmware` runs display, port and
key exchange as three kinds of behaviour: they share nothing.

---------------------------------------------------------------------------

## 3. Runs

| Run | Configuration | Distinct states | Shows |
|---|---|---|---|
| `cpu` | 3 words, x0 and x1, every program of three of 17 instructions, any interrupt timing | 99,054 | `PreciseSteps`: every step of the pipeline is a step of `RvIsa`, but for the traps of `TrapDropsEx`, which lose the effect of one instruction and nothing else; the bus port, the order of what is in flight and the forwarded operands are right; an enabled interrupt whose line stays up is taken |
| `cpu_irq_boundary` | as `cpu` | violated | finding 1 of section 6 |
| `kyber_bus` | three driver calls, each may be given up, another program with operations of any kind before them | 640,404 | done means idle, starts meet idle cores, inputs are frozen; results are of this call only, no access is refused, completions raise the interrupt, calls return |
| `irq_path` | a pin of each kind (DIP0, one action pin), one press, two switch movements | 427,836 | no event lost, no echo, one owner of the LEDs at a time, the firmware's view of the switches becomes right |
| `kyber_core` | two seeds, three operations, one ciphertext part replaced | 70,595 | two parties agree exactly when the ciphertext is untouched |
| `kyber_core_reset` | two operations, a soft reset at any step | 39,655 | every completed operation is the reference's function of its inputs; an idle FSM has left nothing running; every operation ends |
| `xof_stream` | 12 coefficients, 4 polynomials, blocks of 2 words, up to 6 rejections per polynomial | 2,386 | no overrun, coefficients complete and in order, all delivered |
| `kyber_ref` | products of 7 sets of polynomials with K = 2; all 3,329 coefficients; messages of up to two pieces of 1, 136, 167 bytes; K = 2, 3, 4 with no bit or a bit of byte 0 or 700 inverted | 4,352 | no overflow in the reference, the accumulator stays below q, both sides give the product; conversions and reductions agree; cuts do not matter; vectors are reproduced; inverted bits are rejected |
| `kyber_encode1` | all coefficients | violated | finding 2 |
| `uart_load` | six files (packets for IMEM, for SRAM, one with a range that wraps; three HEX files), words of 2 bytes, FIFO of 3, three attempts, two faults | about 338,000 | only loadable regions are written; what is started is what was sent; exit codes tell; attempts end |
| `uart_probe` | two attempts, one fault | violated | finding 3 |
| `firmware` | FIFOs of 2; two display calls after initialisation, two disturbances; any round of the demo | 1,065,036 | both FIFOs are queues, everything printed is sent; 0 means delivered, the display stays in step; the flags tell the truth |

### Why the bounds are enough

* **CPU.** What is in the pipeline at a time is three instructions: EX, IF/ID or
  in flight, and the one being addressed. Three words hold every sequence of
  three classes, and in three words the pc wraps, jumps reach their own
  neighbours, and half-word addresses occur. One writable register is enough for
  a hazard between two instructions; x0 is the one that is never written. The
  proofs lift all four invariants and the refinement to every size.
* **Wrapper and driver.** The wrapper's properties are about the overlap of at most two
  accesses and one operation, and the other program's accesses are unlimited in number; the
  data identity only has to differ from `Torn`. That program (`MCOtherRequests`) starts and
  resets operations of all three kinds, writes every register, and writes one datum to the
  seed, the secret key and the shared secret. Left out are its writes to PK and CT, which the wrapper
  treats as those to SK and SS, reads other than of STATUS and SS, which change nothing, and
  an enabled interrupt, which only `irq_o` shows. The proofs leave out nothing: they hold for
  any set of requests and of data. A leftover of call *n* can reach call *n+1*; three calls also let it skip
  one.
* **Core.** A key pair, an encapsulation and a decapsulation are three operations;
  two of any kind, the first possibly abandoned at any step, are what leftovers need.
  An honest key pair and ciphertext (`D0`, `M0`) are in the data window at the start, so
  that every operation is meaningful as the first one. K = 2 is the design's.
  Two seeds tell one party's key from another's. `MaxTampers = 1` replaces any one of
  the three parts of a ciphertext, and a decapsulation of a good one can
  follow a decapsulation of a bad one. The run with resets has no tampering:
  a decapsulation of what lies in the data window instead of a ciphertext reaches the rejection there.
* **Stream.** A 64-bit word holds five 12-bit candidates and four bits over; 12
  coefficients take three words and so span blocks of two; four polynomials are
  the matrix's; six rejections are more than a whole word.
* **Interrupt path.** One press meets the handler at each of its steps. Two
  movements: one switch there and back, within one turn of the main loop
  or over several, or both switches at once.
* **Reference.** The arithmetic is the full-size one. The polynomials of `MCKyberRef`
  are extreme, sparse and irregular; for all others the ranges and the
  agreement are theorems. The sweeps are exhaustive. Pieces of 1, 136 and 167
  bytes end before, at and behind a block of either rate; two of them cross one. A
  flipped bit of byte 0 or 700 lies in u or in v of the ciphertext.
* **Loading.** Words of two bytes keep every field and the wrapping of an address
  range. A second attempt meets what a first one left, a third one what the two left;
  with two faults a byte may be lost and the loader stopped.
* **UART.** With Depth = 2 a FIFO is empty, full or neither, and its pointers wrap in
  different places; byte numbers count modulo Depth + 1, enough to tell apart what
  FIFO and line hold. The theorems hold for every depth.
* **Display.** A call after initialisation leaves the display in the state in which
  all later calls find it; two disturbances hit any two bits.

Deadlock is checked except where a behaviour may end: a task of `kyber_ref` and the
sweep of `kyber_encode1` are finite computations, in `uart_load` and `uart_probe` the
attempts are used up, in `firmware` a program may rest.

### Fairness, and why the code justifies it

* `RvPipeline`: WF of `Clock`. The clock runs and every slave acknowledges or
  errs. Nothing is assumed of `irq_i`: the property says that the line does
  not stay up, enabled, for ever without effect. A program made of loads and stores
  only, wrapped around the address space, never reaches a sampling point; no
  firmware is one, and the run leaves those out by name (`HasSamplingPoint`).
* `KyberDriver`: WF of `CoreRuns` (each stage of the core ends: what
  `OperationEnds` shows one level down) and of `DriverRuns` (the processor
  reaches its next access). The timeout need not ever happen.
  Nothing is assumed of the other program.
* `KyberCore`: WF of `Fsm` and of `Unit`, the second weaker than that each unit
  ends. The host owes nothing.
* `XofStream`: WF of the clock, of a step in which the permutation ends (it has
  24 rounds) and of one in which the consumer is ready (it waits for
  a DMA of fixed length at most).
* `InterruptPath`: WF of `Tick` (the timer runs), WF of `Processor`; SF of
  `TakeInterrupt` (what `IrqNotIgnored` shows of the core) and of `Main` (a
  timer period is long enough for the main loop to get on between two runs of
  the handler: full_demo configures 100 ms, and a handler takes microseconds).
* `UartLoad`: WF of `Board` (the program reads a byte that is there) and of `Loader` (it
  reads an answer that is there, and its time-outs end). Faults are never owed.

---------------------------------------------------------------------------

## 4. Proofs

Each proof module EXTENDS the component it is about; all obligations are proved
by SMT, Zenon and LS4.

| Theorem | Module | Establishes |
|---|---|---|
| `TypeCorrect` | `RvPipelineProofs` | `TypeOK` of the pipeline |
| `BusPortCorrect`, `InOrderCorrect`, `ForwardingCorrect` | `RvPipelineProofs` | the three invariants of run `cpu` |
| `PrecisePipeline` | `RvPipelineProofs` | `PreciseSteps`: the pipeline refines `RvIsa`, step by step, but for the traps of `TrapDropsEx`, which lose one instruction's access or CSR write and nothing else |
| `SlaveTypeCorrect` | `KyberDriverProofs` | `TypeOK` of the wrapper, under any master |
| `DoneIsIdle`, `StartIsSeen`, `InputsAreHeld` | `KyberDriverProofs` | the wrapper's properties of run `kyber_bus`, under any master: requests of every kind |
| `IrqImpliesDone` | `KyberDriverProofs` | no interrupt without done |
| `ResultsAreOfThisCall`, `DriverNeverRefused`, `CompletionIsSeen` | `KyberDriverProofs` | the safety properties of run `kyber_bus`, for any number of calls and any requests of the other program |
| `DriverKeepsWrapper` | `KyberDriverProofs` | the wrapper's properties under driver and predecessor |
| `CoreInvariant`, `NothingLeftRunning` | `KyberCoreProofs` | each unit runs only where the FSM waits for it; `QuiescentWhenIdle` |
| `DataInvariant`, `ResultIsReference` | `KyberCoreProofs` | every bank and register holds the reference's value in every state; `ResultIsKem`, for any number of operations and resets |
| `PartiesAgree` | `KyberCoreProofs` | `KeyAgreement`, for any seeds |
| `StreamTypeCorrect`, `NeverOverruns`, `MatrixInOrder` | `XofStreamProofs` | buffer, counters and FIFO of the stream; `CoefficientsInOrder` |
| `NoTickIsEchoed`, `OneOwnerOfLeds`, `NoEventIsLost` | `InterruptPathProofs` | the three safety properties of run `irq_path`, for any number of presses, movements and timer events |
| `MontgomeryCorrect`, `BarrettCorrect` | `KyberMulProofs` | the reference's reductions: residue and range, for every input |
| `MontgomeryUnitsAgree`, `BarrettUnitCorrect` | `KyberMulProofs` | the accelerator's units, likewise |
| `ReferenceNeverOverflows` | `KyberMulProofs` | `NoOverflow` for every choice of polynomials and K up to 4 |
| `AccumulatorStaysCanonical` | `KyberMulProofs` | `AccumulatorCanonical`, likewise |
| `SidesAgree` | `KyberMulProofs` | accelerator and reference end with the same residues |
| `ProductsAreRight` | `KyberMulProofs` | `SameResult`: these are those of the sum of the products modulo X^256 + 1, whatever the polynomials |
| `KeysAreRight` | `KyberMulProofs` | a public key's polynomial is the transform of that sum, plus the transformed error |
| `ReductionsMatch`, `CodecsMatch` | `KyberMulProofs` | `ReductionsAgree` and `CodecsAgree`: reductions, divisions, message bits and samplers at every coefficient |
| `FifosAreQueuesAlways`, `NothingLeftUnsaid` | `FirmwareProofs` | `FifosAreQueues`, the refinement of `BoundedFifo`, and `EverythingSaid`, for every depth |
| `WriteTells` | `FirmwareProofs` | `ReturnTells`, for any number of calls and disturbances |
| `DisplayInSync` | `FirmwareProofs` | `LcdInSync`, for every receiver address, all characters and any number of calls, disturbances and resets |
| `FlagsAreTrue` | `FirmwareProofs` | `FlagsTell`, for any number of rounds and failures |
| `OnlyLoadableWritten` | `UartLoadProofs` | `LoadableOnly`, for every word size, all regions and files, any number of attempts and faults |
| `ByteCheckIsRedundant` | `UartLoadProofs` | the check `write_payload_byte` repeats for each byte cannot fail, so that the model may leave it out |
| `FirmwareIsItsParts` | `FirmwareProofs` | the composed firmware is a behaviour of each part |

**Assumptions.** `CpuConstants` (at least one word, register 0 exists, data
words are words, the vector is aligned) and `ProgramsAssumption` (programs are
functions from words to instructions); `CallsAssumption` (`Torn` is no call); `SeedAssumption` (the
seeds loaded first are seeds);
`SizeAssumption` (sizes positive, an even number of coefficients, since the
consumer takes them in pairs); `KAssumption` and `InputsAssumption` (K from 2 to 4,
coefficients strictly between -q and q, as samplers and decoders give them);
`UartAssumption` (a FIFO has at least one entry); `MaxCallsAssumption` (calls are numbered);
`PathConstants` (the LED switch and the action switches are different ones);
`RegionsAssumption` (the regions are apart and below the end of a word) and `FilesAssumption`
(files are bytes); `LcdAssumption` (a 7-bit address with a neighbour on each side, characters are bytes). Nothing else: the results hold for 2^30 words, 32
registers and every program, for any master and any data, for 256
coefficients, blocks of 21 words and any number of rejections, and whatever the bounds
(`MaxCalls`, `MaxPresses`, `MaxToggles`, the operations and resets of the core) are.

**Pipeline.** The inductive invariant is `PipeInv == TypeOK /\
BusMatchesPending /\ InOrder /\ OperandsFresh`. None of the last three is inductive
alone: `OperandsFresh` needs `InOrder` to know that a load in EX has its
successor in IF/ID and not in EX, and both need `BusMatchesPending` to know
that `fetch_done` and `mem_done` exclude each other. `Flush` re-establishes all
three by emptying the pipeline, so the work is in `Advance`, `DataAccess` and
`AdvanceAfterMem`. The refinement is then a lemma per action: each is matched to
the step of `RvIsa` it implements (`Advance` with an instruction in EX to
`Execute`, with an interrupt pending to `ExecuteThenInterrupt`, a fetch into an
empty pipeline to a stutter, ...), from operators that the two modules share.

**Wrapper.** The properties are not inductive: nothing in them says why no second
access can come between a start pulse and `busy`. `Spaced` adds it:
a start pulse is up only while the access which made it is pending, a core
outside `S_IDLE` is busy, and `done` meets a core that has stopped and is still
busy. The inductive invariant `SlaveInv` is `TypeOK`, `Spaced` and the three properties;
`InputsHeldWhileBusy` follows from it in one step.

**Driver.** `DriverInv` adds to `SlaveInv` where an access stands (`Lines`), and what call and
accelerator know of each other (`CallInv`): for each operation and each number of accesses
still to make, which inputs are in the window already and that the core is still idle after the
soft reset (`SettingUp`); and while polling or collecting, that the core
works on this call's inputs or has written results that derive from them
(`Operating`). `AnswersInv` carries that over the two clocks an answer takes: a `done` on its way to
the driver is still true when it arrives.

**Core.** `CoreInv` states for each unit in which states of the FSM it may run, and that its `done`
can only be up where the FSM looks (`CbdWaits`, `NttWaits`, `PwmaWaits`, `PackWaits`,
`SpongeWaits`, `MatrixWaits`). For the matrix stream this needs counting (`StreamCount`): an
encryption has taken as many entries as it has begun products, so the sampler has
delivered its last when the last row is transformed back. One lemma per action; the actions that start
nothing share one (their control changes are listed, and only some conjuncts look at them).

`DataInv` says on top of it what the values are: for the operation `c` in progress, its `Frame`
(shapes of the memories, inputs held, not done) and, for each state of the FSM, what the banks hold
there, as the same expressions that `KyberKem` is written in (`KgErrors`, `KgProducts`, `EncRowU`,
`DecRow`, ...). It is quantified over one `c` that equals `call`, so that a lemma about a step speaks of a
constant. The parts that run side by side are the delicate ones: the cache that fills while the
last NTT of a key generation runs (`KgCache`), the unpacker that fills banks while the NTT core
transforms the first of them (`DecUnpacks`), sums of products that are right after the
product's done and wrong before (`KgProducts`, `EncRowU`, `EncRowV`, `DecRow`), and the comparison that is
done when the packer's last word has gone by (`EncPacks`). `KeyIsKem`, `CiphertextIsKem` and `SumIsKem`
show the expressions to be the reference's. That a unit's done means that its value has arrived is where
`CoreInv` is used. `KeyAgreement` follows from the result with one more invariant (`AgreedInv`: the agreement
on record is an encapsulation of some message) and from facts about the terms: a ciphertext
tells its message (`CiphertextTells`), decryption undoes encryption (`Decrypts`), and the secret of a
rejected ciphertext is no secret of an accepted one (`Agrees`).

**Stream.** `NoOverrun` needs that what the sampler emits in a clock was allowed by
the `coeff_ready` of that clock (hence counted against the FIFO before it fell
behind), and that the bit buffer is low whenever a word is taken (`LowOnBits`),
for the buffer's range. `EmitIsSeq` bounds the coefficients per clock by two.
`MatrixInOrder` adds `WordInv` (sampler and sponge agree which word is on show, since a
request is seen in the clock after it is made) and `OrderInv` (the coefficients counted are
those consumed, those in the FIFO and those on their way, in this order).

**Interrupt path.** `PathInv` is about the pairs of places in which handler and main loop stand.
`Atomic`: between `csrc` and `csrs` the main loop is alone unless the `csrc` was dropped.
`Requests`: a timer request the PIC remembers, without an event since the timer was last cleared,
is about to be cleared by whoever cleared the timer. `Effects`: what stands in for `led_timer_run`
while an effect runs. `Copied`: what is cleared has been copied.

**Reductions.** Each unit is shown equal to an expression without its truncations, whose
range is then linear arithmetic: `Within(x, lo, hi)` is the form every lemma gives
and takes. Montgomery's argument is that the subtracted multiple of q makes
the low 16 bits 0.

**Products.** The invariant is `Control /\ Transformed` and `Accumulated(j)` for every
coefficient. `NoOverflow` is not inductive: `Transformed` adds that the
reference's coefficients grow by at most q-1 per layer and are congruent to
the accelerator's, `Accumulated` that the sum of products is below K(q-1) on one
side and canonical on the other, with the factor 2^16 between the two sides
that the accelerator's later pass takes out. A butterfly moves two coefficients, so each
layer's case splits on which of them j is.

That both sides give the product (`SameResult`) is the argument of the number-theoretic transform,
made for every polynomial at once. `Layer(f, len)` is what a layer does to integers without any
reduction, `Level(f, n)` the first n layers. At a level with blocks of S coefficients, block c of a
polynomial is its residue modulo X^S - `Root(S, c)`; `RootSquare` says that the roots of a block's two
halves are the square roots of its own, from the table of the zetas, and `HalfProduct` that a product
modulo X^2S - W^2 reduces to one modulo X^S - W. So `LayerProduct`: if the blocks of one
polynomial are the products of those of two others, so are the halves a layer makes of them; `LevelProduct`
joins the seven layers, down to the 128 products of pairs that `basemul` computes (`BaseProduct`). The invariant `Tracked` says what each side's coefficients are congruent
to: in the forward passes `Level(input, n)`; in the sum, `Level` of the partial sum of products, up to the
Montgomery factor; on the way back, `Level(sum, n)` times `Scale(n)`, for each layer of the inverse undoes one
of `Level` and doubles it (`InverseResidue`); after the last scaling, the sum itself. The inverse's zetas are
negative inverses of the forward ones (`ZetaInverses`). `SumsAgree` is the step from the sums of the proof to
the ones of the property. Sums are recursive functions; what is proved of them goes by
`SetInduction`, from the well-foundedness of `<`: the prover can use an induction over a set of numbers,
though not one over an operator.

**The sweep.** The theorems about one coefficient are proved for an arbitrary one between 0 and q-1, not by
trying them. A division by q as a multiplication and a shift has an error that grows with the argument
(`Divide4`, ..., `Divide11`, `DivideHw`); it is below the distance to the next integer for every numerator that
occurs. `MulShiftIs` takes apart the 16-bit limbs in which `MulShift` forms the products that do not
fit into TLC's integers. Decompression is within half a step by linear arithmetic for each width
(`Decompress4`, ...). The samplers are sums of the bits of two bytes (`CbdIs`, `Spread`). For
reductions the general theorems (`BarrettCorrect`, `MontgomeryUnitsAgree`) are applied to the lifts.

**Serial port.** `FifoOK` (the pointers are count apart, modulo the depth) makes `Contents` a
sequence, and `MovedQueue` shows what a clock does to it: nothing, `Append`, `Tail` or
both. `ClockStep` applies it to both FIFOs under any access. `EverythingSaid` needs
that what has been written and is not yet on the line is in the FIFO, and
that `uart_putc` stores only into a FIFO that is not full: between its
poll and its store the FIFO can only get emptier.

**Display.** `I2cInv` follows a byte over the bus: what the receiver has of it and what is left in the
master's shift register make up the byte that was sent, unless arbitration is lost
(`Heard`); who holds which line low in which state (`Wires`). `TodoInv` says that
the first write of a call has a START, so that no byte is begun by a receiver that stopped listening.

That the display follows (`DisplayInSync`) is first a fact about values. `Brings(P, vs, Q)`: whatever the
display and the expander make of the bytes `vs`, from a state in `P` they come to one in `Q`. `ByteExecuted` says so of
the six bytes of `lcd_send`, `InitBrings` of all of `lcd_i2c_init`, from any state at all: three
nibbles of 3 bring a display of either width and at either half of a byte to eight bits (`Woken`, `Waking`, `OnEight`),
the nibble of 2 to four bits, and the five commands push out of the window whatever it executed on the way. `Planned` then
follows a call over the bus: between two writes, and until the receiver has acknowledged, what is still to be sent leads to
the state that is promised (`AtAddress`, `AtValue`); behind the acknowledge bit it does if the write is going to succeed. The
invariant has to say that the receiver does not take an address for a value (`Listening`). It
may, after a lost START; but only behind a reset, when the initialisation forgives it. With nothing
disturbed, `Calm` says in each state of the master where the receiver is, and hence that it answers to its address and to no
other, and `Scanned` what the scan has found so far.

**Loading.** `LoadInv` says that the range of a packet has been checked before its first byte is taken,
and that a HEX file's upper address leaves room for the address of a record. The rest is arithmetic:
`n` bytes make a number below `Power[n]` (`LittleEndianBound`, `BigEndianBound`), and the end of a
valid range has not wrapped around (`ValidRange`). A sum and a power are recursive functions;
that they exist, and what they are bounded by, is proved by induction in the form the provers
can use, for a set of numbers instead of an operator (`SetInduction`, from the
well-foundedness of `<`).

**Key exchange.** `DemoInv` has the flags true in the middle of a round as well, but for the bit that is
inverted at that moment, and knows which lists of calls are left.

**What stays with TLC.** Liveness (`IrqNotIgnored`, `CallReturns`,
`OperationEnds`, `AllDelivered`, `ShadowSettles`, `AttemptEnds`): fairness and ENABLED are out
of this prover's reach. The sponge and the scheme: `SplitsDoNotMatter`, `DecapsulationAgrees` and `VectorsReproduced`
say what recursive definitions compute for given bytes, and the models of the sponge are
written with RECURSIVE operators, which the provers do not accept. `ExitCodeTells` and `StartsWhatWasSent` of the
bootloader: they hold for the files of the run and not for all, since a sum of bytes does not tell every
damaged packet, nor every damaged record, from a good one; a theorem would need a description of the files a
fault cannot turn into others.

---------------------------------------------------------------------------

## 5. What is not modelled

* **Interconnect and memories.** Combinational or single-cycle, one master that waits for
  every answer; the interconnect's one register makes the error answer of an
  unmapped address last a clock. `RvPipeline` has memories behind the bus (`prog`, `mem`)
  that answer at any time. Instruction memory is constant there, so self-modifying
  code (FENCE.I) is outside; the bootloader's writes are `Bootloader`'s.
* **Timer and GPIO modes** the demo does not use: counting down, one-shot, level
  and falling-edge interrupts. In `InterruptPath` a timer event that
  a simultaneous STATUS read cancels (`timer_wb.v:149`) is not told apart from a
  later one.
* **EXT1** is handled like EXT0. The text the demo puts on LCD and UART, and its
  performance counters, are left out; what else writes the LEDs (progress marks) is
  ignored by `LedsHaveOneOwner`.
* **Kyber units.** Addresses inside a unit and the clocks its pipeline takes; a pass is a step.
  In `KyberCore` values are terms. The wrapper's cycle counter, and its
  error latch for a core address outside the window, which the core's fixed
  addresses never raise.
* **UART bit level**: timing, start and stop bits, parity, break; interrupt enables, which no
  program sets. An overrun raised in the clock in which STATUS is read is lost
  (`uart_wb.v:446`); no program looks at it.
* **Loading.** Messages are told apart as the loader tells them ("ERR 1" from other errors); a
  message printed twice counts once; the header is never garbled, only shortened (no
  checksum covers it); the loader's time-outs end only when no answer is to come, and it
  starts only when the line is quiet; printing takes as long as `PrintTime` bytes do on the line.
  A HEX file whose record was damaged may be started incomplete: the bootloader
  reports the record and takes the next, and `StartsWhatWasSent` is about packets.
* **Display.** The expander and the HD44780 are external, modelled from how the driver uses them. A
  disturbance holds SDA low for a whole bit and does not touch acknowledge bits; the bus
  time-outs of `i2c.c` (10^6 polls) never end first; delays, `i2c_init`'s configuration,
  `i2c_read_cmd` and `lcd_i2c_puts` (called by nothing) are left out.
* **Key exchange.** The accelerator is `KyberDriver`'s: a call gives the right bytes for right
  inputs, perhaps others, or fails. After a key generation whose comparison
  fails `have_capsule` stays set (`main.c:357`, `436`), so that a decapsulation may run with a key that
  does not fit: it then reports the failure.
* **Other firmware, host tools, scripts, constraints, random generators and speed tests**: no
  state of their own, or I/O.

---------------------------------------------------------------------------

## 6. Findings

**1. Interrupts and CSR writes.** `rv32i_2stage_wb.v:118` says "External interrupts are
sampled at instruction boundaries". When one is sampled at the end of a fetch with a CSR
instruction in EX, the clocked process takes the branch at line 685, which writes the trap's
CSRs and leaves out the CSR write of lines 696-705, while `mepc` is the address
*after* the instruction: its register result is written, its CSR effect never
happens. Run `cpu_irq_boundary` shows it. For the firmware it means that a `csrc
mstatus` in `irq_global_disable` can be lost, and the critical section behind it
runs with interrupts enabled. `InterruptPath` takes this into account
(`dropped`): `NoEchoedTick` excepts the critical sections whose `csrc` was lost. In such a
section `EventsKept` lets `take_events` clear an event it has not read, which is the
loss to expect, but still no acknowledgement of the handler.

`TrapDropsEx` also names the second exception to `PreciseSteps`: a fetch
that ends in a bus error drops a load, a store or a CSR write in EX. No
document promises otherwise. In both cases the step is the trap entry of the sequential
machine behind the dropped instruction, with the result of a CSR instruction in its
register: what is lost is the access or the CSR write, and only that.

**2. The message bit of 832.** The accelerator decodes a message coefficient by comparing with
832 and 2497 (`kyber_codec_blocks.v:245`), the reference by a rounded
division (`poly.c:202`), which changes at 833. They differ for the coefficient 832 alone. A
decapsulation in which a noisy coefficient falls on it gives another message,
hence another secret than the reference. Run `kyber_encode1` shows it; `CodecsAgree`
and `VectorsReproduced` show that nothing else differs and that the repository's vectors do not meet it.

**3. The loader's probe.** `uart_loader.py:150` calls the probe "nondestructive". After a loader
was stopped inside a packet the bootloader is still waiting for payload and stores
the probe (`main.c:147`); run `uart_probe` shows memory changed by it.
`StartsWhatWasSent` therefore excepts a packet that a probe has completed.

---------------------------------------------------------------------------

## 7. Plan

Written so far, in this order: the processor (every other part relies on its
instruction boundaries), wrapper and driver (the contract between software and
accelerator), the interrupt path (the contract between handler and main loop),
the core and its KEM specification, the stream; then the arithmetic and the
reference to the byte, loading, the serial port, the display, the key exchange. Next:

1. **Loading for every file**: a description of the files whose packets and records no single fault turns
   into others that pass, from which `ExitCodeTells` and `StartsWhatWasSent` could be proved.
2. **Timer** modes, with the STATUS read that meets an event of the same clock
   (`timer_wb.v:149`), composed with the PIC so that "every enabled event
   reaches the processor" can be asked.
3. **Self-modifying code**: an instruction memory the pipeline can write, with
   the bootloader's jump as the case that must work.

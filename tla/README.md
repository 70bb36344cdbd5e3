# A TLA+ verification of the CV32E40P core

This directory holds TLA+ models of the CV32E40P RISC-V core in `src/rtl`, the
TLC configurations that check them on small instances and TLAPS proofs of the
properties that matter most.  The models are translated from the
SystemVerilog.  One step of a model is one rising clock edge of the core: the
combinational signals of the cycle are operators on the registers and on a
record `in` of the inputs of that cycle, and the primed variables are the
values after the edge.

Line numbers refer to files in `src/rtl`, without the prefix `cv32e40p_`, or to
the C programs of `src/example_tb/core`.

## 1. The system

The core has four pipeline stages.  No component communicates by messages; all
of them share wires within a cycle, and the hard behaviour comes from the four
independent parties whose timing the core does not control: the instruction
memory, the data memory, the FPU and the interrupt and debug inputs.

| Component | State | Operations | Interacts with | What makes it correct |
|---|---|---|---|---|
| Prefetch FIFO (`fifo`) | two pointers, a counter, the storage | push, pop, flush, flush but first; push and pop at once | prefetch buffer | it is a bounded queue |
| OBI adapter (`obi_interface`) | one address register, 2 states | pass a request on, hold it, release it | both buses | a request does not change until it is granted |
| Prefetch controller (`prefetch_controller`) | transaction, flush counters, address, BRANCH_WAIT, delayed loop flush | request, count, redirect at a branch, redirect at a loop jump | controller (branch, loop jump), FIFO, adapter | the fetched words are those of the program, in order; no counter is off by one; it never blocks |
| Prefetch buffer (`prefetch_buffer`) | the three above | | fetch stage, bus | a word in every cycle if the memory allows |
| Aligner (`aligner`) | state, high halfword, pc, remembered loop jump | take a word, give an instruction, jump, stall | prefetch buffer, decode | the instructions are those of the program, each once |
| Fetch stage (`if_stage`) | IF/ID registers | handshake, target selection, decompression | all of the above, controller | an instruction leaves only with its pc |
| Decode stage (`id_stage`, `decoder`) | ID/EX registers | operand selection, forwarding, stalls | controller, register file, execute | an instruction reads the newest value of each register |
| Controller (`controller`) | a state machine of 16 states, debug flags | interrupts, exceptions, debug, single step, sleep, event loads, loop jumps | everything | no instruction is lost or executed twice around a trap; a loop body is run as often as its count says |
| Loop registers (`hwloop_regs`) | 2 × start, end, count | write, decrement | controller | as above |
| Interrupt controller (`int_controller`) | registered lines | select by priority | controller, sleep unit, CSRs | what is taken is enabled and pending |
| Sleep unit (`sleep_unit`) | busy flags, fetch enable | gate the clock | controller, load-store unit | it never sleeps with work to do, and wakes |
| Execute stage (`ex_stage`) | EX/WB registers | ready and valid, two register ports | all units | a result is written once |
| ALU, multiplier, divider (`alu`, `mult`, `alu_div`) | MULH steps and carry, divider registers | one cycle, 5 cycles, up to 35 | execute | the result is that of the arithmetic |
| APU dispatcher (`apu_disp`) | two slots, a latency | dispatch, return, dependency checks | FPU, execute, controller | each result is written once, to its register |
| Load-store unit (`load_store_unit`) | transaction counter, control info of write-back, kept answer | request, accept, answer; two passes of a misaligned access | data bus, execute, decode, sleep unit | loads and stores act as if they were atomic and in order |
| CSRs (`cs_registers`) | the machine-mode registers, counters | read and write, trap entry and return | controller, interrupt controller | traps save and restore what they must |
| Interrupt generator (`random_interrupt_generator`, `mm_ram`) | mode, lines, a random word and its delay | three processes of the test bench | interrupt test, core | each command of the program takes effect |
| Interrupt test (`interrupt/interrupt.c`) | its globals, `mstatus`, `mie` | `main` and one handler per line | generator, interrupt controller | every line is served once, in order of priority |
| Hardware-loop tests (`hwlp_test`) | | programs | controller, loop registers | a body is run as often as asked |

Where the behaviour is hard:

* *Redirection against answers.*  A branch or a loop jump comes while words are
  in the FIFO, requested, on the bus or being answered in that cycle; each must
  be kept or dropped, once.
* *The loop jump.*  It comes before the last word of the body, so the answers
  behind that word are wrong and the word itself is not; an interrupt may come
  meanwhile.
* *Two halves of a misaligned access*, with two transactions outstanding, a
  stalled write-back stage and one register for both the first half and the
  last item.
* *Lock step of EX and WB.*  The accepted transaction sits in the execute stage
  until write-back is free; it must not be requested again.
* *Handlers against the program.*  The interrupt test and its handlers share
  globals; what a handler writes to the test bench reaches the core several
  clocks later.
* *Results that come back unasked*: the FPU takes a register port at a time of
  its own choosing.
* *Competing reasons to leave the normal flow* (interrupt, debug, trigger,
  single step, loop end, exception, event load, sleep).

`PROJECT.json` lists these hazards one by one with their lines, the
properties that cover them and, where none does yet, the module that will.

## 2. The modules

| Module | Models | Lines |
|---|---|---|
| `FifoQueue` | abstract: a bounded queue | |
| `Fifo`, `MCFifo` | `fifo` with its real pointers and counter | 13-168 |
| `Fifo_proofs` | theorems about `Fifo`, and the lemmas about its operations that `FetchStream_proofs` takes by INSTANCE | |
| `ObiInterface` | `obi_interface`, address phase | 71-201 |
| `PrefetchController` | `prefetch_controller` | 82-361 |
| `FetchStream` | abstract: the words of the program from the last target on | |
| `PrefetchBuffer`, `MCPrefetchBuffer` | the three units wired as in `prefetch_buffer`, with an instruction memory | 27-182 |
| `PrefetchBuffer_proofs` | theorems about `PrefetchBuffer`: types, counters, bus | |
| `FetchStream_proofs` | theorems: it implements `FetchStream`; a word in every cycle | |
| `Aligner` | `aligner` | 45-226 |
| `InstrStream` | abstract: the instructions of the program from the last target on | |
| `IfStage`, `MCIfStage` | `if_stage`: `FetchStream` in place of the prefetch buffer, the aligner, the IF/ID registers | 177-279 |
| `IfStage_proofs` | theorems about `IfStage` | |
| `LoadStoreUnit` | `load_store_unit` | 75-483 |
| `MemoryItems`, `AtomicMemory` | abstract: what a load or a store does | |
| `LoadStore`, `MCLoadStore` | the unit, the ID/EX registers of a memory instruction (`id_stage` 1459-1586), the EX/WB registers and ready signals (`ex_stage` 179-222, 387-415) and a data memory | |
| `LoadStore_proofs` | theorems about `LoadStore`: types, counter, bus, events, stalls; what accesses it makes, what memory and registers hold | |
| `Isa` | the kinds of instructions, the memory with the handlers of `vectors.S`, the CSRs that direct the control flow (`cs_registers` 938-1043) | |
| `Hart` | abstract: what the core promises to software, with no pipeline | |
| `HwloopRegs` | `hwloop_regs` | 52-108 |
| `IntController` | `int_controller` | 59-150 |
| `SleepUnit` | `sleep_unit` with `PULP_CLUSTER` = 0 | 103-148 |
| `ControlFlow` | `controller` with these units and the parts of `id_stage` and `cs_registers` it works with, over `InstrStream` | 253-1460 |
| `HwloopTest` | `hwlp_test/hwlp.h`, `hwlp_test.c` as programs | |
| `MCControlFlow` | the scenarios `ControlFlow` is checked on | |
| `ControlFlow_proofs` | theorems about `ControlFlow`: types, loop jumps, when the clock may be gated | |
| `Hart_proofs` | theorem: `ControlFlow` implements `Hart`, without hardware loops | |
| `IrqGenerator` | `random_interrupt_generator.sv` and its registers in `mm_ram.sv` | 62-223 |
| `InterruptTest`, `MCInterruptTest` | `interrupt/interrupt.c` with `IntController` and `IrqGenerator` | 73-575 |
| `InterruptTest_proofs` | theorems about `InterruptTest` | |

They are composed as the hardware is: a unit module declares the registers of
its unit and defines its outputs and its clock edge as operators; the composing
module (`PrefetchBuffer`, `IfStage`, `LoadStore`, `ControlFlow`) takes the unit
modules by INSTANCE or EXTENDS, computes the wires between them, and adds
the environment.  `IfStage` uses `FetchStream`, which `PrefetchBuffer`
is proved to implement, in place of the prefetch buffer; `ControlFlow` uses
`InstrStream`, which `IfStage` is proved to implement, in place of the fetch
stage.

Operators named after a fault ("Faulty variant" in the comments) are plausible
mistakes in the definition that follows them.  They are used by no
specification; each property is checked to fail under one of them.

### Correspondence of state

*Prefetch buffer.*  `status_cnt_q`, `read_pointer_q`, `write_pointer_q`,
`mem_q` of the FIFO, `state_q` and `obi_addr_q` of the adapter, and `cnt_q`,
`flush_cnt_q`, `trans_addr_q`, the state and the delayed-flush registers of
the controller are variables of the same names.  The environment holds the
granted, unanswered transactions in order and the stream the program wants.
Addresses are word numbers that wrap around; a word is identified with its
address, which is enough to tell whether the right word arrives.

*Aligner and fetch stage.*  The high halfword `r_instr_h` is represented by the
address it came from; whether an instruction at an address is long is a
constant function, so that one run covers every program of a given length.

*Load-store unit.*  `cnt_q`, `data_type_q`, `rdata_offset_q`,
`data_sign_ext_q`, `data_we_q`, `data_load_event_q`, `rdata_q` keep their
names; a word is a function from lanes to bytes, so that byte rotation,
assembly and sign extension are modelled by what they do.  `ex` is the ID/EX
register contents of a memory instruction (or None); `regfile_we_lsu` and
`regfile_waddr_lsu` are the EX/WB registers; `regs` is the register file as far
as loads write it and `pointer` the register that a post-incrementing
instruction updates.  `answers`, `mem` are the memory; `phase`, `parts`,
`left`, `event` and `promise` observe the last cycle and the program for the
properties and influence nothing.

*Controller.*  `ctrl_fsm_cs`, `jump_done_q`, `illegal_insn_q`,
`hwlp_end_4_id_q`, `debug_mode_q`, `debug_req_q`, `debug_req_entry_q`,
`debug_force_wakeup_q`, the loop registers, `irq_q`, `core_busy_q` and
`fetch_enable_q` keep their names.  Each state of the state machine is one
action, the decode states one action per case of their `case (1'b1)`; the
outputs of a cycle are a record `out` whose fields default to `Quiet`, as the
combinational process defaults its outputs (253-320).  `pc_if`, `hwlp_then` and
`issued` are the fetch stage as `InstrStream` sees it; `instr_valid_id`, `pc_id`
the IF/ID register; `branch_ex`, `csr_ex`, `ex_busy` what the execute stage
holds that the controller depends on: the target of a taken branch, the value a
CSR instruction is about to write, and whether something takes several cycles.
`csr` holds `mstatus.MIE` and `MPIE`, `mepc`, `mie`, the debug mode chosen in
`dcsr`, the cause of the last debug entry, `dpc` and the address trigger.
Addresses count instructions; data is left out, so a conditional branch goes
either way.

*Interrupt test.*  `pc` and `h` are the line numbers of `interrupt.c` at which
`main` (or a function it calls, with the return line `ra`) and the handler are;
`c` holds the globals under their names (without `32_std`), `csr` the registers
`mie` and `mstatus` of the core, `reg` the two registers of the test bench that
the program writes.  A word of interrupt bits is a set of line numbers.  The
19 handlers differ in the line they stand for and are one, entered by
`TakeInterrupt`.  What `mat_mult` computes is reduced to how many products it
has added; the random bits that 50 draws set (`interrupt.c` 401-421) are any
set.  `irq_lines_q` and the processes of the generator race at the clock edge in
the SystemVerilog: the model lets it take the lines from before or after
(`irq_lines_n`).

### The environment

* A memory grants any request in any cycle, or not, and answers granted
  transactions in order, each at least one cycle after its grant
  (`load_store_unit.sv:354`).  This is the OBI protocol the core relies on.
* The decode stage may offer any instruction, or none, in any cycle in which
  the execute stage takes one.
* Branches may come in any cycle in which the controller requests instructions;
  loop jumps only when it can send them (`controller.sv` 797-814, 1244-1266):
  once per pass of a body, while the last but one instruction is in decode.
  `LoopEndRequested` shows that the last word of the body has been requested
  by then.
* An FPU may return a result in any cycle (only in the runs that ask for it).
* *Controller.*  In every cycle the fetch stage may offer an instruction or not,
  and an instruction that takes several cycles may hold decode as long as it
  wants (`Inputs`).  An interrupt line that rises stays up until it is
  acknowledged, as `exceptions_interrupts.rst` asks for level-sensitive lines; a
  halt request may be a pulse of one cycle.  Scenarios bound how many of each
  come, not when.  A debugger, in the debug ROM, chooses freely among running on,
  single-stepping, `ebreak` into debug mode, and triggers.
* *Interrupt test.*  The core is the hart that `ControlFlow` shows it to be, with
  the real interrupt controller: a statement takes 1 to `1 + MaxStall` clocks, and
  an interrupt that is requested is taken in place of the next statement
  (`controller.sv` 497-524 decides so before any instruction is decoded).

## 3. What is checked

| Run | Question | States | Result |
|---|---|---|---|
| `fifo` | is a FIFO of depth 4 a bounded queue under every mix of operations? | 1 620 | holds |
| `fifo_depth3` | and for "arbitrary depth" (`fifo.sv:18`)? | | violated: see findings |
| `fetch` | does the prefetch buffer deliver the words of the program in order, whatever the memory and the redirections do; does it always go on; is there a word in every cycle if the memory never waits? | 57 391 | holds |
| `fetch_pulp_obi` | the same on the legacy bus, with one transaction at a time | | holds |
| `if_stage` | for every program of six halfwords, are its instructions handed over in order, each once, and does the aligner always move on? | 57 036 | holds |
| `lsu` | are loads and stores atomic and in order in sequences of three, two in flight; does each wait for nothing but the memory; is each completed? | 18 956 | holds |
| `lsu_pulp_obi` | the same for all pairs of types, offsets and modes, on the legacy bus | 32 321 | holds |
| `lsu_fpu`, `lsu_fpu_misaligned` | is each access made exactly once beside an FPU? | | violated: see findings |
| `control_flow` | does software see one instruction after the other, with loops, traps, interrupts, debug and sleep at any time; is every request served; does every program get to its end? | 107 542 | holds |
| `hwloop_csr` | and is each pass of a body counted if it ends with an access to `mstatus`? | | violated: see findings |
| `interrupt_test` | does `interrupt.c` serve each line once and in order, with any timing of core and test bench, and end with success? | 537 180 | holds |

`MCPrefetchBuffer` adds one variable, `ideal`, which remembers whether the
memory has made the core wait so far.  `MCControlFlow` defines the scenarios: the
whole of `hwlp_test.c`; each of the five tests "bombed with interrupts"
(`hwlp.h` 184-345), with an interrupt at any point; and four programs with every kind of
instruction, loops and sleep, halted, stepped and interrupted at any point.
The other MC modules only define the values of constants.

### Properties

*Prefetch buffer.*  `CountsOutstanding`: the transaction counter is the number
of granted, unanswered transactions.  `WantedWordsFit`: every answer that is
still wanted has a free slot in the FIFO, and the flush counter is never more
than the transactions outstanding.  `LoopEndRequested`: when a loop jump comes,
its last word is at least requested and no branch is waiting; the code ignores
a jump in BRANCH_WAIT and subtracts 1 from the counter, and is right only for
this reason.  `AddressPhaseStable`: a request that waits keeps its address,
although the controller changes its mind.  `OneTransaction`, for the legacy
bus.  `ImplementsFetchStream`: refinement; no word is lost, repeated, out of
order or from before a redirection.  `KeepsFetching`:
when redirections stop, words come forever.  `IdealWordEveryCycle`: with a
memory that never waits the two slots of the FIFO suffice for a word in every
cycle, also right after a redirection.

*Fetch stage.*  `InStep`: the aligner's pc, its kept halfword and the position
in the stream of words agree in all states.  `WordBringsInstruction`: a taken
word gives an instruction in the same cycle.  `ImplementsInstrStream`:
refinement.  `KeepsIssuing`.

*Load-store unit.*  `CountsOutstanding` also says why two transactions are
never more than write-back and execute can hold.  `RegistersAgree`: when
nothing to a register is pending, it holds what its last load read, although
the register is written in every cycle of the wait, and the base register is
incremented once.  `AccessesExact`: each instruction makes exactly the bus
accesses of its item, lower address first.  `EventFinishes`: an event load is
signalled once, with its last answer.  `OfferHeld`: a request does not change
before its grant; nothing but the stalled pipeline holds it.
`ImplementsAtomicMemory`: refinement; the memory completed by the instruction
in the execute stage is the abstract memory, and every register ends up with
what the abstract load read.  `OneTransaction`, for the legacy bus.  `NoStall`: in a
cycle in which the bus grants and answers, the instruction in the execute stage
moves on.  `Completes`.

*Controller.*  `ImplementsHart`: refinement; each clock edge is one instruction,
one trap, one interrupt or one debug entry of the hart without a pipeline, or
nothing.  So no instruction is lost or executed twice around any of them, `mepc`
and `dpc` hold the next instruction to be executed, a single step executes
exactly one, and loop bodies are repeated as their counters say.
`LoopJumpsFit`: a loop jump is sent once, while the last but one instruction is
in decode and the last one is next to be fetched, which `IfStage` and
`PrefetchBuffer` assume.  `NoAnswerLost`: the clock is not gated while the
memory owes an answer.  `HaltTaken`: a halt request is answered, a pulse
during sleep included.  `InterruptServed`: an interrupt line that rises is acknowledged unless
software masks it.  `Finishes`: the program gets to its end, or sleeps with
nothing to wake it.

*Interrupt test.*  `ServedOnce`: one handler runs each time `main` enables
interrupts, and only for a line still to be served, although the line served
before takes several clocks to go down.  What makes it true is that a handler
clears MPIE, so that interrupts stay off when it returns, and that `main` takes
longer to enable them again than the line to go down.  `MmstatusUnshared`: `main` and
the handlers share one global to change `mstatus` with, and no handler uses it
while `main` does.  `Finishes`: the test ends with `EXIT_SUCCESS`, so every line
was served in the order of `IRQ_ID_PRIORITY`, those masked stayed pending, and
the random interrupts of TEST 5 neither get stuck nor keep `mat_mult` from ending.

### Bounds

The FIFO and both counters have their real depth of 2; nothing about them is
scaled down.  What is bounded:

* *Fetch:* the address space has 4 words (legacy bus: 3) and wraps around, as
  the real one does.  At most three words are on their way at once (the
  controller counts those in the FIFO and those outstanding against DEPTH, and
  one more may be the next request), so 4 addresses suffice to tell a right
  word from its neighbours and from those of a redirection, which may go to any
  address.  `MIN_LOOP_BODY` is 3, the shortest body the manual allows
  (`corev_hw_loop.rst`).
* *Fetch stage:* all programs of 6 halfwords, cyclic, which include every
  sequence of three instructions of both lengths at both alignments; the
  aligner remembers one halfword.
* *Load and store:* 8 bytes of memory, two words, so that an item that crosses
  a boundary touches both and wraps around at the end.  Every byte and every
  byte of the store data differs, and both signs occur.  `lsu` runs sequences
  of `MAX_INSNS` = 3 instructions of eight kinds: one in write-back, one in the
  execute stage, and one before them whose data is still in `rdata_q`.
  `lsu_pulp_obi` runs all 34 kinds (types, offsets, extensions, with and
  without post-increment, event loads) in pairs; the data path does not depend
  on the bus.  `MAX_PARTS` = 3 records one access more than is correct.

* *Controller:* `COUNT` = 8 instead of 2^32 values of a loop counter, and counts
  cut at `Passes` = 2: the code compares a counter with 1 only, and the passes
  between the first and the last are alike.  One interrupt per bombed test
  (`Bombs`) and one halt request per scenario, each at any of its cycles; with
  one debugger choice or two, an interrupt, a halt, a trigger and a step meet in the same
  program.  Addresses count instructions of 4 bytes, since the manual forbids
  compressed ones in loops; alignment is the matter of `IfStage`.  They wrap around
  at `SPACE` = 240, as the real ones do at 2^32; no scenario gets there.  One interrupt
  line: the encoder is exercised by `interrupt_test`.
* *Interrupt test:* four lines of the nineteen, two that random words may use
  (26 to 31, `mm_ram.sv` 59-60) and 7 and 3, whose order of priority is not that
  of their numbers; one bit for all those the core lacks.  `MaxStall` = 1 lets a
  statement take one or two clocks.  The delay of the generator is `MinCycles` = 2 to
  `MaxCycles` = 12 for 100 to 200: short enough for interrupts to come one after
  the other without a pause, and long enough for `main` to run between them.
  `Products` = 3 products of `mat_mult`.

### Fairness

Safety is checked without fairness.  The liveness runs assume only that the
memory grants a request that stays and answers what it granted (weak fairness
of `Grant` and `Answer`), which the bus protocol obliges it to, and for the
fetch runs that the core keeps requesting (`Grant`), that the consumer takes a
word it is offered (`Take`, `Accept`) and that the controller sets the first pc
(`Boot`).  For the controller: again and again there is a cycle in which an instruction
is offered, decode is not held up and nothing is left in the execute stage
(`Smooth`), which is what `KeepsFetching`, `KeepsIssuing` and `Completes` show of
the units in question; and fetch is enabled some day.  For the interrupt test: the clock
runs (`WF_vars(Clock)`), and the bounds on stalls and delays are in the guards.
The core itself needs
no fairness: it has no choice, every one of its steps is a clock edge.

## 4. What is proved

TLAPS proves the following for every value of the constants allowed by the
named assumptions: for any number of words or bytes of memory, any program, any
set of instructions, both buses, any depth of the FIFO.  Theorems
that need more say so in the table and in their statements.

| Theorem | Module | States |
|---|---|---|
| `TypeCorrect` | `PrefetchBuffer_proofs` | `[]TypeOK`; no counter leaves 0..DEPTH |
| `CounterIsExact` | | `[]CountsOutstanding` |
| `NoWordDropped` | | `[]WantedWordsFit` |
| `LoopJumpIsSafe` | | `[]LoopEndRequested` |
| `RequestIsStable` | | `AddressPhaseStable` |
| `LegacyBusAlone` | | `[]OneTransaction` |
| `FetchesTheProgram` | `FetchStream_proofs` | `ImplementsFetchStream` |
| `WordsEveryCycle` | | `[]IdealWordEveryCycle` |
| `TypeCorrect` | `Fifo_proofs` | `[]FifoTypeOK` |
| `FifoIsQueue` | | `ImplementsQueue`, if DEPTH = PTR_VALUES |
| `TypeCorrect` | `IfStage_proofs` | `[]TypeOK` |
| `NeverOutOfStep` | | `[]InStep` |
| `NoBubbles` | | `WordBringsInstruction` |
| `DeliversProgram` | | `ImplementsInstrStream` |
| `TypeCorrect` | `LoadStore_proofs` | `[]TypeOK` |
| `CounterIsExact` | | `[]CountsOutstanding` |
| `RequestIsStable` | | `OfferHeld` |
| `LegacyBusAlone` | | `[]OneTransaction` |
| `EventsFinishOnce` | | `[]EventFinishes` |
| `WaitsForMemoryOnly` | | `NoStall`, without an FPU |
| `AccessesAreExact` | | `[]AccessesExact`, without an FPU |
| `MemoryIsAtomic` | | `ImplementsAtomicMemory`, without an FPU |
| `RegistersAreRight` | | `[]RegistersAgree`, without an FPU |
| `SleepsOnlyWhenIdle` | `ControlFlow_proofs` | `[]NoAnswerLost` |
| `TypeCorrect` | | `[]TypeOK` |
| `LoopJumpFits` | | `LoopJumpsFit`, if the ends of loops are apart |
| `StraightCodeIsHart` | `Hart_proofs` | `ImplementsHart`, if the program sets up no hardware loop |
| `MmstatusSafe` | `InterruptTest_proofs` | `[]MmstatusUnshared` |
| `OneServedPerEnable` | | the half of `ServedOnce` that says that a handler is entered only while the pending word is the one `main` has sampled |

So every property of the runs `fifo`, `if_stage`, `fetch`, `fetch_pulp_obi`,
`lsu` and `lsu_pulp_obi` is proved, liveness apart, and the chain of
refinements from the bus to the decode stage is complete: a FIFO is a queue,
with it the prefetch buffer delivers words, and on words the fetch stage
delivers instructions.

### Hypotheses

* `DEPTH = PTR_VALUES` (`FifoIsQueue`): the pointers wrap around by themselves
  exactly at DEPTH.  The code's only instance has depth 2 and one-bit pointers
  (`prefetch_buffer.sv:60`).  Run `fifo_depth3` shows that the theorem is false
  without it.  `PrefetchBuffer` uses the FIFO with these pointers; a theorem
  about it speaks of any depth, of which a real register of pointers has the
  powers of two.
* `FPU = FALSE` (`WaitsForMemoryOnly`, `AccessesAreExact`, `MemoryIsAtomic`,
  `RegistersAreRight`): runs `lsu_fpu` and `lsu_fpu_misaligned` show that an access is made
  twice, or goes elsewhere, beside an FPU.  Types, the counter, the address
  phase and the events hold with an FPU as well, and are proved without the
  hypothesis.
* Two assumptions of `LoadStore` came with the proofs.  `EventLoadsAssumption`:
  event loads do not increment their base, as the decoder has it
  (`decoder.sv` 1601-1619); otherwise an event load
  could be requested twice beside an FPU, as in `lsu_fpu`, and signalled twice.  `NoneAssumption`: the value for "no instruction"
  is none.
* `ControlFlow` assumes that its scenarios are programs of the instructions of
  `Isa`, of any length, with any counts and any number of interrupts and halt
  requests (`ScenariosAssumption`, `CountAssumption`, `LineAssumption`,
  `NoneAssumption`).  `LoopJumpFits` also needs `LoopsAssumption`: the ends of
  two loops are not adjacent.  `corev_hw_loop.rst` 61-63 demands it of nested
  loops, and of loops one after the other a body of three instructions
  (line 59) keeps them apart.  With adjacent ends the last but one instruction
  of the outer body would be the last of the inner one, and the next address
  the start of the inner loop.  The assumption does not demand that bodies are
  entered from their start, nor that they contain no jumps or traps.
* `LoopFree` (`StraightCodeIsHart`): no instruction of the program sets up a
  hardware loop.  It restricts the software only: the loop registers, the cases
  of the controller for loop bodies and the loop jumps of the fetch stage are
  all there, and that they stay silent is part of the proof.  Three scenarios of
  the run `control_flow` (`Mixed`, twice, and `Waiting`) are such programs, with
  every kind of instruction, interrupts, halt requests, triggers and single
  steps.

### Arguments

*Prefetch buffer.*  The properties are not inductive.  The invariant `IInv`
adds: what a loop jump in progress still waits for (`LoopEndPending`), that a
controller in BRANCH_WAIT has a request of the old stream on the bus
(`RedirectWaits`), and what the fetch stage may do after it has taken a word
(`AfterTake`).  The proof has one lemma per register and one step per action.

*Refinement of `FetchStream`.*  The abstract stream is what is in the FIFO,
then the outstanding words that are wanted, then the next request (`Stream`).
`StreamInv` adds to `IInv` that the pointers of the FIFO agree with its counter
(`Ring!PointersAgree`, whose preservation and effect on the contents are the
lemmas of `Fifo_proofs`, taken by INSTANCE) and that the words of the stream
follow one another (`Successive`), except after the last word of a loop body in
the cycle after the jump.  The second is needed because the next request is
computed from the last one, not from the stream.  Pushes, pops and flushes
become lemmas on sequences (`Drop`, concatenation).  A branch and a loop jump
replace the stream in a word of their own; every other cycle takes its head or
nothing.

*Ideal memory.*  `IdealInv` adds to `WordEveryCycle` that at most one
transaction is under way, none is to be thrown away and the adapter passes
requests on (`ShortQueue`).  It is preserved by every cycle in which the memory
does not wait, branches and loop jumps included.

*FIFO.*  `PointersAgree` says where the write pointer is, given the read
pointer and the counter.  The proof goes through one lemma per operation on
`Contents`, with the wrap-around of both pointers case by case.

*Fetch stage.*  `InStep` relates three registers that are updated by different
signals.  It is not inductive by itself.  `BeforeBoot` says that nothing moves
before the first pc; `JumpWaitsForLong`, that a remembered loop jump waits for a
32-bit instruction only, since a 16-bit one would let the aligner forget it;
`WordRefused`, that in MISALIGNED16 the word on offer was refused one cycle
before, so that the instruction in decode is not the last but one of a loop
body and no loop jump comes in that state.  The proof has one lemma per state of
the aligner, and takes branches and loop jumps separately.

*Load and store.*  `IInv` is `TypeOK`, `CountsOutstanding` and `OfferStands`:
a request that was refused in the last cycle is still made, unchanged, by the
instruction in the execute stage.  Its heart is `RefusedStays`: as long as the
request is not accepted, `ex_ready_o` is low, so the execute stage keeps every
register the request is computed from.  The counter needs `ReadyLeavesOne`: an
instruction leaves only when at most one transaction remains.  For
`EventFinishes`, `EventsMatch` says to which of the outstanding answers the
event flag in write-back belongs.

*Items.*  The observations record what the program meant, the invariants say
what part of it has been done.  `InsnInExecute`: in its second pass the
instruction still computes its own address + 4, whatever has been forwarded.
`PartsExact`: the accesses so far are those of the first pass, or of both,
depending on the counter.  `Written`: what has been accepted of a store is in
memory already, so that the abstract memory, which has all of it, does not
change when the rest is accepted.  `RegisterInv` follows the data of a load:
the first half in its answer, then in `rdata_q` (`FirstHalf`), the last in its
answer (`LastHalf`), assembled and extended in write-back (`WriteBackCarries`),
until the register has it (`RegistersAgree`); and the base register
(`PointerPromised`).  That the bytes put together are those of the item, for
all sizes, offsets and wrap-arounds, is the lemma `ItemLoaded`.

*Sleep.*  `NoAnswerLost` reads a registered flag and is not inductive:
`IdleIsIdle` says that a cleared `core_busy_q` means that neither stage has
anything under way.  It comes down to a lemma per state of the controller
(`Calm`): it says it is busy, or it neither requests nor issues instructions.

*Control flow.*  `TypeCorrect` and `LoopJumpFits` share a description of the controller:
`Outputs` is what it can answer in a cycle, and one lemma for each group of
actions shows that every case answers so (`Answered`).  Types then need one
lemma per register (`TypesStep`), whichever case it was.  `LoopJumpsFit` is not
inductive; the invariant `Fit` says why three things go together.
`NextFollows`: what is fetched next is the instruction behind the one in decode,
unless that is a jump or the last of a loop body.  `TargetWaits`: a target that
waits in the fetch stage waits for the last instruction of a body, and as long
as the one before it stays in decode the controller asks for the jump again in
every cycle, so that its request does not rise a second time.  `ValidInDecode`:
an instruction is valid in three states of the controller only.  Of the answers
it takes what is stated in `Shape`; the least obvious part is that no case keeps
an instruction in decode, goes on to DECODE_HWLOOP with a target pending and
does not ask for the jump, which holds because such an instruction would be
illegal, be flushed, or be seen as the last but one.

*Refinement of `Hart`.*  The hart executes an instruction when it leaves decode;
of those that are flushed, a trap when FLUSH_EX ends, a return when FLUSH_WB
ends.  What the controller does afterwards only brings the core to where the
hart already is, so it needs to know what it was doing: `Good` adds to the types
`FlagsInState` (each flag is set in the states it is meant for only, so a stale
one cannot steer another state), `NextIs` (behind the instruction in decode
comes the next one, or the target of the jump that was made while it waited),
`Flushed` (what is flushed, that it matched no trigger, that it is illegal
exactly if the mode says so, and which of them a single step sends this way),
`History` (what else has led to each state: that DBG_TAKEN_ID in debug mode means
an ebreak, that DBG_TAKEN_IF means a single step or a forced wake-up) and
`CsrPending`: a CSR instruction that is still in the execute stage changes `dcsr`
and the trigger in debug mode only, and clears no interrupt enable that decode
relies on.  The last one is where the pipeline could show: `m_irq_enable` reads
the CSRs that have been written, `mie_bypass` and the hart those that are about
to be.  Each lemma about a group of actions takes its outputs, from which
`Cycled`, `Clears` and `Answers` keep what matters, and shows both that the
hart makes a step or stands still and that `Course`, the conditions above,
holds again.  Instructions are first sorted by what they do (`Kinds`), and
`Executed` maps each kind to its action of the hart.

Proving it found one place where the model said less than the code: an access
to the debug registers outside debug mode is illegal (`decoder.sv` 2886-2895).
`illegal_insn` and `Hart` now have it (`csr_illegal`); no scenario contains such
an access.

*Interrupt test.*  Both are proved for any lines, delays and stalls, and from
the control positions alone, whatever the generator does.  The properties are
not inductive: they do not say why no handler can start.  `IInv` adds that
interrupts are off and no handler runs except where `main` waits for one or
multiplies matrices, and that `mstatus_disable` will write MIE clear
(`Closed`); that interrupts are off in a handler (`HandlersMasked`) and, where
`main` waits, stay off after it, because it writes MPIE clear (`OneHandler`);
that in TEST 5 the mode is that of random interrupts (`ModeKnown`), so that the
handlers there, the only ones that may meet `main` in `mstatus_disable`, do not
touch `mmstatus` (`RandomHandler`); and from where on the sampled word is the
pending one (`Sampled`).  That the line served is one not served before depends
on how fast lines go down, and stays with TLC.

### Only model-checked

* Liveness (`KeepsFetching`, `KeepsIssuing`, `Completes`, `HaltTaken`,
  `InterruptServed`, `Finishes`): the proof system does not reason about
  fairness and ENABLED.
* `ImplementsHart` for programs with hardware loops: the counters are
  decremented in three places, two of which work from the last but one
  instruction of a body, and the invariant has to say which jump each of them
  stands for.
* `ServedOnce` as a whole, as said above.

## 5. Findings

* `fifo_depth3`: `fifo.sv:127` computes the write pointer of flush-but-first
  without the wrap of lines 81 and 90; line 18 promises arbitrary depths.
  Latent, the only instance has depth 2.
* `lsu_fpu`: a post-incrementing load or store is made twice if a multi-cycle
  FPU result takes the register port of the ALU in the cycle in which the bus
  accepts it.  `wb_contention` keeps `ex_ready_o` low (`ex_stage.sv:412`), but
  the load-store unit has moved the transaction on to write-back and the
  execute stage still requests it.
* `lsu_fpu_misaligned`: the second pass of a misaligned access takes its
  address from that same port (`controller.sv:1392`, `id_stage.sv:1467`), and
  goes to the FPU's result + 4 if one comes back in that cycle.
* `hwloop_csr`: a loop body whose last instruction accesses `mstatus`, `mepc`,
  `mtvec` or `mcause` repeats for ever.  FLUSH_WB jumps back and asks for the
  counter to be decremented (`controller.sv` 1061-1073), but by then decode is
  empty and `hwlp_valid` (`id_stage.sv` 1325) is low.  The constraints of
  `corev_hw_loop.rst` 53-75 do not exclude these instructions; `hwlp.h` 212-247
  tests CSR instructions at the end of a body with `mcycle` only, which is not
  flushed.  The other scenarios have no such body.

Divergences noted while modelling, without a run: `instruction_fetch.rst:33-37`
speaks of four FIFO entries, `prefetch_buffer.sv:60` has two.
`aligner.sv:155` says that the short instruction of a misaligned pair needs no
valid word, `if_stage.sv:253-254` makes it wait for one.  The state
WAIT_VALID_BRANCH of the aligner is never entered.  `hwlp.h:34` gives the length
of a loop body without its last instruction, the manual (`corev_hw_loop.rst:30-32`)
an end address behind it; the tests use the first, the registers the
second.

Behaviour of the controller that `Hart` allows because the manual leaves it
open: a loop instruction at which the core is halted may have written its
registers already, and is executed again afterwards (`SetLoopEarly`; the
mask at `id_stage.sv:1366` is for interrupts only).  A loop ends with its counter
at 1, or at 0 if its last instruction was decoded in DECODE_HWLOOP; `Hart` only
counts how often a loop jumps back.  A counter of 0 at the end of a body inside
an active outer loop is decremented to 2^32 - 1.  In single-stepping, an
instruction that is illegal in a loop body is stepped over without its trap unless
`illegal_insn_i` is set too, and a flushed CSR access at the end of a body gets no
loop handling; no scenario steps through such a body.  A handler that
resumes behind the last instruction of a body leaves the loop, as `hwlp.h`
282-285 says.

## 6. Not modelled, and why

The ALU, the decoder tables and the compressed decoder are combinational
functions without state: a model would repeat them.  The vendored FPU and
cells are third-party code; the behavioural directory and most of the test bench only
observe or drive the core.  The PMP (`USE_PMP` = 0) and atomics
(`A_EXTENSION` = 0) are disabled by local parameters; `PULP_CLUSTER` = 1 (event
loads that sleep, the states ELW_EXE and IRQ_FLUSH_ELW) and `PULP_SECURE` = 1
(user mode) are left out of `ControlFlow`.  Of the interrupt test, TEST 4 is commented out
in the source and with it the mode PC_TRIG; the values of the matrices, what is
printed and `irq_served` are left out.  The other C programs are run-time support
and straight-line code.

The controller's stalls of decode (load use, jump register, misaligned, APU) are
one nondeterministic input of `ControlFlow`; which instruction they hold up for
which operand needs the pipeline module below.

## 7. Plan

What is left, in order of importance:

1. `Pipeline`: ID/EX/WB with forwarding and stalls over `LoadStoreUnit`, the
   register file's two ports.  Abstract specification: registers written in
   program order.
2. `ApuDispatcher` with the register ports of `ex_stage`: each FPU result is
   written once and to its register.
3. `Multiplier` (MULH steps, whose third operand shares a forwarding path with
   FPU results) and `SerialDivider`, against integer arithmetic at a small width.
4. Proofs: `ImplementsHart` with hardware loops, from `Good` and `Fit`; the
   whole of `ServedOnce`, which needs an invariant that
   counts the clocks until a served line is down.

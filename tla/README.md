# RSICV-UVM-test: models and proofs

The repository holds a three-stage RV32I pipeline of its own (`riscv_cpu_design/pipeline_3/
rtl_pipeline/`), a 16-bit ALU with a testbench (`alu/`), UVM-style ALU testbenches (`uvm_alu*/`),
and the Hummingbird E203 SoC (`e203_hbirdv2/`), which `REDEME.md` names as the library the
testbenches compare against. With the SoC come the programs that run on it
(`e203_hbirdv2/riscv-tools/`): instruction tests, benchmarks, 44 multi-threaded matrix kernels, an
environment with virtual memory, an allocator. The behaviour that is hard to test is in the two
processors and in those programs of `riscv-tests` that share memory, page or allocate, so that is
where the models are.

Paths below are relative to `src/riscv_cpu_design/pipeline_3/`; `core/`, `general/`, `subsys/`,
`perips/` and `debug/` are under `e203_hbirdv2/rtl/e203/`, and `mt/`, `benchmarks/`, `env/` and
`riscv-tests/debug/` under `e203_hbirdv2/riscv-tools/riscv-tests/`.

## 1. Inventory

State, operations, interaction and what makes each part correct. `PROJECT.json` has the full list
of components with their files, and the list of hazards, each at its line.

| Component | State | Operations | Talks to | Hard behaviour | Correct when | Modules |
|---|---|---|---|---|---|---|
| Three-stage pipeline (`riscv_pipeline.v`, `PC.v`, `IF_ID.v`, `IM.v`, `RF.v`, `DM.v`) | pc, request in flight, IF/ID, write-back stage, registers, data memory | one clock edge, with or without reset | instruction and data memory, registered reads | forwarding of an unwritten result, two words cancelled by a redirect, reset that does not reach the memories | it executes what a sequential machine executes | `RiscvDefs` `ISA` `Pipeline` `PipelineProofs` `MCPipeline` |
| Decoder, ALU, ImmGen | none | combinational | pipeline | shared adder, shift amounts, illegal words | result equals integer arithmetic | `Pipeline` `Bits` `ALU` `ALUBench` `ALUProofs` |
| 16-bit ALU and testbenches | none | combinational; drive and compare | - | carry and overflow are never compared by the testbench | flags describe the integer result | `Bits` `ALU16` `ALUBench` `ALUProofs` |
| E203 ALU datapath | operand buffers | combinational | ALU, AGU, multiplier | comparisons through one subtractor, right shifts through a left shifter | agrees with the pipeline's ALU and with integers | `Bits` `E203Dpath` `ALUBench` `ALUProofs` |
| E203 dispatch, OITF, long-pipe write-back | FIFO of outstanding instructions | dispatch, retire, write back | LSU, co-unit, commit | answers that arrive while the stage dispatches, an entry reused the cycle after | the FIFO is exactly what is in flight; no hazard is dispatched | `E203Exu` `ExuProofs` `MCE203Exu` |
| E203 AGU and LSU | atomic state machine, one outstanding command | load, store, atomic | bus, OITF | an atomic between its read and its write while errors and interrupts arrive | an atomic runs alone and is not cut | `E203Exu` `ExuProofs` |
| E203 commit, exceptions, WFI | halt request, sleep flag, MIE | interrupt, exception, long-pipe error, misprediction, sleep, wake | fetch, dispatch | a late bus error overrides the instruction in the stage; WFI with work outstanding | an overridden instruction has no effect; sleep is quiet; nothing blocks for good | `E203Exu` `ExuProofs` |
| NICE port and demo co-unit | tag FIFO; state machine and six counters | request, memory command, response | LSU, OITF | counts of commands and counts of responses bound one another | each operation moves exactly three words and ends | `E203Exu` `NiceCore` `NiceProofs` `MCNiceCore` |
| Clock-domain handshake (`general/sirv_gnrl_bufs.v`) | valid, ready, two synchronisers, a buffer | an edge of either clock, or of both | JTAG/debug, always-on domain, flash | unrelated clocks, an unsynchronised data word | it is a queue of two words | `Fifo` `CdcHandshake` `CdcProofs` `MCCdcHandshake` |
| E203 instruction fetch | IR stage, pc, flags, two-read state machine, leftover | fetch, flush, halt, predict | commit, memories | a flush while a fetch is outstanding, an instruction in two lanes, a lane held up and lost | the execution stage receives the program | `E203Ifu` `IfuProofs` `MCE203Ifu`, its stage in `E203Exu` |
| ITCM | command buffer, output register, hold-up flag | read for fetch, load-store or external port | fetch, LSU | the hold-up flag promises that the output still shows the lane | the promise is kept | part of `E203Ifu` |
| DTCM, BIU, bus library, fabric | arbiters, splitter FIFOs | accept, answer | LSU, fetch | ordering of answers | seen here as a bus that may refuse and delay | not modelled |
| Matrix kernels (`mt/`), barrier and `thread_entry` (`benchmarks/`) | C, copies of B, counter and senses | compute a block, meet at the barrier, verify | one another, through shared memory | a barrier used again at once, hand-made divisions of the work | every core finds every product right | `MtKernels` `Barrier` `Spmd` `MCPrograms` `SpmdProofs` |
| Virtual-memory environment (`env/v/vm.c`) | page table, free list, mapping nodes, TLB | fault, bring in, mark, evict | the test as a user program | stale translations, list nodes that are copied | paging is invisible and no assertion fails | `VmEnv` `ProgramProofs` `MCPrograms` |
| Allocator (`riscv-tests/debug/programs/tiny-malloc.c`) | free list, sizes, end of heap | malloc, memalign, realloc, free | the debug programs | splitting, joining, enlarging the last block | blocks tile the heap and hold what was asked for | `TinyMalloc` `ProgramProofs` `MCPrograms` |
| Other programs (CoreMark, Dhrystone, single-core benchmarks, instruction tests) | - | - | - | none: sequential and self-checking | - | not modelled |
| Interrupt controllers, CLINT, always-on domain | pending and enable bits, counters | claim, complete | core | level interrupts pended again | seen here as one interrupt line | not modelled |
| Debug unit, peripherals, clocks, boot ROM | various | register access | bus | one-sided resets | - | not modelled |

## 2. Modules and how they correspond to the code

Everything is synchronous logic, so a state is the value of the flip-flops, a step is a clock
edge, and a wire is an operator of the wire's name. Each clocked block is one operator over the
primed registers; the edge is their conjunction, so no block can be skipped.

### 2.1 The pipeline

* `RiscvDefs` - the word, the instruction record (the fields the RTL slices out), the memories'
  index functions, the register file's x0. The word size, the register numbers, the memory
  depths, the instructions and the ALU are constants. `AluAssumption` asks of the ALU only that it
  returns words and that ADD adds. `IMEM_DEPTH` and `DMEM_DEPTH` are powers of two in the RTL
  (`ADDR_W = $clog2(DEPTH)`); the model allows more.
* `ISA` - the abstract specification: one instruction per step, written from what each
  instruction means and with no pipeline in it. A reset moves the pc and nothing else, except
  that the store at the pc may still be made, because the RTL gates no memory write with `rst`.
* `Pipeline` - `riscv_pipeline.v` and what it instantiates. `Edge(rst)` is the edge: `U_PC`,
  `U_IM`, `U_IF_ID`, `U_RF`, `U_DM` and `StageRegs` are the six clocked blocks. `Decoder` is
  `Decoder.v` over instruction records. `Init` is the state after the first of the two reset edges
  of the testbenches; the program is any sequence of words of `Instr`.
* `MCPipeline` - words of W bits, with `ALU` as the ALU.

The refinement mapping (`ArchRegs`, `ArchPc`): an instruction takes effect when it leaves the
execute stage. The register in the write-back stage counts as written, and the pc is the oldest
instruction that has not executed (IF/ID, else the request in flight, else the PC).

### 2.2 The ALUs

`ALU` (`rtl_pipeline/ALU.v`), `E203Dpath` (`core/e203_exu_alu_dpath.v`) and `ALU16`
(`src/alu/rtl/alu.v`) follow the circuits: one adder with a complemented operand and a carry in,
right shifts by reversing, comparison by the top bit of an extended difference. `ALUBench` is the
testbenches' loop: it drives operands and an operation and compares with integer arithmetic; what it
expects of a bitwise operation is the sum of the weights of the bits that are set. `Bits` says what
Verilog's operators on words do: a word is a number, `bit(x, i)` is a quotient and a remainder of it,
and `&`, `|`, `^^`, `Not` and a reversal are the words that have the bits they should. The bitwise
operators of the community modules are recursive, so nothing could be proved with them.

### 2.3 The E203 execution unit

`E203Exu` composes dispatch, OITF, AGU, LSU stage, NICE port, long-pipe write-back, commit and WFI:
they share wires combinationally, and the hazards are in the combination. `Inputs` is what the
environment does in one cycle: the bus takes a command (`rdy`), answers (`rsp`) with an error
(`err`), an interrupt line is high, the next pc is known (`pcv`), the co-unit makes a memory
command (`ncmd`) or answers (`nrsp`). `Cycle` is the conjunction of `U_OITF`, `U_LSU`, `U_AGU`,
`U_NICE`, `U_IR`, `U_WFI` and `U_MIE`.

Abstractions, all of which allow more behaviours than the RTL or are named here:

* an instruction is its kind and its registers; `ECALL` stands for every instruction that the
  decoder or the ALU makes trap, misaligned accesses among them; `BJP` is one that redirects;
* the IR stage may receive any instruction or none whenever it is free, also while the fetch unit
  is being halted;
* bus targets are one target, which takes and answers commands; one command is outstanding
  (`E203_LSU_OUTS_NUM` is 1);
* a CSR write or an mret may leave MIE either way;
* debug mode is off; the multiplier is a single-step ALU instruction.

`NiceCore` models the demo co-unit itself, with every counter, next to the one-entry LSU stage that
serves it. A word of memory is `<<n, k>>`, offset k of the n-th operation; a register that adds is
the sequence of what was added, so that a sum can be compared without arithmetic. `Ready` says
whether the bus may refuse a command, `Slow` in which states an answer may take longer than a cycle;
with `Ready = {TRUE, FALSE}` and every state in `Slow` the bus does as it likes. `row`, `stored`,
`late` and `cut` are history variables. `late` says that the third word of a `rowsum` did not come
in the cycle behind its second one, `cut` that the last command of an `lbuf` or `sbuf` was refused
in the cycle in which the word before it was answered.

### 2.4 The clock-domain handshake

`CdcHandshake` is `sirv_gnrl_cdc_tx`, `sirv_gnrl_cdc_rx` and `sirv_gnrl_sync` with the wires between
them. The clocks are unrelated: a step is an edge of one side or of both. When both edges fall in
one instant, a flip-flop that samples a wire of the other side takes its old or its new value, and
a data word that changes in that instant is loaded as any word; that is how metastability shows
after a synchroniser. `inp` and `out` are history: the clients' last transfers. `Fifo` is the
abstract specification, a queue of `Depth` words whose two ends may act in one instant.

### 2.5 The E203 fetch unit

`E203Ifu` is `core/e203_ifu_ifetch.v`, `core/e203_ifu_litebpu.v`, `core/e203_ifu_ift2icb.v` and the
part of `core/e203_itcm_ctrl.v` that a fetch passes. `Edge` is the clock edge, the conjunction of
`Ifetch`, `Ift2icb`, `ItcmCtrl`, `Bus` and `Exu`; the wires between them are operators of the
wires' names. `Next` chooses what the environment does in the cycle: a load, store or external
access of the ITCM (`arb`), an answer of the bus (`rsp`), whether the bus takes a command (`go`), a
flush, whether the instruction in the IR stage is accepted, the end of a load (`done`), the wake-up
from WFI. `Flushes` follows `excpirq_flush_req`: a load that ends with an error flushes at once, in
the sleep as well, for nothing in `core/e203_exu_excp.v:193` looks at WFI; an interrupt waits for the
load and for the address to return to; anything else comes from the IR stage.

Memory is a ring of twelve 16-bit parcels, two ITCM lanes of four and two bus lanes of two (the
RTL's 64 and 32 bits). A fetched instruction is the pair of addresses of its halves, so wrong data
is seen whatever the program is; `npc` is the address that the execution stage needs next. An
instruction is a record with its length, its kind for the mini-decoder and its registers, of which
there are four: x0, x1 and two of those that a jump reads through the register file. A branch is
predicted as `J` or as nothing, and a misprediction is a flush. `mie` is `mstatus.MIE` in a sleep: a
sleep may begin with interrupts on or off, and a trap turns them off, so that a sleep in which a load
failed ends without a trap. `irq` is an interrupt that has ended a sleep and is not taken yet; until
then nothing leaves the IR stage. `npc` and `astray` are history variables; `astray` says that a
sleep has ended without a trap when the last answer had already gone to the IR stage and no request
was under way. Left out: bus errors of fetches, debug mode, a jump with rs1 = x0, the fusing of mul
and div, the timing-boost variant of the pc adder, which computes the same.

### 2.6 The programs of riscv-tests

* `MtKernels` - `matmul` of each of the 44 files of `mt/`, one definition per file with the file's
  name. A kernel is the sequence of blocks that a core executes, a block a few tiles, a tile the
  values that three (unrolled) loops visit and the strides with which they index A, B and C, so
  that a gap, an overlap or a wrong stride shows. Loop order inside a tile makes no difference to
  the sums and is left out, as are private copies. `Fits` says of each kernel for which numbers of
  cores and dimensions it is written.
* `Barrier` - `barrier` of `benchmarks/common/util.h`, one step per access of shared memory.
  Memory is sequentially consistent, as the cores here are in order.
* `Spmd` - `thread_entry` on every core. A block loads in one step and stores in a later one, so an
  overlap can lose an update. `verify` is the program's own check.
* `VmEnv` - `env/v/vm.c`. The processor is the environment: it may keep any translation it has used
  until it is flushed, and may fault on a clear accessed or dirty bit or set it itself. A page is a
  value. The nodes of the free list and of `user_mapping` and their `next` fields are kept, because
  the code copies nodes.
* `TinyMalloc` - the allocator, whose routines are operators from heap to heap.
* `MCPrograms` - one of the three programs at a time, chosen by `Init`.

## 3. Runs

| Run | What it asks | Bounds | States |
|---|---|---|---|
| `pipeline_refines` | type invariant, path invariant, refinement of `ISA`, and that the execute stage never starves | W = 4, x0..x2, 4 words of program, 2 of data, all programs over 7 words | 293,602 |
| `alu_bench` | the three ALUs against integers | W = 4, all operands and operations | 2,048 |
| `exu_mixed` | seven invariants and one action property of the execution unit | 10 instructions over 2 registers, OITF of 2, bus errors and interrupts | 31,752 |
| `exu_live` | the stage is never blocked for good | 8 instructions | 1,548 |
| `nice_ops` | each operation of the co-unit moves its three words, leaves no command behind and ends, with two exceptions | up to 4 operations, a bus that refuses and delays as it likes | 6,616 |
| `cdc` | the handshake's phases, its four steps, its data, its queue, its progress | 3 words, synchronisers of 2 | 1,584 |
| `fetch` | the stream of instructions until a sleep leads astray, what a halted unit may read, the borrowed register port, room for every answer | 5 programs on 12 parcels, loads that fail in a sleep | 74,567 |
| `programs` | the kernels, the barrier, the allocator, the paging | 90 instances of 44 kernels on 1, 2 or 4 cores; 3 chunks; 2 pages | 131,438 |
| `exu_halt_err` | violation: halt and flush in one cycle | - | - |
| `nice_one` | violation: two co-unit instructions outstanding | - | - |
| `fetch_halt` | violation: the wrong pc after a WFI that no interrupt ends | - | - |
| `fetch_jump` | violation: the wrong register for a jump at the target of a flush | - | - |

**Why the bounds are enough.** *Pipeline:* at most three instructions are in the machine, so four
words of program, with resets at any edge, put every sequence of the chosen words into the stages;
the words are chosen so that each result is used by the next instruction as an operand, an address,
store data, a branch operand and a jump target, and so that targets wrap around the word and the
memory. Two data words distinguish an address, two registers besides x0 a destination. The theorems
remove these bounds. *ALUs:* nothing in the circuits depends on the width except through the shift
amount's bits and the sign bit, and four bits have both edges of each; the theorems hold for all
widths. *Execution unit:* the LSU holds one command and the co-unit one instruction, so an OITF of
two entries (the code's default) is exactly what can be in flight; two registers make every match
and mismatch possible. *Co-unit:* its only memory between operations is its counters and the row
buffer, so four operations show every ordered triple of kinds with one more to see what the last
leaves behind. An operation takes three words, and more only behind a late one; five (`MaxWords`)
let an extra read be made and answered in the operation or after it, and cut off only further ones.
The theorems hold for every value of both. *Clock domains:* the channel holds two words, and three
values tell a lost word from a repeated one. *Fetch:* the state that a fetch leaves behind is one
lane, one leftover parcel and one pending flush; the five programs put a 32-bit instruction across
every kind of lane boundary (inside the ITCM, from the ITCM to the bus, inside the bus and back
around the ring), a jump of each kind before and after it, and a WFI in front of one and another
behind a load, with a flush to one or two targets in every cycle that allows one. *Programs:* the
kernels use no number but their core, the number of cores and the dimension; those are the ones of
the data set (16) or the ones built into the file (32), on one core and on the two that they were
written for, and four for two kernels. Values of C are kept for the elements of `Watched`, some in
every row and column; bounds and races are about all elements. Of the kernels, 23 have the dimension
32 built in, although `mt-matmul`'s data set has 16: they are checked on 32. The allocator has a
heap of 100 bytes and at most three chunks of 1, 8 or 16 bytes aligned to 4, 8 or 16, which makes
every pair of neighbours used or free. The free list of the paging is built by a shift register of
two bits, from each of its three states, over the two pages it then has.

**Fairness.** `Pipeline!FairSpec` only says that the clock never stops. `E203Exu!FairSpec` says that
again and again a cycle comes in which the bus takes and answers, with and without an interrupt:
without the first a load waits for ever, without the second WFI sleeps for ever, as it should.
`NiceCore!FairSpec` says the same of the bus and that the core takes the answer.
`CdcHandshake!FairSpec` says that both clocks run and that the receiver's client takes words again
and again. No run assumes anything of the order of the edges, and deadlock is checked in every run.

### What the violations show

* `exu_halt_err`: WFI commits while a load is outstanding; the load returns a bus error and flushes
  the pipe while the fetch unit is asked to halt. The assertion `CHECK_1HOT_FLUSH_HALT`
  (`core/e203_exu_commit.v:333-338`) says that this never happens. Without bus errors it holds.
* `nice_one`: a custom encoding that is none of the co-unit's three is accepted in IDLE and never
  answered, so its OITF entry never retires.
* `fetch_halt`: the answer to the fetch that was outstanding when WFI halted the fetch unit goes to
  the IR stage during the halt, and no request goes with it. After the wake-up the unit fetches what
  follows, at a distance decoded from the response channel, which is idle and shows the RAM's output
  at the old offset. A load, or the other half of a two-lane instruction, has changed it. With
  interrupts enabled the trap flushes the mistake. `KeepsOrder`, which `fetch` checks, is `InOrder`
  until such a wake-up (`astray`), and again after the next flush.
* `fetch_jump`: a jump through a register other than x1 takes the register file's port in one cycle
  (`rs1xn_rdrf_set`) and reads it in the next. A flush in the first cycle cancels the jump but not
  the flag. If the instruction at the flush's target is a jump through another register, and the
  ITCM answers at once, it finds the flag set, does not take the port, and goes to the value of the
  cancelled jump's register. Branches are checked by direction only, so nothing corrects it. The
  programs of `fetch` have one such register, and then the port shows the right one.

### What the passing runs except

Four properties hold with an exception that is the code's, not the model's. Each exception is named
by the property; without it TLC finds the counterexample.

* `PromptRowsumAdds` and `NoStaleCommand` except what follows a late third word (`late`). `rowsum`
  bounds its reads by the index of the last word received (`subsys/e203_subsys_nice_core.v:364`). If
  the third word does not come right behind the second, a fourth read goes out. An answer that comes as
  the core takes the sum is kept as the first word of the next row, and the next `rowsum` ends with two
  words of its own.
* `OpCompletes` excepts a last command that is refused as the word before it is answered (`cut`).
  `lbuf` and `sbuf` bound their commands by a count of responses (lines 239 and 288): the count reaches
  the bound, the command is withdrawn, and the operation waits for a word that it does not ask for. A
  `rowsum` after a late word is excepted too, because it may start again and read beyond the bound of
  the model. The LSU promises neither of the two things that keep the demo right, a command taken at
  once and an answer in the next cycle.
* `SleepFetchesTrap` excepts one read from the silence of a halted fetch unit. It is the event of
  `exu_halt_err`, seen from the other side: the flush of the failed load makes a request
  (`core/e203_ifu_ifetch.v:483` has no halt term for it) while `halt_ack_r` stays 1, although lines
  84-90 of that file promise no fetch until the halt request is gone. The read is of the handler's first
  instruction, the IR stage is empty, and interrupts are off; nothing else is read in a halt.

In `programs`, `cf` and `cm` run on one core only, which is what `crt.S:124` starts. They divide the
summation index, so on two cores both add to every element of C without a lock: with `<<"cm", 2,
32>>` among the instances, `NoRace` and `ExitsZero` fail.

Differences between documentation and code that were met and need no run: the AGU's command valid
(`core/e203_exu_alu_lsuagu.v:633-648`) has no `oitf_empty` term while its state machine (line 297)
has one, so that with a store outstanding the atomic's read goes to the bus and is made again, where
the comment of lines 282-283 says that the handshake starts the state machine (`AmoReadOnce` of
`E203Exu` states it; as a property of `exu_mixed` TLC refutes it);
`rtl_pipeline/README.md:44-47` lists xor and sra as not implemented, `Decoder.v:75` implements both;
line 170 of the same file says that a redirect flushes one instruction, `riscv_pipeline.v:187`
drops a second one; after a flush that finds the IR stage empty, `ir_pc_vld_r` stays set with the
old pc (`core/e203_ifu_ifetch.v:231-232`), so that `InOrder` speaks of the pc only when no new one is
pending; `evict` writes the loaded page over the changed one (`env/v/vm.c:107`), which nobody sees
because the test has ended; `core.rst:315` asks that a NICE request stay stable, `core/e203_exu_nice.v:74`
makes it follow the commit stage's readiness; the end of `rowsum` adds the idle bus to the first
word of the row buffer (`subsys/e203_subsys_nice_core.v:329`), which only a later `sbuf` would show.

## 4. Proofs

`PipelineProofs`, for every word size, register set, memory depth, program and ALU that meets
`AluAssumption`:

* `TypeCorrect` - `Spec => []TypeOK`. `TypeOK` is inductive: every wire has its type
  (`WireTypes`, from `DecoderType` and the arithmetic lemmas), hence every register after an edge.
* `PathCorrect` - `Spec => []PathInv`, with `TypeOK` as the strengthening. A valid stage holds the
  word at its own pc, and the stages behind it hold the addresses that follow. Without the second
  half the first is not inductive: what enters IF/ID is whatever was requested.
* `Refinement` - `Spec => RefinesISA`. From `PathInv`, the instruction in the execute stage is the
  one at `ArchPc`; `Forwarding` shows that the operands read there are those of `ArchRegs`, the
  register file with the write-back stage's result written. An edge with a valid execute stage is
  then one step of `ISA` (`ExecuteRefines`, by the kind of instruction; `Legality` matches the
  decoder's illegal with `ISA`'s list), a bubble is a stutter (`BubbleStutters`), a reset edge is
  `ISA!Reset` (`ResetRefines`).

`CdcProofs`, for every set of words and every depth of the synchronisers:

* `PhasesHold` - `Spec => [](TypeOK /\ Phases)`. `Phases` is the inductive invariant: it names the
  five phases of the handshake by `vld_r`, `rdy_r` and `nrdy_r`, and says of each which synchroniser
  has settled and which one is turning, and in which direction. `SyncShape` is the lemma it rests
  on: a sample keeps a shift register settled, starts it turning, or lets it go on. It holds for
  samples of the old and of the new value alike, which is why the clocks do not matter.
* `FourPhaseHolds`, `StableData` - the action properties, from the same invariant (`EdgeTurns`).
* `Implementation` - `Spec => ImplementsFifo`. `EdgeWords` splits an edge into what it does to the
  words: take one, deliver one, both, move the waiting word into the buffer, nothing. Each is a
  step of `Fifo` or a stutter.

`SpmdProofs`, for every number of threads, and for every kernel on every number of cores and every
dimension that it is for (`InstancesAssumption`):

* `BarrierInvariant` - `Spec => []BInv(N)`. The counter alone says nothing while threads of two
  rounds are in the barrier. `BInv` relates everything to the rounds: a thread is in the round that is
  open or has entered the next (`Rounds`), a sense is the parity of a round (`Senses`), who resets and
  releases is the last (`LastOne`), and the counter is the number of threads that have arrived, or
  zero between the two stores (`Counted`). One lemma per action; `ThreadSets` supplies the
  cardinalities. `NobodyLeavesEarly` follows: the property that `programs` checks.
* `SpmdInvariant` - `SpmdSpec => []SInv`. An instance keeps its kernel, its cores and its dimension,
  the barrier keeps `BInv`, and a core's block, its place in `thread_entry` and its rounds in the
  barrier agree (`Place`): after p blocks of a kernel that waits after its first m it has met the
  others min(p, m) times (`Phase`). So two cores at work are in the same phase (`InStep`), and what
  races is decided by the programs alone: `Safe` says that the cores of an instance wait equally
  often, that every block stays in bounds, and that blocks of one phase are independent.
* `EveryKernelSafe` is the lemma behind it: each of the 44 kernels is safe on every number of cores
  and for every dimension of which `Fits` holds. `Fits` lists what a kernel takes for granted, and
  nothing else: an unrolled loop has no remainder, nor has the share of a core where the loop runs
  over the share; the copy of B has 32 by 32 elements; some kernels have the dimension 32 built in;
  `dm` divides the copying between two cores, and `cf` and `cm` are for one. TLC has checked `Safe`
  for the instances of `Fits` with up to four cores and dimensions up to 32. The proof goes in three
  layers: what the loops visit (`LoopValues`, `StridedValues`, by the arithmetic of quotients); the
  dozen ways to divide the rows or the columns among the cores, each shown to be disjoint and in
  bounds (`Bands`, `Floors`, `Lasts`, `Combs`, `Halves`, ... with `Divides`); and one lemma per
  kernel, that its tiles stay in its core's part. `SafeRows`, `SafeColumns` and, for the three
  kernels with a shared copy of B, `SafeCopying` turn that into `Safe`.
* `SpmdInBounds`, `SpmdNoRace`, `SpmdNobodyEarly` - the properties that `programs` checks, from
  `SInv`. `ResultsFinal` and `ResultsStay`: when one core verifies the results, every core has left
  its kernel, and C does not change any more.

`ExuProofs`, for every depth of the OITF, set of registers and set of instructions:

* `ExuTypeCorrect` - `Spec => []TypeOK`, without further assumption.
* `TrackingHolds` - `Spec => []TrackInv`, under `Implemented`: the program has no custom encoding that
  the co-unit takes and never answers. `TrackInv` is not inductive: it bounds the entries by the
  depth, and from two outstanding ones a step could break the order of retirement. The inductive
  invariant, `IInv`, says more: the ring never holds more than one entry (`Ring`), because the LSU
  has one command outstanding and the co-unit needs the LSU's port to start; `Held` says whose entry
  it is and that entry and holder agree; an atomic runs alone (`AmoRunsAlone`); a waiting core has
  started nothing (`Waiting`). It was checked on `exu_mixed` before it was proved.
* `DispatchIsSafe`, `AnswersTaken`, `SleepHolds`, `AmoAlone`, `AmoUncut`, `OverrideHolds` - the
  other properties of `exu_mixed`, from `IInv`.
* `OneNice`, `HaltOrFlush` - the properties of the runs `nice_one` and `exu_halt_err`, proved under
  what those runs break: without the unimplemented encoding one co-unit instruction is outstanding at
  a time, and without bus errors halt and flush never come together. So these two causes are the
  only ones.

`NiceProofs`, for any number of operations in any order, and for every bus (`NiceAssumption` says only
that the constants are of their kinds):

* `NiceTypeCorrect`, `LoadsItsWords`, `StoresTheRow` - `TypeOK`, `LbufLoads` and `SbufStores`, without
  exception: what `lbuf` and `sbuf` move is right whatever the bus does, if they end.
* `NoCommandLeft`, `AddsTheRow` - `NoStaleCommand` and `PromptRowsumAdds`: nothing but a late third
  word leaves a command behind or makes a sum wrong. A bus that refuses or delays the first or the
  second word does neither.
* An operation starts from the counters that the one before left, so the invariant (`IInv`) gives the
  place of every register at every step of every operation: `Idle`, `Loading`, `Storing`, and the
  steps of `Adding`, from `FirstAsked` over `SecondIn` and `LastIn` to `Added`. Behind a late word only
  the parts remain that `lbuf` and `sbuf` need: a command that is outstanding in IDLE is answered no
  later than the first one of the next operation is taken, so that it counts for neither of them.

`IfuProofs`, for every set of programs on the ring of parcels:

* `RoomForAnswers`, `ReadsTheHandler`, `PortKept` - `AnswersFindRoom`, `SleepFetchesTrap` and `Rs1Kept`,
  without further assumption. `Path` names the places in which a read can be (the command buffer
  behind somebody else's access, the ITCM's output, the bus) and says that it is in one of them, that
  the state machine waits for it, and that `holdup` is never set while somebody else's access is
  there; `Control` says what reset and sleep exclude, and what the flush of a failed load leaves of a
  sleep.
* `OrderKept` - `Spec => []KeepsOrder` under `Tame`: the jumps through registers other than x1 of one
  program read one register. `Tame` is the condition that `fetch_jump` breaks, `astray` the one that
  `fetch_halt` does. `InOrder` speaks of the IR stage only, so that the invariant adds two things for
  the time in which nothing is astray. `Data`: where the fetch of `pc` stands, that is, which of its
  halves is where, and which lane the output holds up afterwards (`Fetches`, `Held`); it holds while
  no flush or trap is about to throw the fetch away (`Good`). `Stage`: `pc` is what follows the
  instruction in the IR stage, or is itself the next one when the stage is empty. `SameLane` and
  `NextLane` are the two facts about addresses on which the shortcut for sequential fetches relies:
  from the offset alone it concludes that the lane held up is the right one. The steps are those of
  the stage: a flush, an instruction that stays, one that enters, one that leaves (`FlushStage`,
  `StayStage`, `EnterStage`, `LeaveStage`).

`ALUProofs`, for every number of bits that is a power of two (`WidthAssumption`: the shift amount is
a slice of the operand), so for the 32 of the pipeline and the E203 and the 16 of `alu.v`:

* `PipelineALUIsCorrect`, `E203IsCorrect`, `FlagsAreCorrect` - `PipelineALUCorrect`, `E203Agrees` and
  `FlagsCorrect`, which speak of one state each: the proof is about the operators. It rests on two
  facts. A word is determined by its bits, and every set of bits makes a word (`WordFacts`, by
  induction over the number of bits): this is why `Word` denotes something, and why two circuits that
  set the same bits give the same number. And division by a power of two drops the low bits
  (`Division`, `BitsOfShift`). From these, `Reversed` and `RightShift` show that the left shifter
  between two reversals shifts right, `MaskedShift` and `SignedShift` that the mask puts the sign into
  the vacated bits, and no others; `Subtracted` that bit W of the difference of two extended words is
  set exactly if the first is less, signed or not; `OneBitMore` that bit W of the 16-bit ALU's
  intermediate result is the carry or the borrow. `SumOfWeights` compares the fold of what is
  expected of the bitwise operations with the word that has those bits.
* `ALUClosed` - the ALU maps words to words and adds modulo the word size: with it, `AluAssumption`,
  under which `PipelineProofs` is proved, holds of the ALU that the pipeline contains. For a code
  that is none of its operations it is 0, the `default` of `ALU.v`.

`ProgramProofs` is about two of the programs. The virtual-memory environment, for every number of
pages, under `VmAssumption`: the LFSR runs through all its addresses, as `riscv_test.h:43` demands
of `MAX_TEST_PAGES` (TLC evaluates it for the run's two bits; it holds for the six of the header):

* `HandlingIsInvisible`, `AssertionsHold` - `MemoryTransparent` and `NoAssertionFails`. The frames
  taken are the first ones of the free list, as many as pages are mapped (`ListInv`, `MappedCount`),
  so there is one for every page, and each belongs to one page (`FrameInv`); what the processor
  keeps is the table's entry, because every change of an entry is followed by a flush (`TlbInv`);
  and a page without its dirty bit is as it was loaded, one without its accessed bit is the page of
  the access under way (`MemInv`, `AccessInv`). The end of the test runs `evict` over all pages,
  which is a recursive function. The induction theorems of the library cannot be used here, but the
  induction can be done by hand: `LeastOf` gives the least page for which a claim fails,
  `EvictLoopDef` shows with it that the recursive function exists and `EcallStep` that every `evict`
  finds its page untouched by the ones before.

The allocator, for every heap, every set of sizes and alignments and every number of blocks, under
`MallocAssumption`: the heap starts at a word, an alignment is 1, 2 or a multiple of the word size
(memalign refuses what is no power of two), and the sizes are far from the end of the address space:

* `HeapWellFormed` - `MallocSpec => []MallocInv`. `Tiled` and `Served` are not inductive: the next chunk of
  malloc is aligned only if every address and size is a multiple of a word, of which neither says
  anything. `MallocInv` adds that, that nothing lies below `__malloc_start`, and that of any two blocks on
  the free list, not only of neighbours, the second lies behind the first. The routines are long, but
  they do few things to a heap: a block leaves the free list as a whole, or its head, its tail or its
  middle does (`TakeWhole`, `TakeHead`, `TakeTail`, `TakeMiddle`); the heap grows by a block in use,
  by a free one, or its last block grows (`TakeNew`, `Lengthened`, `Enlarged`); a block comes back
  (`JoinedGood`). Cutting and joining are instances of `Recut`, which says when some blocks of a tiling
  may be replaced by others. The walk of `free` stops at the first of three kinds of neighbour;
  `JoinedGood` shows that what lies behind it cannot be another neighbour, except the one that the
  code looks at.
* `BlocksTile`, `ChunksServe` - `Tiled` and `Served`, from it. That the chunk of `memalign` is aligned
  rests on facts about remainders for any divisor (`Multiple`, `Aligned`, `Before`).
* `UseCounted` - `Counted`. Both sides are folds: `mallinfo` adds up the free blocks and subtracts, the
  other side adds up the blocks in use. Instead of an induction over the number of blocks, each fold is
  compared with a number that is known beforehand, the number of bytes that its blocks cover
  (`Covered`). That number satisfies the equation of the fold (`CoveredSum`), so the recursive
  function of the fold exists, and a function that satisfies it is determined by it (`Unique`, from a
  least counterexample); hence `UsedTotal` and `FreeTotal`. Since the blocks tile the heap, the two
  numbers make up the heap (`CoveredAll`, `Total`).

**Only model-checked.** Liveness (`Progress`, `NeverStuck`, `OpCompletes`, `ReadyAgain`), which the
prover does not reach. `ExitsZero`: that the sums of the kernels are the products, and not only that
nobody disturbs them, is an induction over the data.

## 5. Not modelled, and why

ImmGen and the E203 decoders rewire instruction bits; the models start from decoded records. The
`*_TECH.v` wrappers are not instantiated. Structural files (core, subsystem and SoC tops) only
connect. The always-on domain is generated code for the most part; UART, SPI, I2C, timers and GPIO
are third-party peripherals on which the core does not depend. Clock generation is below the level
of cycles. Of the programs, CoreMark and Dhrystone are third-party benchmarks, the single-core
benchmarks and the instruction tests are sequential and check themselves, and `encoding.h` is a list
of constants. The rest of the list is planned work.

## 6. Plan

Done, in this order: `RiscvDefs`, `ISA`, `Pipeline`, `PipelineProofs`; `Bits`, `ALU`, `E203Dpath`, `ALU16`,
`ALUBench`; `E203Exu`; `NiceCore`; `Fifo`, `CdcHandshake`, `CdcProofs`; `E203Ifu`; `MtKernels`,
`Barrier`, `Spmd`; `TinyMalloc`; `VmEnv`; `MCPrograms`; `ExuProofs`; `NiceProofs`; `IfuProofs`;
`ProgramProofs`; `SpmdProofs`; `ALUProofs`.

Left, most important first:

1. The LR/SC reservation of the LSU (`core/e203_lsu_ctrl.v:581-605`): abstract specification, an
   exclusive monitor; property, an sc succeeds only if nothing came between.
2. The composition of `E203Ifu` and `E203Exu`, each now the other's environment, with debug halts.
3. The bus library: FIFO, pipe stage, bypass buffer (each an instance of `Fifo`), arbiter and
   splitter; property, every answer returns to who asked, in order. Then the LSU over two targets.
4. The multiplier and divider as algorithms against integer multiplication and division.
5. The PLIC gateway's claim and complete, the watchdog, the glitch-free clock multiplexer.
6. The JTAG transport over `CdcHandshake`, with a reset of one side.

Theorems planned: the library's FIFO implements `Fifo`; the reservation.

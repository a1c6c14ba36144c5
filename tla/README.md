# Verification of the RAG-driven RV32I generator

The repository generates a five-stage RV32I core in Verilog with a language
model (`rag/`, `scripts/`), keeps the generated core (`rtl/generated/`), runs the
RISC-V ISA tests on it under Verilator (`sim/`), and carries riscv-tests with its
multi-hart benchmarks and its debug programs (`data/riscv-tests/`). This
directory models the core, its test bench, the generation loop, the pipeline
around them with what it keeps on disk, and the concurrent and stateful C
programs among the tests; it checks the models with TLC and proves the main
properties with TLAPS.

    tlc -workers 2 -config MCCore.cfg MCCore        # about a minute
    tlapm CoreProofs.tla

`PROJECT.json` lists the runs, the mutants that each property must reject, the
source lines each definition stands for, the hazards and the theorems.

## 1. Inventory

| Component | Source | State | Operations | Talks to | What is hard | What makes it correct | Status |
|---|---|---|---|---|---|---|---|
| Pipelined core | `rtl/generated/top.v`, `pipeline_regs.v`, `hazard_unit.v`, `decoder.v`, `regfile.v` | PC, IF/ID, ID/EX, EX/MEM, MEM/WB, 32 registers, 64K words | one clock edge, with rst high or low | instantiates the units below; displays IF/ID | five instructions in flight, stalls, flushes, forwarding, self-modification | it does what executing one instruction at a time does; it never stops | modelled |
| ALU, branch unit | `alu.v`, `branch_unit.v` | none | result, condition | core, EX | signs, shift amounts | equals the RV32I operation | modelled |
| Immediates | `decoder.v` | none | five formats | core, ID | scattered bits | inverts the assembler | modelled |
| Load/store unit | `lsu.v`, `top.v` memory | a memory word | load, store by size | core, MEM | lanes, extension, neighbours | a little-endian byte memory | modelled |
| CSR unit | `csr_unit.v` | none | read, write, ecall | core, WB | never selected | CSR results reach rd | partly |
| Test bench, pass detection | `sim/sim_main.cpp`, `run_tests.py` (`run_test`, `detect_pass`) | edges, output, process, `mem_init.hex` | convert, start, reset, run, time out, scan | core, through its trace | the trace shows the fetch side; timeouts | a test passes when its program loops at the pass instruction | partly |
| ISA test runner | `run_tests.py` (rest) | the directory of tests, `mem_init.hex`, the table | find, clone, run all, write table | test bench, git | incomplete clones, one memory file for all tests | a pass is the binary's own on that test | modelled |
| Module generator | `rag/generator.py`, `rag/validator.py`, `step_generate` | files, ports files, accepted, failed | generate, lint, fix, extract ports, integrate | language model, container, retrieval | failures, stale files, kills, bounded retries | what is called verified is clean; the loop ends | modelled up to texts |
| Pipeline driver | `scripts/run_pipeline.py`, `finalize.py` | files on the host and in the container, the simulator, tables, summary | six steps and their skip flags | all of the above | steps that fail and are passed over; kills | a report is about the files of its run | modelled |
| RTL corpus | `rag/corpus.py` | clones, collection, file of summaries | build, forced rebuild | git, ChromaDB, language model | deaths between two additions, clones cut short | a rebuild heals; what is lost has a cause | modelled |
| Knowledge base | `rag/knowledge.py` | collection | build, forced rebuild | ChromaDB | a skip test that counts | it holds the program's entries | modelled |
| Retrieval | `rag/pipeline.py` | cached handles | fetch by name, fuse, fill, rerank, query | both collections | partial failures, ties, limits | at most k, no duplicates, known modules first | partly |
| Multi-hart barrier | `benchmarks/common/util.h` | `count`, `sense`, each hart's `threadsense` | `barrier()` | the benchmarks | reuse at once, order of two stores | nobody leaves before all have entered | modelled |
| Multi-hart benchmarks | `data/riscv-tests/mt/*.c`, `mt-matmul.c`, `mt-vvadd.c`, `mt-memcpy.c` | the shared arrays, a place per hart | 44 matrix and 5 vector kernels, a copy, verify, exit | barrier | division of the work, literals as bounds | no race, complete results, all harts exit | modelled |
| Debug allocator | `debug/programs/tiny-malloc.c` | `__malloc_end`, the free list, block headers | malloc, free, realloc, calloc, memalign, valloc, pvalloc, mallinfo, malloc_usable_size | its caller | splits, merges, unsigned limits | an abstract heap; nothing lost | modelled |
| Language model client | `generator.py` (`_call_llm`) | attempt log | one request | HTTP API | failures | ends, and returns one answer or raises | an arbitrary answer in `Generator` |
| Comparison, lint tests, debug scripts | `scripts/compare_ground_truth.py`, `tests/`, `scratch/`, `run_diag_2.py` | none | reports | files | - | - | not modelled: no state |
| Golden core, other riscv-tests | `data/` | - | - | - | - | - | not modelled |

The hard behaviours, at their lines, are the `hazards` of `PROJECT.json`.

## 2. Modules

    Decoder --+
    Datapath -+-- Isa ------------------------+  (INSTANCE)
              +-- HazardUnit, PipelineRegs -- Core -- CoreIsa --+
                                              PassDetect -------+-- TestBench -- CoreProofs
    Alu, Immediates, Lsu, PassDetect -- PureUnits -- UnitProofs, MCUnits
    Generator -- GeneratorProofs
    Retrieval -- RetrievalProofs
    Collection -- CorpusStore, KnowledgeBase -- StoreProofs --+
                      +-- with TestRunner -- RunPipeline -- PipelineProofs
    Barrier -- SenseBarrier -- MtProgram -- MtVectors -- MtProofs
                          MtSteps --+           +-- MCMtProgram -- MCMtSizes
                              +-- MtKernels -- MtBenchmarks --+  (INSTANCE in both)
    Heap -- TinyMalloc -- MallocProofs

**Decoder, Datapath.** The control signals of `decoder.v` as a function of an
instruction's fields; words, addresses and the units as CONSTANT operators. The
theorems therefore hold for every width, memory size, register count, and every
ALU, comparator and load/store unit that meets the named assumptions (results
are words; ADD is addition). The real units are modelled separately, and meet
them (`UnitsFitDatapath`).

**HazardUnit, PipelineRegs.** Stall, flush and forwarding selection; the four
registers with their reset, flush and hold. A flush of ID/EX keeps the register
numbers of the instruction it kills, as the code does.

**Core.** One action is one rising clock edge: `Reset` or `Clock`, after which
every register has the value of its always block. There is no finer
interleaving in synchronous logic; what interleaves is the five instructions.
rst may be held for any time, and once low stays low. Three history variables
(`idValid`, `exValid`, `stale`) record what the hardware does not: whether a slot
holds an instruction of the program, and whether an operand or an instruction
has been read before an older instruction wrote it.

**Isa, CoreIsa.** `Isa` executes one instruction per step; `undefined` marks
programs about which nothing is promised. `CoreIsa` maps the pipeline to it: the
registers and memory are those with MEM/WB and EX/MEM completed, the PC is that
of the first instruction that has not left EX, `undefined` is `stale`. The link
offset is a parameter: 4 in the manual and in the repository's documents, 8 in
the core as it is, and the refinement is stated for the core as it is.

**Alu, Lsu, Immediates, PassDetect.** The units at bit or byte level, and the
scan of `detect_pass`. `PureUnits` sets each beside a reference that is written
another way: ripple carries and single bits for the ALU and the comparator, the
encoding tables of `rag/corpus.py`, a byte-addressed memory, the runs of equal
samples. The ALU computes with whole numbers, and takes its bits by division;
powers and bits are recursive functions, so that they can be proved about.

**TestBench.** One test: reset edges, run edges, the sample each edge displays,
the end of the process or its kill after the timeout, the verdict.
`mem_init.hex` is written before the start; nothing reads it, so the memory is
whatever the power-on image is.

**Generator.** `step_generate` over several runs: each module in
`MODULE_ORDER`, body, lint attempts, fixes, ports file, `top`. A text is its
port list and what is wrong with it - nothing, a lint error, a broken rule of
`rag/validator.py`; the language model's answers and
failures, Verilator timeouts and kills are free choices. Files and ports files
stay on disk from run to run, accepted and failed modules do not.
`CONSTANT DockerUp` says whether the container answers. `generate_top_v` reads the ports files
again itself, so the contracts collected by `step_generate` are dropped, as in
the code. `GeneratorAssumption` takes `MODULE_ORDER` for a list and at least one attempt: with
`--max-iterations 0` the code raises a NameError, which fails the module.

**Retrieval.** `retrieve` call by call: the fetch of each known module, the end
of the fetch, the fill from the two fused rankings, the reranking, and an
exception at each of them, which the code swallows. Scores are exact fractions;
the sort is stable, as Python's. Rankings, and the order in which the store
returns documents, are arbitrary.

**Collection, CorpusStore, KnowledgeBase, TestRunner, RunPipeline.** A run of the pipeline
step by step, and inside a step effect by effect: a clone, the deletion of a
collection, an addition, the two halves of writing a file, a copy into the
container, a compilation, a test. `Die` ends a run between any two of them; what
is on disk, in the container and in the collections is what the next run
starts from. The variables `build`, `call`, `runner`, `step`, `accepted` and
`compile_ok` are the process, and are gone with it. `kept`, `mishap`, `installed`,
`did` and `uncopied` are history. `finalize.py` is a set of flags. A text is the
number of the run that made it; a simulator is the texts it was compiled from.
A clone that is cut short has any part of its files. `TestRunner` takes a
test's verdict as a function of the binary and the test (`Passes`), and `Generator`
has the inside of step 3, of which `StepGenerate` keeps which files it leaves. The
runner in the container is taken to end with the process that started it. For `docker
exec` this is an assumption: the client that is killed does not stop the process it
started. A runner that survives goes on writing `mem_init.hex` and the table under the
next run, and nothing in the code would keep the two apart; `PassesAreEarned` is not
claimed then. The end of the pipeline by an exception or at one of its own points, which is
most of what `Die` stands for, has no such survivor, as `subprocess.run` has waited by then.

**Barrier, SenseBarrier.** `Barrier` says what a barrier promises: the n-th call
of a hart returns after every hart's n-th call. `SenseBarrier` is `barrier()` of
`util.h` access by access: the fetch-and-add, the reset of the counter, the
store of the sense, the read that spins. Memory is sequentially consistent: the
two shared variables are volatile and the code has fences before and after, none between
the two stores of the last hart, so a weakly ordered machine is not covered.

**MtSteps, MtProgram.** A kernel is the list of the steps (`MtSteps`) of each hart: which elements it stores
to, which terms of the sum it adds, where the barriers are. `MtProgram` runs the lists in
every interleaving, a += being a load and a store, then verifies and exits as the
`thread_entry` functions do. An element holds the set of terms added to it. A store past
the end of an array changes none of its elements (what lies behind it is not modelled).
`MtProgram` also states when a list is right without running it: `Divides` (steps of
two harts between the same barriers do not touch the same element), `Stays` (no step leaves
the arrays), `Computes` (in the order the barriers and each hart's list give, every
term is added once, and after what it is made of), `Awaits` (no hart exits before
a check of the results) and `Meets` (all harts call `barrier()` equally often).
`MtProofs` shows that these suffice.

**MtVectors.** The lists of `vvadd0` to `vvadd4` and of `mt-memcpy.c`, from the length and
the number of harts, with whatever their loops do at the end of the array. `Fits` names
the lengths whose remainder a kernel handles.

**MtKernels, MtBenchmarks.** The lists of the 44 matrix kernels. The code has two sizes
in it: `lda`, here `Dim`, and in many kernels the literal 32 in its place, here `Full`,
with 16 as `Half` and 8 as `Quarter`. The kernels were written for 32 by 32; the data set
in the repository has 16 by 16 (`benchmarks/mt-matmul/dataset.h:5`). The model therefore
keeps the two apart, and what a kernel adds to an element whose index it computed from
the wrong size is `Wrong`. `MCMtProgram` runs the kernels with the two sizes equal;
`MCMtSizes` has TLC evaluate the conditions of `MtProofs` on the lists of the real sizes,
both 32 by 32 and the data set's, whose interleavings cannot be explored.

**Heap, TinyMalloc.** Every function of `tiny-malloc.c` as an operator from heap
to heap, headers and links included, with unsigned arithmetic modulo
`AddressSpace`; `Heap` is what a caller may rely on. `mallinfo` adds the sizes along
the free list, as the code does, and `NoByteLost` compares what is left of the
arena with the bytes that are in blocks the program holds.

## 3. Runs

| Run | Question | Bounds |
|---|---|---|
| `core_pipeline` | Does the pipeline implement `Isa` up to the first stale read, are its invariants right, and does it keep executing? | 4-bit words, 4 words of memory, 3 registers, all images of 16 instructions in three words, an inert or a looping one in the fourth |
| `core_stale_read` | Are operands always current? **No** | as above |
| `core_link` | Is the link PC + 4? **No** | as above |
| `units` | Are ALU, comparator, immediates, lanes and scan exact? | 4-bit ALU with all operands; 32-bit instruction words, walking ones and zeros, both signs; bytes of 2 bits and every access; every output of 7 samples, threshold 3 |
| `test_bench` | Can any test pass? It cannot. | 9 instructions, 2 reset and 16 run edges, threshold 2 |
| `pass_loop` | Is the documented pass loop reported? **No** | as above |
| `generator` | Is what is verified clean, and does a run end? | one module and top, 2 port lists, 3 attempts, 3 runs |
| `generator_docker` | Also when the container is down? **No** | one run, one attempt |
| `retrieval` | Is every answer within k, distinct, full, with the known modules and the agreed documents first? | 4 documents of 3 names, k = 2, rankings of 2, the code's constant 60 |
| `pipeline` | Do the collections, answers, simulator and tables survive failures, kills and versions as they should, and does a run end? | 2 runs, 2 repositories of 2 and 1 documents in batches of 2, 3 versions of the entries, 2 tests, one module and top |
| `matmul` | Are the kernels free of races and complete, is success verified, who leaves the arrays, is the barrier one, do all harts exit? | 47 kernels and the copy, 2 harts, 8 by 8 matrices, vectors of 24; the sizes of the repository for the lists |
| `malloc` | Is the allocator a heap that loses nothing and keeps its limits? | arena of 32 bytes with a gap of 8, words of 2, requests 0, 3, 6, alignments 3, 4, 8 |

*Why the bounds are enough.* The core compares register numbers and wraps
addresses; three registers give x0, a written one and an unrelated one, and 4
words, fewer than the instructions in flight, put every instruction in every
stage next to every other and let stores hit each fetched one. The sixteen
instructions include one of every format, both kinds of hazard producer (load,
jump), a load and an add that use each register, taken and not taken branches,
an undefined word, and fields that alias registers a format does not have. The
register behind x0 starts non-zero. Seven samples hold a broken run and a complete
one. A stale file needs two runs of the generator, and the third can repair it;
three attempts give a first, a fix between and a last. Modules influence each other
only through top and through lint reports, which may be erroneous for a clean
text. With two places and four documents each of nothing, some and too much is
known, and each ranking leaves documents out.

In `pipeline` whatever a run inherits is left by the run before it, so two runs
show every inheritance; a run is for one of the collections or for the core
(`MCOptions`), since the steps share no state with the collections. Two
repositories let one clone fail and another not, three documents in batches of
two give a full and a short batch, and of the three versions one adds an entry
and one replaces one. In `matmul` a race needs two harts, and 8 is the least size
at which every literal of the kernels (halves, quarters, pairs, fours) is a
proper part; many kernels (a half each for harts 0 and 1) are written for
two harts, as `mt/Makefile` runs them. The vectors are of 24 elements because 24 has the
remainder of the data set's 1000 modulo the 16 elements that `vvadd1` does in a round of
two harts: the overrun that the data set causes happens in the run, at the same place of the loop. All
other kernels divide both lengths. A length that `vvadd3` does not divide would leave
elements out, and so would a number of rows that the matrix kernels do not divide; neither
occurs with the data sets and two harts, and none is run. 24 bytes of heap hold up
to six blocks of the least size, so that a block can be freed between two
others, on each side of another and at the end, and memalign can leave room
before and behind. The counters that are capped are the edges of the test
bench, the outputs of seven samples and the numbers of runs.

*Fairness.* `WF(Next)` in `Core` says that the clock ticks, as the bench drives it
unconditionally. `BenchSpec` has it for the simulation's own steps, not for the
start or the timeout. `Generator` has it for `Step` and `RunPipeline` for `RunStep`:
the calls of git, the models, Verilator and docker return. Clones, lints, conversions
and simulations have a timeout in the code. The `docker cp` and `docker exec` of compilation and
tests have none: that they return is an assumption about docker, without which a run may
hang there. Neither the start of a run nor a kill is fair. `MtProgram`
has it for each hart, which is a processor with a clock of its own; the spin in
`barrier()` is a step that is enabled when it can end. With these `KeepsExecuting`
(no stall lasts), `RunsEnd`, `RunEnds` and `EveryHartExits` hold.

*Deadlock* is off only where the system stops: the bench after its last edge, the
scan after its last sample, the generator and the pipeline after their last run, retrieval with
its answer. In `matmul` and `malloc` it is on: `Stopped` is the loop in which
`tohost_exit` ends.

## 4. What the code does otherwise than its documents say

Shown by listed runs:

* **Stale operands** (`core_stale_read`): no write-through in `regfile.v`, no
  forwarding to ID. An instruction three behind a writer of its operand reads
  the old value. `core_pipeline` shows this, and a store over an instruction already
  fetched, to be the *only* ways in which operands go wrong.
* **Link PC + 8** (`core_link`): `top.v:236` takes PC + 4 of the fetch stage.
* **No test can pass** (`pass_loop`, `test_bench`): the trace shows IF/ID, where a jump
  to itself alternates with the words fetched behind it; theorem `NoTestPasses`
  says so for every program and every parameter.
* **A stopped container counts as a clean lint** (`generator_docker`).

Properties that are stated in the modules and belong to no run, because the code
violates them; name one in a copy of the configuration to see TLC's trace:

| Module, configuration | Property | Document, or what happens |
|---|---|---|
| `MCCore`, `MCCore.cfg` | `FenceIMakesCurrent` | `rag/knowledge.py:472`: what fence.i needs "to work correctly" |
| `CoreIsa`, `MCCore.cfg` | `StoreDataIsIdExRs2` | `submission_Joshua_Thomas.md:116`, a rewiring that the code rightly does not have |
| `MCCore`, `MCCore.cfg` | `CsrIsWrittenBack` | `rag/generator.py:212`: "wb_sel=2'b11 for CSR instructions" |
| `PureUnits`, `MCUnits.cfg` | `StoresReachTheirLane` | `rag/generator.py:193`: "replicate wdata byte/half into correct lane"; at offsets 1 to 3 zeros are written |
| `PureUnits`, `MCUnits.cfg` | `LoadsReadTheirLane` | `rag/generator.py:192`: loads use `addr[1:0]` |
| `PureUnits`, `MCUnits.cfg` | `NeedsMoreThanMinimum` | `sim/run_tests.py:227`: more than 100 samples; 100 are enough |
| `TestBench`, `MCTestBench.cfg` | `RunsTheProgram` | `submission_Joshua_Thomas.md:79`: "loads `.hex` test files directly into memory" |
| `Generator`, `MCGenerator.cfg` | `AcceptedAreClean` | `README.md:3`: "verifies every file with Verilator lint"; top.v and last-attempt failures are not |
| `Generator`, `MCGenerator.cfg` | `ContractBeforeBody` | `failure_analysis_journey.md:20`: ports file before any body |
| `Generator`, `MCGenerator.cfg` | `TopContractsCurrent` | `failure_analysis_journey.md:24`: only validated contracts; a failed module's ports file is that of an earlier text |
| `Retrieval`, `MCRetrieval.cfg` | `KnownAlwaysIncluded` | `rag/pipeline.py:203`: "Always include these known-good reference modules"; not when there are more than k |
| `MCMtProgram`, `MCMtRace.cfg` | `VerifyPasses` | `cf_matmul.c` and `cm_matmul.c`: hart 0 and hart 1 each add half of the terms to every element, with += and no barrier. `mt/Makefile` runs them with two harts; only a `crt.S` that parks all harts but the first hides it. |

**The sizes of the multi-hart benchmarks.** With the data sets of the repository, as
TLC evaluates in the assumptions of `MCMtSizes`:

* `vvadd1` with two harts and the 1000 elements of `mt-vvadd/dataset.h:6` stores
  `z[1000]` to `z[1007]`, past `results_data` (`LengthsFit`). In the `matmul` run it does so in
  every interleaving (`LeavesArraysIffUnfit`).
* 22 of the 44 matrix kernels take the literal 32 where the matrices are 16 by 16, and leave
  the arrays (`LiteralsOverrun`). `at` stays inside but copies B with the wrong row length and
  computes wrong products (`OthersCompute`). `ce` leaves C in a loop whose additions
  are of zeroes as far as they fall on later rows; `ce_matmul.c:48` says "this could be
  generalized if needed, but I won't bother since it would be tricky". For 32 by 32 matrices all of them are right (`RealAreSound` for those with
  few steps, `LiteralsAreSound` at the scaled size).

Met while modelling and kept in the models as the code has it: a corpus of which
only the manual's tables were added (all clones failed) has a positive count and
is never completed without `--force-rebuild`; the runner removes an incomplete
riscv-tests directory, tests and all, before it clones; the tests run after a
failed compilation and their table is about the simulator of an earlier run; the
in-container table is copied back whether or not this run wrote it; entries
removed from the program, or edited under their old id, keep its knowledge base from
being rebuilt, since only the numbers are compared (the docstring, `rag/knowledge.py:506`,
has a looser test: "If force_rebuild=False and collection already has documents, skip
rebuild"); a clone that was cut short is taken for complete,
and a process that ends while the file of summaries is written loses all of them.
Some properties leave these cases out by their antecedents (`LossHasACause`, `AnswersKept`,
`KnowledgeIsCurrent`, `ReportsAreOfThisRun`): they say that nothing *else* goes wrong, and the
hazards in `PROJECT.json` that they leave out name no property.

## 5. What is proved

For all values of the constants that meet the assumptions named in the modules:

* **CoreProofs.** `TypeCorrect`; `InvHolds`: `IInv` is inductive. From it
  `InFlightInOrder`, `BubblesHaveNoEffect`, `ForwardedAreResults` and
  `OperandsAreCurrent`. `OperandsCurrentUnlessStale` is not inductive as it
  stands: that an operand in EX is current needs `ReadCurrent` (what ID read is
  still in the register file unless it is about to be forwarded), `FetchedCurrent` (what is in ID and EX is still in
  memory), `ForwardsAluResultsOnly` (EX/MEM forwards its ALU result even for a load
  or a jump, which is only right because a load stalls its users and a jump
  empties ID - `WbSelMatches`), `BubblesAreInert`, `ZeroReadsZero`, and
  `InOrder` for the link.
  `CoreImplementsIsa`: every step with a valid
  instruction in EX is one step of `Isa`, every other one stutters, until
  `stale`. A lemma for each piece of state (registers, memory, PC).
  `StallsLastOneCycle`, `NoLongWait`: a bubble in EX neither stalls nor branches, so
  that an instruction is in EX in one of any three cycles.
  `BenchInvHolds`, `LoopIsNeverStable`, `NoTestPasses`: to `IInv` is
  added that the sample last scanned and the one in IF/ID are not both the pass
  instruction at one PC. A displayed jump enters EX unless it stalls; it has
  both source fields 0, so that only a bubble whose destination is x0 could stall it, and
  `mem_read` is 0 in a bubble and a load to x0 is excluded by the hazard unit.
* **UnitProofs.** For words of every width, `AluIsExact`: each of the ten operations returns
  the bits the manual defines, and `ComparatorIsExact`. A number is the sum of its bits
  (`BitIs`, `NumberIs`), which is an induction over the bits; the library's induction
  theorem takes an operator, so `Induction` states it for a set, of which the least
  point outside would have to exist (`Least`). A ripple-carry adder is a
  sequence of carries whose i-th value is the sum of the low i bits divided by 2^i
  (`CarryExists`, `Ripple`); subtraction and both comparisons are that adder on the
  complement, with its last carry and the two signs; a shift is a division or a product whose
  bits `ShiftLeft`, `ShiftRight` and `ShiftSigned` find. `UnitsFitDatapath` says that these
  units meet the assumptions under which the theorems of `CoreProofs` hold, so that those
  are about the core as it is.
  `DecoderInvertsEncoder`: bit i of a concatenation is a bit of one of
  its parts (`Concatenation`), which gives each immediate bit by bit (`BitsOfI` to
  `BitsOfU`); the encoding puts different bits in different places (`TargetsDiffer`), so
  that the two tables invert each other for every immediate a format has, not only
  the sampled ones (`DecodeEncodes`). `LoadsReadBytes`, `StoresWriteBytes`, `NeighboursSurvive`:
  the bytes of a word are its digits in base `ByteSize`, whatever that is
  (`DivisionByProduct`, `BytesOfWord`, `WordOfBytes`), and an aligned store enables the lanes
  it addresses. The first two are about the base of a word; at other offsets the
  code does something else (section 4). `ScanIsExact`: as long as nothing has been
  found, the count is the length of the run at the end of the output (`ScanOf`), and a new
  sample can only complete a run that ends in it (`RunsGrow`).
* **GeneratorProofs.** `GInvHolds`, `AcceptedText`, `VerifiedClean`, for any modules,
  attempts and runs, and the two halves of `RunsEnd`: `RunsShorten` (a bound on
  the steps a run has left falls with each of them) and `RunsGoOn` (it always has one,
  because some module to do comes first in `MODULE_ORDER`). `VerifiedAreClean` needs that a module is decided once per
  run (the one in the loop is not accepted and not still to do), that a fix is
  followed by another attempt, and that the text in "extract" is the one linted.
* **MtProofs.** `BarrierAlwaysInv` and `BarrierRefinement`, for any finite set of
  harts: `SenseBarrier` implements `Barrier`. The invariant ties the counter to the
  number of harts that have entered the round, each hart's sense to the parity
  of its calls, and the published sense to the last round that is complete.
  For any kernels and any number of harts: `PlaceAlwaysInv` (a hart has
  called `barrier()` as often as its place in its list says), hence `NoDataRace` for
  every kernel that `Divides`, `VerdictIsChecked` for every kernel
  that `Awaits` the check; `ProgramKeepsPromise`.
  `VectorsLeaveIffUnfit` is about the vector kernels as they are, for every length and number
  of harts: from the loops of `vvadd0` to `vvadd4` and `mt-memcpy` follows what each round stores to
  (`Rounds0` to `Rounds4`, `LastRound`, `BlocksFit`), that no round leaves the arrays when
  the length fits, and that a round of some hart does when it does not (`Overrun1`, `Overrun2`).
  With `Divides`, `Stays` and `Computes`, `AlwaysComputes`: in every interleaving an element holds
  exactly the `Content` of the steps that lie behind the harts, and what a hart has
  loaded is that too, since nobody else touches the element before its next barrier.
  `AlwaysVerified` follows: no hart finds a wrong result. The conditions are
  about the lists alone and TLC evaluates them (`LiteralsAreSound`, `RealAreSound`, `OthersDivide`, `OthersCompute`, `AllMeet` in `MCMtSizes`).
  For the end of a program there are two theorems. `NoDeadlock`: if the harts also call `barrier()` equally often (`Meets`), one
  of them always has a step to take. Were all of them waiting, those in `barrier()` would be in
  one round, a hart that has exited would have as many calls behind it as they have in all,
  and a round that all have entered has a last hart, which does not spin.
  `WorkRunsOut`: each step takes one away from what its hart has still to do.
* **MallocProofs.** For any arena, word size, requests, alignments and sequence of
  calls: `AlwaysTidy`, `NoByteIsLost`, `AlwaysAGap`, `AlwaysAsAsked`, and `ServesItsCallers`: the
  allocator implements `Heap`. All from `AlwaysTiled`: the free blocks and
  the held ones tile the arena, the free list is ordered and its neighbours
  merged, and every header is right; none of the properties is inductive without the
  rest. There is a lemma for each shape of change (taking, splitting, inserting, merging
  on either side, extending and trimming the end) and one for each function.
  What the loop of `mallinfo` adds up is the number of free bytes: it is a
  recursive function, and the least point of the list at which its sum would be
  wrong does not exist. `HeapAssumption` keeps requests from wrapping when a header is added,
  which `REAL_SIZE` does not check.
* **RetrievalProofs.** For any corpus, components, k and rankings: `AlwaysFull`, `AlwaysKnownFirst` and
  `AlwaysAgreedFirst`, from `AlwaysInOrder`, which says what is known in each phase of
  `retrieve`. A document in both rankings scores more than any in one because
  `FusionAssumption` bounds the length of a ranking: `Factor * K < RrfK + 2`, in the
  code 9 < 62. With longer rankings the property is false.
* **StoreProofs, PipelineProofs.** For any repositories, documents, batch size, versions,
  tests, modules, options and number of runs: `RebuildsHeal`, `LossesHaveCauses`,
  `AnswersAreKept`, `KnowledgeCurrent`, `PassesEarned`, `ReportsOfThisRun`, all from
  `PipelineInvHolds`. `StoreProofs` has what each call does to its own collection,
  `PipelineProofs` that a run does nothing else to them. For the corpus the invariant
  says which clones are accounted for (`ClonesKnown`), what a forced rebuild has done
  at each of its points (`Rebuilt`), what an unharmed build has (`Unharmed`), and where
  the answers are while the file is empty (`AnswersHeld`). For the knowledge base: every
  text in the collection is that of some installed version; if the present version
  extends all of them, the collection is a part of it, and as many documents are then all
  of them. A simulator stays the one a table is about while the runner is between its
  last test and its end (`RunnerInv`), and what a run has done so far is about its files
  (`ReportsInv`). Assumed are different documents for different repositories
  and the manual (their ids begin with the repository's name), finitely many
  documents and entries, and that the probed test is one of the tests. The proof showed that a
  complete build ends the effect of a failure only if no clone is cut short: one
  that has all files when the second build reads it may yield fewer to a third,
  and TLC's instance has two runs.
  `RunsAdvance`: no step of a run goes back to an earlier point of it, and the loops over the
  repositories, the batches and the tests get shorter with each turn, under every failure.
  `RunsHaveAStep`: until it ends it has a step to take; the one that could be missing is a batch
  of exactly the length the code slices off, which `SubsetOfSize` finds.

Every safety property of the passing runs is a theorem. Only model-checked are the four
liveness properties themselves, since fairness and ENABLED are out of the prover's reach. Their
safety halves are proved: that each step brings the end nearer (`NoLongWait`,
`RunsShorten`, `RunsAdvance`, `WorkRunsOut`), and for the generator, the pipeline and the benchmarks
that the guard of some step is met until then (`RunsGoOn`, `RunsHaveAStep`, `NoDeadlock`). What
is left to TLC is that a step whose guard is met is enabled, and that fairness then takes it.
Also only evaluated by TLC: that the matrix kernels meet the conditions of `MtProofs`, since
their lists are built by folds over operators; and, being false, everything in section 4.

## 6. Not modelled

Misaligned and out-of-range accesses beyond the wrap of addresses; the `zero`
output of the ALU and the ecall output of the CSR unit, which nothing reads; the
display's format; the ELF conversion except for the image it yields; prompts,
contexts and the text of modules (whether `extract_ports` reads every port
declaration is a matter of its regular expression); that the file is written in normalised form
while `validate` and `extract_ports` see the answer as it came; waits and logs. The exception a lint
raises when docker is not installed at all is `AttemptRaises`. `query_knowledge`, one
query with the error handling of `retrieve`, and the cached handles of
`rag/pipeline.py`. Chunking, embedding and similarity. The values in the matrices and the
statistics of the benchmarks; kernels with more harts than they are written
for, and sizes they do not divide. `MALLOC_DIRECTION -1` of the allocator, which
no build selects, and pointers its caller no longer owns.

`debug/programs/multicore.c`, whose harts fill a buffer under a spin lock for a
debugger to watch, could follow. The rest of `data/riscv-tests` is
single-hart programs that compute one value or
poke one register (and `debug/programs/translate.c`, which sets up page tables once), and assembly
tests, which are the runner's inputs; `data/pipelined-rv32i` is a reference core of
which only text is used. `compare_ground_truth.py`, the lint tests and the debug scripts read
files and keep no state.

## 7. What could follow

The lock and the buffer of `multicore.c`, with the end of its pattern when
`hart_count` wraps; `query_knowledge` and a store rebuilt by another process between two calls; the
test bench composed with the runner by refinement, a test being an atomic
verdict; `Computes` for all kernels at full size, or proved from the loops; a barrier on a weakly
ordered memory.

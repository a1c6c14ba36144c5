----------------------------- MODULE TestRunner -----------------------------
(***************************************************************************)
(* sim/run_tests.py: the search for the riscv-tests, the loop over the     *)
(* tests with the one mem_init.hex they share, and the table of results.   *)
(* The simulation of one test is TestBench; here a binary passes a test    *)
(* or does not.                                                            *)
(***************************************************************************)
EXTENDS Integers, SequencesExt

CONSTANTS
    Tests,              \* RV32UI_TESTS
    Probe,              \* the test whose file shows that a directory has the tests
    Passes(_, _)        \* Passes(binary, test): what the simulation of it shows

ASSUME TestsAssumption == Tests \in Seq(ToSet(Tests)) /\ Probe \in ToSet(Tests)

VARIABLES
    elves,              \* the test files in the directory that is searched
    hex,                \* mem_init.hex: the test it was made of, in a set
    binary,             \* SIM_BIN
    table,              \* results/isa_results.md, with the binary it is about
    runner              \* the process

runnerFiles == << elves, hex, table >>
runnerVars == << runnerFiles, binary, runner >>

Nothing == [ none |-> TRUE ]
NotRunning == [ at |-> "idle", todo |-> << >>, passed |-> {} ]

RunnerInit ==
    /\ elves \in { ToSet(Tests), ToSet(Tests) \ {Probe} }
    /\ hex = {} /\ binary = Nothing /\ table = Nothing
    /\ runner = NotRunning

StartRunner ==
    /\ runner.at = "idle"
    /\ runner' = [ NotRunning EXCEPT !.at = "find", !.todo = Tests ]
    /\ UNCHANGED << runnerFiles, binary >>

\* Nothing is written unless the tests and the binary are found.
Find ==
    /\ runner.at = "find" /\ Probe \in elves
    /\ runner' = [ runner EXCEPT !.at = IF binary = Nothing THEN "exit" ELSE "test" ]
    /\ UNCHANGED << runnerFiles, binary >>

\* An incomplete directory is removed, if it can be, and cloned anew; git may
\* fail, and what it fetches may lack the compiled tests.
FetchTests ==
    /\ runner.at = "find" /\ Probe \notin elves
    /\ elves' \in { {}, elves, ToSet(Tests) }
    /\ runner' = [ runner EXCEPT !.at = IF Probe \in elves' THEN "find" ELSE "exit" ]
    /\ UNCHANGED << hex, table, binary >>

Finished(verdict) ==
    LET t == Head(runner.todo)
    IN  runner' = [ runner EXCEPT !.todo = Tail(@),
                       !.passed = IF verdict THEN @ \cup {t} ELSE @ ]

Testing == runner.at = "test" /\ runner.todo # << >>

\* No file, or a conversion that fails: the test has failed.
NotRun ==
    /\ Testing
    /\ Finished(FALSE)
    /\ UNCHANGED << runnerFiles, binary >>

\* Mutant: a conversion that fails leaves the simulation with the last test's
\* memory.
SimulateStale ==
    /\ Testing /\ Head(runner.todo) \in elves
    /\ \/ hex' = {Head(runner.todo)}
       \/ hex # {} /\ UNCHANGED hex
    /\ Finished(\A test \in hex' : Passes(binary, test))
    /\ UNCHANGED << elves, table, binary >>

\* The converted test is written, and the simulation started beside it; a
\* binary that does not read the file passes every test or none.
Simulate ==
    /\ Testing /\ Head(runner.todo) \in elves
    /\ hex' = {Head(runner.todo)}
    /\ Finished(\A test \in hex' : Passes(binary, test))
    /\ UNCHANGED << elves, table, binary >>

\* The simulation is stopped after 30 seconds.
SimulationTimesOut ==
    /\ Testing /\ Head(runner.todo) \in elves
    /\ hex' = {Head(runner.todo)}
    /\ Finished(FALSE)
    /\ UNCHANGED << elves, table, binary >>

\* objcopy runs into its own timeout, which nobody catches: no table.
ConversionRaises ==
    /\ Testing /\ Head(runner.todo) \in elves
    /\ runner' = [ runner EXCEPT !.at = "exit" ]
    /\ UNCHANGED << runnerFiles, binary >>

WriteResults ==
    /\ runner.at = "test" /\ runner.todo = << >>
    /\ table' = [ build |-> binary, passed |-> runner.passed ]
    /\ runner' = [ runner EXCEPT !.at = "written" ]
    /\ UNCHANGED << elves, hex, binary >>

RunnerStep == Find \/ FetchTests \/ NotRun \/ Simulate \/ SimulationTimesOut
              \/ ConversionRaises \/ WriteResults

RunnerDone == runner.at \in {"exit", "written"}
RunnerEnds == runner' = NotRunning /\ UNCHANGED << runnerFiles, binary >>

---------------------------------------------------------------------------

(* A table credits a test with a pass only if the binary the table is made *)
(* for passes that very test: not the one before it, whose memory image    *)
(* lies in the same file, and not for a file that was never converted.     *)
Earned(t) == t = Nothing \/ \A test \in t.passed : Passes(t.build, test)

=============================================================================

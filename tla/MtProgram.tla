----------------------------- MODULE MtProgram -----------------------------
(* A multi-hart benchmark: every hart runs its own list of steps over the   *)
(* shared arrays, meets the others in barrier(), checks the results and     *)
(* exits. The lists come from the kernels (MtKernels); this module is what  *)
(* two harts may do to each other while they run them.                      *)
(*                                                                          *)
(* An element is abstracted to the set of the terms that have been added to *)
(* it: the product of a row and a column is right when each term is there   *)
(* exactly once. A "set" stores a sum computed in registers; an "add" is    *)
(* the += of the code, a load and later a store; each is one group of       *)
(* elements the kernel handles together.                                    *)
EXTENDS SenseBarrier, MtSteps

CONSTANTS
    Kernels,          \* the names of the kernels
    Plan,             \* Plan[kernel][c]: the steps of hart c
    Scratch,          \* the elements of the arrays the harts fill for each other
    Expected          \* Expected[kernel]: the terms each result must have

ASSUME PlanAssumption ==
    \A k \in Kernels, c \in Cores :
        Len(Plan[k][c]) \in Nat /\ DOMAIN Plan[k][c] = 1 .. Len(Plan[k][c])

VARIABLES
    kernel,           \* the benchmark that runs
    pc,               \* the next step of each hart
    reg,              \* what a hart has loaded and not stored yet
    mem,              \* the shared arrays
    exit              \* the code each hart has passed to exit(), or Running

programVars == <<kernel, pc, reg, mem, exit>>
vars == <<barrierVars, programVars>>

Running == -1
Nothing == [x \in {} |-> {}]     \* no load is pending

Steps(c) == Plan[kernel][c]
Current(c) == Steps(c)[pc[c]]
Has(c) == exit[c] = Running /\ pc[c] <= Len(Steps(c))
Doing(c, op) == Has(c) /\ Current(c).op = op

(* The elements a step stores to, and those it reads.                       *)
Writes(s) == s.cells
Reads(s) == s.uses \cup IF s.op = "add" THEN s.cells ELSE {}

(* What a step adds, and what an element holds after that.                  *)
Product(s) == s.terms \cup IF \E x \in s.uses : mem[x] = {} THEN {Wrong} ELSE {}
Plus(old, new) == old \cup new \cup IF old \cap new = {} THEN {} ELSE {Wrong}

Advance(c) == pc' = [pc EXCEPT ![c] = @ + 1]

PInit ==
    /\ BarrierInit
    /\ kernel \in Kernels
    /\ pc = [c \in Cores |-> 1]
    /\ reg = [c \in Cores |-> Nothing]
    /\ mem = [x \in DOMAIN Expected[kernel] \cup Scratch |-> {}]
    /\ exit = [c \in Cores |-> Running]

(* C[..] = sum *)
Set(c) ==
    /\ Doing(c, "set")
    /\ mem' = [x \in DOMAIN mem |-> IF x \in Current(c).cells THEN Product(Current(c)) ELSE mem[x]]
    /\ Advance(c)
    /\ UNCHANGED <<barrierVars, kernel, reg, exit>>

(* C[..] += sum: the load ... (What lies behind the arrays is not modelled.) *)
Held(x) == IF x \in DOMAIN mem THEN mem[x] ELSE {}

Load(c) ==
    /\ Doing(c, "add")
    /\ DOMAIN reg[c] = {}
    /\ reg' = [reg EXCEPT ![c] = [x \in Current(c).cells |-> Held(x)]]
    /\ UNCHANGED <<barrierVars, kernel, pc, mem, exit>>

(* ... and the store. *)
Store(c) ==
    /\ Doing(c, "add")
    /\ DOMAIN reg[c] # {}
    /\ mem' = [x \in DOMAIN mem |-> IF x \in Current(c).cells
                                    THEN Plus(reg[c][x], Product(Current(c))) ELSE mem[x]]
    /\ reg' = [reg EXCEPT ![c] = Nothing]
    /\ Advance(c)
    /\ UNCHANGED <<barrierVars, kernel, exit>>

(* barrier(ncores) *)
Meet(c) ==
    /\ Doing(c, "barrier")
    /\ \/ (Arrive(c) \/ Reset(c)) /\ UNCHANGED pc
       \/ (Release(c) \/ Spin(c)) /\ Advance(c)
    /\ UNCHANGED <<kernel, reg, mem, exit>>

(* verify(), which compares the results and gives exit() its code. *)
Right == \A x \in DOMAIN Expected[kernel] : mem[x] = Expected[kernel][x]

Verify(c) ==
    /\ Doing(c, "verify")
    /\ IF Right THEN Advance(c) /\ UNCHANGED exit
                ELSE exit' = [exit EXCEPT ![c] = 1] /\ UNCHANGED pc
    /\ UNCHANGED <<barrierVars, kernel, reg, mem>>

\* Mutant: exit() comes back to a hart that is not the first.
ExitFirstOnly(c) ==
    /\ exit[c] = Running
    /\ pc[c] > Len(Steps(c))
    /\ IF c = 0 THEN exit' = [exit EXCEPT ![c] = 0] ELSE UNCHANGED exit
    /\ UNCHANGED <<barrierVars, kernel, pc, reg, mem>>

(* exit(0), the end of thread_entry(). *)
Exit(c) ==
    /\ exit[c] = Running
    /\ pc[c] > Len(Steps(c))
    /\ exit' = [exit EXCEPT ![c] = 0]
    /\ UNCHANGED <<barrierVars, kernel, pc, reg, mem>>

Hart(c) == Set(c) \/ Load(c) \/ Store(c) \/ Meet(c) \/ Verify(c) \/ Exit(c)

(* tohost_exit() loops for ever. *)
Stopped == (\A c \in Cores : exit[c] # Running) /\ UNCHANGED vars

PNext == (\E c \in Cores : Hart(c)) \/ Stopped

PSpec == PInit /\ [][PNext]_vars

(* Each hart has its own clock: none is held up for ever by the others'     *)
(* steps.                                                                   *)
FairSpec == PSpec /\ \A c \in Cores : WF_vars(Hart(c))
-----------------------------------------------------------------------------
(* What a kernel has to get right for that: steps of two harts with equally *)
(* many barriers before them touch different elements.                      *)
BarriersBefore(k, c, n) == {m \in 1 .. n - 1 : Plan[k][c][m].op = "barrier"}

Conflict(s, t) ==
    \/ Writes(s) \cap (Writes(t) \cup Reads(t)) # {}
    \/ Writes(t) \cap Reads(s) # {}

Divides(k) ==
    \A c, d \in Cores : c # d =>
        \A m \in DOMAIN Plan[k][c], n \in DOMAIN Plan[k][d] :
            /\ Plan[k][c][m].op # "barrier"
            /\ Plan[k][d][n].op # "barrier"
            /\ Cardinality(BarriersBefore(k, c, m)) = Cardinality(BarriersBefore(k, d, n))
            => ~Conflict(Plan[k][c][m], Plan[k][d][n])

(* And for the verdict: a hart checks the results itself, or has a barrier  *)
(* after the checks of the one that does.                                   *)
Checks(k, c) == {n \in DOMAIN Plan[k][c] : Plan[k][c][n].op = "verify"}
Awaits(k) ==
    \A c \in Cores : \E d \in Cores :
        /\ Checks(k, d) # {}
        /\ c # d => \A n \in Checks(k, d) :
              Cardinality(BarriersBefore(k, d, n)) < Cardinality(BarriersBefore(k, c, Len(Plan[k][c]) + 1))
-----------------------------------------------------------------------------
(* And for the results: the steps of a kernel are partly ordered, by the    *)
(* barriers and by the list of each hart, and in that order every term is   *)
(* added to its element once, after what the element is made of.            *)
Places(k) == UNION {{c} \X DOMAIN Plan[k][c] : c \in Cores}
At(k, p) == Plan[k][p[1]][p[2]]
Round(k, p) == Cardinality(BarriersBefore(k, p[1], p[2]))
Earlier(k, p, q) == \/ Round(k, p) < Round(k, q)
                    \/ p[1] = q[1] /\ p[2] < q[2]

(* What the steps P, all of which store to one element, leave there: the    *)
(* terms that no later "set" of them replaces.                              *)
Content(k, P) ==
    UNION {At(k, p).terms : p \in {q \in P : \A r \in P : At(k, r).op = "set" => ~Earlier(k, q, r)}}

(* No step leaves the arrays. *)
Stays(k) ==
    \A p \in Places(k) : Writes(At(k, p)) \cup Reads(At(k, p)) \subseteq DOMAIN Expected[k] \cup Scratch

(* The steps that store to x, those that need it to be there, the checks.   *)
Stores(k, x) == {p \in Places(k) : x \in At(k, p).cells}
Needs(k, x) == {p \in Places(k) : At(k, p).op \in {"set", "add"} /\ x \in At(k, p).uses}
Verifies(k) == {p \in Places(k) : At(k, p).op = "verify"}

Computes(k) ==
    /\ \A p \in Places(k) : IF At(k, p).op \in {"set", "add"} THEN At(k, p).terms # {} ELSE At(k, p).cells = {}
    /\ \A p \in Verifies(k) : DOMAIN Expected[k] \subseteq At(k, p).uses
    /\ \A x \in DOMAIN Expected[k] \cup Scratch :
          LET S == Stores(k, x)
              Before(q) == {p \in S : Earlier(k, p, q)}
          IN  /\ \A q \in S : At(k, q).op = "add" => Content(k, Before(q)) \cap At(k, q).terms = {}
              /\ \A q \in Needs(k, x) : Before(q) # {}
              /\ x \in DOMAIN Expected[k] => \A q \in Verifies(k) : Content(k, Before(q)) = Expected[k][x]
-----------------------------------------------------------------------------
(* And for the end: the lists have no other steps, a load has something to  *)
(* load, and all harts call barrier() equally often.                        *)
Operations == {"set", "add", "barrier", "verify"}
Calls(k, c) == Cardinality(BarriersBefore(k, c, Len(Plan[k][c]) + 1))

Meets(k) ==
    /\ \A p \in Places(k) :
          /\ At(k, p).op \in Operations
          /\ At(k, p).op = "add" => At(k, p).cells # {}
    /\ \A c, d \in Cores : Calls(k, c) = Calls(k, d)
-----------------------------------------------------------------------------
(* No two harts are about to touch the same element, one of them storing to *)
(* it, without a barrier between the two accesses: the kernels use no lock  *)
(* and no atomic, so only the barriers and the way the work is divided keep *)
(* the harts apart.                                                         *)
Accesses(c) == Has(c) /\ Current(c).op # "barrier"
DataRaceFree ==
    \A c, d \in Cores : c # d /\ Accesses(c) /\ Accesses(d) => ~Conflict(Current(c), Current(d))

(* No step is about to store, or to read, outside the arrays.               *)
InBounds == \A c \in Cores : Has(c) => Writes(Current(c)) \cup Reads(Current(c)) \subseteq DOMAIN mem

(* verify() never finds a wrong result: every element has every term, once, *)
(* whatever the interleaving of the harts.                                  *)
VerifyPasses == \A c \in Cores : exit[c] # 1

(* The first exit(0) ends the simulation: by then some hart has finished    *)
(* all its checks of the results.                                           *)
SuccessIsVerified ==
    \A c \in Cores : exit[c] = 0 =>
        \E d \in Cores :
            Checks(kernel, d) # {} /\ \A n \in Checks(kernel, d) : n < pc[d]

(* Every hart gets through all its barriers and exits, although a hart that *)
(* called barrier() once more than another would wait for ever.             *)
EveryHartExits == <>(\A c \in Cores : exit[c] # Running)
=============================================================================

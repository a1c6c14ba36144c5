------------------------------ MODULE MtSteps -------------------------------
(* The steps that the lists of a benchmark are made of. An element of a     *)
(* shared array is its name and its index, the results array is "C".        *)
EXTENDS Integers, Sequences

Wrong == -1           \* a term added twice, or made of an element not yet there

(* A step: += of some terms to elements of the results, or = of them.       *)
C(indexes) == {"C"} \X indexes
Step(op, cells, terms, uses) == [op |-> op, cells |-> cells, terms |-> terms, uses |-> uses]
Add(indexes, terms) == Step("add", C(indexes), terms, {})
Put(indexes, terms) == Step("set", C(indexes), terms, {})
Barrier_ == Step("barrier", {}, {}, {})

(* Runs of indexes, for (x = a; x < b; x += s), the list that such a loop   *)
(* makes, and one that only some harts have.                                *)
Span(first, n) == first .. first + n - 1
StepBy(a, b, s) == [n \in 1 .. (b - a + s - 1) \div s |-> a + (n - 1) * s]
Each(s, Body(_)) == [n \in DOMAIN s |-> Body(s[n])]
When(cond, steps) == IF cond THEN steps ELSE <<>>
=============================================================================

---------------------------- MODULE MtBenchmarks ----------------------------
(* The matrix benchmarks of data/riscv-tests/mt, by the names of their      *)
(* files: the steps of a hart and what the results must be.                 *)
EXTENDS MtKernels

Matmuls(c) ==
    [ad |-> ad(c), ae |-> ae(c), af |-> af(c), ag |-> ag(c), ai |-> ai(c), ak |-> ak(c),
     al |-> al(c), am |-> am(c), an |-> an(c), ap |-> ap(c), aq |-> aq(c), ar |-> ar(c),
     at |-> at(c), av |-> av(c), ay |-> ay(c), az |-> az(c), bb |-> bb(c), bc |-> bc(c),
     bf |-> bf(c), bh |-> bh(c), bj |-> bj(c), bk |-> bk(c), bm |-> bm(c), bo |-> bo(c),
     br |-> br(c), bs |-> bs(c), ce |-> ce(c), cf |-> cf(c), cg |-> cg(c), ci |-> ci(c),
     ck |-> ck(c), cl |-> cl(c), cm |-> cm(c), cs |-> cs(c), cv |-> cv(c), cy |-> cy(c),
     dc |-> dc(c), df |-> df(c), dm |-> dm(c), do |-> do(c), dr |-> dr(c), ds |-> ds(c),
     du |-> du(c), dv |-> dv(c)]

MatmulResults == [x \in C(0 .. Dim * Dim - 1) |-> All]
Copied == BB(All, All)
=============================================================================

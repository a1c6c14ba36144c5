----------------------------- MODULE MtKernels -----------------------------
(* How the kernels of data/riscv-tests/mt divide a matrix product between   *)
(* the harts: each is the list of the steps of one hart. A kernel is        *)
(* matmul(coreid, ncores, lda, A, B, C): element (j, i) of C is at index    *)
(* j*lda + i, the sum over k of A[j*lda + k] * B[k*lda + i].                *)
(*                                                                          *)
(* Dim is lda, and Full the literal 32 that many kernels use in its place;  *)
(* the literals 16 and 8 are Half and Quarter; 4 and 2 are themselves. With *)
(* Full = 32 the loops are those of the code. The innermost loops, which    *)
(* walk along a row, down the columns of a block and over k, are one step,  *)
(* and a private copy of an operand is the operand.                         *)
EXTENDS MtSteps, SequencesExt

CONSTANTS Cores, Dim, Full

NC == Cardinality(Cores)

(* The matrices are of 32 by 32 or, as in the repository's data set, 16 by  *)
(* 16. (For all sizes the blocks of the kernels come out even.)             *)
RightSizes == Full \in Nat /\ Full % 8 = 0 /\ Dim \in {Full, Full \div 2}

Half == Full \div 2
Quarter == Full \div 4
All == 0 .. Dim - 1
AllFull == 0 .. Full - 1
LowOf(n) == 0 .. n \div 2 - 1
HighOf(n) == n \div 2 .. n - 1

(* The lists that the body of a loop makes, one after the other. *)
Up(a, b) == StepBy(a, b, 1)
Down(a, b) == Reverse(Up(a, b))
ForEach(s, Body(_)) == FlattenSeq(Each(s, Body))

(* The indexes of rows and columns of C, by lda or by the literal. *)
Block(stride, rows, cols) == {j * stride + i : j \in rows, i \in cols}
Cells(rows, cols) == Block(Dim, rows, cols)
CellsFull(rows, cols) == Block(Full, rows, cols)

(* The products a kernel adds when it goes by the literal: those of the     *)
(* element only if the literal is lda. Otherwise Wrong stands for them.     *)
Literally(ks) == IF Dim = Full THEN ks ELSE {Wrong}

(* The elements of the shared copy of B, filled in and needed by a step. *)
BB(ks, cols) == {"BB"} \X ks \X cols
AddBB(indexes, ks, cols) == Step("add", C(indexes), ks, BB(ks, cols))
PutBB(indexes, ks, cols) == Step("set", C(indexes), ks, BB(ks, cols))
FillBB(ks, cols) == Step("set", BB(ks, cols), {0}, {})

(* The rows (or columns) of hart c when they are dealt in equal runs. *)
Share == Dim \div NC
First(c) == c * Share
End(c) == (c + 1) * Share
Own(c) == Up(First(c), End(c))
OwnSet(c) == First(c) .. End(c) - 1
-----------------------------------------------------------------------------
(* Own rows, in various orders of the loops. *)
ad(c) == ForEach(Own(c), LAMBDA j : ForEach(StepBy(0, Full, 2), LAMBDA k :
            <<Add(CellsFull({j}, AllFull), Literally({k, k + 1})), Barrier_>>))

an(c) == ForEach(Own(c), LAMBDA j :
            ForEach(Up(0, Dim), LAMBDA k : <<Add(Cells({j}, All), {k}), Barrier_>>))

ap(c) == ForEach(Own(c), LAMBDA j : Each(Up(0, Dim), LAMBDA k : Add(Cells({j}, All), {k})))

ar(c) == Each(Own(c), LAMBDA i : Add(Cells({i}, All), All))

af(c) == Each(StepBy((c * Dim) \div NC, (Dim * (1 + c)) \div NC, 2), LAMBDA l :
            Put(CellsFull({l, l + 1}, All), Literally(All)))
am(c) == Each(StepBy((c * Full) \div NC, (Full * (1 + c)) \div NC, 2), LAMBDA l :
            Put(CellsFull({l, l + 1}, AllFull), Literally(All)))
du(c) == Each(StepBy((c * Full) \div NC, (Full * (1 + c)) \div NC, 2), LAMBDA l :
            Put(CellsFull({l, l + 1}, AllFull), Literally(All)))

ag(c) == ForEach(StepBy(0, Dim, 2), LAMBDA i : ForEach(StepBy(0, Dim, 4), LAMBDA k :
            Each(StepBy(First(c), End(c), 4), LAMBDA j :
                Add(Cells(Span(j, 4), {i, i + 1}), Span(k, 4))) \o <<Barrier_>>))
cg(c) == ForEach(StepBy(0, Dim, 2), LAMBDA i : ForEach(StepBy(0, Dim, 4), LAMBDA k :
            Each(StepBy(First(c), End(c), 4), LAMBDA j :
                Add(Cells(Span(j, 4), {i, i + 1}), Span(k, 4))) \o <<Barrier_>>))

ai(c) == <<Barrier_>> \o ForEach(Up((c * Dim) \div NC, (c * Dim) \div NC + Share), LAMBDA j :
            Each(StepBy(0, Dim, 4), LAMBDA i : Put(Cells({j}, Span(i, 4)), All)))

(* The harts of ci walk k in opposite directions, into the same registers. *)
ci(c) == <<Barrier_>> \o ForEach(Up((c * Dim) \div NC, (c * Dim) \div NC + Share), LAMBDA j :
            Each(StepBy(0, Dim, 4), LAMBDA i : Put(Cells({j}, Span(i, 4)), All)))

bb(c) == ForEach(StepBy(0, Dim, 2), LAMBDA i :
            Each(StepBy(First(c), End(c), 4), LAMBDA j : Put(Cells(Span(j, 4), {i, i + 1}), All)))

do(c) == ForEach(Up(0, Full), LAMBDA i :
            Each(Up(c * (Full \div NC), (c + 1) * (Full \div NC)), LAMBDA j :
                Put(CellsFull({j}, {i}), Literally(AllFull))))

(* The last hart of bm and dm takes the rows that are left over. *)
Rows4(c) == StepBy(First(c), ((IF c # NC - 1 THEN End(c) ELSE Dim) \div 4) * 4, 4)
bm_first(c) == Each(Rows4(c), LAMBDA i : Add(Cells(Span(i, 4), All), All))
bm_last(c) == Each(Rows4(c), LAMBDA i : Add(Cells(Span(i, 4), All), All))
bm(c) == IF c # NC - 1 THEN bm_first(c) ELSE bm_last(c)
-----------------------------------------------------------------------------
(* Rows or columns dealt in turn. *)
aq(c) == ForEach(StepBy(c, Dim, 2 * NC), LAMBDA i :
            Each(Up(0, Dim), LAMBDA j : Add(Cells({j}, {i, i + NC}), All)))

bs(c) == ForEach(StepBy(c, Dim, 4 * NC), LAMBDA j : Each(Up(0, Dim), LAMBDA k :
            Add(Cells({j, j + NC, j + 2 * NC, j + 3 * NC}, All), {k})))

cs(c) == ForEach(StepBy(c, Dim, 2 * NC), LAMBDA j :
            ForEach(Up(0, Dim), LAMBDA i : <<Put(Cells({j, j + NC}, {i}), All), Barrier_>>))

ds(c) == ForEach(StepBy(4 * c, Dim, 4 * NC), LAMBDA j :
            Each(StepBy(0, Dim, 2), LAMBDA k : Add(Cells(Span(j, 4), All), {k, k + 1})))

(* The private transpose of at is filled by literals: row i of it is row    *)
(* i - 1 with the wrong half of the columns of B, but for row 0.            *)
at(c) == ForEach(Up(0, Dim), LAMBDA j :
            ForEach(StepBy((c * Dim) \div NC, ((c + 1) * Dim) \div NC, Quarter), LAMBDA b :
                Each(Up(b, b + Quarter), LAMBDA i :
                    Add(Cells({j}, {i}), IF i = 0 THEN All ELSE Literally(All)))))
-----------------------------------------------------------------------------
(* Blocks of 16 by 16, the last two by a start of the hart's own. (They     *)
(* also stop at lda, which is a multiple of 16.)                            *)
ak(c) == ForEach(StepBy(Half * c, Dim, Half * NC), LAMBDA jj : ForEach(StepBy(0, Dim, Half), LAMBDA ii :
            Each(Up(jj, jj + Half), LAMBDA j : Add(Cells({j}, Span(ii, Half)), All))))

ck(c) == ForEach(StepBy(Half * c, Dim, Half * NC), LAMBDA jj : ForEach(Up(0, Dim \div Half), LAMBDA n :
            Each(StepBy(jj, jj + Half, 4), LAMBDA j :
                Add(Cells(Span(j, 4), Span((Half * c + n * Half) % Dim, Half)), All))))

(* Blocks of k for the hart's own rows; only for 32 by 32 and two harts,    *)
(* else hart 0 does it all.                                                 *)
Naive(c) == When(c = 0, Each(Up(0, Dim), LAMBDA i : Add(Cells(All, {i}), All)))
Blocks(c, kk) == Each(Own(c), LAMBDA j : Add(Cells({j}, All), Span(kk, Half)))
ForBlocks == NC = 2 /\ Dim = Full

bc(c) == IF ForBlocks THEN ForEach(StepBy(0, Dim, Half), LAMBDA kk : Blocks(c, kk)) ELSE Naive(c)

dc_near(c) == Blocks(c, IF c = 0 THEN 0 ELSE Half)
dc_far(c) == Blocks(c, IF c # 0 THEN 0 ELSE Half)
dc(c) == IF ForBlocks THEN dc_near(c) \o dc_far(c) ELSE Naive(c)
-----------------------------------------------------------------------------
(* One half of the product for hart 0 and one for hart 1, or for hart 0 too *)
(* when it is alone; any other hart returns. Which half goes by the literal,*)
(* but for bh and bj.                                                       *)
Second(c) == c = 1 \/ NC = 1
Top == Up(0, Half)
Bottom == Up(Half, Full)
LeftHalf(rows) == Each(rows, LAMBDA j : Add(Cells({j}, LowOf(Full)), Literally(AllFull)))
RightHalf(rows) == Each(rows, LAMBDA j : Add(Cells({j}, HighOf(Full)), Literally(AllFull)))

al(c) == When(c = 0, LeftHalf(Up(0, Full))) \o When(Second(c), RightHalf(Up(0, Full)))

bf(c) == When(c = 0, Each(Up(0, Full), LAMBDA j : Put(Cells({j}, LowOf(Full)), Literally(AllFull))))
      \o When(Second(c), Each(Up(0, Full), LAMBDA j : Put(Cells({j}, HighOf(Full)), Literally(AllFull))))

cl_low(c) == When(c = 0, LeftHalf(Up(0, Full)))
cl_high(c) == When(Second(c), RightHalf(Bottom \o Top))
cl(c) == cl_low(c) \o cl_high(c)

df_low(c) == When(c = 0, LeftHalf(Top \o Bottom))
df_high(c) == When(Second(c), RightHalf(Bottom \o Top))
df(c) == df_low(c) \o df_high(c)

av_high(c) == When(Second(c), ForEach(Bottom, LAMBDA j : Each(StepBy(0, Full, Quarter), LAMBDA m :
                Add(Cells({j}, AllFull), Literally(Span(m, Quarter))))))
av_low(c) == When(c = 0, ForEach(Top, LAMBDA j : Each(StepBy(0, Full, Quarter), LAMBDA m :
                Add(Cells({j}, AllFull), Literally(Span(m, Quarter))))))
av(c) == av_high(c) \o av_low(c)

cv_high(c) == When(Second(c), ForEach(Bottom, LAMBDA j : Each(Up(0, Full), LAMBDA k :
                Add(Cells({j}, AllFull), Literally({k})))))
cv_low(c) == When(c = 0, ForEach(Top, LAMBDA j : Each(Up(0, Full), LAMBDA k :
                Add(Cells({j}, AllFull), Literally({k})))))
cv(c) == cv_high(c) \o cv_low(c)

(* Eight elements at a time from index 512 of the results on, or from 0. *)
Halves(c) == LET end == IF NC = 1 THEN 2 ELSE c + 1
             IN  StepBy(c * (Full * Half), end * (Full * Half), Quarter)
ay(c) == When(c <= 1, Each(Halves(c), LAMBDA j : Put(Span(j, Quarter), Literally(All))))
az(c) == When(c <= 1, Each(Halves(c), LAMBDA j : Put(Span(j, Quarter), Literally(All))))
cy(c) == When(c <= 1, Each(Halves(c), LAMBDA j : Put(Span(j, Quarter), Literally(All))))

bh(c) == When(c = 0, ForEach(<<LowOf(Dim), HighOf(Dim)>>, LAMBDA ks :
                Each(Up(0, Dim \div 2), LAMBDA j : Add(Cells({j}, All), ks))))
      \o When(Second(c), ForEach(<<HighOf(Dim), LowOf(Dim)>>, LAMBDA ks :
                Each(Down(Dim \div 2, Dim), LAMBDA j : Add(Cells({j}, All), ks))))
bj(c) == When(c = 0, ForEach(<<LowOf(Dim), HighOf(Dim)>>, LAMBDA ks :
                Each(Up(0, Dim \div 2), LAMBDA j : Add(Cells({j}, All), ks))))
      \o When(Second(c), ForEach(<<HighOf(Dim), LowOf(Dim)>>, LAMBDA ks :
                Each(Down(Dim \div 2, Dim), LAMBDA j : Add(Cells({j}, All), ks))))

HalfTerms(rows) == ForEach(<<LowOf(Full), HighOf(Full)>>, LAMBDA ks :
                Each(rows, LAMBDA j : Add(CellsFull({j}, AllFull), Literally(ks))))
bk(c) == When(c = 0, HalfTerms(Top)) \o When(Second(c), HalfTerms(Bottom))
dv(c) == When(Second(c), HalfTerms(Top)) \o When(c = 0, HalfTerms(Bottom))

bo(c) == When(c = 0, ForEach(Up(0, Full), LAMBDA i : Each(StepBy(0, Half, 2), LAMBDA j :
                Put(Cells({j, j + 1}, {i}), Literally(AllFull)))))
      \o When(Second(c), ForEach(Up(0, Full), LAMBDA i : Each(StepBy(Half, Full, 2), LAMBDA j :
                Put(Cells({j, j + 1}, {i}), Literally(AllFull)))))

(* cf and cm divide the terms and not the elements: hart 0 adds the low k   *)
(* to the rows from the top, hart 1 the high k from the bottom, both with   *)
(* += on all of C and no barrier.                                           *)
cf(c) == When(c = 0, Each(StepBy(0, Full, 2), LAMBDA i :
                Add(CellsFull({i, i + 1}, AllFull), Literally(LowOf(Full)))))
      \o When(Second(c), Each(StepBy(0, Full, 2), LAMBDA i :
                Add(CellsFull({Full - 1 - i, Full - 2 - i}, AllFull), Literally(HighOf(Full)))))
cm(c) == When(c = 0, Each(StepBy(0, Dim, 2), LAMBDA i :
                Add(Cells({i, i + 1}, AllFull), Literally(LowOf(Full)))))
      \o When(Second(c), Each(StepBy(0, Full, 2), LAMBDA i :
                Add(Cells({Full - 1 - i, Full - 2 - i}, AllFull), Literally(HighOf(Full)))))
-----------------------------------------------------------------------------
(* The harts first make a copy of B for each other. *)
ae(c) == ForEach(Up(0, Dim), LAMBDA k : <<FillBB({k}, OwnSet(c)), Barrier_>>)
      \o ForEach(StepBy(0, Dim, 4), LAMBDA i : ForEach(Own(c), LAMBDA j :
            <<PutBB(Cells({j}, Span(i, 4)), All, Span(i, 4)), Barrier_>>))

(* ce deals the columns by the literal: past lda its copy of B is all       *)
(* zeroes, which it adds to the next row.                                   *)
ce(c) == ForEach(Up(0, Dim), LAMBDA k : <<FillBB({k}, OwnSet(c)), Barrier_>>)
      \o ForEach(Up(0, NC), LAMBDA x :
            ForEach(StepBy(x * (Full \div NC), (x + 1) * (Full \div NC), Quarter), LAMBDA i :
                Each(Own(c), LAMBDA j :
                    IF i < Dim THEN AddBB(Cells({j}, Span(i, Quarter)), All, Span(i, Quarter))
                               ELSE Add(Cells({j}, Span(i, Quarter)), {}))))

(* The last hart of dm copies the first rows of B and reads the copy, the   *)
(* others copy the rest and read B.                                         *)
dm_first(c) == <<FillBB(Share .. Dim - 1, All), Barrier_>>
            \o Each(Rows4(c), LAMBDA i : Add(Cells(Span(i, 4), All), All))
dm_last(c) == <<FillBB(0 .. Share - 1, All), Barrier_>>
            \o Each(Rows4(c), LAMBDA i : AddBB(Cells(Span(i, 4), All), All, All))
dm(c) == IF c # NC - 1 THEN dm_first(c) ELSE dm_last(c)

(* br and dr make private copies, but meet after every pair of rows, and    *)
(* then after every block of columns. The blocks are 32 rows by 16 columns. *)
Transposed(c, width) ==
    ForEach(StepBy(0, Dim, 2), LAMBDA i : <<Barrier_>>)
    \o ForEach(StepBy(0, Dim, Full), LAMBDA j2 : ForEach(StepBy(First(c), End(c), Half), LAMBDA i2 :
        ForEach(StepBy(j2, j2 + Full, 2), LAMBDA j : ForEach(StepBy(i2, i2 + Half, width), LAMBDA i :
            <<Add(Cells({j, j + 1}, Span(i, width)), Literally(AllFull)), Barrier_>>))))
br(c) == Transposed(c, 4)
dr(c) == Transposed(c, Quarter)
-----------------------------------------------------------------------------
(* thread_entry() of mt-matmul: every hart verifies the results. *)
MatmulEntry(steps) ==
    steps \o <<Barrier_, Step("verify", {}, {}, C(0 .. Dim * Dim - 1))>>
=============================================================================

-------------------------- MODULE RetrievalProofs --------------------------
(***************************************************************************)
(* retrieve of rag/pipeline.py for every corpus, every list of known names *)
(* and every k, with rankings of any length FusionAssumption admits. The   *)
(* sections: fractions, the order of the fusion, what Best lists, lists    *)
(* without repetition, the fill, the invariant, one lemma for each action, *)
(* the properties.                                                         *)
(***************************************************************************)
EXTENDS Retrieval, TLAPS, FiniteSetTheorems, SequenceTheorems

(* The denominators of the scores and the numbers they are multiplied by.   *)
Pos == Nat \ {0}

(* Both sides of a comparison multiplied by the same.                       *)
LEMMA Times ==
    ASSUME NEW x \in Nat, NEW y \in Nat, NEW z \in Pos
    PROVE  (x >= y => x * z >= y * z) /\ (x > y => x * z > y * z)
BY DEF Pos

(* Fractions a/b, c/d and e/f are compared as their cross products are.     *)
LEMMA Fractions ==
    ASSUME NEW a \in Pos, NEW b \in Pos, NEW c \in Pos, NEW d \in Pos, NEW e \in Pos, NEW f \in Pos,
           a * d >= c * b, c * f >= e * d
    PROVE  /\ a * f >= e * b
           /\ a * d > c * b \/ c * f > e * d => a * f > e * b
<1> DEFINE ad == a * d
           cb == c * b
           cf == c * f
           ed == e * d
           af == a * f
           eb == e * b
<1>1. ad \in Nat /\ cb \in Nat /\ cf \in Nat /\ ed \in Nat /\ af \in Nat /\ eb \in Nat  BY DEF Pos
<1>2. ad * f = af * d /\ cb * f = cf * b /\ ed * b = eb * d  BY DEF Pos
<1>3. ad >= cb /\ cf >= ed  OBVIOUS
<1> HIDE DEF ad, cb, cf, ed, af, eb
<1>4. ad * f >= cb * f /\ cf * b >= ed * b  BY <1>1, <1>3, Times
<1>5. (ad > cb => ad * f > cb * f) /\ (cf > ed => cf * b > ed * b)  BY <1>1, Times
<1>6. af < eb => af * d < eb * d  BY <1>1, Times
<1>7. af = eb => af * d = eb * d  OBVIOUS
<1>8. /\ ad * f \in Nat /\ cb * f \in Nat /\ cf * b \in Nat /\ ed * b \in Nat
      /\ af * d \in Nat /\ eb * d \in Nat
  BY <1>1 DEF Pos
<1>9. af >= eb  BY <1>1, <1>2, <1>4, <1>6, <1>8
<1>10. ad > cb \/ cf > ed => af > eb  BY <1>1, <1>2, <1>4, <1>5, <1>7, <1>8, <1>9
<1> QED  BY <1>9, <1>10 DEF ad, cb, cf, ed, af, eb

(* 1/p + 1/q is more than 1/r.                                              *)
LEMMA TwoRanks ==
    ASSUME NEW p \in Pos, NEW q \in Pos, NEW r \in Pos, NEW m \in Nat, p <= m, q <= m, m < 2 * r
    PROVE  (p + q) * r > 1 * (p * q)
<1>1. p * q <= m * q /\ q * p <= m * p  BY Times DEF Pos
<1>2. (m * q) + (m * p) = m * (p + q)  BY DEF Pos
<1>3. (2 * r) * (p + q) > m * (p + q)
  <2>1. p + q \in Pos /\ 2 * r \in Nat  BY DEF Pos
  <2> HIDE DEF Pos
  <2> DEFINE y == 2 * r
             z == p + q
  <2>2. y \in Nat /\ z \in Pos /\ y > m  BY <2>1 DEF Pos
  <2> HIDE DEF y, z
  <2>3. y * z > m * z  BY <2>2, Times
  <2> QED  BY <2>3 DEF y, z
<1>4. (2 * r) * (p + q) = 2 * ((p + q) * r)  BY DEF Pos
<1>5. q * p = p * q  BY DEF Pos
<1> DEFINE x == (p + q) * r
           y == p * q
           z == m * (p + q)
           u == m * q
           w == m * p
<1>6. x \in Nat /\ y \in Nat /\ z \in Nat /\ u \in Nat /\ w \in Nat  BY DEF Pos
<1>7. y <= u /\ y <= w /\ u + w = z /\ 2 * x > z
  BY <1>1, <1>2, <1>3, <1>4, <1>5
<1> HIDE DEF x, y, z, u, w
<1>8. x > 1 * y  BY <1>6, <1>7
<1> QED  BY <1>8 DEF x, y

---------------------------------------------------------------------------
(* A ranking: no document twice.                                            *)
Ranking(s) == s \in Seq(Ranked(s)) /\ IsInjective(s)

(* RankIn finds the rank of a ranked document.                              *)
LEMMA RankOf ==
    ASSUME NEW s, Ranking(s), NEW d \in Ranked(s)
    PROVE  RankIn(s, d) \in 1 .. Len(s) /\ s[RankIn(s, d)] = d /\ RankIn(s, d) \in Pos /\ Len(s) \in Nat
<1>1. \E i \in DOMAIN s : s[i] = d  BY DEF Ranked
<1>2. RankIn(s, d) \in DOMAIN s /\ s[RankIn(s, d)] = d  BY <1>1 DEF RankIn
<1>3. DOMAIN s = 1 .. Len(s) /\ Len(s) \in Nat  BY DEF Ranking
<1> QED  BY <1>2, <1>3 DEF Pos

(* A score is a fraction of positive numbers.                               *)
LEMMA ScoreIs ==
    ASSUME NEW s, NEW b, Ranking(s), Ranking(b), NEW d \in Ranked(s) \cup Ranked(b)
    PROVE  LET x == Score(s, b, d) IN x[1] \in Pos /\ x[2] \in Pos
<1> DEFINE p == RrfK + RankIn(s, d)
           q == RrfK + RankIn(b, d)
<1>1. RrfK \in Nat  BY RetrievalAssumption
<1>2. d \in Ranked(s) => p \in Pos  BY <1>1, RankOf DEF Pos
<1>3. d \in Ranked(b) => q \in Pos  BY <1>1, RankOf DEF Pos
<1>4. Score(s, b, d) = IF d \notin Ranked(b) THEN << 1, p >>
                       ELSE IF d \notin Ranked(s) THEN << 1, q >>
                       ELSE << p + q, p * q >>
  BY DEF Score
<1> HIDE DEF p, q
<1>5. p \in Pos /\ q \in Pos => p + q \in Pos /\ p * q \in Pos  BY DEF Pos
<1>6. 1 \in Pos  BY DEF Pos
<1> QED  BY <1>2, <1>3, <1>4, <1>5, <1>6

(* No two documents entered the scores at the same place.                   *)
LEMMA EnteredIs ==
    ASSUME NEW s, NEW b, Ranking(s), Ranking(b),
           NEW d \in Ranked(s) \cup Ranked(b), NEW e \in Ranked(s) \cup Ranked(b)
    PROVE  /\ Entered(s, b, d) \in Nat
           /\ Entered(s, b, d) = Entered(s, b, e) => d = e
<1>1. \A c \in Ranked(s) : RankIn(s, c) \in 1 .. Len(s) /\ s[RankIn(s, c)] = c  BY RankOf
<1>2. \A c \in Ranked(b) : RankIn(b, c) \in 1 .. Len(b) /\ b[RankIn(b, c)] = c  BY RankOf
<1>3. Len(s) \in Nat /\ Len(b) \in Nat  BY DEF Ranking
<1>4. Entered(s, b, d) = IF d \in Ranked(s) THEN RankIn(s, d) ELSE Len(s) + RankIn(b, d)  BY DEF Entered
<1>5. Entered(s, b, e) = IF e \in Ranked(s) THEN RankIn(s, e) ELSE Len(s) + RankIn(b, e)  BY DEF Entered
<1>6. Entered(s, b, d) \in Nat  BY <1>1, <1>2, <1>3, <1>4
<1>7. ASSUME Entered(s, b, d) = Entered(s, b, e)  PROVE d = e
  <2>1. CASE d \in Ranked(s) /\ e \in Ranked(s)
    <3>1. RankIn(s, d) = RankIn(s, e)  BY <1>4, <1>5, <1>7, <2>1
    <3> QED  BY <1>1, <2>1, <3>1
  <2>2. CASE d \notin Ranked(s) /\ e \notin Ranked(s)
    <3>1. RankIn(b, d) = RankIn(b, e)
      <4>1. Len(s) + RankIn(b, d) = Len(s) + RankIn(b, e)  BY <1>4, <1>5, <1>7, <2>2
      <4>2. RankIn(b, d) \in Nat /\ RankIn(b, e) \in Nat  BY <1>2, <1>3, <2>2
      <4> QED  BY <1>3, <4>1, <4>2
    <3> QED  BY <1>2, <2>2, <3>1
  <2>3. CASE d \in Ranked(s) /\ e \notin Ranked(s)
    <3>1. RankIn(s, d) = Len(s) + RankIn(b, e)  BY <1>4, <1>5, <1>7, <2>3
    <3>2. RankIn(s, d) \in 1 .. Len(s) /\ RankIn(b, e) \in 1 .. Len(b)  BY <1>1, <1>2, <2>3
    <3> QED  BY <1>3, <3>1, <3>2
  <2>4. CASE d \notin Ranked(s) /\ e \in Ranked(s)
    <3>1. RankIn(s, e) = Len(s) + RankIn(b, d)  BY <1>4, <1>5, <1>7, <2>4
    <3>2. RankIn(s, e) \in 1 .. Len(s) /\ RankIn(b, d) \in 1 .. Len(b)  BY <1>1, <1>2, <2>4
    <3> QED  BY <1>3, <3>1, <3>2
  <2> QED  BY <2>1, <2>2, <2>3, <2>4
<1> QED  BY <1>6, <1>7

(* The order of the fusion on the documents S.                              *)
Ordered(s, b, S) ==
    /\ \A d \in S : ~Precedes(s, b, d, d)
    /\ \A d, e \in S : d # e => Precedes(s, b, d, e) \/ Precedes(s, b, e, d)
    /\ \A c, d, e \in S : Precedes(s, b, c, d) /\ Precedes(s, b, d, e) => Precedes(s, b, c, e)

(* The fusion puts the ranked documents in a strict total order: their      *)
(* scores are compared as fractions and ties go to the one that entered     *)
(* first.                                                                   *)
LEMMA FusionOrders ==
    ASSUME NEW s, NEW b, Ranking(s), Ranking(b), NEW S \in SUBSET (Ranked(s) \cup Ranked(b))
    PROVE  Ordered(s, b, S)
<1> DEFINE N(d) == Score(s, b, d)[1]
           D(d) == Score(s, b, d)[2]
           E(d) == Entered(s, b, d)
<1>1. \A d \in S : N(d) \in Pos /\ D(d) \in Pos /\ E(d) \in Nat  BY ScoreIs, EnteredIs
<1>2. \A d, e \in S : E(d) = E(e) => d = e  BY EnteredIs
<1>3. \A d, e \in S : Precedes(s, b, d, e) <=>
          N(d) * D(e) > N(e) * D(d) \/ (N(d) * D(e) = N(e) * D(d) /\ E(d) < E(e))
  BY DEF Precedes
<1>4. \A d, e \in S : N(d) * D(e) \in Nat
  <2> TAKE d \in S, e \in S
  <2>1. N(d) \in Nat /\ D(e) \in Nat  BY <1>1 DEF Pos
  <2> HIDE DEF N, D
  <2> QED  BY <2>1
<1> HIDE DEF N, D, E
<1>5. \A d \in S : ~Precedes(s, b, d, d)  BY <1>1, <1>3, <1>4
<1>6. ASSUME NEW d \in S, NEW e \in S, d # e  PROVE Precedes(s, b, d, e) \/ Precedes(s, b, e, d)
  <2>1. E(d) < E(e) \/ E(e) < E(d)  BY <1>1, <1>2, <1>6
  <2>2. N(d) * D(e) \in Nat /\ N(e) * D(d) \in Nat  BY <1>4
  <2> QED  BY <1>3, <2>1, <2>2
<1>7. ASSUME NEW c \in S, NEW d \in S, NEW e \in S, Precedes(s, b, c, d), Precedes(s, b, d, e)
      PROVE  Precedes(s, b, c, e)
  <2>1. /\ N(c) \in Pos /\ D(c) \in Pos /\ N(d) \in Pos /\ D(d) \in Pos /\ N(e) \in Pos /\ D(e) \in Pos
        /\ E(c) \in Nat /\ E(d) \in Nat /\ E(e) \in Nat
    BY <1>1
  <2>2. /\ N(c) * D(d) \in Nat /\ N(d) * D(c) \in Nat /\ N(d) * D(e) \in Nat /\ N(e) * D(d) \in Nat
        /\ N(c) * D(e) \in Nat /\ N(e) * D(c) \in Nat
    BY <1>4
  <2>3. /\ N(c) * D(d) > N(d) * D(c) \/ (N(c) * D(d) = N(d) * D(c) /\ E(c) < E(d))
        /\ N(d) * D(e) > N(e) * D(d) \/ (N(d) * D(e) = N(e) * D(d) /\ E(d) < E(e))
    BY <1>3, <1>7
  <2>4. N(c) * D(d) >= N(d) * D(c) /\ N(d) * D(e) >= N(e) * D(d)  BY <2>2, <2>3
  <2>5. /\ N(c) * D(e) >= N(e) * D(c)
        /\ N(c) * D(d) > N(d) * D(c) \/ N(d) * D(e) > N(e) * D(d) => N(c) * D(e) > N(e) * D(c)
    <3> DEFINE i == N(c)
               j == D(c)
               k == N(d)
               l == D(d)
               m == N(e)
               n == D(e)
    <3>1. i \in Pos /\ j \in Pos /\ k \in Pos /\ l \in Pos /\ m \in Pos /\ n \in Pos
          /\ i * l >= k * j /\ k * n >= m * l
      BY <2>1, <2>4
    <3> HIDE DEF i, j, k, l, m, n
    <3>2. i * n >= m * j /\ (i * l > k * j \/ k * n > m * l => i * n > m * j)  BY <3>1, Fractions
    <3> QED  BY <3>2 DEF i, j, k, l, m, n
  <2>6. N(c) * D(e) > N(e) * D(c) \/ (N(c) * D(e) = N(e) * D(c) /\ E(c) < E(e))
    BY <2>1, <2>2, <2>3, <2>5
  <2> QED  BY <1>3, <2>6
<1> QED  BY <1>5, <1>6, <1>7 DEF Ordered

---------------------------------------------------------------------------
(* The documents of S that come before d, and how many they are.            *)
Ahead(s, b, S, d) == { e \in S : Precedes(s, b, e, d) }
Rank(s, b, S, d) == Cardinality(Ahead(s, b, S, d))

(* The ranks of the documents of S are the numbers below its size, each     *)
(* of them once: the CHOOSE of Best always finds its document.              *)
LEMMA RankFacts ==
    ASSUME NEW s, NEW b, NEW S, IsFiniteSet(S), Ordered(s, b, S)
    PROVE  /\ Cardinality(S) \in Nat
           /\ \A d \in S : Rank(s, b, S, d) \in 0 .. Cardinality(S) - 1
           /\ \A d, e \in S : Precedes(s, b, d, e) => Rank(s, b, S, d) < Rank(s, b, S, e)
           /\ \A d, e \in S : Rank(s, b, S, d) = Rank(s, b, S, e) => d = e
           /\ \A i \in 0 .. Cardinality(S) - 1 : \E d \in S : Rank(s, b, S, d) = i
<1> DEFINE n == Cardinality(S)
           A(d) == Ahead(s, b, S, d)
           R(d) == Rank(s, b, S, d)
<1>1. n \in Nat  BY FS_CardinalityType
<1>2. \A d \in S : A(d) \subseteq S \ {d}  BY DEF Ordered, Ahead
<1>3. ASSUME NEW d \in S  PROVE R(d) \in Nat /\ IsFiniteSet(A(d)) /\ R(d) <= n - 1
  <2>1. A(d) \in SUBSET S /\ A(d) \in SUBSET (S \ {d})  BY <1>2
  <2>2. IsFiniteSet(S \ {d}) /\ Cardinality(S \ {d}) = n - 1  BY FS_RemoveElement
  <2> HIDE DEF A, n
  <2>3. IsFiniteSet(A(d)) /\ Cardinality(A(d)) <= n - 1  BY <2>1, <2>2, FS_Subset
  <2>4. Cardinality(A(d)) \in Nat  BY <2>3, FS_CardinalityType
  <2> QED  BY <2>3, <2>4 DEF A, Rank
<1>4. ASSUME NEW d \in S, NEW e \in S, Precedes(s, b, d, e)  PROVE R(d) < R(e)
  <2>1. A(d) \cup {d} \in SUBSET A(e)
    <3>1. \A c \in A(d) : c \in S /\ Precedes(s, b, c, d)  BY DEF Ahead
    <3>2. \A c \in A(d) : Precedes(s, b, c, e)  BY <1>4, <3>1 DEF Ordered
    <3> QED  BY <1>4, <3>1, <3>2 DEF Ahead
  <2>2. d \notin A(d)  BY <1>2
  <2>3. IsFiniteSet(A(d)) /\ IsFiniteSet(A(e)) /\ R(d) \in Nat /\ R(e) \in Nat  BY <1>3
  <2>4. R(d) = Cardinality(A(d)) /\ R(e) = Cardinality(A(e))  BY DEF Rank
  <2> HIDE DEF A, R
  <2>5. Cardinality(A(d) \cup {d}) = Cardinality(A(d)) + 1  BY <2>2, <2>3, FS_AddElement
  <2>6. Cardinality(A(d) \cup {d}) <= Cardinality(A(e))  BY <2>1, <2>3, FS_Subset
  <2> QED  BY <2>3, <2>4, <2>5, <2>6
<1>5. ASSUME NEW d \in S, NEW e \in S, R(d) = R(e)  PROVE d = e
  <2>1. R(d) \in Nat /\ R(e) \in Nat  BY <1>3
  <2>2. ~Precedes(s, b, d, e) /\ ~Precedes(s, b, e, d)
    <3> HIDE DEF R
    <3> QED  BY <1>4, <1>5, <2>1
  <2> QED  BY <2>2 DEF Ordered
<1>6. ASSUME NEW i \in 0 .. n - 1  PROVE \E d \in S : R(d) = i
  <2> DEFINE f == [d \in S |-> R(d)]
             T == 0 .. n - 1
  <2>1. f \in [S -> T]
    <3>1. \A d \in S : R(d) \in T
      <4> HIDE DEF R, n
      <4> QED  BY <1>1, <1>3
    <3> HIDE DEF R, T
    <3> QED  BY <3>1
  <2>2. \A d, e \in S : f[d] = f[e] => d = e
    <3> HIDE DEF R
    <3> QED  BY <1>5
  <2>3. f \in Injection(S, T)
    <3> HIDE DEF f, T
    <3> QED  BY <2>1, <2>2 DEF Injection, IsInjective
  <2>4. IsFiniteSet(T) /\ Cardinality(T) = n
    <3> HIDE DEF n
    <3> QED  BY <1>1, FS_Interval
  <2> HIDE DEF T, f
  <2>5. f \in Surjection(S, T)  BY <2>3, <2>4, FS_Injection
  <2>6. i \in T  BY DEF T
  <2>7. \E d \in S : f[d] = i  BY <2>1, <2>5, <2>6 DEF Surjection
  <2> QED  BY <2>7 DEF f
<1>7. \A d \in S : R(d) \in 0 .. n - 1
  <2> HIDE DEF R, n
  <2> QED  BY <1>1, <1>3
<1> QED  BY <1>1, <1>4, <1>5, <1>6, <1>7

(* The documents of S, each once, and none behind one it precedes.          *)
LEMMA BestLists ==
    ASSUME NEW s, NEW b, NEW S, IsFiniteSet(S), Ordered(s, b, S)
    PROVE  /\ Best(s, b, S) \in Seq(S) /\ IsInjective(Best(s, b, S))
           /\ Ranked(Best(s, b, S)) = S /\ Len(Best(s, b, S)) = Cardinality(S)
           /\ \A i, j \in DOMAIN Best(s, b, S) :
                 Precedes(s, b, Best(s, b, S)[i], Best(s, b, S)[j]) => i < j
<1> DEFINE n == Cardinality(S)
           R(d) == Rank(s, b, S, d)
           t == Best(s, b, S)
<1>1. /\ n \in Nat
      /\ \A d \in S : R(d) \in 0 .. n - 1
      /\ \A d, e \in S : Precedes(s, b, d, e) => R(d) < R(e)
      /\ \A d, e \in S : R(d) = R(e) => d = e
      /\ \A i \in 0 .. n - 1 : \E d \in S : R(d) = i
  BY RankFacts
<1>2. t = [ i \in 1 .. n |-> CHOOSE d \in S : R(d) = i - 1 ]  BY DEF Best, Rank, Ahead
<1> HIDE DEF n, R, t
<1>3. ASSUME NEW i \in 1 .. n  PROVE t[i] \in S /\ R(t[i]) = i - 1
  <2>1. i - 1 \in 0 .. n - 1  BY <1>1
  <2>2. \E d \in S : R(d) = i - 1  BY <1>1, <2>1
  <2>3. t[i] = CHOOSE d \in S : R(d) = i - 1  BY <1>2
  <2> QED  BY <2>2, <2>3
<1>4. DOMAIN t = 1 .. n /\ t \in [1 .. n -> S]  BY <1>2, <1>3
<1>5. t \in Seq(S) /\ Len(t) = n  BY <1>1, <1>4
<1>6. IsInjective(t)
  <2>1. ASSUME NEW i \in 1 .. n, NEW j \in 1 .. n, t[i] = t[j]  PROVE i = j
    <3>1. i - 1 = j - 1  BY <1>3, <2>1
    <3> QED  BY <1>1, <3>1
  <2> QED  BY <1>4, <2>1 DEF IsInjective
<1>7. Ranked(t) = S
  <2>1. ASSUME NEW d \in S  PROVE \E i \in 1 .. n : t[i] = d
    <3> DEFINE i == R(d) + 1
    <3>1. i \in 1 .. n /\ i - 1 = R(d)  BY <1>1
    <3>2. t[i] \in S /\ R(t[i]) = R(d)  BY <1>3, <3>1
    <3>3. t[i] = d  BY <1>1, <3>2
    <3> QED  BY <3>1, <3>3
  <2> QED  BY <1>3, <1>4, <2>1 DEF Ranked
<1>8. \A i, j \in 1 .. n : Precedes(s, b, t[i], t[j]) => i < j
  <2> TAKE i \in 1 .. n, j \in 1 .. n
  <2>1. /\ t[i] \in S /\ R(t[i]) = i - 1
        /\ t[j] \in S /\ R(t[j]) = j - 1
    BY <1>3
  <2>2. ASSUME Precedes(s, b, t[i], t[j])  PROVE i < j
    <3>1. R(t[i]) < R(t[j])  BY <1>1, <2>1, <2>2
    <3> QED  BY <1>1, <2>1, <3>1
  <2> QED  BY <2>2
<1> QED  BY <1>4, <1>5, <1>6, <1>7, <1>8 DEF t, n

---------------------------------------------------------------------------
(* A list of documents of A, each once.                                     *)
Once(t, A) == t \in Seq(A) /\ IsInjective(t)

(* What is in such a list, and that it is as long as the set of its         *)
(* documents is large.                                                      *)
LEMMA OnceIs ==
    ASSUME NEW A, NEW t, Once(t, A)
    PROVE  /\ DOMAIN t = 1 .. Len(t) /\ Len(t) \in Nat /\ Ranked(t) \subseteq A
           /\ \A i \in 1 .. Len(t) : t[i] \in Ranked(t) /\ t[i] \in A
           /\ \A d \in Ranked(t) : \E i \in 1 .. Len(t) : d = t[i]
           /\ \A i, j \in 1 .. Len(t) : t[i] = t[j] => i = j
           /\ IsFiniteSet(Ranked(t)) /\ Cardinality(Ranked(t)) = Len(t)
<1> DEFINE n == Len(t)
           S == Ranked(t)
<1>1. /\ DOMAIN t = 1 .. n /\ n \in Nat
      /\ \A i \in 1 .. n : t[i] \in A
      /\ \A i, j \in 1 .. n : t[i] = t[j] => i = j
  BY DEF Once, IsInjective
<1>2. (\A i \in 1 .. n : t[i] \in S) /\ \A d \in S : \E i \in 1 .. n : d = t[i]  BY <1>1 DEF Ranked
<1>3. S \subseteq A  BY <1>1, <1>2
<1>4. t \in Seq(A)  BY DEF Once
<1> HIDE DEF n, S
<1>5. t \in [1 .. n -> S]  BY <1>1, <1>2, <1>4
<1>6. t \in Injection(1 .. n, S)  BY <1>1, <1>5 DEF Injection, IsInjective
<1>7. t \in Surjection(1 .. n, S)
  <2>1. \A d \in S : \E i \in 1 .. n : t[i] = d  BY <1>2
  <2> QED  BY <1>5, <2>1 DEF Surjection
<1>8. IsFiniteSet(1 .. n) /\ Cardinality(1 .. n) = n  BY <1>1, FS_Interval
<1>9. IsFiniteSet(S) /\ Cardinality(S) = n  BY <1>6, <1>7, <1>8, FS_Surjection
<1> QED  BY <1>1, <1>2, <1>3, <1>9 DEF n, S

(* Two such lists with no document in common.                               *)
Joinable(u, v, A) == Once(u, A) /\ Once(v, A) /\ Ranked(u) \cap Ranked(v) = {}

(* Putting them together repeats no document.                               *)
LEMMA JoinedOnce ==
    ASSUME NEW A, NEW u, NEW v, Joinable(u, v, A)
    PROVE  /\ Once(u \o v, A) /\ Ranked(u \o v) = Ranked(u) \cup Ranked(v)
           /\ Len(u \o v) = Len(u) + Len(v)
<1> SUFFICES ASSUME Once(u, A), Once(v, A), Ranked(u) \cap Ranked(v) = {}
             PROVE  /\ Once(u \o v, A) /\ Ranked(u \o v) = Ranked(u) \cup Ranked(v)
                    /\ Len(u \o v) = Len(u) + Len(v)
  BY DEF Joinable
<1> DEFINE m == Len(u)
           n == Len(v)
           t == u \o v
<1>1. /\ m \in Nat /\ n \in Nat /\ u \in Seq(A) /\ v \in Seq(A)
      /\ \A i \in 1 .. m : u[i] \in Ranked(u)
      /\ \A i \in 1 .. n : v[i] \in Ranked(v)
      /\ \A d \in Ranked(u) : \E i \in 1 .. m : d = u[i]
      /\ \A d \in Ranked(v) : \E i \in 1 .. n : d = v[i]
      /\ \A i, j \in 1 .. m : u[i] = u[j] => i = j
      /\ \A i, j \in 1 .. n : v[i] = v[j] => i = j
  BY OnceIs DEF Once
<1>2. t \in Seq(A) /\ Len(t) = m + n  BY <1>1, ConcatProperties
<1>3. \A k \in 1 .. m + n : t[k] = IF k <= m THEN u[k] ELSE v[k - m]  BY <1>1, ConcatProperties
<1>4. DOMAIN t = 1 .. m + n  BY <1>2
<1> HIDE DEF m, n, t
<1>5. \A k \in 1 .. m : k \in 1 .. m + n /\ t[k] = u[k]
  <2> TAKE k \in 1 .. m
  <2>1. k \in 1 .. m + n /\ k <= m  BY <1>1
  <2> QED  BY <1>3, <2>1
<1>6. \A k \in 1 .. n : m + k \in 1 .. m + n /\ t[m + k] = v[k]
  <2> TAKE k \in 1 .. n
  <2> DEFINE l == m + k
  <2>1. l \in 1 .. m + n /\ ~(l <= m) /\ l - m = k  BY <1>1
  <2> HIDE DEF l
  <2>2. t[l] = v[k]  BY <1>3, <2>1
  <2> QED  BY <2>1, <2>2 DEF l
<1>7. Ranked(t) = Ranked(u) \cup Ranked(v)
  <2>1. \A k \in 1 .. m + n : t[k] \in Ranked(u) \cup Ranked(v)
    <3> TAKE k \in 1 .. m + n
    <3>1. CASE k <= m
      <4>1. k \in 1 .. m  BY <1>1, <3>1
      <4> QED  BY <1>1, <1>5, <4>1
    <3>2. CASE ~(k <= m)
      <4>1. k - m \in 1 .. n /\ t[k] = v[k - m]  BY <1>1, <1>3, <3>2
      <4> QED  BY <1>1, <4>1
    <3> QED  BY <3>1, <3>2
  <2>2. ASSUME NEW d \in Ranked(u) \cup Ranked(v)  PROVE \E k \in 1 .. m + n : d = t[k]
    <3>1. CASE d \in Ranked(u)
      <4>1. PICK i \in 1 .. m : d = u[i]  BY <1>1, <3>1
      <4> QED  BY <1>5, <4>1
    <3>2. CASE d \in Ranked(v)
      <4>1. PICK i \in 1 .. n : d = v[i]  BY <1>1, <3>2
      <4> QED  BY <1>6, <4>1
    <3> QED  BY <3>1, <3>2
  <2> DEFINE U == Ranked(u) \cup Ranked(v)
  <2> HIDE DEF U
  <2>3. Ranked(t) = { t[k] : k \in 1 .. m + n }  BY <1>4 DEF Ranked
  <2>4. (\A k \in 1 .. m + n : t[k] \in U) /\ \A d \in U : \E k \in 1 .. m + n : d = t[k]
    BY <2>1, <2>2 DEF U
  <2>5. Ranked(t) = U  BY <2>3, <2>4
  <2> QED  BY <2>5 DEF U
<1>8. IsInjective(t)
  <2>1. ASSUME NEW j \in 1 .. m + n, NEW k \in 1 .. m + n, t[j] = t[k]  PROVE j = k
    <3>1. CASE j <= m /\ k <= m
      <4>1. j \in 1 .. m /\ k \in 1 .. m  BY <1>1, <3>1
      <4> QED  BY <1>1, <1>5, <2>1, <4>1
    <3>2. CASE ~(j <= m) /\ ~(k <= m)
      <4> DEFINE x == j - m
                 y == k - m
      <4>1. x \in 1 .. n /\ y \in 1 .. n /\ t[j] = v[x] /\ t[k] = v[y]  BY <1>1, <1>3, <3>2
      <4> HIDE DEF x, y
      <4>2. x = y  BY <1>1, <2>1, <4>1
      <4> QED  BY <1>1, <4>2 DEF x, y
    <3>3. CASE j <= m /\ ~(k <= m)
      <4>1. j \in 1 .. m /\ k - m \in 1 .. n /\ t[k] = v[k - m]  BY <1>1, <1>3, <3>3
      <4>2. t[j] \in Ranked(u) /\ t[k] \in Ranked(v)  BY <1>1, <1>5, <4>1
      <4> QED  BY <2>1, <4>2
    <3>4. CASE ~(j <= m) /\ k <= m
      <4>1. k \in 1 .. m /\ j - m \in 1 .. n /\ t[j] = v[j - m]  BY <1>1, <1>3, <3>4
      <4>2. t[k] \in Ranked(u) /\ t[j] \in Ranked(v)  BY <1>1, <1>5, <4>1
      <4> QED  BY <2>1, <4>2
    <3> QED  BY <3>1, <3>2, <3>3, <3>4
  <2> QED  BY <1>4, <2>1 DEF IsInjective
<1> QED  BY <1>2, <1>7, <1>8 DEF Once, t, m, n

(* The first m documents of such a list.                                    *)
LEMMA CutOnce ==
    ASSUME NEW A, NEW t, Once(t, A), NEW m \in 0 .. Len(t)
    PROVE  /\ Once(SubSeq(t, 1, m), A) /\ Len(SubSeq(t, 1, m)) = m
           /\ Ranked(SubSeq(t, 1, m)) = { t[i] : i \in 1 .. m }
           /\ Ranked(SubSeq(t, 1, m)) \subseteq Ranked(t)
           /\ m = Len(t) => Ranked(SubSeq(t, 1, m)) = Ranked(t)
<1> DEFINE n == Len(t)
           c == SubSeq(t, 1, m)
<1>1. /\ DOMAIN t = 1 .. n /\ n \in Nat /\ t \in Seq(A)
      /\ \A i \in 1 .. n : t[i] \in Ranked(t) /\ t[i] \in A
      /\ \A d \in Ranked(t) : \E i \in 1 .. n : d = t[i]
      /\ \A i, j \in 1 .. n : t[i] = t[j] => i = j
  BY OnceIs DEF Once
<1>2. 1 .. m \subseteq 1 .. n /\ m \in Nat  BY <1>1
<1>3. c \in Seq(A) /\ Len(c) = m
  <2>1. \A i \in 1 .. m : t[i] \in A  BY <1>1, <1>2
  <2> QED  BY <1>1, <1>2, <2>1, SubSeqProperties
<1>4. DOMAIN c = 1 .. m /\ \A i \in 1 .. m : c[i] = t[i]
  <2>1. \A i \in 1 .. m : c[i] = t[1 + i - 1] /\ 1 + i - 1 = i  BY <1>1, <1>2, SubSeqProperties
  <2> QED  BY <1>3, <2>1
<1> HIDE DEF c, n
<1>5. IsInjective(c)  BY <1>1, <1>2, <1>4 DEF IsInjective
<1>6. Ranked(c) = { t[i] : i \in 1 .. m }  BY <1>4 DEF Ranked
<1>7. Ranked(c) \subseteq Ranked(t)  BY <1>1, <1>2, <1>6
<1>8. m = n => Ranked(c) = Ranked(t)
  <2>1. ASSUME m = n, NEW d \in Ranked(t)  PROVE d \in Ranked(c)
    <3>1. \E i \in 1 .. m : d = t[i]  BY <1>1, <2>1
    <3> QED  BY <1>6, <3>1
  <2> QED  BY <1>7, <2>1
<1> QED  BY <1>3, <1>5, <1>6, <1>7, <1>8 DEF Once, c, n

(* A ranking cut after n documents has the documents it can have.           *)
LEMMA RankingIs ==
    ASSUME NEW S, IsFiniteSet(S), NEW n \in Nat, NEW r \in Rankings(S, n)
    PROVE  /\ Once(r, S) /\ Len(r) = Lesser(n, Cardinality(S)) /\ Ranking(r)
           /\ Ranked(r) \subseteq S
           /\ n >= Cardinality(S) => Ranked(r) = S
<1> DEFINE m == Lesser(n, Cardinality(S))
           T == 1 .. m
<1>1. Cardinality(S) \in Nat  BY FS_CardinalityType
<1>2. m \in Nat  BY <1>1 DEF Lesser
<1>3. r \in Injection(T, S)  BY DEF Rankings
<1>4. IsFiniteSet(T) /\ Cardinality(T) = m
  <2> HIDE DEF m
  <2> QED  BY <1>2, FS_Interval
<1> HIDE DEF m
<1>5. r \in [T -> S] /\ IsInjective(r)  BY <1>3 DEF Injection
<1>6. r \in Seq(S) /\ Len(r) = m  BY <1>2, <1>5
<1>7. Once(r, S)  BY <1>5, <1>6 DEF Once
<1>8. Ranking(r)
  <2>1. \A i \in T : r[i] \in Ranked(r)  BY <1>5 DEF Ranked
  <2>2. r \in [T -> Ranked(r)]  BY <1>5, <2>1
  <2>3. r \in Seq(Ranked(r))  BY <1>2, <2>2
  <2> QED  BY <1>5, <2>3 DEF Ranking
<1>9. ASSUME n >= Cardinality(S)  PROVE Ranked(r) = S
  <2>1. m = Cardinality(S)
    <3> DEFINE c == Cardinality(S)
    <3>1. c \in Nat /\ n >= c  BY <1>1, <1>9
    <3>2. m = IF n < c THEN n ELSE c  BY DEF m, Lesser
    <3> HIDE DEF c
    <3>3. m = c  BY <3>1, <3>2
    <3> QED  BY <3>3 DEF c
  <2> HIDE DEF T
  <2>2. r \in Surjection(T, S)  BY <1>3, <1>4, <2>1, FS_Injection
  <2>3. \A d \in S : \E i \in T : r[i] = d  BY <2>2 DEF Surjection
  <2> QED  BY <1>5, <2>3 DEF Ranked
<1>10. Ranked(r) \subseteq S  BY <1>5 DEF Ranked
<1> QED  BY <1>6, <1>7, <1>8, <1>9, <1>10 DEF m

---------------------------------------------------------------------------
(* The code's constants.                                                    *)
LEMMA Constants ==
    /\ K \in Nat \ {0} /\ Factor \in Nat \ {0} /\ RrfK \in Nat /\ Factor * K \in Nat
    /\ K <= Factor * K /\ Factor * K < RrfK + 2
<1>1. K \in Nat \ {0} /\ Factor \in Nat \ {0} /\ RrfK \in Nat  BY RetrievalAssumption
<1>2. Factor * K \in Nat  BY <1>1
<1>3. 1 * K <= Factor * K
  <2>1. Factor >= 1 /\ K \in Pos  BY <1>1 DEF Pos
  <2> QED  BY <1>1, <2>1, Times
<1> QED  BY <1>1, <1>2, <1>3, FusionAssumption

(* A document both rankings have comes before one that a single ranking     *)
(* has, whatever their ranks: its score is at least 2 / (RrfK + Factor *    *)
(* K), the other at most 1 / (RrfK + 1). This is where FusionAssumption     *)
(* is used.                                                                 *)
LEMMA AgreedPrecede ==
    ASSUME NEW C, IsFiniteSet(C), NEW s \in Rankings(C, Factor * K), NEW b \in Rankings(C, Factor * K),
           NEW d \in Ranked(s) \cap Ranked(b), NEW e \in Ranked(s) \cup Ranked(b),
           e \notin Ranked(s) \cap Ranked(b)
    PROVE  Precedes(s, b, d, e)
<1> DEFINE p == RrfK + RankIn(s, d)
           q == RrfK + RankIn(b, d)
           r == RrfK + IF e \in Ranked(s) THEN RankIn(s, e) ELSE RankIn(b, e)
           m == RrfK + Factor * K
<1>1. /\ Ranking(s) /\ Len(s) = Lesser(Factor * K, Cardinality(C))
      /\ Ranking(b) /\ Len(b) = Lesser(Factor * K, Cardinality(C))
  BY Constants, RankingIs
<1>2. Len(s) \in Nat /\ Len(b) \in Nat /\ Len(s) <= Factor * K /\ Len(b) <= Factor * K
  <2> DEFINE c == Cardinality(C)
             f == Factor * K
  <2>1. c \in Nat /\ f \in Nat  BY Constants, FS_CardinalityType
  <2> HIDE DEF c, f
  <2>2. Lesser(f, c) \in Nat /\ Lesser(f, c) <= f  BY <2>1 DEF Lesser
  <2> QED  BY <1>1, <2>2 DEF c, f
<1>3. /\ RankIn(s, d) \in 1 .. Len(s) /\ RankIn(b, d) \in 1 .. Len(b)
      /\ e \in Ranked(s) => RankIn(s, e) \in 1 .. Len(s)
      /\ e \in Ranked(b) => RankIn(b, e) \in 1 .. Len(b)
  BY <1>1, RankOf
<1>4. p \in Pos /\ q \in Pos /\ r \in Pos /\ m \in Nat /\ p <= m /\ q <= m /\ m < 2 * r
  <2> DEFINE f == Factor * K
             x == RankIn(s, d)
             y == RankIn(b, d)
             z == IF e \in Ranked(s) THEN RankIn(s, e) ELSE RankIn(b, e)
  <2>1. RrfK \in Nat /\ f \in Nat /\ f < RrfK + 2  BY Constants
  <2>2. x \in Nat /\ x >= 1 /\ x <= f  BY <1>2, <1>3, <2>1
  <2>3. y \in Nat /\ y >= 1 /\ y <= f  BY <1>2, <1>3, <2>1
  <2>4. z \in Nat /\ z >= 1  BY <1>2, <1>3
  <2> HIDE DEF f, x, y, z
  <2>5. /\ RrfK + x \in Pos /\ RrfK + y \in Pos /\ RrfK + z \in Pos /\ RrfK + f \in Nat
        /\ RrfK + x <= RrfK + f /\ RrfK + y <= RrfK + f /\ RrfK + f < 2 * (RrfK + z)
    BY <2>1, <2>2, <2>3, <2>4 DEF Pos
  <2> QED  BY <2>5 DEF f, x, y, z
<1>5. Score(s, b, d) = << p + q, p * q >>  BY DEF Score
<1>6. Score(s, b, e) = << 1, r >>  BY DEF Score
<1> HIDE DEF p, q, r, m
<1>7. (p + q) * r > 1 * (p * q)  BY <1>4, TwoRanks
<1>8. /\ Score(s, b, d)[1] = p + q /\ Score(s, b, d)[2] = p * q
      /\ Score(s, b, e)[1] = 1 /\ Score(s, b, e)[2] = r
  BY <1>5, <1>6
<1> QED  BY <1>7, <1>8 DEF Precedes

(* What Fill appends to the documents u.                                    *)
Filled(s, b, u) ==
    LET new == Best(s, b, (Ranked(s) \cup Ranked(b)) \ Ranked(u))
    IN  u \o SubSeq(new, 1, Lesser(K - Len(u), Len(new)))

(* The fill of u: no document twice, k or all of the collection,            *)
(* everything that was in u, and the documents both rankings have before    *)
(* the others.                                                              *)
LEMMA FilledIs ==
    ASSUME NEW C, IsFiniteSet(C), NEW s \in Rankings(C, Factor * K), NEW b \in Rankings(C, Factor * K),
           NEW u, Once(u, C), Len(u) < K
    PROVE  /\ Once(Filled(s, b, u), C) /\ Len(Filled(s, b, u)) = Lesser(K, Cardinality(C))
           /\ Ranked(u) \subseteq Ranked(Filled(s, b, u))
           /\ \A d \in Ranked(s) \cap Ranked(b), e \in Ranked(Filled(s, b, u)) \ Ranked(u) :
                 e \in Ranked(s) \cap Ranked(b) \/ d \in Ranked(Filled(s, b, u))
<1> DEFINE U == Ranked(u)
           all == Ranked(s) \cup Ranked(b)
           S == all \ U
           new == Best(s, b, S)
           m == Lesser(K - Len(u), Len(new))
           cut == SubSeq(new, 1, m)
           v == u \o cut
           c == Cardinality(C)
<1>1. /\ Ranking(s) /\ Once(s, C) /\ Ranked(s) \subseteq C /\ Len(s) = Lesser(Factor * K, c)
      /\ Ranking(b) /\ Ranked(b) \subseteq C
  BY Constants, RankingIs
<1>2. /\ U \subseteq C /\ IsFiniteSet(U) /\ Cardinality(U) = Len(u) /\ Len(u) \in Nat
      /\ IsFiniteSet(Ranked(s)) /\ Cardinality(Ranked(s)) = Len(s)
  BY <1>1, OnceIs
<1>3. all \subseteq C /\ S \subseteq C /\ IsFiniteSet(S) /\ IsFiniteSet(U \cup S)
  <2>1. all \subseteq C /\ S \in SUBSET C /\ U \cup S \in SUBSET C  BY <1>1, <1>2
  <2> HIDE DEF S, U
  <2> QED  BY <2>1, FS_Subset
<1>4. Ordered(s, b, S)
  <2>1. S \in SUBSET (Ranked(s) \cup Ranked(b))  OBVIOUS
  <2> HIDE DEF S
  <2> QED  BY <1>1, <2>1, FusionOrders
<1>5. /\ Once(new, S) /\ Ranked(new) = S /\ Len(new) = Cardinality(S)
      /\ \A i, j \in DOMAIN new : Precedes(s, b, new[i], new[j]) => i < j
  <2> HIDE DEF S
  <2> QED  BY <1>3, <1>4, BestLists DEF Once
<1>6. Cardinality(S) \in Nat /\ c \in Nat /\ Cardinality(U \cup S) = Len(u) + Cardinality(S)
  <2>1. U \cap S = {}  OBVIOUS
  <2> HIDE DEF S, U
  <2>2. Cardinality(U \cap S) = 0  BY <2>1, FS_EmptySet
  <2>3. Cardinality(S) \in Nat /\ c \in Nat  BY <1>3, FS_CardinalityType
  <2>4. IsFiniteSet(U) /\ IsFiniteSet(S)  BY <1>2, <1>3
  <2>5. Cardinality(U \cup S) = Cardinality(U) + Cardinality(S) - Cardinality(U \cap S)  BY <2>4, FS_Union
  <2> QED  BY <1>2, <2>2, <2>3, <2>5
<1>7. Cardinality(U \cup S) <= c /\ Lesser(Factor * K, c) <= Cardinality(U \cup S)
  <2>1. U \cup S \in SUBSET C /\ Ranked(s) \in SUBSET (U \cup S)  BY <1>1, <1>2
  <2> HIDE DEF S, U
  <2> QED  BY <1>1, <1>2, <1>3, <2>1, FS_Subset
<1>8. m \in 0 .. Len(new) /\ Len(u) + m = Lesser(K, c)
  <2> DEFINE x == Len(u)
             y == Cardinality(S)
             f == Factor * K
  <2>1. /\ x \in Nat /\ y \in Nat /\ c \in Nat /\ f \in Nat /\ K \in Nat /\ K <= f /\ x < K
        /\ x + y <= c /\ Lesser(f, c) <= x + y
    BY <1>2, <1>6, <1>7, Constants
  <2>2. m = Lesser(K - x, y) /\ Len(new) = y  BY <1>5
  <2> HIDE DEF x, y, f, c, new, m
  <2>3. Lesser(K - x, y) \in 0 .. y /\ x + Lesser(K - x, y) = Lesser(K, c)  BY <2>1 DEF Lesser
  <2> QED  BY <2>2, <2>3 DEF x
<1>9. new \in Seq(S) /\ S \subseteq C /\ Once(new, C)
  <2>1. new \in Seq(S) /\ IsInjective(new)  BY <1>5 DEF Once
  <2> HIDE DEF new, S
  <2>2. DOMAIN new = 1 .. Len(new) /\ Len(new) \in Nat /\ \A i \in 1 .. Len(new) : new[i] \in C  BY <1>3, <2>1
  <2>3. new \in Seq(C)  BY <1>3, <2>1, <2>2
  <2> QED  BY <1>3, <2>1, <2>3 DEF Once
<1> HIDE DEF m
<1>10. /\ Once(cut, C) /\ Len(cut) = m /\ Ranked(cut) = { new[i] : i \in 1 .. m }
       /\ Ranked(cut) \subseteq S
  <2> HIDE DEF new, S
  <2> QED  BY <1>5, <1>8, <1>9, CutOnce
<1>11. Ranked(u) \cap Ranked(cut) = {}  BY <1>10
<1>12. /\ Once(v, C) /\ Ranked(v) = U \cup Ranked(cut) /\ Len(v) = Len(u) + m
  <2>1. Once(cut, C) /\ Len(cut) = m  BY <1>10
  <2> HIDE DEF cut, U
  <2>2. /\ Once(u \o cut, C) /\ Ranked(u \o cut) = Ranked(u) \cup Ranked(cut)
        /\ Len(u \o cut) = Len(u) + Len(cut)
    <3>1. Joinable(u, cut, C)  BY <1>11, <2>1 DEF Joinable
    <3> QED  BY <3>1, JoinedOnce
  <2> QED  BY <2>1, <2>2 DEF U
<1>13. ASSUME NEW d \in Ranked(s) \cap Ranked(b), NEW e \in Ranked(v) \ U, e \notin Ranked(s) \cap Ranked(b)
       PROVE  d \in Ranked(v)
  <2>1. CASE d \in U  BY <1>12, <2>1
  <2>2. CASE d \notin U
    <3>1. e \in Ranked(cut) /\ e \in S /\ d \in S  BY <1>10, <1>12, <1>13, <2>2
    <3>2. Precedes(s, b, d, e)  BY <1>13, <3>1, AgreedPrecede
    <3>3. PICK j \in 1 .. m : e = new[j]  BY <1>10, <3>1
    <3>4. DOMAIN new = 1 .. Len(new) /\ Len(new) \in Nat /\ \A x \in Ranked(new) : \E i \in 1 .. Len(new) : x = new[i]
      <4> HIDE DEF new
      <4> QED  BY <1>9, OnceIs
    <3>5. PICK i \in 1 .. Len(new) : d = new[i]  BY <1>5, <3>1, <3>4
    <3> HIDE DEF new, S, cut, v
    <3>6. j \in DOMAIN new /\ i \in DOMAIN new  BY <1>8, <3>3, <3>4, <3>5
    <3>7. i < j  BY <1>5, <3>2, <3>3, <3>5, <3>6
    <3>8. i \in 1 .. m  BY <1>8, <3>3, <3>4, <3>5, <3>7
    <3>9. d \in Ranked(cut)  BY <1>10, <3>5, <3>8
    <3> QED  BY <1>12, <3>9
  <2> QED  BY <2>1, <2>2
<1>14. Filled(s, b, u) = v  BY DEF Filled, m
<1> HIDE DEF v, U, cut
<1> QED  BY <1>8, <1>12, <1>13, <1>14 DEF U

---------------------------------------------------------------------------
(* AgreedFirst for the two rankings that have been made.                    *)
Preferred ==
    \A d \in Ranked(semantic) \cap Ranked(bm25), e \in Found \ Known :
        e \in Ranked(semantic) \cap Ranked(bm25) \/ d \in Found

(* The answer has k documents, or all there are.                            *)
Full == Len(results) = Lesser(K, Cardinality(collection))

(* The rankings have not been made.                                         *)
Unranked == semantic = << >> /\ bm25 = << >>

(* While names are fetched: only known modules are in, and one that is      *)
(* not in yet still has its name among the targets, unless an exception     *)
(* was swallowed.                                                           *)
FetchInv ==
    /\ Found \subseteq Known /\ Unranked
    /\ targets \in Seq(Names)
    /\ \A j \in DOMAIN targets : \E i \in DOMAIN wanted : targets[j] = wanted[i]
    /\ ~raised => \A d \in Known \ Found : \E j \in DOMAIN targets : name[d] = targets[j]

(* Before the fill every known module is in, and places are left.           *)
FillInv == Found \subseteq Known /\ Unranked /\ Len(results) < K /\ (~raised => Known \subseteq Found)

(* After the fill the answer is full.                                       *)
RerankInv == Full /\ Preferred /\ (~raised => Known \subseteq Found)

(* What is returned.                                                        *)
DoneInv ==
    /\ Len(results) <= K /\ (~raised => Full) /\ Preferred
    /\ ~raised => Found \subseteq Known \/ Known \subseteq Found

(* The inductive invariant: what is known in each phase of retrieve. None   *)
(* of the properties is inductive alone, since they speak of the end and    *)
(* the answer is made in the phases before it.                              *)
IInv ==
    /\ collection \in SUBSET Docs
    /\ Once(results, collection)
    /\ phase \in {"fetch", "fill", "rerank", "done"}
    /\ phase = "fetch" => FetchInv
    /\ phase = "fill" => FillInv
    /\ phase = "rerank" => RerankInv
    /\ phase = "done" => DoneInv

---------------------------------------------------------------------------
(* Found and Ranked are the same set of a list.                             *)
LEMMA FoundIs == Found = Ranked(results)
BY DEF Found, Ranked

(* The collection is finite.                                                *)
LEMMA Finite == ASSUME IInv  PROVE IsFiniteSet(collection) /\ Cardinality(collection) \in Nat
<1>1. IsFiniteSet(Docs) /\ collection \in SUBSET Docs  BY RetrievalAssumption DEF IInv
<1>2. IsFiniteSet(collection)  BY <1>1, FS_Subset
<1> QED  BY <1>2, FS_CardinalityType

(* No ranking has been made: nothing is preferred.                          *)
LEMMA UnrankedPrefers == ASSUME Unranked  PROVE Preferred
<1>1. semantic = << >>  BY DEF Unranked
<1>2. DOMAIN << >> = {}  OBVIOUS
<1>3. Ranked(semantic) = {}  BY <1>1, <1>2 DEF Ranked
<1> QED  BY <1>3 DEF Preferred

(* Every call begins with the invariant.                                    *)
LEMMA InitInv == Init => IInv
<1> SUFFICES ASSUME Init  PROVE IInv  OBVIOUS
<1>1. /\ results = << >> /\ semantic = << >> /\ bm25 = << >> /\ phase = "fetch"
      /\ targets = wanted /\ wanted \in Components /\ collection \in Collections
  BY DEF Init
<1>2. collection \in SUBSET Docs /\ targets \in Seq(Names)  BY <1>1, RetrievalAssumption
<1>3. DOMAIN << >> = {} /\ << >> \in Seq(collection)  OBVIOUS
<1>4. Once(results, collection)  BY <1>1, <1>3 DEF Once, IsInjective
<1>5. Found = {}  BY <1>1, <1>3 DEF Found
<1>6. \A d \in Known : \E j \in DOMAIN targets : name[d] = targets[j]  BY <1>1 DEF Known
<1>7. \A j \in DOMAIN targets : \E i \in DOMAIN wanted : targets[j] = wanted[i]  BY <1>1
<1>8. FetchInv  BY <1>1, <1>2, <1>5, <1>6, <1>7 DEF FetchInv, Unranked
<1> QED  BY <1>1, <1>2, <1>4, <1>8 DEF IInv

(* An empty collection.                                                     *)
LEMMA EmptyInv == ASSUME IInv, EmptyCorpus  PROVE IInv'
<1>1. /\ phase = "fetch" /\ collection = {} /\ phase' = "done" /\ collection' = collection /\ name' = name
      /\ wanted' = wanted /\ results' = results /\ semantic' = semantic /\ bm25' = bm25 /\ raised' = raised
  BY DEF EmptyCorpus, store
<1>2. FetchInv /\ Once(results, collection) /\ collection \in SUBSET Docs  BY <1>1 DEF IInv
<1>3. Found = {} /\ Known = {}
  <2>1. Known = {}  BY <1>1 DEF Known
  <2> QED  BY <1>2, <2>1 DEF FetchInv
<1>4. Len(results) = 0
  <2>1. Ranked(results) = {}  BY <1>3, FoundIs
  <2>2. Cardinality(Ranked(results)) = Len(results)  BY <1>2, OnceIs
  <2> QED  BY <2>1, <2>2, FS_EmptySet
<1>5. Cardinality(collection) = 0  BY <1>1, FS_EmptySet
<1>6. Len(results) <= K /\ Full  BY <1>4, <1>5, Constants DEF Full, Lesser
<1>7. Preferred  BY <1>2, UnrankedPrefers DEF FetchInv
<1>8. DoneInv  BY <1>3, <1>6, <1>7 DEF DoneInv
<1>9. DoneInv'
  <2>1. Found' = Found /\ Known' = Known  BY <1>1 DEF Found, Known
  <2> QED  BY <1>1, <1>8, <2>1 DEF DoneInv, Full, Preferred
<1> QED  BY <1>1, <1>2, <1>9 DEF IInv

(* The first name has been dealt with, and what is left to fetch is behind  *)
(* it.                                                                      *)
LEMMA TailIs ==
    ASSUME NEW t \in Seq(Names), t # << >>
    PROVE  /\ Tail(t) \in Seq(Names)
           /\ \A j \in DOMAIN t : t[j] = Head(t) \/ \E k \in DOMAIN Tail(t) : t[j] = Tail(t)[k]
           /\ \A k \in DOMAIN Tail(t) : \E j \in DOMAIN t : Tail(t)[k] = t[j]
           /\ \E j \in DOMAIN t : Head(t) = t[j]
<1>1. /\ DOMAIN t = 1 .. Len(t) /\ Len(t) \in Nat /\ Len(t) >= 1
      /\ Tail(t) \in Seq(Names) /\ DOMAIN Tail(t) = 1 .. Len(t) - 1
      /\ \A k \in 1 .. Len(t) - 1 : Tail(t)[k] = t[k + 1]
      /\ Head(t) = t[1]
  OBVIOUS
<1> DEFINE n == Len(t)
           u == Tail(t)
<1> HIDE DEF n, u
<1>2. n \in Nat /\ n >= 1 /\ DOMAIN t = 1 .. n /\ DOMAIN u = 1 .. n - 1 /\ \A k \in 1 .. n - 1 : u[k] = t[k + 1]
  BY <1>1 DEF n, u
<1>3. ASSUME NEW j \in 1 .. n, j # 1  PROVE \E k \in 1 .. n - 1 : t[j] = u[k]
  <2>1. j - 1 \in 1 .. n - 1 /\ (j - 1) + 1 = j  BY <1>2, <1>3
  <2>2. t[j] = u[j - 1]  BY <1>2, <2>1
  <2> QED  BY <2>1, <2>2
<1>4. ASSUME NEW k \in 1 .. n - 1  PROVE \E j \in 1 .. n : u[k] = t[j]
  <2>1. k + 1 \in 1 .. n  BY <1>2
  <2> QED  BY <1>2, <2>1
<1>5. \A j \in 1 .. n : t[j] = t[1] \/ \E k \in 1 .. n - 1 : t[j] = u[k]  BY <1>3
<1>6. 1 \in 1 .. n  BY <1>2
<1>7. Head(t) = t[1]  BY <1>1
<1>8. /\ \A j \in DOMAIN t : t[j] = Head(t) \/ \E k \in DOMAIN u : t[j] = u[k]
      /\ \A k \in DOMAIN u : \E j \in DOMAIN t : u[k] = t[j]
      /\ \E j \in DOMAIN t : Head(t) = t[j]
  BY <1>2, <1>4, <1>5, <1>6, <1>7
<1>9. u \in Seq(Names)  BY <1>1 DEF u
<1> QED  BY <1>8, <1>9 DEF u

(* The modules of one known name, in any order.                             *)
LEMMA FetchStep == ASSUME IInv, Fetch  PROVE IInv'
<1> DEFINE named == { d \in collection : name[d] = Head(targets) }
           new == named \ Found
<1>1. PICK r \in Rankings(new, Cardinality(new)) : results' = results \o r  BY DEF Fetch
<1>2. /\ phase = "fetch" /\ phase' = phase /\ targets # << >> /\ targets' = Tail(targets)
      /\ collection' = collection /\ name' = name /\ wanted' = wanted
      /\ semantic' = semantic /\ bm25' = bm25 /\ raised' = raised
  BY DEF Fetch, store
<1>3. FetchInv /\ Once(results, collection) /\ collection \in SUBSET Docs  BY <1>2 DEF IInv
<1>4. Once(r, new) /\ Ranked(r) = new /\ new \subseteq collection
  <2>1. new \in SUBSET collection  OBVIOUS
  <2>2. IsFiniteSet(collection)  BY Finite
  <2> DEFINE c == Cardinality(new)
  <2> HIDE DEF new
  <2>3. IsFiniteSet(new)  BY <2>1, <2>2, FS_Subset
  <2>4. c \in Nat /\ c >= Cardinality(new)
    <3>1. Cardinality(new) \in Nat  BY <2>3, FS_CardinalityType
    <3> QED  BY <3>1
  <2>5. r \in Rankings(new, c)  OBVIOUS
  <2> HIDE DEF c
  <2>6. Once(r, new) /\ Ranked(r) = new  BY <2>3, <2>4, <2>5, RankingIs
  <2> QED  BY <2>1, <2>6
<1>5. Once(r, collection)
  <2>1. r \in Seq(new) /\ IsInjective(r) /\ new \subseteq collection  BY <1>4 DEF Once
  <2> HIDE DEF new
  <2>2. Len(r) \in Nat /\ DOMAIN r = 1 .. Len(r) /\ \A i \in 1 .. Len(r) : r[i] \in collection  BY <2>1
  <2>3. r \in Seq(collection)  BY <2>1, <2>2
  <2> QED  BY <2>1, <2>3 DEF Once
<1>6. Once(results', collection) /\ Ranked(results') = Ranked(results) \cup new
  <2>1. Ranked(results) \cap Ranked(r) = {}  BY <1>4, FoundIs
  <2>2. Joinable(results, r, collection)  BY <1>3, <1>5, <2>1 DEF Joinable
  <2> DEFINE u == results
  <2>3. Once(u \o r, collection) /\ Ranked(u \o r) = Ranked(u) \cup Ranked(r)
    <3> HIDE DEF u
    <3> QED  BY <2>2, JoinedOnce DEF u
  <2> QED  BY <1>1, <1>4, <2>3
<1>7. Found' = Found \cup new
  <2>1. Found' = Ranked(results')  BY DEF Found, Ranked
  <2> QED  BY <1>6, <2>1, FoundIs
<1>8. Known' = Known  BY <1>2 DEF Known
<1>9. /\ targets' \in Seq(Names)
      /\ \A j \in DOMAIN targets : targets[j] = Head(targets) \/ \E k \in DOMAIN targets' : targets[j] = targets'[k]
      /\ \A k \in DOMAIN targets' : \E j \in DOMAIN targets : targets'[k] = targets[j]
      /\ \E j \in DOMAIN targets : Head(targets) = targets[j]
  <2> DEFINE t == targets
  <2>1. t \in Seq(Names) /\ t # << >>  BY <1>2, <1>3 DEF FetchInv
  <2> HIDE DEF t
  <2>2. /\ Tail(t) \in Seq(Names)
        /\ \A j \in DOMAIN t : t[j] = Head(t) \/ \E k \in DOMAIN Tail(t) : t[j] = Tail(t)[k]
        /\ \A k \in DOMAIN Tail(t) : \E j \in DOMAIN t : Tail(t)[k] = t[j]
        /\ \E j \in DOMAIN t : Head(t) = t[j]
    BY <2>1, TailIs
  <2> QED  BY <1>2, <2>2 DEF t
<1>10. \E i \in DOMAIN wanted : Head(targets) = wanted[i]  BY <1>3, <1>9 DEF FetchInv
<1>11. named \subseteq Known  BY <1>10 DEF Known
<1>12. \A k \in DOMAIN targets' : \E i \in DOMAIN wanted' : targets'[k] = wanted'[i]
  BY <1>2, <1>3, <1>9 DEF FetchInv
<1>13. ASSUME ~raised', NEW d \in Known' \ Found'  PROVE \E k \in DOMAIN targets' : name'[d] = targets'[k]
  <2>1. d \in Known /\ d \notin Found /\ d \notin named /\ d \in collection  BY <1>7, <1>8, <1>13 DEF Known
  <2>2. \A c \in Known \ Found : \E j \in DOMAIN targets : name[c] = targets[j]  BY <1>2, <1>3, <1>13 DEF FetchInv
  <2>3. PICK j \in DOMAIN targets : name[d] = targets[j]  BY <2>1, <2>2
  <2>4. targets[j] # Head(targets)  BY <2>1, <2>3
  <2>5. \E k \in DOMAIN targets' : targets[j] = targets'[k]  BY <1>9, <2>4
  <2> QED  BY <1>2, <2>3, <2>5
<1>14. Found' \subseteq Known' /\ Unranked'
  BY <1>2, <1>3, <1>7, <1>8, <1>11 DEF FetchInv, Unranked
<1>15. FetchInv'  BY <1>9, <1>12, <1>13, <1>14 DEF FetchInv
<1> QED  BY <1>2, <1>3, <1>6, <1>15 DEF IInv

(* A fetch that raises: its name is dropped and the exception is            *)
(* remembered.                                                              *)
LEMMA FetchRaisesStep == ASSUME IInv, FetchRaises  PROVE IInv'
<1>1. /\ phase = "fetch" /\ phase' = phase /\ targets # << >> /\ targets' = Tail(targets)
      /\ collection' = collection /\ name' = name /\ wanted' = wanted /\ results' = results
      /\ semantic' = semantic /\ bm25' = bm25
  BY DEF FetchRaises, store
<1>2. raised'  BY DEF FetchRaises
<1>3. FetchInv /\ Once(results, collection) /\ collection \in SUBSET Docs  BY <1>1 DEF IInv
<1>4. Found' = Found /\ Known' = Known  BY <1>1 DEF Found, Known
<1>5. targets' \in Seq(Names) /\ \A k \in DOMAIN targets' : \E j \in DOMAIN targets : targets'[k] = targets[j]
  <2> DEFINE t == targets
  <2>1. t \in Seq(Names) /\ t # << >>  BY <1>1, <1>3 DEF FetchInv
  <2> HIDE DEF t
  <2>2. Tail(t) \in Seq(Names) /\ \A k \in DOMAIN Tail(t) : \E j \in DOMAIN t : Tail(t)[k] = t[j]
    BY <2>1, TailIs
  <2> QED  BY <1>1, <2>2 DEF t
<1>6. \A k \in DOMAIN targets' : \E i \in DOMAIN wanted' : targets'[k] = wanted'[i]
  BY <1>1, <1>3, <1>5 DEF FetchInv
<1>7. Found' \subseteq Known' /\ Unranked'  BY <1>1, <1>3, <1>4 DEF FetchInv, Unranked
<1>8. FetchInv'  BY <1>2, <1>5, <1>6, <1>7 DEF FetchInv
<1> QED  BY <1>1, <1>3, <1>8 DEF IInv

(* The documents in a list are no more than the collection has.             *)
LEMMA NoMore == ASSUME IInv  PROVE Len(results) \in Nat /\ Len(results) <= Cardinality(collection)
<1>1. Once(results, collection)  BY DEF IInv
<1>2. Ranked(results) \in SUBSET collection /\ Cardinality(Ranked(results)) = Len(results) /\ Len(results) \in Nat
  BY <1>1, OnceIs
<1> QED  BY <1>2, Finite, FS_Subset

(* The known modules fill the answer, or leave places to the fusion.        *)
LEMMA EndFetchStep == ASSUME IInv, EndFetch  PROVE IInv'
<1>1. /\ phase = "fetch" /\ collection' = collection /\ name' = name /\ wanted' = wanted /\ targets = << >>
      /\ semantic' = semantic /\ bm25' = bm25 /\ raised' = raised
  BY DEF EndFetch, store
<1>2. FetchInv /\ Once(results, collection) /\ collection \in SUBSET Docs  BY <1>1 DEF IInv
<1>3. ~raised => Known \subseteq Found
  <2>1. DOMAIN targets = {}  BY <1>1
  <2> QED  BY <1>2, <2>1 DEF FetchInv
<1>4. Known' = Known  BY <1>1 DEF Known
<1>5. Unranked'  BY <1>1, <1>2 DEF FetchInv, Unranked
<1>6. CASE Len(results) < K /\ phase' = "fill" /\ UNCHANGED results
  <2>1. Found' = Found  BY <1>6 DEF Found
  <2>2. FillInv'  BY <1>1, <1>2, <1>3, <1>4, <1>5, <1>6, <2>1 DEF FillInv, FetchInv
  <2> QED  BY <1>1, <1>2, <1>6, <2>2 DEF IInv
<1>7. CASE Len(results) >= K /\ phase' = "done" /\ results' = SubSeq(results, 1, K)
  <2>1. K \in 0 .. Len(results)  BY <1>7, Constants, NoMore
  <2>2. Once(results', collection) /\ Len(results') = K /\ Ranked(results') \subseteq Ranked(results)
    <3> DEFINE t == results
    <3>1. Once(t, collection) /\ K \in 0 .. Len(t)  BY <1>2, <2>1
    <3> HIDE DEF t
    <3>2. /\ Once(SubSeq(t, 1, K), collection) /\ Len(SubSeq(t, 1, K)) = K
          /\ Ranked(SubSeq(t, 1, K)) \subseteq Ranked(t)
      BY <3>1, CutOnce
    <3> QED  BY <1>7, <3>2 DEF t
  <2>3. Found' \subseteq Known'
    <3>1. Found' = Ranked(results')  BY DEF Found, Ranked
    <3> QED  BY <1>2, <1>4, <2>2, <3>1, FoundIs DEF FetchInv
  <2>4. Lesser(K, Cardinality(collection)) = K
    <3> DEFINE c == Cardinality(collection)
               x == Len(results)
    <3>1. K \in Nat /\ c \in Nat /\ x \in Nat /\ x >= K /\ x <= c  BY <1>7, Constants, Finite, NoMore
    <3> HIDE DEF c, x
    <3>2. Lesser(K, c) = K  BY <3>1 DEF Lesser
    <3> QED  BY <3>2 DEF c
  <2>5. Full'  BY <1>1, <2>2, <2>4 DEF Full
  <2>6. Preferred'
    <3>1. DOMAIN << >> = {}  OBVIOUS
    <3>2. Ranked(semantic)' = {}  BY <1>5, <3>1 DEF Ranked, Unranked
    <3> QED  BY <3>2 DEF Preferred
  <2>7. Len(results') <= K  BY <2>2, Constants
  <2>8. DoneInv'  BY <2>3, <2>5, <2>6, <2>7 DEF DoneInv
  <2> QED  BY <1>1, <1>2, <1>7, <2>2, <2>8 DEF IInv
<1> QED  BY <1>6, <1>7 DEF EndFetch

(* The fusion fills the places that are left.                               *)
LEMMA FillStep == ASSUME IInv, Fill  PROVE IInv'
<1>1. /\ phase = "fill" /\ phase' = "rerank" /\ collection' = collection /\ name' = name /\ wanted' = wanted
      /\ raised' = raised
  BY DEF Fill, store
<1>2. FillInv /\ Once(results, collection) /\ collection \in SUBSET Docs  BY <1>1 DEF IInv
<1>3. PICK s \in Rankings(collection, Factor * K), b \in Rankings(collection, Factor * K) :
         /\ semantic' = s /\ bm25' = b
         /\ results' = Filled(s, b, results)
  <2>1. \E s, b \in Rankings(collection, Factor * K) :
          LET new == Best(s, b, (Ranked(s) \cup Ranked(b)) \ Found)
          IN  /\ semantic' = s /\ bm25' = b
              /\ results' = results \o SubSeq(new, 1, Lesser(K - Len(results), Len(new)))
    BY DEF Fill
  <2> QED  BY <2>1, FoundIs DEF Filled
<1> DEFINE u == results
           C == collection
           v == Filled(s, b, u)
<1>4. IsFiniteSet(C) /\ Once(u, C) /\ Len(u) < K  BY <1>2, Finite DEF FillInv
<1>5. /\ Once(v, C) /\ Len(v) = Lesser(K, Cardinality(C)) /\ Ranked(u) \subseteq Ranked(v)
      /\ \A d \in Ranked(s) \cap Ranked(b), e \in Ranked(v) \ Ranked(u) :
            e \in Ranked(s) \cap Ranked(b) \/ d \in Ranked(v)
  <2>1. s \in Rankings(C, Factor * K) /\ b \in Rankings(C, Factor * K)  OBVIOUS
  <2> HIDE DEF u, C
  <2> QED  BY <1>4, <2>1, FilledIs
<1>6. results' = v  BY <1>3
<1> HIDE DEF v
<1>7. Found' = Ranked(v) /\ Found = Ranked(u)  BY <1>6 DEF Found, Ranked
<1>8. Known' = Known  BY <1>1 DEF Known
<1>9. Found \subseteq Known /\ (~raised => Known \subseteq Found)  BY <1>2 DEF FillInv
<1>10. Full'  BY <1>1, <1>5, <1>6 DEF Full
<1>11. Preferred'
  <2>1. ASSUME NEW d \in Ranked(s) \cap Ranked(b), NEW e \in Ranked(v) \ Known
        PROVE  e \in Ranked(s) \cap Ranked(b) \/ d \in Ranked(v)
    BY <1>5, <1>7, <1>9
  <2>2. Ranked(semantic)' = Ranked(s) /\ Ranked(bm25)' = Ranked(b)  BY <1>3 DEF Ranked
  <2> QED  BY <1>7, <1>8, <2>1, <2>2 DEF Preferred
<1>12. ~raised' => Known' \subseteq Found'  BY <1>1, <1>5, <1>7, <1>8, <1>9
<1>13. RerankInv'  BY <1>10, <1>11, <1>12 DEF RerankInv
<1> QED  BY <1>1, <1>2, <1>5, <1>6, <1>13 DEF IInv

(* The cross-encoder reorders at most k documents, so it keeps all of       *)
(* them.                                                                    *)
LEMMA RerankStep == ASSUME IInv, Rerank  PROVE IInv'
<1>1. /\ phase = "rerank" /\ phase' = "done" /\ collection' = collection /\ name' = name /\ wanted' = wanted
      /\ semantic' = semantic /\ bm25' = bm25 /\ raised' = raised
  BY DEF Rerank, store
<1>2. RerankInv /\ Once(results, collection) /\ collection \in SUBSET Docs  BY <1>1 DEF IInv
<1>3. PICK r \in Rankings(Found, K) : results' = r  BY DEF Rerank
<1> DEFINE c == Cardinality(collection)
           x == Len(results)
<1>4. IsFiniteSet(Found) /\ Cardinality(Found) = x /\ Found \subseteq collection  BY <1>2, OnceIs, FoundIs
<1>5. K \in Nat /\ c \in Nat /\ x \in Nat /\ x = Lesser(K, c)  BY <1>2, Constants, Finite, NoMore DEF RerankInv, Full
<1>6. x <= K /\ Lesser(K, x) = x
  <2> HIDE DEF c, x
  <2> QED  BY <1>5 DEF Lesser
<1>7. Once(r, Found) /\ Len(r) = Lesser(K, Cardinality(Found)) /\ Ranked(r) = Found
  <2> DEFINE F == Found
  <2>1. IsFiniteSet(F) /\ K \in Nat /\ K >= Cardinality(F) /\ r \in Rankings(F, K)  BY <1>4, <1>5, <1>6
  <2> HIDE DEF F
  <2>2. Once(r, F) /\ Len(r) = Lesser(K, Cardinality(F)) /\ Ranked(r) = F  BY <2>1, RankingIs
  <2> QED  BY <2>2 DEF F
<1>8. Len(results') = Len(results)  BY <1>3, <1>4, <1>6, <1>7
<1>9. Found' = Found /\ Known' = Known
  <2>1. Found' = Ranked(results') /\ Known' = Known  BY <1>1 DEF Found, Ranked, Known
  <2> QED  BY <1>3, <1>7, <2>1
<1>10. Once(results', collection)
  <2> DEFINE F == Found
             C == collection
  <2>1. F \subseteq C /\ r \in Seq(F) /\ IsInjective(r)  BY <1>4, <1>7 DEF Once
  <2> HIDE DEF F, C
  <2>2. Len(r) \in Nat /\ DOMAIN r = 1 .. Len(r) /\ \A i \in 1 .. Len(r) : r[i] \in C  BY <2>1
  <2>3. r \in Seq(C)  BY <2>1, <2>2
  <2>4. Once(r, C)  BY <2>1, <2>3 DEF Once
  <2> QED  BY <1>3, <2>4 DEF C
<1>11. Full' /\ Preferred' /\ (~raised' => Known' \subseteq Found')
  <2>1. Full'  BY <1>1, <1>2, <1>8 DEF RerankInv, Full
  <2>2. Preferred'  BY <1>1, <1>2, <1>9 DEF RerankInv, Preferred
  <2> QED  BY <1>1, <1>2, <1>9, <2>1, <2>2 DEF RerankInv
<1>12. Len(results') <= K  BY <1>6, <1>8
<1>13. DoneInv'  BY <1>11, <1>12 DEF DoneInv
<1> QED  BY <1>1, <1>2, <1>10, <1>13 DEF IInv

(* An exception in the fill or in the reranking: at most k documents are    *)
(* in, so the cut keeps all of them.                                        *)
LEMMA HybridRaisesStep == ASSUME IInv, HybridRaises  PROVE IInv'
<1>1. /\ phase \in {"fill", "rerank"} /\ phase' = "done" /\ collection' = collection /\ name' = name
      /\ wanted' = wanted /\ semantic' = semantic /\ bm25' = bm25 /\ raised'
      /\ results' = SubSeq(results, 1, Lesser(K, Len(results)))
  BY DEF HybridRaises, store
<1>2. Once(results, collection) /\ collection \in SUBSET Docs  BY DEF IInv
<1> DEFINE x == Len(results)
<1>3. x \in Nat /\ K \in Nat /\ x <= K
  <2>1. x \in Nat /\ K \in Nat  BY Constants, NoMore
  <2>2. CASE phase = "fill"
    <3>1. x < K  BY <2>2 DEF IInv, FillInv
    <3> QED  BY <2>1, <3>1
  <2>3. CASE phase = "rerank"
    <3> DEFINE c == Cardinality(collection)
    <3>1. c \in Nat /\ x = Lesser(K, c)  BY <2>3, Finite DEF IInv, RerankInv, Full
    <3> HIDE DEF c, x
    <3> QED  BY <2>1, <3>1 DEF Lesser
  <2> QED  BY <1>1, <2>2, <2>3
<1>4. Lesser(K, x) = x
  <2> HIDE DEF x
  <2> QED  BY <1>3 DEF Lesser
<1>5. Once(results', collection) /\ Len(results') = x /\ Ranked(results') = Ranked(results)
  <2> DEFINE t == results
  <2>1. Once(t, collection) /\ x \in 0 .. Len(t) /\ x = Len(t)  BY <1>2, <1>3
  <2> HIDE DEF t, x
  <2>2. /\ Once(SubSeq(t, 1, x), collection) /\ Len(SubSeq(t, 1, x)) = x
        /\ Ranked(SubSeq(t, 1, x)) = Ranked(t)
    BY <2>1, CutOnce
  <2>3. results' = SubSeq(t, 1, x)  BY <1>1, <1>4 DEF t, x
  <2> QED  BY <2>2, <2>3 DEF t
<1>6. Found' = Found /\ Known' = Known
  <2>1. Found' = Ranked(results') /\ Known' = Known  BY <1>1 DEF Found, Ranked, Known
  <2> QED  BY <1>5, <2>1, FoundIs
<1>7. Preferred
  <2>1. CASE phase = "fill"  BY <2>1, UnrankedPrefers DEF IInv, FillInv
  <2>2. CASE phase = "rerank"  BY <2>2 DEF IInv, RerankInv
  <2> QED  BY <1>1, <2>1, <2>2
<1>8. Preferred'  BY <1>1, <1>6, <1>7 DEF Preferred
<1>9. DoneInv'  BY <1>1, <1>3, <1>5, <1>8 DEF DoneInv
<1> QED  BY <1>1, <1>2, <1>5, <1>9 DEF IInv

---------------------------------------------------------------------------
(* Every step keeps the inductive invariant.                                *)
LEMMA NextInv == ASSUME IInv, [Next]_vars  PROVE IInv'
<1>1. CASE UNCHANGED vars
  BY <1>1 DEF vars, store, IInv, FetchInv, FillInv, RerankInv, DoneInv, Full, Preferred, Unranked, Found, Known
<1> QED
  BY <1>1, EmptyInv, FetchStep, FetchRaisesStep, EndFetchStep, FillStep, RerankStep, HybridRaisesStep DEF Next

(* In every phase of retrieve the inductive invariant holds.                *)
THEOREM AlwaysInOrder == Spec => []IInv
BY InitInv, NextInv, PTL DEF Spec

---------------------------------------------------------------------------
(* However the fetch, the fill and the reranking end, the answer has at     *)
(* most k documents of the collection, each once, and k or all there are    *)
(* unless an exception was swallowed.                                       *)
THEOREM AlwaysFull == Spec => []AnswerIsFull
<1>1. IInv => AnswerIsFull
  <2> SUFFICES ASSUME IInv, phase = "done"
               PROVE  /\ Len(results) <= K /\ IsInjective(results) /\ Found \subseteq collection
                      /\ raised \/ Len(results) = Lesser(K, Cardinality(collection))
    BY DEF AnswerIsFull
  <2>1. DoneInv /\ Once(results, collection)  BY DEF IInv
  <2>2. Found \subseteq collection  BY <2>1, OnceIs, FoundIs
  <2> QED  BY <2>1, <2>2 DEF DoneInv, Full, Once
<1> QED  BY <1>1, AlwaysInOrder, PTL

(* No other document takes the place of a known-good module.                *)
THEOREM AlwaysKnownFirst == Spec => []KnownFirst
<1>1. IInv => KnownFirst  BY DEF IInv, DoneInv, KnownFirst
<1> QED  BY <1>1, AlwaysInOrder, PTL

(* A document of a single ranking never fills a place while one that both   *)
(* rankings have is left out, for every k, every length of the rankings     *)
(* and every constant of the fusion with FusionAssumption.                  *)
THEOREM AlwaysAgreedFirst == Spec => []AgreedFirst
<1>1. IInv => AgreedFirst  BY DEF IInv, RerankInv, DoneInv, Preferred, AgreedFirst
<1> QED  BY <1>1, AlwaysInOrder, PTL

============================================================================

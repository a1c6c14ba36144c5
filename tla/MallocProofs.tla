---------------------------- MODULE MallocProofs ----------------------------
(* The allocator of tiny-malloc.c for every arena, gap, word size, set of   *)
(* requests and set of alignments that HeapAssumption admits. The argument  *)
(* is one invariant: the free blocks and those the program holds tile the   *)
(* arena, the free list is in the order of the addresses and its blocks do  *)
(* not touch. The sections: lists in order, tilings of the arena, the       *)
(* invariant and taking a block, free, arithmetic, malloc, realloc,         *)
(* memalign, the steps of the program, the properties, the abstract heap.   *)
EXTENDS TinyMalloc, TLAPS, FiniteSetTheorems, WellFoundedInduction, SequenceTheorems

(* A free list in the order of the addresses.                               *)
Rising(s) == \A i, j \in DOMAIN s : i < j => s[i] < s[j]

(* The places of a list and what is at them.                                *)
LEMMA Places ==
    ASSUME NEW s \in Seq(Nat)
    PROVE  /\ DOMAIN s = 1 .. Len(s) /\ Len(s) \in Nat
           /\ \A i \in DOMAIN s : s[i] \in Nat /\ s[i] \in ToSet(s)
           /\ ToSet(s) \subseteq Nat
           /\ s # << >> => Len(s) \in DOMAIN s
BY DEF ToSet

(* What is at the places of two lists put together.                         *)
LEMMA Joined ==
    ASSUME NEW u \in Seq(Nat), NEW v \in Seq(Nat)
    PROVE  /\ u \o v \in Seq(Nat) /\ Len(u \o v) = Len(u) + Len(v)
           /\ \A k \in 1 .. Len(u) : (u \o v)[k] = u[k]
           /\ \A k \in 1 .. Len(v) : (u \o v)[Len(u) + k] = v[k]
<1>1. Len(u) \in Nat /\ Len(v) \in Nat  OBVIOUS
<1> DEFINE m == Len(u)
           n == Len(v)
           t == u \o v
<1>2. t \in Seq(Nat) /\ Len(t) = m + n
  BY ConcatProperties
<1>3. \A k \in 1 .. m + n : t[k] = IF k <= m THEN u[k] ELSE v[k - m]
  BY ConcatProperties
<1> HIDE DEF m, n, t
<1>4. \A k \in 1 .. m : t[k] = u[k]  BY <1>1, <1>3 DEF m, n
<1>5. ASSUME NEW k \in 1 .. n  PROVE t[m + k] = v[k]
  <2>1. m + k \in 1 .. m + n /\ ~(m + k <= m) /\ (m + k) - m = k  BY <1>1 DEF m, n
  <2> QED  BY <2>1, <1>3
<1> QED  BY <1>2, <1>4, <1>5 DEF m, n, t

(* Unlinking a block keeps the order of the list.                           *)
LEMMA Removed ==
    ASSUME NEW s \in Seq(Nat), Rising(s), NEW i \in DOMAIN s
    PROVE  /\ RemoveAt(s, i) \in Seq(Nat) /\ Rising(RemoveAt(s, i))
           /\ ToSet(RemoveAt(s, i)) = ToSet(s) \ {s[i]}
<1> DEFINE t == RemoveAt(s, i)
           n == Len(s)
<1>0. DOMAIN s = 1 .. n /\ n \in Nat /\ i \in 1 .. n /\ \A k \in 1 .. n : s[k] \in Nat  OBVIOUS
<1>9. \A j, k \in 1 .. n : j < k => s[j] < s[k]  BY DEF Rising
<1> DEFINE u == SubSeq(s, 1, i - 1)
           v == SubSeq(s, i + 1, n)
<1>7. u \in Seq(Nat) /\ Len(u) = i - 1 /\ \A k \in 1 .. i - 1 : u[k] = s[k]
  BY <1>0, SubSeqProperties
<1>8. v \in Seq(Nat) /\ Len(v) = n - i /\ \A k \in 1 .. n - i : v[k] = s[k + i]
  <2> DEFINE a == i + 1
  <2>1. s \in Seq(Nat) /\ a \in 1 .. n + 1 /\ n \in 0 .. n /\ n = Len(s) /\ a \in Int  BY <1>0
  <2>2. \A k \in 1 .. n - i : (a + k) - 1 = k + i /\ k \in 1 .. (n - a) + 1  BY <1>0
  <2>3. v \in Seq(Nat) /\ Len(v) = n - i  BY <1>0, SubSeqProperties
  <2> HIDE DEF a
  <2>4. \A k \in 1 .. (n - a) + 1 : SubSeq(s, a, n)[k] = s[(a + k) - 1]  BY <2>1, SubSeqProperties
  <2>5. \A k \in 1 .. n - i : SubSeq(s, a, n)[k] = s[k + i]  BY <2>2, <2>4
  <2> QED  BY <2>3, <2>5 DEF a
<1>1. t \in Seq(Nat) /\ Len(t) = n - 1
  BY <1>0, <1>7, <1>8, Joined DEF RemoveAt
<1>2. \A k \in 1 .. n - 1 : t[k] = IF k < i THEN s[k] ELSE s[k + 1]
  <2>1. t = u \o v  BY DEF RemoveAt
  <2> HIDE DEF t, u, v, n
  <2>2. \A k \in 1 .. i - 1 : t[k] = u[k]  BY <1>7, <1>8, <2>1, Joined
  <2>3. \A k \in 1 .. n - i : t[(i - 1) + k] = v[k]
    <3>1. \A k \in 1 .. Len(v) : t[Len(u) + k] = v[k]  BY <1>7, <1>8, <2>1, Joined
    <3> QED  BY <1>7, <1>8, <3>1
  <2>4. ASSUME NEW k \in 1 .. n - 1, k >= i  PROVE t[k] = s[k + 1]
    <3>1. (k - i) + 1 \in 1 .. n - i /\ (i - 1) + ((k - i) + 1) = k /\ ((k - i) + 1) + i = k + 1
      BY <1>0, <2>4
    <3> QED  BY <1>8, <2>3, <3>1
  <2>5. ASSUME NEW k \in 1 .. n - 1, k < i  PROVE t[k] = s[k]
    <3>1. k \in 1 .. i - 1  BY <1>0, <2>5
    <3> QED  BY <1>7, <2>2, <3>1
  <2> QED  BY <1>0, <2>4, <2>5
<1>3. DOMAIN t = 1 .. n - 1  BY <1>1, <1>0
<1> HIDE DEF t, n
<1>4. Rising(t)
  <2> SUFFICES ASSUME NEW j \in 1 .. n - 1, NEW k \in 1 .. n - 1, j < k  PROVE t[j] < t[k]
    BY <1>3 DEF Rising
  <2> QED  BY <1>0, <1>2, <1>9
<1>5. ASSUME NEW x \in ToSet(t) PROVE x \in ToSet(s) \ {s[i]}
  <2>1. PICK k \in 1 .. n - 1 : x = t[k]  BY <1>3 DEF ToSet
  <2>2. \A j, k_1 \in 1 .. n : s[j] = s[k_1] => j = k_1  BY <1>0, <1>9
  <2>3. CASE k < i
    <3>1. k \in 1 .. n /\ x = s[k]  BY <1>0, <1>2, <2>1, <2>3
    <3> QED  BY <1>0, <2>2, <2>3, <3>1 DEF ToSet
  <2>4. CASE ~(k < i)
    <3>1. k + 1 \in 1 .. n /\ x = s[k + 1] /\ k + 1 # i  BY <1>0, <1>2, <2>1, <2>4
    <3> QED  BY <1>0, <2>2, <3>1 DEF ToSet
  <2> QED  BY <2>3, <2>4
<1>6. ASSUME NEW x \in ToSet(s) \ {s[i]} PROVE x \in ToSet(t)
  <2>1. PICK k \in 1 .. n : x = s[k]  BY <1>0 DEF ToSet
  <2>2. CASE k < i
    <3>1. k \in 1 .. n - 1 /\ x = t[k]  BY <1>0, <1>2, <2>1, <2>2
    <3> QED  BY <3>1, <1>3 DEF ToSet
  <2>3. CASE k > i
    <3>1. k - 1 \in 1 .. n - 1 /\ x = t[k - 1]  BY <1>0, <1>2, <2>1, <2>3
    <3> QED  BY <3>1, <1>3 DEF ToSet
  <2> QED  BY <1>0, <2>1, <2>2, <2>3
<1> QED  BY <1>1, <1>4, <1>5, <1>6 DEF t

(* Linking a block in where it belongs keeps the order of the list.         *)
LEMMA Inserted ==
    ASSUME NEW s \in Seq(Nat), Rising(s), NEW i \in 1 .. Len(s) + 1, NEW b \in Nat,
           \A j \in DOMAIN s : IF j < i THEN s[j] < b ELSE b < s[j]
    PROVE  /\ InsertAt(s, i, b) \in Seq(Nat) /\ Rising(InsertAt(s, i, b))
           /\ ToSet(InsertAt(s, i, b)) = ToSet(s) \cup {b}
<1> DEFINE t == InsertAt(s, i, b)
           n == Len(s)
<1>0. DOMAIN s = 1 .. n /\ n \in Nat /\ i \in 1 .. n + 1 /\ \A k \in 1 .. n : s[k] \in Nat  OBVIOUS
<1>9. \A j, k \in 1 .. n : j < k => s[j] < s[k]  BY DEF Rising
<1> DEFINE u == SubSeq(s, 1, i - 1)
           v == SubSeq(s, i, n)
           w == u \o <<b>>
<1>4. u \in Seq(Nat) /\ Len(u) = i - 1 /\ \A k \in 1 .. i - 1 : u[k] = s[k]
  BY <1>0, SubSeqProperties
<1>5. v \in Seq(Nat) /\ Len(v) = n - i + 1 /\ \A k \in 1 .. n - i + 1 : v[k] = s[i + k - 1]
  BY <1>0, SubSeqProperties
<1>6. w \in Seq(Nat) /\ Len(w) = i /\ \A k \in 1 .. i : w[k] = IF k = i THEN b ELSE s[k]
  <2>1. <<b>> \in Seq(Nat) /\ Len(<<b>>) = 1 /\ <<b>>[1] = b  OBVIOUS
  <2> HIDE DEF u
  <2>2. w \in Seq(Nat) /\ Len(w) = i  BY <1>0, <1>4, <2>1, Joined
  <2>3. \A k \in 1 .. i - 1 : w[k] = u[k]  BY <1>4, <2>1, Joined
  <2>4. w[(i - 1) + 1] = b
    <3>1. \A k \in 1 .. Len(<<b>>) : w[Len(u) + k] = <<b>>[k]  BY <1>4, <2>1, Joined
    <3> QED  BY <1>4, <2>1, <3>1
  <2>5. (i - 1) + 1 = i  BY <1>0
  <2> HIDE DEF w
  <2> QED  BY <1>0, <1>4, <2>2, <2>3, <2>4, <2>5
<1>7. t = w \o v  BY DEF InsertAt
<1>8. \A j \in 1 .. n : IF j < i THEN s[j] < b ELSE b < s[j]  BY <1>0
<1> HIDE DEF t, u, v, w, n
<1>1. t \in Seq(Nat) /\ Len(t) = n + 1  BY <1>0, <1>5, <1>6, <1>7, Joined
<1>2. \A k \in 1 .. n + 1 : t[k] = IF k < i THEN s[k] ELSE IF k = i THEN b ELSE s[k - 1]
  <2>1. \A k \in 1 .. i : t[k] = w[k]  BY <1>5, <1>6, <1>7, Joined
  <2>2. \A k \in 1 .. n - i + 1 : t[i + k] = v[k]  BY <1>5, <1>6, <1>7, Joined
  <2>3. ASSUME NEW k \in 1 .. n + 1, k > i  PROVE t[k] = s[k - 1]
    <3>1. k - i \in 1 .. n - i + 1 /\ i + (k - i) = k /\ i + (k - i) - 1 = k - 1  BY <1>0, <2>3
    <3> QED  BY <1>5, <2>2, <3>1
  <2>4. ASSUME NEW k \in 1 .. n + 1, k <= i  PROVE t[k] = IF k = i THEN b ELSE s[k]
    <3>1. k \in 1 .. i  BY <1>0, <2>4
    <3> QED  BY <1>6, <2>1, <3>1
  <2> QED  BY <1>0, <2>3, <2>4
<1>3. DOMAIN t = 1 .. n + 1  BY <1>1, <1>0
<1>10. Rising(t)
  <2> SUFFICES ASSUME NEW j \in 1 .. n + 1, NEW k \in 1 .. n + 1, j < k  PROVE t[j] < t[k]
    BY <1>3 DEF Rising
  <2>1. CASE j < i /\ k > i
    <3>1. k - 1 \in 1 .. n /\ j \in 1 .. n /\ t[j] = s[j] /\ t[k] = s[k - 1] /\ ~(k - 1 < i)  BY <1>0, <1>2, <2>1
    <3>2. s[j] < b /\ b < s[k - 1]  BY <1>8, <3>1, <2>1
    <3> QED  BY <1>0, <3>1, <3>2
  <2>2. CASE j < i /\ k <= i  BY <1>0, <1>2, <1>8, <1>9, <2>2
  <2>3. CASE j = i  BY <1>0, <1>2, <1>8, <2>3
  <2>4. CASE j > i  BY <1>0, <1>2, <1>8, <1>9, <2>4
  <2> QED  BY <1>0, <2>1, <2>2, <2>3, <2>4
<1>11. ASSUME NEW x \in ToSet(t) PROVE x \in ToSet(s) \cup {b}
  <2>1. PICK k \in 1 .. n + 1 : x = t[k]  BY <1>3 DEF ToSet
  <2>3. CASE k < i
    <3>1. k \in 1 .. n /\ x = s[k]  BY <1>0, <1>2, <2>1, <2>3
    <3> QED  BY <1>0, <3>1 DEF ToSet
  <2>4. CASE k > i
    <3>1. k - 1 \in 1 .. n /\ x = s[k - 1]  BY <1>0, <1>2, <2>1, <2>4
    <3> QED  BY <1>0, <3>1 DEF ToSet
  <2>5. CASE k = i  BY <1>0, <1>2, <2>1, <2>5
  <2> QED  BY <1>0, <2>3, <2>4, <2>5
<1>12. ASSUME NEW x \in ToSet(s) PROVE x \in ToSet(t)
  <2>1. PICK k \in 1 .. n : x = s[k]  BY <1>0 DEF ToSet
  <2>2. CASE k < i
    <3>1. k \in 1 .. n + 1 /\ x = t[k]  BY <1>0, <1>2, <2>1, <2>2
    <3> QED  BY <3>1, <1>3 DEF ToSet
  <2>3. CASE k >= i
    <3>1. k + 1 \in 1 .. n + 1 /\ x = t[k + 1]  BY <1>0, <1>2, <2>1, <2>3
    <3> QED  BY <3>1, <1>3 DEF ToSet
  <2> QED  BY <1>0, <2>1, <2>2, <2>3
<1>13. b \in ToSet(t)  BY <1>0, <1>2, <1>3 DEF ToSet
<1> QED  BY <1>1, <1>10, <1>11, <1>12, <1>13 DEF t

(* A block may take the place of another if it lies between the             *)
(* neighbours of that one.                                                  *)
LEMMA Replaced ==
    ASSUME NEW s \in Seq(Nat), Rising(s), NEW i \in DOMAIN s, NEW b \in Nat,
           \A j \in DOMAIN s : (j < i => s[j] < b) /\ (j > i => b < s[j])
    PROVE  /\ [s EXCEPT ![i] = b] \in Seq(Nat) /\ Rising([s EXCEPT ![i] = b])
           /\ ToSet([s EXCEPT ![i] = b]) = (ToSet(s) \ {s[i]}) \cup {b}
<1> DEFINE t == [s EXCEPT ![i] = b]
           n == Len(s)
<1>0. DOMAIN s = 1 .. n /\ n \in Nat /\ i \in 1 .. n /\ \A k \in 1 .. n : s[k] \in Nat  OBVIOUS
<1>9. \A j, k \in 1 .. n : j < k => s[j] < s[k]  BY DEF Rising
<1>8. \A j \in 1 .. n : (j < i => s[j] < b) /\ (j > i => b < s[j])  BY <1>0
<1>1. t \in Seq(Nat) /\ DOMAIN t = 1 .. n /\ \A k \in 1 .. n : t[k] = IF k = i THEN b ELSE s[k]
  BY <1>0, ExceptSeq
<1> HIDE DEF t, n
<1>2. Rising(t)
  <2> SUFFICES ASSUME NEW j \in 1 .. n, NEW k \in 1 .. n, j < k  PROVE t[j] < t[k]
    BY <1>1 DEF Rising
  <2>1. CASE j = i  BY <1>0, <1>1, <1>8, <2>1
  <2>2. CASE k = i  BY <1>0, <1>1, <1>8, <2>2
  <2>3. CASE j # i /\ k # i  BY <1>0, <1>1, <1>9, <2>3
  <2> QED  BY <2>1, <2>2, <2>3
<1>3. \A j, k \in 1 .. n : s[j] = s[k] => j = k  BY <1>0, <1>9
<1>4. ASSUME NEW x \in ToSet(t) PROVE x \in (ToSet(s) \ {s[i]}) \cup {b}
  <2>1. PICK k \in 1 .. n : x = t[k]  BY <1>1 DEF ToSet
  <2> QED  BY <1>0, <1>1, <1>3, <2>1 DEF ToSet
<1>5. ASSUME NEW x \in ToSet(s) \ {s[i]} PROVE x \in ToSet(t)
  <2>1. PICK k \in 1 .. n : x = s[k]  BY <1>0 DEF ToSet
  <2>2. k # i /\ t[k] = x  BY <2>1, <1>1
  <2> QED  BY <2>2, <1>1 DEF ToSet
<1>6. b \in ToSet(t)  BY <1>0, <1>1 DEF ToSet
<1> QED  BY <1>1, <1>2, <1>4, <1>5, <1>6 DEF t

(* Linking a block in behind all others keeps the order of the list.        *)
LEMMA Appended ==
    ASSUME NEW s \in Seq(Nat), Rising(s), NEW b \in Nat, \A x \in ToSet(s) : x < b
    PROVE  /\ Append(s, b) \in Seq(Nat) /\ Rising(Append(s, b))
           /\ ToSet(Append(s, b)) = ToSet(s) \cup {b}
<1> DEFINE t == Append(s, b)
           n == Len(s)
<1>0. DOMAIN s = 1 .. n /\ n \in Nat /\ \A k \in 1 .. n : s[k] \in Nat  OBVIOUS
<1>9. \A j, k \in 1 .. n : j < k => s[j] < s[k]  BY DEF Rising
<1>1. /\ t \in Seq(Nat) /\ DOMAIN t = 1 .. n + 1
      /\ \A k \in 1 .. n + 1 : t[k] = IF k = n + 1 THEN b ELSE s[k]
  BY <1>0, AppendProperties
<1>2. \A k \in 1 .. n : s[k] < b  BY <1>0 DEF ToSet
<1> HIDE DEF t, n
<1>3. Rising(t)
  <2> SUFFICES ASSUME NEW j \in 1 .. n + 1, NEW k \in 1 .. n + 1, j < k  PROVE t[j] < t[k]
    BY <1>1 DEF Rising
  <2> QED  BY <1>0, <1>1, <1>2, <1>9
<1>4. ASSUME NEW x \in ToSet(t) PROVE x \in ToSet(s) \cup {b}
  <2>1. PICK k \in 1 .. n + 1 : x = t[k]  BY <1>1 DEF ToSet
  <2> QED  BY <1>0, <1>1, <2>1 DEF ToSet
<1>5. ASSUME NEW x \in ToSet(s) PROVE x \in ToSet(t)
  <2>1. PICK k \in 1 .. n : x = s[k]  BY <1>0 DEF ToSet
  <2>2. k \in 1 .. n + 1 /\ t[k] = x  BY <2>1, <1>0, <1>1
  <2> QED  BY <2>2, <1>1 DEF ToSet
<1>6. b \in ToSet(t)
  <2>1. n + 1 \in 1 .. n + 1 /\ t[n + 1] = b  BY <1>0, <1>1
  <2> QED  BY <2>1, <1>1 DEF ToSet
<1> QED  BY <1>1, <1>3, <1>4, <1>5, <1>6 DEF t

(* Unlinking the last block keeps the order of the list.                    *)
LEMMA Shortened ==
    ASSUME NEW s \in Seq(Nat), Rising(s), s # << >>
    PROVE  /\ Front(s) \in Seq(Nat) /\ Rising(Front(s))
           /\ ToSet(Front(s)) = ToSet(s) \ {Last(s)}
<1> DEFINE t == Front(s)
           n == Len(s)
<1>0. DOMAIN s = 1 .. n /\ n \in Nat \ {0} /\ \A k \in 1 .. n : s[k] \in Nat  OBVIOUS
<1>9. \A j, k \in 1 .. n : j < k => s[j] < s[k]  BY DEF Rising
<1>1. t \in Seq(Nat) /\ DOMAIN t = 1 .. n - 1 /\ \A k \in 1 .. n - 1 : t[k] = s[k]
  BY <1>0, SubSeqProperties DEF Front
<1>2. Last(s) = s[n]  BY DEF Last
<1> HIDE DEF t, n
<1>3. Rising(t)
  <2> SUFFICES ASSUME NEW j \in 1 .. n - 1, NEW k \in 1 .. n - 1, j < k  PROVE t[j] < t[k]
    BY <1>1 DEF Rising
  <2> QED  BY <1>0, <1>1, <1>9
<1>4. ASSUME NEW x \in ToSet(t) PROVE x \in ToSet(s) \ {s[n]}
  <2>1. PICK k \in 1 .. n - 1 : x = s[k]  BY <1>1 DEF ToSet
  <2>2. s[k] < s[n]  BY <1>0, <2>1 DEF Rising
  <2> QED  BY <1>0, <2>1, <2>2 DEF ToSet
<1>5. ASSUME NEW x \in ToSet(s) \ {s[n]} PROVE x \in ToSet(t)
  <2>1. PICK k \in 1 .. n : x = s[k]  BY <1>0 DEF ToSet
  <2>2. k \in 1 .. n - 1 /\ t[k] = x  BY <2>1, <1>0, <1>1
  <2> QED  BY <2>2, <1>1 DEF ToSet
<1> QED  BY <1>1, <1>2, <1>3, <1>4, <1>5 DEF t
-----------------------------------------------------------------------------
(* The blocks U cover the arena up to "end" without a gap and without an    *)
(* overlap, and none is too small for a free list entry.                    *)
Tiles(U, size, end) ==
    /\ end \in Nat /\ Start <= end
    /\ U \subseteq Nat /\ U \subseteq DOMAIN size
    /\ \A b \in U : size[b] \in Nat /\ size[b] >= Entry /\ Start <= b /\ b + size[b] <= end
    /\ \A b, c \in U : b < c => b + size[b] <= c
    /\ \A x \in Start .. end - 1 : \E b \in U : b <= x /\ x < b + size[b]

(* What the constants are.                                                  *)
LEMMA Sizes ==
    /\ Word \in Nat \ {0} /\ Entry \in Nat /\ Entry = 2 * Word /\ Entry >= 2
    /\ Start \in Nat /\ Gap \in Nat /\ Limit \in Nat
BY HeapAssumption DEF Entry

(* Cutting a block in two, neither too small, still tiles the arena.        *)
LEMMA Cut ==
    ASSUME NEW U, NEW size, NEW end, Tiles(U, size, end), NEW b \in U, NEW n \in Nat,
           n >= Entry, size[b] - n >= Entry,
           NEW t, U \cup {b + n} \subseteq DOMAIN t, t[b] = n, t[b + n] = size[b] - n,
           \A c \in U \ {b} : t[c] = size[c]
    PROVE  b + n \notin U /\ Tiles(U \cup {b + n}, t, end)
<1>1. /\ end \in Nat /\ Start <= end /\ Start \in Nat /\ Entry \in Nat /\ Entry >= 2
      /\ U \subseteq Nat /\ U \subseteq DOMAIN size
      /\ \A c \in U : c \in Nat /\ size[c] \in Nat /\ size[c] >= Entry /\ Start <= c /\ c + size[c] <= end
  BY Sizes DEF Tiles
<1>2. \A c, d \in U : c < d => c + size[c] <= d  BY DEF Tiles
<1>3. \A c \in U : c <= b \/ b + size[b] <= c
  <2> TAKE c \in U
  <2>1. c \in Nat /\ b \in Nat  BY <1>1
  <2>2. b < c => b + size[b] <= c  BY <1>2
  <2> QED  BY <2>1, <2>2
<1>4. b + n \notin U
  <2> SUFFICES ASSUME b + n \in U PROVE FALSE  OBVIOUS
  <2>1. b + n <= b \/ b + size[b] <= b + n  BY <1>3
  <2> QED  BY <1>1, <2>1
<1>5. \A c \in U \cup {b + n} : t[c] \in Nat /\ t[c] >= Entry /\ Start <= c /\ c + t[c] <= end
  <2>1. t[b] \in Nat /\ t[b] >= Entry /\ Start <= b /\ b + t[b] <= end  BY <1>1
  <2>2. t[b + n] \in Nat /\ t[b + n] >= Entry /\ Start <= b + n /\ b + n + t[b + n] <= end  BY <1>1
  <2> QED  BY <1>1, <2>1, <2>2
<1>6. ASSUME NEW c \in U \cup {b + n}, NEW d \in U \cup {b + n}, c < d  PROVE c + t[c] <= d
  <2>1. CASE c \in U \ {b} /\ d \in U
    <3>1. c + size[c] <= d  BY <1>2, <1>6, <2>1
    <3> QED  BY <3>1, <2>1
  <2>2. CASE c = b /\ d \in U
    <3>1. b + size[b] <= d  BY <1>2, <1>6, <2>2
    <3> QED  BY <1>1, <3>1, <2>2
  <2>3. CASE c \in U \ {b} /\ d = b + n
    <3>1. c <= b  BY <1>1, <1>3, <1>6, <2>3
    <3>2. c + size[c] <= b  BY <1>1, <1>2, <2>3, <3>1
    <3> QED  BY <1>1, <2>3, <3>2
  <2>4. CASE c = b /\ d = b + n  BY <2>4, <1>1
  <2>5. CASE c = b + n /\ d \in U
    <3>1. b + size[b] <= d  BY <1>1, <1>3, <1>6, <2>5
    <3> QED  BY <1>1, <2>5, <3>1
  <2> QED  BY <1>6, <2>1, <2>2, <2>3, <2>4, <2>5, <1>1
<1>7. ASSUME NEW x \in Start .. end - 1  PROVE \E c \in U \cup {b + n} : c <= x /\ x < c + t[c]
  <2>1. PICK c \in U : c <= x /\ x < c + size[c]  BY DEF Tiles
  <2>2. CASE c # b  BY <2>1, <2>2
  <2>3. CASE c = b /\ x < b + n  BY <2>1, <2>3, <1>1
  <2>4. CASE c = b /\ ~(x < b + n)
    <3>1. b + n <= x /\ x < (b + n) + t[b + n]  BY <1>1, <2>1, <2>4
    <3> QED  BY <3>1
  <2> QED  BY <2>2, <2>3, <2>4
<1>8. U \cup {b + n} \subseteq Nat  BY <1>1
<1> QED  BY <1>1, <1>4, <1>5, <1>6, <1>7, <1>8 DEF Tiles

(* Merging a block with the one it touches from below still tiles the       *)
(* arena.                                                                   *)
LEMMA Merge ==
    ASSUME NEW U, NEW size, NEW end, Tiles(U, size, end), NEW b \in U, NEW n \in U, b + size[b] = n,
           NEW t, U \ {n} \subseteq DOMAIN t, t[b] = size[b] + size[n],
           \A c \in U \ {b, n} : t[c] = size[c]
    PROVE  b # n /\ Tiles(U \ {n}, t, end)
<1> DEFINE V == U \ {n}
<1>1. /\ end \in Nat /\ Start <= end /\ Start \in Nat /\ Entry \in Nat /\ Entry >= 2
      /\ U \subseteq Nat /\ U \subseteq DOMAIN size
      /\ \A c \in U : c \in Nat /\ size[c] \in Nat /\ size[c] >= Entry /\ Start <= c /\ c + size[c] <= end
  BY Sizes DEF Tiles
<1>2. \A c, d \in U : c < d => c + size[c] <= d  BY DEF Tiles
<1>3. n \in U /\ n \in Nat /\ b < n /\ b \in V /\ n = b + size[b]  BY <1>1
<1>4. t[b] = size[b] + size[n] /\ V \subseteq DOMAIN t /\ \A c \in V \ {b} : t[c] = size[c]  OBVIOUS
<1>5. \A c \in V : t[c] \in Nat /\ t[c] >= Entry /\ Start <= c /\ c + t[c] <= end
  <2>1. t[b] \in Nat /\ t[b] >= Entry /\ Start <= b /\ b + t[b] <= end  BY <1>1, <1>3, <1>4
  <2> QED  BY <1>1, <1>4, <2>1
<1>6. ASSUME NEW c \in V, NEW d \in V, c < d  PROVE c + t[c] <= d
  <2>1. CASE c # b
    <3>1. c + size[c] <= d  BY <1>2, <1>6, <2>1
    <3> QED  BY <1>4, <3>1, <2>1
  <2>2. CASE c = b
    <3>1. n <= d /\ d # n /\ d \in Nat  BY <1>1, <1>2, <1>3, <1>6, <2>2
    <3>2. n + size[n] <= d  BY <1>2, <1>3, <3>1
    <3> QED  BY <1>1, <1>3, <1>4, <2>2, <3>2
  <2> QED  BY <2>1, <2>2
<1>7. ASSUME NEW x \in Start .. end - 1  PROVE \E c \in V : c <= x /\ x < c + t[c]
  <2>1. PICK c \in U : c <= x /\ x < c + size[c]  BY DEF Tiles
  <2>2. CASE c \in V \ {b}  BY <1>4, <2>1, <2>2
  <2>3. CASE c = b \/ c = n
    <3>1. b <= x /\ x < b + t[b]  BY <1>1, <1>3, <1>4, <2>1, <2>3
    <3> QED  BY <1>3, <3>1
  <2> QED  BY <2>2, <2>3
<1>8. Tiles(V, t, end)
  <2>1. V \subseteq Nat  BY <1>1
  <2> HIDE DEF V
  <2> QED  BY <1>1, <1>4, <1>5, <1>6, <1>7, <2>1 DEF Tiles
<1> QED  BY <1>3, <1>8

(* A new block at the end of the arena tiles an arena that much longer.     *)
LEMMA Extend ==
    ASSUME NEW U, NEW size, NEW end, Tiles(U, size, end), NEW n \in Nat, n >= Entry,
           NEW t, U \cup {end} \subseteq DOMAIN t, t[end] = n, \A c \in U : t[c] = size[c]
    PROVE  end \notin U /\ Tiles(U \cup {end}, t, end + n)
<1>1. /\ end \in Nat /\ Start <= end /\ Start \in Nat /\ Entry \in Nat /\ Entry >= 2
      /\ U \subseteq Nat /\ U \subseteq DOMAIN size
      /\ \A c \in U : c \in Nat /\ size[c] \in Nat /\ size[c] >= Entry /\ Start <= c /\ c + size[c] <= end
  BY Sizes DEF Tiles
<1>2. \A c, d \in U : c < d => c + size[c] <= d  BY DEF Tiles
<1>3. end \notin U
  <2>1. \A c \in U : c + size[c] <= end /\ size[c] >= 2 /\ size[c] \in Nat /\ c \in Nat  BY <1>1
  <2> QED  BY <2>1, <1>1
<1>4. \A c \in U \cup {end} : t[c] \in Nat /\ t[c] >= Entry /\ Start <= c /\ c + t[c] <= end + n  BY <1>1
<1>5. ASSUME NEW c \in U \cup {end}, NEW d \in U \cup {end}, c < d  PROVE c + t[c] <= d
  <2>1. c \in U  BY <1>1, <1>5
  <2>2. t[c] = size[c]  BY <2>1
  <2>3. CASE d \in U  BY <1>2, <1>5, <2>1, <2>2, <2>3
  <2>4. CASE d = end  BY <1>1, <2>1, <2>2, <2>4
  <2> QED  BY <2>3, <2>4
<1>6. ASSUME NEW x \in Start .. (end + n) - 1  PROVE \E c \in U \cup {end} : c <= x /\ x < c + t[c]
  <2>1. CASE x < end
    <3>1. x \in Start .. end - 1  BY <1>1, <2>1
    <3>2. PICK c \in U : c <= x /\ x < c + size[c]  BY <3>1 DEF Tiles
    <3> QED  BY <3>2
  <2>2. CASE ~(x < end)  BY <1>1, <2>2
  <2> QED  BY <2>1, <2>2
<1>7. end + n \in Nat /\ Start <= end + n /\ U \cup {end} \subseteq Nat  BY <1>1
<1> QED  BY <1>3, <1>4, <1>5, <1>6, <1>7 DEF Tiles

(* Enlarging the last block tiles an arena that ends where the block        *)
(* does.                                                                    *)
LEMMA Grow ==
    ASSUME NEW U, NEW size, NEW end, Tiles(U, size, end), NEW b \in U, b + size[b] = end,
           NEW n \in Nat, n >= size[b],
           NEW t, U \subseteq DOMAIN t, t[b] = n, \A c \in U \ {b} : t[c] = size[c]
    PROVE  Tiles(U, t, b + n)
<1>1. /\ end \in Nat /\ Start <= end /\ Start \in Nat /\ Entry \in Nat /\ Entry >= 2
      /\ U \subseteq Nat /\ U \subseteq DOMAIN size
      /\ \A c \in U : c \in Nat /\ size[c] \in Nat /\ size[c] >= Entry /\ Start <= c /\ c + size[c] <= end
  BY Sizes DEF Tiles
<1>2. \A c, d \in U : c < d => c + size[c] <= d  BY DEF Tiles
<1>3. \A c \in U \ {b} : c + size[c] <= b
  <2> TAKE c \in U \ {b}
  <2>1. c \in Nat /\ b \in Nat /\ size[c] \in Nat /\ size[b] \in Nat /\ size[c] >= 2 /\ c + size[c] <= end
    BY <1>1
  <2>2. b < c => end <= c  BY <1>2
  <2>3. c < b => c + size[c] <= b  BY <1>2
  <2> QED  BY <1>1, <2>1, <2>2, <2>3
<1>4. \A c \in U : t[c] \in Nat /\ t[c] >= Entry /\ Start <= c /\ c + t[c] <= b + n
  <2>1. t[b] \in Nat /\ t[b] >= Entry /\ Start <= b /\ b + t[b] <= b + n  BY <1>1
  <2>2. ASSUME NEW c \in U \ {b} PROVE t[c] \in Nat /\ t[c] >= Entry /\ Start <= c /\ c + t[c] <= b + n
    <3>1. c + size[c] <= b /\ t[c] = size[c]  BY <1>3
    <3> QED  BY <1>1, <3>1
  <2> QED  BY <2>1, <2>2
<1>5. ASSUME NEW c \in U, NEW d \in U, c < d  PROVE c + t[c] <= d
  <2>1. c # b
    <3> SUFFICES ASSUME c = b PROVE FALSE  OBVIOUS
    <3>1. b + size[b] <= d /\ d + size[d] <= end /\ size[d] >= 2 /\ d \in Nat /\ size[d] \in Nat  BY <1>1, <1>2, <1>5
    <3> QED  BY <1>1, <3>1
  <2> QED  BY <1>2, <1>5, <2>1
<1>6. ASSUME NEW x \in Start .. (b + n) - 1  PROVE \E c \in U : c <= x /\ x < c + t[c]
  <2>1. CASE x < b
    <3>1. x \in Start .. end - 1  BY <1>1, <2>1
    <3>2. PICK c \in U : c <= x /\ x < c + size[c]  BY <3>1 DEF Tiles
    <3>3. c # b  BY <1>1, <2>1, <3>2
    <3> QED  BY <3>2, <3>3
  <2>2. CASE ~(x < b)  BY <1>1, <2>2
  <2> QED  BY <2>1, <2>2
<1>7. b + n \in Nat /\ Start <= b + n  BY <1>1
<1> QED  BY <1>1, <1>4, <1>5, <1>6, <1>7 DEF Tiles
-----------------------------------------------------------------------------
(* The free blocks.                                                         *)
Spare(h) == ToSet(h.free)

(* The invariant of the heap for the blocks "held": the free list is in     *)
(* order, it and the held blocks tile the arena, no two free blocks         *)
(* touch, and the gap below the stack is kept. The tiling is what the       *)
(* free of any held block needs to find both neighbours from the list       *)
(* alone.                                                                   *)
HeapInv(h, held) ==
    /\ h = [end |-> h.end, free |-> h.free, size |-> h.size]
    /\ h.free \in Seq(Nat) /\ Rising(h.free)
    /\ held \cap Spare(h) = {}
    /\ Tiles(held \cup Spare(h), h.size, h.end)
    /\ \A b, c \in Spare(h) : EndOf(h, b) # c
    /\ h.end + Gap <= Limit

(* The headers of the blocks that are held are left alone.                  *)
Keeps(h, g, held) == \A b \in held : g.size[b] = h.size[b]

(* What an allocator returns: null, or a block of at least n bytes that     *)
(* was not held and now may be; in both cases the invariant holds of the    *)
(* new heap.                                                                *)
Serves(h, held, r, n) ==
    /\ Keeps(h, r.heap, held)
    /\ IF r.block = NULL THEN HeapInv(r.heap, held)
       ELSE /\ r.block \in Nat /\ r.block \notin held
            /\ HeapInv(r.heap, held \cup {r.block})
            /\ r.heap.size[r.block] >= n

(* What the invariant says of every block and of every place of the list.   *)
LEMMA Facts ==
    ASSUME NEW h, NEW held, HeapInv(h, held)
    PROVE  /\ h = [end |-> h.end, free |-> h.free, size |-> h.size]
           /\ h.free \in Seq(Nat) /\ Rising(h.free)
           /\ held \cap Spare(h) = {}
           /\ Tiles(held \cup Spare(h), h.size, h.end)
           /\ h.end \in Nat /\ Start <= h.end /\ h.end + Gap <= Limit
           /\ held \subseteq Nat /\ Spare(h) \subseteq Nat
           /\ held \cup Spare(h) \subseteq DOMAIN h.size
           /\ \A b \in held \cup Spare(h) :
                 /\ b \in Nat /\ h.size[b] \in Nat /\ h.size[b] >= Entry
                 /\ Start <= b /\ b + h.size[b] <= h.end
           /\ \A b, c \in held \cup Spare(h) : b < c => b + h.size[b] <= c
           /\ \A b, c \in Spare(h) : b + h.size[b] # c
           /\ DOMAIN h.free = 1 .. Len(h.free) /\ Len(h.free) \in Nat
           /\ \A i \in DOMAIN h.free : h.free[i] \in Nat /\ h.free[i] \in Spare(h)
           /\ \A i, j \in DOMAIN h.free : i < j => h.free[i] < h.free[j]
<1>1. /\ h = [end |-> h.end, free |-> h.free, size |-> h.size]
      /\ h.free \in Seq(Nat) /\ Rising(h.free)
      /\ held \cap Spare(h) = {}
      /\ Tiles(held \cup Spare(h), h.size, h.end)
      /\ h.end + Gap <= Limit
      /\ \A b, c \in Spare(h) : b + h.size[b] # c
  BY DEF HeapInv, EndOf
<1>2. /\ h.end \in Nat /\ Start <= h.end
      /\ held \cup Spare(h) \subseteq Nat
      /\ held \cup Spare(h) \subseteq DOMAIN h.size
      /\ \A b \in held \cup Spare(h) : h.size[b] \in Nat /\ h.size[b] >= Entry /\ Start <= b /\ b + h.size[b] <= h.end
      /\ \A b, c \in held \cup Spare(h) : b < c => b + h.size[b] <= c
  BY <1>1 DEF Tiles
<1>3. /\ DOMAIN h.free = 1 .. Len(h.free) /\ Len(h.free) \in Nat
      /\ \A i \in DOMAIN h.free : h.free[i] \in Nat /\ h.free[i] \in Spare(h)
  BY <1>1, Places DEF Spare
<1>4. \A i, j \in DOMAIN h.free : i < j => h.free[i] < h.free[j]  BY <1>1 DEF Rising
<1>5. held \subseteq Nat /\ Spare(h) \subseteq Nat /\ \A b \in held \cup Spare(h) : b \in Nat  BY <1>2
<1> HIDE DEF Spare
<1> QED  BY <1>1, <1>2, <1>3, <1>4, <1>5

(* Two blocks that do not begin at the same place are apart. *)
LEMMA Apart ==
    ASSUME NEW h, NEW held, HeapInv(h, held),
           NEW b \in held \cup Spare(h), NEW c \in held \cup Spare(h), b # c
    PROVE  b + h.size[b] <= c \/ c + h.size[c] <= b
<1>1. b \in Nat /\ c \in Nat  BY Facts
<1>2. b < c \/ c < b  BY <1>1
<1>3. b < c => b + h.size[b] <= c  BY Facts
<1>4. c < b => c + h.size[c] <= b  BY Facts
<1> QED  BY <1>2, <1>3, <1>4

(* The whole of a free block is taken. *)
LEMMA TakeWhole ==
    ASSUME NEW h, NEW held, HeapInv(h, held), NEW b \in Spare(h),
           NEW s \in Seq(Nat), Rising(s), ToSet(s) = Spare(h) \ {b}
    PROVE  /\ b \in Nat /\ b \notin held
           /\ HeapInv([end |-> h.end, free |-> s, size |-> h.size], held \cup {b})
<1> DEFINE g == [end |-> h.end, free |-> s, size |-> h.size]
<1>1. g = [end |-> g.end, free |-> g.free, size |-> g.size] /\ g.end = h.end /\ g.free = s /\ g.size = h.size
  OBVIOUS
<1> HIDE DEF g
<1>2. Spare(g) = Spare(h) \ {b}  BY <1>1 DEF Spare
<1>3. b \in Nat /\ b \notin held  BY Facts
<1>4. (held \cup {b}) \cap Spare(g) = {}  BY <1>2, Facts
<1>5. (held \cup {b}) \cup Spare(g) = held \cup Spare(h)  BY <1>2
<1>6. Tiles((held \cup {b}) \cup Spare(g), g.size, g.end)  BY <1>1, <1>5, Facts
<1>7. \A c, d \in Spare(g) : EndOf(g, c) # d
  <2>1. \A c, d \in Spare(h) : EndOf(h, c) # d  BY DEF HeapInv
  <2> QED  BY <1>1, <1>2, <2>1 DEF EndOf
<1>8. g.end + Gap <= Limit  BY <1>1, Facts
<1>9. HeapInv(g, held \cup {b})  BY <1>1, <1>4, <1>6, <1>7, <1>8 DEF HeapInv
<1> QED  BY <1>3, <1>9 DEF g

(* The free block b is cut in two at b + n, and one of the parts is taken:  *)
(* t are the sizes then and s is the list of what is still free.            *)
TakesPart(h, held, b, n, t, s, taken) ==
    /\ HeapInv(h, held) /\ b \in Spare(h)
    /\ n \in Nat /\ n >= Entry /\ h.size[b] - n >= Entry
    /\ held \cup Spare(h) \cup {b + n} \subseteq DOMAIN t
    /\ t[b] = n /\ t[b + n] = h.size[b] - n
    /\ \A c \in held \cup Spare(h) : c # b => t[c] = h.size[c]
    /\ taken \in {b, b + n}
    /\ s \in Seq(Nat) /\ Rising(s) /\ ToSet(s) = (Spare(h) \cup {b + n}) \ {taken}

(* Taking one of the two parts keeps the invariant.                         *)
LEMMA TakePart ==
    ASSUME NEW h, NEW held, NEW b, NEW n, NEW t, NEW s, NEW taken, TakesPart(h, held, b, n, t, s, taken)
    PROVE  /\ taken \in Nat /\ taken \notin held /\ b + n \notin held \cup Spare(h)
           /\ HeapInv([end |-> h.end, free |-> s, size |-> t], held \cup {taken})
<1> SUFFICES ASSUME HeapInv(h, held), b \in Spare(h),
                    n \in Nat, n >= Entry, h.size[b] - n >= Entry,
                    held \cup Spare(h) \cup {b + n} \subseteq DOMAIN t,
                    t[b] = n, t[b + n] = h.size[b] - n,
                    \A c \in held \cup Spare(h) : c # b => t[c] = h.size[c],
                    taken \in {b, b + n},
                    s \in Seq(Nat), Rising(s), ToSet(s) = (Spare(h) \cup {b + n}) \ {taken}
             PROVE  /\ taken \in Nat /\ taken \notin held /\ b + n \notin held \cup Spare(h)
                    /\ HeapInv([end |-> h.end, free |-> s, size |-> t], held \cup {taken})
  BY DEF TakesPart
<1> DEFINE g == [end |-> h.end, free |-> s, size |-> t]
           U == held \cup Spare(h)
<1>0. /\ held \cap Spare(h) = {} /\ b \in U
      /\ \A c \in U : c \in Nat /\ h.size[c] \in Nat
      /\ \A c, d \in Spare(h) : c + h.size[c] # d
      /\ h.end + Gap <= Limit /\ Tiles(U, h.size, h.end)
      /\ Entry \in Nat /\ Entry >= 2
  BY Facts, Sizes
<1>1. g = [end |-> g.end, free |-> g.free, size |-> g.size] /\ g.end = h.end /\ g.free = s /\ g.size = t
  OBVIOUS
<1>2. b + n \notin U /\ Tiles(U \cup {b + n}, t, h.end)
  <2> DEFINE z == h.size
             e == h.end
  <2>1. U \cup {b + n} \subseteq DOMAIN t /\ \A c \in U \ {b} : t[c] = z[c]
    OBVIOUS
  <2>2. Tiles(U, z, e) /\ b \in U /\ z[b] - n >= Entry /\ t[b + n] = z[b] - n  BY <1>0
  <2> HIDE DEF U, z, e
  <2>3. b + n \notin U /\ Tiles(U \cup {b + n}, t, e)  BY <2>1, <2>2, Cut
  <2> QED  BY <2>3 DEF e
<1>3. Spare(g) = (Spare(h) \cup {b + n}) \ {taken}  BY DEF Spare
<1> HIDE DEF g
<1>4. b \in Nat /\ b + n \in Nat /\ b \notin held /\ h.size[b] \in Nat /\ b # b + n
  <2>1. b \in Nat /\ b \notin held /\ h.size[b] \in Nat  BY <1>0
  <2>2. b + n \in Nat /\ n \in Nat /\ n >= 2  BY <1>0, <2>1
  <2> HIDE DEF U
  <2>3. b # b + n  BY <2>1, <2>2
  <2> QED  BY <2>1, <2>2, <2>3
<1>5. taken \in Nat /\ taken \notin held  BY <1>2, <1>4
<1>6. (held \cup {taken}) \cap Spare(g) = {}  BY <1>0, <1>2, <1>3
<1>7. (held \cup {taken}) \cup Spare(g) = U \cup {b + n}  BY <1>3
<1>8. Tiles((held \cup {taken}) \cup Spare(g), g.size, g.end)  BY <1>1, <1>2, <1>7
<1>9. ASSUME NEW c \in Spare(g), NEW d \in Spare(g)  PROVE c + t[c] # d
  <2>2. CASE c = b
    <3>1. d # b + n  BY <1>3, <1>4, <1>9, <2>2
    <3> QED  BY <1>4, <2>2, <3>1
  <2>3. CASE c = b + n
    <3>1. c + t[c] = b + h.size[b] /\ b + h.size[b] # b + n  BY <1>0, <1>4, <2>3
    <3>2. CASE d \in Spare(h)
      <4>1. b + h.size[b] # d  BY <1>0, <3>2
      <4> QED  BY <3>1, <4>1
    <3>3. CASE d = b + n  BY <3>1, <3>3
    <3> QED  BY <1>3, <3>2, <3>3
  <2>4. CASE c # b /\ c # b + n
    <3>1. c \in Spare(h) /\ t[c] = h.size[c]  BY <1>3, <2>4
    <3>2. CASE d \in Spare(h)  BY <1>0, <3>1, <3>2
    <3>3. CASE d = b + n
      <4>1. b + h.size[b] <= c \/ c + h.size[c] <= b  BY <2>4, <3>1, Apart
      <4>2. c \in Nat /\ h.size[c] \in Nat  BY <1>0, <3>1
      <4> QED  BY <1>0, <1>4, <3>1, <3>3, <4>1, <4>2
    <3> QED  BY <1>3, <3>2, <3>3
  <2> QED  BY <2>2, <2>3, <2>4
<1>10. HeapInv(g, held \cup {taken})
  <2>1. g.end + Gap <= Limit  BY <1>0, <1>1
  <2>2. \A c, d \in Spare(g) : EndOf(g, c) # d  BY <1>1, <1>9 DEF EndOf
  <2> QED  BY <1>1, <1>6, <1>8, <2>1, <2>2 DEF HeapInv
<1> QED  BY <1>2, <1>5, <1>10 DEF g

(* A new heap from its parts. *)
LEMMA Parts ==
    ASSUME NEW end, NEW s \in Seq(Nat), NEW t, NEW held, Rising(s),
           held \cap ToSet(s) = {}, Tiles(held \cup ToSet(s), t, end),
           \A b, c \in ToSet(s) : b + t[b] # c, end + Gap <= Limit
    PROVE  HeapInv([end |-> end, free |-> s, size |-> t], held)
<1> DEFINE g == [end |-> end, free |-> s, size |-> t]
<1>1. g = [end |-> g.end, free |-> g.free, size |-> g.size] /\ g.end = end /\ g.free = s /\ g.size = t
  OBVIOUS
<1> HIDE DEF g
<1>2. Spare(g) = ToSet(s)  BY <1>1 DEF Spare
<1>3. HeapInv(g, held)  BY <1>1, <1>2 DEF HeapInv, EndOf
<1> QED  BY <1>3 DEF g

(* The last block of the list is the only free one that can touch the end   *)
(* of the arena, as the walk of malloc() to the last block assumes.         *)
LEMMA LastTouches ==
    ASSUME NEW h, NEW held, HeapInv(h, held)
    PROVE  /\ \A c \in Spare(h) : c + h.size[c] = h.end => AtEnd(h) /\ c = Last(h.free)
           /\ AtEnd(h) => /\ h.free # << >> /\ Last(h.free) \in Spare(h)
                          /\ Last(h.free) + h.size[Last(h.free)] = h.end
           /\ h.free # << >> => \A c \in Spare(h) : c <= Last(h.free)
<1> DEFINE n == Len(h.free)
<1>1. /\ h.free \in Seq(Nat) /\ DOMAIN h.free = 1 .. n /\ n \in Nat
      /\ Last(h.free) = h.free[n]
      /\ \A i \in DOMAIN h.free : h.free[i] \in Nat /\ h.free[i] \in Spare(h)
      /\ \A i, j \in DOMAIN h.free : i < j => h.free[i] < h.free[j]
      /\ \A b \in Spare(h) : h.size[b] \in Nat /\ h.size[b] >= 2 /\ b + h.size[b] <= h.end /\ b \in Nat
      /\ \A b, c \in Spare(h) : b < c => b + h.size[b] <= c
      /\ \A c \in Spare(h) : \E i \in DOMAIN h.free : c = h.free[i]
  <2>1. \A c \in Spare(h) : \E i \in DOMAIN h.free : c = h.free[i]  BY DEF Spare, ToSet
  <2>2. \A b \in Spare(h) : h.size[b] \in Nat /\ h.size[b] >= Entry /\ b + h.size[b] <= h.end /\ b \in Nat
    BY Facts
  <2>3. \A b, c \in Spare(h) : b < c => b + h.size[b] <= c  BY Facts
  <2>4. \A b \in Spare(h) : h.size[b] >= 2
    <3>1. \A b \in Spare(h) : h.size[b] \in Nat /\ h.size[b] >= Entry  BY <2>2
    <3> QED  BY <3>1, Sizes
  <2>5. \A i \in DOMAIN h.free : h.free[i] \in Nat /\ h.free[i] \in Spare(h)  BY Facts
  <2>6. \A i, j \in DOMAIN h.free : i < j => h.free[i] < h.free[j]  BY Facts
  <2>7. h.free \in Seq(Nat) /\ DOMAIN h.free = 1 .. n /\ n \in Nat  BY Facts
  <2> HIDE DEF n
  <2> QED  BY <2>1, <2>2, <2>3, <2>4, <2>5, <2>6, <2>7 DEF Last, n
<1> HIDE DEF n
<1>2. h.free # << >> => n \in DOMAIN h.free  BY <1>1 DEF n
<1>3. ASSUME NEW c \in Spare(h)  PROVE h.free # << >> /\ c <= Last(h.free)
  <2>1. PICK i \in DOMAIN h.free : c = h.free[i]  BY <1>1
  <2>2. n \in DOMAIN h.free /\ i \in 1 .. n  BY <1>1, <2>1
  <2>3. h.free # << >>  BY <1>1, <2>2 DEF n
  <2>4. i < n => c < h.free[n]  BY <1>1, <2>1, <2>2
  <2> QED  BY <1>1, <2>1, <2>2, <2>3, <2>4
<1>4. ASSUME NEW c \in Spare(h), c + h.size[c] = h.end  PROVE AtEnd(h) /\ c = Last(h.free)
  <2>1. h.free # << >> /\ c <= Last(h.free) /\ Last(h.free) \in Spare(h)  BY <1>1, <1>2, <1>3
  <2>2. c = Last(h.free)
    <3> DEFINE l == Last(h.free)
    <3>1. l \in Nat /\ c \in Nat /\ h.size[l] \in Nat /\ h.size[l] >= 2 /\ l + h.size[l] <= h.end /\ c <= l
          /\ (c < l => h.end <= l) /\ l \in Spare(h) /\ h.size[c] \in Nat
      BY <1>1, <1>4, <2>1
    <3> HIDE DEF l
    <3>2. h.end \in Nat  BY <3>1, <1>4
    <3>3. ~(c < l)  BY <3>1, <3>2
    <3>4. c = l  BY <3>1, <3>3
    <3> QED  BY <3>4 DEF l
  <2> QED  BY <1>4, <2>1, <2>2 DEF AtEnd, EndOf
<1>5. AtEnd(h) => /\ h.free # << >> /\ Last(h.free) \in Spare(h)
                  /\ Last(h.free) + h.size[Last(h.free)] = h.end
  BY <1>1, <1>2 DEF AtEnd, EndOf
<1> QED  BY <1>3, <1>4, <1>5

(* The last free block grows, and is taken or not. *)
LEMMA GrowLast ==
    ASSUME NEW h, NEW held, HeapInv(h, held), AtEnd(h),
           NEW n \in Nat, n >= h.size[Last(h.free)], Last(h.free) + n + Gap <= Limit,
           NEW t, held \cup Spare(h) \subseteq DOMAIN t, t[Last(h.free)] = n,
           \A c \in held \cup Spare(h) : c # Last(h.free) => t[c] = h.size[c]
    PROVE  /\ HeapInv([end |-> Last(h.free) + n, free |-> h.free, size |-> t], held)
           /\ Last(h.free) \in Nat /\ Last(h.free) \notin held
           /\ HeapInv([end |-> Last(h.free) + n, free |-> Front(h.free), size |-> t],
                      held \cup {Last(h.free)})
<1> DEFINE U == held \cup Spare(h)
           z == h.size
           e == h.end
           b == Last(h.free)
           s == h.free
<1>0. /\ s \in Seq(Nat) /\ Rising(s) /\ s # << >> /\ held \cap Spare(h) = {} /\ Spare(h) = ToSet(s)
      /\ b \in Spare(h) /\ b \in U /\ b + z[b] = e /\ \A c \in Spare(h) : c <= b
      /\ \A c \in U : c \in Nat /\ z[c] \in Nat
      /\ \A c, d \in Spare(h) : c + z[c] # d
      /\ Tiles(U, z, e) /\ Gap \in Nat /\ Limit \in Nat /\ Entry \in Nat /\ Entry >= 2
      /\ z[b] >= Entry
  BY Facts, LastTouches, Sizes DEF Spare
<1>1. \A c \in U : c # b => t[c] = z[c]  OBVIOUS
<1>2. U \subseteq DOMAIN t /\ t[b] = n /\ n >= z[b] /\ b + n + Gap <= Limit  OBVIOUS
<1> HIDE DEF z, e, b, s
<1>3. Tiles(U, t, b + n)
  <2> HIDE DEF U
  <2> QED  BY <1>0, <1>1, <1>2, Grow
<1>4. ASSUME NEW c \in Spare(h), NEW d \in Spare(h)  PROVE c + t[c] # d
  <2>1. CASE c # b  BY <1>0, <1>1, <2>1
  <2>2. CASE c = b
    <3>1. d <= b /\ d \in Nat /\ b \in Nat /\ n >= 2 /\ t[c] = n /\ z[b] \in Nat  BY <1>0, <1>2, <2>2
    <3> QED  BY <3>1, <2>2
  <2> QED  BY <2>1, <2>2
<1>5. HeapInv([end |-> b + n, free |-> s, size |-> t], held)
  BY <1>0, <1>2, <1>3, <1>4, Parts
<1>6. Front(s) \in Seq(Nat) /\ Rising(Front(s)) /\ ToSet(Front(s)) = Spare(h) \ {b}
  BY <1>0, Shortened DEF b, s
<1>7. HeapInv([end |-> b + n, free |-> Front(s), size |-> t], held \cup {b})
  <2>1. (held \cup {b}) \cup ToSet(Front(s)) = U /\ (held \cup {b}) \cap ToSet(Front(s)) = {}  BY <1>0, <1>6
  <2>2. \A c, d \in ToSet(Front(s)) : c + t[c] # d  BY <1>4, <1>6
  <2> HIDE DEF U
  <2> QED  BY <1>2, <1>3, <1>6, <2>1, <2>2, Parts
<1> QED  BY <1>0, <1>5, <1>7 DEF b, s

(* A block of n bytes is added at the end e; t are the sizes then.          *)
AddsLast(h, held, e, n, t) ==
    /\ HeapInv(h, held) /\ e = h.end /\ n \in Nat /\ n >= Entry /\ e + n + Gap <= Limit
    /\ held \cup Spare(h) \cup {e} \subseteq DOMAIN t /\ t[e] = n
    /\ \A c \in held \cup Spare(h) : c # e => t[c] = h.size[c]

(* A block added at the end, before it is held or linked in.                *)
LEMMA AddTiles ==
    ASSUME NEW h, NEW held, NEW e, NEW n, NEW t, AddsLast(h, held, e, n, t)
    PROVE  /\ h.free \in Seq(Nat) /\ Rising(h.free) /\ held \cap Spare(h) = {} /\ Spare(h) = ToSet(h.free)
           /\ e \in Nat /\ e \notin held \cup Spare(h) /\ \A c \in held \cup Spare(h) : c \in Nat /\ c < e
           /\ Tiles(held \cup Spare(h) \cup {e}, t, e + n)
           /\ \A c, d \in Spare(h) : c + t[c] # d
           /\ ~AtEnd(h) => \A c \in Spare(h) : c + t[c] # e
<1> DEFINE U == held \cup Spare(h)
           z == h.size
<1>0. /\ HeapInv(h, held) /\ e = h.end /\ n \in Nat /\ n >= Entry /\ t[e] = n
      /\ U \cup {e} \subseteq DOMAIN t /\ \A c \in U : c # e => t[c] = z[c]
  BY DEF AddsLast
<1>1. /\ h.free \in Seq(Nat) /\ Rising(h.free) /\ held \cap Spare(h) = {} /\ Spare(h) = ToSet(h.free)
      /\ (\A c, d \in Spare(h) : c + z[c] # d) /\ Tiles(U, z, e) /\ e \in Nat
  BY <1>0, Facts DEF Spare
<1>2. \A c \in U : c \in Nat /\ c < e
  <2>1. \A c \in U : c \in Nat /\ z[c] \in Nat /\ z[c] >= Entry /\ c + z[c] <= e  BY <1>0, Facts
  <2> HIDE DEF U, z
  <2> QED  BY <1>1, <2>1, Sizes
<1>3. U \cup {e} \subseteq DOMAIN t /\ \A c \in U : t[c] = z[c]
  <2>1. \A c \in U : c # e  BY <1>2
  <2> QED  BY <1>0, <2>1
<1>4. e \notin U /\ Tiles(U \cup {e}, t, e + n)
  <2>1. t[e] = n /\ n \in Nat /\ n >= Entry  BY <1>0
  <2>2. Tiles(U, z, e)  BY <1>1
  <2> HIDE DEF U, z
  <2> QED  BY <1>3, <2>1, <2>2, Extend
<1>5. ~AtEnd(h) => \A c \in Spare(h) : c + z[c] # e  BY <1>0, LastTouches
<1>6. (\A c, d \in Spare(h) : c + t[c] # d) /\ (~AtEnd(h) => \A c \in Spare(h) : c + t[c] # e)
  BY <1>1, <1>3, <1>5
<1> HIDE DEF z
<1> QED  BY <1>1, <1>2, <1>4, <1>6

(* A block added at the end and handed out.                                 *)
LEMMA AddTaken ==
    ASSUME NEW h, NEW held, NEW e, NEW n, NEW t, AddsLast(h, held, e, n, t)
    PROVE  /\ e \in Nat /\ e \notin held \cup Spare(h)
           /\ HeapInv([end |-> e + n, free |-> h.free, size |-> t], held \cup {e})
<1> DEFINE s == h.free
           k == held \cup {e}
           m == e + n
<1>1. /\ s \in Seq(Nat) /\ Rising(s) /\ held \cap Spare(h) = {} /\ Spare(h) = ToSet(s)
      /\ e \in Nat /\ e \notin held \cup Spare(h)
      /\ Tiles(held \cup Spare(h) \cup {e}, t, m)
      /\ \A c, d \in Spare(h) : c + t[c] # d
  BY AddTiles
<1>2. k \cup ToSet(s) = held \cup Spare(h) \cup {e} /\ k \cap ToSet(s) = {}  BY <1>1
<1>3. m + Gap <= Limit  BY DEF AddsLast
<1> HIDE DEF s, k, m
<1>4. HeapInv([end |-> m, free |-> s, size |-> t], k)  BY <1>1, <1>2, <1>3, Parts
<1> QED  BY <1>1, <1>4 DEF s, k, m

(* A block added at the end and linked in as the last, which only the       *)
(* case ~AtEnd may do: the blocks would touch otherwise.                    *)
LEMMA AddFree ==
    ASSUME NEW h, NEW held, NEW e, NEW n, NEW t, AddsLast(h, held, e, n, t),
           ~AtEnd(h)
    PROVE  /\ HeapInv([end |-> e + n, free |-> Append(h.free, e), size |-> t], held)
           /\ AtEnd([end |-> e + n, free |-> Append(h.free, e), size |-> t])
           /\ Last(Append(h.free, e)) = e
<1> DEFINE a == Append(h.free, e)
           m == e + n
           F == Spare(h)
<1>1. /\ h.free \in Seq(Nat) /\ Rising(h.free) /\ held \cap F = {} /\ F = ToSet(h.free)
      /\ e \in Nat /\ e \notin held \cup F /\ \A c \in held \cup F : c \in Nat /\ c < e
      /\ Tiles(held \cup F \cup {e}, t, m)
      /\ (\A c, d \in F : c + t[c] # d) /\ \A c \in F : c + t[c] # e
  BY AddTiles
<1>2. a \in Seq(Nat) /\ Rising(a) /\ ToSet(a) = F \cup {e}
  <2>1. \A x \in ToSet(h.free) : x < e  BY <1>1
  <2> HIDE DEF F
  <2> QED  BY <1>1, <2>1, Appended
<1>3. a # << >> /\ Last(a) = e  BY <1>1, AppendProperties DEF Last
<1>4. ASSUME NEW c \in F \cup {e}, NEW d \in F \cup {e}  PROVE c + t[c] # d
  <2>1. CASE c \in F  BY <1>1, <2>1
  <2>2. CASE c = e
    <3>1. d \in Nat /\ d <= e /\ n \in Nat /\ n >= 2 /\ t[c] = n  BY <1>1, <2>2, Sizes DEF AddsLast
    <3> QED  BY <1>1, <2>2, <3>1
  <2> QED  BY <2>1, <2>2
<1>5. t[e] = n /\ m = e + n /\ m + Gap <= Limit /\ n \in Nat /\ n >= Entry  BY DEF AddsLast
<1> HIDE DEF a, m, F
<1>6. held \cup ToSet(a) = held \cup F \cup {e} /\ held \cap ToSet(a) = {}  BY <1>1, <1>2
<1>7. HeapInv([end |-> m, free |-> a, size |-> t], held)
  <2>1. \A c, d \in ToSet(a) : c + t[c] # d  BY <1>2, <1>4
  <2> QED  BY <1>1, <1>2, <1>5, <1>6, <2>1, Parts
<1>8. AtEnd([end |-> m, free |-> a, size |-> t])  BY <1>3, <1>5 DEF AtEnd, EndOf
<1> QED  BY <1>3, <1>7, <1>8 DEF a, m

(* What is known when a block b that is held is given back. *)
LEMMA Given ==
    ASSUME NEW h, NEW held, HeapInv(h, held), NEW b \in held
    PROVE  /\ h.free \in Seq(Nat) /\ Rising(h.free) /\ ToSet(h.free) = Spare(h)
           /\ held \cap Spare(h) = {} /\ b \notin Spare(h)
           /\ \A c \in held \cup Spare(h) : c \in Nat /\ h.size[c] \in Nat /\ h.size[c] >= 2
           /\ \A c, d \in Spare(h) : c + h.size[c] # d
           /\ held \cup Spare(h) \subseteq DOMAIN h.size
           /\ Tiles(held \cup Spare(h), h.size, h.end) /\ h.end + Gap <= Limit
<1>1. \A c \in held \cup Spare(h) : h.size[c] >= 2
  <2>1. \A c \in held \cup Spare(h) : h.size[c] \in Nat /\ h.size[c] >= Entry  BY Facts
  <2> QED  BY <2>1, Sizes
<1>2. ToSet(h.free) = Spare(h)  BY DEF Spare
<1> QED  BY <1>1, <1>2, Facts
-----------------------------------------------------------------------------
(* free() links a block in that touches no free block.                      *)
LEMMA LinkFreed ==
    ASSUME NEW h, NEW held, HeapInv(h, held), NEW b \in held,
           \A c \in Spare(h) : c + h.size[c] # b /\ b + h.size[b] # c,
           NEW s \in Seq(Nat), Rising(s), ToSet(s) = Spare(h) \cup {b}
    PROVE  HeapInv([end |-> h.end, free |-> s, size |-> h.size], held \ {b})
<1> DEFINE F == Spare(h)
           z == h.size
           e == h.end
<1>0. /\ held \cap F = {} /\ b \notin F
      /\ \A c \in held \cup F : c \in Nat /\ z[c] \in Nat /\ z[c] >= 2
      /\ \A c, d \in F : c + z[c] # d
      /\ Tiles(held \cup F, z, e) /\ e + Gap <= Limit
  BY Given
<1>1. \A c \in F : c + z[c] # b /\ b + z[b] # c  OBVIOUS
<1>2. ToSet(s) = F \cup {b}  OBVIOUS
<1> HIDE DEF F, z, e
<1>3. (held \ {b}) \cup ToSet(s) = held \cup F /\ (held \ {b}) \cap ToSet(s) = {}  BY <1>0, <1>2
<1>4. \A c, d \in ToSet(s) : c + z[c] # d
  <2>1. b + z[b] # b  BY <1>0
  <2> QED  BY <1>0, <1>1, <1>2, <2>1
<1>5. HeapInv([end |-> e, free |-> s, size |-> z], held \ {b})  BY <1>0, <1>3, <1>4, Parts
<1> QED  BY <1>5 DEF z, e

(* free() merges a block with the free block below it.                      *)
LEMMA JoinBelow ==
    ASSUME NEW h, NEW held, HeapInv(h, held), NEW b \in held, NEW a \in Spare(h),
           a + h.size[a] = b, \A c \in Spare(h) : b + h.size[b] # c,
           NEW t, (held \cup Spare(h)) \ {b} \subseteq DOMAIN t, t[a] = h.size[a] + h.size[b],
           \A c \in held \cup Spare(h) : c # a /\ c # b => t[c] = h.size[c]
    PROVE  HeapInv([end |-> h.end, free |-> h.free, size |-> t], held \ {b})
<1> DEFINE F == Spare(h)
           U == held \cup F
           z == h.size
           e == h.end
           s == h.free
<1>0. /\ held \cap F = {} /\ b \notin F /\ s \in Seq(Nat) /\ Rising(s) /\ ToSet(s) = F
      /\ \A c \in U : c \in Nat /\ z[c] \in Nat /\ z[c] >= 2
      /\ \A c, d \in F : c + z[c] # d
      /\ Tiles(U, z, e) /\ e + Gap <= Limit
  BY Given
<1>1. /\ a \in F /\ a \in U /\ a + z[a] = b /\ \A c \in F : b + z[b] # c
      /\ U \ {b} \subseteq DOMAIN t /\ t[a] = z[a] + z[b]
      /\ \A c \in U : c # a /\ c # b => t[c] = z[c]
  OBVIOUS
<1> HIDE DEF z, e, s, F
<1>2. Tiles(U \ {b}, t, e)
  <2>1. b \in U  OBVIOUS
  <2>2. \A c \in U \ {a, b} : t[c] = z[c]  BY <1>1
  <2> HIDE DEF U
  <2> QED  BY <1>0, <1>1, <2>1, <2>2, Merge
<1>3. (held \ {b}) \cup ToSet(s) = U \ {b} /\ (held \ {b}) \cap ToSet(s) = {}  BY <1>0
<1>4. ASSUME NEW c \in F, NEW d \in F  PROVE c + t[c] # d
  <2>1. CASE c # a  BY <1>0, <1>1, <2>1
  <2>2. CASE c = a
    <3>1. a + t[a] = b + z[b]
      <4>1. a \in Nat /\ b \in Nat /\ z[a] \in Nat /\ z[b] \in Nat  BY <1>0, <1>1
      <4> QED  BY <1>1, <4>1
    <3> QED  BY <1>1, <2>2, <3>1
  <2> QED  BY <2>1, <2>2
<1>5. HeapInv([end |-> e, free |-> s, size |-> t], held \ {b})
  <2> HIDE DEF U
  <2> QED  BY <1>0, <1>2, <1>3, <1>4, Parts
<1> QED  BY <1>5 DEF e, s

(* free() merges a block with the free block above it, which gives up its   *)
(* place in the list.                                                       *)
LEMMA JoinAbove ==
    ASSUME NEW h, NEW held, HeapInv(h, held), NEW b \in held, NEW d \in Spare(h),
           b + h.size[b] = d, \A c \in Spare(h) : c + h.size[c] # b,
           NEW t, (held \cup Spare(h)) \ {d} \subseteq DOMAIN t, t[b] = h.size[b] + h.size[d],
           \A c \in held \cup Spare(h) : c # b /\ c # d => t[c] = h.size[c],
           NEW s \in Seq(Nat), Rising(s), ToSet(s) = (Spare(h) \ {d}) \cup {b}
    PROVE  HeapInv([end |-> h.end, free |-> s, size |-> t], held \ {b})
<1> DEFINE F == Spare(h)
           U == held \cup F
           z == h.size
           e == h.end
<1>0. /\ held \cap F = {} /\ b \notin F /\ ToSet(s) = (F \ {d}) \cup {b}
      /\ \A c \in U : c \in Nat /\ z[c] \in Nat /\ z[c] >= 2
      /\ \A c, x \in F : c + z[c] # x
      /\ Tiles(U, z, e) /\ e + Gap <= Limit
  BY Given
<1>1. /\ d \in F /\ d \in U /\ b + z[b] = d /\ \A c \in F : c + z[c] # b
      /\ U \ {d} \subseteq DOMAIN t /\ t[b] = z[b] + z[d]
      /\ \A c \in U : c # b /\ c # d => t[c] = z[c]
  OBVIOUS
<1> HIDE DEF z, e, F
<1>2. Tiles(U \ {d}, t, e)
  <2>1. b \in U  OBVIOUS
  <2>2. \A c \in U \ {b, d} : t[c] = z[c]  BY <1>1
  <2> HIDE DEF U
  <2> QED  BY <1>0, <1>1, <2>1, <2>2, Merge
<1>3. (held \ {b}) \cup ToSet(s) = U \ {d} /\ (held \ {b}) \cap ToSet(s) = {}  BY <1>0, <1>1
<1>4. ASSUME NEW c \in ToSet(s), NEW x \in ToSet(s)  PROVE c + t[c] # x
  <2>1. CASE c # b
    <3>1. c \in F /\ c # d /\ t[c] = z[c]  BY <1>0, <1>1, <2>1
    <3> QED  BY <1>0, <1>1, <3>1
  <2>2. CASE c = b
    <3>1. b + t[b] = d + z[d] /\ b + t[b] # b
      <4>1. d \in Nat /\ b \in Nat /\ z[d] \in Nat /\ z[b] \in Nat /\ z[b] >= 2  BY <1>0, <1>1
      <4> QED  BY <1>1, <4>1
    <3> QED  BY <1>0, <1>1, <2>2, <3>1
  <2> QED  BY <2>1, <2>2
<1>5. HeapInv([end |-> e, free |-> s, size |-> t], held \ {b})
  <2> HIDE DEF U
  <2> QED  BY <1>0, <1>2, <1>3, <1>4, Parts
<1> QED  BY <1>5 DEF e

(* free() merges a block with the free blocks on both sides of it.          *)
LEMMA JoinBoth ==
    ASSUME NEW h, NEW held, HeapInv(h, held), NEW b \in held, NEW a \in Spare(h), NEW d \in Spare(h),
           a + h.size[a] = b, b + h.size[b] = d,
           NEW t, (held \cup Spare(h)) \ {b, d} \subseteq DOMAIN t,
           t[a] = h.size[a] + h.size[b] + h.size[d],
           \A c \in held \cup Spare(h) : c # a /\ c # b /\ c # d => t[c] = h.size[c],
           NEW s \in Seq(Nat), Rising(s), ToSet(s) = Spare(h) \ {d}
    PROVE  HeapInv([end |-> h.end, free |-> s, size |-> t], held \ {b})
<1> DEFINE F == Spare(h)
           U == held \cup F
           z == h.size
           e == h.end
           m == Put(z, a, z[a] + z[b])
<1>0. /\ held \cap F = {} /\ b \notin F /\ ToSet(s) = F \ {d}
      /\ \A c \in U : c \in Nat /\ z[c] \in Nat /\ z[c] >= 2
      /\ \A c, x \in F : c + z[c] # x
      /\ Tiles(U, z, e) /\ e + Gap <= Limit /\ U \subseteq DOMAIN z
  BY Given
<1>1. /\ d \in F /\ a \in F /\ a + z[a] = b /\ b + z[b] = d
      /\ U \ {b, d} \subseteq DOMAIN t /\ t[a] = z[a] + z[b] + z[d]
      /\ \A c \in U : c # a /\ c # b /\ c # d => t[c] = z[c]
  OBVIOUS
<1> HIDE DEF z, e, F
<1>2. /\ DOMAIN m = DOMAIN z \cup {a} /\ m[a] = z[a] + z[b]
      /\ \A c \in DOMAIN z : c # a => m[c] = z[c]
  BY DEF Put
<1>3. /\ a \in Nat /\ b \in Nat /\ d \in Nat /\ z[a] \in Nat /\ z[b] \in Nat /\ z[d] \in Nat
      /\ z[a] >= 2 /\ z[b] >= 2 /\ a \in U /\ b \in U /\ d \in U /\ b \notin F
  BY <1>0, <1>1
<1>4. a # b /\ b # d /\ a # d  BY <1>1, <1>3
<1>10. a + (z[a] + z[b]) = d /\ a + (z[a] + z[b] + z[d]) = d + z[d]
  <2> DEFINE p == z[a]
             q == z[b]
             r == z[d]
  <2>1. a + p = b /\ b + q = d /\ p \in Nat /\ q \in Nat /\ r \in Nat /\ a \in Nat  BY <1>1, <1>3
  <2> HIDE DEF p, q, r
  <2>2. a + (p + q) = d /\ a + (p + q + r) = d + r  BY <2>1
  <2> QED  BY <2>2 DEF p, q, r
<1> HIDE DEF m
<1>5. Tiles(U \ {b}, m, e)
  <2>1. (\A c \in U \ {a, b} : m[c] = z[c]) /\ U \ {b} \subseteq DOMAIN m  BY <1>0, <1>2
  <2> HIDE DEF U
  <2> QED  BY <1>0, <1>1, <1>2, <1>3, <2>1, Merge
<1>6. Tiles((U \ {b}) \ {d}, t, e)
  <2> DEFINE V == U \ {b}
  <2>1. /\ a + m[a] = d /\ a \in V /\ d \in V /\ V \ {d} \subseteq DOMAIN t
        /\ t[a] = m[a] + m[d] /\ \A c \in V \ {a, d} : t[c] = m[c]
    <3>1. a + m[a] = d  BY <1>2, <1>10
    <3>2. a \in V /\ d \in V /\ V \ {d} \subseteq DOMAIN t /\ V \subseteq DOMAIN z
      BY <1>0, <1>1, <1>3, <1>4
    <3>3. m[d] = z[d] /\ t[a] = m[a] + m[d]  BY <1>0, <1>1, <1>2, <1>3, <1>4
    <3>4. \A c \in V \ {a, d} : t[c] = m[c]  BY <1>0, <1>1, <1>2
    <3> QED  BY <3>1, <3>2, <3>3, <3>4
  <2> HIDE DEF U, V
  <2>2. Tiles(V, m, e)  BY <1>5 DEF V
  <2>3. Tiles(V \ {d}, t, e)  BY <2>1, <2>2, Merge
  <2> QED  BY <2>3 DEF V
<1>7. (held \ {b}) \cup ToSet(s) = (U \ {b}) \ {d} /\ (held \ {b}) \cap ToSet(s) = {}  BY <1>0, <1>1
<1>8. ASSUME NEW c \in ToSet(s), NEW x \in ToSet(s)  PROVE c + t[c] # x
  <2>1. CASE c # a
    <3>1. c \in F /\ c # d /\ c # b /\ t[c] = z[c] /\ x \in F  BY <1>0, <1>1, <2>1
    <3> QED  BY <1>0, <1>1, <3>1
  <2>2. CASE c = a
    <3>1. a + t[a] = d + z[d]  BY <1>1, <1>10
    <3> QED  BY <1>0, <1>1, <2>2, <3>1
  <2> QED  BY <2>1, <2>2
<1>9. HeapInv([end |-> e, free |-> s, size |-> t], held \ {b})
  <2> HIDE DEF U
  <2> QED  BY <1>0, <1>6, <1>7, <1>8, Parts
<1> QED  BY <1>9 DEF e
-----------------------------------------------------------------------------
(* A multiple leaves no remainder.                                          *)
LEMMA Multiple ==
    ASSUME NEW q \in Int, NEW a \in Nat \ {0}
    PROVE  (a * q) % a = 0
OBVIOUS

(* The quotient and the remainder.                                          *)
LEMMA Division ==
    ASSUME NEW x \in Int, NEW a \in Nat \ {0}
    PROVE  x = a * (x \div a) + (x % a) /\ x \div a \in Int /\ x % a \in 0 .. a - 1
OBVIOUS

(* M_ALIGN(x, a) is what x lacks of a multiple of a.                        *)
LEMMA Aligned ==
    ASSUME NEW x \in Int, NEW a \in Nat \ {0}
    PROVE  (x + M_ALIGN(x, a)) % a = 0
<1> DEFINE q == -((-x) \div a)
<1>1. q \in Int /\ x + M_ALIGN(x, a) = a * q  BY Division DEF M_ALIGN
<1> HIDE DEF q
<1> QED  BY <1>1, Multiple

(* The first of some places of a list is one of them: the minimum exists.   *)
LEMMA FirstOf ==
    ASSUME NEW n \in Nat, NEW S \in SUBSET (1 .. n), S # {}
    PROVE  Min(S) \in S /\ \A y \in S : Min(S) <= y
<1> DEFINE Below(x) == { z \in S : z < x }
           T == { Below(x) : x \in S }
<1>1. \A V \in SUBSET S : IsFiniteSet(V)
  <2>1. IsFiniteSet(1 .. n)  BY FS_Interval
  <2> QED  BY <2>1, FS_Subset
<1>2. T \subseteq FiniteSubsetsOf(S) /\ T # {}
  <2>1. \A x \in S : Below(x) \in SUBSET S  OBVIOUS
  <2>2. \A x \in S : Below(x) \in FiniteSubsetsOf(S)  BY <1>1, <2>1 DEF FiniteSubsetsOf
  <2> QED  BY <2>2
<1>3. PICK U \in T : \A V \in T : ~(<<V, U>> \in StrictSubsetOrdering(S))
  <2> HIDE DEF T
  <2> QED  BY <1>2, FS_StrictSubsetOrderingWellFounded, WFMin
<1>4. PICK x \in S : U = Below(x)  BY <1>3
<1>5. ASSUME NEW y \in S, y < x  PROVE FALSE
  <2>1. Below(y) \in T  OBVIOUS
  <2>2. Below(y) \subseteq Below(x) /\ y \in Below(x) /\ y \notin Below(y)
    <3>1. x \in Int /\ y \in Int /\ S \subseteq Int  BY <1>4
    <3>2. y \in Below(x) /\ y \notin Below(y)  BY <1>5, <3>1
    <3>3. ASSUME NEW z \in Below(y) PROVE z \in Below(x)
      <4>1. z \in S /\ z < y /\ z \in Int BY <3>1
      <4> HIDE DEF T
      <4>2. z < x BY <4>1, <1>5, <3>1
      <4> QED BY <4>1, <4>2
    <3> QED  BY <3>2, <3>3
  <2>3. <<Below(y), U>> \in StrictSubsetOrdering(S)  BY <1>4, <2>2 DEF StrictSubsetOrdering
  <2> QED  BY <1>3, <2>1, <2>3
<1>6. \A y \in S : x <= y  BY <1>5
<1> QED  BY <1>6 DEF Min

(* M_ALIGN is less than the alignment.                                      *)
LEMMA Padding ==
    ASSUME NEW x \in Int, NEW a \in Nat \ {0}
    PROVE  M_ALIGN(x, a) \in 0 .. a - 1
BY DEF M_ALIGN

(* CAN_ALLOC_P never wraps while the gap is kept, so it admits only what    *)
(* keeps the gap.                                                           *)
LEMMA CanAlloc ==
    ASSUME NEW h, NEW held, HeapInv(h, held), NEW m \in Int, CAN_ALLOC_P(h, m)
    PROVE  h.end + m + Gap <= Limit
<1> DEFINE x == Limit - h.end - Gap
<1>1. x \in Int /\ 0 <= x /\ x < AddressSpace /\ AddressSpace \in Nat /\ h.end \in Nat
  <2> DEFINE e == h.end
  <2>1. e \in Nat /\ Start <= e /\ e + Gap <= Limit  BY Facts
  <2> HIDE DEF e
  <2>2. Limit - e - Gap \in Int /\ 0 <= Limit - e - Gap /\ Limit - e - Gap < AddressSpace /\ AddressSpace \in Nat
    BY <2>1, Sizes, HeapAssumption
  <2> QED  BY <2>1, <2>2 DEF e
<1>2. x % AddressSpace >= m  BY DEF CAN_ALLOC_P
<1>3. x = Limit - h.end - Gap  OBVIOUS
<1> HIDE DEF x
<1>4. x % AddressSpace = x  BY <1>1
<1> QED  BY <1>1, <1>2, <1>3, <1>4, Sizes

(* REAL_SIZE counts the header and can hold a free list entry, for a size   *)
(* whose sum with the header does not wrap.                                 *)
LEMMA RealSize ==
    ASSUME NEW sz \in Nat, sz + Entry <= AddressSpace
    PROVE  REAL_SIZE(sz) \in Nat /\ REAL_SIZE(sz) >= Entry /\ REAL_SIZE(sz) >= sz + Word
<1> DEFINE m == M_ALIGN(sz, Word)
<1>1. Word \in Nat \ {0} /\ Entry = 2 * Word /\ AddressSpace \in Nat  BY Sizes, HeapAssumption
<1>2. m \in 0 .. Word - 1  BY <1>1, Padding
<1>3. REAL_SIZE(sz) = IF sz < Entry - Word THEN Entry ELSE (sz + Word + m) % AddressSpace
  BY DEF REAL_SIZE
<1> HIDE DEF m
<1>4. sz + Word + m \in Nat /\ sz + Word + m < AddressSpace  BY <1>1, <1>2
<1>5. (sz + Word + m) % AddressSpace = sz + Word + m  BY <1>1, <1>4
<1> QED  BY <1>1, <1>2, <1>3, <1>4, <1>5

(* Where b belongs in the free list, as free() finds it. *)
LEMMA FreeServes ==
    ASSUME NEW h, NEW held, HeapInv(h, held), NEW b \in held
    PROVE  HeapInv(free(h, b), held \ {b}) /\ Keeps(h, free(h, b), held \ {b})
<1> DEFINE n == Len(h.free)
           s == h.free
           z == h.size
           F == Spare(h)
           stops == {i \in DOMAIN s : EndOf(h, s[i]) = b \/ s[i] > b}
           i == Min(stops)
           this == s[i]
           next == s[i + 1]
<1>1. /\ DOMAIN s = 1 .. n /\ n \in Nat /\ s \in Seq(Nat) /\ Rising(s) /\ ToSet(s) = F
      /\ \A j \in 1 .. n : s[j] \in F
      /\ \A j, k \in 1 .. n : j < k => s[j] < s[k]
      /\ \A c \in F : \E j \in 1 .. n : c = s[j]
  <2>1. ToSet(s) = F  BY DEF Spare
  <2>2. DOMAIN s = 1 .. n /\ n \in Nat /\ s \in Seq(Nat) /\ Rising(s)  BY Facts
  <2>3. \A c \in F : \E j \in 1 .. n : c = s[j]  BY <2>2 DEF Spare, ToSet
  <2>4. /\ DOMAIN h.free = 1 .. Len(h.free)
        /\ \A j \in DOMAIN h.free : h.free[j] \in Spare(h)
        /\ \A j, k \in DOMAIN h.free : j < k => h.free[j] < h.free[k]
    BY Facts
  <2> QED  BY <2>1, <2>2, <2>3, <2>4
<1>2. /\ held \cap F = {} /\ b \notin F
      /\ \A c \in held \cup F : c \in Nat /\ z[c] \in Nat /\ z[c] >= 2
      /\ held \cup F \subseteq DOMAIN z
      /\ \A c \in held \cup F, d \in held \cup F : c < d => c + z[c] <= d
  <2>1. \A c \in held \cup F, d \in held \cup F : c < d => c + z[c] <= d  BY Facts
  <2> QED  BY <2>1, Given
<1>3. b \in Nat /\ z[b] \in Nat /\ z[b] >= 2 /\ b + z[b] > b
  <2>1. b \in Nat /\ z[b] \in Nat /\ z[b] >= 2  BY <1>2
  <2> QED  BY <2>1
<1>4. h = [end |-> h.end, free |-> s, size |-> z]  BY Facts
<1>5. stops \subseteq 1 .. n /\ \A j \in 1 .. n : j \in stops <=> (s[j] + z[s[j]] = b \/ s[j] > b)
  BY <1>1 DEF EndOf
<1>6. stops # {} => i \in 1 .. n /\ i \in stops /\ \A j \in stops : i <= j
  <2> HIDE DEF n, s, stops
  <2> QED  BY <1>1, <1>5, FirstOf
<1>7. \A c \in F : c # b /\ c \in Nat /\ z[c] \in Nat /\ z[c] >= 2 /\ c + z[c] > c
  <2> TAKE c \in F
  <2>1. c # b /\ c \in Nat /\ z[c] \in Nat /\ z[c] >= 2  BY <1>2
  <2> QED  BY <2>1
<1>8. CASE stops = {}
  <2>1. free(h, b) = [h EXCEPT !.free = Append(@, b)]  BY <1>8 DEF free
  <2>2. ASSUME NEW c \in F  PROVE c + z[c] # b /\ b + z[b] # c /\ c < b
    <3>1. PICK j \in 1 .. n : c = s[j]  BY <1>1
    <3>2. ~(c + z[c] = b \/ c > b)  BY <1>5, <1>8, <3>1
    <3>3. c \in Nat /\ c # b  BY <1>7
    <3> QED  BY <1>3, <3>2, <3>3
  <2> DEFINE a == Append(s, b)
  <2>3. a \in Seq(Nat) /\ Rising(a) /\ ToSet(a) = F \cup {b}  BY <1>1, <1>3, <2>2, Appended
  <2>4. free(h, b) = [end |-> h.end, free |-> a, size |-> h.size]  BY <1>4, <2>1
  <2> HIDE DEF a
  <2>5. HeapInv(free(h, b), held \ {b})  BY <2>2, <2>3, <2>4, LinkFreed
  <2>6. free(h, b).size = z  BY <2>4
  <2> QED  BY <2>5, <2>6 DEF Keeps
<1>9. CASE stops # {} /\ this + z[this] = b
  <2>1. i \in 1 .. n /\ this \in F /\ this \in Nat /\ this < b
    <3>1. i \in 1 .. n /\ this \in F  BY <1>1, <1>6, <1>9
    <3>2. this \in Nat /\ z[this] \in Nat /\ z[this] >= 2  BY <1>7, <3>1
    <3> HIDE DEF this
    <3> QED  BY <1>9, <3>1, <3>2
  <2>2. ASSUME NEW c \in F, b + z[b] = c  PROVE i < n /\ c = next
    <3>1. PICK j \in 1 .. n : c = s[j]  BY <1>1
    <3>2. c > b /\ c > this /\ c \in Nat  BY <1>3, <1>7, <2>1, <2>2
    <3>3. j > i
      <4>1. j < i => s[j] < this  BY <1>1, <2>1
      <4> HIDE DEF i, n, stops
      <4>2. j # i
        <5> SUFFICES ASSUME j = i  PROVE FALSE  OBVIOUS
        <5>1. c = this  BY <3>1
        <5> HIDE DEF this
        <5> QED  BY <2>1, <3>2, <5>1
      <4>3. ~(j < i)  BY <3>1, <3>2, <4>1, <2>1
      <4> QED  BY <2>1, <4>2, <4>3
    <3>4. ASSUME j > i + 1  PROVE FALSE
      <4>1. i + 1 \in 1 .. n /\ i < i + 1 /\ i + 1 < j  BY <1>1, <2>1, <3>4
      <4>2. next \in F /\ this < next /\ next < c  BY <1>1, <2>1, <3>1, <4>1
      <4>3. b <= next /\ next # b /\ next \in Nat  BY <1>2, <1>7, <1>9, <2>1, <4>2
      <4>4. b + z[b] <= next
        <5>1. b < next  BY <1>3, <4>3
        <5> QED  BY <1>2, <4>2, <5>1
      <4> QED  BY <2>2, <3>2, <4>2, <4>3, <4>4
    <3>5. j = i + 1  BY <1>1, <2>1, <3>3, <3>4
    <3> QED  BY <1>1, <2>1, <3>1, <3>5
  <2>3. CASE i < n /\ b + z[b] = next
    <3> DEFINE a == RemoveAt(s, i + 1)
               t == Forget(Put(z, this, z[this] + z[b] + z[next]), {b, next})
    <3>1. free(h, b) = [end |-> h.end, free |-> a, size |-> t]
      <4>1. free(h, b) = [h EXCEPT !.free = RemoveAt(@, i + 1),
                                   !.size = Forget(Put(@, this, @[this] + @[b] + @[next]), {b, next})]
        BY <1>9, <2>3 DEF free, EndOf
      <4> QED  BY <1>4, <4>1
    <3>2. i + 1 \in DOMAIN s /\ next \in F /\ i + 1 \in 1 .. n /\ next # this
      <4>1. i + 1 \in 1 .. n /\ i < i + 1  BY <1>1, <2>1, <2>3
      <4>2. this < next /\ next \in F  BY <1>1, <2>1, <4>1
      <4>3. next # this  BY <1>7, <2>1, <4>2
      <4> QED  BY <1>1, <4>1, <4>2, <4>3
    <3>3. a \in Seq(Nat) /\ Rising(a) /\ ToSet(a) = F \ {next}  BY <1>1, <3>2, Removed
    <3>4. /\ DOMAIN t = (DOMAIN z \cup {this}) \ {b, next}
          /\ t[this] = z[this] + z[b] + z[next]
          /\ \A c \in DOMAIN z : c # this /\ c # b /\ c # next => t[c] = z[c]
      <4>1. this # b /\ this # next  BY <1>7, <2>1, <3>2
      <4> QED  BY <4>1 DEF Forget, Restrict, Put
    <3> HIDE DEF a, t, s, i, n, stops
    <3>5. /\ (held \cup F) \ {b, next} \subseteq DOMAIN t
          /\ \A c \in held \cup F : c # this /\ c # b /\ c # next => t[c] = z[c]
      BY <1>2, <3>4
    <3>6. HeapInv(free(h, b), held \ {b})
      BY <1>9, <2>1, <2>3, <3>1, <3>2, <3>3, <3>4, <3>5, JoinBoth
    <3>7. \A c \in held \ {b} : c # this /\ c # next  BY <1>2, <2>1, <3>2
    <3> QED  BY <3>1, <3>5, <3>6, <3>7 DEF Keeps
  <2>4. CASE ~(i < n /\ b + z[b] = next)
    <3> DEFINE t == Forget(Put(z, this, z[this] + z[b]), {b})
    <3>1. free(h, b) = [end |-> h.end, free |-> s, size |-> t]
      <4>1. free(h, b) = [h EXCEPT !.size = Forget(Put(@, this, @[this] + @[b]), {b})]
        BY <1>9, <2>4 DEF free, EndOf
      <4> QED  BY <1>4, <4>1
    <3>2. /\ DOMAIN t = (DOMAIN z \cup {this}) \ {b}
          /\ t[this] = z[this] + z[b]
          /\ \A c \in DOMAIN z : c # this /\ c # b => t[c] = z[c]
      <4>1. this # b  BY <1>7, <2>1
      <4> QED  BY <4>1 DEF Forget, Restrict, Put
    <3>3. \A c \in F : b + z[b] # c  BY <2>2, <2>4
    <3> HIDE DEF t, i, n, stops
    <3>4. /\ (held \cup F) \ {b} \subseteq DOMAIN t
          /\ \A c \in held \cup F : c # this /\ c # b => t[c] = z[c]
      BY <1>2, <3>2
    <3>5. HeapInv(free(h, b), held \ {b})
      BY <1>9, <2>1, <3>1, <3>2, <3>3, <3>4, JoinBelow
    <3>6. \A c \in held \ {b} : c # this  BY <1>2, <2>1
    <3> QED  BY <3>1, <3>4, <3>5, <3>6 DEF Keeps
  <2> QED  BY <2>3, <2>4
<1>10. CASE stops # {} /\ this + z[this] # b
  <2>1. i \in 1 .. n /\ this \in F /\ this \in Nat /\ this > b
    <3>1. i \in 1 .. n /\ this \in F  BY <1>1, <1>6, <1>10
    <3>2. this \in Nat  BY <1>7, <3>1
    <3>3. this > b  BY <1>5, <1>6, <1>10
    <3> QED  BY <3>1, <3>2, <3>3
  <2>2. \A j \in 1 .. n : (j < i => s[j] < b) /\ (j >= i => b < s[j])
    <3> TAKE j \in 1 .. n
    <3>1. s[j] \in F /\ s[j] \in Nat /\ s[j] # b  BY <1>1, <1>7
    <3>2. ASSUME j < i  PROVE s[j] < b
      <4>1. j \notin stops
        <5> HIDE DEF i, stops, n
        <5> QED  BY <1>6, <1>10, <2>1, <3>2
      <4>2. ~(s[j] > b)  BY <1>5, <4>1
      <4> QED  BY <1>3, <3>1, <4>2
    <3>3. ASSUME j >= i  PROVE b < s[j]
      <4>1. j > i => this < s[j]  BY <1>1, <2>1
      <4> HIDE DEF i
      <4>2. j = i \/ j > i  BY <2>1, <3>3
      <4> QED  BY <1>3, <2>1, <3>1, <4>1, <4>2
    <3> QED  BY <3>2, <3>3
  <2>3. ASSUME NEW c \in F  PROVE c + z[c] # b
    <3> SUFFICES ASSUME c + z[c] = b  PROVE FALSE  OBVIOUS
    <3>1. PICK j \in 1 .. n : c = s[j]  BY <1>1
    <3>2. i <= j  BY <1>5, <1>6, <1>10, <3>1
    <3>3. b < c  BY <2>1, <2>2, <3>1, <3>2
    <3> QED  BY <1>3, <1>7, <3>3
  <2>4. CASE this = b + z[b]
    <3> DEFINE a == [s EXCEPT ![i] = b]
               t == Forget(Put(z, b, z[b] + z[this]), {this})
    <3>1. free(h, b) = [end |-> h.end, free |-> a, size |-> t]
      <4>1. free(h, b) = [h EXCEPT !.free = [@ EXCEPT ![i] = b],
                                   !.size = Forget(Put(@, b, @[b] + @[this]), {this})]
        BY <1>10, <2>4 DEF free, EndOf
      <4> QED  BY <1>4, <4>1
    <3>2. a \in Seq(Nat) /\ Rising(a) /\ ToSet(a) = (F \ {this}) \cup {b}
      <4>1. \A j \in DOMAIN s : (j < i => s[j] < b) /\ (j > i => b < s[j])  BY <1>1, <2>1, <2>2
      <4>2. i \in DOMAIN s /\ s \in Seq(Nat) /\ Rising(s) /\ ToSet(s) = F  BY <1>1, <2>1
      <4> HIDE DEF s, i, F
      <4> QED  BY <1>3, <4>1, <4>2, Replaced
    <3>3. /\ DOMAIN t = (DOMAIN z \cup {b}) \ {this}
          /\ t[b] = z[b] + z[this]
          /\ \A c \in DOMAIN z : c # b /\ c # this => t[c] = z[c]
      <4>1. this # b  BY <1>7, <2>1
      <4> QED  BY <4>1 DEF Forget, Restrict, Put
    <3> HIDE DEF a, t, i, n, stops, s
    <3>4. /\ (held \cup F) \ {this} \subseteq DOMAIN t
          /\ \A c \in held \cup F : c # b /\ c # this => t[c] = z[c]
      BY <1>2, <3>3
    <3>5. HeapInv(free(h, b), held \ {b})
      BY <2>1, <2>3, <2>4, <3>1, <3>2, <3>3, <3>4, JoinAbove
    <3>6. \A c \in held \ {b} : c # this  BY <1>2, <2>1
    <3> QED  BY <3>1, <3>4, <3>5, <3>6 DEF Keeps
  <2>5. CASE this # b + z[b]
    <3> DEFINE a == InsertAt(s, i, b)
    <3>1. free(h, b) = [end |-> h.end, free |-> a, size |-> h.size]
      <4>1. free(h, b) = [h EXCEPT !.free = InsertAt(@, i, b)]
        BY <1>10, <2>5 DEF free, EndOf
      <4> QED  BY <1>4, <4>1
    <3>2. a \in Seq(Nat) /\ Rising(a) /\ ToSet(a) = F \cup {b}
      <4>1. i \in 1 .. Len(s) + 1 /\ \A j \in DOMAIN s : IF j < i THEN s[j] < b ELSE b < s[j]
        <5> HIDE DEF i, stops
        <5>1. \A j \in DOMAIN s : IF j < i THEN s[j] < b ELSE b < s[j]
          <6> SUFFICES ASSUME NEW j \in 1 .. n  PROVE IF j < i THEN s[j] < b ELSE b < s[j]  BY <1>1
          <6>1. j < i \/ j >= i  BY <1>1, <2>1
          <6> QED  BY <2>2, <6>1
        <5> QED  BY <1>1, <2>1, <5>1
      <4> HIDE DEF s, i
      <4> QED  BY <1>1, <1>3, <4>1, Inserted
    <3>3. ASSUME NEW c \in F  PROVE b + z[b] # c
      <4> SUFFICES ASSUME b + z[b] = c  PROVE FALSE  OBVIOUS
      <4>1. PICK j \in 1 .. n : c = s[j]  BY <1>1
      <4>2. c > b /\ c \in Nat  BY <1>3, <1>7
      <4>3. j > i
        <5>1. ~(j < i)  BY <1>3, <2>2, <4>1, <4>2
        <5>2. j # i  BY <2>5, <4>1
        <5> QED  BY <2>1, <5>1, <5>2
      <4>4. this < c  BY <1>1, <2>1, <4>1, <4>3
      <4>5. b + z[b] <= this  BY <1>2, <2>1
      <4> QED  BY <2>1, <4>2, <4>4, <4>5
    <3> HIDE DEF a, i, n, stops, s
    <3>4. HeapInv(free(h, b), held \ {b})  BY <2>3, <3>1, <3>2, <3>3, LinkFreed
    <3> QED  BY <3>1, <3>4 DEF Keeps
  <2> QED  BY <2>4, <2>5
<1> QED  BY <1>8, <1>9, <1>10
-----------------------------------------------------------------------------
(* A block handed out.                                                      *)
LEMMA Handed ==
    ASSUME NEW h, NEW held, NEW n, NEW g, NEW b \in Nat, b \notin held,
           HeapInv(g, held \cup {b}), g.size[b] >= n, Keeps(h, g, held)
    PROVE  Serves(h, held, Result(g, b), n)
<1> DEFINE r == Result(g, b)
<1>1. r.heap = g /\ r.block = b /\ b # NULL  BY DEF Result, NULL
<1> HIDE DEF r
<1>2. Serves(h, held, r, n)  BY <1>1 DEF Serves
<1> QED  BY <1>2 DEF r

(* Null handed out.                                                         *)
LEMMA Refused ==
    ASSUME NEW h, NEW held, NEW n, NEW g, HeapInv(g, held), Keeps(h, g, held)
    PROVE  Serves(h, held, Result(g, NULL), n)
<1> DEFINE r == Result(g, NULL)
<1>1. r.heap = g /\ r.block = NULL  BY DEF Result
<1> HIDE DEF r
<1>2. Serves(h, held, r, n)  BY <1>1 DEF Serves
<1> QED  BY <1>2 DEF r

(* malloc() hands out the whole of a free block.                            *)
LEMMA WholeServes ==
    ASSUME NEW h, NEW held, HeapInv(h, held), NEW i \in DOMAIN h.free,
           NEW n \in Nat, h.size[h.free[i]] >= n
    PROVE  Serves(h, held, Result([h EXCEPT !.free = RemoveAt(@, i)], h.free[i]), n)
<1> DEFINE s == RemoveAt(h.free, i)
           b == h.free[i]
           g == [end |-> h.end, free |-> s, size |-> h.size]
<1>1. h = [end |-> h.end, free |-> h.free, size |-> h.size]  BY Facts
<1>2. [h EXCEPT !.free = RemoveAt(@, i)] = g  BY <1>1
<1>3. h.free \in Seq(Nat) /\ Rising(h.free) /\ ToSet(h.free) = Spare(h) /\ b \in Spare(h)  BY Facts DEF Spare
<1>4. s \in Seq(Nat) /\ Rising(s) /\ ToSet(s) = Spare(h) \ {b}  BY <1>3, Removed
<1>5. g.size = h.size  OBVIOUS
<1> HIDE DEF s, b
<1>6. b \in Nat /\ b \notin held /\ HeapInv(g, held \cup {b})  BY <1>3, <1>4, TakeWhole
<1> HIDE DEF g
<1>7. Keeps(h, g, held) /\ g.size[b] >= n  BY <1>5 DEF Keeps, b
<1>8. Serves(h, held, Result(g, b), n)  BY <1>6, <1>7, Handed
<1> QED  BY <1>2, <1>8 DEF b

(* malloc() hands out the front of a free block.                            *)
LEMMA SplitServes ==
    ASSUME NEW h, NEW held, HeapInv(h, held), NEW i \in DOMAIN h.free,
           NEW n \in Nat, n >= Entry, h.size[h.free[i]] >= n + Entry
    PROVE  Serves(h, held, Result(Split(h, i, n), h.free[i]), n)
<1> DEFINE z == h.size
           F == Spare(h)
           b == h.free[i]
           s == [h.free EXCEPT ![i] = b + n]
           t == Put(Put(z, b + n, z[b] - n), b, n)
           g == [end |-> h.end, free |-> s, size |-> t]
<1>1. Split(h, i, n) = g  BY DEF Split
<1>2. /\ b \in F /\ b \in Nat /\ z[b] \in Nat /\ b \notin held /\ held \cup F \subseteq DOMAIN z
      /\ Entry \in Nat /\ Entry >= 2
  <2>1. b \in F /\ held \cap F = {} /\ held \cup F \subseteq DOMAIN z  BY Facts
  <2>2. b \in Nat /\ z[b] \in Nat  BY <2>1, Facts
  <2> QED  BY <2>1, <2>2, Sizes
<1>3. b + n \in Nat /\ b + n # b /\ b < b + n /\ n \in Nat /\ n >= Entry /\ z[b] - n >= Entry /\ b + n < b + z[b]
  <2> HIDE DEF z, F, b
  <2>1. z[b] >= n + Entry  BY DEF z, b
  <2> QED  BY <1>2, <2>1
<1>4. s \in Seq(Nat) /\ Rising(s) /\ ToSet(s) = (F \ {b}) \cup {b + n}
  <2>1. h.free \in Seq(Nat) /\ Rising(h.free) /\ ToSet(h.free) = F  BY Facts DEF Spare
  <2>2. \A j \in DOMAIN h.free : (j < i => h.free[j] < b + n) /\ (j > i => b + n < h.free[j])
    <3> TAKE j \in DOMAIN h.free
    <3> DEFINE c == h.free[j]
    <3>1. c \in Nat /\ c \in F  BY Facts
    <3>2. (j < i => c < b) /\ (i < j => b < c)  BY Facts
    <3>3. b < c => b + z[b] <= c  BY <1>2, <3>1, Facts
    <3>4. DOMAIN h.free = 1 .. Len(h.free) /\ Len(h.free) \in Nat  BY Facts
    <3> HIDE DEF b, c, z
    <3> QED  BY <1>2, <1>3, <3>1, <3>2, <3>3, <3>4 DEF c
  <2> DEFINE m == b + n
             q == h.free
  <2>3. m \in Nat /\ q \in Seq(Nat) /\ Rising(q) /\ i \in DOMAIN q  BY <1>3, <2>1
  <2>4. \A j \in DOMAIN q : (j < i => q[j] < m) /\ (j > i => m < q[j])  BY <2>2
  <2> HIDE DEF m, q
  <2>5. /\ [q EXCEPT ![i] = m] \in Seq(Nat) /\ Rising([q EXCEPT ![i] = m])
        /\ ToSet([q EXCEPT ![i] = m]) = (ToSet(q) \ {q[i]}) \cup {m}
    BY <2>3, <2>4, Replaced
  <2> QED  BY <2>1, <2>5 DEF m, q
<1>5. /\ DOMAIN t = DOMAIN z \cup {b + n, b} /\ t[b] = n /\ t[b + n] = z[b] - n
      /\ \A c \in DOMAIN z : c # b /\ c # b + n => t[c] = z[c]
  <2> HIDE DEF b, z
  <2> QED  BY <1>3 DEF Put
<1>6. b + n \notin held \cup F
  <2> SUFFICES ASSUME b + n \in held \cup F  PROVE FALSE  OBVIOUS
  <2>1. b + z[b] <= b + n  BY <1>2, <1>3, Facts
  <2> HIDE DEF b, z
  <2> QED  BY <1>2, <1>3, <2>1
<1>7. b \notin held /\ HeapInv(g, held \cup {b})
  <2>1. ToSet(s) = (F \cup {b + n}) \ {b}  BY <1>3, <1>4
  <2>2. held \cup F \cup {b + n} \subseteq DOMAIN t /\ \A c \in held \cup F : c # b => t[c] = z[c]
    BY <1>2, <1>5, <1>6
  <2> HIDE DEF s, t, b
  <2>3. TakesPart(h, held, b, n, t, s, b)  BY <1>2, <1>3, <1>4, <1>5, <2>1, <2>2 DEF TakesPart
  <2> QED  BY <1>2, <2>3, TakePart
<1>8. Keeps(h, g, held) /\ g.size[b] >= n
  <2>1. \A c \in held : c \in DOMAIN z /\ c # b /\ c # b + n  BY <1>2, <1>6
  <2>2. g.size = t  OBVIOUS
  <2> HIDE DEF g, t
  <2>3. \A c \in held : g.size[c] = h.size[c]  BY <2>1, <2>2, <1>5
  <2> QED  BY <1>5, <2>2, <2>3 DEF Keeps
<1> HIDE DEF g, b
<1>9. Serves(h, held, Result(g, b), n)  BY <1>2, <1>7, <1>8, Handed
<1> QED  BY <1>1, <1>9 DEF b

(* malloc() serves every request, on each of its paths: a free block        *)
(* taken whole or cut, the last free block enlarged, the arena enlarged,    *)
(* or null.                                                                 *)
LEMMA MallocServes ==
    ASSUME NEW h, NEW held, HeapInv(h, held), NEW sz, NEW n \in Nat, REAL_SIZE(sz) = n, n >= Entry
    PROVE  Serves(h, held, malloc(h, sz), n)
<1> DEFINE z == h.size
           F == Spare(h)
           fits == {i \in DOMAIN h.free : z[h.free[i]] >= n}
           first == Min(fits)
           grown == IF AtEnd(h) THEN Last(h.free) ELSE h.end
           more == IF AtEnd(h) THEN n - z[grown] ELSE n
           t == Put(z, grown, n)
<1>1. CASE fits # {}
  <2>1. first \in DOMAIN h.free /\ z[h.free[first]] >= n
    <3>1. DOMAIN h.free = 1 .. Len(h.free) /\ Len(h.free) \in Nat  BY Facts
    <3>2. fits \subseteq 1 .. Len(h.free)  BY <3>1
    <3>3. first \in fits
      <4> HIDE DEF fits
      <4> QED  BY <1>1, <3>1, <3>2, FirstOf
    <3> QED  BY <3>3
  <2>2. CASE z[h.free[first]] < n + Entry
    <3>1. malloc(h, sz) = Result([h EXCEPT !.free = RemoveAt(@, first)], h.free[first])
      BY <1>1, <2>2 DEF malloc
    <3> HIDE DEF first
    <3> QED  BY <2>1, <3>1, WholeServes
  <2>3. CASE ~(z[h.free[first]] < n + Entry)
    <3>1. malloc(h, sz) = Result(Split(h, first, n), h.free[first])
      BY <1>1, <2>3 DEF malloc
    <3> HIDE DEF first
    <3>2. z[h.free[first]] \in Nat  BY <2>1, Facts
    <3>3. z[h.free[first]] >= n + Entry  BY <2>3, <3>2, Sizes
    <3> QED  BY <2>1, <3>1, <3>3, SplitServes
  <2> QED  BY <2>2, <2>3
<1>2. CASE fits = {} /\ ~CAN_ALLOC_P(h, more)
  <2>1. malloc(h, sz) = Result(h, NULL)  BY <1>2 DEF malloc
  <2> QED  BY <2>1, Refused DEF Keeps
<1>3. CASE fits = {} /\ CAN_ALLOC_P(h, more) /\ AtEnd(h)
  <2> DEFINE b == Last(h.free)
             g == [end |-> b + n, free |-> Front(h.free), size |-> Put(z, b, n)]
  <2>1. malloc(h, sz) = Result(g, b)  BY <1>3 DEF malloc
  <2>2. b \in F /\ b + z[b] = h.end /\ b \in Nat /\ z[b] \in Nat /\ held \cup F \subseteq DOMAIN z /\ b \notin held
    <3>1. b \in F /\ b + z[b] = h.end  BY <1>3, LastTouches
    <3>2. b \in Nat /\ z[b] \in Nat /\ held \cup F \subseteq DOMAIN z /\ b \notin held
      <4> HIDE DEF b
      <4> QED  BY <3>1, Facts
    <3> QED  BY <3>1, <3>2
  <2>3. n >= z[b]
    <3>1. Len(h.free) \in DOMAIN h.free  BY <1>3, Facts, Places DEF AtEnd
    <3>2. ~(z[b] >= n)  BY <1>3, <3>1 DEF Last
    <3> HIDE DEF b, z
    <3> QED  BY <2>2, <3>2
  <2>4. b + n + Gap <= Limit
    <3>1. CAN_ALLOC_P(h, n - z[b])  BY <1>3
    <3>2. n - z[b] \in Int  BY <2>2
    <3>3. h.end + (n - z[b]) + Gap <= Limit  BY <3>1, <3>2, CanAlloc
    <3>4. h.end = b + z[b]  BY <2>2
    <3> HIDE DEF b, z
    <3> QED  BY <2>2, <3>3, <3>4, Sizes
  <2>5. /\ DOMAIN Put(z, b, n) = DOMAIN z \cup {b} /\ Put(z, b, n)[b] = n
        /\ \A c \in DOMAIN z : c # b => Put(z, b, n)[c] = z[c]
    BY DEF Put
  <2>6. b \notin held /\ HeapInv(g, held \cup {b})
    <3> DEFINE u == Put(z, b, n)
    <3>1. held \cup F \subseteq DOMAIN u /\ u[b] = n /\ \A c \in held \cup F : c # b => u[c] = z[c]
      BY <2>2, <2>5
    <3> HIDE DEF u
    <3>2. HeapInv([end |-> Last(h.free) + n, free |-> Front(h.free), size |-> u], held \cup {Last(h.free)})
      BY <1>3, <2>3, <2>4, <3>1, GrowLast
    <3> QED  BY <2>2, <3>2 DEF u
  <2>7. Keeps(h, g, held) /\ g.size[b] >= n
    <3>1. g.size = Put(z, b, n)  OBVIOUS
    <3>2. \A c \in held : c \in DOMAIN z /\ c # b  BY <2>2
    <3> HIDE DEF g
    <3>3. \A c \in held : g.size[c] = h.size[c]  BY <2>5, <3>1, <3>2
    <3> QED  BY <2>5, <3>1, <3>3 DEF Keeps
  <2> HIDE DEF g, b
  <2> QED  BY <2>1, <2>2, <2>6, <2>7, Handed
<1>4. CASE fits = {} /\ CAN_ALLOC_P(h, more) /\ ~AtEnd(h)
  <2> DEFINE b == h.end
             u == Put(z, b, n)
             g == [end |-> b + n, free |-> h.free, size |-> u]
  <2>1. malloc(h, sz) = Result(g, b)  BY <1>4 DEF malloc
  <2>2. h.end + n + Gap <= Limit
    <3>1. CAN_ALLOC_P(h, n)  BY <1>4
    <3> QED  BY <3>1, CanAlloc
  <2>3. DOMAIN u = DOMAIN z \cup {b} /\ u[b] = n /\ \A c \in DOMAIN z : c # b => u[c] = z[c]
    BY DEF Put
  <2>4. held \cup F \subseteq DOMAIN z  BY Facts
  <2>5. b \in Nat /\ b \notin held \cup F /\ HeapInv(g, held \cup {b})
    <3>1. held \cup F \cup {b} \subseteq DOMAIN u /\ \A c \in held \cup F : c # b => u[c] = z[c]  BY <2>3, <2>4
    <3>2. b = h.end  OBVIOUS
    <3> HIDE DEF u, b
    <3>3. b + n + Gap <= Limit /\ u[b] = n  BY <2>2, <2>3, <3>2
    <3>4. HeapInv([end |-> b + n, free |-> h.free, size |-> u], held \cup {b}) /\ b \in Nat /\ b \notin held \cup F
      <4> HIDE DEF F, z
      <4>1. held \cup Spare(h) \cup {b} \subseteq DOMAIN u
        BY <3>1 DEF F, z
      <4>2. \A c \in held \cup Spare(h) : c # b => u[c] = h.size[c]
        BY <3>1 DEF F, z
      <4>3. b = h.end /\ b + n + Gap <= Limit /\ u[b] = n  BY <3>2, <3>3
      <4>4. AddsLast(h, held, b, n, u)  BY <4>1, <4>2, <4>3 DEF AddsLast
      <4> QED  BY <4>4, AddTaken DEF F
    <3> QED  BY <3>4 DEF u
  <2>7. Keeps(h, g, held) /\ g.size[b] >= n
    <3>1. g.size = u  OBVIOUS
    <3>2. \A c \in held : c \in DOMAIN z /\ c # b  BY <2>4, <2>5
    <3> HIDE DEF g, u
    <3>3. \A c \in held : g.size[c] = h.size[c]  BY <2>3, <3>1, <3>2
    <3> QED  BY <2>3, <3>1, <3>3 DEF Keeps
  <2> HIDE DEF g, b
  <2> QED  BY <2>1, <2>5, <2>7, Handed
<1> QED  BY <1>1, <1>2, <1>3, <1>4

(* No block begins inside another.                                          *)
LEMMA Inside ==
    ASSUME NEW h, NEW held, HeapInv(h, held), NEW b \in held \cup Spare(h),
           NEW m \in Nat, 0 < m, m < h.size[b]
    PROVE  b + m \notin held \cup Spare(h)
<1> SUFFICES ASSUME b + m \in held \cup Spare(h)  PROVE FALSE  OBVIOUS
<1> DEFINE s == h.size[b]
<1>1. b \in Nat /\ s \in Nat  BY Facts
<1>2. b < b + m  BY <1>1
<1>3. b + s <= b + m  BY <1>2, Facts
<1>4. m < s  OBVIOUS
<1> HIDE DEF s
<1> QED  BY <1>1, <1>3, <1>4

(* A block that is held is cut in two that are held. *)
LEMMA CutHeld ==
    ASSUME NEW h, NEW held, HeapInv(h, held), NEW b \in held,
           NEW n \in Nat, n >= Entry, h.size[b] - n >= Entry,
           NEW t, held \cup Spare(h) \cup {b + n} \subseteq DOMAIN t,
           t[b] = n, t[b + n] = h.size[b] - n,
           \A c \in held \cup Spare(h) : c # b => t[c] = h.size[c]
    PROVE  /\ b + n \in Nat /\ b + n \notin held \cup Spare(h)
           /\ HeapInv([end |-> h.end, free |-> h.free, size |-> t], held \cup {b + n})
<1> DEFINE U == held \cup Spare(h)
           z == h.size
           e == h.end
           s == h.free
           p == b + n
           k == held \cup {p}
<1>1. /\ s \in Seq(Nat) /\ Rising(s) /\ held \cap Spare(h) = {} /\ Spare(h) = ToSet(s)
      /\ (\A c, d \in Spare(h) : c + z[c] # d) /\ Tiles(U, z, e) /\ e + Gap <= Limit
      /\ b \in U /\ b \in Nat /\ b \notin Spare(h)
  BY Facts DEF Spare
<1>2. /\ z[b] - n >= Entry /\ U \cup {p} \subseteq DOMAIN t /\ t[b] = n /\ t[p] = z[b] - n /\ p = b + n
      /\ \A c \in U \ {b} : t[c] = z[c]
  OBVIOUS
<1>3. p \in Nat  BY <1>1
<1> HIDE DEF z, e, s
<1>4. p \notin U /\ Tiles(U \cup {p}, t, e)
  <2>1. Tiles(U, z, e) /\ b \in U  BY <1>1
  <2> HIDE DEF U
  <2> QED  BY <1>2, <2>1, Cut
<1>5. \A c, d \in ToSet(s) : c + t[c] # d  BY <1>1, <1>2
<1>6. k \cup ToSet(s) = U \cup {p} /\ k \cap ToSet(s) = {}  BY <1>1, <1>4
<1>7. HeapInv([end |-> e, free |-> s, size |-> t], k)
  <2> HIDE DEF k, p, U
  <2> QED  BY <1>1, <1>4, <1>5, <1>6, Parts
<1> QED  BY <1>3, <1>4, <1>7 DEF e, s
-----------------------------------------------------------------------------
(* What realloc returns: null and the old heap, or a block of at least n    *)
(* bytes, in the place of the old one or apart from it.                     *)
Moves(h, held, b, r, n) ==
    IF r.block = NULL THEN HeapInv(r.heap, held) /\ Keeps(h, r.heap, held)
    ELSE /\ r.block \in Nat /\ HeapInv(r.heap, (held \ {b}) \cup {r.block})
         /\ Keeps(h, r.heap, held \ {b}) /\ r.heap.size[r.block] >= n
         /\ r.block # b =>
               /\ r.block \notin held
               /\ r.block + r.heap.size[r.block] <= b \/ b + h.size[b] <= r.block

(* realloc() on each of its paths: moved, cut with the rest freed, or       *)
(* left as it is.                                                           *)
LEMMA ReallocMoves ==
    ASSUME NEW h, NEW held, HeapInv(h, held), NEW b \in held,
           NEW sz, NEW n \in Nat, REAL_SIZE(sz) = n, n >= Entry
    PROVE  Moves(h, held, b, realloc(h, b, sz), n)
<1> DEFINE old == h.size[b]
           new == malloc(h, sz)
           cut == [h EXCEPT !.size = Put(Put(@, b + n, old - n), b, n)]
<1>1. b \in Nat /\ old \in Nat /\ held \cup Spare(h) \subseteq DOMAIN h.size  BY Facts
<1>2. CASE old < n
  <2>1. Serves(h, held, new, n)  BY MallocServes
  <2>2. CASE new.block = NULL
    <3>1. realloc(h, b, sz) = new  BY <1>2, <2>2 DEF realloc
    <3> HIDE DEF new
    <3> QED  BY <2>1, <2>2, <3>1 DEF Serves, Moves
  <2>3. CASE new.block # NULL
    <3> DEFINE g == new.heap
               c == new.block
               f == free(g, b)
               k == held \cup {c}
    <3>1. realloc(h, b, sz) = Result(f, c)  BY <1>2, <2>3 DEF realloc
    <3>2. c \in Nat /\ c \notin held /\ HeapInv(g, k) /\ g.size[c] >= n /\ Keeps(h, g, held) /\ c # NULL
      BY <2>1, <2>3 DEF Serves
    <3> HIDE DEF new, g, c
    <3>3. b \in k /\ b # c  BY <3>2
    <3>4. HeapInv(f, k \ {b}) /\ Keeps(g, f, k \ {b})
      <4> HIDE DEF k, f
      <4> QED  BY <3>2, <3>3, FreeServes DEF f
    <3>5. k \ {b} = (held \ {b}) \cup {c}  BY <3>3
    <3>6. f.size[c] = g.size[c] /\ g.size[b] = h.size[b] /\ \A x \in held \ {b} : f.size[x] = h.size[x]
      <4> HIDE DEF f
      <4> QED  BY <3>2, <3>3, <3>4 DEF Keeps
    <3>7. c + g.size[c] <= b \/ b + g.size[b] <= c
      <4>1. b \in k \cup Spare(g) /\ c \in k \cup Spare(g)  BY <3>3
      <4> HIDE DEF k
      <4> QED  BY <3>2, <3>3, <4>1, Apart
    <3> DEFINE r == Result(f, c)
    <3>8. r.heap = f /\ r.block = c  BY DEF Result
    <3> HIDE DEF r, f, k
    <3>9. Moves(h, held, b, r, n)  BY <3>2, <3>4, <3>5, <3>6, <3>7, <3>8 DEF Moves, Keeps
    <3> QED  BY <3>1, <3>9 DEF r
  <2> QED  BY <2>2, <2>3
<1>3. CASE ~(old < n) /\ old - n >= Entry
  <2> DEFINE t == Put(Put(h.size, b + n, old - n), b, n)
             g == [end |-> h.end, free |-> h.free, size |-> t]
             p == b + n
             k == held \cup {p}
             f == free(g, p)
  <2>1. realloc(h, b, sz) = Result(f, b)
    <3>1. h = [end |-> h.end, free |-> h.free, size |-> h.size]  BY Facts
    <3>2. cut = g  BY <3>1
    <3>3. realloc(h, b, sz) = Result(free(cut, b + n), b)  BY <1>3 DEF realloc
    <3> QED  BY <3>2, <3>3
  <2>2. b # p /\ p \notin held \cup Spare(h)
    <3>1. 0 < n /\ n < old  BY <1>1, <1>3, Sizes
    <3>2. b # b + n  BY <1>1, <3>1
    <3>3. b + n \notin held \cup Spare(h)  BY <3>1, Inside
    <3> QED  BY <3>2, <3>3
  <2>3. /\ DOMAIN t = DOMAIN h.size \cup {p, b} /\ t[b] = n /\ t[p] = old - n
        /\ \A c \in DOMAIN h.size : c # b /\ c # p => t[c] = h.size[c]
    <3> HIDE DEF old, p
    <3> QED  BY <2>2 DEF Put, p
  <2>4. HeapInv(g, k)
    <3>1. held \cup Spare(h) \cup {b + n} \subseteq DOMAIN t /\ t[b] = n /\ t[b + n] = h.size[b] - n
      BY <1>1, <2>3
    <3>2. \A c \in held \cup Spare(h) : c # b => t[c] = h.size[c]  BY <1>1, <2>2, <2>3
    <3> HIDE DEF t
    <3> QED  BY <1>3, <3>1, <3>2, CutHeld
  <2>5. HeapInv(f, k \ {p}) /\ Keeps(g, f, k \ {p})
    <3>1. p \in k  OBVIOUS
    <3> HIDE DEF k, f, g, p
    <3> QED  BY <2>4, <3>1, FreeServes DEF f
  <2>6. k \ {p} = held /\ held = (held \ {b}) \cup {b}  BY <2>2
  <2>7. f.size[b] = n /\ \A c \in held \ {b} : f.size[c] = h.size[c]
    <3>1. g.size = t  OBVIOUS
    <3> HIDE DEF f, g, t
    <3>2. \A c \in held : f.size[c] = t[c]  BY <2>5, <2>6, <3>1 DEF Keeps
    <3>3. \A c \in held : c \in DOMAIN h.size /\ c # p  BY <1>1, <2>2
    <3> HIDE DEF p
    <3> QED  BY <2>3, <3>2, <3>3
  <2> DEFINE r == Result(f, b)
  <2>8. r.heap = f /\ r.block = b /\ b # NULL  BY <1>1 DEF Result, NULL
  <2> HIDE DEF r, f, k, g, p
  <2>10. HeapInv(f, (held \ {b}) \cup {b})  BY <2>5, <2>6
  <2>11. f.size[b] >= n  BY <2>7
  <2>9. Moves(h, held, b, r, n)  BY <1>1, <2>7, <2>8, <2>10, <2>11 DEF Moves, Keeps
  <2> QED  BY <2>1, <2>9 DEF r
<1>4. CASE ~(old < n) /\ ~(old - n >= Entry)
  <2> DEFINE r == Result(h, b)
  <2>1. realloc(h, b, sz) = r  BY <1>4 DEF realloc
  <2>2. r.heap = h /\ r.block = b /\ b # NULL  BY <1>1 DEF Result, NULL
  <2>3. held = (held \ {b}) \cup {b}  OBVIOUS
  <2>4. h.size[b] >= n
    <3> HIDE DEF old
    <3>1. old >= n  BY <1>1, <1>4
    <3> QED  BY <3>1 DEF old
  <2> HIDE DEF r
  <2>5. Moves(h, held, b, r, n)  BY <1>1, <2>2, <2>3, <2>4 DEF Moves, Keeps
  <2> QED  BY <2>1, <2>5
<1> QED  BY <1>2, <1>3, <1>4
-----------------------------------------------------------------------------
(* The pointer that is handed out is a multiple of a.                       *)
AlignedBy(r, a) == r.block # NULL => (r.block + Word) % a = 0

(* The room before the aligned part is nothing, or enough for a block.      *)
LEMMA RoomBefore ==
    ASSUME NEW b \in Nat, NEW a \in Nat \ {0}
    PROVE  /\ Before(b, a) \in Nat /\ (Before(b, a) = 0 \/ Before(b, a) >= Entry)
           /\ ((b + Before(b, a)) + Word) % a = 0
<1> DEFINE m == M_ALIGN(b + Word, a)
           k == M_ALIGN(b + Entry + Word, a)
<1>1. Word \in Nat /\ Entry \in Nat /\ Entry >= 2 /\ b + Word \in Int /\ b + Entry + Word \in Int  BY Sizes
<1>2. m \in 0 .. a - 1 /\ k \in 0 .. a - 1  BY <1>1, Padding
<1>3. (b + Word + m) % a = 0 /\ (b + Entry + Word + k) % a = 0  BY <1>1, Aligned
<1>4. Before(b, a) = IF m = 0 THEN 0 ELSE Entry + k  BY DEF Before
<1> HIDE DEF m, k
<1>5. CASE m = 0
  <2>1. (b + Before(b, a)) + Word = b + Word + m  BY <1>1, <1>4, <1>5
  <2> QED  BY <1>3, <1>4, <1>5, <2>1
<1>6. CASE m # 0
  <2>1. (b + Before(b, a)) + Word = b + Entry + Word + k  BY <1>1, <1>2, <1>4, <1>6
  <2>2. Before(b, a) \in Nat /\ Before(b, a) >= Entry  BY <1>1, <1>2, <1>4, <1>6
  <2> QED  BY <1>3, <2>1, <2>2
<1> QED  BY <1>5, <1>6

(* The back of the i-th free block is taken, from p = b + m on.             *)
LEMMA BackServes ==
    ASSUME NEW h, NEW held, HeapInv(h, held), NEW i \in DOMAIN h.free,
           NEW m \in Nat, m >= Entry, NEW n \in Nat, n >= Entry, h.size[h.free[i]] - m >= n
    PROVE  LET b == h.free[i]
               p == b + m
               t == Put(Put(h.size, p, h.size[b] - m), b, m)
           IN  /\ Serves(h, held, Result([h EXCEPT !.size = t], p), n)
               /\ p \in Nat /\ p \notin held \cup Spare(h) /\ b \notin held
               /\ HeapInv([end |-> h.end, free |-> h.free, size |-> t], held \cup {p})
<1> DEFINE z == h.size
           F == Spare(h)
           b == h.free[i]
           p == b + m
           t == Put(Put(z, p, z[b] - m), b, m)
           s == h.free
           g == [end |-> h.end, free |-> s, size |-> t]
<1>1. h = [end |-> h.end, free |-> h.free, size |-> h.size]  BY Facts
<1>2. [h EXCEPT !.size = t] = g  BY <1>1
<1>3. s \in Seq(Nat) /\ Rising(s) /\ ToSet(s) = F /\ b \in F /\ held \cup F \subseteq DOMAIN z /\ b \notin held
  BY Facts DEF Spare
<1>4. b \in Nat /\ z[b] \in Nat  BY <1>3, Facts
<1>5. p \in Nat /\ b # p /\ z[b] - m >= Entry /\ z[b] - m >= n /\ 0 < m /\ m < z[b]
  <2>1. z[b] - m >= n  OBVIOUS
  <2> HIDE DEF z, b
  <2> QED  BY <1>4, <2>1, Sizes
<1>6. p \notin held \cup F  BY <1>3, <1>5, Inside
<1>7. /\ DOMAIN t = DOMAIN z \cup {p, b} /\ t[b] = m /\ t[p] = z[b] - m
      /\ \A c \in DOMAIN z : c # b /\ c # p => t[c] = z[c]
  <2> HIDE DEF z, b, p
  <2> QED  BY <1>5 DEF Put
<1>8. HeapInv(g, held \cup {p})
  <2>1. held \cup Spare(h) \cup {b + m} \subseteq DOMAIN t /\ t[b + m] = h.size[b] - m  BY <1>3, <1>7
  <2>2. \A c \in held \cup Spare(h) : c # b => t[c] = h.size[c]  BY <1>3, <1>6, <1>7
  <2>3. ToSet(s) = (Spare(h) \cup {b + m}) \ {p}  BY <1>3, <1>6
  <2>4. p \in {b, b + m}  OBVIOUS
  <2>5. h.size[b] - m >= Entry /\ t[b] = m  BY <1>5, <1>7
  <2> HIDE DEF t, b, s, p
  <2>6. TakesPart(h, held, b, m, t, s, p)  BY <1>3, <2>1, <2>2, <2>3, <2>4, <2>5 DEF TakesPart
  <2> QED  BY <2>6, TakePart
<1>9. Keeps(h, g, held) /\ g.size[p] >= n
  <2>1. g.size = t  OBVIOUS
  <2> HIDE DEF g, t, p
  <2>2. \A c \in held : c \in DOMAIN z /\ c # b /\ c # p  BY <1>3, <1>6
  <2>3. \A c \in held : g.size[c] = h.size[c]  BY <1>7, <2>1, <2>2
  <2> QED  BY <1>5, <1>7, <2>1, <2>3 DEF Keeps
<1>10. Serves(h, held, Result(g, p), n)
  <2>1. p \notin held  BY <1>6
  <2> HIDE DEF g, p
  <2> QED  BY <1>5, <1>8, <1>9, <2>1, Handed
<1> QED  BY <1>2, <1>3, <1>5, <1>6, <1>8, <1>10

(* A heap with two of its fields changed.                                   *)
LEMMA Updated == ASSUME NEW h, h = [end |-> h.end, free |-> h.free, size |-> h.size], NEW v, NEW w
  PROVE /\ [h EXCEPT !.free = v, !.size = w] = [end |-> h.end, free |-> v, size |-> w]
        /\ [h EXCEPT !.end = v, !.size = w] = [end |-> v, free |-> h.free, size |-> w]
<1> DEFINE e == h.end
           f == h.free
           s == h.size
           g == [h EXCEPT !.free = v]
           k == [h EXCEPT !.end = v]
<1>1. h = [end |-> e, free |-> f, size |-> s] OBVIOUS
<1>2. [h EXCEPT !.free = v, !.size = w] = [g EXCEPT !.size = w] OBVIOUS
<1>3. [h EXCEPT !.end = v, !.size = w] = [k EXCEPT !.size = w] OBVIOUS
<1> HIDE DEF e, f, s
<1>4. g = [end |-> e, free |-> v, size |-> s] BY <1>1
<1>5. k = [end |-> v, free |-> f, size |-> s] BY <1>1
<1> HIDE DEF g, k
<1>6. [g EXCEPT !.size = w] = [end |-> e, free |-> v, size |-> w] BY <1>4
<1>7. [k EXCEPT !.size = w] = [end |-> v, free |-> f, size |-> w] BY <1>5
<1> QED BY <1>2, <1>3, <1>6, <1>7 DEF e, f

(* An allocator that also honours the alignment a.                          *)
ServesAligned(h, held, r, n, a) == Serves(h, held, r, n) /\ AlignedBy(r, a)

(* The middle of the i-th free block is taken. *)
LEMMA MiddleServes ==
    ASSUME NEW h, NEW held, HeapInv(h, held), NEW i \in DOMAIN h.free,
           NEW m \in Nat, m >= Entry, NEW n \in Nat, n >= Entry, h.size[h.free[i]] - m >= n + Entry
    PROVE  LET b == h.free[i]
               p == b + m
               rest == h.size[b] - m - n
               t == Put(Put(Put(h.size, p + n, rest), p, n), b, m)
           IN  Serves(h, held, Result([h EXCEPT !.free = InsertAt(@, i + 1, p + n), !.size = t], p), n)
<1> DEFINE z == h.size
           F == Spare(h)
           s == h.free
           b == s[i]
           p == b + m
           q == p + n
           u == Put(Put(z, p, z[b] - m), b, m)
           t == Put(Put(Put(z, q, z[b] - m - n), p, n), b, m)
           g == [end |-> h.end, free |-> s, size |-> u]
           k == held \cup {p}
           f == [end |-> h.end, free |-> s, size |-> t]
           l == InsertAt(s, i + 1, q)
           e == [end |-> h.end, free |-> l, size |-> t]
<1>1. h = [end |-> h.end, free |-> s, size |-> h.size]  BY Facts
<1>2. [h EXCEPT !.free = InsertAt(@, i + 1, q), !.size = t] = e
  <2>1. h = [end |-> h.end, free |-> h.free, size |-> h.size]  BY <1>1
  <2> HIDE DEF q, t
  <2>2. [h EXCEPT !.free = InsertAt(@, i + 1, q), !.size = t] = [h EXCEPT !.free = l, !.size = t]  OBVIOUS
  <2> HIDE DEF l
  <2> QED  BY <2>1, <2>2, Updated
<1>3. /\ s \in Seq(Nat) /\ Rising(s) /\ ToSet(s) = F /\ b \in F /\ held \cup F \subseteq DOMAIN z
      /\ b \notin held /\ i \in 1 .. Len(s) /\ DOMAIN s = 1 .. Len(s) /\ Len(s) \in Nat
  BY Facts DEF Spare
<1>4. b \in Nat /\ z[b] \in Nat /\ Entry \in Nat /\ Entry >= 2  BY <1>3, Facts, Sizes
<1>5. z[b] - m >= n + Entry /\ b = s[i]  OBVIOUS
<1>6. z[b] - m >= n
  <2> HIDE DEF z, b
  <2> QED  BY <1>4, <1>5
<1>7. p \in Nat /\ p \notin held \cup F /\ HeapInv(g, k)
  <2> HIDE DEF z
  <2> QED  BY <1>6, BackServes DEF z
<1>8. b # p /\ b # q /\ p # q /\ q \in Nat /\ m + n \in Nat /\ 0 < m + n /\ m + n < z[b] /\ q = b + (m + n)
  <2> HIDE DEF z, b
  <2> QED  BY <1>4, <1>5
<1>9. q \notin held \cup F
  <2> HIDE DEF z, b, F
  <2>1. b + (m + n) \notin held \cup F  BY <1>3, <1>8, Inside DEF z, F
  <2> QED  BY <1>8, <2>1
<1>10. /\ DOMAIN u = DOMAIN z \cup {p, b} /\ u[b] = m /\ u[p] = z[b] - m
       /\ \A c \in DOMAIN z : c # b /\ c # p => u[c] = z[c]
  <2> HIDE DEF z, b, p
  <2> QED  BY <1>8 DEF Put
<1>11. /\ DOMAIN t = DOMAIN z \cup {p, b, q} /\ t[b] = m /\ t[p] = n /\ t[q] = z[b] - m - n
       /\ \A c \in DOMAIN z : c # b /\ c # p /\ c # q => t[c] = z[c]
  <2> HIDE DEF z, b, p, q
  <2> QED  BY <1>8 DEF Put
<1>12. HeapInv(f, k \cup {q})
  <2>1. g.size = u /\ g.free = s /\ g.end = h.end /\ Spare(g) = F /\ p \in k  BY DEF Spare
  <2>2. k \cup F \cup {p + n} \subseteq DOMAIN t  BY <1>3, <1>11
  <2>3. \A c \in k \cup F : c # p => t[c] = u[c]
    <3>1. \A c \in held \cup F : c # b /\ c # p /\ c # q  => t[c] = u[c]  BY <1>3, <1>10, <1>11
    <3>2. t[b] = u[b]  BY <1>10, <1>11
    <3>3. \A c \in k \cup F : c # p => c \in held \cup F /\ c # q  BY <1>9
    <3> HIDE DEF t, u, k, F, b, p, q
    <3> QED  BY <3>1, <3>2, <3>3
  <2>4. u[p] - n >= Entry /\ t[p + n] = u[p] - n /\ t[p] = n
    <3> HIDE DEF z, b, t, u
    <3> QED  BY <1>4, <1>5, <1>10, <1>11
  <2> HIDE DEF g, t, u, k, F, p, s, z
  <2>5. HeapInv([end |-> g.end, free |-> g.free, size |-> t], k \cup {p + n})
    BY <1>7, <2>1, <2>2, <2>3, <2>4, CutHeld
  <2> QED  BY <2>1, <2>5
<1>13. l \in Seq(Nat) /\ Rising(l) /\ ToSet(l) = F \cup {q}
  <2>1. ASSUME NEW j \in DOMAIN s  PROVE IF j < i + 1 THEN s[j] < q ELSE q < s[j]
    <3> DEFINE c == s[j]
    <3>1. c \in F /\ c \in Nat /\ (j < i => c < b) /\ (i < j => b < c)  BY Facts
    <3>2. b < c => b + z[b] <= c  BY <1>3, <3>1, Facts
    <3>3. q < b + z[b] /\ b < q
      <4> HIDE DEF z, b, q
      <4> QED  BY <1>4, <1>8
    <3>4. j \in Nat /\ i \in Nat /\ (j = i => c = b)  BY <1>3
    <3> HIDE DEF c, b, q, z, s
    <3>5. CASE j < i + 1
      <4>1. c = b \/ c < b  BY <3>1, <3>4, <3>5
      <4>2. c < q  BY <1>4, <1>8, <3>1, <3>3, <4>1
      <4> QED  BY <3>5, <4>2 DEF c
    <3>6. CASE ~(j < i + 1)
      <4>1. b < c  BY <3>1, <3>4, <3>6
      <4>2. q < c  BY <1>4, <1>8, <3>1, <3>2, <3>3, <4>1
      <4> QED  BY <3>6, <4>2 DEF c
    <3> QED  BY <3>5, <3>6
  <2>2. i + 1 \in 1 .. Len(s) + 1  BY <1>3
  <2> DEFINE v == i + 1
  <2> HIDE DEF q, s, F, v
  <2>3. \A j \in DOMAIN s : IF j < v THEN s[j] < q ELSE q < s[j]  BY <2>1 DEF v
  <2>4. InsertAt(s, v, q) \in Seq(Nat) /\ Rising(InsertAt(s, v, q)) /\ ToSet(InsertAt(s, v, q)) = ToSet(s) \cup {q}
    BY <1>3, <1>8, <2>2, <2>3, Inserted DEF v
  <2> QED  BY <1>3, <2>4 DEF v
<1>14. \A c \in F : c + t[c] # q /\ q + t[q] # c
  <2> TAKE c \in F
  <2>1. q + t[q] = b + z[b]
    <3> HIDE DEF z, b, t
    <3> QED  BY <1>4, <1>8, <1>11
  <2>2. b + z[b] # c  BY <1>3, Facts
  <2>3. CASE c = b
    <3>1. c + t[c] = p  BY <1>11, <2>3
    <3> QED  BY <1>8, <2>1, <2>2, <3>1
  <2>4. CASE c # b
    <3>1. t[c] = z[c] /\ c \in Nat /\ z[c] \in Nat
      <4>1. c \in DOMAIN z /\ c # p /\ c # q  BY <1>3, <1>7, <1>9
      <4>2. c \in Nat /\ z[c] \in Nat  BY Facts
      <4> HIDE DEF t, z, p, q
      <4> QED  BY <1>11, <2>4, <4>1, <4>2
    <3>2. b + z[b] <= c \/ c + z[c] <= b  BY <1>3, <2>4, Apart
    <3>3. q < b + z[b] /\ b < q
      <4> HIDE DEF z, b, q
      <4> QED  BY <1>4, <1>8
    <3>4. c + z[c] # q
      <4>1. c >= b + z[b] => c + z[c] > q
        <5> HIDE DEF z, b, q
        <5> QED  BY <1>4, <1>8, <3>1, <3>3
      <4> HIDE DEF z, b, q
      <4> QED  BY <1>4, <1>8, <3>1, <3>2, <3>3, <4>1
    <3> QED  BY <2>1, <2>2, <3>1, <3>4
  <2> QED  BY <2>3, <2>4
<1>15. HeapInv(e, k)
  <2>1. f.size = t /\ f.free = s /\ f.end = h.end /\ Spare(f) = F  BY DEF Spare
  <2>2. q \in k \cup {q} /\ (k \cup {q}) \ {q} = k  BY <1>8, <1>9
  <2> HIDE DEF f, t, k, F, q, l, s
  <2>3. HeapInv([end |-> f.end, free |-> l, size |-> f.size], (k \cup {q}) \ {q})
    BY <1>12, <1>13, <1>14, <2>1, <2>2, LinkFreed
  <2> QED  BY <2>1, <2>2, <2>3
<1>16. Keeps(h, e, held) /\ e.size[p] >= n
  <2>1. e.size = t  OBVIOUS
  <2>2. \A c \in held : c \in DOMAIN z /\ c # b /\ c # p /\ c # q  BY <1>3, <1>7, <1>9
  <2> HIDE DEF e, t, p, q, b
  <2>3. \A c \in held : e.size[c] = h.size[c]  BY <1>11, <2>1, <2>2
  <2> QED  BY <1>11, <2>1, <2>3 DEF Keeps
<1>17. Serves(h, held, Result(e, p), n)
  <2>1. p \notin held  BY <1>7
  <2> HIDE DEF e, p
  <2> QED  BY <1>7, <1>15, <1>16, <2>1, Handed
<1> QED  BY <1>2, <1>17

(* The aligned part of a free block on the four paths of memalign(), with   *)
(* and without room before it and after it.                                 *)
LEMMA CarveServes ==
    ASSUME NEW h, NEW held, HeapInv(h, held), NEW i \in DOMAIN h.free, NEW a \in Nat \ {0},
           NEW n \in Nat, n >= Entry, h.size[h.free[i]] >= n + Before(h.free[i], a)
    PROVE  ServesAligned(h, held, Carve(h, i, n, a), n, a)
<1> DEFINE b == h.free[i]
           old == h.size[b]
           before == Before(b, a)
           p == b + before
           r == Carve(h, i, n, a)
<1>1. b \in Nat /\ old \in Nat /\ b \in Spare(h)
  <2>1. b \in Spare(h)  BY Facts
  <2> QED  BY <2>1, Facts
<1>2. /\ before \in Nat /\ (before = 0 \/ before >= Entry) /\ (p + Word) % a = 0 /\ Entry \in Nat
      /\ old >= n + before /\ p \in Nat
  BY <1>1, RoomBefore, Sizes
<1>3. r.block = p => AlignedBy(r, a)  BY <1>2 DEF AlignedBy
<1>4. CASE before # 0 /\ old - before <= n + Entry
  <2> DEFINE t == Put(Put(h.size, p, old - before), b, before)
  <2>1. r = Result([h EXCEPT !.size = t], p)  BY <1>4 DEF Carve
  <2>2. before >= Entry /\ old - before >= n
    <3> HIDE DEF before, old
    <3> QED  BY <1>1, <1>2, <1>4
  <2>3. Serves(h, held, Result([h EXCEPT !.size = t], p), n)
    <3> HIDE DEF before
    <3> QED  BY <1>2, <2>2, BackServes
  <2>4. r.block = p  BY <2>1 DEF Result
  <2>5. Serves(h, held, r, n)
    <3> HIDE DEF r, t
    <3> QED  BY <2>1, <2>3
  <2> QED  BY <1>3, <2>4, <2>5 DEF ServesAligned
<1>5. CASE before # 0 /\ ~(old - before <= n + Entry)
  <2> DEFINE t == Put(Put(Put(h.size, p + n, old - before - n), p, n), b, before)
  <2>1. r = Result([h EXCEPT !.free = InsertAt(@, i + 1, p + n), !.size = t], p)  BY <1>5 DEF Carve
  <2>2. before >= Entry /\ old - before >= n + Entry
    <3> HIDE DEF before, old
    <3> QED  BY <1>1, <1>2, <1>5
  <2>3. Serves(h, held, r, n)
    <3> HIDE DEF before
    <3> QED  BY <1>2, <2>1, <2>2, MiddleServes
  <2>4. r.block = p  BY <2>1 DEF Result
  <2> QED  BY <1>3, <2>3, <2>4 DEF ServesAligned
<1>6. CASE before = 0 /\ old <= n + Entry
  <2>1. r = Result([h EXCEPT !.free = RemoveAt(@, i)], b)  BY <1>6 DEF Carve
  <2>2. old >= n /\ b = p
    <3> HIDE DEF before, old, b
    <3> QED  BY <1>1, <1>2, <1>6
  <2>3. Serves(h, held, r, n)  BY <2>1, <2>2, WholeServes
  <2>4. r.block = p  BY <2>1, <2>2 DEF Result
  <2> QED  BY <1>3, <2>3, <2>4 DEF ServesAligned
<1>7. CASE before = 0 /\ ~(old <= n + Entry)
  <2>1. r = Result(Split(h, i, n), b)  BY <1>7 DEF Carve
  <2>2. old >= n + Entry /\ b = p
    <3> HIDE DEF before, old, b
    <3> QED  BY <1>1, <1>2, <1>7
  <2>3. Serves(h, held, r, n)  BY <2>1, <2>2, SplitServes
  <2>4. r.block = p  BY <2>1, <2>2 DEF Result
  <2> QED  BY <1>3, <2>3, <2>4 DEF ServesAligned
<1> QED  BY <1>4, <1>5, <1>6, <1>7

(* What is served from a heap g that keeps the blocks of h.                 *)
LEMMA ServedFrom ==
    ASSUME NEW h, NEW held, NEW g, Keeps(h, g, held), NEW r, NEW n, NEW a, ServesAligned(g, held, r, n, a)
    PROVE  ServesAligned(h, held, r, n, a)
BY DEF ServesAligned, Serves, Keeps

(* The aligned part of the last free block, enlarged if it is too small.    *)
LEMMA CarveLastServes ==
    ASSUME NEW h, NEW held, HeapInv(h, held), AtEnd(h), NEW a \in Nat \ {0}, NEW n \in Nat, n >= Entry
    PROVE  ServesAligned(h, held, CarveLast(h, n, a), n, a)
<1> DEFINE b == Last(h.free)
           i == Len(h.free)
           z == h.size
           before == Before(b, a)
           whole == before + n
           t == Put(z, b, whole)
           g == [end |-> b + whole, free |-> h.free, size |-> t]
<1>1. /\ b \in Nat /\ z[b] \in Nat /\ b \in Spare(h) /\ b + z[b] = h.end /\ b = h.free[i]
      /\ i \in DOMAIN h.free /\ held \cup Spare(h) \subseteq DOMAIN z
  <2>1. h.free # << >> /\ b \in Spare(h) /\ b + z[b] = h.end  BY LastTouches
  <2>2. i \in DOMAIN h.free  BY <2>1, Facts, Places
  <2>3. b = h.free[i]  BY DEF Last
  <2> HIDE DEF b, i
  <2> QED  BY <2>1, <2>2, <2>3, Facts
<1>2. before \in Nat  BY <1>1, RoomBefore
<1>3. h = [end |-> h.end, free |-> h.free, size |-> z]  BY Facts
<1>4. CASE z[b] >= whole
  <2>1. CarveLast(h, n, a) = Carve(h, i, n, a)  BY <1>4 DEF CarveLast
  <2>2. h.size[h.free[i]] >= n + Before(h.free[i], a)
    <3>1. z[b] >= n + before
      <4> HIDE DEF z, b, before
      <4> QED  BY <1>1, <1>2, <1>4
    <3> HIDE DEF i
    <3> QED  BY <1>1, <3>1
  <2> HIDE DEF i
  <2> QED  BY <1>1, <2>1, <2>2, CarveServes
<1>5. CASE ~(z[b] >= whole) /\ ~CAN_ALLOC_P(h, whole - z[b])
  <2>1. CarveLast(h, n, a) = Result(h, NULL)  BY <1>5 DEF CarveLast
  <2>2. Serves(h, held, Result(h, NULL), n)  BY Refused DEF Keeps
  <2>3. AlignedBy(Result(h, NULL), a)  BY DEF AlignedBy, Result
  <2> QED  BY <2>1, <2>2, <2>3 DEF ServesAligned
<1>6. CASE ~(z[b] >= whole) /\ CAN_ALLOC_P(h, whole - z[b])
  <2>1. CarveLast(h, n, a) = Carve(g, i, n, a)
    <3>1. CarveLast(h, n, a) = Carve([h EXCEPT !.end = b + whole, !.size = Put(@, b, whole)], i, n, a)
      BY <1>6 DEF CarveLast
    <3>2. [h EXCEPT !.end = b + whole, !.size = Put(@, b, whole)] = g
      <4>1. h = [end |-> h.end, free |-> h.free, size |-> h.size]  BY <1>3
      <4> HIDE DEF whole, b
      <4>2. [h EXCEPT !.end = b + whole, !.size = Put(@, b, whole)] = [h EXCEPT !.end = b + whole, !.size = t]
        OBVIOUS
      <4> HIDE DEF t
      <4> QED  BY <4>1, <4>2, Updated
    <3> QED  BY <3>1, <3>2
  <2>2. whole \in Nat /\ whole >= z[b] /\ b + whole + Gap <= Limit
    <3> DEFINE w == whole
               y == z[b]
    <3>1. w \in Nat /\ y \in Nat /\ ~(y >= w) /\ w - y \in Int  BY <1>1, <1>2, <1>6
    <3>2. h.end + (w - y) + Gap <= Limit
      <4> HIDE DEF w, y
      <4>1. CAN_ALLOC_P(h, w - y)  BY <1>6 DEF w, y
      <4> QED  BY <3>1, <4>1, CanAlloc
    <3>3. h.end = b + y  BY <1>1
    <3> HIDE DEF w, y, b
    <3>4. w >= y /\ b + w + Gap <= Limit  BY <1>1, <3>1, <3>2, <3>3, Sizes
    <3> QED  BY <3>1, <3>4 DEF w, y
  <2>3. DOMAIN t = DOMAIN z \cup {b} /\ t[b] = whole /\ \A c \in DOMAIN z : c # b => t[c] = z[c]
    BY DEF Put
  <2>4. HeapInv(g, held) /\ Keeps(h, g, held)
    <3>1. held \cup Spare(h) \subseteq DOMAIN t /\ \A c \in held \cup Spare(h) : c # b => t[c] = z[c]
      BY <1>1, <2>3
    <3>2. g.size = t  OBVIOUS
    <3> DEFINE w == whole
    <3>3. t[Last(h.free)] = w /\ w \in Nat /\ w >= z[Last(h.free)] /\ Last(h.free) + w + Gap <= Limit  BY <2>2, <2>3
    <3>4. g = [end |-> Last(h.free) + w, free |-> h.free, size |-> t]  OBVIOUS
    <3> HIDE DEF t, w, g
    <3>5. HeapInv([end |-> Last(h.free) + w, free |-> h.free, size |-> t], held)
      BY <3>1, <3>3, GrowLast
    <3>6. b \notin held  BY <1>1, Facts
    <3>7. Keeps(h, g, held)  BY <3>1, <3>2, <3>6 DEF Keeps
    <3> QED  BY <3>4, <3>5, <3>7
  <2>5. g.free = h.free /\ g.size = t  OBVIOUS
  <2>6. i \in DOMAIN g.free /\ g.size[g.free[i]] >= n + Before(g.free[i], a)
    <3>1. g.free[i] = b  BY <1>1, <2>5
    <3>2. whole >= n + before
      <4> HIDE DEF before
      <4> QED  BY <1>2
    <3> HIDE DEF g, i, t, b
    <3> QED  BY <1>1, <2>3, <2>5, <3>1, <3>2
  <2> HIDE DEF g, i
  <2>7. ServesAligned(g, held, Carve(g, i, n, a), n, a)  BY <2>4, <2>6, CarveServes
  <2> QED  BY <2>1, <2>4, <2>7, ServedFrom
<1> QED  BY <1>4, <1>5, <1>6

(* memalign() serves every request with an aligned pointer, or null.        *)
LEMMA MemalignServes ==
    ASSUME NEW h, NEW held, HeapInv(h, held), NEW a \in Nat, NEW sz,
           NEW n \in Nat, REAL_SIZE(sz) = n, n >= Entry
    PROVE  ServesAligned(h, held, memalign(h, a, sz), n, a)
<1> DEFINE z == h.size
           fits == {i \in DOMAIN h.free : z[h.free[i]] >= n + Before(h.free[i], a)}
           first == Min(fits)
           fresh == n + M_ALIGN(h.end + Word, a)
           t == Put(z, h.end, fresh)
           g == [end |-> h.end + fresh, free |-> Append(h.free, h.end), size |-> t]
<1>1. CASE ~PowerOfTwo(a)
  <2>1. memalign(h, a, sz) = Result(h, NULL)  BY <1>1 DEF memalign
  <2>2. Serves(h, held, Result(h, NULL), n)  BY Refused DEF Keeps
  <2>3. AlignedBy(Result(h, NULL), a)  BY DEF AlignedBy, Result
  <2> QED  BY <2>1, <2>2, <2>3 DEF ServesAligned
<1>2. ASSUME PowerOfTwo(a)  PROVE a \in Nat \ {0}  BY <1>2 DEF PowerOfTwo
<1>3. CASE PowerOfTwo(a) /\ fits # {}
  <2>1. memalign(h, a, sz) = Carve(h, first, n, a)  BY <1>3 DEF memalign
  <2>2. first \in DOMAIN h.free /\ z[h.free[first]] >= n + Before(h.free[first], a)
    <3>1. DOMAIN h.free = 1 .. Len(h.free) /\ Len(h.free) \in Nat  BY Facts
    <3>2. fits \subseteq 1 .. Len(h.free)  BY <3>1
    <3>3. first \in fits
      <4> HIDE DEF fits
      <4> QED  BY <1>3, <3>1, <3>2, FirstOf
    <3> QED  BY <3>3
  <2> HIDE DEF first
  <2> QED  BY <1>2, <1>3, <2>1, <2>2, CarveServes
<1>4. CASE PowerOfTwo(a) /\ fits = {} /\ AtEnd(h)
  <2>1. memalign(h, a, sz) = CarveLast(h, n, a)  BY <1>4 DEF memalign
  <2> QED  BY <1>2, <1>4, <2>1, CarveLastServes
<1>5. CASE PowerOfTwo(a) /\ fits = {} /\ ~AtEnd(h) /\ ~CAN_ALLOC_P(h, fresh)
  <2>1. memalign(h, a, sz) = Result(h, NULL)  BY <1>5 DEF memalign
  <2>2. Serves(h, held, Result(h, NULL), n)  BY Refused DEF Keeps
  <2>3. AlignedBy(Result(h, NULL), a)  BY DEF AlignedBy, Result
  <2> QED  BY <2>1, <2>2, <2>3 DEF ServesAligned
<1>6. CASE PowerOfTwo(a) /\ fits = {} /\ ~AtEnd(h) /\ CAN_ALLOC_P(h, fresh)
  <2>1. memalign(h, a, sz) = CarveLast(g, n, a)  BY <1>6 DEF memalign
  <2>2. fresh \in Nat /\ fresh >= Entry /\ h.end \in Nat
    <3>1. h.end \in Nat /\ Word \in Nat /\ Entry \in Nat /\ h.end + Word \in Int
      <4>1. h.end \in Nat  BY Facts
      <4> QED  BY <4>1, Sizes
    <3>2. M_ALIGN(h.end + Word, a) \in 0 .. a - 1  BY <1>2, <1>6, <3>1, Padding
    <3> QED  BY <1>2, <1>6, <3>1, <3>2
  <2>3. h.end + fresh + Gap <= Limit
    <3> HIDE DEF fresh
    <3> QED  BY <1>6, <2>2, CanAlloc
  <2>4. DOMAIN t = DOMAIN z \cup {h.end} /\ t[h.end] = fresh /\ \A c \in DOMAIN z : c # h.end => t[c] = z[c]
    BY DEF Put
  <2> DEFINE e == h.end
             f == fresh
  <2>5. held \cup Spare(h) \subseteq DOMAIN h.size  BY Facts
  <2>6. AddsLast(h, held, e, f, t)
    <3>1. held \cup Spare(h) \cup {e} \subseteq DOMAIN t  BY <2>4, <2>5
    <3>2. \A c \in held \cup Spare(h) : c # e => t[c] = h.size[c]  BY <2>4, <2>5
    <3> HIDE DEF t, f
    <3> QED  BY <2>2, <2>3, <2>4, <3>1, <3>2 DEF AddsLast, f
  <2>7. HeapInv(g, held) /\ AtEnd(g)
    <3>1. g = [end |-> e + f, free |-> Append(h.free, e), size |-> t]  OBVIOUS
    <3> HIDE DEF g, t, f, e
    <3> QED  BY <1>6, <2>6, <3>1, AddFree
  <2>8. Keeps(h, g, held)
    <3>1. \A c \in held : c # e /\ c \in DOMAIN z
      <4>1. e \notin held \cup Spare(h)
        <5> HIDE DEF e, f, t
        <5> QED  BY <2>6, AddTaken
      <4> HIDE DEF e
      <4> QED  BY <2>5, <4>1
    <3>2. g.size = t  OBVIOUS
    <3> HIDE DEF g, t
    <3> QED  BY <2>4, <3>1, <3>2 DEF Keeps
  <2> HIDE DEF g
  <2>9. ServesAligned(g, held, CarveLast(g, n, a), n, a)  BY <1>2, <1>6, <2>7, CarveLastServes
  <2> QED  BY <2>1, <2>8, <2>9, ServedFrom
<1> QED  BY <1>1, <1>3, <1>4, <1>5, <1>6
-----------------------------------------------------------------------------
(* The heap h carries the blocks l that the program holds.                  *)
Carries(h, l) ==
    /\ HeapInv(h, DOMAIN l)
    /\ \A b \in DOMAIN l : l[b] \in Nat /\ l[b] + Word <= h.size[b]

(* The inductive invariant. None of the properties is inductive alone:      *)
(* free() finds the neighbours of a block only if the blocks tile the       *)
(* arena, and they tile it only if the list is in order and every header    *)
(* is right.                                                                *)
IInv == Carries(heap, live)

(* The result r serves a request for sz bytes.                              *)
Provides(r, sz) == \E n \in Nat : n >= sz + Word /\ Serves(heap, DOMAIN live, r, n)

(* The three ways a step changes what the program holds.                    *)
Allocated == \E b \in Nat, n \in Nat : b \notin DOMAIN live /\ live' = Put(live, b, n)
Freed == \E b \in DOMAIN live : live' = Forget(live, {b})
Resized ==
    \E b \in DOMAIN live, c \in Nat, n \in Nat :
        /\ live' = Put(Forget(live, {b}), c, n)
        /\ c # b => /\ c \notin DOMAIN live
                    /\ c + heap'.size[c] <= b \/ b + heap.size[b] <= c

(* The heap before the first call.                                          *)
LEMMA InitInv == Init => IInv
<1> SUFFICES ASSUME Init  PROVE IInv  OBVIOUS
<1> DEFINE h == heap
           z == h.size
           held == DOMAIN live
<1>1. h.end = Start /\ h.free = << >> /\ z = [b \in {} |-> 0] /\ held = {}  BY DEF Init
<1>2. h = [end |-> h.end, free |-> h.free, size |-> h.size]  BY DEF Init
<1>3. Spare(h) = {}  BY <1>1 DEF Spare, ToSet
<1>4. h.free \in Seq(Nat) /\ Rising(h.free)
  <2>1. << >> \in Seq(Nat) /\ Len(<< >>) = 0 /\ DOMAIN << >> = {}  OBVIOUS
  <2> QED  BY <1>1, <2>1 DEF Rising
<1>5. Tiles(held \cup Spare(h), z, h.end)
  <2>1. Start \in Nat /\ Start .. Start - 1 = {}  BY Sizes
  <2> HIDE DEF h, z, held
  <2> QED  BY <1>1, <1>3, <2>1 DEF Tiles
<1>6. h.end + Gap <= Limit  BY <1>1, HeapAssumption
<1> HIDE DEF h, z, held
<1>7. HeapInv(h, held)  BY <1>1, <1>2, <1>3, <1>4, <1>5, <1>6 DEF HeapInv, z
<1> QED  BY <1>1, <1>7 DEF IInv, Carries, h, held

(* A program that keeps what an allocator returned.                         *)
LEMMA GetsInv ==
    ASSUME IInv, NEW r, NEW sz \in Nat, Provides(r, sz), Gets(r, sz)
    PROVE  IInv' /\ (live' = live \/ Allocated)
<1>1. PICK n \in Nat : n >= sz + Word /\ Serves(heap, DOMAIN live, r, n)  BY DEF Provides
<1>2. heap' = r.heap  BY DEF Gets
<1>3. Keeps(heap, heap', DOMAIN live)  BY <1>1, <1>2 DEF Serves
<1>4. HeapInv(heap, DOMAIN live) /\ \A b \in DOMAIN live : live[b] \in Nat /\ live[b] + Word <= heap.size[b]
  BY DEF IInv, Carries
<1>5. CASE r.block = NULL
  <2>1. live' = live  BY <1>5 DEF Gets
  <2>2. HeapInv(heap', DOMAIN live')  BY <1>1, <1>2, <1>5, <2>1 DEF Serves
  <2> QED  BY <1>3, <1>4, <2>1, <2>2 DEF IInv, Carries, Keeps
<1>6. CASE r.block # NULL
  <2> DEFINE b == r.block
  <2>1. live' = Put(live, b, sz)  BY <1>6 DEF Gets
  <2>2. b \in Nat /\ b \notin DOMAIN live /\ HeapInv(heap', DOMAIN live \cup {b}) /\ heap'.size[b] >= n
    BY <1>1, <1>2, <1>6 DEF Serves
  <2> HIDE DEF b
  <2>3. DOMAIN live' = DOMAIN live \cup {b} /\ live'[b] = sz /\ \A c \in DOMAIN live : live'[c] = live[c]
    BY <2>1, <2>2 DEF Put
  <2>4. live'[b] + Word <= heap'.size[b]
    <3>1. heap'.size[b] \in Nat
      <4> DEFINE k == DOMAIN live \cup {b}
                 g == heap'
      <4>1. b \in k /\ HeapInv(g, k)  BY <2>2
      <4> HIDE DEF k, g
      <4>2. b \in k \cup Spare(g)  BY <4>1
      <4>3. g.size[b] \in Nat  BY <4>1, <4>2, Facts
      <4> QED  BY <4>3 DEF g
    <3> QED  BY <1>1, <2>2, <2>3, <3>1, Sizes
  <2>5. \A c \in DOMAIN live' : live'[c] \in Nat /\ live'[c] + Word <= heap'.size[c]
    BY <1>3, <1>4, <2>3, <2>4 DEF Keeps
  <2> QED  BY <2>1, <2>2, <2>3, <2>5 DEF IInv, Carries, Allocated
<1> QED  BY <1>5, <1>6

(* malloc() serves a request that does not wrap.                            *)
LEMMA MallocProvides ==
    ASSUME IInv, NEW sz \in Nat, sz + Entry <= AddressSpace
    PROVE  Provides(malloc(heap, sz), sz)
<1> DEFINE n == REAL_SIZE(sz)
<1>1. n \in Nat /\ n >= Entry /\ n >= sz + Word  BY RealSize
<1>2. HeapInv(heap, DOMAIN live)  BY DEF IInv, Carries
<1>3. Serves(heap, DOMAIN live, malloc(heap, sz), n)
  <2> HIDE DEF n
  <2> QED  BY <1>1, <1>2, MallocServes DEF n
<1> QED  BY <1>1, <1>3 DEF Provides

(* memalign() serves a request that does not wrap, at any alignment.        *)
LEMMA MemalignProvides ==
    ASSUME IInv, NEW a \in Nat, NEW sz \in Nat, sz + Entry <= AddressSpace
    PROVE  Provides(memalign(heap, a, sz), sz) /\ AlignedBy(memalign(heap, a, sz), a)
<1> DEFINE n == REAL_SIZE(sz)
<1>1. n \in Nat /\ n >= Entry /\ n >= sz + Word  BY RealSize
<1>2. HeapInv(heap, DOMAIN live)  BY DEF IInv, Carries
<1>3. ServesAligned(heap, DOMAIN live, memalign(heap, a, sz), n, a)
  <2> HIDE DEF n
  <2> QED  BY <1>1, <1>2, MemalignServes DEF n
<1> QED  BY <1>1, <1>3 DEF Provides, ServesAligned

(* The requests of the program do not wrap, even when rounded up to a       *)
(* page.                                                                    *)
LEMMA Requested ==
    /\ \A sz \in Requests \cup {4} :
          sz \in Nat /\ sz + Entry <= AddressSpace /\ sz < AddressSpace
          /\ \A x \in Nat : x <= sz + Page => x + Entry <= AddressSpace
    /\ Page \in Nat \ {0} /\ AddressSpace \in Nat \ {0} /\ Alignments \subseteq Nat
<1>1. /\ Word \in Nat \ {0} /\ AddressSpace \in Nat /\ Page \in Nat \ {0} /\ Alignments \subseteq Nat
      /\ \A sz \in Requests \cup {4} : sz \in Nat /\ sz + Page + 2 * Word <= AddressSpace
  BY HeapAssumption
<1>2. ASSUME NEW sz \in Requests \cup {4}
      PROVE  /\ sz \in Nat /\ sz + Entry <= AddressSpace /\ sz < AddressSpace
             /\ \A x \in Nat : x <= sz + Page => x + Entry <= AddressSpace
  <2>1. sz \in Nat /\ sz + Page + 2 * Word <= AddressSpace  BY <1>1
  <2> QED  BY <1>1, <2>1 DEF Entry
<1>3. AddressSpace # 0  BY <1>1
<1> QED  BY <1>1, <1>2, <1>3

(* calloc() is malloc() of the product.                                     *)
LEMMA CallocInv == ASSUME IInv, Calloc  PROVE IInv' /\ (live' = live \/ Allocated)
<1>1. PICK n \in {0, 1, 2}, e \in {2} : Gets(calloc(heap, n, e), n * e)  BY DEF Calloc
<1> DEFINE sz == n * e
<1>2. sz \in {0, 2, 4}  BY <1>1
<1>3. AddressSpace \in Nat /\ 4 + Entry <= AddressSpace /\ 4 < AddressSpace  BY Requested
<1>4. sz \in Nat /\ sz + Entry <= AddressSpace /\ sz % AddressSpace = sz
  <2> HIDE DEF sz
  <2> QED  BY <1>2, <1>3, Sizes
<1>5. Gets(malloc(heap, sz), sz)  BY <1>1, <1>4 DEF calloc
<1> HIDE DEF sz
<1>6. Provides(malloc(heap, sz), sz)  BY <1>4, MallocProvides
<1> QED  BY <1>4, <1>5, <1>6, GetsInv

(* pvalloc() is memalign() of the size rounded up to a page.                *)
LEMMA PvallocInv == ASSUME IInv, Pvalloc  PROVE IInv' /\ (live' = live \/ Allocated)
<1>1. PICK sz \in Requests : Gets(pvalloc(heap, sz), sz)  BY DEF Pvalloc
<1> DEFINE m == sz + M_ALIGN(sz, Page)
           r == memalign(heap, Page, m)
<1>2. sz \in Nat /\ Page \in Nat \ {0}  BY Requested
<1>3. M_ALIGN(sz, Page) \in 0 .. Page - 1  BY <1>2, Padding
<1>4. m \in Nat /\ m >= sz /\ m <= sz + Page
  <2> DEFINE p == M_ALIGN(sz, Page)
  <2> HIDE DEF p
  <2> QED  BY <1>2, <1>3 DEF p
<1>5. m + Entry <= AddressSpace
  <2> HIDE DEF m
  <2> QED  BY <1>4, Requested
<1>6. Gets(r, sz)  BY <1>1 DEF pvalloc
<1> HIDE DEF m
<1>7. Provides(r, m)  BY <1>2, <1>4, <1>5, MemalignProvides
<1> HIDE DEF r
<1>8. Provides(r, sz)
  <2>1. PICK n \in Nat : n >= m + Word /\ Serves(heap, DOMAIN live, r, n)  BY <1>7 DEF Provides
  <2>2. n >= sz + Word  BY <1>2, <1>4, <2>1, Sizes
  <2> QED  BY <2>1, <2>2 DEF Provides
<1> QED  BY <1>2, <1>6, <1>8, GetsInv

(* free() of any block the program holds.                                   *)
LEMMA FreeInv == ASSUME IInv, Free  PROVE IInv' /\ Freed
<1>1. PICK b \in DOMAIN live : heap' = free(heap, b) /\ live' = Forget(live, {b})  BY DEF Free
<1>2. HeapInv(heap, DOMAIN live) /\ \A c \in DOMAIN live : live[c] \in Nat /\ live[c] + Word <= heap.size[c]
  BY DEF IInv, Carries
<1>3. HeapInv(heap', DOMAIN live \ {b}) /\ Keeps(heap, heap', DOMAIN live \ {b})
  BY <1>1, <1>2, FreeServes
<1>4. DOMAIN live' = DOMAIN live \ {b} /\ \A c \in DOMAIN live \ {b} : live'[c] = live[c]
  BY <1>1 DEF Forget, Restrict
<1>5. \A c \in DOMAIN live' : live'[c] \in Nat /\ live'[c] + Word <= heap'.size[c]
  BY <1>2, <1>3, <1>4 DEF Keeps
<1> QED  BY <1>1, <1>3, <1>4, <1>5 DEF IInv, Carries, Freed

(* realloc() of any block the program holds.                                *)
LEMMA ReallocInv == ASSUME IInv, Realloc  PROVE IInv' /\ (live' = live \/ Resized)
<1>1. PICK b \in DOMAIN live, sz \in Requests :
          LET r == realloc(heap, b, sz) IN
          /\ heap' = r.heap
          /\ live' = IF r.block = NULL THEN live ELSE Put(Forget(live, {b}), r.block, sz)
  BY DEF Realloc
<1> DEFINE r == realloc(heap, b, sz)
           n == REAL_SIZE(sz)
<1>2. sz \in Nat /\ sz + Entry <= AddressSpace  BY Requested
<1>3. n \in Nat /\ n >= Entry /\ n >= sz + Word  BY <1>2, RealSize
<1>4. HeapInv(heap, DOMAIN live) /\ \A c \in DOMAIN live : live[c] \in Nat /\ live[c] + Word <= heap.size[c]
  BY DEF IInv, Carries
<1>5. Moves(heap, DOMAIN live, b, r, n)
  <2> HIDE DEF n
  <2> QED  BY <1>3, <1>4, ReallocMoves DEF n
<1>6. heap' = r.heap /\ live' = IF r.block = NULL THEN live ELSE Put(Forget(live, {b}), r.block, sz)
  BY <1>1
<1> HIDE DEF r, n
<1>7. CASE r.block = NULL
  <2>1. HeapInv(heap', DOMAIN live') /\ Keeps(heap, heap', DOMAIN live) /\ live' = live
    BY <1>5, <1>6, <1>7 DEF Moves
  <2> QED  BY <1>4, <2>1 DEF IInv, Carries, Keeps
<1>8. CASE r.block # NULL
  <2> DEFINE c == r.block
  <2>1. live' = Put(Forget(live, {b}), c, sz)  BY <1>6, <1>8
  <2>2. /\ c \in Nat /\ HeapInv(heap', (DOMAIN live \ {b}) \cup {c})
        /\ Keeps(heap, heap', DOMAIN live \ {b}) /\ heap'.size[c] >= n
        /\ c # b => c \notin DOMAIN live /\ (c + heap'.size[c] <= b \/ b + heap.size[b] <= c)
    BY <1>5, <1>6, <1>8 DEF Moves
  <2> HIDE DEF c
  <2>3. /\ DOMAIN live' = (DOMAIN live \ {b}) \cup {c} /\ live'[c] = sz
        /\ \A d \in DOMAIN live \ {b} : d # c => live'[d] = live[d]
    BY <2>1 DEF Put, Forget, Restrict
  <2>4. live'[c] + Word <= heap'.size[c]
    <3>1. heap'.size[c] \in Nat
      <4> DEFINE k == (DOMAIN live \ {b}) \cup {c}
                 g == heap'
      <4>1. c \in k /\ HeapInv(g, k)  BY <2>2
      <4> HIDE DEF k, g
      <4>2. c \in k \cup Spare(g)  BY <4>1
      <4>3. g.size[c] \in Nat  BY <4>1, <4>2, Facts
      <4> QED  BY <4>3 DEF g
    <3> QED  BY <1>2, <1>3, <2>2, <2>3, <3>1, Sizes
  <2>5. \A d \in DOMAIN live' : live'[d] \in Nat /\ live'[d] + Word <= heap'.size[d]
    BY <1>2, <1>4, <2>2, <2>3, <2>4 DEF Keeps
  <2>6. Resized  BY <1>2, <2>1, <2>2 DEF Resized
  <2> QED  BY <2>2, <2>3, <2>5, <2>6 DEF IInv, Carries
<1> QED  BY <1>7, <1>8

(* Every step keeps the inductive invariant and changes what is held in     *)
(* one of the three ways.                                                   *)
LEMMA NextInv == ASSUME IInv, Next  PROVE IInv' /\ (live' = live \/ Allocated \/ Freed \/ Resized)
<1>1. CASE Malloc
  <2>1. PICK sz \in Requests : Gets(malloc(heap, sz), sz)  BY <1>1 DEF Malloc
  <2>2. sz \in Nat /\ sz + Entry <= AddressSpace  BY Requested
  <2>3. Provides(malloc(heap, sz), sz)  BY <2>2, MallocProvides
  <2> QED  BY <2>1, <2>2, <2>3, GetsInv
<1>2. CASE Calloc  BY <1>2, CallocInv
<1>3. CASE Memalign
  <2>1. PICK a \in Alignments, sz \in Requests : Gets(memalign(heap, a, sz), sz)  BY <1>3 DEF Memalign
  <2>2. a \in Nat /\ sz \in Nat /\ sz + Entry <= AddressSpace  BY Requested
  <2>3. Provides(memalign(heap, a, sz), sz)  BY <2>2, MemalignProvides
  <2> QED  BY <2>1, <2>2, <2>3, GetsInv
<1>4. CASE Valloc
  <2>1. PICK sz \in Requests : Gets(memalign(heap, Page, sz), sz)  BY <1>4 DEF Valloc, valloc
  <2>2. Page \in Nat /\ sz \in Nat /\ sz + Entry <= AddressSpace  BY Requested
  <2>3. Provides(memalign(heap, Page, sz), sz)  BY <2>2, MemalignProvides
  <2> QED  BY <2>1, <2>2, <2>3, GetsInv
<1>5. CASE Pvalloc  BY <1>5, PvallocInv
<1>6. CASE Free  BY <1>6, FreeInv
<1>7. CASE Realloc  BY <1>7, ReallocInv
<1> QED  BY <1>1, <1>2, <1>3, <1>4, <1>5, <1>6, <1>7 DEF Next

(* Every heap that is reached satisfies the inductive invariant: the        *)
(* blocks the program holds and the free ones tile the arena.               *)
THEOREM AlwaysTiled == Spec => []IInv
<1>1. Init => IInv  BY InitInv
<1>2. IInv /\ [Next]_vars => IInv'
  <2> SUFFICES ASSUME IInv, [Next]_vars  PROVE IInv'  OBVIOUS
  <2>1. CASE Next  BY <2>1, NextInv
  <2>2. CASE UNCHANGED vars  BY <2>2 DEF vars, IInv, Carries
  <2> QED  BY <2>1, <2>2
<1> QED  BY <1>1, <1>2, PTL DEF Spec
-----------------------------------------------------------------------------
(* The free list is always in the order of the addresses and no two of      *)
(* its blocks touch.                                                        *)
THEOREM AlwaysTidy == Spec => []FreeListTidy
<1>1. ASSUME IInv  PROVE FreeListTidy
  <2> DEFINE s == heap.free
             z == heap.size
             n == Len(s)
             held == DOMAIN live
  <2>1. HeapInv(heap, held)  BY <1>1 DEF IInv, Carries
  <2>2. /\ DOMAIN s = 1 .. n /\ n \in Nat
        /\ \A j, k \in DOMAIN s : j < k => s[j] < s[k]
        /\ \A j \in DOMAIN s : s[j] \in Nat /\ s[j] \in Spare(heap)
        /\ \A b \in Spare(heap) : z[b] \in Nat
        /\ \A b, c \in held \cup Spare(heap) : b < c => b + z[b] <= c
        /\ \A b, c \in Spare(heap) : b + z[b] # c
    <3> HIDE DEF held
    <3> QED  BY <2>1, Facts
  <2>3. ASSUME NEW i \in 1 .. n - 1  PROVE s[i] + z[s[i]] < s[i + 1]
    <3>1. i \in DOMAIN s /\ i + 1 \in DOMAIN s /\ i < i + 1
      <4> HIDE DEF n, s
      <4> QED  BY <2>2
    <3> DEFINE b == s[i]
               c == s[i + 1]
    <3>2. b < c /\ b \in Nat /\ c \in Nat /\ b \in Spare(heap) /\ c \in Spare(heap)  BY <2>2, <3>1
    <3> HIDE DEF s, n, b, c, held, z
    <3>3. z[b] \in Nat /\ b + z[b] <= c /\ b + z[b] # c  BY <2>2, <3>2
    <3>4. b + z[b] < c  BY <3>2, <3>3
    <3> QED  BY <3>4 DEF b, c
  <2> QED  BY <2>3 DEF FreeListTidy, EndOf
<1> QED  BY <1>1, AlwaysTiled, PTL

(* The sums of the loop of mallinfo() over the first n free blocks.         *)
IsSum(h, n, f) == f = [i \in 0 .. n |-> IF i = 0 THEN 0 ELSE f[i - 1] + h.size[h.free[i]]]

(* The sums of a longer list go on from those of a shorter one.             *)
LEMMA OneMoreSum ==
    ASSUME NEW h, NEW n \in Nat \ {0}, NEW f, IsSum(h, n - 1, f)
    PROVE  \E g : IsSum(h, n, g)
<1> DEFINE g == [i \in 0 .. n |-> IF i = n THEN f[n - 1] + h.size[h.free[n]] ELSE f[i]]
<1>1. \A i \in 0 .. n - 1 : f[i] = IF i = 0 THEN 0 ELSE f[i - 1] + h.size[h.free[i]]  BY DEF IsSum
<1>2. ASSUME NEW i \in 0 .. n
      PROVE  g[i] = IF i = 0 THEN 0 ELSE g[i - 1] + h.size[h.free[i]]
  <2>1. CASE i = n
    <3>1. n - 1 \in 0 .. n /\ n - 1 # n /\ n # 0  OBVIOUS
    <3>2. g[n - 1] = f[n - 1]  BY <3>1
    <3> QED  BY <2>1, <3>1, <3>2
  <2>2. CASE i # n
    <3>1. i \in 0 .. n - 1  BY <2>2
    <3>2. i # 0 => i - 1 \in 0 .. n /\ i - 1 # n  BY <3>1
    <3> QED  BY <1>1, <2>2, <3>1, <3>2
  <2> QED  BY <2>1, <2>2
<1>3. IsSum(h, n, g)  BY <1>2 DEF IsSum
<1> QED  BY <1>3

(* The loop has a sum for every list.                                       *)
LEMMA SumExists ==
    ASSUME NEW h, NEW n \in Nat
    PROVE  \E f : IsSum(h, n, f)
<1> DEFINE Bad == {i \in 1 .. n : ~\E f : IsSum(h, i, f)}
<1>1. IsSum(h, 0, [i \in 0 .. 0 |-> 0])  BY DEF IsSum
<1>2. SUFFICES ASSUME Bad # {}  PROVE FALSE
  BY <1>1
<1> DEFINE m == Min(Bad)
<1>3. m \in Bad /\ \A i \in Bad : m <= i
  <2> DEFINE B == Bad
  <2>1. B \in SUBSET (1 .. n) /\ B # {}  BY <1>2
  <2> HIDE DEF B
  <2>2. Min(B) \in B /\ \A i \in B : Min(B) <= i  BY <2>1, FirstOf
  <2> QED  BY <2>2 DEF B
<1>4. m \in 1 .. n /\ ~\E f : IsSum(h, m, f)  BY <1>3
<1>5. \A i \in 1 .. n : i < m => \E f : IsSum(h, i, f)
  <2> HIDE DEF m
  <2> QED  BY <1>3, <1>4
<1> HIDE DEF m, Bad
<1>6. \E f : IsSum(h, m - 1, f)
  <2>1. CASE m = 1  BY <1>1, <2>1
  <2>2. CASE m # 1
    <3>1. m - 1 \in 1 .. n /\ m - 1 < m  BY <1>4, <2>2
    <3> QED  BY <1>5, <3>1
  <2> QED  BY <2>1, <2>2
<1>7. m \in Nat \ {0}  BY <1>4
<1> QED  BY <1>4, <1>6, <1>7, OneMoreSum

(* What the loop has added up after i blocks.                               *)
LEMMA FreeSizesAre ==
    ASSUME NEW h, Len(h.free) \in Nat
    PROVE  /\ FreeSizes(h)[0] = 0
           /\ \A i \in 1 .. Len(h.free) : FreeSizes(h)[i] = FreeSizes(h)[i - 1] + h.size[h.free[i]]
<1> DEFINE n == Len(h.free)
           f == FreeSizes(h)
<1>1. IsSum(h, n, f)
  <2>1. PICK g : IsSum(h, n, g)  BY SumExists
  <2> QED  BY <2>1 DEF IsSum, FreeSizes
<1> HIDE DEF f
<1>2. \A i \in 0 .. n : f[i] = IF i = 0 THEN 0 ELSE f[i - 1] + h.size[h.free[i]]  BY <1>1 DEF IsSum
<1> HIDE DEF n
<1>3. n \in Nat  BY DEF n
<1>4. f[0] = 0 /\ \A i \in 1 .. n : f[i] = f[i - 1] + h.size[h.free[i]]  BY <1>2, <1>3
<1> QED  BY <1>4 DEF f, n

(* The bytes of the first n free blocks.                                    *)
FreeBytes(h, n) == {x \in Start .. h.end - 1 :
                  \E i \in 1 .. n : x \in h.free[i] .. (h.free[i] + h.size[h.free[i]]) - 1}

(* The next free block has bytes of its own.                                *)
LEMMA OneMoreFree ==
    ASSUME NEW h, NEW held, HeapInv(h, held), NEW n \in 1 .. Len(h.free),
           IsFiniteSet(FreeBytes(h, n - 1))
    PROVE  /\ IsFiniteSet(FreeBytes(h, n))
           /\ Cardinality(FreeBytes(h, n)) = Cardinality(FreeBytes(h, n - 1)) + h.size[h.free[n]]
<1> DEFINE b == h.free[n]
           z == h.size[b]
           S == b .. (b + z) - 1
           P == FreeBytes(h, n - 1)
<1>1. Len(h.free) \in Nat /\ \A i \in 1 .. Len(h.free) : h.free[i] \in Spare(h)  BY Facts DEF Spare, ToSet
<1>2. \A c \in Spare(h) : c \in Nat /\ h.size[c] \in Nat /\ Start <= c /\ c + h.size[c] <= h.end  BY Facts
<1>3. b \in Spare(h) /\ b \in Nat /\ z \in Nat /\ Start <= b /\ b + z <= h.end  BY <1>1, <1>2
<1>4. h.end \in Nat /\ Start \in Nat  BY Facts, Sizes
<1> HIDE DEF z, P
<1>5. IsFiniteSet(S) /\ Cardinality(S) = z
  <2>1. (b + z) - 1 \in Int /\ b \in Int  BY <1>3
  <2>2. IsFiniteSet(S) /\ Cardinality(S) = IF b > (b + z) - 1 THEN 0 ELSE (((b + z) - 1) - b) + 1
    BY <2>1, FS_Interval
  <2> QED  BY <1>3, <2>2
<1>6. FreeBytes(h, n) = P \cup S
  <2>1. n \in 1 .. n /\ \A i \in 1 .. n : i = n \/ i \in 1 .. n - 1  BY <1>1
  <2>2. \A i \in 1 .. n - 1 : i \in 1 .. n  BY <1>1
  <2>3. \A x \in S : x \in Start .. h.end - 1  BY <1>3, <1>4
  <2> QED  BY <2>1, <2>2, <2>3 DEF P, FreeBytes, z
<1>7. P \cap S = {}
  <2> SUFFICES ASSUME NEW x \in P, x \in S  PROVE FALSE  OBVIOUS
  <2>1. PICK i \in 1 .. n - 1 : x \in h.free[i] .. (h.free[i] + h.size[h.free[i]]) - 1  BY DEF P, FreeBytes
  <2>2. i \in 1 .. Len(h.free) /\ n \in 1 .. Len(h.free) /\ i < n  BY <1>1
  <2>3. h.free[i] < b
    <3>1. Rising(h.free) /\ DOMAIN h.free = 1 .. Len(h.free)  BY Facts
    <3> QED  BY <2>2, <3>1 DEF Rising
  <2> DEFINE c == h.free[i]
  <2>4. c \in Spare(h) /\ c < b  BY <1>1, <2>2, <2>3
  <2> HIDE DEF b, c
  <2>5. c + h.size[c] <= b  BY <1>3, <2>4, Facts
  <2>6. x \in c .. (c + h.size[c]) - 1  BY <2>1 DEF c
  <2>7. c \in Nat /\ h.size[c] \in Nat  BY <1>2, <2>4
  <2> QED  BY <1>3, <2>5, <2>6, <2>7
<1>8. IsFiniteSet(P)  BY DEF P
<1> HIDE DEF S, b
<1>9. IsFiniteSet(P \cup S) /\ Cardinality(P \cup S) = Cardinality(P) + Cardinality(S) - Cardinality(P \cap S)
  BY <1>5, <1>8, FS_Union
<1>10. Cardinality(P \cap S) = 0 /\ Cardinality(P) \in Nat  BY <1>7, <1>8, FS_EmptySet, FS_CardinalityType
<1>11. Cardinality(P \cup S) = Cardinality(P) + z  BY <1>3, <1>5, <1>9, <1>10
<1> QED  BY <1>6, <1>9, <1>11 DEF P, z, b

(* The loop counts the bytes of the free blocks.                            *)
LEMMA FreeSizesCount ==
    ASSUME NEW h, NEW held, HeapInv(h, held)
    PROVE  /\ IsFiniteSet(FreeBytes(h, Len(h.free)))
           /\ FreeSizes(h)[Len(h.free)] = Cardinality(FreeBytes(h, Len(h.free)))
<1> DEFINE L == Len(h.free)
           Counts(n) == IsFiniteSet(FreeBytes(h, n)) /\ FreeSizes(h)[n] = Cardinality(FreeBytes(h, n))
           Bad == {n \in 1 .. L : ~Counts(n)}
<1>1. L \in Nat  BY Facts
<1>2. FreeSizes(h)[0] = 0 /\ \A i \in 1 .. L : FreeSizes(h)[i] = FreeSizes(h)[i - 1] + h.size[h.free[i]]
  BY <1>1, FreeSizesAre
<1>3. Counts(0)
  <2>1. FreeBytes(h, 0) = {}  BY DEF FreeBytes
  <2> QED  BY <1>2, <2>1, FS_EmptySet
<1>4. ASSUME NEW n \in 1 .. L, Counts(n - 1)  PROVE Counts(n)
  <2>1. IsFiniteSet(FreeBytes(h, n)) /\ Cardinality(FreeBytes(h, n)) = Cardinality(FreeBytes(h, n - 1)) + h.size[h.free[n]]
    BY <1>4, OneMoreFree
  <2> QED  BY <1>2, <1>4, <2>1
<1> HIDE DEF Counts, L
<1>5. SUFFICES ASSUME Bad # {}  PROVE FALSE
  <2>1. L = 0 \/ L \in 1 .. L  BY <1>1
  <2>2. Bad = {} => Counts(L)  BY <1>3, <2>1
  <2> QED  BY <2>2 DEF Counts, L
<1> DEFINE m == Min(Bad)
<1>6. m \in Bad /\ \A i \in Bad : m <= i
  <2> DEFINE B == Bad
  <2>1. B \in SUBSET (1 .. L) /\ B # {}  BY <1>5
  <2> HIDE DEF B
  <2>2. Min(B) \in B /\ \A i \in B : Min(B) <= i  BY <1>1, <2>1, FirstOf
  <2> QED  BY <2>2 DEF B
<1>7. m \in 1 .. L /\ ~Counts(m)  BY <1>6
<1>8. \A i \in 1 .. L : i < m => Counts(i)
  <2> HIDE DEF m
  <2> QED  BY <1>6, <1>7
<1> HIDE DEF m, Bad
<1>9. Counts(m - 1)
  <2>1. CASE m = 1  BY <1>3, <2>1
  <2>2. CASE m # 1
    <3>1. m - 1 \in 1 .. L /\ m - 1 < m  BY <1>1, <1>7, <2>2
    <3> QED  BY <1>8, <3>1
  <2> QED  BY <2>1, <2>2
<1> QED  BY <1>4, <1>7, <1>9

(* What mallinfo() says is in use is what the program holds.                *)
LEMMA UsedIsHeld == IInv => mallinfo(heap).uordblks = Cardinality(Held)
<1> SUFFICES ASSUME IInv  PROVE mallinfo(heap).uordblks = Cardinality(Held)  OBVIOUS
<1> DEFINE h == heap
           held == DOMAIN live
           A == Start .. h.end - 1
           F == FreeBytes(h, Len(h.free))
<1>1. HeapInv(h, held)  BY DEF IInv, Carries
<1>2. h.end \in Nat /\ Start \in Nat /\ Start <= h.end  BY <1>1, Facts, Sizes
<1>3. IsFiniteSet(A) /\ Cardinality(A) = h.end - Start
  <2>1. Start \in Int /\ h.end - 1 \in Int  BY <1>2
  <2>2. IsFiniteSet(A) /\ Cardinality(A) = IF Start > h.end - 1 THEN 0 ELSE ((h.end - 1) - Start) + 1
    BY <2>1, FS_Interval
  <2> QED  BY <1>2, <2>2
<1>4. IsFiniteSet(F) /\ FreeSizes(h)[Len(h.free)] = Cardinality(F)  BY <1>1, FreeSizesCount
<1>5. Held = A \ F
  <2> HIDE DEF h, held
  <2>0. h = heap /\ held = DOMAIN live  BY DEF h, held
  <2>1. \A i \in 1 .. Len(h.free) : h.free[i] \in Spare(h)  BY <1>1, Facts DEF Spare, ToSet
  <2>2. \A b \in Spare(h) : \E i \in 1 .. Len(h.free) : h.free[i] = b
    <3>1. DOMAIN h.free = 1 .. Len(h.free)  BY <1>1, Facts
    <3> QED  BY <3>1 DEF Spare, ToSet
  <2>3. \A x \in A : x \in F <=> \E b \in Spare(h) : x \in b .. (b + h.size[b]) - 1
    BY <2>1, <2>2 DEF FreeBytes
  <2>4. \A x \in A : x \in Held <=> \E b \in held : x \in b .. (b + h.size[b]) - 1
    BY <2>0 DEF Held, EndOf
  <2>5. \A x \in A : \E b \in held \cup Spare(h) : x \in b .. (b + h.size[b]) - 1
    <3> TAKE x \in A
    <3>1. PICK b \in held \cup Spare(h) : b <= x /\ x < b + h.size[b]  BY <1>1 DEF HeapInv, Tiles
    <3>2. b \in Nat /\ h.size[b] \in Nat  BY <1>1, Facts
    <3>3. x \in Int  BY <1>2
    <3> QED  BY <3>1, <3>2, <3>3
  <2>6. ASSUME NEW x \in A, NEW b \in held, NEW c \in Spare(h),
               x \in b .. (b + h.size[b]) - 1, x \in c .. (c + h.size[c]) - 1
        PROVE  FALSE
    <3>1. b # c
      <4>1. held \cap Spare(h) = {}  BY <1>1, Facts
      <4> QED  BY <4>1
    <3>2. b + h.size[b] <= c \/ c + h.size[c] <= b  BY <1>1, <3>1, Apart
    <3>3. b \in Nat /\ c \in Nat /\ h.size[b] \in Nat /\ h.size[c] \in Nat  BY <1>1, Facts
    <3> QED  BY <2>6, <3>2, <3>3
  <2>7. Held \subseteq A /\ F \subseteq A  BY <2>0 DEF Held, FreeBytes
  <2> HIDE DEF A, F
  <2>8. \A x \in A : x \in Held <=> ~(x \in F)  BY <2>3, <2>4, <2>5, <2>6
  <2> QED  BY <2>7, <2>8
<1>6. A \cap F = F  BY DEF FreeBytes
<1>7. mallinfo(heap).uordblks = (h.end - Start) - FreeSizes(h)[Len(h.free)]  BY DEF mallinfo
<1> HIDE DEF A, F, h
<1>8. Cardinality(A \ F) = Cardinality(A) - Cardinality(A \cap F)  BY <1>3, FS_Difference
<1> QED  BY <1>3, <1>4, <1>5, <1>6, <1>7, <1>8

(* Every byte of the arena is always in exactly one block that is free or   *)
(* held, and mallinfo() counts the bytes of those that are held.            *)
THEOREM NoByteIsLost == Spec => []NoByteLost
<1>1. ASSUME IInv  PROVE NoByteLost
  <2> DEFINE held == DOMAIN live
             z == heap.size
             e == heap.end
  <2>1. HeapInv(heap, held)  BY <1>1 DEF IInv, Carries
  <2>2. Blocks = held \cup Spare(heap)  BY DEF Blocks, Spare
  <2>3. held \cap Spare(heap) = {}
    <3> HIDE DEF held
    <3> QED  BY <2>1, Facts
  <2>4. Tiles(Blocks, z, e)  BY <2>1, <2>2 DEF HeapInv
  <2>5. \A b \in Blocks : z[b] >= Entry /\ Start <= b /\ b + z[b] <= e  BY <2>4 DEF Tiles
  <2>6. \A b, c \in Blocks : b # c => b + z[b] <= c \/ c + z[c] <= b
    <3> HIDE DEF held
    <3> QED  BY <2>1, <2>2, Apart
  <2>7. ASSUME NEW x \in Start .. e - 1  PROVE \E b \in Blocks : x \in b .. (b + z[b]) - 1
    <3>1. PICK b \in Blocks : b <= x /\ x < b + z[b]  BY <2>4 DEF Tiles
    <3> HIDE DEF z, e
    <3>2. b \in Nat /\ z[b] \in Nat /\ e \in Nat  BY <2>4 DEF Tiles
    <3>3. x \in Int  BY Sizes
    <3>4. x \in b .. (b + z[b]) - 1  BY <3>1, <3>2, <3>3
    <3> QED  BY <3>4
  <2>8. DOMAIN live \cap ToSet(heap.free) = {}  BY <2>3 DEF Spare
  <2> QED  BY <1>1, <2>5, <2>6, <2>7, <2>8, UsedIsHeld DEF NoByteLost, EndOf
<1> QED  BY <1>1, AlwaysTiled, PTL

(* No path of malloc() or memalign() ever takes a byte of the gap below     *)
(* the stack.                                                               *)
THEOREM AlwaysAGap == Spec => []KeepsGap
<1>1. IInv => KeepsGap  BY DEF IInv, Carries, HeapInv, KeepsGap
<1> QED  BY <1>1, AlwaysTiled, PTL

(* A block is never smaller than what was asked for, and memalign()         *)
(* returns an aligned pointer or null from every heap that is reached.      *)
THEOREM AlwaysAsAsked == Spec => []BlocksAsAsked
<1>1. ASSUME IInv  PROVE BlocksAsAsked
  <2>1. ASSUME NEW b \in DOMAIN live  PROVE malloc_usable_size(heap, b) >= live[b]
    <3> DEFINE k == DOMAIN live
    <3>1. HeapInv(heap, k) /\ live[b] \in Nat /\ live[b] + Word <= heap.size[b]  BY <1>1 DEF IInv, Carries
    <3>2. b \in k \cup Spare(heap)  OBVIOUS
    <3> HIDE DEF k
    <3>3. heap.size[b] \in Nat  BY <3>1, <3>2, Facts
    <3>4. heap.size[b] - Word >= live[b]  BY <3>1, <3>3, Sizes
    <3> QED  BY <3>4 DEF malloc_usable_size
  <2>2. ASSUME NEW a \in Alignments, NEW sz \in Requests
        PROVE  AlignedBy(memalign(heap, a, sz), a)
    <3>1. a \in Nat /\ sz \in Nat /\ sz + Entry <= AddressSpace  BY Requested
    <3> QED  BY <1>1, <3>1, MemalignProvides
  <2> QED  BY <2>1, <2>2 DEF BlocksAsAsked, AlignedBy
<1> QED  BY <1>1, AlwaysTiled, PTL

(* The bytes of a chunk lie in its block.                                   *)
LEMMA ChunkFits ==
    ASSUME NEW h, NEW l, Carries(h, l), NEW b \in DOMAIN l
    PROVE  /\ b \in Nat /\ l[b] \in Nat /\ h.size[b] \in Nat
           /\ Start <= b /\ b + h.size[b] <= Limit - Gap
           /\ l[b] + Word <= h.size[b]
           /\ \A c \in DOMAIN l : c # b => b + h.size[b] <= c \/ c + h.size[c] <= b
<1> DEFINE k == DOMAIN l
           z == h.size
           e == h.end
<1>1. HeapInv(h, k) /\ l[b] \in Nat /\ l[b] + Word <= z[b]  BY DEF Carries
<1>2. b \in k \cup Spare(h)  OBVIOUS
<1>3. \A c \in DOMAIN l : c \in k \cup Spare(h)  OBVIOUS
<1> HIDE DEF k
<1>4. b \in Nat /\ z[b] \in Nat /\ Start <= b /\ b + z[b] <= e /\ e \in Nat /\ e + Gap <= Limit
  BY <1>1, <1>2, Facts
<1>5. \A c \in DOMAIN l : c # b => b + z[b] <= c \/ c + z[c] <= b  BY <1>1, <1>2, <1>3, Apart
<1> HIDE DEF z, e
<1>6. b + z[b] <= Limit - Gap  BY <1>4, Sizes
<1> QED  BY <1>1, <1>4, <1>5, <1>6 DEF z

(* Two stretches of bytes that lie in blocks that are apart. *)
LEMMA BytesApart ==
    ASSUME NEW b \in Nat, NEW c \in Nat, NEW m \in Nat, NEW n \in Nat, NEW x \in Nat, NEW y \in Nat,
           m + Word <= x, n + Word <= y, b + x <= c \/ c + y <= b
    PROVE  Chunks!Bytes(b + Word, m) \cap Chunks!Bytes(c + Word, n) = {}
<1> SUFFICES ASSUME NEW q \in Chunks!Bytes(b + Word, m), q \in Chunks!Bytes(c + Word, n)  PROVE FALSE
  OBVIOUS
<1>1. Word \in Nat  BY Sizes
<1>2. q \in Int /\ b + Word <= q /\ q <= b + Word + m - 1 /\ c + Word <= q /\ q <= c + Word + n - 1
  BY <1>1 DEF Chunks!Bytes
<1> QED  BY <1>1, <1>2

(* The bytes of a chunk lie in the arena.                                   *)
LEMMA BytesInside ==
    ASSUME NEW h, NEW l, Carries(h, l), NEW b \in DOMAIN l
    PROVE  Chunks!Bytes(b + Word, l[b]) \subseteq Start .. (Limit - Gap) - 1
<1> DEFINE m == l[b]
           x == h.size[b]
<1>1. b \in Nat /\ m \in Nat /\ x \in Nat /\ Start <= b /\ b + x <= Limit - Gap /\ m + Word <= x
  BY ChunkFits
<1> HIDE DEF m, x
<1>2. \A q \in Chunks!Bytes(b + Word, m) : q \in Start .. (Limit - Gap) - 1
  BY <1>1, Sizes DEF Chunks!Bytes
<1> QED  BY <1>2 DEF m
-----------------------------------------------------------------------------
(* The chunks of the abstract heap: the mapping of ServesChunks.            *)
Mapped(l) == [p \in {b + Word : b \in DOMAIN l} |-> l[p - Word]]

(* The chunks are those of the blocks, one word above them.                 *)
LEMMA MappedIs ==
    ASSUME NEW l, DOMAIN l \subseteq Nat
    PROVE  /\ DOMAIN Mapped(l) = {b + Word : b \in DOMAIN l}
           /\ \A b \in DOMAIN l : Mapped(l)[b + Word] = l[b]
           /\ \A b \in Nat : b + Word \in DOMAIN Mapped(l) <=> b \in DOMAIN l
<1>1. Word \in Nat  BY Sizes
<1>2. DOMAIN Mapped(l) = {b + Word : b \in DOMAIN l}  BY DEF Mapped
<1>3. ASSUME NEW b \in DOMAIN l  PROVE Mapped(l)[b + Word] = l[b]
  <2> DEFINE p == b + Word
  <2>1. p \in {c + Word : c \in DOMAIN l} /\ p - Word = b  BY <1>1
  <2> HIDE DEF p
  <2>2. Mapped(l)[p] = l[p - Word]  BY <2>1 DEF Mapped
  <2> QED  BY <2>1, <2>2 DEF p
<1>4. ASSUME NEW b \in Nat, b + Word \in DOMAIN Mapped(l)  PROVE b \in DOMAIN l
  <2>1. PICK c \in DOMAIN l : b + Word = c + Word  BY <1>2, <1>4
  <2>2. c \in Nat  OBVIOUS
  <2>3. b = c  BY <1>1, <2>1, <2>2
  <2> QED  BY <2>3
<1>5. \A b \in DOMAIN l : b + Word \in DOMAIN Mapped(l)  BY <1>2
<1> QED  BY <1>2, <1>3, <1>4, <1>5

(* The chunks after a step, from the blocks after it. *)
Pointers(S) == {b + Word : b \in S}

(* Some of the chunks C, and one of n bytes at p.                           *)
Placed(C, P, p, n) == [q \in P \cup {p} |-> IF q = p THEN n ELSE C[q]]

(* The blocks m are some of the blocks l, and one of n bytes at c.          *)
Becomes(l, others, c, n, m) ==
    /\ DOMAIN l \subseteq Nat /\ others \subseteq DOMAIN l /\ c \in Nat
    /\ DOMAIN m = others \cup {c} /\ m[c] = n /\ \A b \in others : b # c => m[b] = l[b]

LEMMA WithMapped ==
    ASSUME NEW l, NEW others, NEW c, NEW n, NEW m, Becomes(l, others, c, n, m)
    PROVE  Mapped(m) = Placed(Mapped(l), Pointers(others), c + Word, n)
<1> SUFFICES ASSUME DOMAIN l \subseteq Nat, others \subseteq DOMAIN l, c \in Nat,
                    DOMAIN m = others \cup {c}, m[c] = n, \A b \in others : b # c => m[b] = l[b]
             PROVE  Mapped(m) = Placed(Mapped(l), Pointers(others), c + Word, n)
  BY DEF Becomes
<1> DEFINE P == {b + Word : b \in others} \cup {c + Word}
           f == [q \in P |-> IF q = c + Word THEN n ELSE Mapped(l)[q]]
<1>1. DOMAIN m \subseteq Nat /\ Word \in Nat  BY Sizes
<1>2. P = {b + Word : b \in DOMAIN m}  OBVIOUS
<1>3. ASSUME NEW q \in P  PROVE Mapped(m)[q] = f[q]
  <2>1. PICK b \in DOMAIN m : q = b + Word  BY <1>2
  <2>2. Mapped(m)[q] = m[b]  BY <1>1, <2>1, MappedIs
  <2>3. CASE b = c  BY <2>1, <2>2, <2>3
  <2>4. CASE b # c
    <3>1. b \in others /\ b \in Nat /\ m[b] = l[b]  BY <1>1, <2>4
    <3>2. q # c + Word  BY <1>1, <2>1, <2>4, <3>1
    <3>3. Mapped(l)[q] = l[b]
      <4>1. b \in DOMAIN l  BY <3>1
      <4> QED  BY <2>1, <4>1, MappedIs
    <3>4. f[q] = Mapped(l)[q]  BY <3>2
    <3> QED  BY <2>2, <3>1, <3>3, <3>4
  <2> QED  BY <2>3, <2>4
<1>4. Mapped(m) = [q \in P |-> m[q - Word]]  BY <1>2 DEF Mapped
<1> HIDE DEF P
<1>5. Mapped(m) = [q \in P |-> Mapped(m)[q]]  BY <1>4
<1>6. f = [q \in P |-> f[q]]  OBVIOUS
<1> HIDE DEF f
<1>7. Mapped(m) = f  BY <1>3, <1>5, <1>6
<1> QED  BY <1>7 DEF f, P, Placed, Pointers

(* Two chunks share no byte.                                                *)
LEMMA ChunksApart ==
    ASSUME NEW h, NEW l, Carries(h, l), NEW b \in DOMAIN l, NEW c \in DOMAIN l, c # b
    PROVE  Chunks!Bytes(b + Word, l[b]) \cap Chunks!Bytes(c + Word, l[c]) = {}
<1> DEFINE x == h.size[b]
           y == h.size[c]
           i == l[b]
           j == l[c]
<1>1. /\ b \in Nat /\ i \in Nat /\ x \in Nat /\ i + Word <= x
      /\ \A d \in DOMAIN l : d # b => b + x <= d \/ d + h.size[d] <= b
  BY ChunkFits
<1>2. c \in Nat /\ j \in Nat /\ y \in Nat /\ j + Word <= y  BY ChunkFits
<1>3. b + x <= c \/ c + y <= b  BY <1>1
<1> HIDE DEF x, y, i, j
<1>4. Chunks!Bytes(b + Word, i) \cap Chunks!Bytes(c + Word, j) = {}  BY <1>1, <1>2, <1>3, BytesApart
<1> QED  BY <1>4 DEF i, j

(* An allocation is a step of the abstract heap.                            *)
LEMMA AllocateImplements ==
    ASSUME IInv, IInv', Allocated
    PROVE  \E b \in DOMAIN live' : Chunks!HAllocate(b + Word, live'[b], 1)
<1>1. PICK b \in Nat, n \in Nat : b \notin DOMAIN live /\ live' = Put(live, b, n)  BY DEF Allocated
<1> DEFINE l == live
           m == live'
           g == heap'
           p == b + Word
           C == Mapped(l)
<1>2. DOMAIN m = DOMAIN l \cup {b} /\ m[b] = n /\ \A c \in DOMAIN l : m[c] = l[c]
  BY <1>1 DEF Put
<1>3. DOMAIN l \subseteq Nat /\ \A c \in DOMAIN l : c # b
  <2>1. Carries(heap, l)  BY DEF IInv
  <2> HIDE DEF l
  <2> QED  BY <1>1, <2>1, ChunkFits DEF l
<1>4. Carries(g, m)  BY DEF IInv
<1>5. Word \in Nat /\ p \in Nat /\ p % 1 = 0  BY Sizes
<1>6. DOMAIN C = {c + Word : c \in DOMAIN l}  BY <1>3, MappedIs
<1>7. Chunks!Bytes(p, n) \subseteq Start .. (Limit - Gap) - 1
  <2> HIDE DEF m, g
  <2> QED  BY <1>2, <1>4, BytesInside
<1>8. p \notin DOMAIN C  BY <1>1, <1>3, MappedIs DEF l
<1>9. ASSUME NEW q \in DOMAIN C  PROVE Chunks!Bytes(p, n) \cap Chunks!Bytes(q, C[q]) = {}
  <2>1. PICK c \in DOMAIN l : q = c + Word  BY <1>6
  <2>2. C[q] = m[c] /\ c \in DOMAIN m /\ b \in DOMAIN m /\ c # b
    <3>1. C[q] = l[c]  BY <1>3, <2>1, MappedIs
    <3> QED  BY <1>2, <1>3, <2>1, <3>1
  <2> HIDE DEF m, g, l, C
  <2>3. Chunks!Bytes(b + Word, m[b]) \cap Chunks!Bytes(c + Word, m[c]) = {}
    BY <1>4, <2>2, ChunksApart
  <2> QED  BY <1>2, <2>1, <2>2, <2>3
<1>10. Mapped(m) = [q \in DOMAIN C \cup {p} |-> IF q = p THEN n ELSE C[q]]
  <2> DEFINE others == DOMAIN l
  <2>1. Becomes(l, others, b, n, m)
    <3> HIDE DEF l, m
    <3> QED  BY <1>2, <1>3 DEF Becomes
  <2>2. DOMAIN C = Pointers(others)  BY <1>6 DEF Pointers
  <2> HIDE DEF m, l, others
  <2>3. Mapped(m) = Placed(Mapped(l), Pointers(others), b + Word, n)  BY <2>1, WithMapped
  <2>4. Mapped(m) = Placed(C, DOMAIN C, p, n)  BY <2>2, <2>3
  <2> HIDE DEF C, p
  <2> QED  BY <2>4 DEF Placed
<1>11. Chunks!HAllocate(p, m[b], 1)
  <2>1. m[b] = n  BY <1>2
  <2>2. C = [q \in {c + Word : c \in DOMAIN live} |-> live[q - Word]]  BY DEF Mapped
  <2>3. Mapped(m) = [q \in {c + Word : c \in DOMAIN live'} |-> live'[q - Word]]  BY DEF Mapped
  <2> HIDE DEF m, C, p, g, l
  <2> QED  BY <1>5, <1>7, <1>8, <1>9, <1>10, <2>1, <2>2, <2>3
           DEF Chunks!HAllocate, Chunks!Fits, Chunks!With
<1> QED  BY <1>2, <1>11

(* A free is a step of the abstract heap.                                   *)
LEMMA FreeImplements ==
    ASSUME IInv, Freed
    PROVE  \E b \in DOMAIN live : Chunks!HFree(b + Word)
<1>1. PICK b \in DOMAIN live : live' = Forget(live, {b})  BY DEF Freed
<1> DEFINE l == live
           m == live'
           p == b + Word
           C == Mapped(l)
           D == Mapped(m)
<1>2. DOMAIN m = DOMAIN l \ {b} /\ \A c \in DOMAIN m : m[c] = l[c]
  BY <1>1 DEF Forget, Restrict
<1>3. DOMAIN l \subseteq Nat
  <2>1. Carries(heap, l)  BY DEF IInv
  <2> HIDE DEF l
  <2> QED  BY <2>1, ChunkFits
<1>4. DOMAIN m \subseteq Nat /\ b \in Nat /\ Word \in Nat  BY <1>2, <1>3, Sizes
<1>5. /\ DOMAIN C = {c + Word : c \in DOMAIN l} /\ DOMAIN D = {c + Word : c \in DOMAIN m}
      /\ \A c \in DOMAIN l : C[c + Word] = l[c]
      /\ \A c \in DOMAIN m : D[c + Word] = m[c]
      /\ p \in DOMAIN C
  BY <1>3, <1>4, MappedIs
<1>6. DOMAIN D = DOMAIN C \ {p}
  <2>1. \A c \in DOMAIN l : c + Word = p <=> c = b
    <3> TAKE c \in DOMAIN l
    <3>1. c \in Nat  BY <1>3
    <3> HIDE DEF l
    <3> QED  BY <1>4, <3>1
  <2> HIDE DEF C, D, m, l, p
  <2> QED  BY <1>2, <1>5, <2>1
<1>7. \A q \in DOMAIN D : D[q] = C[q]
  <2> TAKE q \in DOMAIN D
  <2>1. PICK c \in DOMAIN m : q = c + Word  BY <1>5
  <2>2. c \in DOMAIN l /\ m[c] = l[c]  BY <1>2
  <2> HIDE DEF C, D, m, l
  <2> QED  BY <1>5, <2>1, <2>2
<1>8. D = [q \in DOMAIN D |-> D[q]]  BY DEF Mapped
<1>9. D = [q \in DOMAIN C \ {p} |-> C[q]]
  <2> DEFINE P == DOMAIN C \ {p}
             f == [q \in P |-> C[q]]
  <2>1. DOMAIN f = P /\ f = [q \in P |-> f[q]] /\ \A q \in P : f[q] = C[q]  OBVIOUS
  <2> HIDE DEF f, D, C
  <2>2. D = f  BY <1>6, <1>7, <1>8, <2>1
  <2> QED  BY <2>2 DEF f
<1>10. Chunks!HFree(p)
  <2>1. C = [q \in {c + Word : c \in DOMAIN live} |-> live[q - Word]]  BY DEF Mapped
  <2>2. D = [q \in {c + Word : c \in DOMAIN live'} |-> live'[q - Word]]  BY DEF Mapped
  <2> HIDE DEF m, C, D, p, l
  <2> QED  BY <1>5, <1>9, <2>1, <2>2 DEF Chunks!HFree, Chunks!Without
<1> QED  BY <1>10

(* A realloc is a step of the abstract heap: the old chunk is still there   *)
(* to be copied from when the new one is elsewhere.                         *)
LEMMA ResizeImplements ==
    ASSUME IInv, IInv', Resized
    PROVE  \E b \in DOMAIN live, c \in DOMAIN live' : Chunks!HResize(b + Word, c + Word, live'[c])
<1>1. PICK b \in DOMAIN live, c \in Nat, n \in Nat :
          /\ live' = Put(Forget(live, {b}), c, n)
          /\ c # b => c \notin DOMAIN live /\ (c + heap'.size[c] <= b \/ b + heap.size[b] <= c)
  BY DEF Resized
<1> DEFINE l == live
           m == live'
           g == heap'
           p == b + Word
           q == c + Word
           C == Mapped(l)
           D == Mapped(m)
           others == DOMAIN l \ {b}
<1>2. DOMAIN m = others \cup {c} /\ m[c] = n /\ \A d \in others : d # c => m[d] = l[d]
  BY <1>1 DEF Put, Forget, Restrict
<1>3. DOMAIN l \subseteq Nat /\ b \in Nat /\ Word \in Nat
  <2>1. Carries(heap, l)  BY DEF IInv
  <2>2. Word \in Nat  BY Sizes
  <2> HIDE DEF l
  <2> QED  BY <2>1, <2>2, ChunkFits DEF l
<1>4. Carries(heap, l) /\ Carries(g, m) /\ c \in DOMAIN m  BY <1>2 DEF IInv
<1>5. /\ DOMAIN C = {d + Word : d \in DOMAIN l} /\ p \in DOMAIN C
      /\ \A d \in DOMAIN l : C[d + Word] = l[d]
  BY <1>3, MappedIs
<1>6. \A d \in DOMAIN l, e \in Nat : d \in Nat /\ (d + Word = e + Word <=> d = e)
  <2> TAKE d \in DOMAIN l, e \in Nat
  <2>1. d \in Nat  BY <1>3
  <2> HIDE DEF l
  <2> QED  BY <1>3, <2>1
<1>7. Chunks!Bytes(q, n) \subseteq Start .. (Limit - Gap) - 1
  <2> HIDE DEF m, g
  <2> QED  BY <1>2, <1>4, BytesInside
<1>8. q \notin DOMAIN C \ {p} /\ (p # q => q \notin DOMAIN C)
  <2>1. c # b => c \notin DOMAIN l  BY <1>1
  <2> HIDE DEF C, l
  <2>2. q \in DOMAIN C => c \in DOMAIN l  BY <1>5, <1>6
  <2> QED  BY <2>1, <2>2
<1>9. ASSUME NEW d \in others  PROVE Chunks!Bytes(q, n) \cap Chunks!Bytes(d + Word, C[d + Word]) = {}
  <2>1. d \in DOMAIN m /\ d # c /\ C[d + Word] = l[d] /\ m[d] = l[d]  BY <1>1, <1>2, <1>5
  <2> HIDE DEF m, g, l, C
  <2>2. Chunks!Bytes(c + Word, m[c]) \cap Chunks!Bytes(d + Word, m[d]) = {}
    BY <1>4, <2>1, ChunksApart
  <2> QED  BY <1>2, <2>1, <2>2
<1>10. ASSUME c # b  PROVE Chunks!Bytes(q, n) \cap Chunks!Bytes(p, C[p]) = {}
  <2> DEFINE x == g.size[c]
             y == heap.size[b]
             i == m[c]
             j == l[b]
  <2>1. c + x <= b \/ b + y <= c  BY <1>1, <1>10
  <2>2. x \in Nat /\ i \in Nat /\ i + Word <= x
    <3> HIDE DEF m, g
    <3> QED  BY <1>4, ChunkFits DEF x, i
  <2>3. y \in Nat /\ j \in Nat /\ j + Word <= y  BY <1>4, ChunkFits
  <2>4. i = n /\ C[p] = j  BY <1>2, <1>5
  <2> HIDE DEF x, y, i, j, C
  <2>5. Chunks!Bytes(c + Word, i) \cap Chunks!Bytes(b + Word, j) = {}  BY <1>3, <2>1, <2>2, <2>3, BytesApart
  <2> QED  BY <2>4, <2>5
<1>11. Chunks!Fits(q, n, IF p = q THEN DOMAIN C \ {p} ELSE DOMAIN C)
  <2>1. ASSUME NEW r \in DOMAIN C, p = q => r # p
        PROVE  Chunks!Bytes(q, n) \cap Chunks!Bytes(r, C[r]) = {}
    <3>1. PICK d \in DOMAIN l : r = d + Word  BY <1>5
    <3>2. CASE d = b
      <4>1. c # b /\ r = p  BY <2>1, <3>1, <3>2
      <4> QED  BY <1>10, <4>1
    <3>3. CASE d # b
      <4>1. d \in others  BY <3>3
      <4> QED  BY <1>9, <3>1, <4>1
    <3> QED  BY <3>2, <3>3
  <2>2. C = [r \in {d + Word : d \in DOMAIN live} |-> live[r - Word]]  BY DEF Mapped
  <2> HIDE DEF C, p, q
  <2> QED  BY <1>7, <1>8, <2>1, <2>2 DEF Chunks!Fits
<1>12. D = [r \in (DOMAIN C \ {p}) \cup {q} |-> IF r = q THEN n ELSE C[r]]
  <2>1. Becomes(l, others, c, n, m)
    <3> DEFINE k == others
    <3>1. k \subseteq DOMAIN l  OBVIOUS
    <3> HIDE DEF k, l, m
    <3> QED  BY <1>2, <1>3, <3>1 DEF Becomes
  <2>2. Pointers(others) = DOMAIN C \ {p}
    <3> HIDE DEF C, l
    <3> QED  BY <1>3, <1>5, <1>6 DEF Pointers
  <2> HIDE DEF others, l, m
  <2>3. Mapped(m) = Placed(Mapped(l), Pointers(others), c + Word, n)  BY <2>1, WithMapped
  <2>4. D = Placed(C, DOMAIN C \ {p}, q, n)  BY <2>2, <2>3
  <2> HIDE DEF C, D, p, q
  <2> QED  BY <2>4 DEF Placed
<1>13. Chunks!HResize(p, q, m[c])
  <2>1. m[c] = n  BY <1>2
  <2>2. C = [r \in {d + Word : d \in DOMAIN live} |-> live[r - Word]]  BY DEF Mapped
  <2>3. D = [r \in {d + Word : d \in DOMAIN live'} |-> live'[r - Word]]  BY DEF Mapped
  <2> HIDE DEF m, C, D, p, q, g, l
  <2> QED  BY <1>5, <1>11, <1>12, <2>1, <2>2, <2>3 DEF Chunks!HResize, Chunks!With
<1> QED  BY <1>4, <1>13

(* The allocator implements the heap its callers assume (tiny-              *)
(* malloc.c:12-45): what they see is handed out, given back and resized     *)
(* without ever sharing a byte.                                             *)
THEOREM ServesItsCallers == Spec => ServesChunks
<1>1. Init => Chunks!HInit
  <2> SUFFICES ASSUME Init  PROVE Chunks!HInit  OBVIOUS
  <2>1. DOMAIN live = {}  BY DEF Init
  <2> QED  BY <2>1 DEF Chunks!HInit
<1>2. IInv /\ IInv' /\ [Next]_vars =>
        [ \/ \E b \in DOMAIN live' : Chunks!HAllocate(b + Word, live'[b], 1)
          \/ \E b \in DOMAIN live : Chunks!HFree(b + Word)
          \/ \E b \in DOMAIN live, c \in DOMAIN live' : Chunks!HResize(b + Word, c + Word, live'[c])]_live
  <2> SUFFICES ASSUME IInv, IInv', [Next]_vars, live' # live
               PROVE  \/ \E b \in DOMAIN live' : Chunks!HAllocate(b + Word, live'[b], 1)
                      \/ \E b \in DOMAIN live : Chunks!HFree(b + Word)
                      \/ \E b \in DOMAIN live, c \in DOMAIN live' : Chunks!HResize(b + Word, c + Word, live'[c])
    OBVIOUS
  <2>1. Next  BY DEF vars
  <2>2. Allocated \/ Freed \/ Resized  BY <2>1, NextInv
  <2> QED  BY <2>2, AllocateImplements, FreeImplements, ResizeImplements
<1> QED  BY <1>1, <1>2, AlwaysTiled, PTL DEF Spec, ServesChunks
=============================================================================

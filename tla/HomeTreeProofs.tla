--------------------------- MODULE HomeTreeProofs ---------------------------
(***************************************************************************)
(* That a root may stand for the sequence of its leaves, for every depth   *)
(* of the tree and every number of leaves it has room for: the tree that   *)
(* Home stores as one hash per level, and the one the prover keeps whole,  *)
(* have the root of the tree written out; a generated proof is the only    *)
(* one that leads to that root; and so Home with its stored tree, next to  *)
(* a prover that ends and starts again anywhere, proves each message and   *)
(* nothing else.                                                           *)
(***************************************************************************)
EXTENDS HomeProofs, HomeTree, WellFoundedInduction, TLAPS

(***************************************************************************)
(* The Merkle tree: recursive functions and bits                           *)
(***************************************************************************)

(* Induction over the naturals: D has all of them. *)
LEMMA Induction ==
  ASSUME NEW D, 0 \in D, \A n \in Nat : n \in D => n + 1 \in D
  PROVE  Nat \subseteq D
<1> DEFINE Bad == Nat \ D
<1> SUFFICES ASSUME Bad # {} PROVE FALSE
  OBVIOUS
<1>1. PICK m \in Bad : \A k \in Bad : ~(<<k, m>> \in OpToRel(<, Nat))
  BY NatLessThanWellFounded, WFMin
<1>2. m \in Nat /\ m # 0 /\ m - 1 \in Nat
  OBVIOUS
<1>3. m - 1 \notin Bad
  <2>1. \A x, y \in Nat : x < y => <<x, y>> \in OpToRel(<, Nat)
    BY Zenon DEF OpToRel
  <2>2. m - 1 < m
    BY <1>2
  <2> QED
    BY <1>1, <1>2, <2>1, <2>2
<1> QED
  BY <1>2, <1>3

(* The powers of two. *)
IsPowers(f, m) == f = [i \in 0 .. m |-> IF i = 0 THEN 1 ELSE 2 * f[i - 1]]

(* Twice as many at every level. *)
LEMMA TwoTo ==
  /\ twoTo[0] = 1
  /\ \A i \in Nat : twoTo[i + 1] = 2 * twoTo[i] /\ twoTo[i] \in Nat \ {0}
<1> DEFINE D == {m \in Nat : \E f : IsPowers(f, m)}
           some(m) == CHOOSE f : IsPowers(f, m)
           all == [i \in Nat |-> some(i)[i]]
<1>1. 0 \in D
  <2> DEFINE f == [i \in 0 .. 0 |-> 1]
  <2>1. IsPowers(f, 0)
    BY DEF IsPowers
  <2> QED
    BY <2>1
<1>2. ASSUME NEW m \in Nat, m \in D PROVE m + 1 \in D
  <2>1. PICK f : IsPowers(f, m)
    BY <1>2
  <2> DEFINE g == [i \in 0 .. m + 1 |-> IF i = m + 1 THEN 2 * f[m] ELSE f[i]]
  <2>2. \A i \in 0 .. m : g[i] = f[i] /\ f[i] = IF i = 0 THEN 1 ELSE 2 * f[i - 1]
    BY <2>1 DEF IsPowers
  <2>3. ASSUME NEW i \in 0 .. m + 1 PROVE g[i] = IF i = 0 THEN 1 ELSE 2 * g[i - 1]
    BY <2>2
  <2> HIDE DEF g
  <2>4. IsPowers(g, m + 1)
    <3>1. g = [i \in 0 .. m + 1 |-> g[i]]
      BY DEF g
    <3> QED
      BY <3>1, <2>3 DEF IsPowers
  <2> QED
    BY <2>4
<1> HIDE DEF D
<1>3. \A m \in Nat : IsPowers(some(m), m)
  BY <1>1, <1>2, Induction DEF D
<1> HIDE DEF some
<1>4. \A m \in Nat : some(m)[0] = 1 /\ some(m + 1)[m + 1] = 2 * some(m + 1)[m]
  BY <1>3 DEF IsPowers
<1>5. \A m \in Nat : \A i \in Nat : i <= m => some(m + 1)[i] = some(m)[i]
  <2> SUFFICES ASSUME NEW m \in Nat PROVE \A i \in Nat : i <= m => some(m + 1)[i] = some(m)[i]
    OBVIOUS
  <2> DEFINE E == {i \in Nat : i <= m => some(m + 1)[i] = some(m)[i]}
  <2>1. 0 \in E
    BY <1>4
  <2>2. ASSUME NEW i \in Nat, i \in E, i + 1 <= m
        PROVE  some(m + 1)[i + 1] = some(m)[i + 1]
    <3>1. some(m + 1)[i + 1] = 2 * some(m + 1)[i]
      BY <1>3, <2>2 DEF IsPowers
    <3>2. some(m)[i + 1] = 2 * some(m)[i]
      BY <1>3, <2>2 DEF IsPowers
    <3> QED
      BY <2>2, <3>1, <3>2
  <2>3. \A i \in Nat : i \in E => i + 1 \in E
    BY <2>2
  <2> HIDE DEF E
  <2>4. Nat \subseteq E
    BY <2>1, <2>3, Induction
  <2> QED
    BY <2>4 DEF E
<1>6. all = [i \in Nat |-> IF i = 0 THEN 1 ELSE 2 * all[i - 1]]
  <2>1. ASSUME NEW i \in Nat PROVE all[i] = IF i = 0 THEN 1 ELSE 2 * all[i - 1]
    <3>1. CASE i = 0
      BY <1>4, <3>1
    <3>2. CASE i # 0
      <4>1. PICK m \in Nat : i = m + 1
        BY <3>2
      <4> QED
        BY <1>4, <1>5, <4>1
    <3> QED
      BY <3>1, <3>2
  <2> QED
    BY <2>1
<1> HIDE DEF all
<1>7. twoTo = [i \in Nat |-> IF i = 0 THEN 1 ELSE 2 * twoTo[i - 1]]
  BY <1>6 DEF twoTo
<1>8. \A i \in Nat : twoTo[i + 1] = 2 * twoTo[i]
  BY <1>7
<1>9. twoTo[0] = 1
  BY <1>7
<1> DEFINE P == {i \in Nat : twoTo[i] \in Nat \ {0}}
<1>10. Nat \subseteq P
  <2>1. 0 \in P
    BY <1>9
  <2>2. \A i \in Nat : i \in P => i + 1 \in P
    BY <1>8
  <2> HIDE DEF P
  <2> QED
    BY <2>1, <2>2, Induction
<1> QED
  BY <1>8, <1>9, <1>10

(* The hashes of trees without a leaf. *)
IsZeros(f, m) == f = [i \in 0 .. m |-> IF i = 0 THEN << >> ELSE hash_concat(f[i - 1], f[i - 1])]

(* The hash of zeros at every level. *)
LEMMA ZeroHashes ==
  /\ ZERO_HASHES[0] = << >>
  /\ \A i \in Nat : ZERO_HASHES[i + 1] = hash_concat(ZERO_HASHES[i], ZERO_HASHES[i])
<1> DEFINE D == {m \in Nat : \E f : IsZeros(f, m)}
           some(m) == CHOOSE f : IsZeros(f, m)
           all == [i \in Nat |-> some(i)[i]]
<1>1. 0 \in D
  <2> DEFINE f == [i \in 0 .. 0 |-> << >>]
  <2>1. IsZeros(f, 0)
    BY DEF IsZeros
  <2> QED
    BY <2>1
<1>2. ASSUME NEW m \in Nat, m \in D PROVE m + 1 \in D
  <2>1. PICK f : IsZeros(f, m)
    BY <1>2
  <2> DEFINE g == [i \in 0 .. m + 1 |-> IF i = m + 1 THEN hash_concat(f[m], f[m]) ELSE f[i]]
  <2>2. \A i \in 0 .. m : g[i] = f[i] /\ f[i] = IF i = 0 THEN << >> ELSE hash_concat(f[i - 1], f[i - 1])
    BY <2>1 DEF IsZeros
  <2>5. g[m + 1] = hash_concat(g[m], g[m]) /\ m + 1 # 0
    BY <2>2
  <2> HIDE DEF g
  <2>3. ASSUME NEW i \in 0 .. m + 1
        PROVE  g[i] = IF i = 0 THEN << >> ELSE hash_concat(g[i - 1], g[i - 1])
    BY <2>2, <2>5
  <2>4. IsZeros(g, m + 1)
    <3>1. g = [i \in 0 .. m + 1 |-> g[i]]
      BY DEF g
    <3> QED
      BY <3>1, <2>3 DEF IsZeros
  <2> QED
    BY <2>4
<1> HIDE DEF D
<1>3. \A m \in Nat : IsZeros(some(m), m)
  BY <1>1, <1>2, Induction DEF D
<1> HIDE DEF some
<1>4. \A m \in Nat : /\ some(m)[0] = << >>
                     /\ some(m + 1)[m + 1] = hash_concat(some(m + 1)[m], some(m + 1)[m])
  BY <1>3 DEF IsZeros
<1>5. \A m \in Nat : \A i \in Nat : i <= m => some(m + 1)[i] = some(m)[i]
  <2> SUFFICES ASSUME NEW m \in Nat PROVE \A i \in Nat : i <= m => some(m + 1)[i] = some(m)[i]
    OBVIOUS
  <2> DEFINE E == {i \in Nat : i <= m => some(m + 1)[i] = some(m)[i]}
  <2>1. 0 \in E
    BY <1>4
  <2>2. ASSUME NEW i \in Nat, i \in E, i + 1 <= m
        PROVE  some(m + 1)[i + 1] = some(m)[i + 1]
    <3>1. some(m + 1)[i + 1] = hash_concat(some(m + 1)[i], some(m + 1)[i])
      BY <1>3, <2>2 DEF IsZeros
    <3>2. some(m)[i + 1] = hash_concat(some(m)[i], some(m)[i])
      BY <1>3, <2>2 DEF IsZeros
    <3> QED
      BY <2>2, <3>1, <3>2
  <2>3. \A i \in Nat : i \in E => i + 1 \in E
    BY <2>2
  <2> HIDE DEF E
  <2>4. Nat \subseteq E
    BY <2>1, <2>3, Induction
  <2> QED
    BY <2>4 DEF E
<1>6. all = [i \in Nat |-> IF i = 0 THEN << >> ELSE hash_concat(all[i - 1], all[i - 1])]
  <2>1. ASSUME NEW i \in Nat
        PROVE  all[i] = IF i = 0 THEN << >> ELSE hash_concat(all[i - 1], all[i - 1])
    <3>1. CASE i = 0
      BY <1>4, <3>1
    <3>2. CASE i # 0
      <4>1. PICK m \in Nat : i = m + 1
        BY <3>2
      <4> QED
        BY <1>4, <1>5, <4>1
    <3> QED
      BY <3>1, <3>2
  <2> QED
    BY <2>1
<1> HIDE DEF all
<1>7. ZERO_HASHES = [i \in Nat |-> IF i = 0 THEN << >>
                                   ELSE hash_concat(ZERO_HASHES[i - 1], ZERO_HASHES[i - 1])]
  BY <1>6 DEF ZERO_HASHES
<1> QED
  BY <1>7

(* A chain of hashes from a leaf upwards, with the siblings on the left or *)
(* on the right.                                                           *)
IsChain(f, m, a, left, sibling) ==
  f = [i \in 0 .. m |->
         IF i = 0 THEN a
         ELSE IF left[i] THEN hash_concat(sibling[i], f[i - 1])
         ELSE hash_concat(f[i - 1], sibling[i])]

(* There is such a chain of every length. *)
LEMMA ChainExists ==
  ASSUME NEW a, NEW left, NEW sibling
  PROVE  \A m \in Nat : \E f : IsChain(f, m, a, left, sibling)
<1> DEFINE up(i, x) == IF left[i] THEN hash_concat(sibling[i], x) ELSE hash_concat(x, sibling[i])
           D == {m \in Nat : \E f : IsChain(f, m, a, left, sibling)}
<1>1. 0 \in D
  <2> DEFINE f == [i \in 0 .. 0 |-> a]
  <2>1. IsChain(f, 0, a, left, sibling)
    BY DEF IsChain
  <2> QED
    BY <2>1
<1>2. ASSUME NEW m \in Nat, m \in D PROVE m + 1 \in D
  <2>1. PICK f : IsChain(f, m, a, left, sibling)
    BY <1>2
  <2> DEFINE g == [i \in 0 .. m + 1 |-> IF i = m + 1 THEN up(m + 1, f[m]) ELSE f[i]]
  <2>2. \A i \in 0 .. m : g[i] = f[i] /\ f[i] = IF i = 0 THEN a ELSE up(i, f[i - 1])
    BY <2>1 DEF IsChain
  <2>3. g[m + 1] = up(m + 1, g[m]) /\ m + 1 # 0
    BY <2>2
  <2> HIDE DEF g, up
  <2>4. ASSUME NEW i \in 0 .. m + 1 PROVE g[i] = IF i = 0 THEN a ELSE up(i, g[i - 1])
    BY <2>2, <2>3
  <2>5. IsChain(g, m + 1, a, left, sibling)
    <3>1. g = [i \in 0 .. m + 1 |-> g[i]]
      BY DEF g
    <3>2. g = [i \in 0 .. m + 1 |-> IF i = 0 THEN a ELSE up(i, g[i - 1])]
      BY <3>1, <2>4
    <3> QED
      BY <3>2 DEF IsChain, up
  <2> QED
    BY <2>5
<1> HIDE DEF D
<1>3. Nat \subseteq D
  BY <1>1, <1>2, Induction
<1> QED
  BY <1>3 DEF D

(* The computation of rootWithCtx, level by level. *)
LEMMA RootChain ==
  ASSUME NEW t
  PROVE  \E c :
           /\ c[0] = << >>
           /\ \A i \in Levels :
                c[i + 1] = IF bit(t.count, i) = 1 THEN hash_concat(t.branch[i], c[i])
                           ELSE hash_concat(c[i], ZERO_HASHES[i])
           /\ rootWithCtx(t) = c[TREE_DEPTH]
<1> DEFINE left == [i \in 1 .. TREE_DEPTH |-> bit(t.count, i - 1) = 1]
           sibling == [i \in 1 .. TREE_DEPTH |-> IF left[i] THEN t.branch[i - 1] ELSE ZERO_HASHES[i - 1]]
           is(c) == c = [i \in 0 .. TREE_DEPTH |->
                           IF i = 0 THEN << >>
                           ELSE IF bit(t.count, i - 1) = 1 THEN hash_concat(t.branch[i - 1], c[i - 1])
                           ELSE hash_concat(c[i - 1], ZERO_HASHES[i - 1])]
<1>1. PICK f : IsChain(f, TREE_DEPTH, << >>, left, sibling)
  BY ChainExists, DepthAssumption
<1>2. is(f)
  <2>1. \A i \in 1 .. TREE_DEPTH : /\ left[i] = (bit(t.count, i - 1) = 1)
                                   /\ sibling[i] = IF bit(t.count, i - 1) = 1 THEN t.branch[i - 1]
                                                   ELSE ZERO_HASHES[i - 1]
    OBVIOUS
  <2>2. \A i \in 0 .. TREE_DEPTH : i = 0 \/ i \in 1 .. TREE_DEPTH
    BY DepthAssumption
  <2> HIDE DEF left, sibling
  <2> QED
    BY <1>1, <2>1, <2>2 DEF IsChain
<1> DEFINE c == CHOOSE c : is(c)
<1>3. is(c)
  BY <1>2
<1>4. rootWithCtx(t) = c[TREE_DEPTH]
  BY DEF rootWithCtx
<1> HIDE DEF c
<1>5. ASSUME NEW i \in Levels
      PROVE  c[i + 1] = IF bit(t.count, i) = 1 THEN hash_concat(t.branch[i], c[i])
                        ELSE hash_concat(c[i], ZERO_HASHES[i])
  <2>1. i + 1 \in 0 .. TREE_DEPTH /\ i + 1 # 0 /\ (i + 1) - 1 = i
    BY DepthAssumption DEF Levels
  <2> QED
    BY <1>3, <2>1
<1>6. c[0] = << >>
  BY <1>3, DepthAssumption
<1> QED
  BY <1>4, <1>5, <1>6

(* The computation of branchRoot. *)
LEMMA BranchChain ==
  ASSUME NEW item, NEW branch, NEW index
  PROVE  \E c :
           /\ c[0] = item
           /\ \A i \in Levels :
                c[i + 1] = IF bit(index, i) = 1 THEN hash_concat(branch[i + 1], c[i])
                           ELSE hash_concat(c[i], branch[i + 1])
           /\ branchRoot(item, branch, index) = c[TREE_DEPTH]
<1> DEFINE left == [i \in 1 .. TREE_DEPTH |-> bit(index, i - 1) = 1]
           is(c) == c = [i \in 0 .. TREE_DEPTH |->
                           IF i = 0 THEN item
                           ELSE IF bit(index, i - 1) = 1 THEN hash_concat(branch[i], c[i - 1])
                           ELSE hash_concat(c[i - 1], branch[i])]
<1>1. PICK f : IsChain(f, TREE_DEPTH, item, left, branch)
  BY ChainExists, DepthAssumption
<1>2. is(f)
  <2>1. \A i \in 1 .. TREE_DEPTH : left[i] = (bit(index, i - 1) = 1)
    OBVIOUS
  <2>2. \A i \in 0 .. TREE_DEPTH : i = 0 \/ i \in 1 .. TREE_DEPTH
    BY DepthAssumption
  <2> HIDE DEF left
  <2> QED
    BY <1>1, <2>1, <2>2 DEF IsChain
<1> DEFINE c == CHOOSE c : is(c)
<1>3. is(c)
  BY <1>2
<1>4. branchRoot(item, branch, index) = c[TREE_DEPTH]
  BY DEF branchRoot
<1> HIDE DEF c
<1>5. ASSUME NEW i \in Levels
      PROVE  c[i + 1] = IF bit(index, i) = 1 THEN hash_concat(branch[i + 1], c[i])
                        ELSE hash_concat(c[i], branch[i + 1])
  <2>1. i + 1 \in 0 .. TREE_DEPTH /\ i + 1 # 0 /\ (i + 1) - 1 = i
    BY DepthAssumption DEF Levels
  <2> QED
    BY <1>3, <2>1
<1>6. c[0] = item
  BY <1>3, DepthAssumption
<1> QED
  BY <1>4, <1>5, <1>6

(* The part of a number above its i lowest bits. *)
upper(n, i) == n \div twoTo[i]

(* A number above its bit i is twice what is above the next bit, and the   *)
(* bit.                                                                    *)
LEMMA Upper ==
  ASSUME NEW n \in Nat, NEW i \in Nat
  PROVE  /\ upper(n, 0) = n
         /\ upper(n, i) \in Nat /\ upper(n, i + 1) \in Nat
         /\ bit(n, i) \in {0, 1}
         /\ upper(n, i) = 2 * upper(n, i + 1) + bit(n, i)
<1>1. PICK p \in Nat \ {0} : p = twoTo[i] /\ twoTo[i + 1] = 2 * p
  BY TwoTo
<1>2. upper(n, 0) = n
  BY TwoTo DEF upper
<1>3. PICK u \in Nat : u = n \div p
  BY <1>1
<1>4. n \div (2 * p) = u \div 2
  BY <1>1, <1>3
<1>5. upper(n, i) = u /\ upper(n, i + 1) = u \div 2 /\ bit(n, i) = u % 2
  BY <1>1, <1>3, <1>4 DEF upper, bit
<1>6. u % 2 \in {0, 1} /\ u = 2 * (u \div 2) + (u % 2)
  <2> HIDE <1>3
  <2>1. u = 2 * (u \div 2) + (u % 2)
    OBVIOUS
  <2>2. u % 2 \in 0 .. 1
    OBVIOUS
  <2> QED
    BY <2>1, <2>2
<1> QED
  BY <1>2, <1>3, <1>5, <1>6

(* Nothing is above the bits of a number of leaves. *)
LEMMA NothingAbove ==
  ASSUME NEW n \in 0 .. MAX_LEAVES
  PROVE  n \in Nat /\ upper(n, TREE_DEPTH) = 0
<1>1. PICK p \in Nat \ {0} : p = twoTo[TREE_DEPTH]
  BY TwoTo, DepthAssumption
<1>2. n \in Nat /\ n < p
  BY <1>1 DEF MAX_LEAVES
<1>3. n \div p = 0
  BY <1>1, <1>2
<1> QED
  BY <1>1, <1>2, <1>3 DEF upper

(* The lowest bit of a number that is set. *)
LowestBit(n, level) == bit(n, level) = 1 /\ \A j \in 0 .. level - 1 : bit(n, j) = 0

(* A number of leaves that is not zero has one among the levels. *)
LEMMA LowestBitExists ==
  ASSUME NEW n \in 1 .. MAX_LEAVES
  PROVE  \E level \in Levels : LowestBit(n, level)
<1> DEFINE D == {i \in Nat : \/ upper(n, i) # 0 /\ \A j \in 0 .. i - 1 : bit(n, j) = 0
                             \/ \E level \in 0 .. i - 1 : LowestBit(n, level)}
<1>1. n \in Nat /\ n # 0 /\ upper(n, TREE_DEPTH) = 0
  BY NothingAbove
<1>2. 0 \in D
  <2>1. upper(n, 0) # 0
    BY <1>1, Upper
  <2> QED
    BY <2>1
<1>3. ASSUME NEW i \in Nat, i \in D PROVE i + 1 \in D
  <2>1. CASE \E level \in 0 .. i - 1 : LowestBit(n, level)
    <3>1. 0 .. i - 1 \subseteq 0 .. (i + 1) - 1
      OBVIOUS
    <3> QED
      BY <2>1, <3>1
  <2>2. CASE upper(n, i) # 0 /\ \A j \in 0 .. i - 1 : bit(n, j) = 0
    <3>1. bit(n, i) \in {0, 1} /\ upper(n, i) = 2 * upper(n, i + 1) + bit(n, i)
      BY <1>1, Upper
    <3>2. CASE bit(n, i) = 1
      <4>1. LowestBit(n, i) /\ i \in 0 .. (i + 1) - 1
        BY <2>2, <3>2 DEF LowestBit
      <4> QED
        BY <4>1
    <3>3. CASE bit(n, i) = 0
      <4>1. upper(n, i + 1) # 0
        BY <2>2, <3>1, <3>3
      <4>2. \A j \in 0 .. (i + 1) - 1 : j = i \/ j \in 0 .. i - 1
        OBVIOUS
      <4> QED
        BY <2>2, <3>3, <4>1, <4>2
    <3> QED
      BY <3>1, <3>2, <3>3
  <2> QED
    BY <1>3, <2>1, <2>2
<1> HIDE DEF D
<1>4. TREE_DEPTH \in D
  BY <1>2, <1>3, Induction, DepthAssumption
<1> QED
  BY <1>1, <1>4 DEF D, Levels

(* Counting one more clears the bits below the lowest that is then set,    *)
(* sets that one, and leaves those above.                                  *)
LEMMA CountOneMore ==
  ASSUME NEW n \in Nat, NEW level \in Levels, LowestBit(n + 1, level)
  PROVE  /\ \A j \in 0 .. level : upper(n + 1, j) = upper(n, j) + 1
         /\ \A j \in 0 .. level - 1 : bit(n, j) = 1
         /\ \A j \in Levels : j > level =>
              upper(n + 1, j) = upper(n, j) /\ bit(n + 1, j) = bit(n, j)
<1>1. level \in Nat /\ Levels \subseteq Nat
  BY DepthAssumption DEF Levels
<1>2. \A m \in {n, n + 1} : \A j \in Nat :
        /\ upper(m, j) \in Nat
        /\ bit(m, j) \in {0, 1}
        /\ upper(m, j) = 2 * upper(m, j + 1) + bit(m, j)
  <2> SUFFICES ASSUME NEW m \in {n, n + 1}, NEW j \in Nat
               PROVE  /\ upper(m, j) \in Nat
                      /\ bit(m, j) \in {0, 1}
                      /\ upper(m, j) = 2 * upper(m, j + 1) + bit(m, j)
    OBVIOUS
  <2>1. m \in Nat
    OBVIOUS
  <2> QED
    BY <2>1, Upper
<1>3. \A j \in 0 .. level - 1 : bit(n + 1, j) = 0
  BY DEF LowestBit
<1> DEFINE D == {j \in Nat : j <= level => upper(n + 1, j) = upper(n, j) + 1}
<1>4. ASSUME NEW j \in Nat, upper(n + 1, j) = upper(n, j) + 1, bit(n + 1, j) = 0
      PROVE  bit(n, j) = 1 /\ upper(n + 1, j + 1) = upper(n, j + 1) + 1
  <2>2. PICK a \in Nat : a = upper(n, j)
    BY <1>2
  <2>3. PICK b \in Nat : b = upper(n, j + 1)
    BY <1>2
  <2>4. PICK c \in Nat : c = upper(n + 1, j)
    BY <1>2
  <2>5. PICK d \in Nat : d = upper(n + 1, j + 1)
    BY <1>2
  <2>1. c = a + 1 /\ c = 2 * d + 0 /\ a = 2 * b + bit(n, j) /\ bit(n, j) \in {0, 1}
    BY <1>2, <1>4, <2>2, <2>3, <2>4, <2>5
  <2>6. bit(n, j) = 1 /\ d = b + 1
    BY <2>1
  <2> QED
    BY <2>3, <2>5, <2>6
<1>5. Nat \subseteq D
  <2>1. 0 \in D
    BY Upper
  <2>2. ASSUME NEW j \in Nat, j \in D PROVE j + 1 \in D
    <3>1. j + 1 <= level => j <= level /\ j \in 0 .. level - 1
      BY <1>1
    <3> QED
      BY <1>3, <1>4, <2>2, <3>1
  <2> HIDE DEF D
  <2> QED
    BY <2>1, <2>2, Induction
<1>6. ASSUME NEW j \in 0 .. level - 1 PROVE bit(n, j) = 1
  <2>1. j \in Nat /\ j <= level
    BY <1>1
  <2> QED
    BY <1>3, <1>4, <1>5, <2>1
<1>7. bit(n, level) = 0 /\ upper(n + 1, level + 1) = upper(n, level + 1)
  <2>3. PICK a \in Nat : a = upper(n, level)
    BY <1>1, <1>2
  <2>4. PICK b \in Nat : b = upper(n, level + 1)
    BY <1>1, <1>2
  <2>5. PICK c \in Nat : c = upper(n + 1, level)
    BY <1>1, <1>2
  <2>6. PICK d \in Nat : d = upper(n + 1, level + 1)
    BY <1>1, <1>2
  <2>1. upper(n + 1, level) = upper(n, level) + 1 /\ bit(n + 1, level) = 1
    BY <1>1, <1>5 DEF LowestBit
  <2>2. c = a + 1 /\ c = 2 * d + 1 /\ a = 2 * b + bit(n, level) /\ bit(n, level) \in {0, 1}
    BY <1>1, <1>2, <2>1, <2>3, <2>4, <2>5, <2>6
  <2>7. bit(n, level) = 0 /\ d = b
    BY <2>2
  <2> QED
    BY <2>4, <2>6, <2>7
<1> DEFINE E == {j \in Nat : j > level => upper(n + 1, j) = upper(n, j)}
<1>8. ASSUME NEW j \in Nat, upper(n + 1, j) = upper(n, j)
      PROVE  bit(n + 1, j) = bit(n, j) /\ upper(n + 1, j + 1) = upper(n, j + 1)
  <2>2. PICK a \in Nat : a = upper(n, j)
    BY <1>2
  <2>3. PICK b \in Nat : b = upper(n, j + 1)
    BY <1>2
  <2>4. PICK c \in Nat : c = upper(n + 1, j + 1)
    BY <1>2
  <2>1. /\ a = 2 * b + bit(n, j) /\ bit(n, j) \in {0, 1}
        /\ a = 2 * c + bit(n + 1, j) /\ bit(n + 1, j) \in {0, 1}
    BY <1>2, <1>8, <2>2, <2>3, <2>4
  <2>5. bit(n + 1, j) = bit(n, j) /\ c = b
    BY <2>1
  <2> QED
    BY <2>3, <2>4, <2>5
<1>9. Nat \subseteq E
  <2>1. 0 \in E
    BY <1>1
  <2>2. ASSUME NEW j \in Nat, j \in E PROVE j + 1 \in E
    <3>1. j + 1 > level => j = level \/ j > level
      BY <1>1
    <3> QED
      BY <1>7, <1>8, <2>2, <3>1
  <2> HIDE DEF E
  <2> QED
    BY <2>1, <2>2, Induction
<1> QED
  BY <1>1, <1>5, <1>6, <1>8, <1>9

(***************************************************************************)
(* The tree written out                                                    *)
(***************************************************************************)

(* The nodes of the lowest m levels, by level and number. *)
IsNodes(f, m, s) ==
  f = [i \in 0 .. m |->
         IF i = 0 THEN [k \in Nat |-> IF k < Len(s) THEN s[k + 1] ELSE << >>]
         ELSE [k \in Nat |-> hash_concat(f[i - 1][2 * k], f[i - 1][2 * k + 1])]]

(* They exist for every number of levels. *)
LEMMA NodesExist ==
  ASSUME NEW s
  PROVE  \A m \in Nat : \E f : IsNodes(f, m, s)
<1> DEFINE lowest == [k \in Nat |-> IF k < Len(s) THEN s[k + 1] ELSE << >>]
           up(x) == [k \in Nat |-> hash_concat(x[2 * k], x[2 * k + 1])]
           D == {m \in Nat : \E f : IsNodes(f, m, s)}
<1>1. 0 \in D
  <2> DEFINE f == [i \in 0 .. 0 |-> lowest]
  <2> HIDE DEF lowest
  <2>1. f = [i \in 0 .. 0 |-> IF i = 0 THEN lowest ELSE up(f[i - 1])]
    OBVIOUS
  <2> HIDE DEF f
  <2>2. IsNodes(f, 0, s)
    BY <2>1 DEF IsNodes, lowest
  <2> QED
    BY <2>2
<1>2. ASSUME NEW m \in Nat, m \in D PROVE m + 1 \in D
  <2>1. PICK f : IsNodes(f, m, s)
    BY <1>2
  <2> DEFINE g == [i \in 0 .. m + 1 |-> IF i = m + 1 THEN up(f[m]) ELSE f[i]]
  <2>2. \A i \in 0 .. m : f[i] = IF i = 0 THEN lowest ELSE up(f[i - 1])
    BY <2>1 DEF IsNodes
  <2> HIDE DEF lowest, up
  <2>6. \A i \in 0 .. m : g[i] = f[i]
    OBVIOUS
  <2>3. g[m + 1] = up(g[m]) /\ m + 1 # 0
    BY <2>6
  <2>7. g = [i \in 0 .. m + 1 |-> g[i]]
    OBVIOUS
  <2> HIDE DEF g
  <2>4. ASSUME NEW i \in 0 .. m + 1 PROVE g[i] = IF i = 0 THEN lowest ELSE up(g[i - 1])
    BY <2>2, <2>3, <2>6
  <2>5. IsNodes(g, m + 1, s)
    <3>1. g = [i \in 0 .. m + 1 |-> IF i = 0 THEN lowest ELSE up(g[i - 1])]
      BY <2>7, <2>4
    <3> QED
      BY <3>1, Zenon DEF IsNodes, lowest, up
  <2> QED
    BY <2>5
<1> HIDE DEF D
<1>3. Nat \subseteq D
  BY <1>1, <1>2, Induction
<1> QED
  BY <1>3 DEF D

(* The leaves, and the nodes above them. *)
LEMMA Nodes ==
  ASSUME NEW s
  PROVE  /\ \A k \in Nat : nodes(s)[0][k] = IF k < Len(s) THEN s[k + 1] ELSE << >>
         /\ \A i \in Levels, k \in Nat :
              nodes(s)[i + 1][k] = hash_concat(nodes(s)[i][2 * k], nodes(s)[i][2 * k + 1])
<1>1. PICK f : IsNodes(f, TREE_DEPTH, s)
  BY NodesExist, DepthAssumption
<1> DEFINE g == nodes(s)
<1>2. IsNodes(g, TREE_DEPTH, s)
  <2>1. nodes(s) = CHOOSE h : IsNodes(h, TREE_DEPTH, s)
    BY Zenon DEF nodes, IsNodes
  <2> QED
    BY <1>1, <2>1
<1> HIDE DEF g
<1>3. ASSUME NEW k \in Nat PROVE g[0][k] = IF k < Len(s) THEN s[k + 1] ELSE << >>
  <2>1. 0 \in 0 .. TREE_DEPTH
    BY DepthAssumption
  <2>2. g[0] = [j \in Nat |-> IF j < Len(s) THEN s[j + 1] ELSE << >>]
    BY <1>2, <2>1 DEF IsNodes
  <2> QED
    BY <2>2
<1>4. ASSUME NEW i \in Levels, NEW k \in Nat
      PROVE  g[i + 1][k] = hash_concat(g[i][2 * k], g[i][2 * k + 1])
  <2>1. i + 1 \in 0 .. TREE_DEPTH /\ i + 1 # 0 /\ (i + 1) - 1 = i
    BY DepthAssumption DEF Levels
  <2>2. g[i + 1] = [j \in Nat |-> hash_concat(g[i][2 * j], g[i][2 * j + 1])]
    BY <1>2, <2>1 DEF IsNodes
  <2> QED
    BY <2>2
<1> QED
  BY <1>3, <1>4 DEF g

(* Nodes that are above no leaf are hashes of zeros. *)
LEMMA NodesBeyond ==
  ASSUME NEW S, NEW s \in Seq(S)
  PROVE  \A i \in 0 .. TREE_DEPTH : \A k \in Nat :
           k > upper(Len(s), i) => nodes(s)[i][k] = ZERO_HASHES[i]
<1> DEFINE n == Len(s)
           D == {i \in Nat : i <= TREE_DEPTH =>
                   \A k \in Nat : k > upper(n, i) => nodes(s)[i][k] = ZERO_HASHES[i]}
<1>1. n \in Nat
  OBVIOUS
<1> HIDE DEF n
<1>2. 0 \in D
  <2>1. upper(n, 0) = n
    BY <1>1, Upper
  <2>2. ASSUME NEW k \in Nat, k > n PROVE nodes(s)[0][k] = << >>
    BY <1>1, <2>2, Nodes DEF n
  <2> QED
    BY <2>1, <2>2, ZeroHashes
<1>3. ASSUME NEW i \in Nat, i \in D PROVE i + 1 \in D
  <2> SUFFICES ASSUME i + 1 <= TREE_DEPTH, NEW k \in Nat, k > upper(n, i + 1)
               PROVE  nodes(s)[i + 1][k] = ZERO_HASHES[i + 1]
    OBVIOUS
  <2>1. i \in Levels
    BY DepthAssumption DEF Levels
  <2>2. /\ upper(n, i) \in Nat /\ upper(n, i + 1) \in Nat /\ bit(n, i) \in {0, 1}
        /\ upper(n, i) = 2 * upper(n, i + 1) + bit(n, i)
    BY <1>1, Upper
  <2>3. 2 * k > upper(n, i) /\ 2 * k + 1 > upper(n, i) /\ 2 * k \in Nat /\ 2 * k + 1 \in Nat
    BY <2>2
  <2>4. i <= TREE_DEPTH
    BY DepthAssumption
  <2>5. nodes(s)[i][2 * k] = ZERO_HASHES[i] /\ nodes(s)[i][2 * k + 1] = ZERO_HASHES[i]
    BY <1>3, <2>3, <2>4
  <2>6. nodes(s)[i + 1][k] = hash_concat(nodes(s)[i][2 * k], nodes(s)[i][2 * k + 1])
    BY <2>1, Nodes
  <2> QED
    BY <2>5, <2>6, ZeroHashes
<1> HIDE DEF D
<1>4. Nat \subseteq D
  BY <1>2, <1>3, Induction
<1> QED
  BY <1>4, DepthAssumption DEF D, n

(* Nodes all whose leaves are there stay what they are. *)
LEMMA FullNodesStay ==
  ASSUME NEW S, NEW s \in Seq(S), NEW x \in S
  PROVE  \A i \in 0 .. TREE_DEPTH : \A k \in Nat :
           k < upper(Len(s), i) => nodes(Append(s, x))[i][k] = nodes(s)[i][k]
<1> DEFINE n == Len(s)
           r == Append(s, x)
           D == {i \in Nat : i <= TREE_DEPTH =>
                   \A k \in Nat : k < upper(n, i) => nodes(r)[i][k] = nodes(s)[i][k]}
<1>1. n \in Nat /\ Len(r) = n + 1 /\ \A k \in Nat : k < n => r[k + 1] = s[k + 1]
  OBVIOUS
<1> HIDE DEF n, r
<1>2. 0 \in D
  <2>1. upper(n, 0) = n
    BY <1>1, Upper
  <2>2. ASSUME NEW k \in Nat, k < n PROVE nodes(r)[0][k] = nodes(s)[0][k]
    <3>1. nodes(s)[0][k] = s[k + 1]
      BY <2>2, Nodes DEF n
    <3>2. nodes(r)[0][k] = r[k + 1]
      BY <1>1, <2>2, Nodes
    <3> QED
      BY <1>1, <2>2, <3>1, <3>2
  <2> QED
    BY <2>1, <2>2
<1>3. ASSUME NEW i \in Nat, i \in D PROVE i + 1 \in D
  <2> SUFFICES ASSUME i + 1 <= TREE_DEPTH, NEW k \in Nat, k < upper(n, i + 1)
               PROVE  nodes(r)[i + 1][k] = nodes(s)[i + 1][k]
    OBVIOUS
  <2>1. i \in Levels
    BY DepthAssumption DEF Levels
  <2>2. /\ upper(n, i) \in Nat /\ upper(n, i + 1) \in Nat /\ bit(n, i) \in {0, 1}
        /\ upper(n, i) = 2 * upper(n, i + 1) + bit(n, i)
    BY <1>1, Upper
  <2>3. 2 * k < upper(n, i) /\ 2 * k + 1 < upper(n, i) /\ 2 * k \in Nat /\ 2 * k + 1 \in Nat
    BY <2>2
  <2>4. i <= TREE_DEPTH
    BY DepthAssumption
  <2>5. /\ nodes(r)[i][2 * k] = nodes(s)[i][2 * k]
        /\ nodes(r)[i][2 * k + 1] = nodes(s)[i][2 * k + 1]
    BY <1>3, <2>3, <2>4
  <2>6. /\ nodes(s)[i + 1][k] = hash_concat(nodes(s)[i][2 * k], nodes(s)[i][2 * k + 1])
        /\ nodes(r)[i + 1][k] = hash_concat(nodes(r)[i][2 * k], nodes(r)[i][2 * k + 1])
    BY <2>1, Nodes
  <2> QED
    BY <2>5, <2>6
<1> HIDE DEF D
<1>4. Nat \subseteq D
  BY <1>2, <1>3, Induction
<1> QED
  BY <1>4, DepthAssumption DEF D, n, r

(***************************************************************************)
(* The tree that is stored                                                 *)
(***************************************************************************)

(* At every level that a leaf count has the bit of, the branch is the last *)
(* node of that level all whose leaves are there.                          *)
Stores(t, s) ==
  /\ t.count = Len(s)
  /\ DOMAIN t.branch = Levels
  /\ \A i \in Levels :
       bit(Len(s), i) = 1 => t.branch[i] = nodes(s)[i][upper(Len(s), i) - 1]

(* The empty tree stores no leaf. *)
LEMMA EmptyStores == Stores(emptyTree, << >>)
<1>1. \A i \in Levels : bit(0, i) = 0
  <2> SUFFICES ASSUME NEW i \in Levels PROVE bit(0, i) = 0
    OBVIOUS
  <2>1. PICK p \in Nat \ {0} : p = twoTo[i]
    BY TwoTo, DepthAssumption DEF Levels
  <2>2. 0 \div p = 0
    OBVIOUS
  <2> QED
    BY <2>1, <2>2 DEF bit
<1> QED
  BY <1>1 DEF Stores, emptyTree

(* The root that is computed is that of the tree written out. *)
LEMMA StoredRoot ==
  ASSUME NEW S, NEW s \in Seq(S), Len(s) <= MAX_LEAVES, NEW t, Stores(t, s)
  PROVE  rootWithCtx(t) = reference(s)
<1> DEFINE n == Len(s)
<1>1. n \in Nat /\ upper(n, TREE_DEPTH) = 0
  BY NothingAbove
<1>2. t.count = n /\ \A i \in Levels : bit(n, i) = 1 => t.branch[i] = nodes(s)[i][upper(n, i) - 1]
  BY DEF Stores
<1>3. nodes(s)[0][n] = << >>
  BY <1>1, Nodes
<1>4. \A i \in 0 .. TREE_DEPTH, k \in Nat : k > upper(n, i) => nodes(s)[i][k] = ZERO_HASHES[i]
  BY NodesBeyond
<1> HIDE DEF n
<1>5. PICK c : /\ c[0] = << >>
               /\ \A i \in Levels :
                    c[i + 1] = IF bit(t.count, i) = 1 THEN hash_concat(t.branch[i], c[i])
                               ELSE hash_concat(c[i], ZERO_HASHES[i])
               /\ rootWithCtx(t) = c[TREE_DEPTH]
  BY RootChain
<1> DEFINE D == {i \in Nat : i <= TREE_DEPTH => c[i] = nodes(s)[i][upper(n, i)]}
<1>6. 0 \in D
  BY <1>1, <1>3, <1>5, Upper
<1>7. ASSUME NEW i \in Nat, i \in D PROVE i + 1 \in D
  <2> SUFFICES ASSUME i + 1 <= TREE_DEPTH
               PROVE  c[i + 1] = nodes(s)[i + 1][upper(n, i + 1)]
    OBVIOUS
  <2>1. i \in Levels /\ i <= TREE_DEPTH /\ i \in 0 .. TREE_DEPTH
    BY DepthAssumption DEF Levels
  <2>2. PICK k \in Nat : k = upper(n, i + 1)
    BY <1>1, Upper
  <2>3. /\ upper(n, i) \in Nat /\ bit(n, i) \in {0, 1}
        /\ upper(n, i) = 2 * k + bit(n, i)
    BY <1>1, <2>2, Upper
  <2>4. nodes(s)[i + 1][k] = hash_concat(nodes(s)[i][2 * k], nodes(s)[i][2 * k + 1])
    BY <2>1, Nodes
  <2>5. c[i] = nodes(s)[i][upper(n, i)]
    BY <1>7, <2>1
  <2>6. CASE bit(n, i) = 1
    <3>1. upper(n, i) = 2 * k + 1 /\ upper(n, i) - 1 = 2 * k
      BY <2>3, <2>6
    <3>2. t.branch[i] = nodes(s)[i][2 * k] /\ c[i] = nodes(s)[i][2 * k + 1]
      BY <1>2, <2>1, <2>5, <2>6, <3>1
    <3>3. c[i + 1] = hash_concat(t.branch[i], c[i])
      BY <1>2, <1>5, <2>1, <2>6
    <3> QED
      BY <2>2, <2>4, <3>2, <3>3
  <2>7. CASE bit(n, i) = 0
    <3>1. upper(n, i) = 2 * k /\ 2 * k + 1 > upper(n, i) /\ 2 * k + 1 \in Nat
      BY <2>3, <2>7
    <3>2. c[i] = nodes(s)[i][2 * k] /\ ZERO_HASHES[i] = nodes(s)[i][2 * k + 1]
      BY <1>4, <2>1, <2>5, <3>1
    <3>3. c[i + 1] = hash_concat(c[i], ZERO_HASHES[i])
      BY <1>2, <1>5, <2>1, <2>7
    <3> QED
      BY <2>2, <2>4, <3>2, <3>3
  <2> QED
    BY <2>3, <2>6, <2>7
<1> HIDE DEF D
<1>8. TREE_DEPTH \in D
  BY <1>6, <1>7, Induction, DepthAssumption
<1> QED
  BY <1>1, <1>5, <1>8, DepthAssumption DEF D, reference

(* The computation of insert, up to the level where it returns. *)
InsertsAt(t, item, level, c) ==
  /\ LowestBit(t.count + 1, level)
  /\ c[0] = item
  /\ \A i \in 0 .. level - 1 : c[i + 1] = hash_concat(t.branch[i], c[i])
  /\ insert(t, item) = [branch |-> [t.branch EXCEPT ![level] = c[level]], count |-> t.count + 1]

(* There is a level where it returns. *)
LEMMA InsertChain ==
  ASSUME NEW t, NEW item, t.count + 1 \in 1 .. MAX_LEAVES
  PROVE  \E level \in Levels : \E c : InsertsAt(t, item, level, c)
<1> DEFINE level == CHOOSE i \in Levels : LowestBit(t.count + 1, i)
           left == [i \in 1 .. level |-> TRUE]
           sibling == [i \in 1 .. level |-> t.branch[i - 1]]
           is(c) == c = [i \in 0 .. level |->
                           IF i = 0 THEN item ELSE hash_concat(t.branch[i - 1], c[i - 1])]
           c == CHOOSE c : is(c)
<1>1. level \in Levels /\ LowestBit(t.count + 1, level)
  BY LowestBitExists
<1>2. insert(t, item) = [branch |-> [t.branch EXCEPT ![level] = c[level]], count |-> t.count + 1]
  BY Zenon DEF insert, LowestBit
<1> HIDE DEF level
<1>3. level \in Nat
  BY <1>1, DepthAssumption DEF Levels
<1>4. PICK f : IsChain(f, level, item, left, sibling)
  BY <1>3, ChainExists
<1>5. is(f)
  <2>1. \A i \in 1 .. level : left[i] /\ sibling[i] = t.branch[i - 1]
    OBVIOUS
  <2>2. \A i \in 0 .. level : i = 0 \/ i \in 1 .. level
    BY <1>3
  <2> HIDE DEF left, sibling
  <2> QED
    BY <1>4, <2>1, <2>2 DEF IsChain
<1>6. is(c)
  BY <1>5
<1> HIDE DEF c
<1>7. c[0] = item
  BY <1>3, <1>6
<1>8. ASSUME NEW i \in 0 .. level - 1 PROVE c[i + 1] = hash_concat(t.branch[i], c[i])
  <2>1. i + 1 \in 0 .. level /\ i + 1 # 0 /\ (i + 1) - 1 = i
    BY <1>3
  <2> QED
    BY <1>6, <2>1
<1>9. InsertsAt(t, item, level, c)
  BY <1>1, <1>2, <1>7, <1>8 DEF InsertsAt
<1> QED
  BY <1>1, <1>9

(* insert finds room as long as there is, and keeps what is stored. *)
LEMMA InsertStores ==
  ASSUME NEW S, NEW s \in Seq(S), NEW x \in S, Len(s) < MAX_LEAVES, NEW t, Stores(t, s)
  PROVE  insertReturns(t) /\ Stores(insert(t, x), Append(s, x))
<1> DEFINE r == Append(s, x)
<1>1. PICK n \in Nat : n = Len(s)
  OBVIOUS
<1>2. Len(r) = n + 1 /\ r[n + 1] = x
  BY <1>1
<1>3. /\ t.count = n /\ DOMAIN t.branch = Levels
      /\ \A i \in Levels : bit(n, i) = 1 => t.branch[i] = nodes(s)[i][upper(n, i) - 1]
  BY <1>1 DEF Stores
<1>4. \A i \in 0 .. TREE_DEPTH, k \in Nat : k < upper(n, i) => nodes(r)[i][k] = nodes(s)[i][k]
  BY <1>1, FullNodesStay
<1>5. t.count + 1 \in 1 .. MAX_LEAVES
  <2>1. twoTo[TREE_DEPTH] \in Nat
    BY TwoTo, DepthAssumption
  <2>2. MAX_LEAVES \in Int
    BY <2>1 DEF MAX_LEAVES
  <2> QED
    BY <1>1, <1>3, <2>2
<1> HIDE DEF r
<1>6. nodes(r)[0][n] = x
  <2>1. n < Len(r)
    BY <1>2
  <2> QED
    BY <1>2, <2>1, Nodes
<1>21. PICK level \in Levels : \E c : InsertsAt(t, x, level, c)
  BY <1>5, InsertChain
<1>22. PICK c : InsertsAt(t, x, level, c)
  BY <1>21
<1>7. /\ LowestBit(t.count + 1, level)
      /\ c[0] = x
      /\ \A i \in 0 .. level - 1 : c[i + 1] = hash_concat(t.branch[i], c[i])
      /\ insert(t, x) = [branch |-> [t.branch EXCEPT ![level] = c[level]], count |-> t.count + 1]
  BY <1>22 DEF InsertsAt
<1>8. LowestBit(n + 1, level)
  BY <1>3, <1>7
<1>9. /\ \A j \in 0 .. level : upper(n + 1, j) = upper(n, j) + 1
      /\ \A j \in 0 .. level - 1 : bit(n, j) = 1
      /\ \A j \in Levels : j > level =>
           upper(n + 1, j) = upper(n, j) /\ bit(n + 1, j) = bit(n, j)
  BY <1>8, CountOneMore
<1>10. /\ Levels \subseteq Nat /\ Levels \subseteq 0 .. TREE_DEPTH
       /\ level \in Nat /\ \A j \in 0 .. level : j \in Levels
  BY DepthAssumption DEF Levels
<1>11. \A i \in Nat : upper(n, i) \in Nat /\ upper(n, i + 1) \in Nat /\ upper(n, 0) = n
  BY Upper
(* The nodes that are hashed are the ones that the new leaf completes. *)
<1> DEFINE D == {j \in Nat : j <= level => c[j] = nodes(r)[j][upper(n, j)]}
<1>12. 0 \in D
  BY <1>6, <1>7, <1>11
<1>13. ASSUME NEW j \in Nat, j \in D PROVE j + 1 \in D
  <2> SUFFICES ASSUME j + 1 <= level PROVE c[j + 1] = nodes(r)[j + 1][upper(n, j + 1)]
    OBVIOUS
  <2>1. j \in 0 .. level - 1 /\ j <= level /\ j \in 0 .. level
    BY <1>10
  <2>2. j \in Levels /\ j \in 0 .. TREE_DEPTH
    BY <1>10, <2>1
  <2>3. PICK k \in Nat : k = upper(n, j + 1)
    BY <1>11
  <2>4. upper(n, j) = 2 * k + bit(n, j)
    BY <2>3, Upper
  <2>5. bit(n, j) = 1
    BY <1>9, <2>1
  <2>6. upper(n, j) = 2 * k + 1 /\ upper(n, j) - 1 = 2 * k /\ 2 * k < upper(n, j) /\ 2 * k \in Nat
    BY <2>4, <2>5
  <2>7. t.branch[j] = nodes(s)[j][2 * k]
    BY <1>3, <2>2, <2>5, <2>6
  <2>8. nodes(s)[j][2 * k] = nodes(r)[j][2 * k]
    BY <1>4, <2>2, <2>6
  <2>9. c[j] = nodes(r)[j][2 * k + 1]
    BY <1>13, <2>1, <2>6
  <2>10. c[j + 1] = hash_concat(t.branch[j], c[j])
    BY <1>7, <2>1
  <2>11. nodes(r)[j + 1][k] = hash_concat(nodes(r)[j][2 * k], nodes(r)[j][2 * k + 1])
    BY <2>2, Nodes
  <2> QED
    BY <2>3, <2>7, <2>8, <2>9, <2>10, <2>11
<1>14. Nat \subseteq D
  <2> HIDE DEF D
  <2> QED
    BY <1>12, <1>13, Induction
<1>15. c[level] = nodes(r)[level][upper(n, level)]
  BY <1>10, <1>14
<1> HIDE DEF D
<1>16. insertReturns(t)
  BY <1>7 DEF insertReturns, LowestBit
<1>17. PICK u : u = insert(t, x)
  OBVIOUS
<1>18. /\ u.count = n + 1
       /\ DOMAIN u.branch = Levels
       /\ u.branch[level] = c[level]
       /\ \A i \in Levels : i # level => u.branch[i] = t.branch[i]
  BY <1>3, <1>7, <1>17
<1>19. ASSUME NEW i \in Levels, bit(n + 1, i) = 1
       PROVE  u.branch[i] = nodes(r)[i][upper(n + 1, i) - 1]
  <2>1. CASE i < level
    <3>1. i \in 0 .. level - 1
      BY <1>10, <2>1
    <3>2. bit(n + 1, i) = 0
      BY <1>8, <3>1 DEF LowestBit
    <3> QED
      BY <1>19, <3>2
  <2>2. CASE i = level
    <3>1. upper(n + 1, level) = upper(n, level) + 1
      BY <1>9, <1>10
    <3>2. upper(n + 1, level) - 1 = upper(n, level)
      <4>1. PICK k \in Nat : k = upper(n, level)
        BY <1>10, <1>11
      <4> QED
        BY <3>1, <4>1
    <3> QED
      BY <1>15, <1>18, <2>2, <3>2
  <2>3. CASE i > level
    <3>1. upper(n + 1, i) = upper(n, i) /\ bit(n, i) = 1
      BY <1>9, <1>19, <2>3
    <3>2. i \in Nat /\ upper(n, i) \in Nat
      BY <1>10, <1>11
    <3>3. upper(n, i) = 2 * upper(n, i + 1) + 1 /\ upper(n, i + 1) \in Nat
      BY <3>1, <3>2, Upper
    <3>4. upper(n, i) - 1 \in Nat /\ upper(n, i) - 1 < upper(n, i)
      BY <3>3
    <3>5. nodes(r)[i][upper(n, i) - 1] = nodes(s)[i][upper(n, i) - 1]
      BY <1>4, <1>10, <3>4
    <3>6. t.branch[i] = nodes(s)[i][upper(n, i) - 1]
      BY <1>3, <3>1
    <3>7. u.branch[i] = t.branch[i]
      BY <1>10, <1>18, <2>3
    <3> QED
      BY <3>1, <3>5, <3>6, <3>7
  <2> QED
    BY <1>10, <2>1, <2>2, <2>3
<1>20. Stores(u, r)
  BY <1>2, <1>18, <1>19 DEF Stores
<1> QED
  BY <1>16, <1>17, <1>20 DEF r

(* Inserting all leaves of a sequence, one after the other. *)
IsInserted(f, m, s) ==
  f = [n \in 0 .. m |-> IF n = 0 THEN emptyTree ELSE insert(f[n - 1], s[n])]

(* The trees that are inserted one after the other. *)
LEMMA InsertedExist ==
  ASSUME NEW s
  PROVE  \A m \in Nat : \E f : IsInserted(f, m, s)
<1> DEFINE D == {m \in Nat : \E f : IsInserted(f, m, s)}
           up(i, x) == insert(x, s[i])
<1>1. 0 \in D
  <2> DEFINE f == [i \in 0 .. 0 |-> emptyTree]
  <2>1. f = [i \in 0 .. 0 |-> IF i = 0 THEN emptyTree ELSE up(i, f[i - 1])]
    <3> HIDE DEF up
    <3> QED
      OBVIOUS
  <2> HIDE DEF f
  <2>2. IsInserted(f, 0, s)
    BY <2>1, Zenon DEF IsInserted
  <2> QED
    BY <2>2
<1>2. ASSUME NEW m \in Nat, m \in D PROVE m + 1 \in D
  <2>1. PICK f : IsInserted(f, m, s)
    BY <1>2
  <2> DEFINE g == [i \in 0 .. m + 1 |-> IF i = m + 1 THEN up(m + 1, f[m]) ELSE f[i]]
  <2>2. \A i \in 0 .. m : f[i] = IF i = 0 THEN emptyTree ELSE up(i, f[i - 1])
    BY <2>1, Zenon DEF IsInserted
  <2> HIDE DEF up
  <2>6. \A i \in 0 .. m : g[i] = f[i]
    OBVIOUS
  <2>3. g[m + 1] = up(m + 1, g[m]) /\ m + 1 # 0
    BY <2>6
  <2>7. g = [i \in 0 .. m + 1 |-> g[i]]
    OBVIOUS
  <2> HIDE DEF g
  <2>4. ASSUME NEW i \in 0 .. m + 1 PROVE g[i] = IF i = 0 THEN emptyTree ELSE up(i, g[i - 1])
    BY <2>2, <2>3, <2>6
  <2>5. IsInserted(g, m + 1, s)
    <3>1. g = [i \in 0 .. m + 1 |-> IF i = 0 THEN emptyTree ELSE up(i, g[i - 1])]
      BY <2>7, <2>4
    <3> QED
      BY <3>1, Zenon DEF IsInserted, up
  <2> QED
    BY <2>5
<1> HIDE DEF D
<1>3. Nat \subseteq D
  BY <1>1, <1>2, Induction
<1> QED
  BY <1>3 DEF D

(* After all leaves, the tree stores them. *)
LEMMA InsertAllStores ==
  ASSUME NEW S, NEW s \in Seq(S), Len(s) <= MAX_LEAVES
  PROVE  Stores(insertAll(s), s)
<1> DEFINE f == CHOOSE h : IsInserted(h, Len(s), s)
           up(i, x) == insert(x, s[i])
<1>1. IsInserted(f, Len(s), s)
  <2>1. Len(s) \in Nat
    OBVIOUS
  <2>2. \E h : IsInserted(h, Len(s), s)
    BY <2>1, InsertedExist
  <2> QED
    BY <2>2
<1>2. insertAll(s) = f[Len(s)]
  BY Zenon DEF insertAll, IsInserted
<1> HIDE DEF f
<1>3. \A n \in 0 .. Len(s) : f[n] = IF n = 0 THEN emptyTree ELSE up(n, f[n - 1])
  BY <1>1, Zenon DEF IsInserted
<1> HIDE DEF up
<1> DEFINE D == {n \in Nat : n <= Len(s) => Stores(f[n], SubSeq(s, 1, n))}
<1>4. 0 \in D
  <2>1. f[0] = emptyTree /\ SubSeq(s, 1, 0) = << >>
    BY <1>3
  <2> QED
    BY <2>1, EmptyStores
<1>5. ASSUME NEW n \in Nat, n \in D PROVE n + 1 \in D
  <2> SUFFICES ASSUME n + 1 <= Len(s) PROVE Stores(f[n + 1], SubSeq(s, 1, n + 1))
    OBVIOUS
  <2> DEFINE r == SubSeq(s, 1, n)
  <2>1. r \in Seq(S) /\ Len(r) = n /\ s[n + 1] \in S /\ SubSeq(s, 1, n + 1) = Append(r, s[n + 1])
    OBVIOUS
  <2>2. Stores(f[n], r)
    BY <1>5
  <2>3. n + 1 \in 0 .. Len(s) /\ n + 1 # 0 /\ (n + 1) - 1 = n
    OBVIOUS
  <2>4. f[n + 1] = up(n + 1, f[n])
    BY <1>3, <2>3
  <2>5. n < MAX_LEAVES
    <3>1. twoTo[TREE_DEPTH] \in Nat
      BY TwoTo, DepthAssumption
    <3>2. MAX_LEAVES \in Int
      BY <3>1 DEF MAX_LEAVES
    <3> QED
      BY <3>2
  <2> HIDE DEF r
  <2>6. Stores(insert(f[n], s[n + 1]), Append(r, s[n + 1]))
    BY <2>1, <2>2, <2>5, InsertStores
  <2> QED
    BY <2>1, <2>4, <2>6 DEF up
<1> HIDE DEF D
<1>6. Nat \subseteq D
  BY <1>4, <1>5, Induction
<1>7. SubSeq(s, 1, Len(s)) = s /\ Len(s) \in Nat /\ Len(s) <= Len(s)
  OBVIOUS
<1>8. Stores(f[Len(s)], SubSeq(s, 1, Len(s)))
  BY <1>6, <1>7 DEF D
<1> QED
  BY <1>2, <1>7, <1>8

(* The root that the contract computes with one hash per level is that of  *)
(* the tree of all leaves.                                                 *)
THEOREM MerkleRootIsReference ==
  ASSUME NEW S, NEW s \in Seq(S), Len(s) <= MAX_LEAVES
  PROVE  rootWithCtx(insertAll(s)) = reference(s)
BY InsertAllStores, StoredRoot

(* insert returns before the end of its loop as long as the tree is not    *)
(* full.                                                                   *)
THEOREM MerkleInsertReturns ==
  ASSUME NEW S, NEW s \in Seq(S), Len(s) < MAX_LEAVES, S # {}
  PROVE  insertReturns(insertAll(s))
<1>1. PICK x \in S : TRUE
  OBVIOUS
<1>2. MAX_LEAVES \in Int
  <2>1. twoTo[TREE_DEPTH] \in Nat
    BY TwoTo, DepthAssumption
  <2> QED
    BY <2>1 DEF MAX_LEAVES
<1>3. Len(s) <= MAX_LEAVES
  BY <1>2
<1> QED
  BY <1>1, <1>3, InsertAllStores, InsertStores

(***************************************************************************)
(* Branches                                                                *)
(***************************************************************************)

(* keccak256 is injective. *)
LEMMA HashConcatInjective ==
  ASSUME NEW a, NEW b, NEW c, NEW d, hash_concat(a, b) = hash_concat(c, d)
  PROVE  a = c /\ b = d
BY DEF hash_concat

(* The siblings of the nodes above an index. *)
siblings(s, index) ==
  [i \in 1 .. TREE_DEPTH |->
     IF bit(index, i - 1) = 1 THEN nodes(s)[i - 1][upper(index, i - 1) - 1]
     ELSE nodes(s)[i - 1][upper(index, i - 1) + 1]]

(* From a leaf to the root of a tree there is only the way over the nodes  *)
(* above the index, with their siblings.                                   *)
LEMMA BranchIsSound ==
  ASSUME NEW s, NEW index \in 0 .. MAX_LEAVES
  PROVE  \A item, branch : branchRoot(item, branch, index) = reference(s) =>
           /\ item = nodes(s)[0][index]
           /\ \A i \in Levels : branch[i + 1] = siblings(s, index)[i + 1]
<1> SUFFICES ASSUME NEW item, NEW branch, branchRoot(item, branch, index) = reference(s)
             PROVE  /\ item = nodes(s)[0][index]
                    /\ \A i \in Levels : branch[i + 1] = siblings(s, index)[i + 1]
  OBVIOUS
<1>1. index \in Nat /\ upper(index, TREE_DEPTH) = 0 /\ upper(index, 0) = index
  BY NothingAbove, Upper
<1>2. PICK c : /\ c[0] = item
               /\ \A i \in Levels :
                    c[i + 1] = IF bit(index, i) = 1 THEN hash_concat(branch[i + 1], c[i])
                               ELSE hash_concat(c[i], branch[i + 1])
               /\ branchRoot(item, branch, index) = c[TREE_DEPTH]
  BY BranchChain
<1> DEFINE D == {m \in Nat : m <= TREE_DEPTH =>
                   c[TREE_DEPTH - m] = nodes(s)[TREE_DEPTH - m][upper(index, TREE_DEPTH - m)]}
<1>3. 0 \in D
  <2>1. TREE_DEPTH - 0 = TREE_DEPTH
    BY DepthAssumption
  <2> QED
    BY <1>1, <1>2, <2>1 DEF reference
<1>4. ASSUME NEW m \in Nat, m \in D PROVE m + 1 \in D
  <2> SUFFICES ASSUME m + 1 <= TREE_DEPTH
               PROVE  c[TREE_DEPTH - (m + 1)]
                        = nodes(s)[TREE_DEPTH - (m + 1)][upper(index, TREE_DEPTH - (m + 1))]
    OBVIOUS
  <2>1. PICK i \in Levels : i = TREE_DEPTH - (m + 1) /\ i + 1 = TREE_DEPTH - m /\ i \in Nat
    BY DepthAssumption DEF Levels
  <2>2. m <= TREE_DEPTH
    BY DepthAssumption
  <2>3. c[i + 1] = nodes(s)[i + 1][upper(index, i + 1)]
    BY <1>4, <2>1, <2>2
  <2>4. PICK k \in Nat : k = upper(index, i + 1)
    BY <1>1, <2>1, Upper
  <2>5. upper(index, i) = 2 * k + bit(index, i) /\ bit(index, i) \in {0, 1}
    BY <1>1, <2>1, <2>4, Upper
  <2>6. nodes(s)[i + 1][k] = hash_concat(nodes(s)[i][2 * k], nodes(s)[i][2 * k + 1])
    BY Nodes
  <2>7. CASE bit(index, i) = 1
    <3>1. c[i + 1] = hash_concat(branch[i + 1], c[i])
      BY <1>2, <2>7
    <3>2. c[i] = nodes(s)[i][2 * k + 1]
      BY <2>3, <2>4, <2>6, <3>1, HashConcatInjective
    <3> QED
      BY <2>1, <2>5, <2>7, <3>2
  <2>8. CASE bit(index, i) = 0
    <3>1. c[i + 1] = hash_concat(c[i], branch[i + 1])
      BY <1>2, <2>8
    <3>2. c[i] = nodes(s)[i][2 * k]
      BY <2>3, <2>4, <2>6, <3>1, HashConcatInjective
    <3>3. upper(index, i) = 2 * k
      BY <2>5, <2>8
    <3> QED
      BY <2>1, <3>2, <3>3
  <2> QED
    BY <2>5, <2>7, <2>8
<1> HIDE DEF D
<1>5. Nat \subseteq D
  BY <1>3, <1>4, Induction
<1>6. TREE_DEPTH \in Nat /\ TREE_DEPTH <= TREE_DEPTH /\ TREE_DEPTH - TREE_DEPTH = 0
  BY DepthAssumption
<1>7. c[0] = nodes(s)[0][upper(index, 0)]
  BY <1>5, <1>6 DEF D
<1>8. ASSUME NEW i \in 0 .. TREE_DEPTH PROVE c[i] = nodes(s)[i][upper(index, i)]
  <2>1. PICK m \in Nat : m = TREE_DEPTH - i /\ TREE_DEPTH - m = i /\ m <= TREE_DEPTH
    BY DepthAssumption
  <2>2. m \in D
    BY <1>5
  <2> QED
    BY <2>1, <2>2 DEF D
<1>9. ASSUME NEW i \in Levels PROVE branch[i + 1] = siblings(s, index)[i + 1]
  <2>1. /\ i \in 0 .. TREE_DEPTH /\ i + 1 \in 0 .. TREE_DEPTH
        /\ i \in Nat /\ i + 1 \in 1 .. TREE_DEPTH /\ (i + 1) - 1 = i
    BY DepthAssumption DEF Levels
  <2>2. PICK k \in Nat : k = upper(index, i + 1)
    BY <1>1, <2>1, Upper
  <2>3. upper(index, i) = 2 * k + bit(index, i) /\ bit(index, i) \in {0, 1}
    BY <1>1, <2>1, <2>2, Upper
  <2>4. nodes(s)[i + 1][k] = hash_concat(nodes(s)[i][2 * k], nodes(s)[i][2 * k + 1])
    BY Nodes
  <2>5. c[i + 1] = nodes(s)[i + 1][k]
    BY <1>8, <2>1, <2>2
  <2>6. siblings(s, index)[i + 1] = IF bit(index, i) = 1 THEN nodes(s)[i][upper(index, i) - 1]
                                    ELSE nodes(s)[i][upper(index, i) + 1]
    BY <2>1 DEF siblings
  <2>7. CASE bit(index, i) = 1
    <3>1. c[i + 1] = hash_concat(branch[i + 1], c[i]) /\ upper(index, i) - 1 = 2 * k
      BY <1>2, <2>3, <2>7
    <3>2. branch[i + 1] = nodes(s)[i][2 * k]
      <4>1. hash_concat(branch[i + 1], c[i]) = hash_concat(nodes(s)[i][2 * k], nodes(s)[i][2 * k + 1])
        BY <2>4, <2>5, <3>1
      <4> QED
        BY <4>1 DEF hash_concat
    <3> QED
      BY <2>6, <2>7, <3>1, <3>2
  <2>8. CASE bit(index, i) = 0
    <3>1. c[i + 1] = hash_concat(c[i], branch[i + 1]) /\ upper(index, i) + 1 = 2 * k + 1
      BY <1>2, <2>3, <2>8
    <3>2. branch[i + 1] = nodes(s)[i][2 * k + 1]
      <4>1. hash_concat(c[i], branch[i + 1]) = hash_concat(nodes(s)[i][2 * k], nodes(s)[i][2 * k + 1])
        BY <2>4, <2>5, <3>1
      <4> QED
        BY <4>1 DEF hash_concat
    <3> QED
      BY <2>6, <2>8, <3>1, <3>2
  <2> QED
    BY <2>3, <2>7, <2>8
<1> QED
  BY <1>1, <1>2, <1>7, <1>9

(* The siblings of those nodes lead from the leaf to the root. *)
LEMMA BranchIsComplete ==
  ASSUME NEW s, NEW index \in 0 .. MAX_LEAVES
  PROVE  branchRoot(nodes(s)[0][index], siblings(s, index), index) = reference(s)
<1>1. index \in Nat /\ upper(index, TREE_DEPTH) = 0 /\ upper(index, 0) = index
  BY NothingAbove, Upper
<1> DEFINE branch == siblings(s, index)
<1>2. PICK c : /\ c[0] = nodes(s)[0][index]
               /\ \A i \in Levels :
                    c[i + 1] = IF bit(index, i) = 1 THEN hash_concat(branch[i + 1], c[i])
                               ELSE hash_concat(c[i], branch[i + 1])
               /\ branchRoot(nodes(s)[0][index], branch, index) = c[TREE_DEPTH]
  BY BranchChain
<1>3. \A i \in Levels :
        branch[i + 1] = IF bit(index, i) = 1 THEN nodes(s)[i][upper(index, i) - 1]
                        ELSE nodes(s)[i][upper(index, i) + 1]
  <2> SUFFICES ASSUME NEW i \in Levels
               PROVE  branch[i + 1] = IF bit(index, i) = 1 THEN nodes(s)[i][upper(index, i) - 1]
                                      ELSE nodes(s)[i][upper(index, i) + 1]
    OBVIOUS
  <2>1. i + 1 \in 1 .. TREE_DEPTH /\ (i + 1) - 1 = i
    BY DepthAssumption DEF Levels
  <2> QED
    BY <2>1 DEF siblings
<1> HIDE DEF branch
<1> DEFINE D == {i \in Nat : i <= TREE_DEPTH => c[i] = nodes(s)[i][upper(index, i)]}
<1>4. 0 \in D
  BY <1>1, <1>2
<1>5. ASSUME NEW i \in Nat, i \in D PROVE i + 1 \in D
  <2> SUFFICES ASSUME i + 1 <= TREE_DEPTH PROVE c[i + 1] = nodes(s)[i + 1][upper(index, i + 1)]
    OBVIOUS
  <2>1. i \in Levels /\ i <= TREE_DEPTH
    BY DepthAssumption DEF Levels
  <2>2. c[i] = nodes(s)[i][upper(index, i)]
    BY <1>5, <2>1
  <2>3. PICK k \in Nat : k = upper(index, i + 1)
    BY <1>1, Upper
  <2>4. upper(index, i) = 2 * k + bit(index, i) /\ bit(index, i) \in {0, 1}
    BY <1>1, <2>3, Upper
  <2>5. nodes(s)[i + 1][k] = hash_concat(nodes(s)[i][2 * k], nodes(s)[i][2 * k + 1])
    BY <2>1, Nodes
  <2>6. CASE bit(index, i) = 1
    <3>1. upper(index, i) = 2 * k + 1 /\ upper(index, i) - 1 = 2 * k
      BY <2>4, <2>6
    <3>2. c[i + 1] = hash_concat(branch[i + 1], c[i]) /\ branch[i + 1] = nodes(s)[i][2 * k]
      BY <1>2, <1>3, <2>1, <2>6, <3>1
    <3> QED
      BY <2>2, <2>3, <2>5, <3>1, <3>2
  <2>7. CASE bit(index, i) = 0
    <3>1. upper(index, i) = 2 * k /\ upper(index, i) + 1 = 2 * k + 1
      BY <2>4, <2>7
    <3>2. c[i + 1] = hash_concat(c[i], branch[i + 1]) /\ branch[i + 1] = nodes(s)[i][2 * k + 1]
      BY <1>2, <1>3, <2>1, <2>7, <3>1
    <3> QED
      BY <2>2, <2>3, <2>5, <3>1, <3>2
  <2> QED
    BY <2>4, <2>6, <2>7
<1> HIDE DEF D
<1>6. TREE_DEPTH \in D
  BY <1>4, <1>5, Induction, DepthAssumption
<1>7. c[TREE_DEPTH] = nodes(s)[TREE_DEPTH][0]
  BY <1>1, <1>6, DepthAssumption DEF D
<1> QED
  BY <1>2, <1>7 DEF branch, reference

(* A leaf, which is not zero, can be proved at an index of a tree, by some *)
(* branch, exactly if it stands there.                                     *)
THEOREM MerkleBranchIsIndex ==
  ASSUME NEW S, << >> \notin S, NEW s \in Seq(S), NEW item \in S, NEW index \in 0 .. MAX_LEAVES
  PROVE  (\E branch : branchRoot(item, branch, index) = reference(s))
           <=> index + 1 \in DOMAIN s /\ s[index + 1] = item
<1>1. index \in Nat
  OBVIOUS
<1>2. nodes(s)[0][index] = IF index < Len(s) THEN s[index + 1] ELSE << >>
  BY <1>1, Nodes
<1>3. index < Len(s) <=> index + 1 \in DOMAIN s
  BY <1>1
<1>4. ASSUME NEW branch, branchRoot(item, branch, index) = reference(s)
      PROVE  index + 1 \in DOMAIN s /\ s[index + 1] = item
  <2>1. item = nodes(s)[0][index]
    BY <1>4, BranchIsSound
  <2> QED
    BY <1>2, <1>3, <2>1
<1>5. ASSUME index + 1 \in DOMAIN s, s[index + 1] = item
      PROVE  \E branch : branchRoot(item, branch, index) = reference(s)
  <2>1. item = nodes(s)[0][index]
    BY <1>2, <1>3, <1>5
  <2>2. branchRoot(item, siblings(s, index), index) = reference(s)
    BY <2>1, BranchIsComplete
  <2> QED
    BY <2>2
<1> QED
  BY <1>4, <1>5

(* Trees of different leaves have different roots, also if one is a prefix *)
(* of the other.                                                           *)
THEOREM MerkleRootsDiffer ==
  ASSUME NEW S, << >> \notin S, NEW s \in Seq(S), NEW r \in Seq(S),
         Len(s) <= MAX_LEAVES, Len(r) <= MAX_LEAVES, reference(s) = reference(r)
  PROVE  s = r
<1>1. ASSUME NEW a \in Seq(S), NEW b \in Seq(S), Len(a) <= MAX_LEAVES, reference(a) = reference(b),
             NEW i \in DOMAIN a
      PROVE  i \in DOMAIN b /\ b[i] = a[i]
  <2>1. MAX_LEAVES \in Int
    <3>1. twoTo[TREE_DEPTH] \in Nat
      BY TwoTo, DepthAssumption
    <3> QED
      BY <3>1 DEF MAX_LEAVES
  <2>2. PICK index \in 0 .. MAX_LEAVES : index + 1 = i
    <3>1. i - 1 \in 0 .. MAX_LEAVES /\ (i - 1) + 1 = i
      BY <1>1, <2>1
    <3> QED
      BY <3>1
  <2>3. a[i] \in S
    OBVIOUS
  <2>4. \E branch : branchRoot(a[i], branch, index) = reference(a)
    BY <2>2, <2>3, MerkleBranchIsIndex
  <2>5. \E branch : branchRoot(a[i], branch, index) = reference(b)
    BY <1>1, <2>4
  <2> QED
    BY <2>2, <2>3, <2>5, MerkleBranchIsIndex
<1>2. DOMAIN s = DOMAIN r /\ \A i \in DOMAIN s : s[i] = r[i]
  BY <1>1
<1>3. Len(s) = Len(r)
  BY <1>2
<1> QED
  BY <1>2, <1>3

(* branchRoot looks at the lowest bits of an index only. *)
LEMMA LowBits ==
  ASSUME NEW index \in Nat
  PROVE  /\ index % twoTo[TREE_DEPTH] \in 0 .. MAX_LEAVES
         /\ \A i \in Levels : bit(index % twoTo[TREE_DEPTH], i) = bit(index, i)
<1>1. PICK p \in Nat \ {0} : p = twoTo[TREE_DEPTH]
  BY TwoTo, DepthAssumption
<1>2. PICK h \in Nat : h = index \div p
  BY <1>1
<1>3. PICK low \in Nat : low = index % p
  BY <1>1
<1>4. index = (h * p) + low /\ low < p
  <2>1. index = ((index \div p) * p) + (index % p) /\ (index % p) < p
    OBVIOUS
  <2> QED
    BY <1>2, <1>3, <2>1
<1>5. low \in 0 .. MAX_LEAVES
  BY <1>1, <1>3, <1>4 DEF MAX_LEAVES
<1> DEFINE D == {i \in Nat : i <= TREE_DEPTH =>
                   upper(index, i) = upper(low, i) + (h * twoTo[TREE_DEPTH - i])}
<1>6. 0 \in D
  <2>1. upper(index, 0) = index /\ upper(low, 0) = low
    BY Upper
  <2>2. TREE_DEPTH - 0 = TREE_DEPTH
    BY DepthAssumption
  <2>3. h * p \in Nat
    OBVIOUS
  <2>4. upper(index, 0) = upper(low, 0) + (h * p)
    BY <1>4, <2>1, <2>3
  <2> QED
    BY <1>1, <2>2, <2>4
<1>7. ASSUME NEW i \in Nat, i + 1 <= TREE_DEPTH,
             upper(index, i) = upper(low, i) + (h * twoTo[TREE_DEPTH - i])
      PROVE  /\ bit(low, i) = bit(index, i)
             /\ upper(index, i + 1) = upper(low, i + 1) + (h * twoTo[TREE_DEPTH - (i + 1)])
  <2>1. TREE_DEPTH - (i + 1) \in Nat /\ TREE_DEPTH - i = (TREE_DEPTH - (i + 1)) + 1
    BY <1>7, DepthAssumption
  <2>2. PICK e \in Nat : e = twoTo[TREE_DEPTH - (i + 1)] /\ twoTo[TREE_DEPTH - i] = 2 * e
    BY <2>1, TwoTo
  <2>3. PICK z \in Nat : z = h * e
    OBVIOUS
  <2>4. h * (2 * e) = 2 * z
    BY <2>3
  <2>5. PICK a \in Nat : a = upper(index, i + 1)
    BY Upper
  <2>6. PICK b \in Nat : b = upper(low, i + 1)
    BY Upper
  <2>7. upper(index, i) = 2 * a + bit(index, i) /\ bit(index, i) \in {0, 1}
    BY <2>5, Upper
  <2>8. upper(low, i) = 2 * b + bit(low, i) /\ bit(low, i) \in {0, 1}
    BY <2>6, Upper
  <2>9. upper(index, i) = upper(low, i) + (2 * z)
    BY <1>7, <2>2, <2>4
  <2>10. 2 * a + bit(index, i) = 2 * b + bit(low, i) + 2 * z
    BY <2>7, <2>8, <2>9
  <2>11. bit(low, i) = bit(index, i) /\ a = b + z
    BY <2>7, <2>8, <2>10
  <2> QED
    BY <2>2, <2>3, <2>5, <2>6, <2>11
<1>8. \A i \in Nat : i \in D => i + 1 \in D
  <2> SUFFICES ASSUME NEW i \in Nat, i \in D, i + 1 <= TREE_DEPTH PROVE i + 1 \in D
    OBVIOUS
  <2>1. i <= TREE_DEPTH
    BY DepthAssumption
  <2>2. upper(index, i) = upper(low, i) + (h * twoTo[TREE_DEPTH - i])
    BY <2>1
  <2> QED
    BY <1>7, <2>2
<1> HIDE DEF D
<1>9. Nat \subseteq D
  BY <1>6, <1>8, Induction
<1>10. ASSUME NEW i \in Levels PROVE bit(low, i) = bit(index, i)
  <2>1. i \in Nat /\ i + 1 <= TREE_DEPTH /\ i <= TREE_DEPTH
    BY DepthAssumption DEF Levels
  <2>2. upper(index, i) = upper(low, i) + (h * twoTo[TREE_DEPTH - i])
    BY <1>9, <2>1 DEF D
  <2> QED
    BY <1>7, <2>1, <2>2
<1> QED
  BY <1>1, <1>3, <1>5, <1>10

(* The index is a uint256, of which branchRoot takes the TREE_DEPTH lowest *)
(* bits: with any other above them it proves the same.                     *)
THEOREM MerkleLowBitsOfIndex ==
  ASSUME NEW item, NEW branch, NEW index \in Nat
  PROVE  branchRoot(item, branch, index) = branchRoot(item, branch, index % twoTo[TREE_DEPTH])
<1>1. PICK low : low = index % twoTo[TREE_DEPTH]
  OBVIOUS
<1>2. \A i \in Levels : bit(low, i) = bit(index, i)
  BY <1>1, LowBits
<1>3. PICK c : /\ c[0] = item
               /\ \A i \in Levels :
                    c[i + 1] = IF bit(index, i) = 1 THEN hash_concat(branch[i + 1], c[i])
                               ELSE hash_concat(c[i], branch[i + 1])
               /\ branchRoot(item, branch, index) = c[TREE_DEPTH]
  BY BranchChain
<1>4. PICK d : /\ d[0] = item
               /\ \A i \in Levels :
                    d[i + 1] = IF bit(low, i) = 1 THEN hash_concat(branch[i + 1], d[i])
                               ELSE hash_concat(d[i], branch[i + 1])
               /\ branchRoot(item, branch, low) = d[TREE_DEPTH]
  BY BranchChain
<1> DEFINE D == {i \in Nat : i <= TREE_DEPTH => c[i] = d[i]}
<1>5. 0 \in D
  BY <1>3, <1>4
<1>6. ASSUME NEW i \in Nat, i \in D PROVE i + 1 \in D
  <2> SUFFICES ASSUME i + 1 <= TREE_DEPTH PROVE c[i + 1] = d[i + 1]
    OBVIOUS
  <2>1. i \in Levels /\ i <= TREE_DEPTH
    BY DepthAssumption DEF Levels
  <2>2. c[i] = d[i]
    BY <1>6, <2>1
  <2> QED
    BY <1>2, <1>3, <1>4, <2>1, <2>2
<1> HIDE DEF D
<1>7. TREE_DEPTH \in D
  BY <1>5, <1>6, Induction, DepthAssumption
<1>8. c[TREE_DEPTH] = d[TREE_DEPTH]
  BY <1>7, DepthAssumption DEF D
<1> QED
  BY <1>1, <1>3, <1>4, <1>8

(***************************************************************************)
(* The tree of Home                                                        *)
(***************************************************************************)

(* The root of the tree of messages, each hashed into a leaf. *)
hashes(leaves) == [i \in DOMAIN leaves |-> <<leaves[i]>>]

merkleRoot(leaves) == rootWithCtx(insertAll(hashes(leaves)))

(* The leaves are hashes, and none of them is zero. *)
LEMMA HashesAreLeaves ==
  ASSUME NEW r \in Root
  PROVE  hashes(r) \in Seq({<<m>> : m \in Leaf}) /\ Len(hashes(r)) = Len(r)
BY DEF hashes, Root

LEMMA NoHashIsZero == << >> \notin {<<m>> : m \in Leaf}
OBVIOUS

(* A root may stand for the sequence of its leaves, as it does in Message: *)
(* the contract computes the same for two of them only if they are one.    *)
THEOREM HomeRootIsLeaves ==
  ASSUME NEW r \in Root, NEW s \in Root, Len(r) <= MAX_LEAVES, Len(s) <= MAX_LEAVES
  PROVE  merkleRoot(r) = merkleRoot(s) <=> r = s
<1> DEFINE S == {<<m>> : m \in Leaf}
<1>1. << >> \notin S
  BY NoHashIsZero
<1>2. /\ hashes(r) \in Seq(S) /\ Len(hashes(r)) = Len(r)
      /\ hashes(s) \in Seq(S) /\ Len(hashes(s)) = Len(s)
  BY HashesAreLeaves
<1> HIDE DEF S
<1>3. merkleRoot(r) = reference(hashes(r)) /\ merkleRoot(s) = reference(hashes(s))
  BY <1>2, MerkleRootIsReference DEF merkleRoot
<1>4. ASSUME merkleRoot(r) = merkleRoot(s) PROVE r = s
  <2>1. hashes(r) = hashes(s)
    BY <1>1, <1>2, <1>3, <1>4, MerkleRootsDiffer
  <2>2. ASSUME NEW i \in DOMAIN r PROVE i \in DOMAIN s /\ r[i] = s[i]
    <3>1. i \in DOMAIN hashes(r) /\ hashes(r)[i] = <<r[i]>>
      BY DEF hashes
    <3>2. i \in DOMAIN s /\ hashes(s)[i] = <<s[i]>>
      BY <2>1, <3>1 DEF hashes
    <3> QED
      BY <2>1, <3>1, <3>2
  <2>3. r \in Seq(Leaf) /\ s \in Seq(Leaf) /\ Len(r) = Len(s)
    BY <1>2, <2>1 DEF Root
  <2> QED
    BY <2>2, <2>3
<1> QED
  BY <1>4

(* A branch may stand for an index, as IsBranch has it: some branch takes  *)
(* a message from an index to a root exactly if it is the leaf there.      *)
THEOREM HomeBranchIsIndex ==
  ASSUME NEW r \in Root, Len(r) <= MAX_LEAVES, NEW m \in Leaf, NEW index \in 0 .. MAX_LEAVES
  PROVE  (\E branch : branchRoot(<<m>>, branch, index) = merkleRoot(r)) <=> IsBranch(m, index, r)
<1> DEFINE S == {<<x>> : x \in Leaf}
<1>1. << >> \notin S /\ <<m>> \in S
  BY NoHashIsZero
<1>2. hashes(r) \in Seq(S) /\ Len(hashes(r)) = Len(r)
  BY HashesAreLeaves
<1> HIDE DEF S
<1>3. merkleRoot(r) = reference(hashes(r))
  BY <1>2, MerkleRootIsReference DEF merkleRoot
<1>4. (\E branch : branchRoot(<<m>>, branch, index) = merkleRoot(r))
        <=> index + 1 \in DOMAIN hashes(r) /\ hashes(r)[index + 1] = <<m>>
  BY <1>1, <1>2, <1>3, MerkleBranchIsIndex
<1>5. DOMAIN hashes(r) = DOMAIN r /\ \A i \in DOMAIN r : hashes(r)[i] = <<r[i]>>
  BY DEF hashes
<1>6. index + 1 \in DOMAIN r => (hashes(r)[index + 1] = <<m>> <=> r[index + 1] = m)
  BY <1>5
<1> QED
  BY <1>4, <1>5, <1>6 DEF IsBranch

(***************************************************************************)
(* The subtrees of the prover                                              *)
(***************************************************************************)

(* That a place of the leaves of a subtree is taken: its first one then is. *)
reaches(n, depth, k) == k * twoTo[depth] < n

(* Which subtrees n leaves reach.  The one that the next leaf falls into   *)
(* is that of number upper(n, depth).                                      *)
LEMMA Reaches ==
  ASSUME NEW n \in Nat
  PROVE  \A depth, k \in Nat :
           /\ reaches(n, 0, k) <=> k < n
           /\ reaches(n, depth + 1, k) <=> reaches(n, depth, 2 * k)
           /\ reaches(n, depth, 2 * k + 1) => reaches(n, depth, 2 * k)
           /\ reaches(n + 1, depth, k) <=> k <= upper(n, depth)
           /\ k < upper(n, depth) => reaches(n, depth, k)
           /\ k > upper(n, depth) => ~reaches(n, depth, k)
<1>1. \A k \in Nat : /\ reaches(n, 0, k) <=> k < n
                     /\ reaches(n + 1, 0, k) <=> k < n + 1
  BY TwoTo DEF reaches
<1>2. ASSUME NEW m \in Nat, NEW depth \in Nat, NEW k \in Nat
      PROVE  reaches(m, depth + 1, k) <=> reaches(m, depth, 2 * k)
  <2>1. PICK p \in Nat \ {0} : p = twoTo[depth] /\ twoTo[depth + 1] = 2 * p
    BY TwoTo
  <2>2. k * (2 * p) = (2 * k) * p
    OBVIOUS
  <2> QED
    BY <2>1, <2>2 DEF reaches
<1>3. ASSUME NEW depth \in Nat, NEW k \in Nat, reaches(n, depth, 2 * k + 1)
      PROVE  reaches(n, depth, 2 * k)
  <2>1. PICK p \in Nat \ {0} : p = twoTo[depth]
    BY TwoTo
  <2>2. PICK z \in Nat : z = (2 * k) * p
    OBVIOUS
  <2>3. (2 * k + 1) * p = z + p
    BY <2>2
  <2> QED
    BY <1>3, <2>1, <2>2, <2>3 DEF reaches
<1>4. ASSUME NEW depth \in Nat, NEW k \in Nat, reaches(n, depth, k)
      PROVE  reaches(n + 1, depth, k)
  <2>1. PICK p \in Nat \ {0} : p = twoTo[depth]
    BY TwoTo
  <2>2. PICK z \in Nat : z = k * p
    OBVIOUS
  <2> QED
    BY <1>4, <2>1, <2>2 DEF reaches
<1> DEFINE D == {depth \in Nat : \A k \in Nat :
                   /\ reaches(n + 1, depth, k) <=> k <= upper(n, depth)
                   /\ k < upper(n, depth) => reaches(n, depth, k)}
<1>5. 0 \in D
  <2>1. upper(n, 0) = n
    BY Upper
  <2>2. ASSUME NEW k \in Nat
        PROVE  /\ reaches(n + 1, 0, k) <=> k <= n
               /\ k < n => reaches(n, 0, k)
    BY <1>1
  <2> QED
    BY <2>1, <2>2
<1>6. ASSUME NEW depth \in Nat, depth \in D PROVE depth + 1 \in D
  <2> SUFFICES ASSUME NEW k \in Nat
               PROVE  /\ reaches(n + 1, depth + 1, k) <=> k <= upper(n, depth + 1)
                      /\ k < upper(n, depth + 1) => reaches(n, depth + 1, k)
    OBVIOUS
  <2>1. PICK a \in Nat : a = upper(n, depth)
    BY Upper
  <2>2. PICK b \in Nat : b = upper(n, depth + 1)
    BY Upper
  <2>3. a = 2 * b + bit(n, depth) /\ bit(n, depth) \in {0, 1}
    BY <2>1, <2>2, Upper
  <2>4. (2 * k <= a <=> k <= b) /\ (k < b => 2 * k < a)
    BY <2>3
  <2>5. 2 * k \in Nat /\ n + 1 \in Nat
    OBVIOUS
  <2>6. reaches(n + 1, depth + 1, k) <=> reaches(n + 1, depth, 2 * k)
    BY <1>2, <2>5
  <2>7. reaches(n, depth + 1, k) <=> reaches(n, depth, 2 * k)
    BY <1>2
  <2>8. /\ reaches(n + 1, depth, 2 * k) <=> 2 * k <= a
        /\ 2 * k < a => reaches(n, depth, 2 * k)
    BY <1>6, <2>1, <2>5
  <2> QED
    BY <2>2, <2>4, <2>6, <2>7, <2>8
<1> HIDE DEF D
<1>7. Nat \subseteq D
  BY <1>5, <1>6, Induction
<1> SUFFICES ASSUME NEW depth \in Nat, NEW k \in Nat
             PROVE  /\ reaches(n, 0, k) <=> k < n
                    /\ reaches(n, depth + 1, k) <=> reaches(n, depth, 2 * k)
                    /\ reaches(n, depth, 2 * k + 1) => reaches(n, depth, 2 * k)
                    /\ reaches(n + 1, depth, k) <=> k <= upper(n, depth)
                    /\ k < upper(n, depth) => reaches(n, depth, k)
                    /\ k > upper(n, depth) => ~reaches(n, depth, k)
  OBVIOUS
<1>8. /\ reaches(n + 1, depth, k) <=> k <= upper(n, depth)
      /\ k < upper(n, depth) => reaches(n, depth, k)
  BY <1>7 DEF D
<1>9. k > upper(n, depth) => ~reaches(n, depth, k)
  BY <1>4, <1>8, Upper
<1> QED
  BY <1>1, <1>2, <1>3, <1>8, <1>9

(* The subtrees of the lowest m depths. *)
IsSubtrees(f, m, s) ==
  f = [depth \in 0 .. m |->
         IF depth = 0
         THEN [k \in Nat |-> IF k < Len(s) THEN LeafTree(s[k + 1]) ELSE ZeroTree(0)]
         ELSE [k \in Nat |->
                 IF k * twoTo[depth] < Len(s)
                 THEN NodeTree(f[depth - 1][2 * k], f[depth - 1][2 * k + 1])
                 ELSE ZeroTree(depth)]]

(* All of them. *)
AreSubtrees(f, s) ==
  f = [depth \in Nat |->
         IF depth = 0
         THEN [k \in Nat |-> IF k < Len(s) THEN LeafTree(s[k + 1]) ELSE ZeroTree(0)]
         ELSE [k \in Nat |->
                 IF k * twoTo[depth] < Len(s)
                 THEN NodeTree(f[depth - 1][2 * k], f[depth - 1][2 * k + 1])
                 ELSE ZeroTree(depth)]]

(* The recursion of subtrees has a solution. *)
LEMMA SubtreesExist ==
  ASSUME NEW s
  PROVE  \E f : AreSubtrees(f, s)
<1> DEFINE lowest == [k \in Nat |-> IF k < Len(s) THEN LeafTree(s[k + 1]) ELSE ZeroTree(0)]
           up(depth, x) == [k \in Nat |->
                              IF k * twoTo[depth] < Len(s)
                              THEN NodeTree(x[2 * k], x[2 * k + 1]) ELSE ZeroTree(depth)]
           is(f, m) == f = [d \in 0 .. m |-> IF d = 0 THEN lowest ELSE up(d, f[d - 1])]
           D == {m \in Nat : \E f : is(f, m)}
           some(m) == CHOOSE f : is(f, m)
           all == [i \in Nat |-> some(i)[i]]
<1> HIDE DEF lowest, up
<1>1. 0 \in D
  <2> DEFINE f == [d \in 0 .. 0 |-> lowest]
  <2>1. f = [d \in 0 .. 0 |-> IF d = 0 THEN lowest ELSE up(d, f[d - 1])]
    OBVIOUS
  <2> HIDE DEF f
  <2> QED
    BY <2>1
<1>2. ASSUME NEW m \in Nat, m \in D PROVE m + 1 \in D
  <2>1. PICK f : is(f, m)
    BY <1>2
  <2> DEFINE g == [i \in 0 .. m + 1 |-> IF i = m + 1 THEN up(m + 1, f[m]) ELSE f[i]]
  <2>2. \A i \in 0 .. m : f[i] = IF i = 0 THEN lowest ELSE up(i, f[i - 1])
    BY <2>1
  <2>6. \A i \in 0 .. m : g[i] = f[i]
    OBVIOUS
  <2>3. g[m + 1] = up(m + 1, g[m]) /\ m + 1 # 0
    BY <2>6
  <2>7. g = [i \in 0 .. m + 1 |-> g[i]]
    OBVIOUS
  <2> HIDE DEF g
  <2>4. ASSUME NEW i \in 0 .. m + 1 PROVE g[i] = IF i = 0 THEN lowest ELSE up(i, g[i - 1])
    BY <2>2, <2>3, <2>6
  <2>5. is(g, m + 1)
    BY <2>7, <2>4
  <2> QED
    BY <2>5
<1> HIDE DEF D
<1>3. \A m \in Nat : is(some(m), m)
  BY <1>1, <1>2, Induction DEF D
<1> HIDE DEF some
<1>4. \A m \in Nat : /\ some(m)[0] = lowest
                     /\ \A i \in Nat : i + 1 <= m => some(m)[i + 1] = up(i + 1, some(m)[i])
  <2> SUFFICES ASSUME NEW m \in Nat
               PROVE  /\ some(m)[0] = lowest
                      /\ \A i \in Nat : i + 1 <= m => some(m)[i + 1] = up(i + 1, some(m)[i])
    OBVIOUS
  <2>1. \A d \in 0 .. m : some(m)[d] = IF d = 0 THEN lowest ELSE up(d, some(m)[d - 1])
    BY <1>3
  <2>2. some(m)[0] = lowest
    BY <2>1
  <2>3. ASSUME NEW i \in Nat, i + 1 <= m PROVE some(m)[i + 1] = up(i + 1, some(m)[i])
    <3>1. i + 1 \in 0 .. m /\ i + 1 # 0 /\ (i + 1) - 1 = i
      BY <2>3
    <3> QED
      BY <2>1, <3>1
  <2> QED
    BY <2>2, <2>3
<1>5. \A m \in Nat : \A i \in Nat : i <= m => some(m + 1)[i] = some(m)[i]
  <2> SUFFICES ASSUME NEW m \in Nat PROVE \A i \in Nat : i <= m => some(m + 1)[i] = some(m)[i]
    OBVIOUS
  <2> DEFINE E == {i \in Nat : i <= m => some(m + 1)[i] = some(m)[i]}
  <2>1. 0 \in E
    BY <1>4
  <2>2. ASSUME NEW i \in Nat, i \in E, i + 1 <= m
        PROVE  some(m + 1)[i + 1] = some(m)[i + 1]
    <3>1. some(m + 1)[i] = some(m)[i]
      BY <2>2
    <3>2. some(m + 1)[i + 1] = up(i + 1, some(m + 1)[i])
      BY <1>4, <2>2
    <3>3. some(m)[i + 1] = up(i + 1, some(m)[i])
      BY <1>4, <2>2
    <3> QED
      BY <3>1, <3>2, <3>3
  <2>3. \A i \in Nat : i \in E => i + 1 \in E
    BY <2>2
  <2> HIDE DEF E
  <2>4. Nat \subseteq E
    BY <2>1, <2>3, Induction
  <2> QED
    BY <2>4 DEF E
<1>6. \A i \in Nat : all[i] = IF i = 0 THEN lowest ELSE up(i, all[i - 1])
  <2> SUFFICES ASSUME NEW i \in Nat PROVE all[i] = IF i = 0 THEN lowest ELSE up(i, all[i - 1])
    OBVIOUS
  <2>1. CASE i = 0
    BY <1>4, <2>1
  <2>2. CASE i # 0
    <3>1. PICK m \in Nat : i = m + 1 /\ i - 1 = m
      <4>1. i - 1 \in Nat /\ i = (i - 1) + 1
        BY <2>2
      <4> QED
        BY <4>1
    <3>2. some(m + 1)[m + 1] = up(m + 1, some(m + 1)[m])
      BY <1>4
    <3>3. some(m + 1)[m] = some(m)[m]
      BY <1>5
    <3>4. all[m] = some(m)[m] /\ all[i] = some(m + 1)[m + 1]
      BY <3>1
    <3> HIDE DEF all
    <3> QED
      BY <2>2, <3>1, <3>2, <3>3, <3>4
  <2> QED
    BY <2>1, <2>2
<1>7. all = [i \in Nat |-> all[i]]
  OBVIOUS
<1> HIDE DEF all
<1>8. all = [i \in Nat |-> IF i = 0 THEN lowest ELSE up(i, all[i - 1])]
  BY <1>6, <1>7
<1>9. AreSubtrees(all, s)
  BY <1>8, Zenon DEF AreSubtrees, lowest, up
<1> QED
  BY <1>9

(* The subtrees, from the leaves upwards. *)
LEMMA Subtrees ==
  ASSUME NEW s
  PROVE  /\ \A k \in Nat : subtrees(s)[0][k] = IF k < Len(s) THEN LeafTree(s[k + 1]) ELSE ZeroTree(0)
         /\ \A depth, k \in Nat :
              subtrees(s)[depth + 1][k] =
                IF reaches(Len(s), depth + 1, k)
                THEN NodeTree(subtrees(s)[depth][2 * k], subtrees(s)[depth][2 * k + 1])
                ELSE ZeroTree(depth + 1)
<1> DEFINE g == subtrees(s)
<1>1. AreSubtrees(g, s)
  <2>1. subtrees(s) = CHOOSE h : AreSubtrees(h, s)
    BY Zenon DEF subtrees, AreSubtrees
  <2> QED
    BY <2>1, SubtreesExist
<1> HIDE DEF g
<1>2. ASSUME NEW k \in Nat
      PROVE  g[0][k] = IF k < Len(s) THEN LeafTree(s[k + 1]) ELSE ZeroTree(0)
  <2>1. g[0] = [j \in Nat |-> IF j < Len(s) THEN LeafTree(s[j + 1]) ELSE ZeroTree(0)]
    BY <1>1 DEF AreSubtrees
  <2> QED
    BY <2>1
<1>3. ASSUME NEW depth \in Nat, NEW k \in Nat
      PROVE  g[depth + 1][k] = IF reaches(Len(s), depth + 1, k)
                               THEN NodeTree(g[depth][2 * k], g[depth][2 * k + 1])
                               ELSE ZeroTree(depth + 1)
  <2>1. depth + 1 \in Nat /\ depth + 1 # 0 /\ (depth + 1) - 1 = depth
    OBVIOUS
  <2>2. g[depth + 1] = [j \in Nat |->
                          IF j * twoTo[depth + 1] < Len(s)
                          THEN NodeTree(g[depth][2 * j], g[depth][2 * j + 1])
                          ELSE ZeroTree(depth + 1)]
    BY <1>1, <2>1 DEF AreSubtrees
  <2> QED
    BY <2>2 DEF reaches
<1> QED
  BY <1>2, <1>3 DEF g

(* A subtree that no leaf falls into is left whole. *)
LEMMA EmptySubtree ==
  ASSUME NEW s, NEW n \in Nat, n = Len(s), NEW depth \in Nat, NEW k \in Nat, ~reaches(n, depth, k)
  PROVE  subtrees(s)[depth][k] = ZeroTree(depth)
<1>1. CASE depth = 0
  BY <1>1, Reaches, Subtrees
<1>2. CASE depth # 0
  <2>1. PICK d \in Nat : depth = d + 1
    <3>1. depth - 1 \in Nat /\ depth = (depth - 1) + 1
      BY <1>2
    <3> QED
      BY <3>1
  <2>2. subtrees(s)[d + 1][k] = IF reaches(n, d + 1, k)
                                THEN NodeTree(subtrees(s)[d][2 * k], subtrees(s)[d][2 * k + 1])
                                ELSE ZeroTree(d + 1)
    BY Subtrees
  <2> QED
    BY <2>1, <2>2
<1> QED
  BY <1>1, <1>2

(* The others are divided, down to the leaves. *)
LEMMA DividedSubtree ==
  ASSUME NEW s, NEW n \in Nat, n = Len(s), NEW depth \in Nat, NEW k \in Nat,
         reaches(n, depth + 1, k)
  PROVE  subtrees(s)[depth + 1][k]
           = NodeTree(subtrees(s)[depth][2 * k], subtrees(s)[depth][2 * k + 1])
BY Subtrees

(* A subtree is of one of three kinds. *)
LEMMA Kinds ==
  ASSUME NEW s, NEW n \in Nat, n = Len(s), NEW depth \in Nat, NEW k \in Nat
  PROVE  /\ ~reaches(n, depth, k) => subtrees(s)[depth][k].is = "Zero"
         /\ reaches(n, depth, k) =>
              subtrees(s)[depth][k].is = IF depth = 0 THEN "Leaf" ELSE "Node"
         /\ isTree(subtrees(s)[depth][k])
<1>1. \A a, b : ZeroTree(a).is = "Zero" /\ LeafTree(a).is = "Leaf" /\ NodeTree(a, b).is = "Node"
  BY DEF NodeTree, LeafTree, ZeroTree
<1>2. CASE ~reaches(n, depth, k)
  BY <1>1, <1>2, EmptySubtree DEF isTree
<1>3. CASE reaches(n, depth, k) /\ depth = 0
  <2>1. k < n
    BY <1>3, Reaches
  <2>2. subtrees(s)[0][k] = LeafTree(s[k + 1])
    BY <2>1, Subtrees
  <2> QED
    BY <1>1, <1>3, <2>2 DEF isTree
<1>4. CASE reaches(n, depth, k) /\ depth # 0
  <2>1. PICK d \in Nat : depth = d + 1
    <3>1. depth - 1 \in Nat /\ depth = (depth - 1) + 1
      BY <1>4
    <3> QED
      BY <3>1
  <2>2. subtrees(s)[d + 1][k] = NodeTree(subtrees(s)[d][2 * k], subtrees(s)[d][2 * k + 1])
    BY <1>4, <2>1, DividedSubtree
  <2> QED
    BY <1>1, <1>4, <2>1, <2>2 DEF isTree
<1> QED
  BY <1>2, <1>3, <1>4

(* One more leaf changes only the subtrees it falls into. *)
LEMMA OtherSubtreesStay ==
  ASSUME NEW S, NEW s \in Seq(S), NEW x \in S
  PROVE  \A depth, k \in Nat :
           k # upper(Len(s), depth) => subtrees(Append(s, x))[depth][k] = subtrees(s)[depth][k]
<1> DEFINE n == Len(s)
           r == Append(s, x)
           D == {d \in Nat : \A k \in Nat :
                   k # upper(n, d) => subtrees(r)[d][k] = subtrees(s)[d][k]}
<1>1. n \in Nat /\ Len(r) = n + 1 /\ \A k \in Nat : k < n => r[k + 1] = s[k + 1]
  OBVIOUS
<1> HIDE DEF r
<1>2. 0 \in D
  <2>1. upper(n, 0) = n
    BY <1>1, Upper
  <2>2. ASSUME NEW k \in Nat, k # n PROVE subtrees(r)[0][k] = subtrees(s)[0][k]
    <3>1. k < n <=> k < Len(r)
      BY <1>1, <2>2
    <3> QED
      BY <1>1, <3>1, Subtrees
  <2> QED
    BY <2>1, <2>2
<1>3. ASSUME NEW d \in Nat, d \in D PROVE d + 1 \in D
  <2> SUFFICES ASSUME NEW k \in Nat, k # upper(n, d + 1)
               PROVE  subtrees(r)[d + 1][k] = subtrees(s)[d + 1][k]
    OBVIOUS
  <2>1. PICK a \in Nat : a = upper(n, d)
    BY <1>1, Upper
  <2>2. PICK b \in Nat : b = upper(n, d + 1)
    BY <1>1, Upper
  <2>3. a = 2 * b + bit(n, d) /\ bit(n, d) \in {0, 1}
    BY <1>1, <2>1, <2>2, Upper
  <2>4. 2 * k # a /\ 2 * k + 1 # a /\ 2 * k \in Nat /\ 2 * k + 1 \in Nat
    BY <2>2, <2>3
  <2>5. /\ subtrees(r)[d][2 * k] = subtrees(s)[d][2 * k]
        /\ subtrees(r)[d][2 * k + 1] = subtrees(s)[d][2 * k + 1]
    BY <1>3, <2>1, <2>4
  <2>6. reaches(n + 1, d + 1, k) <=> reaches(n, d + 1, k)
    <3>1. /\ reaches(n + 1, d + 1, k) <=> k <= upper(n, d + 1)
          /\ k < upper(n, d + 1) => reaches(n, d + 1, k)
          /\ k > upper(n, d + 1) => ~reaches(n, d + 1, k)
      BY <1>1, Reaches
    <3> QED
      BY <2>2, <3>1
  <2>7. /\ subtrees(s)[d + 1][k] = IF reaches(n, d + 1, k)
                                   THEN NodeTree(subtrees(s)[d][2 * k], subtrees(s)[d][2 * k + 1])
                                   ELSE ZeroTree(d + 1)
        /\ subtrees(r)[d + 1][k] = IF reaches(n + 1, d + 1, k)
                                   THEN NodeTree(subtrees(r)[d][2 * k], subtrees(r)[d][2 * k + 1])
                                   ELSE ZeroTree(d + 1)
    BY <1>1, Subtrees
  <2> QED
    BY <2>5, <2>6, <2>7
<1> HIDE DEF D
<1>4. Nat \subseteq D
  BY <1>2, <1>3, Induction
<1> QED
  BY <1>4 DEF D, r

(* Between the last leaf and the next one a level either stays at one      *)
(* subtree or begins another, and tells so to the level above.             *)
LEMMA NextPlace ==
  ASSUME NEW m \in Nat
  PROVE  \A depth \in Nat :
           /\ upper(m + 1, depth) = upper(m, depth) \/ upper(m + 1, depth) = upper(m, depth) + 1
           /\ upper(m + 1, depth) = upper(m, depth) =>
                upper(m + 1, depth + 1) = upper(m, depth + 1)
           /\ upper(m + 1, depth) = upper(m, depth) + 1 =>
                upper(m + 1, depth + 1) = IF bit(m, depth) = 1 THEN upper(m, depth + 1) + 1
                                          ELSE upper(m, depth + 1)
           /\ upper(m + 1, depth + 1) = upper(m, depth + 1) + 1 =>
                upper(m + 1, depth) = upper(m, depth) + 1 /\ bit(m, depth) = 1
<1> DEFINE D == {d \in Nat : upper(m + 1, d) = upper(m, d) \/ upper(m + 1, d) = upper(m, d) + 1}
<1>1. ASSUME NEW d \in Nat, d \in D
      PROVE  /\ upper(m + 1, d) = upper(m, d) => upper(m + 1, d + 1) = upper(m, d + 1)
             /\ upper(m + 1, d) = upper(m, d) + 1 =>
                  upper(m + 1, d + 1) = IF bit(m, d) = 1 THEN upper(m, d + 1) + 1
                                        ELSE upper(m, d + 1)
             /\ upper(m + 1, d + 1) = upper(m, d + 1) + 1 =>
                  upper(m + 1, d) = upper(m, d) + 1 /\ bit(m, d) = 1
             /\ d + 1 \in D
  <2>1. PICK a \in Nat : a = upper(m, d)
    BY Upper
  <2>2. PICK b \in Nat : b = upper(m, d + 1)
    BY Upper
  <2>3. PICK e \in Nat : e = upper(m + 1, d)
    BY Upper
  <2>4. PICK f \in Nat : f = upper(m + 1, d + 1)
    BY Upper
  <2>5. a = 2 * b + bit(m, d) /\ bit(m, d) \in {0, 1}
    BY <2>1, <2>2, Upper
  <2>6. PICK y \in {0, 1} : e = 2 * f + y
    <3>1. bit(m + 1, d) \in {0, 1} /\ e = 2 * f + bit(m + 1, d)
      BY <2>3, <2>4, Upper
    <3> QED
      BY <3>1
  <2>7. e = a \/ e = a + 1
    BY <1>1, <2>1, <2>3
  <2>8. /\ e = a => f = b
        /\ e = a + 1 => f = IF bit(m, d) = 1 THEN b + 1 ELSE b
        /\ f = b + 1 => e = a + 1 /\ bit(m, d) = 1
        /\ f = b \/ f = b + 1
    BY <2>5, <2>6, <2>7
  <2> QED
    BY <2>1, <2>2, <2>3, <2>4, <2>8
<1>2. 0 \in D
  <2>1. upper(m, 0) = m /\ upper(m + 1, 0) = m + 1
    BY Upper
  <2> QED
    BY <2>1
<1> HIDE DEF D
<1>3. Nat \subseteq D
  BY <1>1, <1>2, Induction
<1>4. \A d \in Nat : upper(m + 1, d) = upper(m, d) \/ upper(m + 1, d) = upper(m, d) + 1
  BY <1>3 DEF D
<1> QED
  BY <1>1, <1>3, <1>4

(* A leaf that is the first of its subtree makes the subtree that create   *)
(* makes of it alone.                                                      *)
LEMMA FirstOfSubtree ==
  ASSUME NEW S, NEW s \in Seq(S), NEW x \in S, NEW m \in Nat, Len(s) = m + 1
  PROVE  \A depth \in Nat :
           upper(m + 1, depth) = upper(m, depth) + 1 =>
             subtrees(Append(s, x))[depth][upper(m + 1, depth)] = create(<<x>>, depth)
<1> DEFINE n == m + 1
           r == Append(s, x)
           one == <<x>>
           D == {d \in Nat : upper(n, d) = upper(m, d) + 1 =>
                               subtrees(r)[d][upper(n, d)] = subtrees(one)[d][0]}
<1>1. n \in Nat /\ Len(r) = n + 1 /\ r[n + 1] = x /\ Len(one) = 1 /\ one[1] = x
  OBVIOUS
<1> HIDE DEF n, r, one
<1>2. 0 \in D
  <2>1. upper(n, 0) = n
    BY <1>1, Upper
  <2>2. n < Len(r) /\ 0 < Len(one) /\ 0 + 1 = 1
    BY <1>1
  <2>3. subtrees(r)[0][n] = LeafTree(x) /\ subtrees(one)[0][0] = LeafTree(x)
    BY <1>1, <2>2, Subtrees
  <2> QED
    BY <2>1, <2>3
<1>3. ASSUME NEW d \in Nat, d \in D, upper(n, d + 1) = upper(m, d + 1) + 1
      PROVE  subtrees(r)[d + 1][upper(n, d + 1)] = subtrees(one)[d + 1][0]
  <2>1. upper(n, d) = upper(m, d) + 1 /\ bit(m, d) = 1
    BY <1>3, NextPlace DEF n
  <2>2. PICK a \in Nat : a = upper(n, d)
    BY <1>1, Upper
  <2>3. PICK b \in Nat : b = upper(n, d + 1)
    BY <1>1, Upper
  <2>4. a = 2 * b
    <3>1. PICK c \in Nat : c = upper(m, d + 1)
      BY Upper
    <3>2. PICK e \in Nat : e = upper(m, d)
      BY Upper
    <3>3. e = 2 * c + 1 /\ b = c + 1 /\ a = e + 1
      BY <1>3, <2>1, <2>2, <2>3, <3>1, <3>2, Upper
    <3> QED
      BY <3>3
  <2>5. subtrees(r)[d][2 * b] = subtrees(one)[d][0]
    BY <1>3, <2>1, <2>2, <2>4
  <2>6. reaches(n + 1, d + 1, b) /\ ~reaches(n + 1, d, 2 * b + 1)
    <3>1. 2 * b + 1 \in Nat /\ ~(2 * b + 1 <= a) /\ b <= b /\ d + 1 \in Nat
      BY <2>4
    <3>2. \A depth, k \in Nat : reaches(n + 1, depth, k) <=> k <= upper(n, depth)
      BY <1>1, Reaches
    <3> QED
      BY <2>2, <2>3, <3>1, <3>2
  <2>7. reaches(1, d + 1, 0) /\ ~reaches(1, d, 1)
    <3>1. \A i \in Nat : upper(0, i) = 0
      <4> SUFFICES ASSUME NEW i \in Nat PROVE upper(0, i) = 0
        OBVIOUS
      <4>1. PICK p \in Nat \ {0} : p = twoTo[i]
        BY TwoTo
      <4>2. 0 \div p = 0
        OBVIOUS
      <4> QED
        BY <4>1, <4>2 DEF upper
    <3>2. 0 + 1 = 1 /\ 0 \in Nat /\ 1 \in Nat /\ ~(1 <= 0) /\ 0 <= 0 /\ d + 1 \in Nat
      OBVIOUS
    <3>3. \A depth, k \in Nat : reaches(0 + 1, depth, k) <=> k <= upper(0, depth)
      BY <3>2, Reaches
    <3> QED
      BY <3>1, <3>2, <3>3
  <2>8. /\ subtrees(r)[d + 1][b] = NodeTree(subtrees(r)[d][2 * b], subtrees(r)[d][2 * b + 1])
        /\ subtrees(r)[d][2 * b + 1] = ZeroTree(d)
    <3>1. 2 * b + 1 \in Nat /\ n + 1 \in Nat
      BY <1>1
    <3>2. subtrees(r)[d + 1][b] = NodeTree(subtrees(r)[d][2 * b], subtrees(r)[d][2 * b + 1])
      BY <1>1, <2>6, <3>1, DividedSubtree
    <3>3. subtrees(r)[d][2 * b + 1] = ZeroTree(d)
      BY <1>1, <2>6, <3>1, EmptySubtree
    <3> QED
      BY <3>2, <3>3
  <2>9. /\ subtrees(one)[d + 1][0] = NodeTree(subtrees(one)[d][0], subtrees(one)[d][1])
        /\ subtrees(one)[d][1] = ZeroTree(d)
    <3>1. PICK z \in Nat : z = 0
      OBVIOUS
    <3>2. PICK u \in Nat : u = 1
      OBVIOUS
    <3>3. u = Len(one) /\ reaches(u, d + 1, z) /\ ~reaches(u, d, u)
      BY <1>1, <2>7, <3>1, <3>2
    <3>4. subtrees(one)[d + 1][z] = NodeTree(subtrees(one)[d][2 * z], subtrees(one)[d][2 * z + 1])
      BY <3>3, DividedSubtree
    <3>5. subtrees(one)[d][u] = ZeroTree(d)
      BY <3>3, EmptySubtree
    <3>6. 2 * z = z /\ 2 * z + 1 = u
      BY <3>1, <3>2
    <3> QED
      BY <3>1, <3>2, <3>4, <3>5, <3>6
  <2> QED
    BY <2>3, <2>5, <2>8, <2>9
<1>4. \A d \in Nat : d \in D => d + 1 \in D
  BY <1>3
<1> HIDE DEF D
<1>5. Nat \subseteq D
  BY <1>2, <1>4, Induction
<1> QED
  BY <1>5 DEF D, create, r, n, one

(***************************************************************************)
(* push_leaf                                                               *)
(***************************************************************************)

(* The two sides of the subtree with the last leaf, which is the one of    *)
(* number m, and the one of them that push_leaf calls itself for.          *)
IsLastSubtree(t, s, m, depth) ==
  LET K == upper(m, depth + 1) IN
  /\ t = NodeTree(subtrees(s)[depth][2 * K], subtrees(s)[depth][2 * K + 1])
  /\ t.is = "Node"
  /\ t.left = subtrees(s)[depth][2 * K] /\ t.right = subtrees(s)[depth][2 * K + 1]
  /\ depth = 0 => sides(t) = IF bit(m, 0) = 1 THEN <<"Leaf", "Leaf">> ELSE <<"Leaf", "Zero">>
  /\ depth # 0 => sides(t) = IF bit(m, depth) = 1 THEN <<"Node", "Node">> ELSE <<"Node", "Zero">>
  /\ depth = 0 => calledFor(t) = t
  /\ depth # 0 => calledFor(t) = subtrees(s)[depth][upper(m, depth)]

(* The subtree has them. *)
LEMMA LastSubtree ==
  ASSUME NEW s, NEW m \in Nat, Len(s) = m + 1
  PROVE  \A depth \in Nat : \A t :
           t = subtrees(s)[depth + 1][upper(m, depth + 1)] => IsLastSubtree(t, s, m, depth)
<1> SUFFICES ASSUME NEW depth \in Nat, NEW K \in Nat, K = upper(m, depth + 1),
                    NEW t, t = subtrees(s)[depth + 1][K]
             PROVE  IsLastSubtree(t, s, m, depth)
  BY Upper
<1>1. PICK n \in Nat : n = m + 1 /\ n = Len(s)
  OBVIOUS
<1>2. PICK a \in Nat : a = upper(m, depth)
  BY Upper
<1>3. a = 2 * K + bit(m, depth) /\ bit(m, depth) \in {0, 1}
  BY <1>2, Upper
<1>4. \A d, k \in Nat : reaches(n, d, k) <=> k <= upper(m, d)
  <2>1. \A d, k \in Nat : reaches(m + 1, d, k) <=> k <= upper(m, d)
    BY Reaches
  <2> QED
    BY <1>1, <2>1
<1>5. 2 * K \in Nat /\ 2 * K + 1 \in Nat /\ depth + 1 \in Nat
  OBVIOUS
<1>6. /\ reaches(n, depth + 1, K)
      /\ reaches(n, depth, 2 * K)
      /\ reaches(n, depth, 2 * K + 1) <=> bit(m, depth) = 1
  <2>1. K <= K /\ 2 * K <= a /\ (2 * K + 1 <= a <=> bit(m, depth) = 1)
    BY <1>3
  <2> QED
    BY <1>2, <1>4, <1>5, <2>1
<1>7. t = NodeTree(subtrees(s)[depth][2 * K], subtrees(s)[depth][2 * K + 1])
  BY <1>1, <1>6, DividedSubtree
<1>8. /\ t.is = "Node"
      /\ t.left = subtrees(s)[depth][2 * K] /\ t.right = subtrees(s)[depth][2 * K + 1]
  BY <1>7 DEF NodeTree
<1>9. /\ t.left.is = IF depth = 0 THEN "Leaf" ELSE "Node"
      /\ t.right.is = IF bit(m, depth) = 1 THEN (IF depth = 0 THEN "Leaf" ELSE "Node") ELSE "Zero"
  <2>1. subtrees(s)[depth][2 * K].is = IF depth = 0 THEN "Leaf" ELSE "Node"
    BY <1>1, <1>5, <1>6, Kinds
  <2>2. CASE bit(m, depth) = 1
    <3>1. subtrees(s)[depth][2 * K + 1].is = IF depth = 0 THEN "Leaf" ELSE "Node"
      BY <1>1, <1>5, <1>6, <2>2, Kinds
    <3> QED
      BY <1>8, <2>1, <2>2, <3>1
  <2>3. CASE bit(m, depth) # 1
    <3>1. subtrees(s)[depth][2 * K + 1].is = "Zero"
      BY <1>1, <1>5, <1>6, <2>3, Kinds
    <3> QED
      BY <1>8, <2>1, <2>3, <3>1
  <2> QED
    BY <2>2, <2>3
<1>10. sides(t) = <<IF depth = 0 THEN "Leaf" ELSE "Node",
                    IF bit(m, depth) = 1 THEN (IF depth = 0 THEN "Leaf" ELSE "Node") ELSE "Zero">>
  BY <1>9 DEF sides
<1>11. ASSUME depth # 0 PROVE calledFor(t) = subtrees(s)[depth][a]
  <2>1. CASE bit(m, depth) = 1
    <3>1. sides(t) = <<"Node", "Node">> /\ a = 2 * K + 1
      BY <1>3, <1>10, <1>11, <2>1
    <3> QED
      BY <1>8, <3>1 DEF calledFor
  <2>2. CASE bit(m, depth) # 1
    <3>1. sides(t) = <<"Node", "Zero">> /\ a = 2 * K
      BY <1>3, <1>10, <1>11, <2>2
    <3>2. sides(t) # <<"Node", "Node">>
      BY <3>1
    <3> QED
      BY <1>8, <3>1, <3>2 DEF calledFor
  <2> QED
    BY <2>1, <2>2
<1>12. ASSUME depth = 0 PROVE calledFor(t) = t
  <2>1. sides(t) # <<"Node", "Node">> /\ sides(t) # <<"Node", "Zero">>
    BY <1>10, <1>12
  <2> QED
    BY <2>1 DEF calledFor
<1> QED
  BY <1>2, <1>7, <1>8, <1>10, <1>11, <1>12 DEF IsLastSubtree

(* What the call for the subtree with the last leaf, of number m, makes.   *)
PushResult(s, x, m, depth) ==
  IF depth = 0 THEN failed("DepthTooSmall")
  ELSE IF upper(m + 1, depth) = upper(m, depth) THEN subtrees(Append(s, x))[depth][upper(m, depth)]
  ELSE failed("MerkleTreeFull")

(* Each call makes it of what the call below has made. *)
LEMMA PushStep ==
  ASSUME NEW S, NEW s \in Seq(S), NEW x \in S, NEW m \in Nat, Len(s) = m + 1
  PROVE  \A depth \in Nat :
           pushed_leaf(subtrees(s)[depth + 1][upper(m, depth + 1)], x, depth + 1,
                       PushResult(s, x, m, depth))
             = PushResult(s, x, m, depth + 1)
<1> SUFFICES ASSUME NEW depth \in Nat, NEW K \in Nat, K = upper(m, depth + 1)
             PROVE  pushed_leaf(subtrees(s)[depth + 1][K], x, depth + 1, PushResult(s, x, m, depth))
                      = PushResult(s, x, m, depth + 1)
  BY Upper
<1>0. PICK t : t = subtrees(s)[depth + 1][K]
  OBVIOUS
<1> DEFINE r == Append(s, x)
           below == PushResult(s, x, m, depth)
           left == subtrees(s)[depth][2 * K]
           right == subtrees(s)[depth][2 * K + 1]
<1>1. PICK n \in Nat : n = m + 1 /\ n = Len(s) /\ Len(r) = n + 1
  OBVIOUS
<1>2. PICK a \in Nat : a = upper(m, depth)
  BY Upper
<1>3. PICK b \in Nat : b = upper(n, depth)
  BY Upper
<1>4. PICK L \in Nat : L = upper(n, depth + 1)
  BY Upper
<1>5. a = 2 * K + bit(m, depth) /\ bit(m, depth) \in {0, 1}
  BY <1>2, Upper
<1>6. /\ b = a \/ b = a + 1
      /\ b = a => L = K
      /\ b = a + 1 => L = IF bit(m, depth) = 1 THEN K + 1 ELSE K
  BY <1>1, <1>2, <1>3, <1>4, NextPlace
<1>7. /\ t = NodeTree(left, right) /\ t.is = "Node" /\ t.left = left /\ t.right = right
      /\ depth = 0 => sides(t) = IF bit(m, 0) = 1 THEN <<"Leaf", "Leaf">> ELSE <<"Leaf", "Zero">>
      /\ depth # 0 => sides(t) = IF bit(m, depth) = 1 THEN <<"Node", "Node">> ELSE <<"Node", "Zero">>
  <2>1. t = subtrees(s)[depth + 1][upper(m, depth + 1)]
    BY <1>0
  <2>2. IsLastSubtree(t, s, m, depth)
    BY <2>1, LastSubtree
  <2> QED
    BY <2>2 DEF IsLastSubtree
<1>8. \A k \in Nat : k # b => subtrees(r)[depth][k] = subtrees(s)[depth][k]
  BY <1>1, <1>3, OtherSubtreesStay
<1>9. b = a + 1 => subtrees(r)[depth][b] = create(<<x>>, depth)
  BY <1>1, <1>2, <1>3, FirstOfSubtree
<1>10. L = K => subtrees(r)[depth + 1][K]
                  = NodeTree(subtrees(r)[depth][2 * K], subtrees(r)[depth][2 * K + 1])
  <2>1. K <= K /\ depth + 1 \in Nat /\ n + 1 \in Nat
    OBVIOUS
  <2>2. L = K => reaches(n + 1, depth + 1, K)
    BY <1>4, <2>1, Reaches
  <2>3. PICK c \in Nat : c = n + 1 /\ c = Len(r)
    BY <1>1
  <2> HIDE DEF r
  <2>4. ASSUME L = K
        PROVE  subtrees(r)[depth + 1][K]
                 = NodeTree(subtrees(r)[depth][2 * K], subtrees(r)[depth][2 * K + 1])
    <3>1. PICK u : u = r
      OBVIOUS
    <3>2. c \in Nat /\ c = Len(u) /\ reaches(c, depth + 1, K)
      BY <2>2, <2>3, <2>4, <3>1
    <3>3. subtrees(u)[depth + 1][K]
            = NodeTree(subtrees(u)[depth][2 * K], subtrees(u)[depth][2 * K + 1])
      BY <3>2, DividedSubtree
    <3> QED
      BY <3>1, <3>3
  <2> QED
    BY <2>4
<1>11. PushResult(s, x, m, depth + 1)
         = IF L = K THEN subtrees(r)[depth + 1][K] ELSE failed("MerkleTreeFull")
  <2>1. depth + 1 # 0
    OBVIOUS
  <2> QED
    BY <1>1, <1>4, <2>1 DEF PushResult
<1>12. depth # 0 => below = IF b = a THEN subtrees(r)[depth][a] ELSE failed("MerkleTreeFull")
  BY <1>1, <1>2, <1>3 DEF PushResult
<1>13. (depth + 1) - 1 = depth /\ depth + 1 # 0 /\ depth + 1 > 0
  OBVIOUS
<1>14. /\ failed("MerkleTreeFull").is = "MerkleTreeFull"
       /\ ~isTree(failed("MerkleTreeFull"))
  BY DEF failed, isTree
<1>15. isTree(subtrees(r)[depth][a])
  <2>1. n + 1 \in Nat
    OBVIOUS
  <2> QED
    BY <1>1, <2>1, Kinds
<1> HIDE DEF r, below, left, right
<1>16. CASE depth = 0
  <2>1. a = m /\ b = a + 1
    <3>1. upper(m, 0) = m /\ upper(n, 0) = n
      BY Upper
    <3> QED
      BY <1>1, <1>2, <1>3, <1>16, <3>1
  <2>2. CASE bit(m, depth) = 1
    <3>1. sides(t) = <<"Leaf", "Leaf">> /\ L # K
      BY <1>0, <1>6, <1>7, <1>16, <2>1, <2>2
    <3>2. pushed_leaf(t, x, depth + 1, below) = failed("MerkleTreeFull")
      BY <1>7, <1>13, <3>1 DEF pushed_leaf
    <3> QED
      BY <1>0, <1>11, <3>1, <3>2 DEF below
  <2>3. CASE bit(m, depth) # 1
    <3>1. sides(t) = <<"Leaf", "Zero">> /\ L = K /\ a = 2 * K /\ b = 2 * K + 1
      BY <1>5, <1>6, <1>7, <1>16, <2>1, <2>3
    <3>2. pushed_leaf(t, x, depth + 1, below) = changedNode(t, t.left, create(<<x>>, depth))
      BY <1>7, <1>13, <3>1 DEF pushed_leaf
    <3>3. subtrees(r)[depth][2 * K] = left
      BY <1>8, <3>1 DEF left
    <3> QED
      BY <1>0, <1>7, <1>9, <1>10, <1>11, <2>1, <3>1, <3>2, <3>3 DEF below, changedNode
  <2> QED
    BY <2>2, <2>3
<1>17. CASE depth # 0 /\ bit(m, depth) = 1
  <2>1. sides(t) = <<"Node", "Node">> /\ a = 2 * K + 1
    BY <1>5, <1>7, <1>17
  <2>2. pushed_leaf(t, x, depth + 1, below)
          = IF isTree(below) THEN changedNode(t, t.left, below) ELSE below
    BY <1>7, <1>13, <2>1 DEF pushed_leaf
  <2>3. CASE b = a
    <3>1. subtrees(r)[depth][2 * K] = left
      BY <1>8, <2>1, <2>3 DEF left
    <3> QED
      BY <1>0, <1>6, <1>7, <1>10, <1>11, <1>12, <1>15, <1>17, <2>1, <2>2, <2>3, <3>1
         DEF below, changedNode
  <2>4. CASE b = a + 1
    <3>1. L # K /\ b # a
      BY <1>6, <1>17, <2>4
    <3> QED
      BY <1>0, <1>11, <1>12, <1>14, <1>17, <2>2, <3>1 DEF below
  <2> QED
    BY <1>6, <2>3, <2>4
<1>18. CASE depth # 0 /\ bit(m, depth) # 1
  <2>1. sides(t) = <<"Node", "Zero">> /\ a = 2 * K /\ L = K
    BY <1>5, <1>6, <1>7, <1>18
  <2>2. pushed_leaf(t, x, depth + 1, below)
          = IF isTree(below) THEN changedNode(t, below, t.right)
            ELSE IF below.is = "MerkleTreeFull" THEN changedNode(t, t.left, create(<<x>>, depth))
            ELSE below
    BY <1>7, <1>13, <2>1 DEF pushed_leaf
  <2>3. CASE b = a
    <3>1. subtrees(r)[depth][2 * K + 1] = right
      <4>1. 2 * K + 1 \in Nat /\ 2 * K + 1 # b
        BY <2>1, <2>3
      <4> QED
        BY <1>8, <4>1 DEF right
    <3> QED
      <4>1. below = subtrees(r)[depth][a] /\ isTree(below)
        BY <1>12, <1>15, <1>18, <2>3
      <4>2. pushed_leaf(t, x, depth + 1, below) = NodeTree(below, right)
        BY <1>7, <2>2, <4>1 DEF changedNode
      <4> QED
        BY <1>0, <1>10, <1>11, <2>1, <3>1, <4>1, <4>2 DEF below
  <2>4. CASE b = a + 1
    <3>1. subtrees(r)[depth][2 * K] = left /\ b # a
      BY <1>8, <2>1, <2>4 DEF left
    <3> QED
      BY <1>0, <1>7, <1>9, <1>10, <1>11, <1>12, <1>14, <1>18, <2>1, <2>2, <2>4, <3>1
         DEF below, changedNode
  <2> QED
    BY <1>6, <2>3, <2>4
<1> QED
  BY <1>0, <1>16, <1>17, <1>18 DEF below

(* The functions that push_leaf computes with. *)
IsCalled(f, t, depth) ==
  f = [calls \in 0 .. depth |-> IF calls = 0 THEN t ELSE calledFor(f[calls - 1])]

IsResult(g, f, item, depth) ==
  g = [d \in 0 .. depth |-> pushed_leaf(f[depth - d], item, d, g[d - 1])]

(* push_leaf of a tree that has leaves and of one leaf more. *)
LEMMA PushesResult ==
  ASSUME NEW S, NEW s \in Seq(S), NEW x \in S, NEW m \in Nat, Len(s) = m + 1,
         NEW D \in Nat \ {0}, upper(m, D) = 0
  PROVE  push_leaf(create(s, D), x, D) = PushResult(s, x, m, D)
<1> DEFINE t == create(s, D)
           at(d) == subtrees(s)[d][upper(m, d)]
           f0 == [j \in 0 .. D |-> IF j = D THEN at(1) ELSE at(D - j)]
           called == CHOOSE f : IsCalled(f, t, D)
           g0 == [d \in 0 .. D |-> PushResult(s, x, m, d)]
           result == CHOOSE g : IsResult(g, called, x, D)
<1>1. \A d \in Nat : /\ d = 0 => calledFor(at(d + 1)) = at(d + 1)
                     /\ d # 0 => calledFor(at(d + 1)) = at(d)
  BY LastSubtree DEF IsLastSubtree
<1>2. t = at(D)
  BY DEF create
<1>3. \A d \in Nat : pushed_leaf(at(d + 1), x, d + 1, PushResult(s, x, m, d))
                       = PushResult(s, x, m, d + 1)
  BY PushStep
<1>4. push_leaf(t, x, D) = result[D]
  BY Zenon DEF push_leaf, IsCalled, IsResult
<1> HIDE DEF t, at, called, result
<1>5. ASSUME NEW j \in 0 .. D PROVE f0[j] = IF j = 0 THEN t ELSE calledFor(f0[j - 1])
  <2>1. CASE j = 0
    <3>1. j # D /\ D - j = D
      BY <2>1
    <3> QED
      BY <1>2, <2>1, <3>1
  <2>2. CASE j # 0 /\ j # D
    <3>1. PICK d \in Nat : d = D - j /\ d + 1 = D - (j - 1) /\ d # 0
      BY <2>2
    <3>2. j - 1 \in 0 .. D /\ j - 1 # D
      BY <2>2
    <3>3. f0[j] = at(d) /\ f0[j - 1] = at(d + 1)
      BY <2>2, <3>1, <3>2
    <3> QED
      BY <1>1, <2>2, <3>1, <3>3
  <2>3. CASE j # 0 /\ j = D
    <3>1. j - 1 \in 0 .. D /\ j - 1 # D /\ D - (j - 1) = 1
      BY <2>3
    <3>2. f0[j] = at(1) /\ f0[j - 1] = at(1)
      BY <2>3, <3>1
    <3>3. calledFor(at(1)) = at(1)
      <4>1. PICK z \in Nat : z = 0
        OBVIOUS
      <4>2. calledFor(at(z + 1)) = at(z + 1)
        BY <1>1, <4>1
      <4>3. z + 1 = 1
        BY <4>1
      <4> QED
        BY <4>2, <4>3
    <3> QED
      BY <2>3, <3>2, <3>3
  <2> QED
    BY <2>1, <2>2, <2>3
<1>6. IsCalled(f0, t, D)
  <2>1. f0 = [j \in 0 .. D |-> f0[j]]
    OBVIOUS
  <2> HIDE DEF f0
  <2> QED
    BY <1>5, <2>1 DEF IsCalled
<1>21. \A j \in 0 .. D : f0[j] = IF j = D THEN at(1) ELSE at(D - j)
  OBVIOUS
<1> HIDE DEF f0
<1>7. IsCalled(called, t, D)
  BY <1>6 DEF called
<1>8. \A j \in 0 .. D : called[j] = IF j = 0 THEN t ELSE calledFor(called[j - 1])
  BY <1>7 DEF IsCalled
<1> DEFINE E == {j \in Nat : j <= D => called[j] = f0[j]}
<1>9. Nat \subseteq E
  <2>1. 0 \in E
    BY <1>5, <1>8
  <2>2. ASSUME NEW j \in Nat, j \in E PROVE j + 1 \in E
    <3> SUFFICES ASSUME j + 1 <= D PROVE called[j + 1] = f0[j + 1]
      OBVIOUS
    <3>1. j + 1 \in 0 .. D /\ j + 1 # 0 /\ (j + 1) - 1 = j /\ j <= D
      OBVIOUS
    <3>2. called[j] = f0[j]
      BY <2>2, <3>1
    <3> QED
      BY <1>5, <1>8, <3>1, <3>2
  <2> HIDE DEF E
  <2> QED
    BY <2>1, <2>2, Induction
<1>10. \A d \in Nat : d + 1 <= D => called[D - (d + 1)] = at(d + 1)
  <2> SUFFICES ASSUME NEW d \in Nat, d + 1 <= D PROVE called[D - (d + 1)] = at(d + 1)
    OBVIOUS
  <2>1. PICK j \in Nat : j = D - (d + 1) /\ j <= D /\ j # D /\ D - j = d + 1
    OBVIOUS
  <2>2. called[j] = f0[j] /\ j \in 0 .. D
    BY <1>9, <2>1
  <2> QED
    BY <1>21, <2>1, <2>2
<1> HIDE DEF E
<1>11. \A y, z : pushed_leaf(y, x, 0, z) = failed("DepthTooSmall")
  <2>1. ~(0 > 0)
    OBVIOUS
  <2> QED
    BY <2>1 DEF pushed_leaf
<1>12. PushResult(s, x, m, 0) = failed("DepthTooSmall")
  BY DEF PushResult
<1>13. ASSUME NEW d \in 0 .. D
       PROVE  g0[d] = pushed_leaf(called[D - d], x, d, g0[d - 1])
  <2>1. g0[d] = PushResult(s, x, m, d)
    OBVIOUS
  <2>2. CASE d = 0
    BY <1>11, <1>12, <2>1, <2>2
  <2>3. CASE d # 0
    <3>1. PICK e \in Nat : d = e + 1 /\ e = d - 1 /\ e + 1 <= D /\ e \in 0 .. D
      BY <2>3
    <3>2. g0[e] = PushResult(s, x, m, e)
      BY <3>1
    <3>3. pushed_leaf(at(e + 1), x, e + 1, PushResult(s, x, m, e)) = PushResult(s, x, m, e + 1)
      BY <1>3
    <3>4. called[D - (e + 1)] = at(e + 1)
      BY <1>10, <3>1
    <3> HIDE DEF g0
    <3> QED
      BY <2>1, <3>1, <3>2, <3>3, <3>4
  <2> QED
    BY <2>2, <2>3
<1>14. IsResult(g0, called, x, D)
  <2>1. g0 = [d \in 0 .. D |-> g0[d]]
    OBVIOUS
  <2> HIDE DEF g0
  <2> QED
    BY <1>13, <2>1 DEF IsResult
<1>15. IsResult(result, called, x, D)
  BY <1>14 DEF result
<1>16. \A d \in 0 .. D : result[d] = pushed_leaf(called[D - d], x, d, result[d - 1])
  BY <1>15 DEF IsResult
<1> HIDE DEF g0
<1> DEFINE F == {d \in Nat : d <= D => result[d] = PushResult(s, x, m, d)}
<1>17. 0 \in F
  <2>1. result[0] = pushed_leaf(called[D - 0], x, 0, result[0 - 1])
    BY <1>16
  <2> QED
    BY <1>11, <1>12, <2>1
<1>18. ASSUME NEW d \in Nat, d \in F PROVE d + 1 \in F
  <2> SUFFICES ASSUME d + 1 <= D PROVE result[d + 1] = PushResult(s, x, m, d + 1)
    OBVIOUS
  <2>1. d + 1 \in 0 .. D /\ (d + 1) - 1 = d /\ d <= D
    OBVIOUS
  <2>2. result[d] = PushResult(s, x, m, d)
    BY <1>18, <2>1
  <2>3. result[d + 1] = pushed_leaf(called[D - (d + 1)], x, d + 1, result[d])
    BY <1>16, <2>1
  <2>4. called[D - (d + 1)] = at(d + 1)
    BY <1>10
  <2> QED
    BY <1>3, <2>2, <2>3, <2>4
<1> HIDE DEF F
<1>19. Nat \subseteq F
  BY <1>17, <1>18, Induction
<1>20. result[D] = PushResult(s, x, m, D)
  <2>1. D \in F /\ D <= D
    BY <1>19
  <2> QED
    BY <2>1 DEF F
<1> QED
  BY <1>4, <1>20 DEF t

(* The number of leaves there is room for. *)
capacity == twoTo[TREE_DEPTH]

LEMMA Capacity == capacity \in Nat \ {0} /\ MAX_LEAVES = capacity - 1 /\ MAX_LEAVES \in Nat
<1>1. capacity \in Nat \ {0}
  BY TwoTo, DepthAssumption DEF capacity
<1> QED
  BY <1>1 DEF capacity, MAX_LEAVES

(* The number after the last leaf that fits has a bit above the levels. *)
LEMMA PlaceIsRoom ==
  ASSUME NEW n \in Nat, n <= capacity
  PROVE  upper(n, TREE_DEPTH) = IF n < capacity THEN 0 ELSE 1
<1>1. CASE n < capacity
  <2>1. n \in 0 .. MAX_LEAVES
    BY <1>1, Capacity
  <2> QED
    BY <1>1, <2>1, NothingAbove
<1>2. CASE n = capacity
  <2>1. PICK p \in Nat \ {0} : p = capacity
    BY Capacity
  <2>2. p \div p = 1
    BY <2>1
  <2> QED
    BY <1>2, <2>1, <2>2 DEF upper, capacity
<1> QED
  BY <1>1, <1>2, Capacity

(* As long as there is room, push_leaf makes of the tree of some leaves    *)
(* the one that create makes of these and the new one.                     *)
LEMMA PushMakesTree ==
  ASSUME NEW S, NEW s \in Seq(S), NEW x \in S, Len(s) < capacity
  PROVE  push_leaf(create(s, TREE_DEPTH), x, TREE_DEPTH) = create(Append(s, x), TREE_DEPTH)
<1>1. PICK D \in Nat \ {0} : D = TREE_DEPTH
  BY DepthAssumption
<1>2. CASE Len(s) = 0
  <2>1. s = << >> /\ Append(s, x) = <<x>>
    BY <1>2
  <2>2. create(s, D) = ZeroTree(D)
    <3>1. PICK n \in Nat : n = Len(s) /\ n = 0
      BY <1>2
    <3>2. PICK k \in Nat : k = 0
      OBVIOUS
    <3>3. ~reaches(n, D, k)
      <4>1. PICK p \in Nat \ {0} : p = twoTo[D]
        BY TwoTo
      <4>2. k * p = 0
        BY <3>2
      <4> QED
        BY <3>1, <3>2, <4>1, <4>2 DEF reaches
    <3> QED
      BY <3>1, <3>2, <3>3, EmptySubtree DEF create
  <2> DEFINE t == ZeroTree(D)
             called == CHOOSE f : IsCalled(f, t, D)
             result == CHOOSE g : IsResult(g, called, x, D)
  <2>3. push_leaf(t, x, D) = result[D]
    BY Zenon DEF push_leaf, IsCalled, IsResult
  <2> HIDE DEF called, result
  <2>4. t.is = "Zero" /\ calledFor(t) = t
    BY DEF ZeroTree, calledFor
  <2> HIDE DEF t
  <2>5. IsCalled([j \in 0 .. D |-> t], t, D)
    BY <2>4 DEF IsCalled
  <2>6. IsCalled(called, t, D)
    BY <2>5 DEF called
  <2> DEFINE g0 == [d \in 0 .. D |-> IF d = 0 THEN failed("DepthTooSmall") ELSE create(<<x>>, d)]
  <2>7. \A y, z : pushed_leaf(y, x, 0, z) = failed("DepthTooSmall")
    <3>1. ~(0 > 0)
      OBVIOUS
    <3> QED
      BY <3>1 DEF pushed_leaf
  <2>8. \A d \in 1 .. D : \A z : pushed_leaf(t, x, d, z) = create(<<x>>, d)
    BY <2>4 DEF pushed_leaf
  <2>9. \A j \in 0 .. D : called[j] = t
    <3> DEFINE E == {j \in Nat : j <= D => called[j] = t}
    <3>1. \A j \in 0 .. D : called[j] = IF j = 0 THEN t ELSE calledFor(called[j - 1])
      BY <2>6 DEF IsCalled
    <3>2. 0 \in E
      BY <3>1
    <3>3. ASSUME NEW j \in Nat, j \in E, j + 1 <= D PROVE called[j + 1] = t
      <4>1. j + 1 \in 0 .. D /\ j + 1 # 0 /\ (j + 1) - 1 = j /\ j <= D
        BY <3>3
      <4>2. called[j] = t
        BY <3>3, <4>1
      <4> QED
        BY <2>4, <3>1, <4>1, <4>2
    <3>4. \A j \in Nat : j \in E => j + 1 \in E
      BY <3>3
    <3> HIDE DEF E
    <3>5. Nat \subseteq E
      BY <3>2, <3>4, Induction
    <3> QED
      BY <3>5 DEF E
  <2>10. ASSUME NEW d \in 0 .. D, NEW z
         PROVE  pushed_leaf(called[D - d], x, d, z)
                  = IF d = 0 THEN failed("DepthTooSmall") ELSE create(<<x>>, d)
    <3>1. D - d \in 0 .. D
      OBVIOUS
    <3>2. called[D - d] = t
      BY <2>9, <3>1
    <3>3. d = 0 \/ d \in 1 .. D
      OBVIOUS
    <3> QED
      BY <2>7, <2>8, <3>2, <3>3
  <2>11. IsResult(g0, called, x, D)
    <3>1. \A d \in 0 .. D : g0[d] = pushed_leaf(called[D - d], x, d, g0[d - 1])
      BY <2>10
    <3>2. g0 = [d \in 0 .. D |-> g0[d]]
      OBVIOUS
    <3> HIDE DEF g0
    <3> QED
      BY <3>1, <3>2 DEF IsResult
  <2>12. IsResult(result, called, x, D)
    BY <2>11 DEF result
  <2>13. result[D] = pushed_leaf(called[D - D], x, D, result[D - 1])
    <3>1. D \in 0 .. D
      OBVIOUS
    <3> QED
      BY <2>12, <3>1 DEF IsResult
  <2>14. result[D] = create(<<x>>, D)
    <3>1. D \in 0 .. D /\ D # 0
      OBVIOUS
    <3> QED
      BY <2>10, <2>13, <3>1
  <2> QED
    BY <1>1, <2>1, <2>2, <2>3, <2>14 DEF t
<1>3. CASE Len(s) # 0
  <2>1. PICK m \in Nat : Len(s) = m + 1 /\ m < capacity /\ m <= capacity
    <3>1. PICK n \in Nat : n = Len(s) /\ n < capacity
      OBVIOUS
    <3>2. PICK q \in Nat : q = capacity
      BY Capacity
    <3>3. PICK m \in Nat : m = n - 1
      BY <1>3, <3>1
    <3>4. n = m + 1 /\ m < q /\ m <= q
      BY <3>1, <3>2, <3>3
    <3> QED
      BY <3>1, <3>2, <3>4
  <2>2. m + 1 \in Nat /\ m + 1 < capacity /\ m + 1 <= capacity
    BY <2>1, Capacity
  <2>3. upper(m, D) = 0 /\ upper(m + 1, D) = 0
    BY <1>1, <2>1, <2>2, PlaceIsRoom
  <2>4. push_leaf(create(s, D), x, D) = PushResult(s, x, m, D)
    BY <2>1, <2>3, PushesResult
  <2>5. PushResult(s, x, m, D) = create(Append(s, x), D)
    BY <2>3 DEF PushResult, create
  <2> QED
    BY <1>1, <2>4, <2>5
<1> QED
  BY <1>2, <1>3

(* A full tree says that it is. *)
LEMMA FullTreeSays ==
  ASSUME NEW S, NEW s \in Seq(S), NEW x \in S, Len(s) = capacity
  PROVE  push_leaf(create(s, TREE_DEPTH), x, TREE_DEPTH) = failed("MerkleTreeFull")
<1>1. PICK D \in Nat \ {0} : D = TREE_DEPTH
  BY DepthAssumption
<1>2. PICK m \in Nat : capacity = m + 1
  <2>1. capacity - 1 \in Nat /\ capacity = (capacity - 1) + 1
    BY Capacity
  <2> QED
    BY <2>1
<1>3. m + 1 \in Nat /\ m < capacity /\ m <= capacity /\ m + 1 <= capacity /\ ~(m + 1 < capacity)
  BY <1>2
<1>4. upper(m, D) = 0 /\ upper(m + 1, D) = 1
  BY <1>1, <1>3, PlaceIsRoom
<1>5. push_leaf(create(s, D), x, D) = PushResult(s, x, m, D)
  BY <1>2, <1>4, PushesResult
<1>6. PushResult(s, x, m, D) = failed("MerkleTreeFull")
  BY <1>4 DEF PushResult
<1> QED
  BY <1>1, <1>5, <1>6

(***************************************************************************)
(* The hashes and the proofs                                               *)
(***************************************************************************)

(* The prover's tree keeps the nodes of the tree written out. *)
LEMMA SubtreeHashes ==
  ASSUME NEW s, Len(s) \in Nat
  PROVE  \A i \in 0 .. TREE_DEPTH : \A k \in Nat : rootHash(subtrees(s)[i][k]) = nodes(s)[i][k]
<1> DEFINE D == {i \in Nat : i <= TREE_DEPTH =>
                   \A k \in Nat : rootHash(subtrees(s)[i][k]) = nodes(s)[i][k]}
<1>1. PICK n \in Nat : n = Len(s)
  OBVIOUS
<1>2. \A d : rootHash(ZeroTree(d)) = ZERO_HASHES[d]
  BY DEF rootHash, ZeroTree
<1>3. \A h : rootHash(LeafTree(h)) = h
  BY DEF rootHash, LeafTree
<1>4. \A l, r : rootHash(NodeTree(l, r)) = hash_concat(rootHash(l), rootHash(r))
  BY DEF rootHash, NodeTree
<1>5. 0 \in D
  <2> SUFFICES ASSUME NEW k \in Nat PROVE rootHash(subtrees(s)[0][k]) = nodes(s)[0][k]
    OBVIOUS
  <2>1. subtrees(s)[0][k] = IF k < Len(s) THEN LeafTree(s[k + 1]) ELSE ZeroTree(0)
    BY Subtrees
  <2>2. nodes(s)[0][k] = IF k < Len(s) THEN s[k + 1] ELSE << >>
    BY Nodes
  <2> QED
    BY <1>2, <1>3, <2>1, <2>2, ZeroHashes
<1>6. ASSUME NEW i \in Nat, i \in D PROVE i + 1 \in D
  <2> SUFFICES ASSUME i + 1 <= TREE_DEPTH, NEW k \in Nat
               PROVE  rootHash(subtrees(s)[i + 1][k]) = nodes(s)[i + 1][k]
    OBVIOUS
  <2>1. i \in Levels /\ i <= TREE_DEPTH
    BY DepthAssumption DEF Levels
  <2>2. PICK a \in Nat : a = 2 * k
    OBVIOUS
  <2>3. PICK b \in Nat : b = 2 * k + 1
    OBVIOUS
  <2>4. /\ rootHash(subtrees(s)[i][a]) = nodes(s)[i][a]
        /\ rootHash(subtrees(s)[i][b]) = nodes(s)[i][b]
    BY <1>6, <2>1
  <2>5. nodes(s)[i + 1][k] = hash_concat(nodes(s)[i][a], nodes(s)[i][b])
    BY <2>1, <2>2, <2>3, Nodes
  <2>6. CASE reaches(n, i + 1, k)
    <3>1. subtrees(s)[i + 1][k] = NodeTree(subtrees(s)[i][2 * k], subtrees(s)[i][2 * k + 1])
      BY <1>1, <2>6, DividedSubtree
    <3> QED
      BY <1>4, <2>2, <2>3, <2>4, <2>5, <3>1
  <2>7. CASE ~reaches(n, i + 1, k)
    <3>1. ~reaches(n, i, a) /\ ~reaches(n, i, b)
      BY <2>2, <2>3, <2>7, Reaches
    <3>2. subtrees(s)[i][a] = ZeroTree(i) /\ subtrees(s)[i][b] = ZeroTree(i)
      BY <1>1, <3>1, EmptySubtree
    <3>3. PICK e \in Nat : e = i + 1
      OBVIOUS
    <3>4. subtrees(s)[e][k] = ZeroTree(e)
      BY <1>1, <2>7, <3>3, EmptySubtree
    <3>5. ZERO_HASHES[i + 1] = hash_concat(ZERO_HASHES[i], ZERO_HASHES[i])
      BY ZeroHashes
    <3> QED
      BY <1>2, <2>4, <2>5, <3>2, <3>3, <3>4, <3>5
  <2> QED
    BY <2>6, <2>7
<1> HIDE DEF D
<1>7. Nat \subseteq D
  BY <1>5, <1>6, Induction
<1> QED
  BY <1>7 DEF D

(* So its root hash is the root. *)
LEMMA RootHash ==
  ASSUME NEW s, Len(s) \in Nat
  PROVE  rootHash(create(s, TREE_DEPTH)) = reference(s)
<1>1. PICK D \in 0 .. TREE_DEPTH : D = TREE_DEPTH
  BY DepthAssumption
<1>2. PICK k \in Nat : k = 0
  OBVIOUS
<1>3. rootHash(subtrees(s)[D][k]) = nodes(s)[D][k]
  BY SubtreeHashes
<1> QED
  BY <1>1, <1>2, <1>3 DEF create, reference

(* The branches of a subtree are those below it, also if it has none. *)
LEMMA Branches ==
  ASSUME NEW s, Len(s) \in Nat
  PROVE  \A d, k \in Nat :
           left_and_right_branches(subtrees(s)[d + 1][k])
             = <<subtrees(s)[d][2 * k], subtrees(s)[d][2 * k + 1]>>
<1> SUFFICES ASSUME NEW d \in Nat, NEW k \in Nat
             PROVE  left_and_right_branches(subtrees(s)[d + 1][k])
                      = <<subtrees(s)[d][2 * k], subtrees(s)[d][2 * k + 1]>>
  OBVIOUS
<1>1. PICK n \in Nat : n = Len(s)
  OBVIOUS
<1>2. \A l, r : left_and_right_branches(NodeTree(l, r)) = <<l, r>>
  BY DEF left_and_right_branches, NodeTree
<1>3. left_and_right_branches(ZeroTree(d + 1)) = <<ZeroTree(d), ZeroTree(d)>>
  <2>1. (d + 1) - 1 = d
    OBVIOUS
  <2>2. ZeroTree(d + 1).is = "Zero" /\ ZeroTree(d + 1).depth = d + 1
    BY DEF ZeroTree
  <2> QED
    BY <2>1, <2>2 DEF left_and_right_branches
<1>4. CASE reaches(n, d + 1, k)
  <2>1. subtrees(s)[d + 1][k] = NodeTree(subtrees(s)[d][2 * k], subtrees(s)[d][2 * k + 1])
    BY <1>1, <1>4, DividedSubtree
  <2> QED
    BY <1>2, <2>1
<1>5. CASE ~reaches(n, d + 1, k)
  <2>1. PICK a \in Nat : a = 2 * k
    OBVIOUS
  <2>2. PICK b \in Nat : b = 2 * k + 1
    OBVIOUS
  <2>3. ~reaches(n, d, a) /\ ~reaches(n, d, b)
    BY <1>5, <2>1, <2>2, Reaches
  <2>4. subtrees(s)[d][a] = ZeroTree(d) /\ subtrees(s)[d][b] = ZeroTree(d)
    BY <1>1, <2>3, EmptySubtree
  <2>5. PICK e \in Nat : e = d + 1
    OBVIOUS
  <2>6. subtrees(s)[e][k] = ZeroTree(e)
    BY <1>1, <1>5, <2>5, EmptySubtree
  <2> QED
    BY <1>3, <2>1, <2>2, <2>4, <2>5, <2>6
<1> QED
  BY <1>4, <1>5

(* The function that current_nodes computes. *)
IsCurrent(f, t, index, depth) ==
  f = [turns \in 0 .. depth |->
         IF turns = 0 THEN t
         ELSE left_and_right_branches(f[turns - 1])[1 + bit(index, depth - turns)]]

(* The way down to an index is over the subtrees that it falls into. *)
LEMMA WayDown ==
  ASSUME NEW s, Len(s) \in Nat, NEW index \in Nat, NEW D \in Nat, upper(index, D) = 0
  PROVE  \A d \in 0 .. D :
           current_nodes(create(s, D), index, D)[D - d] = subtrees(s)[d][upper(index, d)]
<1> DEFINE t == create(s, D)
           at(d) == subtrees(s)[d][upper(index, d)]
           f0 == [j \in 0 .. D |-> at(D - j)]
           f == CHOOSE h : IsCurrent(h, t, index, D)
<1>1. t = at(D)
  BY DEF create
<1>14. \A d, k \in Nat : left_and_right_branches(subtrees(s)[d + 1][k])
                           = <<subtrees(s)[d][2 * k], subtrees(s)[d][2 * k + 1]>>
  <2> HIDE DEF t, at, f0, f
  <2> QED
    BY Branches
<1>2. \A d \in Nat : left_and_right_branches(at(d + 1))[1 + bit(index, d)] = at(d)
  <2> SUFFICES ASSUME NEW d \in Nat
               PROVE  left_and_right_branches(at(d + 1))[1 + bit(index, d)] = at(d)
    OBVIOUS
  <2>1. PICK K \in Nat : K = upper(index, d + 1)
    BY Upper
  <2>2. upper(index, d) = 2 * K + bit(index, d) /\ bit(index, d) \in {0, 1}
    BY <2>1, Upper
  <2>3. left_and_right_branches(subtrees(s)[d + 1][K])
          = <<subtrees(s)[d][2 * K], subtrees(s)[d][2 * K + 1]>>
    BY <1>14
  <2>4. CASE bit(index, d) = 0
    <3>1. 1 + bit(index, d) = 1 /\ upper(index, d) = 2 * K
      BY <2>2, <2>4
    <3> QED
      BY <2>1, <2>3, <3>1
  <2>5. CASE bit(index, d) = 1
    <3>1. 1 + bit(index, d) = 2 /\ upper(index, d) = 2 * K + 1
      BY <2>2, <2>5
    <3> QED
      BY <2>1, <2>3, <3>1
  <2> QED
    BY <2>2, <2>4, <2>5
<1>3. current_nodes(t, index, D) = f
  BY Zenon DEF current_nodes, IsCurrent
<1> HIDE DEF t, at, f
<1>4. \A j \in 0 .. D : f0[j] = at(D - j)
  OBVIOUS
<1>5. f0 = [j \in 0 .. D |-> f0[j]]
  OBVIOUS
<1> HIDE DEF f0
<1>6. ASSUME NEW j \in 0 .. D
      PROVE  f0[j] = IF j = 0 THEN t
                     ELSE left_and_right_branches(f0[j - 1])[1 + bit(index, D - j)]
  <2>1. CASE j = 0
    <3>1. D - j = D
      BY <2>1
    <3> QED
      BY <1>1, <1>4, <2>1, <3>1
  <2>2. CASE j # 0
    <3>1. PICK d \in Nat : d = D - j /\ d + 1 = D - (j - 1)
      OBVIOUS
    <3>2. j - 1 \in 0 .. D
      BY <2>2
    <3>3. f0[j] = at(d) /\ f0[j - 1] = at(d + 1)
      BY <1>4, <3>1, <3>2
    <3> QED
      BY <1>2, <2>2, <3>1, <3>3
  <2> QED
    BY <2>1, <2>2
<1>7. IsCurrent(f0, t, index, D)
  BY <1>5, <1>6 DEF IsCurrent
<1>8. IsCurrent(f, t, index, D)
  BY <1>7 DEF f
<1>9. \A j \in 0 .. D : f[j] = IF j = 0 THEN t
                               ELSE left_and_right_branches(f[j - 1])[1 + bit(index, D - j)]
  BY <1>8 DEF IsCurrent
<1> DEFINE E == {j \in Nat : j <= D => f[j] = f0[j]}
<1>10. 0 \in E
  BY <1>6, <1>9
<1>11. ASSUME NEW j \in Nat, j \in E PROVE j + 1 \in E
  <2> SUFFICES ASSUME j + 1 <= D PROVE f[j + 1] = f0[j + 1]
    OBVIOUS
  <2>1. j + 1 \in 0 .. D /\ j + 1 # 0 /\ (j + 1) - 1 = j /\ j <= D
    OBVIOUS
  <2>2. f[j] = f0[j]
    BY <1>11, <2>1
  <2> QED
    BY <1>6, <1>9, <2>1, <2>2
<1> HIDE DEF E
<1>12. Nat \subseteq E
  BY <1>10, <1>11, Induction
<1>13. ASSUME NEW d \in 0 .. D PROVE f[D - d] = at(d)
  <2>1. PICK j \in 0 .. D : j = D - d /\ D - j = d
    OBVIOUS
  <2>2. j \in E /\ j <= D
    BY <1>12
  <2>3. f[j] = f0[j]
    BY <2>2 DEF E
  <2> QED
    BY <1>4, <2>1, <2>3
<1> QED
  BY <1>3, <1>13 DEF t, at

(* generate_proof gives the siblings of the nodes above the index. *)
LEMMA ProofIsSiblings ==
  ASSUME NEW s, Len(s) \in Nat, NEW index \in 0 .. MAX_LEAVES
  PROVE  generate_proof(create(s, TREE_DEPTH), index, TREE_DEPTH) = siblings(s, index)
<1>1. index \in Nat /\ upper(index, TREE_DEPTH) = 0
  BY NothingAbove
<1>2. PICK D \in Nat \ {0} : D = TREE_DEPTH
  BY DepthAssumption
<1> DEFINE current == current_nodes(create(s, D), index, D)
           proof(level) == rootHash(left_and_right_branches(current[D - level])[2 - bit(index, level - 1)])
<1>3. \A d \in 0 .. D : current[D - d] = subtrees(s)[d][upper(index, d)]
  BY <1>1, <1>2, WayDown
<1> HIDE DEF current
<1>4. ASSUME NEW level \in 1 .. D PROVE proof(level) = siblings(s, index)[level]
  <2>1. PICK d \in Nat : d = level - 1 /\ d + 1 = level /\ d \in 0 .. D /\ d + 1 \in 0 .. D
    OBVIOUS
  <2>2. PICK K \in Nat : K = upper(index, d + 1)
    BY <1>1, Upper
  <2>3. upper(index, d) = 2 * K + bit(index, d) /\ bit(index, d) \in {0, 1}
    BY <1>1, <2>2, Upper
  <2>4. left_and_right_branches(current[D - level])
          = <<subtrees(s)[d][2 * K], subtrees(s)[d][2 * K + 1]>>
    <3>1. left_and_right_branches(subtrees(s)[d + 1][K])
            = <<subtrees(s)[d][2 * K], subtrees(s)[d][2 * K + 1]>>
      BY <2>1, <2>2, Branches
    <3>2. current[D - level] = subtrees(s)[d + 1][K]
      BY <1>3, <2>1, <2>2
    <3> QED
      BY <3>1, <3>2
  <2>5. siblings(s, index)[level] = IF bit(index, d) = 1 THEN nodes(s)[d][upper(index, d) - 1]
                                    ELSE nodes(s)[d][upper(index, d) + 1]
    BY <1>2, <2>1 DEF siblings
  <2>6. CASE bit(index, d) = 1
    <3>1. 2 - bit(index, d) = 1 /\ upper(index, d) - 1 = 2 * K /\ 2 * K \in Nat
      BY <2>3, <2>6
    <3>2. proof(level) = rootHash(subtrees(s)[d][2 * K])
      <4>1. level - 1 = d
        BY <2>1
      <4> QED
        BY <2>4, <3>1, <4>1
    <3>3. rootHash(subtrees(s)[d][2 * K]) = nodes(s)[d][2 * K]
      BY <1>2, <2>1, <3>1, SubtreeHashes
    <3> QED
      BY <2>5, <2>6, <3>1, <3>2, <3>3
  <2>7. CASE bit(index, d) = 0
    <3>1. 2 - bit(index, d) = 2 /\ upper(index, d) + 1 = 2 * K + 1 /\ 2 * K + 1 \in Nat
      BY <2>3, <2>7
    <3>2. proof(level) = rootHash(subtrees(s)[d][2 * K + 1])
      <4>1. level - 1 = d
        BY <2>1
      <4> QED
        BY <2>4, <3>1, <4>1
    <3>3. rootHash(subtrees(s)[d][2 * K + 1]) = nodes(s)[d][2 * K + 1]
      BY <1>2, <2>1, <3>1, SubtreeHashes
    <3>4. bit(index, d) # 1
      BY <2>7
    <3> QED
      BY <2>5, <3>1, <3>2, <3>3, <3>4
  <2> QED
    BY <2>3, <2>6, <2>7
<1>5. generate_proof(create(s, D), index, D) = [level \in 1 .. D |-> proof(level)]
  BY DEF generate_proof, current
<1>6. siblings(s, index) = [level \in 1 .. D |-> siblings(s, index)[level]]
  BY <1>2 DEF siblings
<1> HIDE DEF proof
<1> QED
  BY <1>2, <1>4, <1>5, <1>6

(* The first leaves of a sequence. *)
LEMMA FirstLeaves ==
  ASSUME NEW S, NEW s \in Seq(S)
  PROVE  /\ SubSeq(s, 1, 0) = << >>
         /\ SubSeq(s, 1, Len(s)) = s
         /\ \A n \in 0 .. Len(s) : /\ SubSeq(s, 1, n) \in Seq(S) /\ Len(SubSeq(s, 1, n)) = n
                                   /\ \A i \in 1 .. n : SubSeq(s, 1, n)[i] = s[i]
         /\ \A n \in 0 .. Len(s) - 1 : SubSeq(s, 1, n + 1) = Append(SubSeq(s, 1, n), s[n + 1])
         /\ \A n \in 0 .. Len(s) : \A x \in S : SubSeq(Append(s, x), 1, n) = SubSeq(s, 1, n)
OBVIOUS

(* The leaves pushed one after the other. *)
IsPushed(f, s, m) ==
  f = [n \in 0 .. m |->
         IF n = 0 THEN ZeroTree(TREE_DEPTH) ELSE push_leaf(f[n - 1], s[n], TREE_DEPTH)]

(* They make the tree that create makes of them at once. *)
LEMMA PushedTrees ==
  ASSUME NEW S, NEW s \in Seq(S), NEW m \in Nat, m = Len(s), m <= capacity
  PROVE  LET f == CHOOSE h : IsPushed(h, s, m)
         IN  \A n \in 0 .. m : f[n] = create(SubSeq(s, 1, n), TREE_DEPTH)
<1> DEFINE f == CHOOSE h : IsPushed(h, s, m)
           g == [n \in 0 .. m |-> create(SubSeq(s, 1, n), TREE_DEPTH)]
<1> SUFFICES \A n \in 0 .. m : f[n] = create(SubSeq(s, 1, n), TREE_DEPTH)
  OBVIOUS
<1>1. create(SubSeq(s, 1, 0), TREE_DEPTH) = ZeroTree(TREE_DEPTH)
  <2>1. PICK D \in Nat : D = TREE_DEPTH
    BY DepthAssumption
  <2>2. PICK n \in Nat : n = Len(SubSeq(s, 1, 0)) /\ n = 0
    OBVIOUS
  <2>3. PICK k \in Nat : k = 0
    OBVIOUS
  <2>4. ~reaches(n, D, k)
    <3>1. PICK p \in Nat \ {0} : p = twoTo[D]
      BY TwoTo
    <3>2. k * p = 0
      BY <2>3
    <3> QED
      BY <2>2, <3>1, <3>2 DEF reaches
  <2>5. PICK e : e = SubSeq(s, 1, 0)
    OBVIOUS
  <2>6. subtrees(e)[D][k] = ZeroTree(D)
    BY <2>2, <2>4, <2>5, EmptySubtree
  <2> QED
    BY <2>1, <2>3, <2>5, <2>6 DEF create
<1>2. \A n \in 0 .. m - 1 : create(SubSeq(s, 1, n + 1), TREE_DEPTH)
                              = push_leaf(create(SubSeq(s, 1, n), TREE_DEPTH), s[n + 1], TREE_DEPTH)
  <2> SUFFICES ASSUME NEW n \in 0 .. m - 1
               PROVE  create(SubSeq(s, 1, n + 1), TREE_DEPTH)
                        = push_leaf(create(SubSeq(s, 1, n), TREE_DEPTH), s[n + 1], TREE_DEPTH)
    OBVIOUS
  <2>1. PICK c \in Nat : c = capacity
    BY Capacity
  <2>2. n < c /\ n \in 0 .. Len(s) /\ n \in 0 .. Len(s) - 1
    BY <2>1
  <2>7. SubSeq(s, 1, n) \in Seq(S) /\ Len(SubSeq(s, 1, n)) = n
    BY <2>2, FirstLeaves
  <2>3. PICK r \in Seq(S) : r = SubSeq(s, 1, n) /\ Len(r) < capacity
    BY <2>1, <2>2, <2>7
  <2>4. SubSeq(s, 1, n + 1) = Append(r, s[n + 1]) /\ s[n + 1] \in S
    BY <2>2, <2>3, FirstLeaves
  <2>5. PICK x \in S : x = s[n + 1]
    BY <2>4
  <2>6. push_leaf(create(r, TREE_DEPTH), x, TREE_DEPTH) = create(Append(r, x), TREE_DEPTH)
    BY <2>3, PushMakesTree
  <2> QED
    BY <2>3, <2>4, <2>5, <2>6
<1>3. \A n \in 0 .. m : g[n] = create(SubSeq(s, 1, n), TREE_DEPTH)
  OBVIOUS
<1>4. g = [n \in 0 .. m |-> g[n]]
  OBVIOUS
<1> HIDE DEF g, f
<1>5. ASSUME NEW n \in 0 .. m
      PROVE  g[n] = IF n = 0 THEN ZeroTree(TREE_DEPTH) ELSE push_leaf(g[n - 1], s[n], TREE_DEPTH)
  <2>1. CASE n = 0
    BY <1>1, <1>3, <2>1
  <2>2. CASE n # 0
    <3>1. PICK k \in 0 .. m - 1 : k = n - 1 /\ k + 1 = n /\ k \in 0 .. m
      BY <2>2
    <3> QED
      BY <1>2, <1>3, <2>2, <3>1
  <2> QED
    BY <2>1, <2>2
<1>6. IsPushed(g, s, m)
  BY <1>4, <1>5 DEF IsPushed
<1>7. IsPushed(f, s, m)
  BY <1>6 DEF f
<1>8. \A n \in 0 .. m :
        f[n] = IF n = 0 THEN ZeroTree(TREE_DEPTH) ELSE push_leaf(f[n - 1], s[n], TREE_DEPTH)
  BY <1>7 DEF IsPushed
<1> DEFINE E == {n \in Nat : n <= m => f[n] = g[n]}
<1>9. 0 \in E
  BY <1>5, <1>8
<1>10. ASSUME NEW n \in Nat, n \in E PROVE n + 1 \in E
  <2> SUFFICES ASSUME n + 1 <= m PROVE f[n + 1] = g[n + 1]
    OBVIOUS
  <2>1. n + 1 \in 0 .. m /\ n + 1 # 0 /\ (n + 1) - 1 = n /\ n <= m
    OBVIOUS
  <2>2. f[n] = g[n]
    BY <1>10, <2>1
  <2> QED
    BY <1>5, <1>8, <2>1, <2>2
<1> HIDE DEF E
<1>11. Nat \subseteq E
  BY <1>9, <1>10, Induction
<1> QED
  BY <1>3, <1>11 DEF E

(* What the contract's tree and the prover's compute is the same, at every *)
(* depth: the roots, the proofs, and that there is no room.                *)
THEOREM MerkleTreesAgree == TreesAgree
<1> DEFINE cap == twoTo[TREE_DEPTH]
           items == [i \in 1 .. cap |-> <<i>>]
           first(n) == SubSeq(items, 1, n)
           pushed == CHOOSE h : IsPushed(h, items, cap)
           S == {<<i>> : i \in Nat}
<1>1. cap = capacity /\ cap \in Nat \ {0} /\ MAX_LEAVES = cap - 1
  BY Capacity DEF capacity
<1> HIDE DEF cap
<1>2. items \in Seq(S) /\ Len(items) = cap /\ \A i \in 1 .. cap : items[i] = <<i>>
  BY <1>1
<1>3. <<0>> \in S
  OBVIOUS
<1> HIDE DEF items, S
<1>4. \A n \in 0 .. cap : /\ first(n) \in Seq(S) /\ Len(first(n)) = n
                          /\ \A i \in 1 .. n : first(n)[i] = items[i]
  BY <1>2, FirstLeaves
<1>5. first(cap) = items
  BY <1>2, FirstLeaves
<1>6. \A n \in 0 .. cap : pushed[n] = create(first(n), TREE_DEPTH)
  BY <1>1, <1>2, PushedTrees
<1> HIDE DEF first, pushed
<1>7. \A n \in 0 .. MAX_LEAVES : rootWithCtx(insertAll(first(n))) = reference(first(n))
  <2> SUFFICES ASSUME NEW n \in 0 .. MAX_LEAVES
               PROVE  rootWithCtx(insertAll(first(n))) = reference(first(n))
    OBVIOUS
  <2>1. n \in 0 .. cap /\ n <= MAX_LEAVES
    BY <1>1
  <2>2. first(n) \in Seq(S) /\ Len(first(n)) <= MAX_LEAVES
    BY <1>4, <2>1
  <2> QED
    BY <2>2, MerkleRootIsReference
<1>8. \A n \in 0 .. cap : rootHash(pushed[n]) = reference(first(n))
  BY <1>4, <1>6, RootHash
<1>9. \A n \in 0 .. cap : \A i \in 0 .. n - 1 :
        branchRoot(items[i + 1], generate_proof(pushed[n], i, TREE_DEPTH), i) = rootHash(pushed[n])
  <2> SUFFICES ASSUME NEW n \in 0 .. cap, NEW i \in 0 .. n - 1
               PROVE  branchRoot(items[i + 1], generate_proof(pushed[n], i, TREE_DEPTH), i)
                        = rootHash(pushed[n])
    OBVIOUS
  <2>1. i \in 0 .. MAX_LEAVES /\ i \in Nat /\ i < n /\ i + 1 \in 1 .. n /\ n \in Nat
    BY <1>1
  <2>2. generate_proof(pushed[n], i, TREE_DEPTH) = siblings(first(n), i)
    BY <1>4, <1>6, <2>1, ProofIsSiblings
  <2>3. nodes(first(n))[0][i] = items[i + 1]
    BY <1>4, <2>1, Nodes
  <2>4. branchRoot(nodes(first(n))[0][i], siblings(first(n), i), i) = reference(first(n))
    BY <2>1, BranchIsComplete
  <2> QED
    BY <1>8, <2>2, <2>3, <2>4
<1>10. push_leaf(pushed[cap], <<0>>, TREE_DEPTH) = failed("MerkleTreeFull")
  BY <1>1, <1>2, <1>3, <1>5, <1>6, FullTreeSays
<1> QED
  BY <1>6, <1>7, <1>8, <1>9, <1>10, Zenon DEF TreesAgree, IsPushed, cap, items, first, pushed

(* They do in every state. *)
THEOREM SpecAlgorithmsAgree == TreeSpec => []AlgorithmsAgree
<1>1. AlgorithmsAgree
  BY MerkleTreesAgree DEF AlgorithmsAgree
<1> QED
  BY <1>1, PTL

(***************************************************************************)
(* No proof for another leaf                                               *)
(***************************************************************************)

(* Nodes of a level that are equal have equal first leaves. *)
LEMMA EqualNodes ==
  ASSUME NEW s, NEW r
  PROVE  \A k \in 0 .. TREE_DEPTH : \A u, v \in Nat :
           nodes(s)[k][u] = nodes(r)[k][v] =>
             nodes(s)[0][u * twoTo[k]] = nodes(r)[0][v * twoTo[k]]
<1> DEFINE D == {k \in Nat : k <= TREE_DEPTH => \A u, v \in Nat :
                   nodes(s)[k][u] = nodes(r)[k][v] =>
                     nodes(s)[0][u * twoTo[k]] = nodes(r)[0][v * twoTo[k]]}
<1>1. 0 \in D
  BY TwoTo
<1>2. ASSUME NEW k \in Nat, k \in D PROVE k + 1 \in D
  <2> SUFFICES ASSUME k + 1 <= TREE_DEPTH, NEW u \in Nat, NEW v \in Nat,
                      nodes(s)[k + 1][u] = nodes(r)[k + 1][v]
               PROVE  nodes(s)[0][u * twoTo[k + 1]] = nodes(r)[0][v * twoTo[k + 1]]
    OBVIOUS
  <2>1. k \in Levels /\ k <= TREE_DEPTH
    BY DepthAssumption DEF Levels
  <2>2. PICK a \in Nat : a = 2 * u
    OBVIOUS
  <2>3. PICK b \in Nat : b = 2 * v
    OBVIOUS
  <2>4. nodes(s)[k + 1][u] = hash_concat(nodes(s)[k][a], nodes(s)[k][a + 1])
    BY <2>1, <2>2, Nodes
  <2>5. nodes(r)[k + 1][v] = hash_concat(nodes(r)[k][b], nodes(r)[k][b + 1])
    BY <2>1, <2>3, Nodes
  <2>6. nodes(s)[k][a] = nodes(r)[k][b]
    <3>1. hash_concat(nodes(s)[k][a], nodes(s)[k][a + 1])
            = hash_concat(nodes(r)[k][b], nodes(r)[k][b + 1])
      BY <2>4, <2>5
    <3> QED
      BY <3>1 DEF hash_concat
  <2>7. nodes(s)[0][a * twoTo[k]] = nodes(r)[0][b * twoTo[k]]
    BY <1>2, <2>1, <2>6
  <2>8. PICK p \in Nat \ {0} : p = twoTo[k] /\ twoTo[k + 1] = 2 * p
    BY TwoTo
  <2>9. a * p = u * (2 * p) /\ b * p = v * (2 * p)
    BY <2>2, <2>3
  <2> QED
    BY <2>7, <2>8, <2>9
<1> HIDE DEF D
<1>3. Nat \subseteq D
  BY <1>1, <1>2, Induction
<1> QED
  BY <1>3 DEF D

(* The ways down to two indices part at some level. *)
LEMMA WaysPart ==
  ASSUME NEW i \in 0 .. MAX_LEAVES, NEW j \in 0 .. MAX_LEAVES, i # j
  PROVE  \E k \in Levels : upper(i, k + 1) = upper(j, k + 1) /\ upper(i, k) # upper(j, k)
<1> SUFFICES ASSUME \A k \in Levels : upper(i, k + 1) = upper(j, k + 1) => upper(i, k) = upper(j, k)
             PROVE  FALSE
  OBVIOUS
<1>1. i \in Nat /\ j \in Nat /\ upper(i, TREE_DEPTH) = 0 /\ upper(j, TREE_DEPTH) = 0
  BY NothingAbove
<1> DEFINE D == {m \in Nat : m <= TREE_DEPTH =>
                   upper(i, TREE_DEPTH - m) = upper(j, TREE_DEPTH - m)}
<1>2. 0 \in D
  <2>1. TREE_DEPTH - 0 = TREE_DEPTH
    BY DepthAssumption
  <2> QED
    BY <1>1, <2>1
<1>3. ASSUME NEW m \in Nat, m \in D PROVE m + 1 \in D
  <2> SUFFICES ASSUME m + 1 <= TREE_DEPTH
               PROVE  upper(i, TREE_DEPTH - (m + 1)) = upper(j, TREE_DEPTH - (m + 1))
    OBVIOUS
  <2>1. PICK k \in Levels : k = TREE_DEPTH - (m + 1) /\ k + 1 = TREE_DEPTH - m
    BY DepthAssumption DEF Levels
  <2>2. m <= TREE_DEPTH
    BY DepthAssumption
  <2> QED
    BY <1>3, <2>1, <2>2
<1> HIDE DEF D
<1>4. Nat \subseteq D
  BY <1>2, <1>3, Induction
<1>5. upper(i, 0) = upper(j, 0)
  <2>1. TREE_DEPTH \in Nat /\ TREE_DEPTH <= TREE_DEPTH /\ TREE_DEPTH - TREE_DEPTH = 0
    BY DepthAssumption
  <2>2. TREE_DEPTH \in D
    BY <1>4, <2>1
  <2> QED
    BY <2>1, <2>2 DEF D
<1> QED
  BY <1>1, <1>5, Upper

(* At that level each is the sibling of the other. *)
LEMMA SiblingWhereWaysPart ==
  ASSUME NEW s, NEW k \in Levels
  PROVE  \A i, j \in Nat :
           upper(i, k + 1) = upper(j, k + 1) /\ upper(i, k) # upper(j, k) =>
             siblings(s, i)[k + 1] = nodes(s)[k][upper(j, k)]
<1> SUFFICES ASSUME NEW i \in Nat, NEW j \in Nat,
                    upper(i, k + 1) = upper(j, k + 1), upper(i, k) # upper(j, k)
             PROVE  siblings(s, i)[k + 1] = nodes(s)[k][upper(j, k)]
  OBVIOUS
<1>1. k \in Nat /\ k + 1 \in 1 .. TREE_DEPTH /\ (k + 1) - 1 = k
  BY DepthAssumption DEF Levels
<1>2. PICK K \in Nat : K = upper(i, k + 1) /\ K = upper(j, k + 1)
  BY <1>1, Upper
<1>3. PICK a \in Nat : a = upper(i, k)
  BY <1>1, Upper
<1>4. PICK b \in Nat : b = upper(j, k)
  BY <1>1, Upper
<1>5. a = 2 * K + bit(i, k) /\ bit(i, k) \in {0, 1}
  BY <1>1, <1>2, <1>3, Upper
<1>6. b = 2 * K + bit(j, k) /\ bit(j, k) \in {0, 1}
  BY <1>1, <1>2, <1>4, Upper
<1>7. b = IF bit(i, k) = 1 THEN a - 1 ELSE a + 1
  BY <1>3, <1>4, <1>5, <1>6
<1>8. siblings(s, i)[k + 1] = IF bit(i, k) = 1 THEN nodes(s)[k][upper(i, k) - 1]
                              ELSE nodes(s)[k][upper(i, k) + 1]
  BY <1>1 DEF siblings
<1> QED
  BY <1>3, <1>4, <1>7, <1>8

(* The first leaf of a subtree that an index falls into or that is left of *)
(* it.                                                                     *)
LEMMA FirstLeafBefore ==
  ASSUME NEW j \in Nat, NEW k \in Nat, NEW a \in Nat, a <= upper(j, k)
  PROVE  a * twoTo[k] \in Nat /\ a * twoTo[k] <= j
<1>1. PICK p \in Nat \ {0} : p = twoTo[k]
  BY TwoTo
<1>2. PICK z \in Nat : z = a * p
  OBVIOUS
<1>3. reaches(j + 1, k, a)
  BY Reaches
<1>4. z < j + 1
  BY <1>1, <1>2, <1>3 DEF reaches
<1> QED
  BY <1>1, <1>2, <1>4

(* A proof made of the first leaves leads from no leaf but its own and no  *)
(* index but its own to the root of any number of first leaves but theirs, *)
(* if no leaf is there twice.                                              *)
LEMMA ProofIsUnique ==
  ASSUME NEW S, << >> \notin S, NEW s \in Seq(S), Len(s) <= MAX_LEAVES,
         \A a, b \in DOMAIN s : s[a] = s[b] => a = b
  PROVE  \A c, n \in 0 .. Len(s) : \A i \in 0 .. c - 1 : \A j \in 0 .. MAX_LEAVES : \A x \in S :
           branchRoot(x, siblings(SubSeq(s, 1, c), i), j) = reference(SubSeq(s, 1, n)) =>
             n = c /\ j = i /\ x = s[i + 1]
<1> SUFFICES ASSUME NEW c \in 0 .. Len(s), NEW n \in 0 .. Len(s), NEW i \in 0 .. c - 1,
                    NEW j \in 0 .. MAX_LEAVES, NEW x \in S,
                    branchRoot(x, siblings(SubSeq(s, 1, c), i), j) = reference(SubSeq(s, 1, n))
             PROVE  n = c /\ j = i /\ x = s[i + 1]
  BY Zenon
<1>1. PICK u \in Seq(S) : u = SubSeq(s, 1, c) /\ Len(u) = c /\ \A p \in 1 .. c : u[p] = s[p]
  BY FirstLeaves
<1>2. PICK v \in Seq(S) : v = SubSeq(s, 1, n) /\ Len(v) = n /\ \A p \in 1 .. n : v[p] = s[p]
  BY FirstLeaves
<1>3. i \in Nat /\ i \in 0 .. MAX_LEAVES /\ j \in Nat /\ i < c
  BY Capacity
<1>4. /\ x = nodes(v)[0][j]
      /\ \A k \in Levels : siblings(u, i)[k + 1] = siblings(v, j)[k + 1]
  <2>1. branchRoot(x, siblings(u, i), j) = reference(v)
    BY <1>1, <1>2
  <2>2. PICK branch : branch = siblings(u, i)
    OBVIOUS
  <2>3. branchRoot(x, branch, j) = reference(v)
    BY <2>1, <2>2
  <2>4. x = nodes(v)[0][j] /\ \A k \in Levels : branch[k + 1] = siblings(v, j)[k + 1]
    BY <2>3, BranchIsSound
  <2> QED
    BY <2>2, <2>4
<1>5. j < n /\ x = s[j + 1] /\ x # << >>
  <2>1. nodes(v)[0][j] = IF j < Len(v) THEN v[j + 1] ELSE << >>
    BY <1>3, Nodes
  <2>2. x # << >>
    OBVIOUS
  <2>3. j < n
    BY <1>2, <1>4, <2>1, <2>2
  <2>4. j + 1 \in 1 .. n
    BY <1>3, <2>3
  <2> QED
    BY <1>2, <1>4, <2>1, <2>2, <2>3, <2>4
<1>6. ASSUME i # j PROVE FALSE
  <2>1. PICK k \in Levels : upper(i, k + 1) = upper(j, k + 1) /\ upper(i, k) # upper(j, k)
    BY <1>3, <1>6, WaysPart
  <2>2. k \in Nat /\ k \in 0 .. TREE_DEPTH
    BY DepthAssumption DEF Levels
  <2>3. PICK a \in Nat : a = upper(i, k)
    BY <1>3, <2>2, Upper
  <2>4. PICK b \in Nat : b = upper(j, k)
    BY <1>3, <2>2, Upper
  <2>5. siblings(u, i)[k + 1] = nodes(u)[k][b]
    BY <1>3, <2>1, <2>4, SiblingWhereWaysPart
  <2>6. siblings(v, j)[k + 1] = nodes(v)[k][a]
    <3>1. upper(j, k + 1) = upper(i, k + 1) /\ upper(j, k) # upper(i, k)
      BY <2>1
    <3> QED
      BY <1>3, <2>3, <3>1, SiblingWhereWaysPart
  <2>7. nodes(u)[k][b] = nodes(v)[k][a]
    BY <1>4, <2>5, <2>6
  <2>8. nodes(u)[0][b * twoTo[k]] = nodes(v)[0][a * twoTo[k]]
    <3>1. \A e, f \in Nat : nodes(u)[k][e] = nodes(v)[k][f] =>
            nodes(u)[0][e * twoTo[k]] = nodes(v)[0][f * twoTo[k]]
      BY <2>2, EqualNodes
    <3> QED
      BY <2>7, <3>1
  <2>9. PICK p \in Nat \ {0} : p = twoTo[k]
    BY <2>2, TwoTo
  <2>10. PICK y \in Nat : y = b * p
    OBVIOUS
  <2>11. PICK z \in Nat : z = a * p
    OBVIOUS
  <2>12. y # z
    <3>1. a # b
      BY <2>1, <2>3, <2>4
    <3>2. CASE a < b
      <4>1. PICK d \in Nat \ {0} : b = a + d
        <5>1. b - a \in Nat \ {0} /\ b = a + (b - a)
          BY <3>2
        <5> QED
          BY <5>1
      <4>2. (a + d) * p = z + (d * p) /\ d * p > 0
        BY <2>11
      <4> QED
        BY <2>10, <4>1, <4>2
    <3>3. CASE b < a
      <4>1. PICK d \in Nat \ {0} : a = b + d
        <5>1. a - b \in Nat \ {0} /\ a = b + (a - b)
          BY <3>3
        <5> QED
          BY <5>1
      <4>2. (b + d) * p = y + (d * p) /\ d * p > 0
        BY <2>10
      <4> QED
        BY <2>11, <4>1, <4>2
    <3> QED
      BY <3>1, <3>2, <3>3
  <2>13. nodes(u)[0][y] = IF y < c THEN s[y + 1] ELSE << >>
    <3>1. nodes(u)[0][y] = IF y < Len(u) THEN u[y + 1] ELSE << >>
      BY Nodes
    <3>2. y < c => y + 1 \in 1 .. c
      OBVIOUS
    <3> QED
      BY <1>1, <3>1, <3>2
  <2>14. nodes(v)[0][z] = IF z < n THEN s[z + 1] ELSE << >>
    <3>1. nodes(v)[0][z] = IF z < Len(v) THEN v[z + 1] ELSE << >>
      BY Nodes
    <3>2. z < n => z + 1 \in 1 .. n
      OBVIOUS
    <3> QED
      BY <1>2, <3>1, <3>2
  <2>15. y < c \/ z < n
    <3>1. CASE a <= b
      <4>1. a * twoTo[k] <= j
        BY <1>3, <2>2, <2>4, <3>1, FirstLeafBefore
      <4> QED
        BY <1>3, <1>5, <2>9, <2>11, <4>1
    <3>2. CASE b <= a
      <4>1. b * twoTo[k] <= i
        BY <1>3, <2>2, <2>3, <3>2, FirstLeafBefore
      <4> QED
        BY <1>3, <2>9, <2>10, <4>1
    <3> QED
      BY <3>1, <3>2
  <2>16. \A q \in Nat : q < c \/ q < n => q + 1 \in DOMAIN s /\ s[q + 1] # << >>
    <3> SUFFICES ASSUME NEW q \in Nat, q < c \/ q < n
                 PROVE  q + 1 \in DOMAIN s /\ s[q + 1] # << >>
      OBVIOUS
    <3>1. q + 1 \in DOMAIN s
      OBVIOUS
    <3>2. s[q + 1] \in S
      BY <3>1
    <3> QED
      BY <3>1, <3>2
  <2>17. nodes(u)[0][y] = nodes(v)[0][z]
    BY <2>8, <2>9, <2>10, <2>11
  <2>18. y < c /\ z < n
    BY <2>13, <2>14, <2>15, <2>16, <2>17
  <2>19. s[y + 1] = s[z + 1] /\ y + 1 \in DOMAIN s /\ z + 1 \in DOMAIN s
    BY <2>13, <2>14, <2>16, <2>17, <2>18
  <2>20. y + 1 = z + 1
    BY <2>19
  <2> QED
    BY <2>12, <2>20
<1>7. ASSUME i = j PROVE n = c
  <2>1. \A k \in Levels : siblings(u, i)[k + 1] = siblings(v, i)[k + 1]
    BY <1>4, <1>7
  <2>2. nodes(u)[0][i] = x
    <3>1. nodes(u)[0][i] = IF i < Len(u) THEN u[i + 1] ELSE << >>
      BY <1>3, Nodes
    <3>2. i + 1 \in 1 .. c
      BY <1>3
    <3> QED
      BY <1>1, <1>3, <1>5, <1>7, <3>1, <3>2
  <2>3. branchRoot(x, siblings(u, i), i) = reference(u)
    BY <1>3, <2>2, BranchIsComplete
  <2>4. reference(u) = reference(v)
    BY <1>1, <1>2, <1>7, <2>3
  <2>5. Len(u) <= MAX_LEAVES /\ Len(v) <= MAX_LEAVES
    BY <1>1, <1>2, Capacity
  <2>6. u = v
    BY <2>4, <2>5, MerkleRootsDiffer
  <2> QED
    BY <1>1, <1>2, <2>6
<1> QED
  BY <1>5, <1>6, <1>7

(***************************************************************************)
(* Home with its tree, and the prover                                      *)
(***************************************************************************)

(* The hashes of messages, none of which is zero. *)
Hash == {<<m>> : m \in Leaf}

LEMMA HashesOf ==
  ASSUME NEW leaves \in Seq(Leaf)
  PROVE  /\ hashes(leaves) \in Seq(Hash) /\ Len(hashes(leaves)) = Len(leaves)
         /\ \A i \in DOMAIN leaves : hashes(leaves)[i] = <<leaves[i]>>
<1>1. PICK s : s = hashes(leaves)
  OBVIOUS
<1>2. s = [i \in 1 .. Len(leaves) |-> <<leaves[i]>>] /\ \A i \in 1 .. Len(leaves) : leaves[i] \in Leaf
  BY <1>1 DEF hashes
<1>3. s \in Seq(Hash) /\ Len(s) = Len(leaves)
  BY <1>2 DEF Hash
<1>4. \A i \in DOMAIN leaves : s[i] = <<leaves[i]>>
  BY <1>1 DEF hashes
<1> QED
  BY <1>1, <1>3, <1>4

(* The prover when it has so many of the leaves. *)
grownTo(leaves, n) ==
  [count |-> n, tree |-> create(SubSeq(hashes(leaves), 1, n), TREE_DEPTH)]

(* With none it is the one that has just started. *)
LEMMA GrownToNothing ==
  ASSUME NEW leaves
  PROVE  grownTo(leaves, 0) = noLeaves
<1>1. PICK e : e = SubSeq(hashes(leaves), 1, 0)
  OBVIOUS
<1>2. PICK n \in Nat : n = Len(e) /\ n = 0
  BY <1>1
<1>3. PICK D \in Nat : D = TREE_DEPTH
  BY DepthAssumption
<1>4. PICK k \in Nat : k = 0
  OBVIOUS
<1>5. ~reaches(n, D, k)
  <2>1. PICK p \in Nat \ {0} : p = twoTo[D]
    BY TwoTo
  <2>2. k * p = 0
    BY <1>4
  <2> QED
    BY <1>2, <2>1, <2>2 DEF reaches
<1>6. subtrees(e)[D][k] = ZeroTree(D)
  BY <1>2, <1>5, EmptySubtree
<1> QED
  BY <1>1, <1>3, <1>4, <1>6 DEF grownTo, noLeaves, create

(* One leaf more. *)
LEMMA IngestGrows ==
  ASSUME NEW leaves \in Seq(Leaf), Len(leaves) <= MAX_LEAVES, NEW n \in 0 .. Len(leaves) - 1
  PROVE  ingest(grownTo(leaves, n), <<leaves[n + 1]>>) = grownTo(leaves, n + 1)
<1>1. PICK s \in Seq(Hash) : /\ s = hashes(leaves) /\ Len(s) = Len(leaves)
                             /\ \A i \in DOMAIN leaves : s[i] = <<leaves[i]>>
  BY HashesOf
<1>2. PICK c \in Nat : c = capacity /\ MAX_LEAVES = c - 1
  BY Capacity
<1>3. n \in 0 .. Len(s) /\ n \in 0 .. Len(s) - 1 /\ n < c /\ n + 1 \in DOMAIN s
  BY <1>1, <1>2
<1>4. SubSeq(s, 1, n) \in Seq(Hash) /\ Len(SubSeq(s, 1, n)) = n
  BY <1>3, FirstLeaves
<1>5. PICK r \in Seq(Hash) : r = SubSeq(s, 1, n) /\ Len(r) < capacity
  BY <1>2, <1>3, <1>4
<1>6. PICK x \in Hash : x = s[n + 1]
  BY <1>3
<1>7. SubSeq(s, 1, n + 1) = Append(r, x)
  BY <1>3, <1>5, <1>6, FirstLeaves
<1>8. push_leaf(create(r, TREE_DEPTH), x, TREE_DEPTH) = create(Append(r, x), TREE_DEPTH)
  BY <1>5, PushMakesTree
<1>9. x = <<leaves[n + 1]>>
  <2>1. n + 1 \in DOMAIN leaves
    OBVIOUS
  <2> QED
    BY <1>1, <1>6, <2>1
<1>10. grownTo(leaves, n) = [count |-> n, tree |-> create(r, TREE_DEPTH)]
  BY <1>1, <1>5 DEF grownTo
<1>11. grownTo(leaves, n + 1) = [count |-> n + 1, tree |-> create(Append(r, x), TREE_DEPTH)]
  BY <1>1, <1>7 DEF grownTo
<1> QED
  BY <1>8, <1>9, <1>10, <1>11 DEF ingest

(* The prover after each of the leaves that it can take. *)
IsGrown(f, p, m) ==
  f = [k \in 0 .. m |-> IF k = 0 THEN p ELSE ingest(f[k - 1], leafHash(p.count + k))]

(* Where it stops for a root. *)
StopsAt(f, m, newRoot, k) ==
  /\ k = m \/ rootHash(f[k].tree) = newRoot
  /\ \A j \in 0 .. k - 1 : rootHash(f[j].tree) # newRoot

(* It stops somewhere. *)
LEMMA StopsSomewhere ==
  ASSUME NEW f, NEW m \in Nat, NEW newRoot
  PROVE  \E k \in 0 .. m : StopsAt(f, m, newRoot, k)
<1> DEFINE D == {k \in Nat : k <= m =>
                   \/ \E l \in 0 .. m : StopsAt(f, m, newRoot, l)
                   \/ \A j \in 0 .. k - 1 : rootHash(f[j].tree) # newRoot}
<1>1. 0 \in D
  OBVIOUS
<1>2. ASSUME NEW k \in Nat, k \in D PROVE k + 1 \in D
  <2> SUFFICES ASSUME k + 1 <= m, ~\E l \in 0 .. m : StopsAt(f, m, newRoot, l)
               PROVE  \A j \in 0 .. (k + 1) - 1 : rootHash(f[j].tree) # newRoot
    OBVIOUS
  <2>1. k <= m /\ k \in 0 .. m
    OBVIOUS
  <2>2. \A j \in 0 .. k - 1 : rootHash(f[j].tree) # newRoot
    BY <1>2, <2>1
  <2>3. rootHash(f[k].tree) # newRoot
    BY <2>1, <2>2 DEF StopsAt
  <2>4. \A j \in 0 .. (k + 1) - 1 : j = k \/ j \in 0 .. k - 1
    OBVIOUS
  <2> QED
    BY <2>2, <2>3, <2>4
<1> HIDE DEF D
<1>3. Nat \subseteq D
  BY <1>1, <1>2, Induction
<1>4. m \in D /\ m <= m /\ m \in 0 .. m
  BY <1>3
<1> QED
  BY <1>4 DEF D, StopsAt

(* ingestUntil makes of a prover that has the first leaves one that has    *)
(* the first leaves, and some more of them.                                *)
LEMMA IngestUntilGrows ==
  ASSUME tree \in Seq(Leaf), Len(tree) <= MAX_LEAVES, NEW c \in 0 .. Len(tree), NEW newRoot
  PROVE  \E n \in c .. Len(tree) : ingestUntil(grownTo(tree, c), newRoot) = grownTo(tree, n)
<1> DEFINE p == grownTo(tree, c)
<1>1. PICK m \in Nat : m = Len(tree) - c
  OBVIOUS
<1> DEFINE g == [k \in 0 .. m |-> grownTo(tree, c + k)]
           f == CHOOSE h : IsGrown(h, p, m)
           last == CHOOSE k \in 0 .. m : StopsAt(f, m, newRoot, k)
<1>2. p.count = c
  BY DEF grownTo
<1>3. \A k \in 0 .. m : g[k] = grownTo(tree, c + k)
  OBVIOUS
<1>4. g = [k \in 0 .. m |-> g[k]]
  OBVIOUS
<1> HIDE DEF g
<1>5. ASSUME NEW k \in 0 .. m
      PROVE  g[k] = IF k = 0 THEN p ELSE ingest(g[k - 1], leafHash(p.count + k))
  <2>1. CASE k = 0
    <3>1. c + k = c
      BY <2>1
    <3> QED
      BY <1>3, <2>1, <3>1
  <2>2. CASE k # 0
    <3>1. PICK n \in 0 .. Len(tree) - 1 : n = c + (k - 1) /\ n + 1 = c + k /\ k - 1 \in 0 .. m
      BY <1>1, <2>2
    <3>2. g[k - 1] = grownTo(tree, n) /\ g[k] = grownTo(tree, n + 1)
      BY <1>3, <3>1
    <3>3. ingest(grownTo(tree, n), <<tree[n + 1]>>) = grownTo(tree, n + 1)
      BY IngestGrows
    <3>4. leafHash(p.count + k) = <<tree[n + 1]>>
      BY <1>2, <3>1 DEF leafHash
    <3> QED
      BY <2>2, <3>2, <3>3, <3>4
  <2> QED
    BY <2>1, <2>2
<1>6. IsGrown(g, p, m)
  BY <1>4, <1>5 DEF IsGrown
<1> HIDE DEF p
<1>7. IsGrown(f, p, m)
  BY <1>6
<1> HIDE DEF f
<1>8. \A k \in 0 .. m : f[k] = IF k = 0 THEN p ELSE ingest(f[k - 1], leafHash(p.count + k))
  BY <1>7 DEF IsGrown
<1>9. DOMAIN f = 0 .. m
  BY <1>7 DEF IsGrown
<1> DEFINE E == {k \in Nat : k <= m => f[k] = g[k]}
<1>10. 0 \in E
  BY <1>5, <1>8
<1>11. ASSUME NEW k \in Nat, k \in E PROVE k + 1 \in E
  <2> SUFFICES ASSUME k + 1 <= m PROVE f[k + 1] = g[k + 1]
    OBVIOUS
  <2>1. k + 1 \in 0 .. m /\ k + 1 # 0 /\ (k + 1) - 1 = k /\ k <= m
    OBVIOUS
  <2>2. f[k] = g[k]
    BY <1>11, <2>1
  <2> QED
    BY <1>5, <1>8, <2>1, <2>2
<1> HIDE DEF E
<1>12. Nat \subseteq E
  BY <1>10, <1>11, Induction
<1>13. last \in 0 .. m
  BY StopsSomewhere
<1>14. ingestUntil(p, newRoot) = f[last]
  <2>1. Len(tree) - p.count = m
    BY <1>1, <1>2
  <2>2. ingestUntil(p, newRoot) =
          LET last2 == CHOOSE k \in DOMAIN f : StopsAt(f, m, newRoot, k) IN f[last2]
    BY <2>1, Zenon DEF ingestUntil, IsGrown, StopsAt, f
  <2> QED
    BY <1>9, <2>2
<1> HIDE DEF last
<1>15. f[last] = grownTo(tree, c + last)
  <2>1. last \in E /\ last <= m
    BY <1>12, <1>13
  <2> QED
    BY <1>3, <1>13, <2>1 DEF E
<1>16. c + last \in c .. Len(tree)
  BY <1>1, <1>13
<1> QED
  BY <1>14, <1>15, <1>16 DEF p

(* Hashes of one message more. *)
LEMMA HashesAppend ==
  ASSUME NEW leaves \in Seq(Leaf), NEW e \in Leaf
  PROVE  hashes(Append(leaves, e)) = Append(hashes(leaves), <<e>>)
<1>5. PICK n \in Nat : n = Len(leaves)
  OBVIOUS
<1>1. PICK r \in Seq(Leaf) : r = Append(leaves, e)
  <2>1. Append(leaves, e) \in Seq(Leaf)
    OBVIOUS
  <2> QED
    BY <2>1
<1>10. Len(r) = n + 1 /\ r[n + 1] = e
  BY <1>1, <1>5
<1>11. \A i \in 1 .. n : r[i] = leaves[i] /\ i \in DOMAIN leaves
  BY <1>1, <1>5
<1>2. PICK s \in Seq(Hash) : /\ s = hashes(leaves) /\ Len(s) = Len(leaves)
                             /\ \A i \in DOMAIN leaves : s[i] = <<leaves[i]>>
  BY HashesOf
<1>3. PICK t \in Seq(Hash) : /\ t = hashes(r) /\ Len(t) = Len(r)
                             /\ \A i \in DOMAIN r : t[i] = <<r[i]>>
  BY HashesOf
<1>4. PICK x \in Hash : x = <<e>>
  BY DEF Hash
<1>6. Len(t) = n + 1 /\ Len(Append(s, x)) = n + 1
  BY <1>2, <1>3, <1>5, <1>10
<1>7. ASSUME NEW i \in 1 .. n + 1 PROVE t[i] = Append(s, x)[i]
  <2>1. i \in DOMAIN r /\ t[i] = <<r[i]>>
    <3>1. i \in DOMAIN r
      BY <1>10
    <3> QED
      BY <1>3, <3>1
  <2>2. CASE i = n + 1
    <3>1. r[i] = e /\ Append(s, x)[i] = x
      BY <1>2, <1>5, <1>10, <2>2
    <3> QED
      BY <1>4, <2>1, <3>1
  <2>3. CASE i \in 1 .. n
    <3>1. r[i] = leaves[i] /\ s[i] = <<leaves[i]>>
      BY <1>2, <1>11, <2>3
    <3>2. Append(s, x)[i] = s[i]
      BY <1>2, <1>5, <2>3
    <3> QED
      BY <2>1, <3>1, <3>2
  <2>4. i = n + 1 \/ i \in 1 .. n
    OBVIOUS
  <2> QED
    BY <2>2, <2>3, <2>4
<1>8. Append(s, x) \in Seq(Hash)
  OBVIOUS
<1>9. t = Append(s, x)
  <2>1. PICK w \in Seq(Hash) : w = Append(s, x)
    BY <1>8
  <2>2. Len(t) = Len(w) /\ \A i \in 1 .. Len(t) : t[i] = w[i]
    BY <1>5, <1>6, <1>7, <2>1
  <2> QED
    BY <2>1, <2>2
<1> QED
  BY <1>1, <1>2, <1>3, <1>4, <1>9

(* A transaction of Home leaves the tree or appends one leaf. *)
LEMMA TreeChanges ==
  ASSUME IndInv, Next
  PROVE  \/ tree' = tree
         \/ Len(tree) < MAX_LEAVES /\ \E e \in Leaf : tree' = Append(tree, e)
<1>1. CASE Dispatch
  <2>1. PICK d \in Domains, b \in Bodies : dispatch(d, b)
    BY <1>1 DEF Dispatch
  <2>2. Len(tree) < MAX_LEAVES /\ tree' = Append(tree, formatMessage(nonces[d], d, b))
    BY <2>1, FullTreeAssumption DEF dispatch, canInsert
  <2>3. formatMessage(nonces[d], d, b) \in Leaf
    BY DEF formatMessage, Leaf, IndInv, TypeOK
  <2> QED
    BY <2>2, <2>3
<1>2. CASE Update
  BY <1>2 DEF Update, update, improperUpdate, fail, commit, rootVars
<1>3. CASE ReportImproperUpdate
  BY <1>3 DEF ReportImproperUpdate, improperUpdate, fail, rootVars
<1>4. CASE ReportDoubleUpdate
  BY <1>4 DEF ReportDoubleUpdate, doubleUpdate, fail, rootVars
<1>5. CASE Configure
  BY <1>5 DEF Configure, setUpdaterManager, setHome, setUpdater, rootVars
<1> QED
  BY <1>1, <1>2, <1>3, <1>4, <1>5 DEF Next

(* The invariant.  What is stored is the tree of the messages, the roots   *)
(* recorded are those of its first leaves, and the prover has the tree     *)
(* that create makes of some of them.                                      *)
StoredInv == Stores(stored, hashes(tree))

RootsInv ==
  /\ roots \in Seq({reference(s) : s \in Seq(Hash)})
  /\ Len(roots) = Len(tree)
  /\ \A n \in 1 .. Len(tree) : roots[n] = reference(SubSeq(hashes(tree), 1, n))

ProverInv == \E n \in 0 .. Len(tree) : prover = grownTo(tree, n)

TreeInv == IndInv /\ StoredInv /\ RootsInv /\ ProverInv

(* The initial states. *)
LEMMA InitTreeInv == TreeInit => TreeInv
<1> SUFFICES ASSUME TreeInit PROVE TreeInv
  OBVIOUS
<1>1. IndInv
  BY InitIndInv DEF TreeInit
<1>2. tree = << >> /\ stored = emptyTree /\ roots = << >> /\ prover = noLeaves
  BY DEF TreeInit, Init, InitRoots
<1>3. hashes(tree) = << >>
  <2>1. tree \in Seq(Leaf) /\ Len(tree) = 0
    BY <1>2
  <2>2. hashes(tree) \in Seq(Hash) /\ Len(hashes(tree)) = 0
    BY <2>1, HashesOf
  <2> QED
    BY <2>2
<1>4. StoredInv
  BY <1>2, <1>3, EmptyStores DEF StoredInv
<1>5. RootsInv
  BY <1>2 DEF RootsInv
<1>6. ProverInv
  <2>1. 0 \in 0 .. Len(tree) /\ prover = grownTo(tree, 0)
    BY <1>2, GrownToNothing
  <2> QED
    BY <2>1 DEF ProverInv
<1> QED
  BY <1>1, <1>4, <1>5, <1>6 DEF TreeInv

(* What the invariant says of the leaves. *)
LEMMA TreeSize ==
  ASSUME TreeInv
  PROVE  tree \in Seq(Leaf) /\ Len(tree) \in Nat /\ Len(tree) <= MAX_LEAVES
BY FullTreeAssumption DEF TreeInv, IndInv, TypeOK

(* A leaf more is inserted into what is stored. *)
LEMMA AppendTreeInv ==
  ASSUME TreeInv, IndInv', NEW e \in Leaf, Len(tree) < MAX_LEAVES, tree' = Append(tree, e),
         stored' = insert(stored, <<e>>), roots' = Append(roots, rootWithCtx(stored')),
         prover' = prover
  PROVE  TreeInv'
<1>1. PICK n \in Nat : n = Len(tree) /\ n + 1 <= MAX_LEAVES
  BY TreeSize, Capacity
<1>2. PICK s \in Seq(Hash) : s = hashes(tree) /\ Len(s) = n
  BY <1>1, TreeSize, HashesOf
<1>3. PICK x \in Hash : x = <<e>>
  BY DEF Hash
<1>4. PICK r \in Seq(Hash) : r = Append(s, x) /\ Len(r) = n + 1
  <2>1. Append(s, x) \in Seq(Hash) /\ Len(Append(s, x)) = n + 1
    BY <1>2
  <2> QED
    BY <2>1
<1>5. hashes(Append(tree, e)) = r
  BY <1>2, <1>3, <1>4, TreeSize, HashesAppend
<1>6. hashes(tree') = r
  BY <1>5
<1>7. Stores(stored', r)
  <2>1. Stores(stored, s) /\ Len(s) < MAX_LEAVES
    BY <1>1, <1>2 DEF TreeInv, StoredInv
  <2>2. PICK t : t = stored
    OBVIOUS
  <2>3. Stores(insert(t, x), Append(s, x))
    BY <2>1, <2>2, InsertStores
  <2> QED
    BY <1>3, <1>4, <2>2, <2>3
<1>8. rootWithCtx(stored') = reference(r)
  <2>1. PICK t : t = stored'
    OBVIOUS
  <2>2. Stores(t, r) /\ Len(r) <= MAX_LEAVES
    BY <1>1, <1>4, <1>7, <2>1
  <2>3. rootWithCtx(t) = reference(r)
    BY <2>2, StoredRoot
  <2> QED
    BY <2>1, <2>3
<1>9. \A k \in 0 .. n : SubSeq(r, 1, k) = SubSeq(s, 1, k)
  BY <1>2, <1>4, FirstLeaves
<1>10. SubSeq(r, 1, n + 1) = r
  BY <1>4, FirstLeaves
<1>11. Len(tree') = n + 1
  BY <1>1, TreeSize
<1>12. StoredInv'
  BY <1>6, <1>7 DEF StoredInv
<1>13. RootsInv'
  <2> DEFINE T == {reference(q) : q \in Seq(Hash)}
  <2>1. roots \in Seq(T) /\ Len(roots) = n /\ \A k \in 1 .. n : roots[k] = reference(SubSeq(s, 1, k))
    BY <1>1, <1>2 DEF TreeInv, RootsInv
  <2>2. PICK y \in T : y = reference(r)
    OBVIOUS
  <2> HIDE DEF T
  <2>3. roots' = Append(roots, y)
    BY <1>8, <2>2
  <2>4. roots' \in Seq(T) /\ Len(roots') = n + 1
    BY <2>1, <2>3
  <2>5. ASSUME NEW k \in 1 .. n + 1 PROVE roots'[k] = reference(SubSeq(r, 1, k))
    <3>1. CASE k = n + 1
      <4>1. roots'[k] = y
        BY <2>1, <2>3, <3>1
      <4> QED
        BY <1>10, <2>2, <3>1, <4>1
    <3>2. CASE k \in 1 .. n
      <4>1. roots'[k] = roots[k]
        BY <2>1, <2>3, <3>2
      <4>2. SubSeq(r, 1, k) = SubSeq(s, 1, k)
        <5>1. k \in 0 .. n
          BY <3>2
        <5> QED
          BY <1>9, <5>1
      <4> QED
        BY <2>1, <3>2, <4>1, <4>2
    <3>3. k = n + 1 \/ k \in 1 .. n
      OBVIOUS
    <3> QED
      BY <3>1, <3>2, <3>3
  <2> QED
    BY <1>6, <1>11, <2>4, <2>5 DEF RootsInv, T
<1>14. ProverInv'
  <2>1. PICK k \in 0 .. n : prover = grownTo(tree, k)
    BY <1>1 DEF TreeInv, ProverInv
  <2>2. prover = [count |-> k, tree |-> create(SubSeq(s, 1, k), TREE_DEPTH)]
    BY <1>2, <2>1 DEF grownTo
  <2>3. prover' = [count |-> k, tree |-> create(SubSeq(r, 1, k), TREE_DEPTH)]
    BY <1>9, <2>2
  <2>4. k \in 0 .. Len(tree')
    BY <1>11
  <2> QED
    BY <1>6, <2>3, <2>4 DEF ProverInv, grownTo
<1> QED
  BY <1>12, <1>13, <1>14 DEF TreeInv

(* A step that leaves the contract to itself. *)
LEMMA ProverTreeInv ==
  ASSUME TreeInv, UNCHANGED homeTreeVars, ProverInv
  PROVE  IndInv' /\ StoredInv' /\ RootsInv'
<1>1. IndInv'
  <2>1. IndInv /\ UNCHANGED vars
    BY DEF TreeInv, homeTreeVars
  <2> QED
    BY <2>1, NextIndInv
<1>2. tree' = tree /\ stored' = stored /\ roots' = roots
  BY DEF homeTreeVars, vars, rootVars
<1> QED
  BY <1>1, <1>2 DEF TreeInv, StoredInv, RootsInv

(* Every step. *)
LEMMA NextTreeInv == TreeInv /\ [TreeNext]_treeVars => TreeInv'
<1> SUFFICES ASSUME TreeInv, [TreeNext]_treeVars PROVE TreeInv'
  OBVIOUS
<1> USE TreeSize
<1>1. CASE HomeStep
  <2>1. IndInv'
    BY <1>1, NextIndInv DEF TreeInv, HomeStep
  <2>2. CASE tree' = tree /\ UNCHANGED <<stored, roots, prover>>
    <3>1. StoredInv' /\ RootsInv' /\ ProverInv'
      BY <2>2 DEF TreeInv, StoredInv, RootsInv, ProverInv
    <3> QED
      BY <2>1, <3>1 DEF TreeInv
  <2>3. CASE /\ tree' # tree
             /\ stored' = insert(stored, <<tree'[Len(tree')]>>)
             /\ roots' = Append(roots, rootWithCtx(stored'))
             /\ prover' = prover
    <3>1. PICK e \in Leaf : tree' = Append(tree, e) /\ Len(tree) < MAX_LEAVES
      BY <1>1, <2>3, TreeChanges DEF TreeInv, HomeStep
    <3>2. tree'[Len(tree')] = e
      BY <3>1
    <3> QED
      BY <2>1, <2>3, <3>1, <3>2, AppendTreeInv
  <2> QED
    BY <1>1, <2>2, <2>3 DEF HomeStep
<1>2. PICK c \in 0 .. Len(tree) : prover = grownTo(tree, c)
  BY DEF TreeInv, ProverInv
<1>3. ASSUME UNCHANGED homeTreeVars, NEW n \in 0 .. Len(tree), prover' = grownTo(tree, n)
      PROVE  TreeInv'
  <2>1. IndInv' /\ StoredInv' /\ RootsInv'
    BY <1>3, ProverTreeInv DEF TreeInv
  <2>2. tree' = tree
    BY <1>3 DEF homeTreeVars, vars, rootVars
  <2>3. prover' = grownTo(tree', n) /\ n \in 0 .. Len(tree')
    BY <1>3, <2>2
  <2>4. ProverInv'
    BY <2>3 DEF ProverInv
  <2> QED
    BY <2>1, <2>4 DEF TreeInv
<1>4. ASSUME NEW k \in 0 .. Len(tree), NEW newRoot,
             prover' = ingestUntil(grownTo(tree, k), newRoot), UNCHANGED homeTreeVars
      PROVE  TreeInv'
  <2>1. PICK n \in k .. Len(tree) : ingestUntil(grownTo(tree, k), newRoot) = grownTo(tree, n)
    BY IngestUntilGrows
  <2>2. n \in 0 .. Len(tree)
    OBVIOUS
  <2> QED
    BY <1>3, <1>4, <2>1, <2>2
<1>5. CASE UpdateProverTree
  <2>1. PICK n : prover' = ingestUntil(prover, roots[n])
    BY <1>5 DEF UpdateProverTree
  <2>2. UNCHANGED homeTreeVars
    BY <1>5 DEF UpdateProverTree
  <2>3. prover' = ingestUntil(grownTo(tree, c), roots[n])
    BY <1>2, <2>1
  <2> QED
    BY <1>4, <2>2, <2>3
<1>6. CASE StoreLatestCommitted
  BY <1>2, <1>3, <1>6 DEF StoreLatestCommitted
<1>7. CASE Restart
  <2>1. UNCHANGED homeTreeVars
    BY <1>7 DEF Restart
  <2>2. noLeaves = grownTo(tree, 0) /\ 0 \in 0 .. Len(tree)
    BY GrownToNothing
  <2>3. CASE latestCommitted = << >>
    BY <1>3, <1>7, <2>1, <2>2, <2>3 DEF Restart
  <2>4. CASE latestCommitted # << >>
    <3>1. prover' = ingestUntil(grownTo(tree, 0), latestCommitted)
      BY <1>7, <2>2, <2>4 DEF Restart
    <3> QED
      BY <1>4, <2>1, <2>2, <3>1
  <2> QED
    BY <2>3, <2>4
<1>8. CASE UNCHANGED treeVars
  <2>1. UNCHANGED homeTreeVars /\ prover' = prover
    BY <1>8 DEF treeVars
  <2> QED
    BY <1>2, <1>3, <2>1
<1> QED
  BY <1>1, <1>5, <1>6, <1>7, <1>8 DEF TreeNext

(***************************************************************************)
(* The theorems about the tree of Home and the prover                      *)
(***************************************************************************)

(* The invariant of the specification. *)
LEMMA SpecTreeInv == TreeSpec => []TreeInv
BY InitTreeInv, NextTreeInv, PTL DEF TreeSpec

(* Home with its stored tree does to everything else what Home does with   *)
(* a sequence of leaves: what is proved of Home is true of it.             *)
THEOREM HomeTreeIsHome == TreeSpec => Spec
<1>1. TreeInit => Init
  BY DEF TreeInit
<1>2. [TreeNext]_treeVars => [Next]_vars
  BY DEF TreeNext, HomeStep, UpdateProverTree, StoreLatestCommitted, Restart, treeVars, homeTreeVars
<1> QED
  BY <1>1, <1>2, PTL DEF TreeSpec, Spec

(* The root that Home computes from the one hash per level that it stores  *)
(* is that of all its messages.                                            *)
THEOREM HomeTreeStoresMessages == TreeSpec => [](rootWithCtx(stored) = merkleRoot(tree))
<1>1. TreeInv => rootWithCtx(stored) = merkleRoot(tree)
  <2> SUFFICES ASSUME TreeInv PROVE rootWithCtx(stored) = merkleRoot(tree)
    OBVIOUS
  <2>1. PICK s \in Seq(Hash) : s = hashes(tree) /\ Len(s) <= MAX_LEAVES
    BY TreeSize, HashesOf
  <2>2. PICK t : t = stored
    OBVIOUS
  <2>3. Stores(t, s)
    BY <2>1, <2>2 DEF TreeInv, StoredInv
  <2>4. rootWithCtx(t) = reference(s)
    BY <2>1, <2>3, StoredRoot
  <2>5. rootWithCtx(insertAll(s)) = reference(s)
    BY <2>1, MerkleRootIsReference
  <2> QED
    BY <2>1, <2>2, <2>4, <2>5 DEF merkleRoot
<1> QED
  BY <1>1, SpecTreeInv, PTL

(* As long as there is room, insert does not come to the assertion after   *)
(* its loop.                                                               *)
THEOREM HomeTreeInsertReturns == TreeSpec => [](canInsert => insertReturns(stored))
<1>1. TreeInv => (canInsert => insertReturns(stored))
  <2> SUFFICES ASSUME TreeInv, canInsert PROVE insertReturns(stored)
    OBVIOUS
  <2>1. PICK s \in Seq(Hash) : s = hashes(tree) /\ Len(s) < MAX_LEAVES
    BY TreeSize, HashesOf, FullTreeAssumption DEF canInsert
  <2>2. PICK t : t = stored
    OBVIOUS
  <2>3. Stores(t, s)
    BY <2>1, <2>2 DEF TreeInv, StoredInv
  <2>4. PICK S : S = Hash \cup {<<0>>}
    OBVIOUS
  <2>5. s \in Seq(S) /\ <<0>> \in S
    BY <2>4
  <2>6. insertReturns(t)
    BY <2>1, <2>3, <2>5, InsertStores
  <2> QED
    BY <2>2, <2>6
<1> QED
  BY <1>1, SpecTreeInv, PTL

(* The proofs that the processor makes are those the contract takes to the *)
(* root Home had with as many leaves, each for its leaf at its index, and  *)
(* for no other leaf, index or root.                                       *)
THEOREM HomeTreeProofsProve == TreeSpec => []ProofsProve
<1>1. TreeInv => ProofsProve
  <2> SUFFICES ASSUME TreeInv, NEW i \in 0 .. prover.count - 1,
                      NEW j \in 0 .. MAX_LEAVES, NEW l \in DOMAIN tree, NEW n \in DOMAIN roots
               PROVE  branchRoot(leafHash(l), prove(prover, i), j) = roots[n]
                        <=> n = prover.count /\ j = i /\ l = i + 1
    BY Zenon DEF ProofsProve
  <2>1. PICK s \in Seq(Hash) : /\ s = hashes(tree) /\ Len(s) = Len(tree) /\ Len(s) <= MAX_LEAVES
                               /\ \A k \in DOMAIN tree : s[k] = <<tree[k]>>
    BY TreeSize, HashesOf
  <2>2. PICK c \in 0 .. Len(s) : prover = grownTo(tree, c)
    BY <2>1 DEF TreeInv, ProverInv
  <2>3. prover.count = c /\ prover.tree = create(SubSeq(s, 1, c), TREE_DEPTH)
    BY <2>1, <2>2 DEF grownTo
  <2>4. i \in 0 .. c - 1 /\ i \in 0 .. MAX_LEAVES
    BY <2>1, <2>3, Capacity
  <2>5. PICK u \in Seq(Hash) : u = SubSeq(s, 1, c) /\ Len(u) = c /\ \A p \in 1 .. c : u[p] = s[p]
    BY FirstLeaves
  <2>6. prove(prover, i) = siblings(u, i)
    <3>1. generate_proof(create(u, TREE_DEPTH), i, TREE_DEPTH) = siblings(u, i)
      BY <2>4, <2>5, ProofIsSiblings
    <3> QED
      BY <2>3, <2>5, <3>1 DEF prove
  <2>7. n \in 1 .. Len(s) /\ n \in 0 .. Len(s) /\ roots[n] = reference(SubSeq(s, 1, n))
    BY <2>1 DEF TreeInv, RootsInv
  <2>8. PICK x \in Hash : x = leafHash(l) /\ x = s[l]
    <3>1. l \in DOMAIN s
      BY <2>1, TreeSize
    <3>2. s[l] \in Hash
      BY <3>1
    <3>3. leafHash(l) = s[l]
      BY Zenon, <2>1 DEF leafHash
    <3> QED
      BY <3>2, <3>3
  <2>9. << >> \notin Hash
    BY DEF Hash
  <2>10. \A a, b \in DOMAIN s : s[a] = s[b] => a = b
    <3> SUFFICES ASSUME NEW a \in DOMAIN s, NEW b \in DOMAIN s, s[a] = s[b] PROVE a = b
      OBVIOUS
    <3>1. a \in DOMAIN tree /\ b \in DOMAIN tree
      BY <2>1, TreeSize
    <3>2. tree[a] = tree[b]
      BY <2>1, <3>1
    <3> QED
      BY <3>1, <3>2 DEF TreeInv, IndInv, DistinctNonces
  <2>11. ASSUME branchRoot(x, siblings(u, i), j) = reference(SubSeq(s, 1, n))
         PROVE  n = c /\ j = i /\ l = i + 1
    <3>1. branchRoot(x, siblings(SubSeq(s, 1, c), i), j) = reference(SubSeq(s, 1, n))
      BY <2>5, <2>11
    <3>2. n = c /\ j = i /\ x = s[i + 1]
      BY <2>1, <2>4, <2>7, <2>9, <2>10, <3>1, ProofIsUnique
    <3>3. l \in DOMAIN s /\ i + 1 \in DOMAIN s
      BY <2>1, <2>4, TreeSize
    <3> QED
      BY <2>8, <2>10, <3>2, <3>3
  <2>12. ASSUME n = c, j = i, l = i + 1
         PROVE  branchRoot(x, siblings(u, i), j) = reference(SubSeq(s, 1, n))
    <3>1. nodes(u)[0][i] = x
      <4>1. nodes(u)[0][i] = IF i < Len(u) THEN u[i + 1] ELSE << >>
        <5>1. i \in Nat
          BY <2>4
        <5> QED
          BY <5>1, Nodes
      <4>2. i < c /\ i + 1 \in 1 .. c
        BY <2>4
      <4> QED
        BY <2>5, <2>8, <2>12, <4>1, <4>2
    <3>2. branchRoot(nodes(u)[0][i], siblings(u, i), i) = reference(u)
      BY <2>4, BranchIsComplete
    <3> QED
      BY <2>5, <2>12, <3>1, <3>2
  <2> QED
    BY <2>3, <2>6, <2>7, <2>8, <2>11, <2>12
<1> QED
  BY <1>1, SpecTreeInv, PTL
=============================================================================

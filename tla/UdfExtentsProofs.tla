-------------------------- MODULE UdfExtentsProofs --------------------------
(***************************************************************************)
(* Proofs about UdfExtents, for every disc, sector and transfer size: what *)
(* a read has collected is, at each of its steps, the bytes of the file    *)
(* from the first that is wanted up to where it has come.                  *)
(***************************************************************************)
EXTENDS UdfExtents, VectorsProofs

-----------------------------------------------------------------------------
(* Division with remainder *)

\* Quotient and remainder, and that a number is made of them.
LEMMA Divided ==
    ASSUME NEW a \in Nat, NEW s \in Nat \ {0}
    PROVE  /\ a \div s \in Nat
           /\ a % s \in 0..s - 1
           /\ (a \div s) * s \in Nat
           /\ a = (a \div s) * s + (a % s)
<1>1. a \div s \in Nat
  OBVIOUS
<1>2. a % s \in 0..s - 1
  OBVIOUS
<1>3. a = (a \div s) * s + (a % s)
  OBVIOUS
<1>4. (a \div s) * s \in Nat
  BY <1>1
<1>5. QED
  BY <1>1, <1>2, <1>3, <1>4

\* A product is divided by its factor.
LEMMA ProductDivided ==
    ASSUME NEW q \in Nat, NEW s \in Nat \ {0}
    PROVE  q * s \in Nat /\ (q * s) \div s = q /\ (q * s) % s = 0
OBVIOUS

\* A number without remainder is a product.
LEMMA IsProduct ==
    ASSUME NEW a \in Nat, NEW s \in Nat \ {0}, a % s = 0
    PROVE  \E q \in Nat : a = q * s
<1> DEFINE q == a \div s
<1>1. q \in Nat /\ q * s \in Nat /\ a = q * s + (a % s)
  BY Divided
<1> HIDE DEF q
<1>2. a = q * s
  BY <1>1
<1>3. QED
  BY <1>1, <1>2

\* Sums of whole sectors are whole sectors.
LEMMA SumDivided ==
    ASSUME NEW a \in Nat, NEW b \in Nat, NEW s \in Nat \ {0}, a % s = 0, b % s = 0
    PROVE  (a + b) % s = 0
<1>1. PICK p \in Nat : a = p * s
  BY IsProduct
<1>2. PICK q \in Nat : b = q * s
  BY IsProduct
<1>3. p * s + q * s = (p + q) * s
  OBVIOUS
<1>4. QED
  BY <1>1, <1>2, <1>3, ProductDivided

\* Of two numbers of whole sectors the greater is a sector greater.
LEMMA SectorGreater ==
    ASSUME NEW a \in Nat, NEW b \in Nat, NEW s \in Nat \ {0}, a % s = 0, b % s = 0, a < b
    PROVE  a + s <= b
<1>1. PICK p \in Nat : a = p * s
  BY IsProduct
<1>2. PICK q \in Nat : b = q * s
  BY IsProduct
<1>3. p < q
  BY <1>1, <1>2
<1>4. (p + 1) * s <= q * s
  BY <1>3
<1>5. QED
  BY <1>1, <1>2, <1>4

\* div_ceil: the whole sectors that cover a number of bytes.
LEMMA Covered ==
    ASSUME NEW a \in Nat, NEW s \in Nat \ {0}
    PROVE  LET t == ((a + s - 1) \div s) * s
           IN  t \in Nat /\ a <= t /\ t < a + s /\ t % s = 0
<1> DEFINE q == (a + s - 1) \div s
           r == (a + s - 1) % s
<1>1. a + s - 1 \in Nat
  OBVIOUS
<1>2. q \in Nat /\ r \in 0..s - 1 /\ q * s \in Nat /\ a + s - 1 = q * s + r
  BY <1>1, Divided
<1>3. (q * s) % s = 0
  BY <1>2, ProductDivided
<1> HIDE DEF q, r
<1>4. a <= q * s /\ q * s < a + s
  BY <1>2
<1>5. QED
  BY <1>2, <1>3, <1>4 DEF q

-----------------------------------------------------------------------------
(* LengthOf and At, by induction over the runs *)

\* One step of the recursion that LengthOf is defined by.
LengthRule(exts, f, k) == IF k = 0 THEN 0 ELSE f[k - 1] + exts[k][2]

\* The recursion of LengthOf has a solution.
LEMMA LengthExists ==
    ASSUME NEW exts, Len(exts) \in Nat
    PROVE  \E f : f = [k \in 0..Len(exts) |-> LengthRule(exts, f, k)]
<1> DEFINE Solves(f, n) == f = [k \in 0..n |-> LengthRule(exts, f, k)]
           T == {n \in Nat : \E f : Solves(f, n)}
<1>1. \E f : Solves(f, 0)
  <2>1. Solves([k \in 0..0 |-> 0], 0)
    BY DEF LengthRule
  <2>2. QED
    BY <2>1
<1>2. ASSUME NEW n \in Nat, NEW f, Solves(f, n)
      PROVE  \E g : Solves(g, n + 1)
  <2> DEFINE g == [k \in 0..n+1 |-> LengthRule(exts, f, k)]
  <2>1. ASSUME NEW k \in 0..n+1 PROVE g[k] = LengthRule(exts, g, k)
    <3>1. g[k] = LengthRule(exts, f, k)
      OBVIOUS
    <3>2. CASE k = 0
      BY <3>1, <3>2 DEF LengthRule
    <3>3. CASE k # 0
      <4>1. k - 1 \in 0..n
        BY <3>3
      <4>2. f[k - 1] = LengthRule(exts, f, k - 1)
        BY <1>2, <4>1
      <4>3. g[k - 1] = LengthRule(exts, f, k - 1)
        BY <4>1
      <4>4. QED
        BY <3>1, <4>2, <4>3 DEF LengthRule
    <3>4. QED
      BY <3>2, <3>3
  <2>2. g = [k \in 0..n+1 |-> g[k]]
    OBVIOUS
  <2> HIDE DEF g
  <2>3. Solves(g, n + 1)
    BY <2>1, <2>2
  <2>4. QED
    BY <2>3
<1> HIDE DEF Solves
<1>3. 0 \in T /\ \A n \in T : n + 1 \in T
  BY <1>1, <1>2
<1>4. T = Nat
  <2>1. T \in SUBSET Nat
    OBVIOUS
  <2> HIDE DEF T
  <2>2. QED
    BY <1>3, <2>1, Induction
<1>5. QED
  BY <1>4 DEF Solves

Runs == Seq(Nat \X Nat)

\* The length of the first runs is the sum of their lengths.
LEMMA LengthFacts ==
    ASSUME NEW exts \in Runs
    PROVE  /\ LengthOf(exts, 0) = 0
           /\ \A k \in 1..Len(exts) : LengthOf(exts, k) = LengthOf(exts, k - 1) + exts[k][2]
           /\ \A k \in 0..Len(exts) : LengthOf(exts, k) \in Nat
<1> DEFINE F == CHOOSE f : f = [k \in 0..Len(exts) |-> LengthRule(exts, f, k)]
           T == {n \in Nat : n <= Len(exts) => F[n] \in Nat}
<1>1. \A k : LengthOf(exts, k) = F[k]
  BY DEF LengthOf, LengthRule
<1>2. F = [k \in 0..Len(exts) |-> LengthRule(exts, F, k)]
  BY LengthExists DEF Runs
<1> HIDE DEF F
<1>3. F[0] = 0
  BY <1>2 DEF LengthRule, Runs
<1>4. ASSUME NEW k \in 1..Len(exts) PROVE F[k] = F[k - 1] + exts[k][2]
  <2>1. k \in 0..Len(exts) /\ k # 0
    OBVIOUS
  <2>2. F[k] = LengthRule(exts, F, k)
    BY <1>2, <2>1
  <2>3. QED
    BY <2>1, <2>2 DEF LengthRule
<1>5. 0 \in T /\ \A n \in T : n + 1 \in T
  <2>1. ASSUME NEW n \in Nat, n + 1 <= Len(exts), F[n] \in Nat PROVE F[n + 1] \in Nat
    <3>1. n + 1 \in 1..Len(exts) /\ (n + 1) - 1 = n
      BY <2>1 DEF Runs
    <3>2. exts[n + 1][2] \in Nat
      BY <3>1 DEF Runs
    <3>3. QED
      BY <1>4, <2>1, <3>1, <3>2
  <2>2. \A n \in Nat : n + 1 <= Len(exts) => n <= Len(exts)
    BY DEF Runs
  <2>3. QED
    BY <1>3, <2>1, <2>2
<1>6. T = Nat
  <2>1. T \in SUBSET Nat
    OBVIOUS
  <2> HIDE DEF T
  <2>2. QED
    BY <1>5, <2>1, Induction
<1>7. \A k \in 0..Len(exts) : F[k] \in Nat
  BY <1>6 DEF Runs
<1>8. QED
  BY <1>1, <1>3, <1>4, <1>7

\* The length of more runs is not less.
LEMMA LengthGrows ==
    ASSUME NEW exts \in Runs, NEW i \in 0..Len(exts), NEW j \in i..Len(exts)
    PROVE  LengthOf(exts, i) <= LengthOf(exts, j)
<1> DEFINE T == {n \in Nat : n \in i..Len(exts) => LengthOf(exts, i) <= LengthOf(exts, n)}
<1>1. Len(exts) \in Nat
  BY DEF Runs
<1>2. 0 \in T
  BY <1>1, LengthFacts
<1>3. ASSUME NEW n \in T PROVE n + 1 \in T
  <2> SUFFICES ASSUME n + 1 \in i..Len(exts)
               PROVE  LengthOf(exts, i) <= LengthOf(exts, n + 1)
    OBVIOUS
  <2>1. LengthOf(exts, i) \in Nat /\ LengthOf(exts, n + 1) \in Nat
    BY <1>1, LengthFacts
  <2>2. CASE n + 1 = i
    BY <2>1, <2>2
  <2>3. CASE n \in i..Len(exts)
    <3>1. n + 1 \in 1..Len(exts) /\ (n + 1) - 1 = n /\ n \in 0..Len(exts)
      BY <1>1, <2>3
    <3>2. exts[n + 1][2] \in Nat
      BY <3>1 DEF Runs
    <3>3. LengthOf(exts, n + 1) = LengthOf(exts, n) + exts[n + 1][2] /\ LengthOf(exts, n) \in Nat
      BY <3>1, LengthFacts
    <3>4. LengthOf(exts, i) <= LengthOf(exts, n)
      BY <2>3
    <3>5. QED
      BY <2>1, <3>2, <3>3, <3>4
  <2>4. QED
    BY <1>1, <2>2, <2>3
<1>4. T = Nat
  <2>1. T \in SUBSET Nat
    OBVIOUS
  <2> HIDE DEF T
  <2>2. QED
    BY <1>2, <1>3, <2>1, Induction
<1>5. QED
  BY <1>1, <1>4

\* Items of a run are found in that run.
LEMMA AtRun ==
    ASSUME NEW runs \in Runs, NEW i \in DOMAIN runs, NEW r \in Nat, r < runs[i][2]
    PROVE  At(runs, LengthOf(runs, i - 1) + r) = [run |-> i, off |-> r]
<1> DEFINE k == LengthOf(runs, i - 1) + r
           Has(j) == LengthOf(runs, j - 1) <= k /\ k < LengthOf(runs, j)
<1>1. i \in 1..Len(runs) /\ Len(runs) \in Nat /\ DOMAIN runs = 1..Len(runs)
  BY DEF Runs
<1>2. /\ LengthOf(runs, i - 1) \in Nat
      /\ LengthOf(runs, i) = LengthOf(runs, i - 1) + runs[i][2]
      /\ runs[i][2] \in Nat
  <2>1. i - 1 \in 0..Len(runs)
    BY <1>1
  <2>2. runs[i] \in Nat \X Nat
    BY <1>1 DEF Runs
  <2>3. LengthOf(runs, i) = LengthOf(runs, i - 1) + runs[i][2]
    BY <1>1, LengthFacts
  <2>4. LengthOf(runs, i - 1) \in Nat
    BY <2>1, LengthFacts
  <2>5. QED
    BY <2>2, <2>3, <2>4
<1>3. Has(i)
  BY <1>2
<1>4. ASSUME NEW j \in DOMAIN runs, Has(j) PROVE j = i
  <2>1. j - 1 \in 0..Len(runs) /\ j \in 0..Len(runs) /\ i - 1 \in 0..Len(runs) /\ i \in 0..Len(runs)
    BY <1>1
  <2>2. LengthOf(runs, j - 1) \in Nat /\ LengthOf(runs, j) \in Nat /\ LengthOf(runs, i) \in Nat
    BY <2>1, LengthFacts
  <2>3. CASE j < i
    <3>1. i - 1 \in j..Len(runs)
      BY <1>1, <2>3
    <3>2. LengthOf(runs, j) <= LengthOf(runs, i - 1)
      BY <2>1, <3>1, LengthGrows
    <3>3. QED
      BY <1>2, <1>4, <2>2, <3>2
  <2>4. CASE i < j
    <3>1. j - 1 \in i..Len(runs)
      BY <1>1, <2>4
    <3>2. LengthOf(runs, i) <= LengthOf(runs, j - 1)
      BY <2>1, <3>1, LengthGrows
    <3>3. QED
      BY <1>2, <1>4, <2>2, <3>2
  <2>5. QED
    BY <1>1, <2>3, <2>4
<1>5. (CHOOSE j \in DOMAIN runs : Has(j)) = i
  <2> HIDE DEF Has
  <2>1. QED
    BY <1>3, <1>4
<1>6. k - LengthOf(runs, i - 1) = r
  BY <1>2
<1>7. QED
  BY <1>5, <1>6 DEF At

\* A function on 1..n is a sequence.
LEMMA IsSequence ==
    ASSUME NEW S, NEW n \in Nat, NEW f \in [1..n -> S]
    PROVE  f \in Seq(S) /\ Len(f) = n
OBVIOUS

-----------------------------------------------------------------------------
(* The metadata partition: slots counted in bytes and in sectors *)

SlotsOf(runs) == [i \in DOMAIN runs |-> <<runs[i][1], runs[i][2] \div SECTOR>>]

\* Runs of whole sectors are as long as their sectors.
LEMMA SlotLengths ==
    ASSUME NEW runs \in Runs, \A i \in DOMAIN runs : runs[i][2] % SECTOR = 0
    PROVE  /\ SlotsOf(runs) \in Runs
           /\ \A k \in 0..Len(runs) : LengthOf(runs, k) = LengthOf(SlotsOf(runs), k) * SECTOR
<1> DEFINE slots == SlotsOf(runs)
           T == {n \in Nat : n <= Len(runs) => LengthOf(runs, n) = LengthOf(slots, n) * SECTOR}
<1>1. SECTOR \in Nat \ {0}
  BY SizesAssumption
<1>2. Len(runs) \in Nat /\ DOMAIN runs = 1..Len(runs)
  BY DEF Runs
<1>3. ASSUME NEW i \in 1..Len(runs)
      PROVE  /\ slots[i] \in Nat \X Nat
             /\ slots[i][2] * SECTOR = runs[i][2]
  <2>1. runs[i] \in Nat \X Nat
    BY <1>2 DEF Runs
  <2>2. runs[i][1] \in Nat /\ runs[i][2] \in Nat
    BY <2>1
  <2>3. PICK q \in Nat : runs[i][2] = q * SECTOR
    BY <1>1, <1>2, <2>2, IsProduct
  <2>4. runs[i][2] \div SECTOR = q
    BY <1>1, <2>3, ProductDivided
  <2>5. slots[i] = <<runs[i][1], q>>
    BY <1>2, <2>4 DEF SlotsOf
  <2>6. QED
    BY <2>2, <2>3, <2>5
<1>4. slots \in Runs /\ Len(slots) = Len(runs)
  <2>1. DOMAIN slots = 1..Len(runs) /\ slots = [i \in 1..Len(runs) |-> slots[i]]
    BY <1>2 DEF SlotsOf
  <2> HIDE DEF slots
  <2>2. slots \in [1..Len(runs) -> Nat \X Nat]
    BY <1>3, <2>1
  <2>3. QED
    BY <1>2, <2>2, IsSequence DEF Runs
<1> HIDE DEF slots
<1>5. 0 \in T
  BY <1>1, <1>4, LengthFacts
<1>6. ASSUME NEW n \in Nat, n + 1 <= Len(runs), LengthOf(runs, n) = LengthOf(slots, n) * SECTOR
      PROVE  LengthOf(runs, n + 1) = LengthOf(slots, n + 1) * SECTOR
  <2>1. n + 1 \in 1..Len(runs) /\ (n + 1) - 1 = n /\ n \in 0..Len(runs)
    BY <1>2, <1>6
  <2>2. LengthOf(runs, n + 1) = LengthOf(runs, n) + runs[n + 1][2]
    BY <2>1, LengthFacts
  <2>3. LengthOf(slots, n + 1) = LengthOf(slots, n) + slots[n + 1][2] /\ LengthOf(slots, n) \in Nat
    BY <1>4, <2>1, LengthFacts
  <2>4. slots[n + 1][2] \in Nat /\ slots[n + 1][2] * SECTOR = runs[n + 1][2]
    BY <1>3, <2>1
  <2> DEFINE a == LengthOf(slots, n)
             b == slots[n + 1][2]
  <2>5. a \in Nat /\ b \in Nat
    BY <2>3, <2>4
  <2> HIDE DEF a, b
  <2>6. (a + b) * SECTOR = a * SECTOR + b * SECTOR
    BY <1>1, <2>5
  <2>7. QED
    BY <1>6, <2>2, <2>3, <2>4, <2>6 DEF a, b
<1>7. 0 \in T /\ \A n \in T : n + 1 \in T
  <2>1. \A n \in Nat : n + 1 <= Len(runs) => n <= Len(runs)
    BY <1>2
  <2>2. QED
    BY <1>5, <1>6, <2>1
<1>8. T = Nat
  <2>1. T \in SUBSET Nat
    OBVIOUS
  <2> HIDE DEF T
  <2>2. QED
    BY <1>7, <2>1, Induction
<1>9. \A k \in 0..Len(runs) : LengthOf(runs, k) = LengthOf(slots, k) * SECTOR
  BY <1>2, <1>8
<1>10. QED
  BY <1>4, <1>9 DEF slots

\* A set of numbers that is not empty has a least element.
LEMMA Least ==
    ASSUME NEW S \in SUBSET Nat, S # {}
    PROVE  \E i \in S : \A j \in S : i <= j
<1>1. PICK x \in S : \A y \in S : ~ (<<y, x>> \in OpToRel(<, Nat))
  BY NatLessThanWellFounded, WFMin
<1>2. \A y \in S : ~(y < x)
  BY <1>1 DEF OpToRel
<1>3. QED
  BY <1>2

\* What resolve computes in the metadata partition.
FirstHit(runs, off) ==
    LET hits == {i \in DOMAIN runs : off < LengthOf(runs, i)}
    IN  CHOOSE i \in hits : \A j \in hits : i <= j

\* The block that resolve finds by bytes is the one of that slot.
LEMMA HitIsSlot ==
    ASSUME NEW runs \in Runs, \A i \in DOMAIN runs : runs[i][2] % SECTOR = 0, NEW block \in Nat,
           \E i \in DOMAIN runs : block * SECTOR < LengthOf(runs, i)
    PROVE  LET i  == FirstHit(runs, block * SECTOR)
               at == At(SlotsOf(runs), block)
               s  == runs[i][1] + (block * SECTOR - LengthOf(runs, i - 1)) \div SECTOR
           IN  s \in Nat /\ s = SlotsOf(runs)[at.run][1] + at.off
<1> DEFINE slots == SlotsOf(runs)
           hits == {i \in DOMAIN runs : block * SECTOR < LengthOf(runs, i)}
           i == FirstHit(runs, block * SECTOR)
<1>1. SECTOR \in Nat \ {0}
  BY SizesAssumption
<1>2. Len(runs) \in Nat /\ DOMAIN runs = 1..Len(runs)
  BY DEF Runs
<1>3. i \in hits /\ \A j \in hits : i <= j
  <2>1. hits \in SUBSET Nat /\ hits # {}
    BY <1>2
  <2>2. \E j \in hits : \A k \in hits : j <= k
    <3> HIDE DEF hits
    <3>1. QED
      BY <2>1, Least
  <2>3. i = CHOOSE j \in hits : \A k \in hits : j <= k
    BY DEF FirstHit
  <2> HIDE DEF hits, i
  <2>4. QED
    BY <2>2, <2>3
<1>4. slots \in Runs /\ DOMAIN slots = DOMAIN runs
  BY SlotLengths DEF SlotsOf
<1>5. \A k \in 0..Len(runs) : LengthOf(runs, k) = LengthOf(slots, k) * SECTOR
  BY SlotLengths
<1>6. Len(slots) = Len(runs)
  BY <1>2, <1>4 DEF Runs
<1> HIDE DEF slots, i
<1>7. i \in 1..Len(runs) /\ i - 1 \in 0..Len(runs) /\ i \in 0..Len(runs)
  BY <1>2, <1>3
<1> DEFINE p == LengthOf(slots, i - 1)
           q == LengthOf(slots, i)
<1>8. p \in Nat /\ q \in Nat /\ q = p + slots[i][2] /\ slots[i][2] \in Nat
  <2>1. p \in Nat /\ q \in Nat
    BY <1>4, <1>6, <1>7, LengthFacts
  <2>2. q = p + slots[i][2]
    BY <1>4, <1>6, <1>7, LengthFacts
  <2>3. slots[i] \in Nat \X Nat
    BY <1>2, <1>4, <1>7 DEF Runs
  <2>4. QED
    BY <2>1, <2>2, <2>3
<1>9. LengthOf(runs, i - 1) = p * SECTOR /\ LengthOf(runs, i) = q * SECTOR
  BY <1>5, <1>7
<1>10. LengthOf(runs, i - 1) <= block * SECTOR
  <2>1. CASE i = 1
    <3>1. LengthOf(runs, i - 1) = 0
      BY <2>1, LengthFacts
    <3>2. block * SECTOR \in Nat
      BY <1>1
    <3>3. QED
      BY <3>1, <3>2
  <2>2. CASE i # 1
    <3>1. i - 1 \in DOMAIN runs /\ i - 1 < i
      BY <1>2, <1>7, <2>2
    <3>2. i - 1 \notin hits
      <4> HIDE DEF hits
      <4>1. QED
        BY <1>3, <1>7, <3>1
    <3>3. ~(block * SECTOR < LengthOf(runs, i - 1))
      BY <3>1, <3>2
    <3>4. LengthOf(runs, i - 1) \in Nat /\ block * SECTOR \in Nat
      BY <1>1, <1>7, LengthFacts
    <3>5. QED
      BY <3>3, <3>4
  <2>3. QED
    BY <2>1, <2>2
<1>11. block * SECTOR < LengthOf(runs, i)
  BY <1>3
<1> HIDE DEF p, q
<1>12. p <= block /\ block < q
  BY <1>1, <1>8, <1>9, <1>10, <1>11
<1>13. (block * SECTOR - LengthOf(runs, i - 1)) \div SECTOR = block - p /\ block - p \in Nat
  <2>1. block - p \in Nat
    BY <1>8, <1>12
  <2>2. block * SECTOR - p * SECTOR = (block - p) * SECTOR
    BY <1>1, <1>8
  <2>3. QED
    BY <1>1, <1>9, <2>1, <2>2, ProductDivided
<1>14. At(slots, block) = [run |-> i, off |-> block - p]
  <2>1. block - p < slots[i][2] /\ block = p + (block - p)
    BY <1>8, <1>12
  <2>2. i \in DOMAIN slots
    BY <1>2, <1>4, <1>7
  <2>3. At(slots, LengthOf(slots, i - 1) + (block - p)) = [run |-> i, off |-> block - p]
    BY <1>4, <1>13, <2>1, <2>2, AtRun
  <2>4. QED
    BY <2>1, <2>3 DEF p
<1>15. slots[i][1] = runs[i][1] /\ runs[i][1] \in Nat
  <2>1. runs[i] \in Nat \X Nat
    BY <1>2, <1>7 DEF Runs
  <2>2. slots[i] = <<runs[i][1], runs[i][2] \div SECTOR>>
    BY <1>2, <1>7 DEF slots, SlotsOf
  <2>3. QED
    BY <2>1, <2>2
<1>16. QED
  BY <1>13, <1>14, <1>15 DEF slots, i

-----------------------------------------------------------------------------
(* What the partition maps become *)

\* What Recorded gives, and that it changes nothing where all is recorded.
LEMMA RecordedFacts ==
    ASSUME NEW fe \in Seq(Ad)
    PROVE  /\ Recorded(fe) \in Seq(Ad)
           /\ \A i \in DOMAIN Recorded(fe) : \E j \in DOMAIN fe : Recorded(fe)[i] = fe[j]
           /\ (\A i \in DOMAIN fe : fe[i].recorded) => Recorded(fe) = fe
<1> DEFINE keep == {e \in Ad : e.recorded}
<1>1. /\ Kept(fe, keep) \in Seq(Ad)
      /\ \A e : (\E i \in DOMAIN Kept(fe, keep) : Kept(fe, keep)[i] = e)
                <=> e \in keep /\ \E i \in DOMAIN fe : fe[i] = e
  <2> HIDE DEF keep
  <2>1. QED
    BY KeptElements
<1>2. ASSUME \A i \in DOMAIN fe : fe[i].recorded PROVE Kept(fe, keep) = fe
  <2>1. \A i \in DOMAIN fe : fe[i] \in keep
    BY <1>2
  <2> HIDE DEF keep
  <2>2. QED
    BY <2>1, KeptAll
<1> HIDE DEF keep
<1>3. Recorded(fe) = Kept(fe, keep)
  BY DEF Recorded, keep
<1>4. QED
  BY <1>1, <1>2, <1>3

\* A partition descriptor that is found has a start.
LEMMA PdStartNat ==
    ASSUME layout \in Disc, NEW n, PdStart(n) # None
    PROVE  PdStart(n) \in Nat
<1> DEFINE hits == {i \in DOMAIN layout.pds : layout.pds[i].number = n}
<1>1. layout.pds \in Seq(Pd)
  BY DEF Disc
<1>2. hits # {} /\ PdStart(n) = layout.pds[CHOOSE i \in hits : \A j \in hits : i <= j].start
  BY DEF PdStart
<1>3. hits \in SUBSET Nat
  BY <1>1
<1>4. (CHOOSE i \in hits : \A j \in hits : i <= j) \in hits
  <2> HIDE DEF hits
  <2>1. \E i \in hits : \A j \in hits : i <= j
    BY <1>2, <1>3, Least
  <2>2. QED
    BY <2>1
<1>5. \A i \in hits : layout.pds[i] \in Pd
  BY <1>1
<1>6. \A i \in hits : layout.pds[i].start \in Nat
  BY <1>5 DEF Pd
<1> HIDE DEF hits
<1>7. QED
  BY <1>2, <1>4, <1>6

\* Without partition maps there is a partition all the same.
LEMMA SingleSpaceStart ==
    ASSUME layout \in Disc
    PROVE  SingleSpace.kind = "physical" /\ SingleSpace.start \in Nat
<1> DEFINE last == layout.pds[Len(layout.pds)].start
<1>1. layout.pds \in Seq(Pd) /\ layout.pds # <<>>
  BY DEF Disc
<1>2. last \in Nat
  <2>1. Len(layout.pds) \in DOMAIN layout.pds
    BY <1>1
  <2>2. layout.pds[Len(layout.pds)] \in Pd
    BY <1>1, <2>1
  <2>3. QED
    BY <2>2 DEF Pd
<1> HIDE DEF last
<1>3. SingleSpace = [kind |-> "physical",
                     start |-> IF PdStart(layout.fsdRef) = None THEN last ELSE PdStart(layout.fsdRef)]
  BY DEF SingleSpace, last
<1>4. QED
  BY <1>2, <1>3, PdStartNat

\* A metadata map that does not fail becomes runs of whole sectors.
LEMMA MetadataRuns ==
    ASSUME layout \in Disc, NEW map \in PartMap, map.kind = "metadata", ~MapFails(map)
    PROVE  /\ MetadataSpace(map) \in Runs
           /\ \A i \in DOMAIN MetadataSpace(map) : MetadataSpace(map)[i][2] % SECTOR = 0
           /\ Whole(CopyOf(map)) => Recorded(CopyOf(map)) = CopyOf(map)
<1> DEFINE file == CopyOf(map)
           fe == Recorded(file)
           start == PdStart(map.pd)
<1>1. start \in Nat
  BY PdStartNat DEF MapFails
<1>2. file \in MetadataFile
  <2>1. map.main \in MetadataFile \cup {None} /\ map.mirror \in MetadataFile \cup {None}
    BY DEF PartMap
  <2>2. map.main # None \/ map.mirror # None
    BY DEF MapFails
  <2>3. QED
    BY <2>1, <2>2 DEF CopyOf
<1>3. file \in Seq(Ad) /\ \A i \in DOMAIN file : file[i].length % SECTOR = 0
  BY <1>2 DEF MetadataFile
<1>4. MetadataSpace(map) = [i \in DOMAIN fe |-> <<start + fe[i].block, fe[i].length>>]
  BY DEF MetadataSpace
<1>5. Whole(CopyOf(map)) => fe = file
  BY <1>3, RecordedFacts DEF Whole
<1> HIDE DEF file, start
<1>6. fe \in Seq(Ad) /\ \A i \in DOMAIN fe : \E j \in DOMAIN file : fe[i] = file[j]
  BY <1>3, RecordedFacts
<1> HIDE DEF fe
<1>7. ASSUME NEW i \in DOMAIN fe
      PROVE  start + fe[i].block \in Nat /\ fe[i].length \in Nat /\ fe[i].length % SECTOR = 0
  <2>1. fe[i] \in Ad
    BY <1>6
  <2>2. fe[i].block \in Nat /\ fe[i].length \in Nat
    BY <2>1 DEF Ad
  <2>3. fe[i].length % SECTOR = 0
    BY <1>3, <1>6
  <2>4. QED
    BY <1>1, <2>2, <2>3
<1> DEFINE m == [i \in 1..Len(fe) |-> <<start + fe[i].block, fe[i].length>>]
<1>8. DOMAIN fe = 1..Len(fe) /\ Len(fe) \in Nat
  BY <1>6
<1>9. m \in [1..Len(fe) -> Nat \X Nat]
  BY <1>7, <1>8
<1>10. MetadataSpace(map) = m
  BY <1>4, <1>8
<1>11. MetadataSpace(map) \in Runs
  BY <1>8, <1>9, <1>10, IsSequence DEF Runs
<1>12. \A i \in DOMAIN m : m[i][2] % SECTOR = 0
  BY <1>7, <1>8
<1>13. QED
  BY <1>10, <1>11, <1>12, <1>5 DEF fe, file

\* The parts of the invariant: once the spaces are built, a block resolves
\* to a sector, on a disc without holes to no other than the one it is in.
Resolves ==
    pc = "meta" =>
        \A ref, block \in Nat :
            Resolve(ref, block) # None =>
                /\ Resolve(ref, block) \in Nat
                /\ NoHoles => Resolve(ref, block) = SectorOf(ref, block)

\* Where things are on a disc depends on the disc only.
LEMMA SameDisc ==
    ASSUME layout' = layout
    PROVE  /\ \A ref, block : SectorOf(ref, block)' = SectorOf(ref, block)
           /\ \A e : RefOf(e)' = RefOf(e)
           /\ NoHoles' = NoHoles
<1>1. ASSUME NEW n PROVE PdStart(n)' = PdStart(n)
  BY DEF PdStart
<1>2. SingleSpace' = SingleSpace
  BY <1>1 DEF SingleSpace
<1>3. NoHoles' = NoHoles
  BY DEF NoHoles, Whole, CopyOf
<1>4. ASSUME NEW map, NEW n PROVE MetadataSector(map, n)' = MetadataSector(map, n)
  BY <1>1 DEF MetadataSector, CopyOf
<1>5. ASSUME NEW ref, NEW n PROVE SectorOf(ref, n)' = SectorOf(ref, n)
  BY <1>1, <1>2, <1>4 DEF SectorOf
<1>6. ASSUME NEW e PROVE RefOf(e)' = RefOf(e)
  BY DEF RefOf
<1>7. QED
  BY <1>3, <1>5, <1>6

\* build_spaces gives every map its space: what resolves, resolves to its sector.
LEMMA SpacesBuilt ==
    ASSUME layout \in Disc, BuildSpaces
    PROVE  Resolves'
<1> SUFFICES ASSUME pc' = "meta", NEW ref \in Nat, NEW block \in Nat, Resolve(ref, block)' # None
             PROVE  /\ Resolve(ref, block)' \in Nat
                    /\ NoHoles' => Resolve(ref, block)' = SectorOf(ref, block)'
  BY DEF Resolves
<1> DEFINE space == spaces'[ref + 1]
<1>1. layout' = layout
  BY DEF BuildSpaces
<1>2. SectorOf(ref, block)' = SectorOf(ref, block) /\ NoHoles' = NoHoles
  BY <1>1, SameDisc
<1>3. ref + 1 \in DOMAIN spaces' /\ space # None
  BY DEF Resolve
<1>4. space.kind = "physical" => Resolve(ref, block)' = space.start + block
  BY <1>3 DEF Resolve
<1>5. CASE layout.maps = <<>>
  <2>1. spaces' = [i \in 1..layout.fsdRef + 1 |->
                      IF i = layout.fsdRef + 1 THEN SingleSpace ELSE None]
    BY <1>5 DEF BuildSpaces, Outcome
  <2>2. space = SingleSpace
    BY <1>3, <2>1
  <2>3. SectorOf(ref, block) = SingleSpace.start + block
    BY <1>5 DEF SectorOf
  <2>4. QED
    BY <1>2, <1>4, <2>2, <2>3, SingleSpaceStart
<1>6. CASE layout.maps # <<>>
  <2> DEFINE map == layout.maps[ref + 1]
  <2>1. /\ ~(\E i \in DOMAIN layout.maps : MapFails(layout.maps[i]))
        /\ spaces' = [i \in DOMAIN layout.maps |-> SpaceOf(layout.maps[i])]
    BY <1>6 DEF BuildSpaces, Outcome
  <2>2. ref + 1 \in DOMAIN layout.maps /\ space = SpaceOf(map) /\ ~MapFails(map)
    BY <1>3, <2>1
  <2>3. map \in PartMap
    BY <2>2 DEF Disc
  <2>4. SectorOf(ref, block) =
            IF map.kind = "type1" THEN PdStart(map.pd) + block ELSE MetadataSector(map, block)
    BY <1>6 DEF SectorOf
  <2> HIDE DEF space, map
  <2>5. CASE map.kind = "type1"
    <3>1. space = [kind |-> "physical", start |-> PdStart(map.pd)]
      BY <2>2, <2>5 DEF SpaceOf
    <3>2. PdStart(map.pd) \in Nat
      BY <2>2, <2>5, PdStartNat DEF MapFails
    <3>3. QED
      BY <1>2, <1>4, <2>4, <2>5, <3>1, <3>2
  <2>6. CASE map.kind = "metadata"
    <3> DEFINE m == MetadataSpace(map)
               hits == {i \in DOMAIN m : block * SECTOR < LengthOf(m, i)}
               first == FirstHit(m, block * SECTOR)
               slot == At(SlotsOf(m), block)
               sector == m[first][1] + (block * SECTOR - LengthOf(m, first - 1)) \div SECTOR
    <3>1. m \in Runs /\ \A i \in DOMAIN m : m[i][2] % SECTOR = 0
      BY <2>2, <2>3, <2>6, MetadataRuns
    <3>2. space = [kind |-> "metadata", extents |-> m]
      BY <2>2, <2>6 DEF SpaceOf
    <3>3. hits # {} /\ Resolve(ref, block)' = sector
      <4>1. Resolve(ref, block)' = IF hits = {} THEN None ELSE sector
        <5>1. Resolve(ref, block)' =
                LET sp == space
                    hs == {i \in DOMAIN sp.extents : block * SECTOR < LengthOf(sp.extents, i)}
                IN  IF hs = {} THEN None
                    ELSE LET i == CHOOSE i \in hs : \A j \in hs : i <= j
                         IN  sp.extents[i][1] + (block * SECTOR - LengthOf(sp.extents, i - 1)) \div SECTOR
          BY <1>3, <3>2 DEF Resolve, space
        <5>2. space.extents = m
          BY <3>2
        <5>3. QED
          BY <5>1, <5>2 DEF FirstHit
      <4>2. QED
        BY <4>1
    <3>4. sector \in Nat /\ sector = SlotsOf(m)[slot.run][1] + slot.off
      <4>1. \E i \in DOMAIN m : block * SECTOR < LengthOf(m, i)
        BY <3>3
      <4> HIDE DEF m
      <4>2. QED
        BY <3>1, <4>1, HitIsSlot
    <3>5. NoHoles => SectorOf(ref, block) = SlotsOf(m)[slot.run][1] + slot.off
      <4> SUFFICES ASSUME NoHoles
                   PROVE  SectorOf(ref, block) = SlotsOf(m)[slot.run][1] + slot.off
        OBVIOUS
      <4>1. Recorded(CopyOf(map)) = CopyOf(map)
        BY <2>2, <2>3, <2>6, MetadataRuns DEF NoHoles, map
      <4> DEFINE fe == CopyOf(map)
                 slots == [i \in DOMAIN fe |->
                             <<PdStart(map.pd) + fe[i].block, fe[i].length \div SECTOR>>]
      <4>2. m = [i \in DOMAIN fe |-> <<PdStart(map.pd) + fe[i].block, fe[i].length>>]
        BY <4>1 DEF MetadataSpace
      <4>3. SlotsOf(m) = slots
        <5> HIDE DEF m, fe
        <5>1. QED
          BY <4>2 DEF SlotsOf
      <4>4. MetadataSector(map, block) = slots[At(slots, block).run][1] + At(slots, block).off
        BY DEF MetadataSector
      <4>5. QED
        BY <2>4, <2>6, <4>3, <4>4
    <3>6. QED
      BY <1>2, <3>3, <3>4, <3>5
  <2>7. CASE map.kind = "other"
    <3>1. space = None
      BY <2>2, <2>7 DEF SpaceOf
    <3>2. QED
      BY <1>3, <3>1 DEF space
  <2>8. QED
    BY <2>3, <2>5, <2>6, <2>7 DEF PartMap
<1>7. QED
  BY <1>5, <1>6

-----------------------------------------------------------------------------
(* The inductive invariant *)

Before == {"open", "meta", "failed", "panicked"}
Within == {"extent", "pread", "done", "error"}

\* On a disc without holes the extents are those of the file.
Located ==
    /\ pc \in Before => extents = <<>>
    /\ pc \notin Before /\ NoHoles =>
        /\ extents = FileRuns
        /\ \A i \in DOMAIN extents :
              LET e == layout.file[i] IN SectorOf(RefOf(e), e.block) \in Nat

\* A read is clipped, and has come to the extent that starts at pos.
Reading ==
    /\ pc \notin Within => read = None /\ xfer = None
    /\ pc \in Within =>
        /\ read \in [off : Nat, end : Nat, whole : BOOLEAN]
        /\ read.off <= read.end /\ read.end <= layout.size
        /\ read.whole => read.off = 0
        /\ pos = LengthOf(extents, next - 1)

\* The extents hold the whole file, and the device has them.
OnDevice ==
    /\ layout.size <= LengthOf(extents, Len(extents))
    /\ \A i \in DOMAIN extents : extents[i][1] + extents[i][2] <= DiscBytes

\* A transfer covers what is wanted of its extent, in whole sectors, and has
\* come no further than the end of the device.
Transfers ==
    pc = "pread" =>
        /\ next \in DOMAIN extents
        /\ ~read.whole => pos < read.end /\ read.off < ExtEnd
        /\ xfer \in [start : Nat, skip : Nat, count : Nat, total : Nat, done : Nat]
        /\ xfer.start % SECTOR = 0 /\ xfer.total % SECTOR = 0 /\ xfer.done % SECTOR = 0
        /\ xfer.done <= xfer.total
        /\ xfer.done = 0 \/ xfer.start + xfer.done <= DiscBytes
        /\ xfer.start + xfer.skip = extents[next][1] + StartIn
        /\ xfer.count = Take
        /\ OnDevice => /\ xfer.skip + xfer.count <= xfer.total
                       /\ xfer.start + xfer.total <= DiscBytes

\* Where the extents have byte k of the file, and the first n bytes of a read.
ByteAt(k) == LET at == At(extents, k) IN extents[at.run][1] + at.off
Bytes(n)  == [i \in 1..n |-> ByteAt(read.off + i - 1)]

\* The bytes of the read that lie before the extent it has come to.
SoFar == IF read.whole THEN pos ELSE Greater(Smaller(read.end, pos) - read.off, 0)

\* What a read has collected are its first bytes: all that lie before the
\* extent it has come to, and in the end all.
Collected ==
    OnDevice =>
        /\ pc \in {"extent", "pread"} => out = Bytes(SoFar)
        /\ pc = "done" => out = Bytes(read.end - read.off)

IInv == TypeOK /\ Resolves /\ Located /\ Reading /\ Transfers /\ Collected

-----------------------------------------------------------------------------
(* The initial states, and what the steps share *)

\* The disc is one that the parsers give.
LEMMA LayoutIsDisc ==
    ASSUME TypeOK
    PROVE  layout \in Disc
BY DiscsAssumption DEF TypeOK

\* The initial states.
LEMMA InitHolds == Init => IInv
<1> SUFFICES ASSUME Init PROVE IInv
  OBVIOUS
<1>1. TypeOK
  <2>1. <<>> \in Seq(Nat \X Nat) /\ <<>> \in Seq(0..DiscBytes - 1) /\ Len(<<>>) = 0
    OBVIOUS
  <2>2. QED
    BY <2>1 DEF Init, TypeOK
<1>2. Resolves /\ Located /\ Reading /\ Transfers /\ Collected
  BY DEF Init, Resolves, Located, Reading, Transfers, Collected, Before, Within
<1>3. QED
  BY <1>1, <1>2 DEF IInv

\* extents_abs puts each recorded extent where its first block lies.
LEMMA ExtentsFound ==
    ASSUME layout \in Disc, Resolves, Meta, pc' = "idle"
    PROVE  /\ extents' \in Runs
           /\ NoHoles =>
                /\ extents' = FileRuns
                /\ \A i \in DOMAIN extents' :
                      LET e == layout.file[i] IN SectorOf(RefOf(e), e.block) \in Nat
<1> DEFINE fe == Recorded(layout.file)
           lba(e) == Resolve(RefOf(e), e.block)
           found == [i \in 1..Len(fe) |-> <<lba(fe[i]) * SECTOR, fe[i].length>>]
<1>1. SECTOR \in Nat \ {0}
  BY SizesAssumption
<1>2. layout.file \in Seq(Ad) /\ layout.ref \in Nat
  BY DEF Disc
<1>3. fe \in Seq(Ad) /\ (NoHoles => fe = layout.file)
  BY <1>2, RecordedFacts DEF NoHoles, Whole
<1>4. ExtentsAbs = [i \in DOMAIN fe |-> <<lba(fe[i]), fe[i].length>>]
  BY DEF ExtentsAbs
<1>5. pc = "meta" /\ ~(\E i \in DOMAIN ExtentsAbs : ExtentsAbs[i][1] = None)
      /\ extents' = [i \in DOMAIN ExtentsAbs |-> <<ExtentsAbs[i][1] * SECTOR, ExtentsAbs[i][2]>>]
  BY DEF Meta
<1> HIDE DEF fe, lba
<1>6. DOMAIN fe = 1..Len(fe) /\ Len(fe) \in Nat
  BY <1>3
<1>7. extents' = found /\ \A i \in 1..Len(fe) : lba(fe[i]) # None
  BY <1>4, <1>5, <1>6
<1>8. ASSUME NEW i \in 1..Len(fe)
      PROVE  /\ lba(fe[i]) \in Nat /\ fe[i].length \in Nat
             /\ NoHoles => lba(fe[i]) = SectorOf(RefOf(fe[i]), fe[i].block)
  <2>1. fe[i] \in Ad
    BY <1>3, <1>6
  <2>2. fe[i].block \in Nat /\ fe[i].length \in Nat /\ fe[i].ref \in Nat \cup {None}
    BY <2>1 DEF Ad
  <2>3. RefOf(fe[i]) \in Nat
    BY <1>2, <2>2 DEF RefOf
  <2>4. Resolve(RefOf(fe[i]), fe[i].block) # None
    BY <1>7 DEF lba
  <2>5. QED
    BY <1>5, <2>2, <2>3, <2>4 DEF Resolves, lba
<1>9. found \in Seq(Nat \X Nat) /\ Len(found) = Len(fe)
  <2>1. ASSUME NEW i \in 1..Len(fe) PROVE found[i] \in Nat \X Nat
    <3>1. lba(fe[i]) * SECTOR \in Nat
      BY <1>1, <1>8
    <3>2. QED
      BY <1>8, <3>1
  <2>2. found \in [1..Len(fe) -> Nat \X Nat]
    BY <2>1
  <2> HIDE DEF found
  <2>3. QED
    BY <1>6, <2>2, IsSequence
<1>10. ASSUME NoHoles
       PROVE  /\ extents' = FileRuns
              /\ \A i \in DOMAIN extents' :
                    LET e == layout.file[i] IN SectorOf(RefOf(e), e.block) \in Nat
  <2>1. fe = layout.file /\ DOMAIN layout.file = 1..Len(fe)
    BY <1>3, <1>6, <1>10
  <2>2. \A i \in 1..Len(fe) :
           /\ SectorOf(RefOf(layout.file[i]), layout.file[i].block) \in Nat
           /\ <<lba(fe[i]) * SECTOR, fe[i].length>>
                = <<SectorOf(RefOf(layout.file[i]), layout.file[i].block) * SECTOR,
                    layout.file[i].length>>
    BY <1>8, <1>10, <2>1
  <2>3. FileRuns = found
    BY <2>1, <2>2 DEF FileRuns
  <2>4. QED
    BY <1>7, <2>2, <2>3
<1>11. QED
  BY <1>3, <1>7, <1>9, <1>10 DEF Runs

\* The extent a read has come to.
LEMMA ExtentAtHand ==
    ASSUME TypeOK, pos = LengthOf(extents, next - 1), next \in DOMAIN extents
    PROVE  /\ extents \in Runs
           /\ extents[next][1] \in Nat /\ extents[next][2] \in Nat
           /\ ExtEnd \in Nat /\ pos \in Nat /\ pos <= ExtEnd
           /\ ExtEnd = LengthOf(extents, next)
           /\ next + 1 \in 1..Len(extents) + 1 /\ (next + 1) - 1 = next
<1>1. extents \in Runs /\ DOMAIN extents = 1..Len(extents) /\ Len(extents) \in Nat
  BY DEF TypeOK, Runs
<1>2. extents[next] \in Nat \X Nat
  BY <1>1 DEF Runs
<1>3. LengthOf(extents, next) = LengthOf(extents, next - 1) + extents[next][2]
  BY <1>1, LengthFacts
<1>4. pos \in Nat
  BY DEF TypeOK
<1>5. QED
  BY <1>1, <1>2, <1>3, <1>4 DEF ExtEnd

\* How much a read has after the extent at hand.
SoFarAfter == IF read.whole THEN ExtEnd ELSE Greater(Smaller(read.end, ExtEnd) - read.off, 0)

\* What is wanted of an extent lies in it, and goes on where the read is.
LEMMA Wanted ==
    ASSUME TypeOK, Reading, pc \in Within, next \in DOMAIN extents,
           ~read.whole => pos < read.end /\ read.off < ExtEnd
    PROVE  /\ StartIn \in Nat /\ Take \in Nat /\ StartIn + Take <= extents[next][2]
           /\ SoFar \in Nat /\ read.off \in Nat
           /\ read.off + SoFar = pos + StartIn
           /\ SoFarAfter = SoFar + Take
<1>1. /\ read.off \in Nat /\ read.end \in Nat /\ read.whole \in BOOLEAN
      /\ read.off <= read.end /\ (read.whole => read.off = 0)
      /\ pos = LengthOf(extents, next - 1)
  BY DEF Reading
<1>2. extents[next][2] \in Nat /\ ExtEnd \in Nat /\ pos \in Nat /\ ExtEnd = pos + extents[next][2]
  BY <1>1, ExtentAtHand DEF ExtEnd
<1>3. CASE read.whole
  <2>1. StartIn = 0 /\ Take = extents[next][2] /\ SoFar = pos /\ SoFarAfter = ExtEnd
    BY <1>3 DEF StartIn, Take, SoFar, SoFarAfter
  <2>2. QED
    BY <1>1, <1>2, <1>3, <2>1
<1>4. CASE ~read.whole
  <2>1. StartIn = Greater(read.off, pos) - pos /\ Take = Smaller(read.end, ExtEnd) - pos - StartIn
        /\ SoFar = Greater(Smaller(read.end, pos) - read.off, 0)
        /\ SoFarAfter = Greater(Smaller(read.end, ExtEnd) - read.off, 0)
    BY <1>4 DEF StartIn, Take, SoFar, SoFarAfter
  <2>2. pos < read.end /\ read.off < ExtEnd
    BY <1>4
  <2> HIDE DEF SoFar
  <2>3. StartIn \in Nat /\ StartIn = IF read.off < pos THEN 0 ELSE read.off - pos
    BY <1>1, <1>2, <2>1 DEF Greater
  <2>4. SoFar = IF read.off < pos THEN pos - read.off ELSE 0
    BY <1>1, <1>2, <2>1, <2>2 DEF Greater, Smaller
  <2>5. Take = (IF read.end < ExtEnd THEN read.end ELSE ExtEnd) - pos - StartIn
    BY <1>1, <1>2, <2>1 DEF Smaller
  <2>6. SoFarAfter = IF read.end < ExtEnd THEN read.end - read.off ELSE ExtEnd - read.off
    BY <1>1, <1>2, <2>1, <2>2 DEF Greater, Smaller
  <2>7. StartIn \in Nat /\ SoFar \in Nat /\ read.off + SoFar = pos + StartIn
    BY <1>1, <1>2, <2>3, <2>4
  <2>8. Take \in Nat /\ StartIn + Take <= extents[next][2]
    <3>1. CASE read.end < ExtEnd
      BY <1>1, <1>2, <2>2, <2>3, <2>5, <3>1
    <3>2. CASE ~(read.end < ExtEnd)
      BY <1>1, <1>2, <2>2, <2>3, <2>5, <3>2
    <3>3. QED
      BY <3>1, <3>2
  <2>9. SoFarAfter = SoFar + Take
    <3>1. CASE read.end < ExtEnd
      BY <1>1, <1>2, <2>5, <2>6, <2>7, <3>1
    <3>2. CASE ~(read.end < ExtEnd)
      BY <1>1, <1>2, <2>5, <2>6, <2>7, <3>2
    <3>3. QED
      BY <3>1, <3>2
  <2>10. QED
    BY <1>1, <2>7, <2>8, <2>9
<1>5. QED
  BY <1>1, <1>3, <1>4

\* read_abs covers what is wanted with whole sectors.
LEMMA CoverFacts ==
    ASSUME NEW abs \in Nat, NEW count \in Nat
    PROVE  LET c == Cover(abs, count) IN
           /\ c \in [start : Nat, skip : Nat, count : Nat, total : Nat, done : Nat]
           /\ c.start % SECTOR = 0 /\ c.total % SECTOR = 0 /\ c.done = 0
           /\ c.start + c.skip = abs /\ c.count = count
           /\ c.skip + count <= c.total
           /\ abs + count <= DiscBytes => c.start + c.total <= DiscBytes
<1> DEFINE start == (abs \div SECTOR) * SECTOR
           skip == abs - start
           total == ((skip + count + SECTOR - 1) \div SECTOR) * SECTOR
<1>1. SECTOR \in Nat \ {0} /\ DiscBytes \in Nat /\ DiscBytes % SECTOR = 0
  BY SizesAssumption
<1>2. abs \div SECTOR \in Nat /\ start \in Nat /\ abs = start + (abs % SECTOR) /\ abs % SECTOR \in Nat
  BY <1>1, Divided
<1>3. start % SECTOR = 0
  BY <1>1, <1>2, ProductDivided
<1>4. Cover(abs, count) = [start |-> start, skip |-> skip, count |-> count, total |-> total, done |-> 0]
  BY DEF Cover
<1> HIDE DEF start
<1>5. skip \in Nat /\ start + skip = abs
  BY <1>2
<1> HIDE DEF skip
<1>6. skip + count \in Nat
  BY <1>5
<1>7. total \in Nat /\ skip + count <= total /\ total < skip + count + SECTOR /\ total % SECTOR = 0
  BY <1>1, <1>6, Covered
<1> HIDE DEF total
<1>8. ASSUME abs + count <= DiscBytes PROVE start + total <= DiscBytes
  <2>1. (start + total) % SECTOR = 0 /\ start + total \in Nat
    <3>1. (start + total) % SECTOR = 0
      BY <1>1, <1>2, <1>3, <1>7, SumDivided
    <3>2. QED
      BY <1>2, <1>7, <3>1
  <2>2. start + total < DiscBytes + SECTOR
    BY <1>1, <1>2, <1>5, <1>7, <1>8
  <2>3. ~(DiscBytes < start + total)
    <3>1. DiscBytes < start + total => DiscBytes + SECTOR <= start + total
      BY <1>1, <2>1, SectorGreater
    <3>2. QED
      BY <1>1, <2>1, <2>2, <3>1
  <2>4. QED
    BY <1>1, <2>1, <2>3
<1>9. QED
  BY <1>2, <1>3, <1>4, <1>5, <1>7, <1>8

-----------------------------------------------------------------------------
(* The steps of a read *)

\* What the extent at hand gives is a part of the file: its bytes lie one
\* behind the other, as in the extent.
LEMMA ByteOfExtent ==
    ASSUME extents \in Runs, NEW i \in DOMAIN extents, NEW r \in Nat, r < extents[i][2]
    PROVE  ByteAt(LengthOf(extents, i - 1) + r) = extents[i][1] + r
<1>1. At(extents, LengthOf(extents, i - 1) + r) = [run |-> i, off |-> r]
  BY AtRun
<1>2. QED
  BY <1>1 DEF ByteAt

\* The elements of two sequences one behind the other.
LEMMA JoinedRuns ==
    ASSUME NEW S, NEW s \in Seq(S), NEW t \in Seq(S)
    PROVE  /\ s \o t \in Seq(S) /\ Len(s \o t) = Len(s) + Len(t)
           /\ \A i \in 1..Len(s) + Len(t) :
                 (s \o t)[i] = IF i <= Len(s) THEN s[i] ELSE t[i - Len(s)]
OBVIOUS

\* A sequence is the function of its elements.
LEMMA SequenceIs ==
    ASSUME NEW S, NEW s \in Seq(S), NEW n, n = Len(s)
    PROVE  s = [i \in 1..n |-> s[i]]
OBVIOUS

\* Two pieces one behind the other.
LEMMA BytesJoined ==
    ASSUME NEW n \in Nat, NEW m \in Nat, NEW S, NEW s \in Seq(S), NEW t \in Seq(S),
           s = Bytes(n), t = [i \in 1..m |-> ByteAt(read.off + (n + i) - 1)]
    PROVE  s \o t = Bytes(n + m)
<1> DEFINE b(i) == ByteAt(read.off + i - 1)
<1>1. s = [i \in 1..n |-> b(i)] /\ t = [i \in 1..m |-> b(n + i)]
  BY DEF Bytes
<1>2. Bytes(n + m) = [i \in 1..n + m |-> b(i)]
  BY DEF Bytes
<1> HIDE DEF b
<1>3. Len(s) = n /\ Len(t) = m
  BY <1>1
<1>4. /\ s \o t \in Seq(S) /\ Len(s \o t) = n + m
      /\ \A i \in 1..n + m : (s \o t)[i] = IF i <= n THEN s[i] ELSE t[i - n]
  BY <1>3, JoinedRuns
<1>5. ASSUME NEW i \in 1..n + m PROVE (s \o t)[i] = b(i)
  <2>1. CASE i <= n
    BY <1>1, <1>4, <2>1
  <2>2. CASE ~(i <= n)
    <3>1. i - n \in 1..m /\ n + (i - n) = i
      BY <2>2
    <3>2. t[i - n] = b(n + (i - n))
      BY <1>1, <3>1
    <3>3. QED
      BY <1>4, <2>2, <3>1, <3>2
  <2>3. QED
    BY <2>1, <2>2
<1>6. s \o t = [i \in 1..n + m |-> (s \o t)[i]]
  BY <1>4, SequenceIs
<1>7. QED
  BY <1>2, <1>5, <1>6

\* The first bytes of the first bytes.
LEMMA BytesCut ==
    ASSUME NEW n \in Nat, NEW m \in Nat, m <= n, NEW s, s = Bytes(n)
    PROVE  SubSeq(s, 1, m) = Bytes(m) /\ Len(s) = n
<1> DEFINE b(i) == ByteAt(read.off + i - 1)
<1>1. s = [i \in 1..n |-> b(i)] /\ Bytes(m) = [i \in 1..m |-> b(i)]
  BY DEF Bytes
<1> HIDE DEF b
<1>2. Len(s) = n
  BY <1>1
<1>3. SubSeq(s, 1, m) = [i \in 1..m |-> s[i]]
  BY <1>2
<1>4. QED
  BY <1>1, <1>2, <1>3

\* The bytes that a transfer takes out of its sectors.
Given == Greater(Smaller(xfer.skip + xfer.count, xfer.done) - xfer.skip, 0)
Piece == [i \in 1..Given |-> xfer.start + xfer.skip + i - 1]

\* They are on the device, and all that was wanted when the device has it.
LEMMA PieceFacts ==
    ASSUME TypeOK, Reading, Transfers, pc = "pread", xfer.done = xfer.total
    PROVE  /\ Piece \in Seq(0..DiscBytes - 1)
           /\ OnDevice => Given = Take
           /\ OnDevice => Piece = [i \in 1..Take |-> ByteAt(read.off + (SoFar + i) - 1)]
<1>1. /\ next \in DOMAIN extents
      /\ ~read.whole => pos < read.end /\ read.off < ExtEnd
      /\ xfer.start \in Nat /\ xfer.skip \in Nat /\ xfer.count \in Nat /\ xfer.done \in Nat
      /\ xfer.done = 0 \/ xfer.start + xfer.done <= DiscBytes
      /\ xfer.start + xfer.skip = extents[next][1] + StartIn
      /\ xfer.count = Take
      /\ OnDevice => xfer.skip + xfer.count <= xfer.done
  BY DEF Transfers
<1>2. Given \in Nat /\ (Given # 0 => xfer.skip + Given <= xfer.done)
  BY <1>1 DEF Given, Greater, Smaller
<1>3. DiscBytes \in Nat
  BY SizesAssumption
<1>4. Piece \in [1..Given -> 0..DiscBytes - 1]
  <2>1. ASSUME NEW i \in 1..Given PROVE xfer.start + xfer.skip + i - 1 \in 0..DiscBytes - 1
    <3>1. xfer.skip + Given <= xfer.done /\ xfer.done # 0
      BY <1>1, <1>2, <2>1
    <3>2. QED
      BY <1>1, <1>2, <1>3, <2>1, <3>1
  <2>2. QED
    BY <2>1 DEF Piece
<1>5. Piece \in Seq(0..DiscBytes - 1)
  BY <1>2, <1>4, IsSequence
<1>6. ASSUME OnDevice PROVE Given = Take
  BY <1>1, <1>6 DEF Given, Greater, Smaller
<1>7. pos = LengthOf(extents, next - 1) /\ pc \in Within
  BY DEF Reading, Within
<1>8. /\ StartIn \in Nat /\ Take \in Nat /\ StartIn + Take <= extents[next][2]
      /\ SoFar \in Nat /\ read.off \in Nat /\ read.off + SoFar = pos + StartIn
  BY <1>1, <1>7, Wanted
<1>9. extents \in Runs /\ extents[next][1] \in Nat /\ extents[next][2] \in Nat /\ pos \in Nat
  BY <1>1, <1>7, ExtentAtHand
<1>10. ASSUME NEW i \in 1..Take
       PROVE  xfer.start + xfer.skip + i - 1 = ByteAt(read.off + (SoFar + i) - 1)
  <2>1. StartIn + i - 1 \in Nat /\ StartIn + i - 1 < extents[next][2]
    BY <1>8, <1>9
  <2>2. ByteAt(LengthOf(extents, next - 1) + (StartIn + i - 1)) = extents[next][1] + (StartIn + i - 1)
    BY <1>1, <1>9, <2>1, ByteOfExtent
  <2>3. LengthOf(extents, next - 1) + (StartIn + i - 1) = read.off + (SoFar + i) - 1
    BY <1>7, <1>8, <1>9
  <2>4. extents[next][1] + (StartIn + i - 1) = xfer.start + xfer.skip + i - 1
    BY <1>1, <1>8, <1>9
  <2>5. QED
    BY <2>2, <2>3, <2>4
<1>11. ASSUME OnDevice
       PROVE  Piece = [i \in 1..Take |-> ByteAt(read.off + (SoFar + i) - 1)]
  BY <1>6, <1>10, <1>11 DEF Piece
<1>12. QED
  BY <1>5, <1>6, <1>11

\* A beginning of a sequence.
LEMMA Beginning ==
    ASSUME NEW S, NEW s \in Seq(S), NEW m \in 0..Len(s)
    PROVE  SubSeq(s, 1, m) \in Seq(S)
OBVIOUS

\* A read that has not come to its end has an extent at hand.
LEMMA MoreExtents ==
    ASSUME TypeOK, pc = "extent", Reading, ~Finished
    PROVE  next \in DOMAIN extents /\ (~read.whole => pos < read.end)
<1>1. extents \in Seq(Nat \X Nat) /\ next \in 1..Len(extents) + 1 /\ pos \in Nat
  BY DEF TypeOK
<1>2. ~(next > Len(extents)) /\ (~read.whole => ~(read.end <= pos))
  BY DEF Finished
<1>3. read.end \in Nat
  BY DEF Reading, Within
<1>4. QED
  BY <1>1, <1>2, <1>3

\* The range of a read that begins.
LEMMA BeginFacts ==
    ASSUME layout \in Disc, (\E off, count \in 0..layout.size : ReadRange(off, count)) \/ ReadWhole
    PROVE  /\ pc = "idle" /\ pc' = "extent"
           /\ next' = 1 /\ pos' = 0 /\ out' = <<>> /\ xfer' = None
           /\ layout' = layout /\ spaces' = spaces /\ extents' = extents
           /\ read' \in [off : Nat, end : Nat, whole : BOOLEAN]
           /\ read'.off <= read'.end /\ read'.end <= layout.size
           /\ read'.whole => read'.off = 0
<1>1. layout.size \in Nat
  BY DEF Disc
<1>2. ASSUME NEW off \in 0..layout.size, NEW count \in 0..layout.size, ReadRange(off, count)
      PROVE  /\ Begin(read')
             /\ read' \in [off : Nat, end : Nat, whole : BOOLEAN]
             /\ read'.off <= read'.end /\ read'.end <= layout.size
             /\ ~read'.whole
  <2> DEFINE end == Smaller(off + count, layout.size)
             r == [off |-> off, end |-> end, whole |-> FALSE]
  <2>1. off < layout.size /\ count > 0 /\ Begin(r)
    BY <1>2 DEF ReadRange
  <2>2. end \in Nat /\ off <= end /\ end <= layout.size
    BY <1>1, <2>1 DEF Smaller
  <2> HIDE DEF end
  <2>3. read' = r
    BY <2>1 DEF Begin
  <2>4. QED
    BY <2>1, <2>2, <2>3
<1>3. ASSUME ReadWhole
      PROVE  /\ Begin(read')
             /\ read' = [off |-> 0, end |-> layout.size, whole |-> TRUE]
  BY <1>3 DEF ReadWhole, Begin
<1>4. CASE \E off, count \in 0..layout.size : ReadRange(off, count)
  <2>1. /\ Begin(read')
        /\ read' \in [off : Nat, end : Nat, whole : BOOLEAN]
        /\ read'.off <= read'.end /\ read'.end <= layout.size
        /\ ~read'.whole
    BY <1>2, <1>4
  <2>2. QED
    BY <2>1 DEF Begin
<1>5. CASE ReadWhole
  <2> DEFINE r == [off |-> 0, end |-> layout.size, whole |-> TRUE]
  <2>1. Begin(read') /\ read' = r
    BY <1>3, <1>5
  <2>2. r \in [off : Nat, end : Nat, whole : BOOLEAN]
    BY <1>1
  <2>3. r.off <= r.end /\ r.end <= layout.size /\ r.off = 0
    BY <1>1
  <2> HIDE DEF r
  <2>4. QED
    BY <2>1, <2>2, <2>3 DEF Begin
<1>6. QED
  BY <1>4, <1>5

\* One pread.
LEMMA PreadFacts ==
    ASSUME Transfers, Pread
    PROVE  /\ xfer' \in [start : Nat, skip : Nat, count : Nat, total : Nat, done : Nat]
           /\ xfer'.start = xfer.start /\ xfer'.skip = xfer.skip /\ xfer'.count = xfer.count
           /\ xfer'.total % SECTOR = 0 /\ xfer'.done % SECTOR = 0
           /\ xfer'.done <= xfer'.total
           /\ xfer'.done = 0 \/ xfer'.start + xfer'.done <= DiscBytes
           /\ OnDevice => xfer'.total = xfer.total
<1> DEFINE left == Greater(DiscBytes - (xfer.start + xfer.done), 0)
           most == Smaller(Chunk, left)
<1>1. SECTOR \in Nat \ {0} /\ MAX_XFER \in Nat \ {0} /\ DiscBytes \in Nat
  BY SizesAssumption
<1>2. /\ xfer \in [start : Nat, skip : Nat, count : Nat, total : Nat, done : Nat]
      /\ xfer.start % SECTOR = 0 /\ xfer.total % SECTOR = 0 /\ xfer.done % SECTOR = 0
      /\ xfer.done = 0 \/ xfer.start + xfer.done <= DiscBytes
      /\ OnDevice => xfer.start + xfer.total <= DiscBytes
      /\ xfer.done < xfer.total
  BY DEF Transfers, Pread
<1>3. xfer.start \in Nat /\ xfer.done \in Nat /\ xfer.total \in Nat
  BY <1>2
<1>4. most \in Nat /\ xfer.done + most <= xfer.total
      /\ (most # 0 => xfer.start + xfer.done + most <= DiscBytes)
      /\ (OnDevice => most # 0)
  <2>1. /\ Chunk \in Nat \ {0} /\ xfer.done + Chunk <= xfer.total
    <3> DEFINE rest == xfer.total - xfer.done
    <3>1. rest \in Nat \ {0} /\ xfer.done + rest = xfer.total
      BY <1>2, <1>3
    <3>2. Chunk = IF rest < MAX_XFER THEN rest ELSE MAX_XFER
      BY DEF Chunk, Smaller
    <3> HIDE DEF rest
    <3>3. Chunk \in Nat \ {0} /\ Chunk <= rest
      BY <1>1, <3>1, <3>2
    <3>4. QED
      BY <1>3, <3>1, <3>3
  <2>2. left \in Nat /\ (left # 0 => xfer.start + xfer.done + left <= DiscBytes)
    BY <1>1, <1>3 DEF Greater
  <2>3. OnDevice => left # 0
    BY <1>1, <1>2, <1>3 DEF Greater
  <2> HIDE DEF left
  <2>4. most \in Nat /\ most <= Chunk /\ most <= left /\ (left # 0 => most # 0)
    BY <2>1, <2>2 DEF Smaller
  <2>5. most # 0 => left # 0
    BY <2>2, <2>4
  <2> HIDE DEF most
  <2>6. xfer.done + most <= xfer.total
    BY <1>3, <2>1, <2>4
  <2>7. most # 0 => xfer.start + xfer.done + most <= DiscBytes
    BY <1>1, <1>3, <2>2, <2>4, <2>5
  <2>8. QED
    BY <2>3, <2>4, <2>6, <2>7
<1>5. IF most = 0 THEN xfer' = [xfer EXCEPT !.total = xfer.done]
      ELSE \E n \in {k * SECTOR : k \in 1..(most \div SECTOR)} : xfer' = [xfer EXCEPT !.done = @ + n]
  BY DEF Pread
<1> HIDE DEF most
<1>6. CASE most = 0
  <2>1. xfer' = [xfer EXCEPT !.total = xfer.done]
    BY <1>5, <1>6
  <2>2. QED
    BY <1>2, <1>3, <1>4, <1>6, <2>1
<1>7. CASE most # 0
  <2>1. PICK k \in 1..(most \div SECTOR) : xfer' = [xfer EXCEPT !.done = @ + k * SECTOR]
    BY <1>5, <1>7
  <2> DEFINE n == k * SECTOR
             top == (most \div SECTOR) * SECTOR
  <2>2. most \div SECTOR \in Nat /\ top \in Nat /\ top <= most
    BY <1>1, <1>4, Divided
  <2>3. n \in Nat /\ n % SECTOR = 0
    BY <1>1, <2>2, ProductDivided
  <2>4. n <= top
    BY <1>1, <2>2
  <2> HIDE DEF n, top
  <2>5. (xfer.done + n) % SECTOR = 0
    BY <1>1, <1>2, <1>3, <2>3, SumDivided
  <2>6. xfer' = [xfer EXCEPT !.done = xfer.done + n]
    BY <2>1 DEF n
  <2>7. /\ xfer' \in [start : Nat, skip : Nat, count : Nat, total : Nat, done : Nat]
        /\ xfer'.start = xfer.start /\ xfer'.skip = xfer.skip /\ xfer'.count = xfer.count
        /\ xfer'.total = xfer.total /\ xfer'.done = xfer.done + n
    BY <1>2, <1>3, <2>3, <2>6
  <2>8. xfer.done + n <= xfer.total /\ xfer.start + (xfer.done + n) <= DiscBytes
    BY <1>1, <1>3, <1>4, <1>7, <2>2, <2>3, <2>4
  <2>9. QED
    BY <1>2, <2>5, <2>7, <2>8
<1>8. QED
  BY <1>6, <1>7

-----------------------------------------------------------------------------
(* Every step keeps the invariant, part by part *)

Begins == (\E off, count \in 0..layout.size : ReadRange(off, count)) \/ ReadWhole
Stays  == Failed \/ UNCHANGED vars

\* The steps one by one.
LEMMA Steps ==
    ASSUME [Next]_vars
    PROVE  \/ BuildSpaces \/ Meta \/ Begins \/ SkipExtent \/ OpenExtent \/ Pread \/ PreadFails
           \/ CloseExtent \/ Reply \/ Again \/ Stays
BY DEF Next, Begins, Stays

\* Nothing moves.
LEMMA Still ==
    ASSUME Stays
    PROVE  /\ layout' = layout /\ spaces' = spaces /\ extents' = extents /\ read' = read
           /\ next' = next /\ pos' = pos /\ xfer' = xfer /\ out' = out /\ pc' = pc
BY DEF Stays, Failed, vars

\* No step changes the disc.
LEMMA DiscStays ==
    ASSUME TypeOK, [Next]_vars
    PROVE  layout' = layout
<1>1. Begins => layout' = layout
  BY LayoutIsDisc, BeginFacts DEF Begins
<1>2. QED
  BY Steps, Still, <1>1
  DEF BuildSpaces, Meta, SkipExtent, OpenExtent, Pread, PreadFails, CloseExtent, Reply, Again

\* TypeOK is kept.
LEMMA TypeStep ==
    ASSUME IInv, [Next]_vars
    PROVE  TypeOK'
<1> USE DEF IInv
<1>1. /\ layout \in Layouts /\ extents \in Runs
      /\ pos \in Nat /\ next \in 1..Len(extents) + 1
      /\ read # None => read.off <= read.end /\ read.end <= layout.size
      /\ xfer # None => xfer.done <= xfer.total
      /\ out \in Seq(0..DiscBytes - 1)
      /\ Len(extents) \in Nat
  BY DEF TypeOK, Runs
<1>2. layout' \in Layouts
  BY <1>1, DiscStays
<1>3. layout \in Disc
  BY LayoutIsDisc
<1>4. <<>> \in Seq(0..DiscBytes - 1)
  OBVIOUS
<1>5. CASE BuildSpaces
  BY <1>1, <1>2, <1>5 DEF BuildSpaces, Outcome, TypeOK, Runs
<1>6. CASE Meta
  <2>1. next = 1
    <3>1. extents = <<>>
      BY <1>6 DEF Meta, Located, Before
    <3>2. Len(extents) = 0
      BY <3>1
    <3>3. QED
      BY <1>1, <3>2
  <2>2. extents' \in Runs /\ pc' \in {"failed", "idle"}
    <3>1. (pc' = "failed" /\ extents' = extents) \/ pc' = "idle"
      BY <1>6 DEF Meta
    <3>2. QED
      BY <1>1, <1>3, <1>6, <3>1, ExtentsFound
  <2>3. 1 \in 1..Len(extents') + 1
    BY <2>2 DEF Runs
  <2>4. read' = read /\ xfer' = xfer /\ out' = out /\ next' = next /\ pos' = pos /\ layout' = layout
    BY <1>6 DEF Meta
  <2>5. QED
    BY <1>1, <1>2, <2>1, <2>2, <2>3, <2>4 DEF TypeOK, Runs
<1>7. CASE Begins
  <2>1. /\ pc' = "extent" /\ next' = 1 /\ pos' = 0 /\ out' = <<>> /\ xfer' = None
        /\ extents' = extents /\ layout' = layout
        /\ read'.off <= read'.end /\ read'.end <= layout.size
    BY <1>3, <1>7, BeginFacts DEF Begins
  <2>2. QED
    BY <1>1, <1>2, <1>4, <2>1 DEF TypeOK, Runs
<1>8. CASE SkipExtent
  <2>1. pc = "extent" /\ next \in DOMAIN extents /\ pos = LengthOf(extents, next - 1)
    BY <1>8, MoreExtents DEF SkipExtent, Reading, Within
  <2>2. ExtEnd \in Nat /\ next + 1 \in 1..Len(extents) + 1
    BY <2>1, ExtentAtHand
  <2>3. QED
    BY <1>1, <1>2, <1>8, <2>1, <2>2 DEF SkipExtent, TypeOK, Runs
<1>9. CASE OpenExtent
  <2>1. xfer' = Cover(extents[next][1] + StartIn, Take) /\ pc = "extent" /\ pc' = "pread"
        /\ layout' = layout /\ extents' = extents /\ read' = read
        /\ next' = next /\ pos' = pos /\ out' = out
    BY <1>9 DEF OpenExtent
  <2>2. next \in DOMAIN extents /\ (~read.whole => pos < read.end /\ read.off < ExtEnd)
    BY <1>9, MoreExtents DEF OpenExtent
  <2>3. StartIn \in Nat /\ Take \in Nat
    BY <2>1, <2>2, Wanted DEF Within
  <2>4. extents[next][1] \in Nat
    BY <2>1, <2>2, ExtentAtHand DEF Reading, Within
  <2>5. xfer'.done <= xfer'.total
    <3>1. extents[next][1] + StartIn \in Nat
      BY <2>3, <2>4
    <3> DEFINE c == Cover(extents[next][1] + StartIn, Take)
    <3>2. c \in [start : Nat, skip : Nat, count : Nat, total : Nat, done : Nat] /\ c.done = 0
      BY <2>3, <3>1, CoverFacts
    <3> HIDE DEF c
    <3>3. c.done <= c.total
      BY <3>2
    <3>4. QED
      BY <2>1, <3>3 DEF c
  <2>6. QED
    BY <1>1, <1>2, <2>1, <2>5 DEF TypeOK, Runs
<1>10. CASE Pread
  <2>1. xfer'.done <= xfer'.total
    BY <1>10, PreadFacts
  <2>2. QED
    BY <1>1, <1>2, <1>10, <2>1 DEF Pread, TypeOK, Runs
<1>11. CASE PreadFails
  BY <1>1, <1>2, <1>11 DEF PreadFails, TypeOK, Runs
<1>12. CASE CloseExtent
  <2>1. pc = "pread" /\ pc' = "extent" /\ xfer.done = xfer.total
        /\ out' = out \o Piece /\ pos' = ExtEnd /\ next' = next + 1
        /\ layout' = layout /\ extents' = extents /\ read' = read /\ xfer' = xfer
    BY <1>12 DEF CloseExtent, Piece, Given
  <2>2. Piece \in Seq(0..DiscBytes - 1)
    BY <2>1, PieceFacts
  <2>3. out' \in Seq(0..DiscBytes - 1)
    BY <1>1, <2>1, <2>2, JoinedRuns
  <2>4. next \in DOMAIN extents /\ pos = LengthOf(extents, next - 1)
    BY <2>1 DEF Transfers, Reading, Within
  <2>5. ExtEnd \in Nat /\ next + 1 \in 1..Len(extents) + 1
    BY <2>4, ExtentAtHand
  <2>6. QED
    BY <1>1, <1>2, <2>1, <2>3, <2>5 DEF TypeOK, Runs
<1>13. CASE Reply
  <2>1. /\ pc = "extent" /\ pc' = "done"
        /\ out' = SubSeq(out, 1, Smaller(Len(out), read.end - read.off))
        /\ layout' = layout /\ extents' = extents /\ read' = read /\ xfer' = xfer
        /\ next' = next /\ pos' = pos
    BY <1>13 DEF Reply
  <2>2. read.off \in Nat /\ read.end \in Nat /\ read.off <= read.end
    BY <2>1 DEF Reading, Within
  <2>3. Smaller(Len(out), read.end - read.off) \in 0..Len(out)
    BY <1>1, <2>2 DEF Smaller
  <2>4. out' \in Seq(0..DiscBytes - 1)
    BY <1>1, <2>1, <2>3, Beginning
  <2>5. QED
    BY <1>1, <1>2, <2>1, <2>4 DEF TypeOK, Runs
<1>14. CASE Again
  BY <1>1, <1>2, <1>4, <1>14 DEF Again, TypeOK, Runs
<1>15. CASE Stays
  BY <1>15, Still DEF TypeOK
<1>16. QED
  BY Steps, <1>5, <1>6, <1>7, <1>8, <1>9, <1>10, <1>11, <1>12, <1>13, <1>14, <1>15

\* Resolves is kept: nothing but build_spaces leads to meta.
LEMMA ResolvesStep ==
    ASSUME IInv, [Next]_vars
    PROVE  Resolves'
<1>1. TypeOK /\ Resolves
  BY DEF IInv
<1>2. CASE BuildSpaces
  BY <1>1, <1>2, LayoutIsDisc, SpacesBuilt
<1>3. CASE Stays
  <2>1. layout' = layout /\ spaces' = spaces /\ pc' = pc
    BY <1>3, Still
  <2>2. ASSUME NEW ref, NEW block
        PROVE  /\ Resolve(ref, block)' = Resolve(ref, block)
               /\ SectorOf(ref, block)' = SectorOf(ref, block) /\ NoHoles' = NoHoles
    <3>1. Resolve(ref, block)' = Resolve(ref, block)
      BY <2>1 DEF Resolve
    <3>2. QED
      BY <2>1, <3>1, SameDisc
  <2>3. QED
    BY <1>1, <2>1, <2>2 DEF Resolves
<1>4. CASE ~BuildSpaces /\ ~Stays
  <2>1. Begins => pc' = "extent"
    BY <1>1, LayoutIsDisc, BeginFacts DEF Begins
  <2>2. pc' # "meta"
    BY <1>4, <2>1, Steps
    DEF Meta, SkipExtent, OpenExtent, Pread, PreadFails, CloseExtent, Reply, Again
  <2>3. QED
    BY <2>2 DEF Resolves
<1>5. QED
  BY <1>2, <1>3, <1>4

\* Located is kept: the extents change in meta only.
LEMMA LocatedStep ==
    ASSUME IInv, [Next]_vars
    PROVE  Located'
<1>1. TypeOK /\ Resolves /\ Located /\ layout \in Disc
  BY LayoutIsDisc DEF IInv
<1>2. /\ layout' = layout
      /\ \A ref, block : SectorOf(ref, block)' = SectorOf(ref, block)
      /\ \A e : RefOf(e)' = RefOf(e)
      /\ NoHoles' = NoHoles /\ FileRuns' = FileRuns
  BY <1>1, DiscStays, SameDisc DEF FileRuns
<1>3. ASSUME extents' = extents, pc' \in Before <=> pc \in Before
      PROVE  Located'
  BY <1>1, <1>2, <1>3 DEF Located
<1>4. CASE Meta /\ pc' = "idle"
  <2>1. NoHoles =>
            /\ extents' = FileRuns
            /\ \A i \in DOMAIN extents' :
                  LET e == layout.file[i] IN SectorOf(RefOf(e), e.block) \in Nat
    BY <1>1, <1>4, ExtentsFound
  <2>2. pc' \notin Before
    BY <1>4 DEF Before
  <2>3. QED
    BY <1>2, <2>1, <2>2 DEF Located
<1>5. CASE Begins
  <2>1. pc = "idle" /\ pc' = "extent" /\ extents' = extents
    BY <1>1, <1>5, BeginFacts DEF Begins
  <2>2. QED
    BY <1>3, <2>1 DEF Before
<1>6. CASE Stays
  BY <1>3, <1>6, Still
<1>7. CASE BuildSpaces \/ (Meta /\ pc' # "idle")
  <2>1. pc \in Before /\ pc' \in Before /\ extents' = extents
    BY <1>7 DEF BuildSpaces, Outcome, Meta, Before
  <2>2. QED
    BY <1>3, <2>1
<1>8. CASE SkipExtent \/ OpenExtent \/ Pread \/ PreadFails \/ CloseExtent \/ Reply \/ Again
  <2>1. pc \notin Before /\ pc' \notin Before /\ extents' = extents
    BY <1>8 DEF SkipExtent, OpenExtent, Pread, PreadFails, CloseExtent, Reply, Again, Before
  <2>2. QED
    BY <1>3, <2>1
<1>9. QED
  BY Steps, <1>4, <1>5, <1>6, <1>7, <1>8

\* Reading is kept: the first byte of the extent at hand is where the extents
\* before it end.
LEMMA ReadingStep ==
    ASSUME IInv, [Next]_vars
    PROVE  Reading'
<1>1. TypeOK /\ Reading /\ layout \in Disc
  BY LayoutIsDisc DEF IInv
<1>2. layout' = layout
  BY <1>1, DiscStays
<1>3. CASE BuildSpaces \/ Meta
  <2>1. pc \notin Within /\ pc' \notin Within /\ read' = read /\ xfer' = xfer
    BY <1>3 DEF BuildSpaces, Outcome, Meta, Within
  <2>2. QED
    BY <1>1, <2>1 DEF Reading
<1>4. CASE Begins
  <2>1. /\ pc' = "extent" /\ next' = 1 /\ pos' = 0 /\ extents' = extents
        /\ read' \in [off : Nat, end : Nat, whole : BOOLEAN]
        /\ read'.off <= read'.end /\ read'.end <= layout.size
        /\ read'.whole => read'.off = 0
    BY <1>1, <1>4, BeginFacts DEF Begins
  <2>2. LengthOf(extents, 0) = 0
    BY <1>1, LengthFacts DEF TypeOK, Runs
  <2>3. pos' = LengthOf(extents', next' - 1)
    BY <2>1, <2>2
  <2>4. QED
    BY <1>2, <2>1, <2>3 DEF Reading, Within
<1>5. CASE SkipExtent \/ CloseExtent
  <2>1. /\ pc \in Within /\ pc' \in Within /\ pos' = ExtEnd /\ next' = next + 1
        /\ extents' = extents /\ read' = read
    BY <1>5 DEF SkipExtent, CloseExtent, Within
  <2>2. next \in DOMAIN extents
    BY <1>1, <1>5, MoreExtents DEF IInv, SkipExtent, CloseExtent, Transfers
  <2>3. ExtEnd = LengthOf(extents, next) /\ (next + 1) - 1 = next
    BY <1>1, <2>1, <2>2, ExtentAtHand DEF Reading
  <2>4. pos' = LengthOf(extents', next' - 1)
    BY <2>1, <2>3
  <2>5. QED
    BY <1>1, <1>2, <2>1, <2>4 DEF Reading
<1>6. CASE OpenExtent \/ Pread \/ PreadFails \/ Reply
  <2>1. /\ pc \in Within /\ pc' \in Within /\ read' = read /\ pos' = pos /\ next' = next
        /\ extents' = extents
    BY <1>6 DEF OpenExtent, Pread, PreadFails, Reply, Within
  <2>2. QED
    BY <1>1, <1>2, <2>1 DEF Reading
<1>7. CASE Again
  <2>1. read' = None /\ xfer' = None /\ pc' = "idle"
    BY <1>7 DEF Again
  <2>2. QED
    BY <2>1 DEF Reading, Within
<1>8. CASE Stays
  BY <1>1, <1>8, Still DEF Reading
<1>9. QED
  BY Steps, <1>3, <1>4, <1>5, <1>6, <1>7, <1>8

\* While the file and the range stay, so do the bytes that are wanted.
LEMMA SameFile ==
    ASSUME layout' = layout, extents' = extents, read' = read
    PROVE  /\ OnDevice' = OnDevice
           /\ \A n : Bytes(n)' = Bytes(n)
<1>1. OnDevice' = OnDevice
  BY DEF OnDevice
<1>2. ASSUME NEW k PROVE ByteAt(k)' = ByteAt(k)
  BY DEF ByteAt
<1>3. ASSUME NEW n PROVE Bytes(n)' = Bytes(n)
  BY <1>2 DEF Bytes
<1>4. QED
  BY <1>1, <1>3

\* While the extent at hand stays, so does what is wanted of it.
LEMMA SameExtent ==
    ASSUME extents' = extents, read' = read, next' = next, pos' = pos
    PROVE  ExtEnd' = ExtEnd /\ StartIn' = StartIn /\ Take' = Take /\ SoFar' = SoFar
<1>1. ExtEnd' = ExtEnd
  BY DEF ExtEnd
<1>2. StartIn' = StartIn
  BY DEF StartIn
<1>3. QED
  BY <1>1, <1>2 DEF Take, SoFar

\* Transfers is kept.
LEMMA TransfersStep ==
    ASSUME IInv, [Next]_vars
    PROVE  Transfers'
<1>1. TypeOK /\ Reading /\ Transfers /\ layout \in Disc
  BY LayoutIsDisc DEF IInv
<1>2. layout' = layout
  BY <1>1, DiscStays
<1>3. CASE OpenExtent
  <2> DEFINE c == Cover(extents[next][1] + StartIn, Take)
  <2>1. /\ xfer' = c /\ pc = "extent" /\ ~Finished
        /\ extents' = extents /\ read' = read /\ next' = next /\ pos' = pos
        /\ read.whole \/ read.off < ExtEnd
    BY <1>3 DEF OpenExtent
  <2>2. next \in DOMAIN extents /\ (~read.whole => pos < read.end /\ read.off < ExtEnd)
    BY <1>1, <2>1, MoreExtents
  <2>3. StartIn \in Nat /\ Take \in Nat /\ StartIn + Take <= extents[next][2]
    BY <1>1, <2>1, <2>2, Wanted DEF Within
  <2>4. extents[next][1] \in Nat /\ extents[next][2] \in Nat
    BY <1>1, <2>1, <2>2, ExtentAtHand DEF Reading, Within
  <2>5. extents[next][1] + StartIn \in Nat
    BY <2>3, <2>4
  <2>6. /\ c \in [start : Nat, skip : Nat, count : Nat, total : Nat, done : Nat]
        /\ c.start % SECTOR = 0 /\ c.total % SECTOR = 0 /\ c.done = 0
        /\ c.start + c.skip = extents[next][1] + StartIn /\ c.count = Take
        /\ c.skip + Take <= c.total
        /\ (extents[next][1] + StartIn) + Take <= DiscBytes => c.start + c.total <= DiscBytes
    BY <2>3, <2>5, CoverFacts
  <2>7. OnDevice => (extents[next][1] + StartIn) + Take <= DiscBytes
    <3>1. OnDevice => extents[next][1] + extents[next][2] <= DiscBytes
      BY <2>2 DEF OnDevice
    <3>2. QED
      BY <2>3, <2>4, <3>1, SizesAssumption
  <2>8. OnDevice' = OnDevice /\ ExtEnd' = ExtEnd /\ StartIn' = StartIn /\ Take' = Take
    BY <1>2, <2>1, SameFile, SameExtent
  <2> HIDE DEF c
  <2>9. c.done <= c.total /\ c.done % SECTOR = 0
    BY <2>6, SizesAssumption
  <2>10. QED
    BY <2>1, <2>2, <2>6, <2>7, <2>8, <2>9 DEF Transfers
<1>4. CASE Pread
  <2>1. /\ pc = "pread" /\ extents' = extents /\ read' = read /\ next' = next /\ pos' = pos
    BY <1>4 DEF Pread
  <2>2. OnDevice' = OnDevice /\ ExtEnd' = ExtEnd /\ StartIn' = StartIn /\ Take' = Take
    BY <1>2, <2>1, SameFile, SameExtent
  <2>3. /\ xfer' \in [start : Nat, skip : Nat, count : Nat, total : Nat, done : Nat]
        /\ xfer'.start = xfer.start /\ xfer'.skip = xfer.skip /\ xfer'.count = xfer.count
        /\ xfer'.total % SECTOR = 0 /\ xfer'.done % SECTOR = 0
        /\ xfer'.done <= xfer'.total
        /\ xfer'.done = 0 \/ xfer'.start + xfer'.done <= DiscBytes
        /\ OnDevice => xfer'.total = xfer.total
    BY <1>1, <1>4, PreadFacts
  <2>4. QED
    BY <1>1, <2>1, <2>2, <2>3 DEF Transfers
<1>5. CASE Stays
  <2>1. pc' = pc /\ xfer' = xfer /\ extents' = extents /\ read' = read /\ next' = next /\ pos' = pos
    BY <1>5, Still
  <2>2. OnDevice' = OnDevice /\ ExtEnd' = ExtEnd /\ StartIn' = StartIn /\ Take' = Take
    BY <1>2, <2>1, SameFile, SameExtent
  <2>3. QED
    BY <1>1, <2>1, <2>2 DEF Transfers
<1>6. CASE ~OpenExtent /\ ~Pread /\ ~Stays
  <2>1. Begins => pc' = "extent"
    BY <1>1, BeginFacts DEF Begins
  <2>2. pc' # "pread"
    BY <1>6, <2>1, Steps
    DEF BuildSpaces, Outcome, Meta, SkipExtent, PreadFails, CloseExtent, Reply, Again
  <2>3. QED
    BY <2>2 DEF Transfers
<1>7. QED
  BY <1>3, <1>4, <1>5, <1>6

\* Collected is kept: a skipped extent has nothing of the range, an opened one
\* goes on where the read is, and the last bytes are cut off.
LEMMA CollectedStep ==
    ASSUME IInv, [Next]_vars
    PROVE  Collected'
<1>1. TypeOK /\ Reading /\ Transfers /\ Collected /\ layout \in Disc
  BY LayoutIsDisc DEF IInv
<1>2. layout' = layout
  BY <1>1, DiscStays
<1>3. CASE BuildSpaces \/ Meta \/ PreadFails \/ Again
  <2>1. pc' \notin {"extent", "pread", "done"}
    BY <1>3 DEF BuildSpaces, Outcome, Meta, PreadFails, Again
  <2>2. QED
    BY <2>1 DEF Collected
<1>4. CASE Begins
  <2>1. /\ pc' = "extent" /\ pos' = 0 /\ out' = <<>>
        /\ read' \in [off : Nat, end : Nat, whole : BOOLEAN]
    BY <1>1, <1>4, BeginFacts DEF Begins
  <2>2. read'.off \in Nat /\ read'.end \in Nat
    BY <2>1
  <2>3. SoFar' = 0
    <3>1. SoFar' = IF read'.whole THEN pos' ELSE Greater(Smaller(read'.end, pos') - read'.off, 0)
      BY DEF SoFar
    <3>2. Greater(Smaller(read'.end, 0) - read'.off, 0) = 0
      BY <2>2 DEF Greater, Smaller
    <3>3. QED
      BY <2>1, <3>1, <3>2
  <2>4. Bytes(0)' = <<>>
    BY DEF Bytes
  <2>5. (out = Bytes(SoFar))'
    BY <2>1, <2>3, <2>4
  <2>6. QED
    BY <2>1, <2>5 DEF Collected
<1>5. CASE SkipExtent
  <2>1. /\ pc = "extent" /\ pc' = "extent" /\ ~Finished /\ ~read.whole /\ read.off >= ExtEnd
        /\ pos' = ExtEnd /\ out' = out /\ extents' = extents /\ read' = read
    BY <1>5 DEF SkipExtent
  <2>2. next \in DOMAIN extents
    BY <1>1, <2>1, MoreExtents
  <2>3. read.off \in Nat /\ read.end \in Nat /\ pos = LengthOf(extents, next - 1)
    BY <1>1, <2>1 DEF Reading, Within
  <2>4. ExtEnd \in Nat /\ pos \in Nat /\ pos <= ExtEnd
    BY <1>1, <2>2, <2>3, ExtentAtHand
  <2>5. SoFar = 0
    BY <2>1, <2>3, <2>4 DEF SoFar, Greater, Smaller
  <2>6. SoFar' = 0
    <3>1. SoFar' = Greater(Smaller(read.end, ExtEnd) - read.off, 0)
      BY <2>1 DEF SoFar
    <3>2. QED
      BY <2>1, <2>3, <2>4, <3>1 DEF Greater, Smaller
  <2>7. OnDevice' = OnDevice /\ \A n : Bytes(n)' = Bytes(n)
    BY <1>2, <2>1, SameFile
  <2>8. OnDevice => out = Bytes(0)
    BY <1>1, <2>1, <2>5 DEF Collected
  <2>9. QED
    BY <2>1, <2>6, <2>7, <2>8 DEF Collected
<1>6. CASE OpenExtent \/ Pread
  <2>1. /\ pc \in {"extent", "pread"} /\ pc' = "pread"
        /\ out' = out /\ extents' = extents /\ read' = read /\ pos' = pos /\ next' = next
    BY <1>6 DEF OpenExtent, Pread, Transfers
  <2>2. OnDevice' = OnDevice /\ (\A n : Bytes(n)' = Bytes(n)) /\ SoFar' = SoFar
    BY <1>2, <2>1, SameFile, SameExtent
  <2>3. QED
    BY <1>1, <2>1, <2>2 DEF Collected
<1>7. CASE CloseExtent
  <2>1. /\ pc = "pread" /\ pc' = "extent" /\ xfer.done = xfer.total
        /\ out' = out \o Piece /\ pos' = ExtEnd /\ next' = next + 1
        /\ extents' = extents /\ read' = read
    BY <1>7 DEF CloseExtent, Piece, Given
  <2>2. OnDevice' = OnDevice /\ \A n : Bytes(n)' = Bytes(n)
    BY <1>2, <2>1, SameFile
  <2>3. next \in DOMAIN extents /\ (~read.whole => pos < read.end /\ read.off < ExtEnd)
    BY <1>1, <2>1 DEF Transfers
  <2>4. SoFar \in Nat /\ Take \in Nat /\ SoFarAfter = SoFar + Take
    BY <1>1, <2>1, <2>3, Wanted DEF Within
  <2>5. SoFar' = SoFarAfter
    BY <2>1 DEF SoFar, SoFarAfter
  <2>6. ASSUME OnDevice PROVE out' = Bytes(SoFarAfter)
    <3>1. out = Bytes(SoFar)
      BY <1>1, <2>1, <2>6 DEF Collected
    <3>2. out \in Seq(0..DiscBytes - 1)
      BY <1>1 DEF TypeOK
    <3>3. Piece \in Seq(0..DiscBytes - 1)
          /\ Piece = [i \in 1..Take |-> ByteAt(read.off + (SoFar + i) - 1)]
      BY <1>1, <2>1, <2>6, PieceFacts
    <3>4. out \o Piece = Bytes(SoFar + Take)
      BY <2>4, <3>1, <3>2, <3>3, BytesJoined
    <3>5. QED
      BY <2>1, <2>4, <3>4
  <2>7. QED
    BY <2>1, <2>2, <2>5, <2>6 DEF Collected
<1>8. CASE Reply
  <2>1. /\ pc = "extent" /\ pc' = "done" /\ Finished
        /\ out' = SubSeq(out, 1, Smaller(Len(out), read.end - read.off))
        /\ extents' = extents /\ read' = read
    BY <1>8 DEF Reply
  <2>2. OnDevice' = OnDevice /\ \A n : Bytes(n)' = Bytes(n)
    BY <1>2, <2>1, SameFile
  <2>3. /\ read.off \in Nat /\ read.end \in Nat /\ read.off <= read.end /\ read.end <= layout.size
        /\ read.whole \in BOOLEAN /\ (read.whole => read.off = 0)
        /\ pos = LengthOf(extents, next - 1) /\ pos \in Nat
        /\ next \in 1..Len(extents) + 1 /\ extents \in Runs /\ Len(extents) \in Nat
    BY <1>1, <2>1 DEF Reading, Within, TypeOK, Runs
  <2>4. ASSUME OnDevice PROVE out' = Bytes(read.end - read.off)
    <3>1. out = Bytes(SoFar)
      BY <1>1, <2>1, <2>4 DEF Collected
    <3>2. SoFar \in Nat
      BY <2>3 DEF SoFar, Greater, Smaller
    <3>3. Len(out) = SoFar
      BY <3>1, <3>2, BytesCut
    <3>4. read.end <= pos
      <4>1. CASE next > Len(extents)
        <5>1. next - 1 = Len(extents)
          BY <2>3, <4>1
        <5>2. layout.size <= pos
          BY <2>3, <2>4, <5>1 DEF OnDevice
        <5>3. layout.size \in Nat
          BY <1>1 DEF Disc
        <5>4. QED
          BY <2>3, <5>2, <5>3
      <4>2. CASE read.end <= (IF read.whole THEN Len(out) ELSE pos)
        BY <2>3, <3>3, <4>2 DEF SoFar
      <4>3. QED
        BY <2>1, <4>1, <4>2 DEF Finished
    <3>5. read.end - read.off \in Nat /\ read.end - read.off <= SoFar
      BY <2>3, <3>4 DEF SoFar, Greater, Smaller
    <3>6. Smaller(Len(out), read.end - read.off) = read.end - read.off
      BY <3>2, <3>3, <3>5 DEF Smaller
    <3>7. SubSeq(out, 1, read.end - read.off) = Bytes(read.end - read.off)
      BY <3>1, <3>2, <3>5, BytesCut
    <3>8. QED
      BY <2>1, <3>6, <3>7
  <2>5. QED
    BY <2>1, <2>2, <2>4 DEF Collected
<1>9. CASE Stays
  <2>1. pc' = pc /\ out' = out /\ extents' = extents /\ read' = read /\ next' = next /\ pos' = pos
    BY <1>9, Still
  <2>2. OnDevice' = OnDevice /\ (\A n : Bytes(n)' = Bytes(n)) /\ SoFar' = SoFar
    BY <1>2, <2>1, SameFile, SameExtent
  <2>3. QED
    BY <1>1, <2>1, <2>2 DEF Collected
<1>10. QED
  BY Steps, <1>3, <1>4, <1>5, <1>6, <1>7, <1>8, <1>9

\* Every step keeps the invariant.
LEMMA StepHolds ==
    ASSUME IInv, [Next]_vars
    PROVE  IInv'
BY TypeStep, ResolvesStep, LocatedStep, ReadingStep, TransfersStep, CollectedStep DEF IInv

\* The invariant always holds.
LEMMA InvariantHolds == Spec => []IInv
<1>1. Init => IInv
  BY InitHolds
<1>2. IInv /\ [Next]_vars => IInv'
  BY StepHolds
<1>3. QED
  BY <1>1, <1>2, PTL DEF Spec

-----------------------------------------------------------------------------
(* The theorems *)

\* A byte of a file lies in one of its extents.
LEMMA InSomeRun ==
    ASSUME NEW runs \in Runs, NEW k \in Nat, k < LengthOf(runs, Len(runs))
    PROVE  \E i \in DOMAIN runs :
              \E r \in Nat : r < runs[i][2] /\ k = LengthOf(runs, i - 1) + r
<1> DEFINE hits == {i \in 0..Len(runs) : k < LengthOf(runs, i)}
<1>1. Len(runs) \in Nat /\ DOMAIN runs = 1..Len(runs)
  BY DEF Runs
<1>2. hits \in SUBSET Nat /\ Len(runs) \in hits
  BY <1>1
<1>3. PICK i \in hits : \A j \in hits : i <= j
  <2> HIDE DEF hits
  <2>1. QED
    BY <1>2, Least
<1>4. i \in 0..Len(runs) /\ k < LengthOf(runs, i)
  OBVIOUS
<1>5. i # 0
  BY <1>4, LengthFacts
<1>6. i \in 1..Len(runs) /\ i - 1 \in 0..Len(runs) /\ i - 1 < i
  BY <1>1, <1>4, <1>5
<1>7. i - 1 \notin hits
  <2> HIDE DEF hits
  <2>1. QED
    BY <1>3, <1>6
<1>8. LengthOf(runs, i - 1) \in Nat /\ ~(k < LengthOf(runs, i - 1))
  BY <1>6, <1>7, LengthFacts
<1>9. LengthOf(runs, i) = LengthOf(runs, i - 1) + runs[i][2]
  BY <1>6, LengthFacts
<1>10. runs[i] \in Nat \X Nat
  BY <1>1, <1>6 DEF Runs
<1>11. runs[i][2] \in Nat
  BY <1>10
<1> DEFINE r == k - LengthOf(runs, i - 1)
<1>12. r \in Nat /\ r < runs[i][2] /\ k = LengthOf(runs, i - 1) + r
  BY <1>4, <1>8, <1>9, <1>11
<1>13. QED
  BY <1>1, <1>6, <1>12

\* Where the extents of a readable file have a byte is where the disc has it.
LEMMA ByteIsFileByte ==
    ASSUME TypeOK, Located, pc \notin Before, Readable,
           NEW k \in Nat, k < LengthOf(extents, Len(extents))
    PROVE  ByteAt(k) = FileByte(k)
<1>1. extents \in Runs /\ layout \in Disc /\ SECTOR \in Nat \ {0}
  BY LayoutIsDisc, SizesAssumption DEF TypeOK, Runs
<1>2. PICK i \in DOMAIN extents : \E r \in Nat : r < extents[i][2] /\ k = LengthOf(extents, i - 1) + r
  BY <1>1, InSomeRun
<1>3. PICK r \in Nat : r < extents[i][2] /\ k = LengthOf(extents, i - 1) + r
  BY <1>2
<1>4. At(extents, k) = [run |-> i, off |-> r]
  BY <1>1, <1>3, AtRun
<1> DEFINE e == layout.file[i]
           first == SectorOf(RefOf(e), e.block)
           q == r \div SECTOR
<1>5. extents = FileRuns /\ first \in Nat
  BY DEF Located, Readable
<1>6. i \in DOMAIN layout.file
  BY <1>5 DEF FileRuns
<1>7. first \in Nat /\ extents[i] = <<first * SECTOR, e.length>>
  BY <1>5, <1>6 DEF FileRuns
<1>8. e.length \in Nat
  <2>1. e \in Ad
    BY <1>1, <1>6 DEF Disc
  <2>2. QED
    BY <2>1 DEF Ad
<1>9. Unbroken(e)
  BY <1>6 DEF Readable
<1>10. r \in 0..e.length - 1
  BY <1>3, <1>7, <1>8
<1>11. SectorOf(RefOf(e), e.block + q) = first + q
  BY <1>9, <1>10 DEF Unbroken
<1>12. q \in Nat /\ q * SECTOR \in Nat /\ r % SECTOR \in Nat /\ r = q * SECTOR + (r % SECTOR)
  <2>1. q \in Nat /\ r % SECTOR \in 0..SECTOR - 1 /\ q * SECTOR \in Nat
        /\ r = q * SECTOR + (r % SECTOR)
    BY <1>1, Divided
  <2>2. QED
    BY <1>1, <2>1
<1>13. FileByte(k) = SectorOf(RefOf(e), e.block + q) * SECTOR + (r % SECTOR)
  BY <1>4, <1>5 DEF FileByte
<1>14. ByteAt(k) = extents[i][1] + r
  BY <1>4 DEF ByteAt
<1> HIDE DEF e, first, q
<1>15. (first + q) * SECTOR = first * SECTOR + q * SECTOR /\ first * SECTOR \in Nat
  BY <1>1, <1>7, <1>12
<1>16. FileByte(k) = (first * SECTOR + q * SECTOR) + (r % SECTOR)
  BY <1>11, <1>13, <1>15
<1>17. ByteAt(k) = first * SECTOR + r
  BY <1>7, <1>14
<1>18. QED
  BY <1>12, <1>15, <1>16, <1>17

\* The invariant implies ReadsFile.
LEMMA InvReadsFile ==
    ASSUME IInv
    PROVE  ReadsFile
<1> SUFFICES ASSUME pc = "done", Readable
             PROVE  out = [i \in 1..(read.end - read.off) |-> FileByte(read.off + i - 1)]
  BY DEF ReadsFile
<1>1. TypeOK /\ Located /\ Reading /\ Collected /\ layout \in Disc
  BY LayoutIsDisc DEF IInv
<1>2. OnDevice
  <2>1. extents = FileRuns
    BY <1>1 DEF Readable, Located, Before
  <2>2. QED
    BY <2>1 DEF Readable, OnDevice
<1>3. out = [i \in 1..(read.end - read.off) |-> ByteAt(read.off + i - 1)]
  BY <1>1, <1>2 DEF Collected, Bytes
<1>4. /\ read.off \in Nat /\ read.end \in Nat /\ read.off <= read.end /\ read.end <= layout.size
      /\ layout.size \in Nat
  BY <1>1 DEF Reading, Within, Disc
<1>5. LengthOf(extents, Len(extents)) \in Nat /\ layout.size <= LengthOf(extents, Len(extents))
  <2>1. extents \in Runs /\ Len(extents) \in Nat
    BY <1>1 DEF TypeOK, Runs
  <2>2. QED
    BY <1>2, <2>1, LengthFacts DEF OnDevice
<1>6. ASSUME NEW i \in 1..(read.end - read.off)
      PROVE  ByteAt(read.off + i - 1) = FileByte(read.off + i - 1)
  <2>1. read.off + i - 1 \in Nat /\ read.off + i - 1 < LengthOf(extents, Len(extents))
    BY <1>4, <1>5
  <2>2. pc \notin Before
    BY DEF Before
  <2>3. QED
    BY <1>1, <2>1, <2>2, ByteIsFileByte
<1>7. QED
  BY <1>3, <1>6

\* Type correctness: whatever the disc and the sizes of sectors and transfers,
\* the extents, the clipped range, the transfer and the bytes it gives are in
\* range (RawUdf::open, meta, read_extents, read_abs).
THEOREM TypeCorrect == Spec => []TypeOK
<1>1. IInv => TypeOK
  BY DEF IInv
<1>2. QED
  BY <1>1, InvariantHolds, PTL

\* A read that no error cuts short has the bytes of the file, for every
\* readable file of every disc, every range and however few bytes the device
\* gives at a time (read_extents, read_file_bytes).
THEOREM ReadsCorrect == Spec => []ReadsFile
<1>1. IInv => ReadsFile
  BY InvReadsFile
<1>2. QED
  BY <1>1, InvariantHolds, PTL
=============================================================================

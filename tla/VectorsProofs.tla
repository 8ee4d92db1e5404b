--------------------------- MODULE VectorsProofs ---------------------------
(***************************************************************************)
(* What the operators of Vectors return, for every sequence: by induction  *)
(* over their lengths, stated for sets of numbers.                         *)
(***************************************************************************)
EXTENDS Vectors, WellFoundedInduction, TLAPS

-----------------------------------------------------------------------------
(* Kept, by induction over the sequence *)

\* A set of numbers that has 0 and the successor of each of its elements has
\* them all.
LEMMA Induction ==
    ASSUME NEW S \in SUBSET Nat, 0 \in S, \A n \in S : n + 1 \in S
    PROVE  S = Nat
<1> DEFINE T == Nat \ S
<1> SUFFICES ASSUME T # {} PROVE FALSE
  OBVIOUS
<1>1. PICK x \in T : \A y \in T : ~ (<<y, x>> \in OpToRel(<, Nat))
  BY NatLessThanWellFounded, WFMin
<1>2. x # 0 /\ x - 1 \in Nat
  OBVIOUS
<1>3. <<x - 1, x>> \in OpToRel(<, Nat)
  BY <1>2 DEF OpToRel
<1>4. x - 1 \in S
  BY <1>1, <1>2, <1>3
<1>5. x = (x - 1) + 1
  BY <1>2
<1>6. QED
  BY <1>4, <1>5


\* One step of the recursion that Kept is defined by.
KeptRule(s, keep, f, i) ==
    IF i = 0 THEN <<>>
    ELSE IF s[i] \in keep THEN Append(f[i - 1], s[i]) ELSE f[i - 1]

\* The recursion of Kept has a solution.
LEMMA KeptExists ==
    ASSUME NEW s, NEW keep, Len(s) \in Nat
    PROVE  \E f : f = [i \in 0..Len(s) |-> KeptRule(s, keep, f, i)]
<1> DEFINE Solves(f, n) == f = [i \in 0..n |-> KeptRule(s, keep, f, i)]
           T == {n \in Nat : \E f : Solves(f, n)}
<1>1. \E f : Solves(f, 0)
  <2>1. Solves([i \in 0..0 |-> <<>>], 0)
    BY DEF KeptRule
  <2>2. QED
    BY <2>1
<1>2. ASSUME NEW n \in Nat, NEW f, Solves(f, n)
      PROVE  \E g : Solves(g, n + 1)
  <2> DEFINE g == [i \in 0..n+1 |-> KeptRule(s, keep, f, i)]
  <2>1. ASSUME NEW i \in 0..n+1 PROVE g[i] = KeptRule(s, keep, g, i)
    <3>1. g[i] = KeptRule(s, keep, f, i)
      OBVIOUS
    <3>2. CASE i = 0
      BY <3>1, <3>2 DEF KeptRule
    <3>3. CASE i # 0
      <4>1. i - 1 \in 0..n
        BY <3>3
      <4>2. f[i - 1] = KeptRule(s, keep, f, i - 1)
        BY <1>2, <4>1
      <4>3. g[i - 1] = KeptRule(s, keep, f, i - 1)
        BY <4>1
      <4>4. QED
        BY <3>1, <4>2, <4>3 DEF KeptRule
    <3>4. QED
      BY <3>2, <3>3
  <2>2. g = [i \in 0..n+1 |-> g[i]]
    OBVIOUS
  <2> HIDE DEF g
  <2>3. Solves(g, n + 1)
    BY <2>1, <2>2
  <2>4. QED
    BY <2>3
<1> HIDE DEF Solves
<1>3. 0 \in T /\ \A n \in T : n + 1 \in T
  BY <1>1, <1>2
<1>4. T = Nat
  <2>1. T \in SUBSET Nat
    OBVIOUS
  <2> HIDE DEF T
  <2>2. QED
    BY <1>3, <2>1, Induction
<1>5. QED
  BY <1>4 DEF Solves

\* No element of keep is twice in s.
Apart(s, keep) == \A i, j \in DOMAIN s : s[i] = s[j] /\ s[i] \in keep => i = j

\* Kept has exactly the elements of a sequence that are to be kept, and those
\* that are in it once are in it once.
LEMMA KeptFacts ==
    ASSUME NEW S, NEW s \in Seq(S), NEW keep
    PROVE  /\ Kept(s, keep) \in Seq(S)
           /\ \A e : (\E i \in DOMAIN Kept(s, keep) : Kept(s, keep)[i] = e)
                     <=> e \in keep /\ \E i \in DOMAIN s : s[i] = e
           /\ Apart(s, keep) => Apart(Kept(s, keep), keep)
<1> DEFINE K == CHOOSE f : f = [i \in 0..Len(s) |-> KeptRule(s, keep, f, i)]
           Has(t, e) == \E i \in DOMAIN t : t[i] = e
           Right(n) == /\ K[n] \in Seq(S)
                       /\ \A e : Has(K[n], e) <=> e \in keep /\ \E i \in 1..n : s[i] = e
                       /\ Apart(s, keep) => Apart(K[n], keep)
           T == {n \in Nat : n <= Len(s) => Right(n)}
<1>1. Kept(s, keep) = K[Len(s)]
  BY DEF Kept, KeptRule
<1>2. K = [i \in 0..Len(s) |-> KeptRule(s, keep, K, i)]
  BY KeptExists
<1> HIDE DEF K
<1>3. Right(0)
  BY <1>2 DEF KeptRule, Apart
<1>4. ASSUME NEW n \in Nat, n + 1 <= Len(s), Right(n)
      PROVE  Right(n + 1)
  <2>1. K[n + 1] = IF s[n + 1] \in keep THEN Append(K[n], s[n + 1]) ELSE K[n]
    <3>1. n + 1 \in 0..Len(s) /\ n + 1 # 0 /\ (n + 1) - 1 = n
      BY <1>4
    <3>2. K[n + 1] = KeptRule(s, keep, K, n + 1)
      BY <1>2, <3>1
    <3>3. QED
      BY <3>1, <3>2 DEF KeptRule
  <2>2. s[n + 1] \in S
    BY <1>4
  <2>3. K[n + 1] \in Seq(S)
    BY <1>4, <2>1, <2>2
  <2>4. ASSUME NEW e
        PROVE  Has(K[n + 1], e) <=> Has(K[n], e) \/ (e = s[n + 1] /\ e \in keep)
    <3>1. CASE s[n + 1] \in keep
      <4> DEFINE t == K[n]
                 x == s[n + 1]
      <4>1. t \in Seq(S) /\ x \in S /\ K[n + 1] = Append(t, x)
        BY <1>4, <2>1, <2>2, <3>1
      <4>2. x \in keep
        BY <3>1
      <4> HIDE DEF t, x
      <4>3. DOMAIN Append(t, x) = DOMAIN t \cup {Len(t) + 1}
        BY <4>1
      <4>4. Has(Append(t, x), e) <=> Has(t, e) \/ e = x
        BY <4>1, <4>3
      <4>5. QED
        BY <4>1, <4>2, <4>4 DEF t, x
    <3>2. QED
      BY <2>1, <3>1
  <2>5. ASSUME Apart(s, keep) PROVE Apart(K[n + 1], keep)
    <3>1. CASE s[n + 1] \in keep
      <4> DEFINE t == K[n]
                 x == s[n + 1]
      <4>1. t \in Seq(S) /\ x \in S /\ K[n + 1] = Append(t, x)
        BY <1>4, <2>1, <2>2, <3>1
      <4>2. Apart(t, keep)
        BY <1>4, <2>5
      <4>3. ~Has(t, x)
        <5>1. \A i \in 1..n : s[i] # x
          BY <1>4, <2>5, <3>1 DEF Apart
        <5>2. QED
          BY <1>4, <5>1
      <4> HIDE DEF t, x
      <4>4. /\ DOMAIN Append(t, x) = DOMAIN t \cup {Len(t) + 1}
            /\ Append(t, x)[Len(t) + 1] = x
            /\ \A i \in DOMAIN t : Append(t, x)[i] = t[i]
        BY <4>1
      <4>5. ASSUME NEW i \in DOMAIN Append(t, x), NEW j \in DOMAIN Append(t, x),
                   Append(t, x)[i] = Append(t, x)[j], Append(t, x)[i] \in keep
            PROVE  i = j
        <5>1. CASE i \in DOMAIN t /\ j \in DOMAIN t
          BY <4>2, <4>4, <4>5, <5>1 DEF Apart
        <5>2. CASE i \in DOMAIN t /\ j \notin DOMAIN t
          BY <4>3, <4>4, <4>5, <5>2
        <5>3. CASE i \notin DOMAIN t /\ j \in DOMAIN t
          BY <4>3, <4>4, <4>5, <5>3
        <5>4. QED
          BY <4>4, <5>1, <5>2, <5>3
      <4>6. Apart(Append(t, x), keep)
        BY <4>5 DEF Apart
      <4>7. QED
        BY <4>1, <4>6
    <3>2. CASE s[n + 1] \notin keep
      <4>1. K[n + 1] = K[n]
        BY <2>1, <3>2
      <4>2. Apart(K[n], keep)
        BY <1>4, <2>5
      <4>3. QED
        BY <4>1, <4>2
    <3>3. QED
      BY <3>1, <3>2
  <2>6. \A e : Has(K[n + 1], e) <=> e \in keep /\ \E i \in 1..n + 1 : s[i] = e
    <3>1. \A e : (\E i \in 1..n + 1 : s[i] = e) <=> (\E i \in 1..n : s[i] = e) \/ e = s[n + 1]
      BY <1>4
    <3>2. QED
      BY <1>4, <2>4, <3>1
  <2>7. QED
    BY <2>3, <2>5, <2>6
<1> HIDE DEF Right
<1>5. 0 \in T /\ \A n \in T : n + 1 \in T
  BY <1>3, <1>4
<1>6. T = Nat
  <2>1. T \in SUBSET Nat
    OBVIOUS
  <2> HIDE DEF T
  <2>2. QED
    BY <1>5, <2>1, Induction
<1>7. Right(Len(s))
  BY <1>6
<1>8. QED
  BY <1>1, <1>7 DEF Right

\* A sequence whose elements are all to be kept stays as it is.
LEMMA KeptAll ==
    ASSUME NEW S, NEW s \in Seq(S), NEW keep, \A i \in DOMAIN s : s[i] \in keep
    PROVE  Kept(s, keep) = s
<1> DEFINE K == CHOOSE f : f = [i \in 0..Len(s) |-> KeptRule(s, keep, f, i)]
           Right(n) == /\ K[n] \in Seq(S) /\ Len(K[n]) = n
                       /\ \A i \in 1..n : K[n][i] = s[i]
           T == {n \in Nat : n <= Len(s) => Right(n)}
<1>1. Kept(s, keep) = K[Len(s)]
  BY DEF Kept, KeptRule
<1>2. K = [i \in 0..Len(s) |-> KeptRule(s, keep, K, i)]
  BY KeptExists
<1> HIDE DEF K
<1>3. Right(0)
  BY <1>2 DEF KeptRule
<1>4. ASSUME NEW n \in Nat, n + 1 <= Len(s), Right(n)
      PROVE  Right(n + 1)
  <2>1. n + 1 \in 0..Len(s) /\ n + 1 # 0 /\ (n + 1) - 1 = n /\ n + 1 \in DOMAIN s
    BY <1>4
  <2>2. K[n + 1] = KeptRule(s, keep, K, n + 1)
    BY <1>2, <2>1
  <2>3. K[n + 1] = Append(K[n], s[n + 1]) /\ s[n + 1] \in S
    BY <2>1, <2>2 DEF KeptRule
  <2>4. QED
    BY <1>4, <2>3
<1> HIDE DEF Right
<1>5. 0 \in T /\ \A n \in T : n + 1 \in T
  BY <1>3, <1>4
<1>6. T = Nat
  <2>1. T \in SUBSET Nat
    OBVIOUS
  <2> HIDE DEF T
  <2>2. QED
    BY <1>5, <2>1, Induction
<1>7. Right(Len(s))
  BY <1>6
<1>8. QED
  BY <1>1, <1>7 DEF Right

\* What KeptFacts says of the elements alone.
COROLLARY KeptElements ==
    ASSUME NEW S, NEW s \in Seq(S), NEW keep
    PROVE  /\ Kept(s, keep) \in Seq(S)
           /\ \A e : (\E i \in DOMAIN Kept(s, keep) : Kept(s, keep)[i] = e)
                     <=> e \in keep /\ \E i \in DOMAIN s : s[i] = e
BY KeptFacts
=============================================================================

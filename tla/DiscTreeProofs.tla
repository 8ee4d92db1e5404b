--------------------------- MODULE DiscTreeProofs ---------------------------
(***************************************************************************)
(* The tree of a decrypted disc mirrors the disc, for every disc and every *)
(* failure of the walk, and a client that comes to an end of a directory   *)
(* or a file has had all of it, whatever the sizes of its requests.        *)
(***************************************************************************)
EXTENDS DiscTree, VectorsProofs, FunctionTheorems, FiniteSetTheorems

-----------------------------------------------------------------------------
(* Numbers and functions *)

\* A set of numbers that is not empty has a least one.
LEMMA MinOf ==
    ASSUME NEW T \in SUBSET Nat, T # {}
    PROVE  Min(T) \in T /\ \A y \in T : Min(T) <= y
<1>1. PICK x \in T : \A y \in T : ~ (<<y, x>> \in OpToRel(<, Nat))
  BY NatLessThanWellFounded, WFMin
<1>2. ASSUME NEW y \in T PROVE x <= y
  <2>1. SUFFICES ASSUME y < x PROVE FALSE
    OBVIOUS
  <2>2. <<y, x>> \in OpToRel(<, Nat)
    BY <2>1 DEF OpToRel
  <2>3. QED
    BY <1>1, <2>2
<1>3. QED
  BY <1>2 DEF Min

\* The lesser and the greater of two numbers.
LEMMA MinMaxOfTwo ==
    ASSUME NEW a \in Int, NEW b \in Int
    PROVE  /\ Min({a, b}) = IF a <= b THEN a ELSE b
           /\ Max({a, b}) = IF a >= b THEN a ELSE b
<1>1. Min({a, b}) \in {a, b} /\ \A y \in {a, b} : Min({a, b}) =< y
  <2>1. \E x \in {a, b} : \A y \in {a, b} : x =< y
    OBVIOUS
  <2>2. QED
    BY <2>1 DEF Min
<1>2. Max({a, b}) \in {a, b} /\ \A y \in {a, b} : Max({a, b}) >= y
  <2>1. \E x \in {a, b} : \A y \in {a, b} : x >= y
    OBVIOUS
  <2>2. QED
    BY <2>1 DEF Max
<1>3. QED
  BY <1>1, <1>2

-----------------------------------------------------------------------------
(* Reading the disc *)

EntryOf(d) == [name : Names, kind : {"dir", "file", "special", "deleted", "parent"},
               icb : DOMAIN d.sizes]

\* What there is on a disc: entries, its root, and nothing.
LEMMA ThingsType ==
    ASSUME NEW d, Wellformed(d), NEW e \in Things(d)
    PROVE  /\ e.kind = "dir" => e.icb \in DOMAIN d.dirs
           /\ e \in EntryOf(d) \/ e = RootEntry \/ e = NoEntry
<1>1. CASE e = RootEntry \/ e = NoEntry
  <2>1. Root \in DOMAIN d.dirs
    BY DEF Wellformed
  <2>2. QED
    BY <1>1, <2>1 DEF RootEntry, NoEntry
<1>2. CASE \E i \in DOMAIN d.dirs : e \in ToSet(d.dirs[i])
  <2>1. PICK i \in DOMAIN d.dirs : e \in ToSet(d.dirs[i])
    BY <1>2
  <2>2. PICK j \in DOMAIN d.dirs[i] : e = d.dirs[i][j]
    BY <2>1 DEF ToSet
  <2>3. d.dirs[i] \in Seq(EntryOf(d)) /\ (d.dirs[i][j].kind = "dir" => d.dirs[i][j].icb \in DOMAIN d.dirs)
    BY DEF Wellformed, EntryOf
  <2>4. QED
    BY <2>2, <2>3
<1>3. e \in {RootEntry, NoEntry} \/ \E i \in DOMAIN d.dirs : e \in ToSet(d.dirs[i])
  <2> DEFINE X == {ToSet(d.dirs[i]) : i \in DOMAIN d.dirs}
  <2>1. e \in UNION X \/ e \in {RootEntry, NoEntry}
    BY DEF Things
  <2>2. e \in UNION X => \E x \in X : e \in x
    OBVIOUS
  <2>3. (\E x \in X : e \in x) => \E i \in DOMAIN d.dirs : e \in ToSet(d.dirs[i])
    OBVIOUS
  <2>4. QED
    BY <2>1, <2>2, <2>3
<1>4. QED
  BY <1>1, <1>2, <1>3

\* A listing has entries of the disc, none that is passed over and no two of a
\* name.
LEMMA Listed ==
    ASSUME NEW d, Wellformed(d), NEW e \in Things(d)
    PROVE  /\ Entries(d, e) \in Seq(EntryOf(d))
           /\ \A i \in DOMAIN Entries(d, e) :
                 LET x == Entries(d, e)[i] IN
                 /\ x \in EntryOf(d) /\ x \in Things(d) /\ x.kind \notin Passed
                 /\ x.kind = "special" => d.mode = "volume"
                 /\ \A j \in DOMAIN Entries(d, e) : x.name = Entries(d, e)[j].name => i = j
<1>1. CASE e.kind # "dir"
  BY <1>1 DEF Entries
<1>2. CASE e.kind = "dir"
  <2> DEFINE s == d.dirs[e.icb]
             keep == {x \in ToSet(s) : x.kind \notin Passed}
             l == Entries(d, e)
  <2>1. e.icb \in DOMAIN d.dirs
    BY <1>2, ThingsType
  <2>2. s \in Seq(EntryOf(d))
    BY <2>1 DEF Wellformed, EntryOf
  <2>3. l = Kept(s, keep)
    BY <1>2 DEF Entries
  <2>4. \A j \in DOMAIN s : /\ s[j].kind = "special" => d.mode = "volume"
                            /\ \A k \in DOMAIN s : s[j].name = s[k].name
                                  /\ s[j].kind \notin Passed /\ s[k].kind \notin Passed => j = k
    BY ONLY <2>1, Wellformed(d) DEF Wellformed, Passed
  <2>5. \A x : (\E i \in DOMAIN s : s[i] = x) => x \in Things(d)
    <3>1. \A x : (\E i \in DOMAIN s : s[i] = x) => x \in ToSet(s)
      BY DEF ToSet
    <3>2. QED
      BY <2>1, <3>1 DEF Things
  <2>6. Apart(s, keep)
    BY <2>4 DEF Apart
  <2>12. \A x \in keep : x.kind \notin Passed
    OBVIOUS
  <2> HIDE DEF s, l, keep
  <2>7. /\ l \in Seq(EntryOf(d)) /\ Apart(l, keep)
        /\ \A x : (\E i \in DOMAIN l : l[i] = x) <=> x \in keep /\ \E i \in DOMAIN s : s[i] = x
    BY ONLY <2>2, <2>3, <2>6, KeptFacts
  <2>8. ASSUME NEW i \in DOMAIN l
        PROVE  /\ l[i] \in EntryOf(d) /\ l[i] \in Things(d) /\ l[i] \in keep
               /\ l[i].kind = "special" => d.mode = "volume"
    <3>1. l[i] \in keep /\ \E j \in DOMAIN s : s[j] = l[i]
      BY <2>7
    <3>2. PICK j \in DOMAIN s : s[j] = l[i]
      BY <3>1
    <3>3. s[j] \in EntryOf(d) /\ s[j] \in Things(d)
      BY <2>2, <2>5
    <3>4. QED
      BY <2>4, <3>1, <3>2, <3>3
  <2>9. ASSUME NEW i \in DOMAIN l, NEW j \in DOMAIN l, l[i].name = l[j].name
        PROVE  i = j
    <3>1. PICK a \in DOMAIN s, b \in DOMAIN s : s[a] = l[i] /\ s[b] = l[j]
      <4>1. (\E a \in DOMAIN s : s[a] = l[i]) /\ (\E b \in DOMAIN s : s[b] = l[j])
        BY <2>7, <2>9
      <4>2. QED
        BY <4>1
    <3>2. l[i].kind \notin Passed /\ l[j].kind \notin Passed
      BY <2>8, <2>9, <2>12
    <3>3. a = b
      BY <2>4, <2>9, <3>1, <3>2
    <3>4. QED
      BY <2>7, <2>8, <3>1, <3>3 DEF Apart
  <2>10. \A i \in DOMAIN l : l[i].kind \notin Passed
    BY <2>8, <2>12
  <2>11. QED
    BY <2>7, <2>8, <2>9, <2>10 DEF l
<1>3. QED
  BY <1>1, <1>2

\* The first entry of a name, or none.
LEMMA FirstOf ==
    ASSUME NEW d, NEW l, NEW name, Len(l) \in Nat, DOMAIN l = 1..Len(l)
    PROVE  \/ First(d, l, name) = NoEntry /\ \A i \in DOMAIN l : ~Same(d, l[i].name, name)
           \/ \E i \in DOMAIN l : /\ First(d, l, name) = l[i] /\ Same(d, l[i].name, name)
                                  /\ \A j \in DOMAIN l : Same(d, l[j].name, name) => i <= j
<1> DEFINE hits == {i \in DOMAIN l : Same(d, l[i].name, name)}
<1>1. CASE hits = {}
  BY <1>1 DEF First
<1>2. CASE hits # {}
  <2>1. hits \in SUBSET Nat
    OBVIOUS
  <2>2. Min(hits) \in hits /\ \A y \in hits : Min(hits) <= y
    BY <1>2, <2>1, MinOf
  <2>3. First(d, l, name) = l[Min(hits)]
    BY <1>2 DEF First
  <2>4. QED
    BY <2>2, <2>3
<1>3. QED
  BY <1>1, <1>2

-----------------------------------------------------------------------------
(* Paths *)

\* One step of the recursion that Find is defined by.
FindRule(d, path, f, i) == IF i = 0 THEN RootEntry ELSE Descend(d, path[i])[f[i - 1]]

Found(d, path, f, n) == f = [i \in 0..n |-> FindRule(d, path, f, i)]

\* The recursion of Find has a solution, for every length.
LEMMA FindExists ==
    ASSUME NEW d, NEW path, NEW n \in Nat
    PROVE  \E f : Found(d, path, f, n)
<1> DEFINE T == {k \in Nat : \E f : Found(d, path, f, k)}
<1>1. \E f : Found(d, path, f, 0)
  <2>1. Found(d, path, [i \in 0..0 |-> RootEntry], 0)
    BY DEF Found, FindRule
  <2>2. QED
    BY <2>1
<1>2. ASSUME NEW k \in Nat, NEW f, Found(d, path, f, k)
      PROVE  \E g : Found(d, path, g, k + 1)
  <2> DEFINE g == [i \in 0..k+1 |-> FindRule(d, path, f, i)]
  <2>1. ASSUME NEW i \in 0..k+1 PROVE g[i] = FindRule(d, path, g, i)
    <3>1. g[i] = FindRule(d, path, f, i)
      OBVIOUS
    <3>2. CASE i = 0
      BY <3>1, <3>2 DEF FindRule
    <3>3. CASE i # 0
      <4>1. i - 1 \in 0..k
        BY <3>3
      <4>2. f[i - 1] = FindRule(d, path, f, i - 1)
        BY <1>2, <4>1 DEF Found
      <4>3. g[i - 1] = FindRule(d, path, f, i - 1)
        BY <4>1
      <4>4. QED
        BY <3>1, <3>3, <4>2, <4>3 DEF FindRule
    <3>4. QED
      BY <3>2, <3>3
  <2>2. g = [i \in 0..k+1 |-> g[i]]
    OBVIOUS
  <2> HIDE DEF g
  <2>3. Found(d, path, g, k + 1)
    BY <2>1, <2>2 DEF Found
  <2>4. QED
    BY <2>3
<1>3. 0 \in T /\ \A k \in T : k + 1 \in T
  BY <1>1, <1>2
<1>4. T = Nat
  <2>1. T \in SUBSET Nat
    OBVIOUS
  <2> HIDE DEF T
  <2>2. QED
    BY <1>3, <2>1, Induction
<1>5. QED
  BY <1>4

\* It is the rule at each step.
LEMMA FoundAt ==
    ASSUME NEW d, NEW path, NEW n, NEW f, Found(d, path, f, n), NEW i \in 0..n
    PROVE  f[i] = FindRule(d, path, f, i)
<1>1. f = [j \in 0..n |-> FindRule(d, path, f, j)]
  BY DEF Found
<1>2. QED
  BY <1>1, Zenon

\* The empty path leads to the root; one name more leads one step down.
LEMMA FindEmpty == ASSUME NEW d PROVE Find(d, <<>>) = RootEntry
<1> DEFINE at == CHOOSE f : f = [i \in 0..0 |-> FindRule(d, <<>>, f, i)]
<1>1. Find(d, <<>>) = at[0]
  BY DEF Find, FindRule
<1>2. at = [i \in 0..0 |-> FindRule(d, <<>>, at, i)]
  <2>1. \E f : f = [i \in 0..0 |-> FindRule(d, <<>>, f, i)]
    <3>1. \E f : Found(d, <<>>, f, 0)
      BY FindExists
    <3>2. QED
      BY <3>1 DEF Found
  <2>2. QED
    BY <2>1
<1> HIDE DEF at
<1>3. at[0] = FindRule(d, <<>>, at, 0)
  BY <1>2
<1>4. QED
  BY <1>1, <1>3 DEF FindRule

\* A path with one component more leads one component further.
LEMMA FindAppend ==
    ASSUME NEW d, NEW S, NEW path \in Seq(S), NEW name \in S
    PROVE  Find(d, Append(path, name)) = Descend(d, name)[Find(d, path)]
<1> DEFINE n == Len(path)
           q == Append(path, name)
           f == CHOOSE h : h = [i \in 0..n |-> FindRule(d, path, h, i)]
           g == CHOOSE h : h = [i \in 0..Len(q) |-> FindRule(d, q, h, i)]
<1>1. n \in Nat /\ n + 1 \in Nat /\ n <= n + 1 /\ Len(q) = n + 1 /\ q[n + 1] = name /\ \A i \in 1..n : path[i] = q[i]
  OBVIOUS
<1>2. Find(d, path) = f[n] /\ Find(d, q) = g[Len(q)]
  BY DEF Find, FindRule
<1>3. Found(d, path, f, n) /\ Found(d, q, g, n + 1)
  <2>1. \E h : Found(d, path, h, n)
    BY <1>1, FindExists
  <2> HIDE DEF q, n
  <2>2. \E h : Found(d, q, h, n + 1)
    BY <1>1, FindExists
  <2>3. QED
    BY <1>1, <2>1, <2>2 DEF Found
<1> HIDE DEF n, q, f, g
<1>4. ASSUME NEW k \in Nat, k + 1 <= n, f[k] = g[k] PROVE f[k + 1] = g[k + 1]
  <2>1. /\ k + 1 \in 0..n /\ k + 1 \in 0..n + 1
        /\ k + 1 # 0 /\ (k + 1) - 1 = k /\ path[k + 1] = q[k + 1]
    BY <1>1, <1>4
  <2>2. f[k + 1] = FindRule(d, path, f, k + 1) /\ g[k + 1] = FindRule(d, q, g, k + 1)
    BY <1>3, <2>1, FoundAt
  <2>3. QED
    BY <1>4, <2>1, <2>2 DEF FindRule
<1>5. f[n] = g[n]
  <2> DEFINE T == {k \in Nat : k <= n => f[k] = g[k]}
  <2>1. 0 \in 0..n /\ 0 \in 0..n + 1
    BY <1>1
  <2>2. f[0] = g[0]
    BY <1>3, <2>1, FoundAt DEF FindRule
  <2>3. ASSUME NEW k \in T PROVE k + 1 \in T
    BY <1>1, <1>4
  <2>4. T \in SUBSET Nat /\ 0 \in T
    BY <2>2
  <2>5. T = Nat
    <3> HIDE DEF T
    <3>1. QED
      BY <2>3, <2>4, Induction
  <2>6. QED
    BY <1>1, <2>5
<1>6. g[n + 1] = Descend(d, name)[g[n]]
  <2>1. n + 1 \in 0..n + 1 /\ n + 1 # 0 /\ (n + 1) - 1 = n
    BY <1>1
  <2>2. g[n + 1] = FindRule(d, q, g, n + 1)
    BY <1>3, <2>1, FoundAt
  <2>3. QED
    BY <1>1, <2>1, <2>2 DEF FindRule
<1>7. QED
  BY <1>1, <1>2, <1>5, <1>6 DEF q

\* One component of a path leads from a directory to its first entry of that name.
LEMMA FindListed ==
    ASSUME NEW d, Wellformed(d), NEW path \in Seq(Names), Find(d, path) \in Things(d),
           NEW i \in DOMAIN Entries(d, Find(d, path))
    PROVE  LET list == Entries(d, Find(d, path))
               x    == Find(d, Append(path, list[i].name)) IN
           /\ x \in Things(d) /\ x \in EntryOf(d)
           /\ \E j \in DOMAIN list : /\ x = list[j] /\ j <= i /\ Same(d, list[j].name, list[i].name)
                                     /\ d.mode # "udf" => j = i
<1> DEFINE list == Entries(d, Find(d, path))
           name == list[i].name
           x == Find(d, Append(path, name))
<1>1. /\ list \in Seq(EntryOf(d))
      /\ \A j \in DOMAIN list : /\ list[j] \in EntryOf(d) /\ list[j] \in Things(d)
                                /\ \A k \in DOMAIN list : list[j].name = list[k].name => j = k
  BY Listed
<1>2. name \in Names
  BY <1>1 DEF EntryOf
<1>3. x = First(d, list, name)
  <2>1. x = Descend(d, name)[Find(d, path)]
    BY <1>2, FindAppend
  <2>2. Descend(d, name)[Find(d, path)] = First(d, list, name)
    BY DEF Descend
  <2>3. QED
    BY <2>1, <2>2
<1>4. Len(list) \in Nat /\ DOMAIN list = 1..Len(list)
  BY <1>1
<1> HIDE DEF list, x
<1>5. Same(d, list[i].name, name)
  BY DEF Same, name
<1> HIDE DEF name
<1>6. i \in DOMAIN list
  BY DEF list
<1>7. PICK j \in DOMAIN list : /\ x = list[j] /\ Same(d, list[j].name, name)
                               /\ \A k \in DOMAIN list : Same(d, list[k].name, name) => j <= k
  BY <1>3, <1>4, <1>5, <1>6, FirstOf
<1>8. d.mode # "udf" => j = i
  BY <1>1, <1>6, <1>7 DEF Same, name
<1>9. j <= i
  BY <1>5, <1>6, <1>7
<1>10. QED
  BY <1>1, <1>7, <1>8, <1>9 DEF list, name, x

-----------------------------------------------------------------------------
(* A directory of the tree, after its first k entries *)

Listing(d, N, n) == Entries(d, Find(d, N[n].path))

\* What is left to a frame is the end of the listing of its directory.
FrameAt(d, N, f) ==
    LET list == Listing(d, N, f.dir) IN
    /\ f.dir \in DOMAIN N /\ N[f.dir].kind = "dir"
    /\ Len(f.left) <= Len(list)
    /\ \A j \in 1..Len(f.left) : f.left[j] = list[Len(list) - Len(f.left) + j]

Past(d, N, f) == Len(Listing(d, N, f.dir)) - Len(f.left)

FrameOf(d) == [dir : Nat, left : Seq(EntryOf(d)), children : Seq(Nat)]

\* Entry e of directory n is to be seen.
Seen(S, n, e) ==
    /\ e.kind \in {"dir", "file"} /\ <<n, e>> \notin S
    /\ e.name # DSStore /\ (n = Root => Upper[e.name] \notin HiddenRootDirs)

\* The kids of n are what is to be seen among its first k entries, each once and
\* each found by its name.
Walked(d, N, L, S, n, kids, k) ==
    LET list == Listing(d, N, n) IN
    /\ kids \in Seq(DOMAIN N)
    /\ \A i, j \in DOMAIN kids : kids[i] = kids[j] => i = j
    /\ \A i \in DOMAIN kids :
          LET e == N[kids[i]].entry IN
          /\ kids[i] # Root /\ N[kids[i]].parent = n
          /\ <<n, e.name>> \in DOMAIN L /\ L[<<n, e.name>>] = kids[i]
          /\ Seen(S, n, e)
          /\ \E j \in 1..k : list[j] = e
    /\ \A j \in 1..k : Seen(S, n, list[j]) => \E i \in DOMAIN kids : N[kids[i]].entry = list[j]

\* One entry further.
LEMMA NextEntry ==
    ASSUME NEW d, NEW N, Wellformed(d), NEW f \in FrameOf(d), FrameAt(d, N, f), f.left # <<>>,
           Find(d, N[f.dir].path) \in Things(d)
    PROVE  LET list == Listing(d, N, f.dir)
               k    == Past(d, N, f) IN
           /\ k \in Nat /\ k + 1 \in DOMAIN list /\ Head(f.left) = list[k + 1]
           /\ Head(f.left) \in EntryOf(d) /\ Tail(f.left) \in Seq(EntryOf(d))
           /\ \A g : g.dir = f.dir /\ g.left = Tail(f.left) =>
                 FrameAt(d, N, g) /\ Past(d, N, g) = k + 1
<1> DEFINE list == Listing(d, N, f.dir)
           left == f.left
           k == Len(list) - Len(left)
<1>1. left \in Seq(EntryOf(d)) /\ left # <<>>
  BY DEF FrameOf
<1>2. list \in Seq(EntryOf(d))
  BY Listed DEF Listing
<1>3. /\ f.dir \in DOMAIN N /\ N[f.dir].kind = "dir"
      /\ Len(left) <= Len(list)
      /\ \A j \in 1..Len(left) : left[j] = list[Len(list) - Len(left) + j]
  BY DEF FrameAt
<1>4. Past(d, N, f) = k
  BY DEF Past
<1> HIDE DEF list, left
<1>5. /\ Head(left) \in EntryOf(d) /\ Tail(left) \in Seq(EntryOf(d)) /\ Head(left) = left[1]
      /\ Len(left) \in Nat /\ Len(left) >= 1 /\ Len(Tail(left)) = Len(left) - 1
      /\ \A j \in 1..Len(Tail(left)) : Tail(left)[j] = left[j + 1]
  BY <1>1
<1>6. Len(list) \in Nat /\ DOMAIN list = 1..Len(list)
  BY <1>2
<1>7. k \in Nat /\ k + 1 \in DOMAIN list /\ left[1] = list[k + 1]
  BY <1>3, <1>5, <1>6
<1>8. \A j \in 1..Len(Tail(left)) : Tail(left)[j] = list[Len(list) - Len(Tail(left)) + j]
  <2>1. TAKE j \in 1..Len(Tail(left))
  <2>2. j + 1 \in 1..Len(left) /\ Tail(left)[j] = left[j + 1]
    BY <1>5
  <2>3. left[j + 1] = list[Len(list) - Len(left) + (j + 1)]
    BY <1>3, <2>2
  <2>4. Len(list) - Len(left) + (j + 1) = Len(list) - Len(Tail(left)) + j
    BY <1>5, <1>6, <2>2
  <2>5. QED
    BY <2>2, <2>3, <2>4
<1>9. Len(Tail(left)) <= Len(list) /\ Len(list) - Len(Tail(left)) = k + 1
  BY <1>3, <1>5, <1>6
<1>10. ASSUME NEW g, g.dir = f.dir, g.left = Tail(left)
       PROVE  FrameAt(d, N, g) /\ Past(d, N, g) = k + 1
  BY <1>3, <1>8, <1>9, <1>10 DEF FrameAt, Past, list
<1>11. QED
  BY <1>4, <1>5, <1>7, <1>10 DEF list, left

\* An entry that is not to be seen makes no difference.
LEMMA WalkedPast ==
    ASSUME NEW d, NEW N, NEW L, NEW S, NEW n, NEW kids, NEW k \in Nat,
           Wellformed(d), Find(d, N[n].path) \in Things(d),
           Walked(d, N, L, S, n, kids, k), k + 1 \in DOMAIN Listing(d, N, n),
           NEW T, S \subseteq T, \A x \in T \ S : x = <<n, Listing(d, N, n)[k + 1]>>,
           ~Seen(T, n, Listing(d, N, n)[k + 1])
    PROVE  Walked(d, N, L, T, n, kids, k + 1)
<1> DEFINE list == Listing(d, N, n)
<1>1. /\ list \in Seq(EntryOf(d))
      /\ \A i, j \in DOMAIN list : list[i] = list[j] => i = j
  BY Listed DEF Listing
<1>2. /\ kids \in Seq(DOMAIN N)
      /\ \A i, j \in DOMAIN kids : kids[i] = kids[j] => i = j
      /\ \A i \in DOMAIN kids :
            LET e == N[kids[i]].entry IN
            /\ kids[i] # Root /\ N[kids[i]].parent = n
            /\ <<n, e.name>> \in DOMAIN L /\ L[<<n, e.name>>] = kids[i]
            /\ Seen(S, n, e)
            /\ \E j \in 1..k : list[j] = e
      /\ \A j \in 1..k : Seen(S, n, list[j]) => \E i \in DOMAIN kids : N[kids[i]].entry = list[j]
  BY DEF Walked
<1>3. k + 1 \in DOMAIN list /\ ~Seen(T, n, list[k + 1])
  OBVIOUS
<1>4. \A x \in T \ S : x = <<n, list[k + 1]>>
  OBVIOUS
<1> HIDE DEF list
<1>5. 1..k \subseteq DOMAIN list /\ 1..k + 1 = 1..k \cup {k + 1} /\ k + 1 \notin 1..k
  BY <1>1, <1>3
<1>6. \A j \in 1..k : Seen(T, n, list[j]) <=> Seen(S, n, list[j])
  <2>1. TAKE j \in 1..k
  <2>2. list[j] # list[k + 1]
    BY <1>1, <1>3, <1>5
  <2>3. <<n, list[j]>> \in T <=> <<n, list[j]>> \in S
    BY <1>4, <2>2
  <2>4. QED
    BY <2>3 DEF Seen
<1>7. ASSUME NEW i \in DOMAIN kids
      PROVE  LET e == N[kids[i]].entry IN
             /\ kids[i] # Root /\ N[kids[i]].parent = n
             /\ <<n, e.name>> \in DOMAIN L /\ L[<<n, e.name>>] = kids[i]
             /\ Seen(T, n, e)
             /\ \E j \in 1..k + 1 : list[j] = e
  BY <1>2, <1>5, <1>6
<1>8. \A j \in 1..k + 1 : Seen(T, n, list[j]) => \E i \in DOMAIN kids : N[kids[i]].entry = list[j]
  BY <1>2, <1>3, <1>5, <1>6
<1>9. QED
  BY <1>2, <1>7, <1>8 DEF Walked, list

\* An entry that is to be seen makes a kid.
LEMMA WalkedKid ==
    ASSUME NEW d, NEW N, NEW L, NEW S, NEW n, NEW kids, NEW k \in Nat,
           Wellformed(d), Find(d, N[n].path) \in Things(d),
           Walked(d, N, L, S, n, kids, k), k + 1 \in DOMAIN Listing(d, N, n),
           NEW e, e = Listing(d, N, n)[k + 1], Seen(S, n, e),
           NEW c, c \notin DOMAIN N, c # Root, n \in DOMAIN N,
           NEW node, node.parent = n, node.entry = e
    PROVE  Walked(d, Put(N, c, node), Put(L, <<n, e.name>>, c), S, n, Append(kids, c), k + 1)
<1> DEFINE list == Listing(d, N, n)
           M    == Put(N, c, node)
           K    == Put(L, <<n, e.name>>, c)
           more == Append(kids, c)
<1>1. /\ list \in Seq(EntryOf(d))
      /\ \A i, j \in DOMAIN list : list[i].name = list[j].name => i = j
  BY Listed DEF Listing
<1>2. /\ kids \in Seq(DOMAIN N)
      /\ \A i, j \in DOMAIN kids : kids[i] = kids[j] => i = j
      /\ \A i \in DOMAIN kids :
            LET x == N[kids[i]].entry IN
            /\ kids[i] # Root /\ N[kids[i]].parent = n
            /\ <<n, x.name>> \in DOMAIN L /\ L[<<n, x.name>>] = kids[i]
            /\ Seen(S, n, x)
            /\ \E j \in 1..k : list[j] = x
      /\ \A j \in 1..k : Seen(S, n, list[j]) => \E i \in DOMAIN kids : N[kids[i]].entry = list[j]
  BY DEF Walked
<1>3. k + 1 \in DOMAIN list /\ e = list[k + 1]
  OBVIOUS
<1>4. /\ DOMAIN M = DOMAIN N \cup {c} /\ M[c] = node
      /\ \A x \in DOMAIN N : M[x] = N[x]
  BY DEF Put
<1>5. /\ DOMAIN K = DOMAIN L \cup {<<n, e.name>>} /\ K[<<n, e.name>>] = c
      /\ \A x \in DOMAIN L : x # <<n, e.name>> => K[x] = L[x]
  BY DEF Put
<1>6. Listing(d, M, n) = list
  BY <1>4 DEF Listing
<1>7. /\ more \in Seq(DOMAIN M) /\ DOMAIN more = DOMAIN kids \cup {Len(kids) + 1}
      /\ \A i \in DOMAIN kids : more[i] = kids[i] /\ kids[i] \in DOMAIN N /\ i # Len(kids) + 1
      /\ more[Len(kids) + 1] = c
  BY <1>2, <1>4
<1> HIDE DEF list, M, K, more
<1>8. 1..k \subseteq DOMAIN list /\ 1..k + 1 = 1..k \cup {k + 1} /\ k + 1 \notin 1..k
  BY <1>1, <1>3
<1>9. \A i, j \in DOMAIN more : more[i] = more[j] => i = j
  BY <1>2, <1>7
<1>10. ASSUME NEW i \in DOMAIN more
       PROVE  LET x == M[more[i]].entry IN
              /\ more[i] # Root /\ M[more[i]].parent = n
              /\ <<n, x.name>> \in DOMAIN K /\ K[<<n, x.name>>] = more[i]
              /\ Seen(S, n, x)
              /\ \E j \in 1..k + 1 : list[j] = x
  <2>1. CASE i \in DOMAIN kids
    <3> DEFINE x == N[kids[i]].entry
    <3>1. more[i] = kids[i] /\ M[more[i]] = N[kids[i]]
      BY <1>4, <1>7, <2>1
    <3>2. /\ kids[i] # Root /\ N[kids[i]].parent = n
          /\ <<n, x.name>> \in DOMAIN L /\ L[<<n, x.name>>] = kids[i]
          /\ Seen(S, n, x)
      BY <1>2, <2>1
    <3>3. PICK j \in 1..k : list[j] = x
      BY <1>2, <2>1
    <3>4. x.name # e.name
      BY <1>1, <1>3, <1>8, <3>3
    <3> HIDE DEF x
    <3>5. <<n, x.name>> \in DOMAIN K /\ K[<<n, x.name>>] = kids[i]
      BY <1>5, <3>2, <3>4
    <3>6. QED
      BY <1>8, <3>1, <3>2, <3>3, <3>5 DEF x
  <2>2. CASE i = Len(kids) + 1
    BY <1>3, <1>4, <1>5, <1>7, <1>8, <2>2
  <2>3. QED
    BY <1>7, <2>1, <2>2
<1>11. ASSUME NEW j \in 1..k + 1, Seen(S, n, list[j])
       PROVE  \E i \in DOMAIN more : M[more[i]].entry = list[j]
  <2>1. CASE j \in 1..k
    <3>1. PICK i \in DOMAIN kids : N[kids[i]].entry = list[j]
      BY <1>2, <1>11, <2>1
    <3>2. QED
      BY <1>4, <1>7, <3>1
  <2>2. CASE j = k + 1
    BY <1>3, <1>4, <1>7, <2>2
  <2>3. QED
    BY <1>8, <2>1, <2>2
<1>12. Walked(d, M, K, S, n, more, k + 1)
  BY <1>6, <1>7, <1>9, <1>10, <1>11 DEF Walked
<1>13. QED
  BY <1>12 DEF M, K, more

\* What happens to other directories makes no difference.
LEMMA WalkedElsewhere ==
    ASSUME NEW d, NEW N, NEW L, NEW S, NEW n \in DOMAIN N, NEW kids, NEW k,
           Walked(d, N, L, S, n, kids, k),
           NEW M, DOMAIN N \subseteq DOMAIN M,
           \A x \in DOMAIN N : /\ M[x].path = N[x].path /\ M[x].parent = N[x].parent
                               /\ M[x].entry = N[x].entry,
           NEW K, \A x \in DOMAIN L : x[1] = n => x \in DOMAIN K /\ K[x] = L[x],
           NEW T, \A x : <<n, x>> \in T <=> <<n, x>> \in S
    PROVE  Walked(d, M, K, T, n, kids, k)
<1> DEFINE list == Listing(d, N, n)
<1>1. /\ kids \in Seq(DOMAIN N)
      /\ \A i, j \in DOMAIN kids : kids[i] = kids[j] => i = j
      /\ \A i \in DOMAIN kids :
            LET x == N[kids[i]].entry IN
            /\ kids[i] # Root /\ N[kids[i]].parent = n
            /\ <<n, x.name>> \in DOMAIN L /\ L[<<n, x.name>>] = kids[i]
            /\ Seen(S, n, x)
            /\ \E j \in 1..k : list[j] = x
      /\ \A j \in 1..k : Seen(S, n, list[j]) => \E i \in DOMAIN kids : N[kids[i]].entry = list[j]
  BY DEF Walked
<1>2. Listing(d, M, n) = list
  BY DEF Listing
<1>3. kids \in Seq(DOMAIN M) /\ \A i \in DOMAIN kids : kids[i] \in DOMAIN N
  BY <1>1
<1>4. \A x : Seen(T, n, x) <=> Seen(S, n, x)
  BY DEF Seen
<1> HIDE DEF list
<1>5. ASSUME NEW i \in DOMAIN kids
      PROVE  LET x == M[kids[i]].entry IN
             /\ kids[i] # Root /\ M[kids[i]].parent = n
             /\ <<n, x.name>> \in DOMAIN K /\ K[<<n, x.name>>] = kids[i]
             /\ Seen(T, n, x)
             /\ \E j \in 1..k : list[j] = x
  <2> DEFINE x == N[kids[i]].entry
  <2>1. M[kids[i]].entry = x /\ M[kids[i]].parent = n /\ kids[i] # Root
    BY <1>1, <1>3
  <2>2. <<n, x.name>> \in DOMAIN L /\ L[<<n, x.name>>] = kids[i] /\ Seen(S, n, x)
        /\ \E j \in 1..k : list[j] = x
    BY <1>1
  <2> HIDE DEF x
  <2>3. <<n, x.name>> \in DOMAIN K /\ K[<<n, x.name>>] = kids[i]
    BY <2>2
  <2>4. QED
    BY <1>4, <2>1, <2>2, <2>3
<1>6. ASSUME NEW j \in 1..k, Seen(T, n, list[j])
      PROVE  \E i \in DOMAIN kids : M[kids[i]].entry = list[j]
  BY <1>1, <1>3, <1>4, <1>6
<1>7. QED
  BY <1>1, <1>2, <1>3, <1>5, <1>6 DEF Walked

\* Before its first entry a directory has no kids.
LEMMA WalkedNothing ==
    ASSUME NEW d, NEW N, NEW L, NEW S, NEW n
    PROVE  Walked(d, N, L, S, n, <<>>, 0)
BY DEF Walked

-----------------------------------------------------------------------------
(* The inductive invariant *)

Flags == {None} \cup ({"m2ts", "ssif"} \X {Clip[name] : name \in Names})

NodeOf(d) == [parent : Nat, name : Names \cup {"/"}, path : Seq(Names),
              kind : {"dir", "passthrough", "encrypted"}, flags : Flags, size : Nat,
              data : Nat, children : Seq(Nat), entry : Things(d)]

\* Node n is what DirNode or FileNode makes of its entry.
NodeAt(d, N, n) ==
    LET x == N[n] IN
    /\ x.parent \in DOMAIN N /\ x.children \in Seq(DOMAIN N)
    /\ n = Root => x.path = <<>> /\ x.entry = RootEntry
    /\ n # Root => x.path # <<>> /\ x.name = x.entry.name /\ x.name \in Names
    /\ x.kind = "dir" <=> x.entry.kind = "dir"
    /\ x.kind = "dir" => x.flags = None /\ Find(d, x.path) \in Things(d)
    /\ x.kind # "dir" => /\ x.flags = Classify(x.path) /\ x.path # <<>> /\ x.children = <<>>
                         /\ x.kind = "encrypted" <=> x.flags # None

Made ==
    /\ nextId \in Nat /\ Root < nextId /\ Root \in DOMAIN nodes
    /\ DOMAIN nodes \subseteq 1..(nextId - 1)
    /\ nodes \in [DOMAIN nodes -> NodeOf(disc)]
    /\ \A n \in DOMAIN nodes : NodeAt(disc, nodes, n)

\* Every name leads to a node below its directory.
Named ==
    \A key \in DOMAIN lookup :
        /\ lookup[key] \in DOMAIN nodes
        /\ nodes[lookup[key]].parent = key[1] /\ nodes[lookup[key]].name = key[2]

\* The frames are at directories that were found one after the other.
Walking ==
    /\ scan \in {"walking", "done", "failed"} /\ (frames # <<>> <=> scan = "walking")
    /\ frames \in Seq(FrameOf(disc))
    /\ \A i \in DOMAIN frames : FrameAt(disc, nodes, frames[i])
    /\ \A i, j \in DOMAIN frames : i < j => frames[i].dir < frames[j].dir

\* The directories of the frames are done as far as the frames are, all others
\* to their end.
Mirrors ==
    /\ \A i \in DOMAIN frames :
          Walked(disc, nodes, lookup, skipped, frames[i].dir, frames[i].children,
                 Past(disc, nodes, frames[i]))
    /\ scan # "failed" => \A n \in DOMAIN nodes :
          nodes[n].kind = "dir" /\ (\A i \in DOMAIN frames : frames[i].dir # n)
             => Walked(disc, nodes, lookup, skipped, n, nodes[n].children,
                       Len(Listing(disc, nodes, n)))

\* What was skipped is behind the frame of its directory.
Skips ==
    /\ skipped # {} => disc.mode = "volume"
    /\ \A x \in skipped :
          /\ x[1] \in DOMAIN nodes
          /\ \A i \in DOMAIN frames : frames[i].dir = x[1] =>
                \E j \in 1..Past(disc, nodes, frames[i]) : Listing(disc, nodes, x[1])[j] = x[2]

\* What a client has had of a directory is its first entries, of a file its
\* first bytes.
Clients ==
    /\ client \in [op : {"none", "list", "read", "failed"}, node : DOMAIN nodes \cup {None}, at : Nat,
                   got : Seq(Nat), end : BOOLEAN]
    /\ client.op = "none" => client = NoClient
    /\ client.op # "none" => scan = "done" /\ client.node \in DOMAIN nodes
    /\ client.op = "list" =>
          LET all == nodes[client.node].children IN
          \E k \in 0..Len(all) : /\ client.got = SubSeq(all, 1, k)
                                 /\ client.at = IF k = 0 THEN 0 ELSE all[k]
                                 /\ client.end => k = Len(all)
    /\ client.op = "failed" => ~client.end
    /\ client.op = "read" =>
          /\ client.at <= nodes[client.node].size
          /\ client.end => client.at = nodes[client.node].size

TreeInv == Made /\ Named /\ Walking /\ Mirrors /\ Skips /\ PathsLead

IInv == disc \in Discs /\ TreeInv /\ Clients

-----------------------------------------------------------------------------
(* The steps of the walk *)

\* Any disc the walk is given is wellformed.
LEMMA DiscWellformed == ASSUME disc \in Discs PROVE Wellformed(disc)
BY DiscsAssumption

\* The innermost frame is at a directory that no other frame is at.
LEMMA TopFacts ==
    ASSUME IInv, scan = "walking"
    PROVE  /\ Len(frames) \in Nat /\ Len(frames) \in DOMAIN frames /\ Len(frames) >= 1
           /\ DOMAIN frames = 1..Len(frames)
           /\ Top = frames[Len(frames)] /\ Top \in FrameOf(disc)
           /\ Top.dir \in DOMAIN nodes /\ nodes[Top.dir].kind = "dir"
           /\ nodes[Top.dir] \in NodeOf(disc)
           /\ FrameAt(disc, nodes, Top)
           /\ Find(disc, nodes[Top.dir].path) \in Things(disc)
           /\ Walked(disc, nodes, lookup, skipped, Top.dir, Top.children, Past(disc, nodes, Top))
           /\ \A i \in DOMAIN frames : i # Len(frames) => frames[i].dir # Top.dir
<1>1. frames \in Seq(FrameOf(disc)) /\ frames # <<>>
  BY DEF IInv, TreeInv, Walking
<1>2. /\ Len(frames) \in Nat /\ Len(frames) \in DOMAIN frames /\ Len(frames) >= 1
      /\ DOMAIN frames = 1..Len(frames) /\ frames[Len(frames)] \in FrameOf(disc)
  BY <1>1
<1>3. Top = frames[Len(frames)]
  BY DEF Top, Last
<1>4. FrameAt(disc, nodes, Top)
  BY <1>2, <1>3 DEF IInv, TreeInv, Walking
<1>5. Top.dir \in DOMAIN nodes /\ nodes[Top.dir].kind = "dir"
  BY <1>4 DEF FrameAt
<1>6. nodes[Top.dir] \in NodeOf(disc) /\ Find(disc, nodes[Top.dir].path) \in Things(disc)
  BY <1>5 DEF IInv, TreeInv, Made, NodeAt
<1>7. Walked(disc, nodes, lookup, skipped, Top.dir, Top.children, Past(disc, nodes, Top))
  BY <1>2, <1>3 DEF IInv, TreeInv, Mirrors
<1>8. ASSUME NEW i \in DOMAIN frames, i # Len(frames) PROVE frames[i].dir # Top.dir
  <2>1. i < Len(frames)
    BY <1>2, <1>8
  <2>2. frames[i].dir < frames[Len(frames)].dir
    BY <1>2, <2>1 DEF IInv, TreeInv, Walking
  <2>3. frames[i].dir \in Nat /\ frames[Len(frames)].dir \in Nat
    <3>1. frames[i] \in FrameOf(disc) /\ frames[Len(frames)] \in FrameOf(disc)
      BY <1>1, <1>2
    <3>2. QED
      BY <3>1 DEF FrameOf
  <2>4. QED
    BY <1>3, <2>2, <2>3
<1>9. QED
  BY <1>2, <1>3, <1>4, <1>5, <1>6, <1>7, <1>8

\* The entry the walk is at is the next of the listing, and not yet skipped.
LEMMA EntryFacts ==
    ASSUME IInv, AtEntry
    PROVE  LET list == Listing(disc, nodes, Top.dir)
               k    == Past(disc, nodes, Top) IN
           /\ k \in Nat /\ k + 1 \in DOMAIN list /\ E = list[k + 1]
           /\ E \in EntryOf(disc) /\ E.kind \notin Passed
           /\ E.kind = "special" => disc.mode = "volume"
           /\ <<Top.dir, E>> \notin skipped
           /\ Tail(Top.left) \in Seq(EntryOf(disc))
           /\ \A g : g.dir = Top.dir /\ g.left = Tail(Top.left) =>
                 FrameAt(disc, nodes, g) /\ Past(disc, nodes, g) = k + 1
           /\ PathOf \in Seq(Names) /\ PathOf # <<>>
           /\ Hidden(PathOf) <=> \/ Top.dir = Root /\ Upper[E.name] \in HiddenRootDirs
                                 \/ E.name = DSStore
<1> DEFINE list == Listing(disc, nodes, Top.dir)
           k    == Past(disc, nodes, Top)
<1>1. Wellformed(disc) /\ scan = "walking" /\ Top.left # <<>>
  BY DiscWellformed DEF IInv, AtEntry
<1>2. /\ Top \in FrameOf(disc) /\ FrameAt(disc, nodes, Top) /\ Top.dir \in DOMAIN nodes
      /\ Find(disc, nodes[Top.dir].path) \in Things(disc)
      /\ nodes[Top.dir] \in NodeOf(disc)
      /\ Len(frames) \in DOMAIN frames /\ Top = frames[Len(frames)]
  BY <1>1, TopFacts
<1>3. /\ k \in Nat /\ k + 1 \in DOMAIN list /\ E = list[k + 1]
      /\ E \in EntryOf(disc) /\ Tail(Top.left) \in Seq(EntryOf(disc))
      /\ \A g : g.dir = Top.dir /\ g.left = Tail(Top.left) =>
            FrameAt(disc, nodes, g) /\ Past(disc, nodes, g) = k + 1
  BY <1>1, <1>2, NextEntry DEF E
<1>4. /\ list \in Seq(EntryOf(disc))
      /\ \A i \in DOMAIN list : /\ list[i].kind \notin Passed
                                /\ list[i].kind = "special" => disc.mode = "volume"
                                /\ \A j \in DOMAIN list : list[i].name = list[j].name => i = j
  BY <1>1, <1>2, Listed DEF Listing
<1>5. <<Top.dir, E>> \notin skipped
  <2>1. SUFFICES ASSUME <<Top.dir, E>> \in skipped PROVE FALSE
    OBVIOUS
  <2>2. PICK j \in 1..k : list[j] = E
    BY <1>2, <2>1 DEF IInv, TreeInv, Skips
  <2>3. j \in DOMAIN list /\ j # k + 1
    BY <1>3, <1>4
  <2>4. QED
    BY <1>3, <1>4, <2>2, <2>3
<1>6. E.name \in Names /\ nodes[Top.dir].path \in Seq(Names)
  BY <1>2, <1>3 DEF EntryOf, NodeOf
<1>7. /\ PathOf \in Seq(Names) /\ PathOf # <<>> /\ PathOf[Len(PathOf)] = E.name
      /\ Len(PathOf) = 1 <=> nodes[Top.dir].path = <<>>
  <2> DEFINE above == nodes[Top.dir].path
             name  == E.name
             here  == Append(above, name)
  <2>1. PathOf = here
    BY DEF PathOf
  <2> HIDE DEF above, name
  <2>2. above \in Seq(Names) /\ name \in Names
    BY <1>6 DEF above, name
  <2>3. /\ here \in Seq(Names) /\ here # <<>> /\ here[Len(here)] = name
        /\ Len(here) = 1 <=> above = <<>>
    BY <2>2
  <2>4. QED
    BY <2>1, <2>3 DEF above, name
<1>8. nodes[Top.dir].path = <<>> <=> Top.dir = Root
  BY <1>2 DEF IInv, TreeInv, Made, NodeAt
<1>9. Hidden(PathOf) <=> \/ Top.dir = Root /\ Upper[E.name] \in HiddenRootDirs
                         \/ E.name = DSStore
  BY <1>7, <1>8 DEF Hidden
<1>10. QED
  BY <1>3, <1>4, <1>5, <1>7, <1>9

\* The innermost frame is changed.
LEMMA TopReplaced ==
    ASSUME NEW S, NEW s \in Seq(S), s # <<>>, NEW x \in S
    PROVE  LET t == ReplaceAt(s, Len(s), x) IN
           /\ t \in Seq(S) /\ t # <<>> /\ Len(t) = Len(s) /\ DOMAIN t = DOMAIN s
           /\ t[Len(s)] = x /\ \A i \in DOMAIN s : i # Len(s) => t[i] = s[i]
BY DEF ReplaceAt

\* The innermost frame, one entry further.
LEMMA NextUpFacts ==
    ASSUME IInv, AtEntry
    PROVE  /\ NextUp \in FrameOf(disc) /\ NextUp.dir = Top.dir /\ NextUp.left = Tail(Top.left)
           /\ NextUp.children = Top.children
<1>1. Top \in FrameOf(disc) /\ Tail(Top.left) \in Seq(EntryOf(disc))
  BY TopFacts, EntryFacts DEF AtEntry
<1>2. QED
  BY <1>1 DEF NextUp, FrameOf

\* A frame with one kid more.
LEMMA OneKidMore ==
    ASSUME NEW d, NEW f \in FrameOf(d), NEW c \in Nat
    PROVE  LET g == [f EXCEPT !.children = Append(@, c)] IN
           /\ g \in FrameOf(d) /\ g.dir = f.dir /\ g.left = f.left
           /\ g.children = Append(f.children, c)
<1> DEFINE more == Append(f.children, c)
           g == [f EXCEPT !.children = more]
<1>1. f.children \in Seq(Nat)
  BY DEF FrameOf
<1>2. more \in Seq(Nat)
  BY <1>1
<1> HIDE DEF more
<1>3. g \in FrameOf(d) /\ g.dir = f.dir /\ g.left = f.left /\ g.children = more
  BY <1>2 DEF FrameOf
<1>4. QED
  BY <1>3 DEF more

\* A step that goes past an entry that is not to be seen.
LEMMA GoesPast ==
    ASSUME IInv, AtEntry, UNCHANGED <<disc, nodes, lookup, scan, client>>, frames' = Rest,
           nextId' \in {nextId, nextId + 1},
           skipped \subseteq skipped',
           \A x \in skipped' \ skipped : x = <<Top.dir, E>> /\ disc.mode = "volume",
           ~Seen(skipped', Top.dir, E)
    PROVE  IInv'
<1> DEFINE n == Len(frames)
           k == Past(disc, nodes, Top)
<1>1. /\ scan = "walking" /\ n \in Nat /\ n \in DOMAIN frames /\ Top = frames[n]
      /\ Top \in FrameOf(disc) /\ Top.dir \in DOMAIN nodes
      /\ Find(disc, nodes[Top.dir].path) \in Things(disc)
      /\ Walked(disc, nodes, lookup, skipped, Top.dir, Top.children, k)
      /\ \A i \in DOMAIN frames : i # n => frames[i].dir # Top.dir
  BY TopFacts DEF AtEntry
<1>2. /\ k \in Nat /\ k + 1 \in DOMAIN Listing(disc, nodes, Top.dir)
      /\ E = Listing(disc, nodes, Top.dir)[k + 1]
      /\ FrameAt(disc, nodes, NextUp) /\ Past(disc, nodes, NextUp) = k + 1
  BY EntryFacts, NextUpFacts
<1>3. /\ NextUp \in FrameOf(disc) /\ NextUp.dir = Top.dir /\ NextUp.children = Top.children
  BY NextUpFacts
<1>4. /\ frames' \in Seq(FrameOf(disc)) /\ frames' # <<>> /\ DOMAIN frames' = DOMAIN frames
      /\ frames'[n] = NextUp /\ \A i \in DOMAIN frames : i # n => frames'[i] = frames[i]
  <2>1. frames \in Seq(FrameOf(disc)) /\ frames # <<>>
    BY <1>1 DEF IInv, TreeInv, Walking
  <2>2. frames' = ReplaceAt(frames, n, NextUp)
    BY DEF Rest
  <2>3. QED
    <3> DEFINE F == FrameOf(disc)
               t == ReplaceAt(frames, n, NextUp)
    <3>1. frames \in Seq(F) /\ frames # <<>> /\ NextUp \in F
      BY <1>3, <2>1
    <3> HIDE DEF F
    <3>2. /\ t \in Seq(F) /\ t # <<>> /\ DOMAIN t = DOMAIN frames
          /\ t[n] = NextUp /\ \A i \in DOMAIN frames : i # n => t[i] = frames[i]
      BY <3>1, TopReplaced
    <3>3. QED
      BY <2>2, <3>2 DEF F
<1>5. Wellformed(disc)
  BY DiscWellformed DEF IInv
<1> HIDE DEF n, k
<1>6. \A i \in DOMAIN frames : frames'[i].dir = frames[i].dir
  BY <1>1, <1>3, <1>4
<1>7. Made'
  <2>1. Made
    BY DEF IInv, TreeInv
  <2>2. nextId' \in Nat /\ Root < nextId' /\ 1..(nextId - 1) \subseteq 1..(nextId' - 1)
    BY <2>1 DEF Made, Root
  <2>3. QED
    BY <2>1, <2>2 DEF Made
<1>8. Named' /\ PathsLead'
  BY DEF IInv, TreeInv, Named, PathsLead, Namesake
<1>9. Walking'
  <2>1. ASSUME NEW i \in DOMAIN frames' PROVE FrameAt(disc, nodes, frames'[i])
    BY <1>2, <1>4 DEF IInv, TreeInv, Walking
  <2>2. \A i, j \in DOMAIN frames' : i < j => frames'[i].dir < frames'[j].dir
    BY <1>4, <1>6 DEF IInv, TreeInv, Walking
  <2>3. scan' = "walking" /\ frames' # <<>>
    BY <1>1, <1>4
  <2>4. QED
    BY <1>4, <2>1, <2>2, <2>3 DEF Walking
<1>10. Walked(disc, nodes, lookup, skipped', Top.dir, Top.children, k + 1)
  BY <1>1, <1>2, <1>5, WalkedPast
<1>11. ASSUME NEW m \in DOMAIN nodes, m # Top.dir, NEW kids, NEW j,
              Walked(disc, nodes, lookup, skipped, m, kids, j)
       PROVE  Walked(disc, nodes, lookup, skipped', m, kids, j)
  <2>1. \A x : <<m, x>> \in skipped' <=> <<m, x>> \in skipped
    BY <1>11
  <2>2. QED
    BY <1>11, <2>1, WalkedElsewhere
<1>12. Mirrors'
  <2>1. ASSUME NEW i \in DOMAIN frames'
        PROVE  Walked(disc, nodes, lookup, skipped', frames'[i].dir, frames'[i].children,
                      Past(disc, nodes, frames'[i]))
    <3>1. CASE i = n
      BY <1>2, <1>3, <1>4, <1>10, <3>1
    <3>2. CASE i # n
      <4>1. /\ frames'[i] = frames[i] /\ frames[i].dir # Top.dir
            /\ FrameAt(disc, nodes, frames[i])
            /\ Walked(disc, nodes, lookup, skipped, frames[i].dir, frames[i].children,
                      Past(disc, nodes, frames[i]))
        BY <1>1, <1>4, <3>2 DEF IInv, TreeInv, Mirrors, Walking
      <4>2. frames[i].dir \in DOMAIN nodes
        BY <4>1 DEF FrameAt
      <4>3. QED
        BY <1>11, <4>1, <4>2
    <3>3. QED
      BY <3>1, <3>2
  <2>2. ASSUME NEW m \in DOMAIN nodes, nodes[m].kind = "dir",
               \A i \in DOMAIN frames' : frames'[i].dir # m
        PROVE  Walked(disc, nodes, lookup, skipped', m, nodes[m].children,
                      Len(Listing(disc, nodes, m)))
    <3>1. m # Top.dir /\ \A i \in DOMAIN frames : frames[i].dir # m
      BY <1>1, <1>4, <1>6, <2>2
    <3>2. Walked(disc, nodes, lookup, skipped, m, nodes[m].children,
                 Len(Listing(disc, nodes, m)))
      BY <1>1, <2>2, <3>1 DEF IInv, TreeInv, Mirrors
    <3>3. QED
      BY <1>11, <3>1, <3>2
  <2>3. QED
    BY <2>1, <2>2 DEF Mirrors
<1>13. Skips'
  <2>1. skipped' # {} => disc.mode = "volume"
    BY DEF IInv, TreeInv, Skips
  <2>2. ASSUME NEW x \in skipped' PROVE x[1] \in DOMAIN nodes
    BY <1>1 DEF IInv, TreeInv, Skips
  <2>3. ASSUME NEW x \in skipped', NEW i \in DOMAIN frames', frames'[i].dir = x[1]
        PROVE  \E j \in 1..Past(disc, nodes, frames'[i]) : Listing(disc, nodes, x[1])[j] = x[2]
    <3>1. CASE x \in skipped
      <4>1. PICK j \in 1..Past(disc, nodes, frames[i]) : Listing(disc, nodes, x[1])[j] = x[2]
        BY <1>4, <1>6, <2>3, <3>1 DEF IInv, TreeInv, Skips
      <4>2. CASE i = n
        <5>1. j \in 1..k
          BY <1>1, <4>1, <4>2 DEF k
        <5>2. Past(disc, nodes, frames'[i]) = k + 1
          BY <1>2, <1>4, <4>2
        <5>3. j \in 1..k + 1
          BY <1>2, <5>1
        <5>4. QED
          BY <4>1, <5>2, <5>3
      <4>3. CASE i # n
        BY <1>4, <4>1, <4>3
      <4>4. QED
        BY <4>2, <4>3
    <3>2. CASE x \notin skipped
      <4>1. x = <<Top.dir, E>>
        BY <3>2
      <4>2. i = n
        BY <1>1, <1>4, <1>6, <2>3, <4>1
      <4>3. k + 1 \in 1..Past(disc, nodes, frames'[i])
        BY <1>2, <1>4, <4>2
      <4>4. QED
        BY <1>2, <4>1, <4>3
    <3>3. QED
      BY <3>1, <3>2
  <2>4. QED
    BY <2>1, <2>2, <2>3 DEF Skips
<1>14. Clients'
  BY DEF IInv, Clients, NoClient
<1>15. QED
  BY <1>7, <1>8, <1>9, <1>12, <1>13, <1>14 DEF IInv, TreeInv

\* The path of an entry leads to it, or to one before it.
LEMMA EntryFound ==
    ASSUME IInv, AtEntry
    PROVE  LET list == Listing(disc, nodes, Top.dir)
               x    == Find(disc, PathOf) IN
           /\ x \in Things(disc) /\ x \in EntryOf(disc)
           /\ \E j \in 1..Past(disc, nodes, Top) + 1 :
                 /\ x = list[j] /\ Same(disc, list[j].name, E.name)
                 /\ disc.mode # "udf" => x = E
<1> DEFINE list == Listing(disc, nodes, Top.dir)
           k    == Past(disc, nodes, Top)
           path == nodes[Top.dir].path
<1>1. Wellformed(disc) /\ Find(disc, path) \in Things(disc) /\ nodes[Top.dir] \in NodeOf(disc)
  BY DiscWellformed, TopFacts DEF IInv, AtEntry
<1>2. k \in Nat /\ k + 1 \in DOMAIN list /\ E = list[k + 1]
  BY EntryFacts
<1>3. path \in Seq(Names) /\ list = Entries(disc, Find(disc, path)) /\ PathOf = Append(path, E.name)
  BY <1>1 DEF NodeOf, Listing, PathOf
<1>4. list \in Seq(EntryOf(disc))
  BY <1>1, Listed DEF Listing
<1> HIDE DEF list, k, path
<1>5. /\ Find(disc, PathOf) \in Things(disc) /\ Find(disc, PathOf) \in EntryOf(disc)
      /\ \E j \in DOMAIN list :
            /\ Find(disc, PathOf) = list[j] /\ j <= k + 1 /\ Same(disc, list[j].name, E.name)
            /\ disc.mode # "udf" => j = k + 1
  BY <1>1, <1>2, <1>3, FindListed
<1>6. \A j \in DOMAIN list : j <= k + 1 => j \in 1..k + 1
  BY <1>2, <1>4
<1>7. QED
  BY <1>2, <1>5, <1>6 DEF list, k

\* A node that is inserted for the entry: its kind and flags are those of the
\* entry.
Fits(node) ==
    /\ node \in NodeOf(disc)
    /\ node.parent = Top.dir /\ node.name = E.name /\ node.path = PathOf /\ node.entry = E
    /\ node.children = <<>>
    /\ node.kind = "dir" <=> E.kind = "dir"
    /\ node.kind = "dir" => node.flags = None
    /\ node.kind # "dir" => /\ node.flags = Classify(PathOf)
                            /\ node.kind = "encrypted" <=> node.flags # None

\* A node is inserted below the directory of the innermost frame.
LEMMA Inserted ==
    ASSUME IInv, AtEntry, ~Hidden(PathOf), E.kind \in {"file", "dir"},
           NEW node, Fits(node), Insert(node), UNCHANGED <<disc, skipped>>
    PROVE  /\ nextId \in Nat /\ nextId \notin DOMAIN nodes /\ nextId # Root
           /\ \A n \in DOMAIN nodes : n < nextId
           /\ DOMAIN nodes' = DOMAIN nodes \cup {nextId} /\ nodes'[nextId] = node
           /\ \A x \in DOMAIN nodes : nodes'[x] = nodes[x]
           /\ Made' /\ Named' /\ PathsLead'
           /\ \A m \in DOMAIN nodes : \A kids, j :
                 m # Top.dir /\ Walked(disc, nodes, lookup, skipped, m, kids, j)
                    => Walked(disc, nodes', lookup', skipped, m, kids, j)
           /\ Walked(disc, nodes', lookup', skipped, Top.dir, Append(Top.children, nextId),
                     Past(disc, nodes, Top) + 1)
<1> DEFINE list == Listing(disc, nodes, Top.dir)
           k    == Past(disc, nodes, Top)
<1>1. /\ scan = "walking" /\ Top.dir \in DOMAIN nodes
      /\ Find(disc, nodes[Top.dir].path) \in Things(disc)
      /\ Walked(disc, nodes, lookup, skipped, Top.dir, Top.children, k)
  BY TopFacts DEF AtEntry
<1>2. /\ k \in Nat /\ k + 1 \in DOMAIN list /\ E = list[k + 1] /\ E \in EntryOf(disc)
      /\ <<Top.dir, E>> \notin skipped
      /\ Hidden(PathOf) <=> \/ Top.dir = Root /\ Upper[E.name] \in HiddenRootDirs
                            \/ E.name = DSStore
      /\ PathOf \in Seq(Names) /\ PathOf # <<>>
  BY EntryFacts
<1>3. Wellformed(disc)
  BY DiscWellformed DEF IInv
<1>4. Made /\ Named /\ PathsLead /\ Skips
  BY DEF IInv, TreeInv
<1>5. /\ nextId \in Nat /\ Root < nextId /\ nextId # Root
      /\ \A n \in DOMAIN nodes : n \in Nat /\ n < nextId /\ n # nextId
  BY <1>4 DEF Made, Root
<1>6. nextId \notin DOMAIN nodes
  BY <1>5
<1>7. nodes' = Put(nodes, nextId, node) /\ lookup' = Put(lookup, <<Top.dir, E.name>>, nextId)
      /\ nextId' = nextId + 1
  BY DEF Insert
<1>8. /\ DOMAIN nodes' = DOMAIN nodes \cup {nextId} /\ nodes'[nextId] = node
      /\ \A x \in DOMAIN nodes : nodes'[x] = nodes[x]
  BY <1>6, <1>7 DEF Put
<1>9. /\ DOMAIN lookup' = DOMAIN lookup \cup {<<Top.dir, E.name>>}
      /\ lookup'[<<Top.dir, E.name>>] = nextId
      /\ \A x \in DOMAIN lookup : x # <<Top.dir, E.name>> => lookup'[x] = lookup[x]
  BY <1>7 DEF Put
<1> HIDE DEF list, k
<1>10. Made'
  <2>1. nextId' \in Nat /\ Root < nextId' /\ Root \in DOMAIN nodes'
    BY <1>4, <1>5, <1>7, <1>8 DEF Made, Root
  <2>2. DOMAIN nodes' \subseteq 1..(nextId' - 1)
    BY <1>4, <1>5, <1>7, <1>8 DEF Made, Root
  <2>3. nodes' \in [DOMAIN nodes' -> NodeOf(disc)]
    <3>1. nodes' = [x \in DOMAIN nodes' |-> nodes'[x]]
      BY <1>7 DEF Put
    <3>2. \A x \in DOMAIN nodes' : nodes'[x] \in NodeOf(disc)
      BY <1>4, <1>8 DEF Made, Fits
    <3>3. QED
      BY <3>1, <3>2
  <2>4. ASSUME NEW n \in DOMAIN nodes PROVE NodeAt(disc, nodes', n)
    <3>1. NodeAt(disc, nodes, n) /\ nodes'[n] = nodes[n] /\ DOMAIN nodes \subseteq DOMAIN nodes'
      BY <1>4, <1>8 DEF Made
    <3>2. nodes[n].children \in Seq(DOMAIN nodes')
      BY <3>1 DEF NodeAt
    <3>3. QED
      BY <3>1, <3>2 DEF NodeAt
  <2>5. NodeAt(disc, nodes', nextId)
    <3>1. Find(disc, PathOf) \in Things(disc)
      BY EntryFound
    <3>2. E.name \in Names
      BY <1>2 DEF EntryOf
    <3>3. <<>> \in Seq(DOMAIN nodes')
      OBVIOUS
    <3>4. QED
      BY <1>1, <1>2, <1>5, <1>8, <3>1, <3>2, <3>3 DEF NodeAt, Fits
  <2>6. QED
    BY <1>8, <2>1, <2>2, <2>3, <2>4, <2>5 DEF Made
<1>11. Named'
  <2>1. ASSUME NEW key \in DOMAIN lookup'
        PROVE  /\ lookup'[key] \in DOMAIN nodes'
               /\ nodes'[lookup'[key]].parent = key[1] /\ nodes'[lookup'[key]].name = key[2]
    <3>1. CASE key = <<Top.dir, E.name>>
      BY <1>8, <1>9, <3>1 DEF Fits
    <3>2. CASE key # <<Top.dir, E.name>>
      BY <1>4, <1>8, <1>9, <3>2 DEF Named
    <3>3. QED
      BY <3>1, <3>2
  <2>2. QED
    BY <2>1 DEF Named
<1>12. Seen(skipped, Top.dir, E)
  BY <1>2 DEF Seen
<1>13. Walked(disc, nodes', lookup', skipped, Top.dir, Append(Top.children, nextId), k + 1)
  <2>1. node.parent = Top.dir /\ node.entry = E
    BY DEF Fits
  <2>2. QED
    BY <1>1, <1>2, <1>3, <1>5, <1>6, <1>7, <1>12, <2>1, WalkedKid DEF list
<1>14. ASSUME NEW m \in DOMAIN nodes, NEW kids, NEW j, m # Top.dir,
              Walked(disc, nodes, lookup, skipped, m, kids, j)
       PROVE  Walked(disc, nodes', lookup', skipped, m, kids, j)
  <2>1. DOMAIN nodes \subseteq DOMAIN nodes'
    BY <1>8
  <2>2. \A x \in DOMAIN lookup : x[1] = m => x \in DOMAIN lookup' /\ lookup'[x] = lookup[x]
    BY <1>9, <1>14
  <2>3. \A x \in DOMAIN nodes : /\ nodes'[x].path = nodes[x].path
                                /\ nodes'[x].parent = nodes[x].parent
                                /\ nodes'[x].entry = nodes[x].entry
    BY <1>8
  <2>4. QED
    BY <1>14, <2>1, <2>2, <2>3, WalkedElsewhere
<1>15. PathsLead'
  <2>1. ASSUME NEW n \in DOMAIN nodes, Namesake(n) PROVE Namesake(n)'
    BY <1>8, <2>1 DEF Namesake
  <2>0. PICK c : c = nextId
    OBVIOUS
  <2>2. ASSUME ~Namesake(c)' PROVE Find(disc, PathOf) = E
    <3>1. PICK j \in 1..k + 1 : /\ Find(disc, PathOf) = list[j]
                                /\ Same(disc, list[j].name, E.name)
                                /\ disc.mode # "udf" => Find(disc, PathOf) = E
      BY EntryFound DEF list, k
    <3>2. CASE disc.mode # "udf" \/ j = k + 1
      BY <1>2, <3>1, <3>2
    <3>3. CASE disc.mode = "udf" /\ j # k + 1
      <4> DEFINE e == list[j]
      <4>1. j \in 1..k
        BY <1>2, <3>3
      <4>2. Upper[e.name] = Upper[E.name]
        BY <3>1, <3>3 DEF Same
      <4>3. Upper[E.name] # Upper[DSStore]
        BY <1>5, <1>8, <2>0, <2>2, <3>3 DEF Namesake, Fits
      <4>4. e.kind \in {"dir", "file"}
        <5>1. /\ list \in Seq(EntryOf(disc))
              /\ \A i \in DOMAIN list : /\ list[i].kind \notin Passed
                                        /\ list[i].kind = "special" => disc.mode = "volume"
          BY <1>1, <1>3, Listed DEF Listing, list
        <5>2. j \in DOMAIN list
          BY <1>2, <4>1, <5>1
        <5>3. e \in EntryOf(disc) /\ e.kind \notin Passed /\ e.kind # "special"
          BY <3>3, <5>1, <5>2
        <5>4. QED
          BY <5>3 DEF EntryOf, Passed
      <4>5. <<Top.dir, e>> \notin skipped
        BY <1>4, <3>3 DEF Skips
      <4>6. Seen(skipped, Top.dir, e)
        BY <1>2, <4>2, <4>3, <4>4, <4>5 DEF Seen
      <4> HIDE DEF e
      <4>7. PICK i \in DOMAIN Top.children : nodes[Top.children[i]].entry = e
        BY <1>1, <4>1, <4>6 DEF Walked, list, e
      <4> DEFINE m == Top.children[i]
      <4>8. m \in DOMAIN nodes /\ m # Root /\ nodes[m].parent = Top.dir
        <5>1. /\ Top.children \in Seq(DOMAIN nodes)
              /\ \A x \in DOMAIN Top.children :
                    Top.children[x] # Root /\ nodes[Top.children[x]].parent = Top.dir
          BY <1>1 DEF Walked
        <5>2. QED
          BY <4>7, <5>1
      <4>9. nodes[m].name = e.name
        BY <1>4, <4>7, <4>8 DEF Made, NodeAt
      <4> HIDE DEF m
      <4>10. Namesake(c)'
        <5>1. m \in DOMAIN nodes' \ {Root} /\ m < nextId /\ nodes'[m] = nodes[m]
          BY <1>5, <1>8, <4>8
        <5>2. nodes'[nextId].parent = Top.dir /\ nodes'[nextId].name = E.name
          BY <1>8 DEF Fits
        <5>3. QED
          BY <1>5, <2>0, <3>3, <4>2, <4>8, <4>9, <5>1, <5>2 DEF Namesake
      <4>11. QED
        BY <2>2, <4>10
    <3>4. QED
      BY <3>2, <3>3
  <2>3. ASSUME NEW n \in DOMAIN nodes', ~Namesake(n)'
        PROVE  Find(disc, nodes'[n].path) = nodes'[n].entry
    <3>1. CASE n = nextId
      BY <1>8, <2>0, <2>2, <2>3, <3>1 DEF Fits
    <3>2. CASE n # nextId
      BY <1>4, <1>8, <2>1, <2>3, <3>2 DEF PathsLead
    <3>3. QED
      BY <3>1, <3>2
  <2>4. QED
    BY <2>3 DEF PathsLead
<1>16. QED
  BY <1>5, <1>6, <1>8, <1>10, <1>11, <1>13, <1>14, <1>15 DEF k

\* A step that inserts a node for the entry, and for a directory goes on below.
LEMMA GoesOn ==
    ASSUME IInv, AtEntry, ~Hidden(PathOf), E.kind \in {"file", "dir"},
           NEW node, Fits(node), Insert(node), UNCHANGED <<disc, scan, skipped, client>>,
           frames' = IF E.kind = "dir"
                     THEN Append(WithChild, Frame(nextId, Entries(disc, Find(disc, PathOf))))
                     ELSE WithChild
    PROVE  IInv'
<1> DEFINE n == Len(frames)
           k == Past(disc, nodes, Top)
           list == Listing(disc, nodes', nextId)
           with == [NextUp EXCEPT !.children = Append(@, nextId)]
           new  == Frame(nextId, list)
<1>1. /\ scan = "walking" /\ n \in Nat /\ n \in DOMAIN frames /\ DOMAIN frames = 1..n
      /\ Top = frames[n] /\ Top \in FrameOf(disc)
      /\ Top.dir \in DOMAIN nodes /\ nodes[Top.dir].kind = "dir"
      /\ \A i \in DOMAIN frames : i # n => frames[i].dir # Top.dir
  BY TopFacts DEF AtEntry
<1>2. /\ nextId \in Nat /\ nextId \notin DOMAIN nodes
      /\ \A x \in DOMAIN nodes : x < nextId
      /\ DOMAIN nodes' = DOMAIN nodes \cup {nextId} /\ nodes'[nextId] = node
      /\ \A x \in DOMAIN nodes : nodes'[x] = nodes[x]
      /\ Made' /\ Named' /\ PathsLead'
  BY Inserted
<1>3. /\ \A m \in DOMAIN nodes : \A kids, j :
            m # Top.dir /\ Walked(disc, nodes, lookup, skipped, m, kids, j)
               => Walked(disc, nodes', lookup', skipped, m, kids, j)
      /\ Walked(disc, nodes', lookup', skipped, Top.dir, Append(Top.children, nextId), k + 1)
  BY Inserted
<1>4. /\ k \in Nat /\ \A g : g.dir = Top.dir /\ g.left = Tail(Top.left) =>
                         FrameAt(disc, nodes, g) /\ Past(disc, nodes, g) = k + 1
  BY EntryFacts
<1>5. /\ NextUp \in FrameOf(disc) /\ NextUp.dir = Top.dir /\ NextUp.left = Tail(Top.left)
      /\ NextUp.children = Top.children
  BY NextUpFacts
<1>6. /\ with \in FrameOf(disc) /\ with.dir = Top.dir /\ with.left = Tail(Top.left)
      /\ with.children = Append(Top.children, nextId)
  BY <1>2, <1>5, OneKidMore
<1>7. Wellformed(disc)
  BY DiscWellformed DEF IInv
<1>8. list = Entries(disc, Find(disc, PathOf)) /\ list \in Seq(EntryOf(disc))
  <2>1. list = Entries(disc, Find(disc, PathOf))
    BY <1>2 DEF Listing, Fits
  <2>2. Find(disc, PathOf) \in Things(disc)
    BY EntryFound
  <2>3. QED
    BY <1>7, <2>1, <2>2, Listed
<1>9. /\ new \in FrameOf(disc) /\ new.dir = nextId /\ new.left = list /\ new.children = <<>>
  BY <1>2, <1>8 DEF Frame, FrameOf
<1>10. /\ frames \in Seq(FrameOf(disc)) /\ frames # <<>>
  BY <1>1 DEF IInv, TreeInv, Walking
<1>11. WithChild = ReplaceAt(frames, n, with)
  BY DEF WithChild
<1> HIDE DEF with, list, new
<1>12. /\ WithChild \in Seq(FrameOf(disc)) /\ Len(WithChild) = n /\ WithChild[n] = with
       /\ \A i \in DOMAIN frames : i # n => WithChild[i] = frames[i]
  <2> DEFINE F == FrameOf(disc)
             t == ReplaceAt(frames, n, with)
  <2>1. frames \in Seq(F) /\ frames # <<>> /\ with \in F
    BY <1>6, <1>10
  <2> HIDE DEF F
  <2>2. /\ t \in Seq(F) /\ Len(t) = n /\ t[n] = with
        /\ \A i \in DOMAIN frames : i # n => t[i] = frames[i]
    BY <2>1, TopReplaced
  <2>3. QED
    BY <1>11, <2>2 DEF F
<1>13. frames' = IF E.kind = "dir" THEN Append(WithChild, new) ELSE WithChild
  BY <1>8 DEF new
<1> HIDE DEF n
<1>14. /\ frames' \in Seq(FrameOf(disc)) /\ frames' # <<>>
       /\ DOMAIN frames' = IF E.kind = "dir" THEN 1..n + 1 ELSE 1..n
       /\ frames'[n] = with
       /\ \A i \in DOMAIN frames : i # n => frames'[i] = frames[i]
       /\ E.kind = "dir" => frames'[n + 1] = new
  <2> DEFINE F == FrameOf(disc)
             s == WithChild
  <2>1. /\ s \in Seq(F) /\ Len(s) = n /\ s[n] = with /\ new \in F /\ n \in 1..n /\ n \in Nat
        /\ \A i \in 1..n : i # n => s[i] = frames[i]
    BY <1>1, <1>9, <1>12
  <2> HIDE DEF F, s
  <2>2. CASE E.kind = "dir"
    <3>1. frames' = Append(s, new)
      BY <1>13, <2>2 DEF s
    <3>2. /\ Append(s, new) \in Seq(F) /\ Append(s, new) # <<>>
          /\ DOMAIN Append(s, new) = 1..n + 1 /\ Append(s, new)[n + 1] = new
          /\ \A i \in 1..n : Append(s, new)[i] = s[i]
      BY <2>1
    <3>3. QED
      BY <1>1, <2>1, <2>2, <3>1, <3>2 DEF F
  <2>3. CASE E.kind # "dir"
    <3>1. frames' = s
      BY <1>13, <2>3 DEF s
    <3>2. QED
      BY <1>1, <2>1, <2>3, <3>1 DEF F
  <2>4. QED
    BY <2>2, <2>3
<1>15. \A i \in DOMAIN frames' : \/ i \in DOMAIN frames /\ i # n /\ frames'[i] = frames[i]
                                 \/ i = n /\ frames'[i] = with
                                 \/ E.kind = "dir" /\ i = n + 1 /\ frames'[i] = new
  BY <1>1, <1>14
<1>16. /\ FrameAt(disc, nodes', with) /\ Past(disc, nodes', with) = k + 1
  <2>1. FrameAt(disc, nodes, with) /\ Past(disc, nodes, with) = k + 1
    BY <1>4, <1>6
  <2>2. nodes'[with.dir] = nodes[with.dir] /\ with.dir \in DOMAIN nodes'
    BY <1>1, <1>2, <1>6
  <2>3. QED
    BY <2>1, <2>2 DEF FrameAt, Past, Listing
<1>17. ASSUME E.kind = "dir"
       PROVE  FrameAt(disc, nodes', new) /\ Past(disc, nodes', new) = 0
  <2>1. nodes'[nextId].kind = "dir" /\ nextId \in DOMAIN nodes'
    BY <1>2, <1>17 DEF Fits
  <2>2. Listing(disc, nodes', new.dir) = list
    BY <1>9 DEF list
  <2>3. Len(list) \in Nat
    BY <1>8
  <2>4. QED
    BY <1>9, <2>1, <2>2, <2>3 DEF FrameAt, Past
<1>18. ASSUME NEW i \in DOMAIN frames, i # n
       PROVE  /\ frames[i].dir \in DOMAIN nodes /\ frames[i].dir # Top.dir
              /\ FrameAt(disc, nodes', frames[i])
              /\ Past(disc, nodes', frames[i]) = Past(disc, nodes, frames[i])
              /\ Walked(disc, nodes', lookup', skipped, frames[i].dir, frames[i].children,
                        Past(disc, nodes', frames[i]))
  <2>1. /\ FrameAt(disc, nodes, frames[i]) /\ frames[i].dir # Top.dir
        /\ Walked(disc, nodes, lookup, skipped, frames[i].dir, frames[i].children,
                  Past(disc, nodes, frames[i]))
    BY <1>1, <1>18 DEF IInv, TreeInv, Walking, Mirrors
  <2>2. frames[i].dir \in DOMAIN nodes
    BY <2>1 DEF FrameAt
  <2>3. nodes'[frames[i].dir] = nodes[frames[i].dir] /\ frames[i].dir \in DOMAIN nodes'
    BY <1>2, <2>2
  <2>4. /\ FrameAt(disc, nodes', frames[i])
        /\ Past(disc, nodes', frames[i]) = Past(disc, nodes, frames[i])
    BY <2>1, <2>3 DEF FrameAt, Past, Listing
  <2>5. QED
    BY <1>3, <2>1, <2>2, <2>4
<1>19. Walking'
  <2>1. ASSUME NEW i \in DOMAIN frames' PROVE FrameAt(disc, nodes', frames'[i])
    BY <1>15, <1>16, <1>17, <1>18
  <2>2. ASSUME NEW i \in DOMAIN frames', NEW j \in DOMAIN frames', i < j
        PROVE  frames'[i].dir < frames'[j].dir
    <3>1. CASE j \in DOMAIN frames
      <4>1. i \in DOMAIN frames
        BY <1>1, <1>14, <2>2, <3>1
      <4>2. frames'[i].dir = frames[i].dir /\ frames'[j].dir = frames[j].dir
        BY <1>1, <1>6, <1>14, <3>1, <4>1
      <4>3. QED
        BY <2>2, <3>1, <4>1, <4>2 DEF IInv, TreeInv, Walking
    <3>2. CASE j \notin DOMAIN frames
      <4>1. frames'[j] = new /\ i \in DOMAIN frames
        BY <1>1, <1>14, <1>15, <2>2, <3>2
      <4>2. frames'[i].dir \in DOMAIN nodes
        BY <1>1, <1>6, <1>14, <1>18, <4>1
      <4>3. QED
        BY <1>2, <1>9, <4>1, <4>2
    <3>3. QED
      BY <3>1, <3>2
  <2>3. scan' = "walking" /\ frames' # <<>> /\ frames' \in Seq(FrameOf(disc))
    BY <1>1, <1>14
  <2>4. QED
    BY <2>1, <2>2, <2>3 DEF Walking
<1>20. Mirrors'
  <2>1. ASSUME NEW i \in DOMAIN frames'
        PROVE  Walked(disc, nodes', lookup', skipped, frames'[i].dir, frames'[i].children,
                      Past(disc, nodes', frames'[i]))
    <3>1. CASE i = n /\ frames'[i] = with
      BY <1>3, <1>6, <1>16, <3>1
    <3>2. CASE E.kind = "dir" /\ frames'[i] = new
      BY <1>9, <1>17, <3>2, WalkedNothing
    <3>3. CASE i \in DOMAIN frames /\ i # n /\ frames'[i] = frames[i]
      BY <1>18, <3>3
    <3>4. QED
      BY <1>15, <3>1, <3>2, <3>3
  <2>2. ASSUME NEW m \in DOMAIN nodes', nodes'[m].kind = "dir",
               \A i \in DOMAIN frames' : frames'[i].dir # m
        PROVE  Walked(disc, nodes', lookup', skipped, m, nodes'[m].children,
                      Len(Listing(disc, nodes', m)))
    <3>1. m # Top.dir
      BY <1>1, <1>6, <1>14, <2>2
    <3>2. m # nextId
      <4>1. SUFFICES ASSUME m = nextId PROVE FALSE
        OBVIOUS
      <4>2. E.kind = "dir"
        BY <1>2, <2>2, <4>1 DEF Fits
      <4>3. n + 1 \in DOMAIN frames' /\ frames'[n + 1] = new
        BY <1>1, <1>14, <4>2
      <4>4. QED
        BY <1>9, <2>2, <4>1, <4>3
    <3>3. m \in DOMAIN nodes /\ nodes'[m] = nodes[m]
      BY <1>2, <3>2
    <3>4. \A i \in DOMAIN frames : frames[i].dir # m
      BY <1>1, <1>14, <2>2, <3>1
    <3>5. Walked(disc, nodes, lookup, skipped, m, nodes[m].children,
                 Len(Listing(disc, nodes, m)))
      BY <1>1, <2>2, <3>3, <3>4 DEF IInv, TreeInv, Mirrors
    <3>6. Listing(disc, nodes', m) = Listing(disc, nodes, m)
      BY <3>3 DEF Listing
    <3>7. QED
      BY <1>3, <3>1, <3>3, <3>5, <3>6
  <2>3. QED
    BY <2>1, <2>2 DEF Mirrors
<1>21. Skips'
  <2>1. Skips
    BY DEF IInv, TreeInv
  <2>2. ASSUME NEW x \in skipped PROVE x[1] \in DOMAIN nodes'
    BY <1>2, <2>1 DEF Skips
  <2>3. ASSUME NEW x \in skipped, NEW i \in DOMAIN frames', frames'[i].dir = x[1]
        PROVE  \E j \in 1..Past(disc, nodes', frames'[i]) : Listing(disc, nodes', x[1])[j] = x[2]
    <3>1. Listing(disc, nodes', x[1]) = Listing(disc, nodes, x[1])
      BY <1>2, <2>1 DEF Listing, Skips
    <3>2. CASE i = n /\ frames'[i] = with
      <4>1. frames[n].dir = x[1]
        BY <1>1, <1>6, <2>3, <3>2
      <4>2. PICK j \in 1..k : Listing(disc, nodes, x[1])[j] = x[2]
        BY <1>1, <2>1, <4>1 DEF Skips
      <4>3. j \in 1..k + 1
        BY <1>4
      <4>4. QED
        BY <1>16, <3>1, <3>2, <4>2, <4>3
    <3>3. CASE frames'[i] = new
      BY <1>2, <1>9, <2>1, <2>3, <3>3 DEF Skips
    <3>4. CASE i \in DOMAIN frames /\ i # n /\ frames'[i] = frames[i]
      BY <1>18, <2>1, <2>3, <3>1, <3>4 DEF Skips
    <3>5. QED
      BY <1>15, <3>2, <3>3, <3>4
  <2>4. QED
    BY <2>1, <2>2, <2>3 DEF Skips
<1>22. Clients'
  <2>1. client = NoClient /\ client' = client
    BY <1>1 DEF IInv, Clients
  <2>2. client' \in [op : {"none", "list", "read", "failed"}, node : DOMAIN nodes' \cup {None}, at : Nat,
                     got : Seq(Nat), end : BOOLEAN]
    BY <2>1 DEF NoClient
  <2>3. client'.op = "none"
    BY <2>1 DEF NoClient
  <2>4. QED
    BY <2>1, <2>2, <2>3 DEF Clients, NoClient
<1>23. disc' \in Discs
  BY DEF IInv
<1>24. QED
  BY <1>2, <1>19, <1>20, <1>21, <1>22, <1>23 DEF IInv, TreeInv

-----------------------------------------------------------------------------
(* The invariant is one *)

\* Before the walk there is the root, and one frame at it or none.
LEMMA InitInv == ASSUME Init PROVE IInv
<1> DEFINE root == DirNode(Root, RootEntry, <<>>)
<1>1. disc \in Discs /\ Wellformed(disc)
  BY DiscWellformed DEF Init
<1>2. RootEntry \in Things(disc) /\ Find(disc, <<>>) = RootEntry
  BY FindEmpty DEF Things
<1>3. /\ DOMAIN nodes = {Root} /\ nodes[Root] = root /\ nodes = [n \in {Root} |-> root]
      /\ lookup = <<>> /\ nextId = 2 /\ skipped = {} /\ client = NoClient
  BY DEF Init, Root
<1>4. root \in NodeOf(disc)
  <2>1. Root \in Nat /\ <<>> \in Seq(Names) /\ <<>> \in Seq(Nat) /\ None \in Flags
    BY DEF Root, Flags
  <2>2. QED
    BY <1>2, <2>1 DEF NodeOf, DirNode, RootEntry
<1>5. NodeAt(disc, nodes, Root)
  <2>1. <<>> \in Seq(DOMAIN nodes)
    OBVIOUS
  <2>2. QED
    BY <1>2, <1>3, <2>1 DEF NodeAt, DirNode, RootEntry
<1>6. Made
  BY <1>3, <1>4, <1>5 DEF Made, Root
<1>7. Named /\ PathsLead /\ Skips
  <2>1. DOMAIN lookup = {}
    BY <1>3
  <2>2. Named
    BY <2>1 DEF Named
  <2>3. PathsLead
    BY <1>2, <1>3 DEF PathsLead, DirNode
  <2>4. QED
    BY <1>3, <2>2, <2>3 DEF Skips
<1>8. Listing(disc, nodes, Root) = Entries(disc, RootEntry)
  BY <1>2, <1>3 DEF Listing, DirNode
<1>9. ASSUME scan = "walking" PROVE Walking /\ Mirrors
  <2> DEFINE f == Frame(Root, Entries(disc, RootEntry))
             list == Entries(disc, RootEntry)
  <2>1. frames = <<f>>
    BY <1>9 DEF Init
  <2>2. list \in Seq(EntryOf(disc))
    BY <1>1, <1>2, Listed
  <2>3. f \in FrameOf(disc) /\ f.dir = Root /\ f.left = list /\ f.children = <<>>
    BY <2>2 DEF Frame, FrameOf, Root
  <2>4. FrameAt(disc, nodes, f) /\ Past(disc, nodes, f) = 0
    <3>1. nodes[Root].kind = "dir" /\ Root \in DOMAIN nodes
      BY <1>3 DEF DirNode
    <3>2. Len(list) \in Nat
      BY <2>2
    <3>3. QED
      BY <1>8, <2>3, <3>1, <3>2 DEF FrameAt, Past
  <2> HIDE DEF f
  <2>5. /\ frames \in Seq(FrameOf(disc)) /\ frames # <<>> /\ DOMAIN frames = {1} /\ frames[1] = f
    BY <2>1, <2>3
  <2>6. Walking
    BY <1>9, <2>4, <2>5 DEF Walking
  <2>7. Mirrors
    <3>1. ASSUME NEW i \in DOMAIN frames
          PROVE  Walked(disc, nodes, lookup, skipped, frames[i].dir, frames[i].children,
                        Past(disc, nodes, frames[i]))
      BY <2>3, <2>4, <2>5, WalkedNothing
    <3>2. \A n \in DOMAIN nodes : \E i \in DOMAIN frames : frames[i].dir = n
      BY <1>3, <2>3, <2>5
    <3>3. QED
      BY <3>1, <3>2 DEF Mirrors
  <2>8. QED
    BY <2>6, <2>7
<1>10. ASSUME scan # "walking" PROVE Walking /\ Mirrors
  <2>1. scan = "failed" /\ frames = <<>>
    BY <1>10 DEF Init
  <2>2. frames \in Seq(FrameOf(disc)) /\ DOMAIN frames = {}
    BY <2>1
  <2>3. QED
    BY <2>1, <2>2 DEF Walking, Mirrors
<1>11. Clients
  BY <1>3 DEF Clients, NoClient
<1>12. QED
  BY <1>1, <1>6, <1>7, <1>9, <1>10, <1>11 DEF IInv, TreeInv

\* Hide, StatFails and AddSpecial go past an entry.
LEMMA PastSteps == ASSUME IInv, Hide \/ StatFails \/ AddSpecial PROVE IInv'
<1>1. nextId \in Nat
  BY DEF IInv, TreeInv, Made
<1>2. AtEntry
  BY DEF Hide, StatFails, AddSpecial
<1>3. /\ E \in EntryOf(disc)
      /\ Hidden(PathOf) <=> \/ Top.dir = Root /\ Upper[E.name] \in HiddenRootDirs
                            \/ E.name = DSStore
  BY <1>2, EntryFacts
<1>4. CASE Hide
  <2>1. ~Seen(skipped', Top.dir, E)
    BY <1>3, <1>4 DEF Hide, Seen
  <2>2. QED
    BY <1>2, <1>4, <2>1, GoesPast DEF Hide
<1>5. CASE StatFails
  <2>1. ~Seen(skipped', Top.dir, E)
    BY <1>5 DEF StatFails, Seen
  <2>2. /\ skipped \subseteq skipped'
        /\ \A x \in skipped' \ skipped : x = <<Top.dir, E>> /\ disc.mode = "volume"
    BY <1>5 DEF StatFails
  <2>3. /\ UNCHANGED <<disc, nodes, lookup, scan, client>> /\ frames' = Rest
        /\ nextId' \in {nextId, nextId + 1}
    BY <1>5 DEF StatFails
  <2>4. QED
    BY <1>2, <2>1, <2>2, <2>3, GoesPast
<1>6. CASE AddSpecial
  <2>1. ~Seen(skipped', Top.dir, E)
    BY <1>6 DEF AddSpecial, Seen
  <2>2. QED
    BY <1>2, <1>6, <2>1, GoesPast DEF AddSpecial
<1>7. QED
  BY <1>4, <1>5, <1>6

\* The flags of a path.
LEMMA ClassifyFlags ==
    ASSUME NEW path \in Seq(Names), path # <<>>
    PROVE  Classify(path) \in Flags
<1>1. path[Len(path)] \in Names
  OBVIOUS
<1>2. QED
  BY <1>1 DEF Classify, Flags

\* AddFile and AddDir insert a node.
LEMMA AddSteps == ASSUME IInv, AddFile \/ AddDir PROVE IInv'
<1>1. AtEntry /\ ~Hidden(PathOf)
  BY DEF AddFile, AddDir
<1>2. /\ E \in EntryOf(disc) /\ PathOf \in Seq(Names) /\ PathOf # <<>>
      /\ E = Listing(disc, nodes, Top.dir)[Past(disc, nodes, Top) + 1]
      /\ Past(disc, nodes, Top) + 1 \in DOMAIN Listing(disc, nodes, Top.dir)
  BY <1>1, EntryFacts
<1>3. /\ Top.dir \in DOMAIN nodes /\ Find(disc, nodes[Top.dir].path) \in Things(disc)
  BY <1>1, TopFacts DEF AtEntry
<1>4. Wellformed(disc)
  BY DiscWellformed DEF IInv
<1>5. E \in Things(disc) /\ E.name \in Names /\ Top.dir \in Nat
  <2>1. E \in Things(disc)
    BY <1>2, <1>3, <1>4, Listed DEF Listing
  <2>2. QED
    BY <1>2, <1>3, <2>1 DEF EntryOf, IInv, TreeInv, Made
<1>6. <<>> \in Seq(Nat) /\ None \in Flags
  BY DEF Flags
<1>7. CASE AddFile
  <2>1. PICK size \in {disc.sizes[Find(disc, PathOf).icb]} \cup
                      (IF disc.mode = "udf" /\ "size" \in Failures THEN {0} ELSE {}) :
           Insert(FileNode(Top.dir, E, PathOf, size, disc.data[Find(disc, PathOf).icb]))
    BY <1>7 DEF AddFile
  <2>2. size \in Nat /\ disc.data[Find(disc, PathOf).icb] \in Nat
    <3>1. Find(disc, PathOf) \in EntryOf(disc)
      BY <1>1, EntryFound
    <3>2. Find(disc, PathOf).icb \in DOMAIN disc.sizes
      BY <3>1 DEF EntryOf
    <3>3. disc.sizes \in [DOMAIN disc.sizes -> Nat] /\ disc.data \in [DOMAIN disc.sizes -> Nat]
      BY <1>4 DEF Wellformed
    <3>4. QED
      BY <2>1, <3>2, <3>3
  <2> DEFINE node == FileNode(Top.dir, E, PathOf, size, disc.data[Find(disc, PathOf).icb])
  <2>3. Classify(PathOf) \in Flags
    BY <1>2, ClassifyFlags
  <2>4. Fits(node)
    BY <1>2, <1>5, <1>6, <1>7, <2>2, <2>3 DEF Fits, NodeOf, FileNode, AddFile
  <2>5. /\ E.kind = "file" /\ frames' = WithChild
        /\ UNCHANGED <<disc, scan, skipped, client>>
    BY <1>7 DEF AddFile
  <2> HIDE DEF node
  <2>6. Insert(node)
    BY <2>1 DEF node
  <2>7. QED
    BY <1>1, <2>4, <2>5, <2>6, GoesOn
<1>8. CASE AddDir
  <2> DEFINE node == DirNode(Top.dir, E, PathOf)
  <2>1. Fits(node)
    BY <1>2, <1>5, <1>6, <1>8 DEF Fits, NodeOf, DirNode, AddDir
  <2>2. /\ E.kind = "dir" /\ Insert(node) /\ UNCHANGED <<disc, scan, skipped, client>>
        /\ frames' = Append(WithChild, Frame(nextId, Entries(disc, Find(disc, PathOf))))
    BY <1>8 DEF AddDir
  <2> HIDE DEF node
  <2>3. QED
    BY <1>1, <2>1, <2>2, GoesOn
<1>9. QED
  BY <1>7, <1>8

\* The end of a directory: its kids are those of its frame.
LEMMA EndStep == ASSUME IInv, EndDir PROVE IInv'
<1> DEFINE n == Len(frames)
           dir == Top.dir
           kids == Top.children
<1>1. /\ scan = "walking" /\ n \in Nat /\ n >= 1 /\ DOMAIN frames = 1..n /\ Top = frames[n]
      /\ Top \in FrameOf(disc) /\ dir \in DOMAIN nodes /\ nodes[dir].kind = "dir"
      /\ FrameAt(disc, nodes, Top) /\ Find(disc, nodes[dir].path) \in Things(disc)
      /\ Walked(disc, nodes, lookup, skipped, dir, kids, Past(disc, nodes, Top))
      /\ \A i \in DOMAIN frames : i # n => frames[i].dir # dir
  BY TopFacts DEF EndDir
<1>2. /\ UNCHANGED <<disc, lookup, nextId, skipped, client>> /\ Top.left = <<>>
      /\ nodes' = [nodes EXCEPT ![dir].children = kids] /\ frames' = Front(frames)
      /\ scan' = IF n = 1 THEN "done" ELSE "walking"
  BY DEF EndDir
<1>3. Past(disc, nodes, Top) = Len(Listing(disc, nodes, dir))
  <2>1. Listing(disc, nodes, dir) \in Seq(EntryOf(disc))
    BY <1>1, DiscWellformed, Listed DEF Listing, IInv
  <2>2. QED
    BY <1>2, <2>1 DEF Past
<1>4. Made /\ Named /\ Walking /\ Mirrors /\ Skips /\ PathsLead
  BY DEF IInv, TreeInv
<1>5. kids \in Seq(DOMAIN nodes) /\ kids \in Seq(Nat)
  BY <1>1 DEF Walked, FrameOf
<1> HIDE DEF n, dir, kids
<1>6. /\ DOMAIN nodes' = DOMAIN nodes
      /\ \A x \in DOMAIN nodes : x # dir => nodes'[x] = nodes[x]
      /\ nodes'[dir] = [nodes[dir] EXCEPT !.children = kids]
  BY <1>1, <1>2
<1>7. /\ nodes'[dir] \in NodeOf(disc) /\ nodes'[dir].children = kids
      /\ nodes'[dir].parent = nodes[dir].parent /\ nodes'[dir].name = nodes[dir].name
      /\ nodes'[dir].path = nodes[dir].path /\ nodes'[dir].kind = nodes[dir].kind
      /\ nodes'[dir].flags = nodes[dir].flags /\ nodes'[dir].size = nodes[dir].size
      /\ nodes'[dir].entry = nodes[dir].entry
  <2>1. nodes[dir] \in NodeOf(disc)
    BY <1>1, <1>4 DEF Made
  <2>2. QED
    BY <1>5, <1>6, <2>1 DEF NodeOf
<1>8. \A x \in DOMAIN nodes :
         /\ nodes'[x].parent = nodes[x].parent /\ nodes'[x].name = nodes[x].name
         /\ nodes'[x].path = nodes[x].path /\ nodes'[x].kind = nodes[x].kind
         /\ nodes'[x].entry = nodes[x].entry
  BY <1>6, <1>7
<1>9. Made'
  <2>1. nodes' \in [DOMAIN nodes' -> NodeOf(disc)]
    <3>1. nodes' = [x \in DOMAIN nodes' |-> nodes'[x]]
      BY <1>2
    <3>2. \A x \in DOMAIN nodes' : nodes'[x] \in NodeOf(disc)
      BY <1>4, <1>6, <1>7 DEF Made
    <3>3. QED
      BY <3>1, <3>2
  <2>2. ASSUME NEW x \in DOMAIN nodes PROVE NodeAt(disc, nodes', x)
    <3>1. NodeAt(disc, nodes, x)
      BY <1>4 DEF Made
    <3>2. CASE x = dir
      BY <1>1, <1>5, <1>6, <1>7, <3>1, <3>2 DEF NodeAt
    <3>3. CASE x # dir
      BY <1>6, <3>1, <3>3 DEF NodeAt
    <3>4. QED
      BY <3>2, <3>3
  <2>3. QED
    BY <1>2, <1>4, <1>6, <2>1, <2>2 DEF Made
<1>10. Named'
  BY <1>2, <1>4, <1>6, <1>8 DEF Named
<1>11. PathsLead'
  <2>1. ASSUME NEW x \in DOMAIN nodes, ~Namesake(x)' PROVE ~Namesake(x)
    BY <1>2, <1>6, <1>8, <2>1 DEF Namesake
  <2>2. QED
    BY <1>2, <1>4, <1>6, <1>8, <2>1 DEF PathsLead
<1>12. /\ frames' \in Seq(FrameOf(disc)) /\ DOMAIN frames' = 1..n - 1
       /\ \A i \in 1..n - 1 : i \in DOMAIN frames /\ i # n /\ frames'[i] = frames[i]
       /\ frames' = <<>> <=> n = 1
  <2>1. frames \in Seq(FrameOf(disc)) /\ frames' = SubSeq(frames, 1, n - 1)
    BY <1>2, <1>4 DEF Front, Walking, n
  <2>2. Len(frames) = n
    BY DEF n
  <2>3. QED
    BY <1>1, <2>1, <2>2
<1>13. \A x \in DOMAIN nodes : Listing(disc, nodes', x) = Listing(disc, nodes, x)
  BY <1>8 DEF Listing
<1>14. ASSUME NEW x \in DOMAIN nodes, NEW these, NEW k,
              Walked(disc, nodes, lookup, skipped, x, these, k)
       PROVE  Walked(disc, nodes', lookup, skipped, x, these, k)
  BY <1>6, <1>8, <1>14, WalkedElsewhere
<1>15. ASSUME NEW i \in DOMAIN frames'
       PROVE  /\ i \in DOMAIN frames /\ frames'[i] = frames[i] /\ frames[i].dir \in DOMAIN nodes
              /\ frames[i].dir # dir
              /\ FrameAt(disc, nodes', frames[i])
              /\ Past(disc, nodes', frames[i]) = Past(disc, nodes, frames[i])
  <2>1. i \in DOMAIN frames /\ i # n /\ frames'[i] = frames[i]
    BY <1>12
  <2>2. FrameAt(disc, nodes, frames[i]) /\ frames[i].dir \in DOMAIN nodes
    BY <1>4, <2>1 DEF Walking, FrameAt
  <2>3. QED
    BY <1>1, <1>6, <1>8, <1>13, <2>1, <2>2 DEF FrameAt, Past
<1>16. Walking'
  <2>1. \A i, j \in DOMAIN frames' : i < j => frames'[i].dir < frames'[j].dir
    BY <1>4, <1>15 DEF Walking
  <2>2. scan' \in {"walking", "done"} /\ (frames' # <<>> <=> scan' = "walking")
    BY <1>2, <1>12
  <2>3. QED
    BY <1>2, <1>12, <1>15, <2>1, <2>2 DEF Walking
<1>17. Mirrors'
  <2>1. ASSUME NEW i \in DOMAIN frames'
        PROVE  Walked(disc, nodes', lookup, skipped, frames'[i].dir, frames'[i].children,
                      Past(disc, nodes', frames'[i]))
    BY <1>4, <1>14, <1>15 DEF Mirrors
  <2>2. ASSUME NEW m \in DOMAIN nodes, nodes'[m].kind = "dir",
               \A i \in DOMAIN frames' : frames'[i].dir # m
        PROVE  Walked(disc, nodes', lookup, skipped, m, nodes'[m].children,
                      Len(Listing(disc, nodes', m)))
    <3>1. CASE m = dir
      BY <1>1, <1>3, <1>7, <1>13, <1>14, <3>1
    <3>2. CASE m # dir
      <4>1. ASSUME NEW i \in DOMAIN frames PROVE frames[i].dir # m
        <5>1. CASE i = n
          BY <1>1, <3>2, <5>1 DEF dir
        <5>2. CASE i # n
          BY <1>1, <1>12, <2>2, <5>2
        <5>3. QED
          BY <5>1, <5>2
      <4>2. Walked(disc, nodes, lookup, skipped, m, nodes[m].children,
                   Len(Listing(disc, nodes, m)))
        BY <1>1, <1>4, <1>8, <2>2, <4>1 DEF Mirrors
      <4>3. QED
        BY <1>6, <1>13, <1>14, <3>2, <4>2
    <3>3. QED
      BY <3>1, <3>2
  <2>3. QED
    BY <1>2, <1>6, <2>1, <2>2 DEF Mirrors
<1>18. Skips'
  <2>1. ASSUME NEW x \in skipped, NEW i \in DOMAIN frames', frames'[i].dir = x[1]
        PROVE  \E j \in 1..Past(disc, nodes', frames'[i]) : Listing(disc, nodes', x[1])[j] = x[2]
    BY <1>4, <1>13, <1>15, <2>1 DEF Skips
  <2>2. /\ skipped # {} => disc.mode = "volume"
        /\ \A x \in skipped : x[1] \in DOMAIN nodes'
    BY <1>4, <1>6 DEF Skips
  <2>3. \A x \in skipped : \A i \in DOMAIN frames' : frames'[i].dir = x[1] =>
           \E j \in 1..Past(disc, nodes', frames'[i]) : Listing(disc, nodes', x[1])[j] = x[2]
    BY <2>1
  <2>4. QED
    BY <1>2, <2>2, <2>3 DEF Skips
<1>19. Clients'
  <2>1. client = NoClient /\ client' = client
    BY <1>1, <1>2 DEF IInv, Clients
  <2>2. QED
    BY <2>1 DEF Clients, NoClient
<1>20. QED
  BY <1>2, <1>9, <1>10, <1>11, <1>16, <1>17, <1>18, <1>19 DEF IInv, TreeInv

\* A scan that fails leaves no frame.
LEMMA FailStep == ASSUME IInv, ListFails PROVE IInv'
<1>1. /\ scan = "walking" /\ scan' = "failed" /\ frames' = <<>>
      /\ UNCHANGED <<disc, nodes, lookup, nextId, skipped, client>>
  BY DEF ListFails, AtEntry
<1>2. frames' \in Seq(FrameOf(disc)) /\ DOMAIN frames' = {}
  BY <1>1
<1>3. Made' /\ Named' /\ PathsLead'
  BY <1>1 DEF IInv, TreeInv, Made, Named, PathsLead, Namesake
<1>4. Walking' /\ Mirrors'
  BY <1>1, <1>2 DEF Walking, Mirrors
<1>5. Skips'
  <2>1. /\ skipped # {} => disc.mode = "volume"
        /\ \A x \in skipped : x[1] \in DOMAIN nodes
    BY DEF IInv, TreeInv, Skips
  <2>2. \A i \in DOMAIN frames' : FALSE
    BY <1>2
  <2>3. ASSUME NEW x \in skipped, NEW i \in DOMAIN frames'
        PROVE  frames'[i].dir = x[1] =>
                  \E j \in 1..Past(disc, nodes, frames'[i]) : Listing(disc, nodes, x[1])[j] = x[2]
    BY <2>2
  <2>4. QED
    BY <1>1, <2>1, <2>3 DEF Skips
<1>6. Clients'
  BY <1>1 DEF IInv, Clients, NoClient
<1>7. QED
  BY <1>1, <1>3, <1>4, <1>5, <1>6 DEF IInv, TreeInv

-----------------------------------------------------------------------------
(* The steps of a client *)

\* What a client does changes nothing of the tree.
LEMMA TreeStays == ASSUME IInv, UNCHANGED <<disc, treeVars>> PROVE TreeInv' /\ disc' \in Discs
<1>1. UNCHANGED <<disc, nodes, lookup, nextId, frames, scan, skipped>>
  BY DEF treeVars
<1>2. Made' /\ Named' /\ PathsLead'
  BY <1>1 DEF IInv, TreeInv, Made, Named, PathsLead, Namesake
<1>3. Walking' /\ Mirrors' /\ Skips'
  BY <1>1 DEF IInv, TreeInv, Walking, Mirrors, Skips
<1>4. QED
  BY <1>1, <1>2, <1>3 DEF IInv, TreeInv

\* What a client is at when the tree is done.
LEMMA KidsFacts ==
    ASSUME IInv, scan = "done", NEW n \in DOMAIN nodes
    PROVE  LET all == nodes[n].children IN
           /\ all \in Seq(DOMAIN nodes) /\ all \in Seq(Nat)
           /\ \A i, j \in DOMAIN all : all[i] = all[j] => i = j
           /\ \A i \in DOMAIN all : all[i] # 0
           /\ nodes[n].size \in Nat /\ nodes[n].data \in Nat
<1>1. /\ nodes[n].children \in Seq(DOMAIN nodes) /\ nodes[n].children \in Seq(Nat)
      /\ nodes[n].size \in Nat /\ nodes[n].data \in Nat
  BY DEF IInv, TreeInv, Made, NodeAt, NodeOf
<1>2. 0 \notin DOMAIN nodes
  BY DEF IInv, TreeInv, Made
<1>3. \A i \in DOMAIN nodes[n].children : nodes[n].children[i] # 0
  BY <1>1, <1>2
<1>4. CASE nodes[n].kind = "dir"
  <2>1. \A i \in DOMAIN frames : frames[i].dir # n
    <3>1. frames = <<>>
      BY DEF IInv, TreeInv, Walking
    <3>2. QED
      BY <3>1
  <2>2. Walked(disc, nodes, lookup, skipped, n, nodes[n].children, Len(Listing(disc, nodes, n)))
    BY <1>4, <2>1 DEF IInv, TreeInv, Mirrors
  <2>3. QED
    BY <1>1, <1>3, <2>2 DEF Walked
<1>5. CASE nodes[n].kind # "dir"
  <2>1. nodes[n].children = <<>>
    BY <1>5 DEF IInv, TreeInv, Made, NodeAt
  <2>2. QED
    BY <1>1, <1>3, <2>1
<1>6. QED
  BY <1>4, <1>5

\* A client begins.
LEMMA OpenStep == ASSUME IInv, NEW n \in DOMAIN nodes, Open(n) PROVE IInv'
<1>1. TreeInv' /\ disc' \in Discs
  BY TreeStays DEF Open
<1>2. /\ scan' = "done" /\ nodes' = nodes
      /\ client' = [op |-> IF IsDir(n) THEN "list" ELSE "read", node |-> n, at |-> 0, got |-> <<>>,
                    end |-> FALSE]
  BY DEF Open, treeVars, NoClient
<1>3. nodes[n].children \in Seq(Nat) /\ nodes[n].size \in Nat
  BY KidsFacts DEF Open
<1>4. <<>> \in Seq(Nat) /\ <<>> = SubSeq(nodes[n].children, 1, 0) /\ 0 \in 0..Len(nodes[n].children)
      /\ 0 \in Nat
  BY <1>3
<1>5. client'.op \in {"list", "read"} /\ client'.node = n /\ client'.at = 0 /\ client'.got = <<>>
      /\ ~client'.end
  BY <1>2
<1>6. client' \in [op : {"none", "list", "read", "failed"}, node : DOMAIN nodes' \cup {None}, at : Nat,
                   got : Seq(Nat), end : BOOLEAN]
  BY <1>2, <1>4
<1>7. Clients'
  BY <1>2, <1>3, <1>4, <1>5, <1>6 DEF Clients
<1>8. QED
  BY <1>1, <1>7 DEF IInv

\* A client is answered with an error.
LEMMA FailedStep == ASSUME IInv, ReadFails PROVE IInv'
<1>1. TreeInv' /\ disc' \in Discs
  BY TreeStays DEF ReadFails
<1>2. /\ client \in [op : {"none", "list", "read", "failed"}, node : DOMAIN nodes \cup {None}, at : Nat,
                     got : Seq(Nat), end : BOOLEAN]
      /\ scan = "done" /\ client.node \in DOMAIN nodes /\ nodes' = nodes /\ scan' = scan
      /\ ~client.end /\ client' = [client EXCEPT !.op = "failed"]
  BY DEF IInv, Clients, ReadFails, treeVars
<1>3. /\ client' \in [op : {"none", "list", "read", "failed"}, node : DOMAIN nodes' \cup {None}, at : Nat,
                      got : Seq(Nat), end : BOOLEAN]
      /\ client'.op = "failed" /\ client'.node = client.node /\ ~client'.end
  BY <1>2
<1>4. Clients'
  BY <1>2, <1>3 DEF Clients
<1>5. QED
  BY <1>1, <1>4 DEF IInv

\* A client is done.
LEMMA CloseStep == ASSUME IInv, Close PROVE IInv'
<1>1. TreeInv' /\ disc' \in Discs
  BY TreeStays DEF Close
<1>2. client' = NoClient
  BY DEF Close
<1>3. <<>> \in Seq(Nat)
  OBVIOUS
<1>4. Clients'
  BY <1>2, <1>3 DEF Clients, NoClient
<1>5. QED
  BY <1>1, <1>4 DEF IInv

\* The place of a cookie.
LEMMA CookiePlace ==
    ASSUME NEW all, \A i, j \in DOMAIN all : all[i] = all[j] => i = j,
           NEW k \in DOMAIN all
    PROVE  (CHOOSE i \in DOMAIN all : all[i] = all[k]) = k
OBVIOUS

\* What two sequences are in a row.
LEMMA Joined ==
    ASSUME NEW S, NEW a \in Seq(S), NEW b \in Seq(S)
    PROVE  /\ a \o b \in Seq(S) /\ Len(a \o b) = Len(a) + Len(b)
           /\ \A j \in 1..Len(a) + Len(b) : (a \o b)[j] = IF j <= Len(a) THEN a[j] ELSE b[j - Len(a)]
OBVIOUS

\* Two sequences are the same that have the same elements.
LEMMA SameSeq ==
    ASSUME NEW S, NEW a \in Seq(S), NEW b \in Seq(S), Len(a) = Len(b),
           \A i \in 1..Len(a) : a[i] = b[i]
    PROVE  a = b
OBVIOUS

\* A page of all, from entry k + 1 to entry to, goes on where the first k end.
Continues(all, k, to) ==
    /\ Len(SubSeq(all, k + 1, to)) = to - k
    /\ SubSeq(all, k + 1, to) = <<>> <=> to = k
    /\ to # k => Last(SubSeq(all, k + 1, to)) = all[to]
    /\ SubSeq(all, 1, k) \o SubSeq(all, k + 1, to) = SubSeq(all, 1, to)

\* Every page does.
LEMMA PageGoesOn ==
    ASSUME NEW all \in Seq(Nat), NEW k \in 0..Len(all), NEW to \in k..Len(all)
    PROVE  Continues(all, k, to)
<1> DEFINE page == SubSeq(all, k + 1, to)
           a    == SubSeq(all, 1, k)
           b    == SubSeq(all, 1, to)
<1>1. Len(all) \in Nat /\ DOMAIN all = 1..Len(all) /\ k \in Nat /\ to \in Nat /\ k <= to
      /\ to <= Len(all)
  OBVIOUS
<1>2. page \in Seq(Nat) /\ Len(page) = to - k /\ \A i \in 1..to - k : page[i] = all[k + i]
  BY <1>1
<1>3. a \in Seq(Nat) /\ Len(a) = k /\ \A i \in 1..k : a[i] = all[i]
  BY <1>1
<1>4. b \in Seq(Nat) /\ Len(b) = to /\ \A i \in 1..to : b[i] = all[i]
  BY <1>1
<1> HIDE DEF page, a, b
<1>5. page = <<>> <=> to = k
  BY <1>1, <1>2
<1>6. to # k => Last(page) = all[to]
  <2>1. to # k => to - k \in 1..to - k /\ k + (to - k) = to
    BY <1>1
  <2>2. QED
    BY <1>2, <2>1 DEF Last
<1>7. a \o page = b
  <2>1. a \o page \in Seq(Nat) /\ Len(a \o page) = to
    <3>1. a \o page \in Seq(Nat) /\ Len(a \o page) = Len(a) + Len(page)
      BY <1>2, <1>3, Joined
    <3>2. k + (to - k) = to
      BY <1>1
    <3>3. QED
      BY <1>2, <1>3, <3>1, <3>2
  <2>2. ASSUME NEW i \in 1..to PROVE (a \o page)[i] = b[i]
    <3>1. CASE i <= k
      <4>1. \A j \in 1..Len(a) + Len(page) :
               (a \o page)[j] = IF j <= Len(a) THEN a[j] ELSE page[j - Len(a)]
        BY <1>2, <1>3, Joined
      <4>2. i \in 1..Len(a) + Len(page) /\ i <= Len(a) /\ i \in 1..k
        <5>1. Len(a) + Len(page) = to
          BY <1>1, <1>2, <1>3
        <5>2. QED
          BY <1>1, <1>3, <3>1, <5>1
      <4>3. (a \o page)[i] = a[i]
        BY <4>1, <4>2
      <4>4. QED
        BY <1>3, <1>4, <4>2, <4>3
    <3>2. CASE i > k
      <4>1. (a \o page)[i] = page[i - k]
        <5>1. \A j \in 1..Len(a) + Len(page) :
                 (a \o page)[j] = IF j <= Len(a) THEN a[j] ELSE page[j - Len(a)]
          BY <1>2, <1>3, Joined
        <5>2. i \in 1..Len(a) + Len(page) /\ ~(i <= Len(a))
          <6>1. Len(a) + Len(page) = to
            BY <1>1, <1>2, <1>3
          <6>2. QED
            BY <1>1, <1>3, <3>2, <6>1
        <5>3. (a \o page)[i] = page[i - Len(a)]
          BY <5>1, <5>2
        <5>4. QED
          BY <1>3, <5>3
      <4>2. i - k \in 1..to - k /\ k + (i - k) = i
        BY <1>1, <3>2
      <4>3. page[i - k] = all[k + (i - k)]
        BY <1>2, <4>2
      <4>4. QED
        BY <1>4, <4>1, <4>2, <4>3
    <3>3. i <= k \/ i > k
      BY <1>1
    <3>4. QED
      BY <3>1, <3>2, <3>3, Zenon
  <2>3. QED
    BY <1>4, <2>1, <2>2, SameSeq
<1>8. QED
  BY <1>2, <1>5, <1>6, <1>7 DEF Continues, page, a, b

\* It ends behind where it begins, unless there is nothing left.
LEMMA PageEnd ==
    ASSUME NEW k \in Nat, NEW len \in Nat, k <= len, NEW max \in Nat \ {0}
    PROVE  Min({k + max, len}) \in k..len
<1>1. Min({k + max, len}) = IF k + max <= len THEN k + max ELSE len
  BY MinMaxOfTwo
<1>2. QED
  BY <1>1

\* A page of a directory.
LEMMA ReadDirStep == ASSUME IInv, NEW max \in 1..MaxPage, ReadDir(max) PROVE IInv'
<1> DEFINE all == nodes[client.node].children
           page == Page(client.node, client.at, max)
<1>1. TreeInv' /\ disc' \in Discs
  BY TreeStays DEF ReadDir
<1>2. /\ client \in [op : {"none", "list", "read", "failed"}, node : DOMAIN nodes \cup {None}, at : Nat,
                     got : Seq(Nat), end : BOOLEAN]
      /\ client.op = "list" /\ scan = "done" /\ client.node \in DOMAIN nodes /\ nodes' = nodes
      /\ scan' = "done"
  BY DEF IInv, Clients, ReadDir, treeVars
<1>3. PICK k \in 0..Len(all) : client.got = SubSeq(all, 1, k) /\ client.at = IF k = 0 THEN 0 ELSE all[k]
  BY <1>2 DEF IInv, Clients
<1>4. /\ all \in Seq(Nat) /\ \A i, j \in DOMAIN all : all[i] = all[j] => i = j
      /\ \A i \in DOMAIN all : all[i] # 0
  BY <1>2, KidsFacts
<1>5. max \in Nat \ {0}
  BY DiscsAssumption
<1>6. client' = [client EXCEPT
                   !.got = @ \o page.entries,
                   !.at  = IF page.entries = <<>> THEN @ ELSE Last(page.entries),
                   !.end = page.end]
  BY DEF ReadDir
<1> HIDE DEF all
<1>7. PICK to \in k..Len(all) : /\ to \in Nat /\ (page.entries = <<>> <=> to = k)
                                /\ to # k => Last(page.entries) = all[to]
                                /\ SubSeq(all, 1, k) \o page.entries = SubSeq(all, 1, to)
                                /\ page.end \in BOOLEAN /\ (page.end => to = Len(all))
  <2> DEFINE start == IF client.at = 0 THEN 0 ELSE CHOOSE i \in DOMAIN all : all[i] = client.at
             to    == Min({start + max, Len(all)})
             list  == SubSeq(all, start + 1, to)
  <2>1. page = [entries |-> list, end |-> start + Len(list) >= Len(all)]
    BY DEF Page, all
  <2>7. start = k
    <3>1. CASE k = 0
      BY <1>3, <3>1
    <3>2. CASE k # 0
      <4>1. k \in DOMAIN all /\ client.at = all[k] /\ client.at # 0
        BY <1>3, <1>4, <3>2
      <4>2. start = CHOOSE i \in DOMAIN all : all[i] = all[k]
        BY <4>1
      <4>3. QED
        BY <1>4, <4>1, <4>2, CookiePlace
    <3>3. QED
      BY <3>1, <3>2
  <2> HIDE DEF start
  <2>2. /\ start = k /\ to \in k..Len(all) /\ to \in Nat /\ Len(list) = to - k
        /\ (list = <<>> <=> to = k) /\ (to # k => Last(list) = all[to])
        /\ SubSeq(all, 1, k) \o list = SubSeq(all, 1, to)
    <3>1. to = Min({k + max, Len(all)}) /\ list = SubSeq(all, k + 1, to)
      BY <2>7
    <3> HIDE DEF to, list
    <3>2. Len(all) \in Nat /\ k \in Nat /\ k <= Len(all)
      BY <1>4
    <3>3. to \in k..Len(all)
      BY <1>5, <3>1, <3>2, PageEnd
    <3>4. to \in Nat
      BY <3>2, <3>3
    <3>5. /\ Len(SubSeq(all, k + 1, to)) = to - k
          /\ SubSeq(all, k + 1, to) = <<>> <=> to = k
          /\ to # k => Last(SubSeq(all, k + 1, to)) = all[to]
          /\ SubSeq(all, 1, k) \o SubSeq(all, k + 1, to) = SubSeq(all, 1, to)
      <4>1. all \in Seq(Nat) /\ k \in 0..Len(all) /\ to \in k..Len(all)
        BY <1>4, <3>3
      <4>2. Continues(all, k, to)
        BY ONLY <4>1, PageGoesOn
      <4>3. QED
        BY <4>2, Zenon DEF Continues
    <3>6. QED
      BY <2>7, <3>1, <3>3, <3>4, <3>5
  <2> HIDE DEF to, list, page
  <2>3. page.entries = list
    BY <2>1
  <2>4. Len(all) \in Nat /\ k \in Nat
    BY <1>4
  <2>5. page.end \in BOOLEAN /\ (page.end => to = Len(all))
    <3>1. to \in Int /\ k \in Int /\ Len(all) \in Int /\ to <= Len(all)
      BY <2>2, <2>4
    <3>2. start + Len(list) = to
      BY <2>2, <3>1
    <3> DEFINE over == start + Len(list) >= Len(all)
    <3>3. page.end = over
      BY <2>1
    <3>4. over \in BOOLEAN /\ (over => to = Len(all))
      BY <3>1, <3>2
    <3> HIDE DEF over
    <3>5. QED
      BY <3>3, <3>4, Zenon
  <2>6. QED
    BY <2>2, <2>3, <2>5
<1> HIDE DEF page
<1>8. /\ client'.op = "list" /\ client'.node = client.node /\ client'.got = SubSeq(all, 1, to)
      /\ client'.at = (IF to = k THEN client.at ELSE all[to]) /\ client'.end = page.end
  BY <1>2, <1>3, <1>6, <1>7
<1>9. Len(all) \in Nat /\ to \in 0..Len(all) /\ SubSeq(all, 1, to) \in Seq(Nat)
  BY <1>4, <1>7
<1>10. client'.at = (IF to = 0 THEN 0 ELSE all[to]) /\ client'.at \in Nat
  BY <1>2, <1>3, <1>4, <1>7, <1>8, <1>9
<1>11. client' \in [op : {"none", "list", "read", "failed"}, node : DOMAIN nodes' \cup {None}, at : Nat,
                    got : Seq(Nat), end : BOOLEAN]
  BY <1>2, <1>6, <1>7, <1>8, <1>9, <1>10
<1>12. Clients'
  BY <1>2, <1>7, <1>8, <1>9, <1>10, <1>11 DEF Clients, all
<1>13. QED
  BY <1>1, <1>12 DEF IInv

\* A reply of a file.
LEMMA ReadStep == ASSUME IInv, NEW count \in 1..MaxCount, Read(count) PROVE IInv'
<1> DEFINE size == nodes[client.node].size
           data == nodes[client.node].data
           at == client.at
           reply == Reply(client.node, client.at, count)
<1>1. TreeInv' /\ disc' \in Discs
  BY TreeStays DEF Read
<1>2. /\ client \in [op : {"none", "list", "read", "failed"}, node : DOMAIN nodes \cup {None}, at : Nat,
                     got : Seq(Nat), end : BOOLEAN]
      /\ client.op = "read" /\ scan = "done" /\ client.node \in DOMAIN nodes /\ nodes' = nodes
      /\ scan' = "done" /\ at \in Nat /\ at <= size
  BY DEF IInv, Clients, Read, treeVars
<1>3. size \in Nat /\ data \in Nat
  BY <1>2, KidsFacts
<1>4. count \in Nat
  BY DiscsAssumption
<1>5. client' = [client EXCEPT !.at = @ + reply.len, !.end = reply.end]
  BY DEF Read
<1>6. /\ reply.len \in Nat /\ at + reply.len <= size
      /\ reply.end \in BOOLEAN /\ (reply.end => at + reply.len = size)
  <2> DEFINE ends == Min({size, data})
             left == Max({ends - at, 0})
             len == Min({count, left})
  <2>1. reply = [len |-> len, end |-> at + len >= size]
    BY DEF Reply, Ends
  <2> HIDE DEF size, at, data
  <2>2. ends = IF size <= data THEN size ELSE data
    BY <1>3, MinMaxOfTwo
  <2>3. left = IF ends - at >= 0 THEN ends - at ELSE 0
    <3>1. ends - at \in Int /\ 0 \in Int
      BY <1>2, <1>3, <2>2 DEF at
    <3> HIDE DEF ends
    <3>2. QED
      BY <3>1, MinMaxOfTwo
  <2>4. left \in Nat /\ left <= size - at
    <3> HIDE DEF ends, left
    <3>1. at \in Nat /\ at <= size
      BY <1>2 DEF at
    <3>2. QED
      BY <1>3, <2>2, <2>3, <3>1
  <2>6. len = IF count <= left THEN count ELSE left
    <3> HIDE DEF left
    <3>1. QED
      BY <1>4, <2>4, MinMaxOfTwo
  <2> HIDE DEF ends, left
  <2> HIDE DEF len, reply
  <2>5. QED
    <3>1. at \in Nat /\ at <= size /\ size \in Nat /\ count \in Nat
      BY <1>2, <1>3, <1>4 DEF at
    <3>2. len \in Nat /\ at + len <= size
      BY <2>4, <2>6, <3>1
    <3> DEFINE over == at + len >= size
    <3>3. reply.end = over
      BY <2>1
    <3>4. reply.len = len
      BY <2>1
    <3>5. over \in BOOLEAN /\ (over => at + len = size)
      BY <3>1, <3>2
    <3> HIDE DEF over
    <3>6. reply.end \in BOOLEAN /\ (reply.end => at + len = size)
      BY <3>3, <3>5, Zenon
    <3>7. QED
      BY <3>2, <3>4, <3>6
<1> HIDE DEF reply, size, at
<1>7. /\ client'.op = "read" /\ client'.node = client.node /\ client'.at = at + reply.len
      /\ client'.end = reply.end
  BY <1>2, <1>5 DEF at
<1>8. client' \in [op : {"none", "list", "read", "failed"}, node : DOMAIN nodes' \cup {None}, at : Nat,
                   got : Seq(Nat), end : BOOLEAN]
  <2>1. client.at + reply.len \in Nat /\ reply.end \in BOOLEAN
    BY <1>2, <1>6 DEF at
  <2>2. QED
    BY <1>2, <1>5, <2>1
<1>9. Clients'
  BY <1>2, <1>6, <1>7, <1>8 DEF Clients, size
<1>10. QED
  BY <1>1, <1>9 DEF IInv

-----------------------------------------------------------------------------
(* The theorems *)

\* Every step keeps the invariant.
LEMMA NextInv == ASSUME IInv, [Next]_vars PROVE IInv'
<1>1. CASE Walk
  BY <1>1, PastSteps, AddSteps, EndStep, FailStep DEF Walk
<1>2. CASE Serve
  BY <1>2, ReadDirStep, ReadStep DEF Serve
<1>3. CASE Close
  BY <1>3, CloseStep
<1>7. CASE ReadFails
  BY <1>7, FailedStep
<1>4. CASE \E n \in DOMAIN nodes : Open(n)
  BY <1>4, OpenStep
<1>5. CASE UNCHANGED vars
  <2>1. TreeInv' /\ disc' \in Discs
    BY <1>5, TreeStays DEF vars
  <2>2. Clients'
    BY <1>5 DEF IInv, Clients, NoClient, vars, treeVars
  <2>3. QED
    BY <2>1, <2>2 DEF IInv
<1>6. QED
  BY <1>1, <1>2, <1>3, <1>4, <1>5, <1>7 DEF Next

\* The invariant: what the tree has of each directory follows the frame that is
\* at it, and a client is where its pages and replies left it.
THEOREM Invariant == Spec => []IInv
<1>1. Init => IInv
  BY InitInv
<1>2. IInv /\ [Next]_vars => IInv'
  BY NextInv
<1>3. QED
  BY <1>1, <1>2, PTL DEF Spec

\* Numbers are given out once and in order, and every name the walk has noted
\* leads to a node below its directory (DiscTree::add, BdFs).
THEOREM TypeCorrect == Spec => []TypeOK
<1>1. ASSUME IInv PROVE TypeOK
  <2>1. nextId \in Nat /\ DOMAIN nodes \subseteq 1..(nextId - 1)
    BY <1>1 DEF IInv, TreeInv, Made
  <2>2. ASSUME NEW n \in DOMAIN nodes
        PROVE  nodes[n].parent \in DOMAIN nodes /\ ToSet(nodes[n].children) \subseteq DOMAIN nodes
    <3>1. nodes[n].parent \in DOMAIN nodes /\ nodes[n].children \in Seq(DOMAIN nodes)
      BY <1>1 DEF IInv, TreeInv, Made, NodeAt
    <3>2. QED
      BY <3>1 DEF ToSet
  <2>3. \A key \in DOMAIN lookup : nodes[lookup[key]].parent = key[1] /\ nodes[lookup[key]].name = key[2]
    BY <1>1 DEF IInv, TreeInv, Named
  <2>4. scan \in {"walking", "done", "failed"} /\ (frames # <<>> <=> scan = "walking")
    BY <1>1 DEF IInv, TreeInv, Walking
  <2>5. /\ client.op \in {"none", "list", "read", "failed"} /\ client.node \in DOMAIN nodes \cup {None}
        /\ client.at \in Nat /\ client.end \in BOOLEAN
    BY <1>1 DEF IInv, Clients
  <2>6. QED
    BY <2>1, <2>2, <2>3, <2>4, <2>5 DEF TypeOK
<1>2. QED
  BY <1>1, Invariant, PTL

\* A path leads to the entry its node was made of, unless the node has a
\* namesake before it (RawUdf::lookup, walk_udf).
THEOREM PathsAlwaysLead == Spec => []PathsLead
<1>1. IInv => PathsLead
  BY DEF IInv, TreeInv
<1>2. QED
  BY <1>1, Invariant, PTL

\* A listing that has come to its end gave every entry once and in order, and a
\* file was read to its last byte (BdFs::readdir, BdFs::read).
THEOREM ClientsComplete == Spec => []ClientComplete
<1>1. ASSUME IInv, client.end PROVE IF client.op = "list" THEN client.got = nodes[client.node].children
                                    ELSE client.at = nodes[client.node].size
  <2>1. client.op \in {"none", "list", "read", "failed"}
    BY <1>1 DEF IInv, Clients
  <2>2. client.op # "none"
    BY <1>1 DEF IInv, Clients, NoClient
  <2>3. CASE client.op = "list"
    <3> DEFINE all == nodes[client.node].children
    <3>1. client.node \in DOMAIN nodes /\ scan = "done"
      BY <1>1, <2>3 DEF IInv, Clients
    <3>2. PICK k \in 0..Len(all) : client.got = SubSeq(all, 1, k) /\ (client.end => k = Len(all))
      BY <1>1, <2>3 DEF IInv, Clients
    <3>3. all \in Seq(Nat)
      BY <1>1, <3>1, KidsFacts
    <3> HIDE DEF all
    <3>4. SubSeq(all, 1, Len(all)) = all
      BY <3>3
    <3>5. QED
      BY <1>1, <2>3, <3>2, <3>4 DEF all
  <2>4. CASE client.op = "read"
    BY <1>1, <2>4 DEF IInv, Clients
  <2>6. CASE client.op = "failed"
    BY <1>1, <2>6 DEF IInv, Clients
  <2>5. QED
    BY <2>1, <2>2, <2>3, <2>4, <2>6
<1>2. IInv => ClientComplete
  BY <1>1 DEF ClientComplete
<1>3. QED
  BY <1>2, Invariant, PTL

\* Two streams have the same name flags only when their names differ in case
\* only (classify).
THEOREM FlagsAlwaysOwn == Spec => []FlagsOwn
<1>1. ASSUME IInv, NEW m \in DOMAIN nodes, NEW n \in DOMAIN nodes,
             nodes[m].kind = "encrypted", nodes[m].flags = nodes[n].flags
      PROVE  [i \in DOMAIN nodes[m].path |-> Upper[nodes[m].path[i]]] =
             [i \in DOMAIN nodes[n].path |-> Upper[nodes[n].path[i]]]
  <2> DEFINE p == nodes[m].path
             q == nodes[n].path
             up == [i \in DOMAIN p |-> Upper[p[i]]]
             uq == [i \in DOMAIN q |-> Upper[q[i]]]
  <2>1. NodeAt(disc, nodes, m) /\ NodeAt(disc, nodes, n) /\ p \in Seq(Names) /\ q \in Seq(Names)
    BY <1>1 DEF IInv, TreeInv, Made, NodeOf
  <2>2. nodes[m].flags = Classify(p) /\ Classify(p) # None /\ p # <<>>
    BY <1>1, <2>1 DEF NodeAt
  <2>3. nodes[n].flags = Classify(q) /\ Classify(q) = Classify(p) /\ q # <<>>
    BY <1>1, <2>1, <2>2 DEF NodeAt
  <2> HIDE DEF p, q
  <2> DEFINE a == p[Len(p)]
             b == q[Len(q)]
  <2>4. /\ Len(p) \in Nat /\ DOMAIN p = 1..Len(p) /\ a \in Names
        /\ Len(q) \in Nat /\ DOMAIN q = 1..Len(q) /\ b \in Names
    BY <2>1, <2>2, <2>3
  <2>5. \/ /\ Classify(p) = <<"m2ts", Clip[a]>> /\ Len(p) = 3 /\ Ext[a] = "m2ts" /\ Clip[a] # None
           /\ up[1] = "BDMV" /\ up[2] = "STREAM"
        \/ /\ Classify(p) = <<"ssif", Clip[a]>> /\ Len(p) = 4 /\ Ext[a] = "ssif" /\ Clip[a] # None
           /\ up[1] = "BDMV" /\ up[2] = "STREAM" /\ up[3] = "SSIF"
    BY <2>2 DEF Classify
  <2>6. \/ /\ Classify(q) = <<"m2ts", Clip[b]>> /\ Len(q) = 3 /\ Ext[b] = "m2ts" /\ Clip[b] # None
           /\ uq[1] = "BDMV" /\ uq[2] = "STREAM"
        \/ /\ Classify(q) = <<"ssif", Clip[b]>> /\ Len(q) = 4 /\ Ext[b] = "ssif" /\ Clip[b] # None
           /\ uq[1] = "BDMV" /\ uq[2] = "STREAM" /\ uq[3] = "SSIF"
    BY <2>2, <2>3 DEF Classify
  <2>7. /\ Clip[a] = Clip[b] /\ Clip[a] # None /\ Ext[a] = Ext[b]
        /\ Len(p) = Len(q) /\ \A i \in 1..Len(p) - 1 : up[i] = uq[i]
    <3> HIDE DEF a, b, up, uq
    <3>1. /\ <<"m2ts", Clip[a]>> = <<"m2ts", Clip[b]>> => Clip[a] = Clip[b]
          /\ <<"ssif", Clip[a]>> = <<"ssif", Clip[b]>> => Clip[a] = Clip[b]
          /\ <<"m2ts", Clip[a]>> # <<"ssif", Clip[b]>> /\ <<"ssif", Clip[a]>> # <<"m2ts", Clip[b]>>
      OBVIOUS
    <3>2. \/ Len(p) = 3 /\ Len(q) = 3 /\ Ext[a] = "m2ts" /\ Ext[b] = "m2ts" /\ Clip[a] = Clip[b]
             /\ up[1] = uq[1] /\ up[2] = uq[2] /\ Clip[a] # None
          \/ Len(p) = 4 /\ Len(q) = 4 /\ Ext[a] = "ssif" /\ Ext[b] = "ssif" /\ Clip[a] = Clip[b]
             /\ up[1] = uq[1] /\ up[2] = uq[2] /\ up[3] = uq[3] /\ Clip[a] # None
      BY <2>3, <2>5, <2>6, <3>1
    <3>3. CASE Len(p) = 3
      BY <3>2, <3>3
    <3>4. CASE Len(p) = 4
      BY <3>2, <3>4
    <3>5. QED
      BY <3>2, <3>3, <3>4
  <2>8. Upper[a] = Upper[b]
    BY <2>4, <2>7, ClipsAssumption
  <2>9. \A i \in 1..Len(p) : up[i] = uq[i]
    <3>1. up[Len(p)] = Upper[a] /\ uq[Len(p)] = Upper[b]
      BY <2>2, <2>3, <2>4, <2>7
    <3> HIDE DEF up, uq, a, b
    <3>2. QED
      BY <2>4, <2>7, <2>8, <3>1
  <2>10. DOMAIN p = DOMAIN q
    BY <2>4, <2>7
  <2>11. QED
    BY <2>4, <2>9, <2>10 DEF p, q
<1>2. IInv => FlagsOwn
  BY <1>1 DEF FlagsOwn
<1>3. QED
  BY <1>2, Invariant, PTL

\* What BdFs::lookup answers of a directory; no node is called "." or "..".
LEMMA LookupIn ==
    ASSUME IInv, NEW dir \in DOMAIN nodes, IsDir(dir), NEW name
    PROVE  /\ name = ".." => Lookup(dir, name) = nodes[dir].parent
           /\ <<dir, name>> \in DOMAIN lookup => Lookup(dir, name) = lookup[<<dir, name>>]
<1> DEFINE key == <<dir, name>>
<1>1. Lookup(dir, name) = (CASE name = "." -> dir
                             [] name = ".." -> nodes[dir].parent
                             [] key \in DOMAIN lookup -> lookup[key]
                             [] OTHER -> "NOENT")
  BY Zenon DEF Lookup
<1>2. ASSUME key \in DOMAIN lookup PROVE name \notin {".", ".."}
  <2>1. lookup[key] \in DOMAIN nodes /\ nodes[lookup[key]].name = name
    BY <1>2 DEF IInv, TreeInv, Named
  <2>2. nodes[lookup[key]].name \in Names \cup {"/"}
    BY <2>1 DEF IInv, TreeInv, Made, NodeOf
  <2>3. QED
    BY <2>1, <2>2, DiscsAssumption
<1> HIDE DEF key
<1>3. CASE name = ".."
  <2>1. key \notin DOMAIN lookup
    BY <1>2, <1>3
  <2>2. QED
    BY <1>1, <1>3, <2>1 DEF key
<1>4. CASE key \in DOMAIN lookup
  BY <1>1, <1>2, <1>4 DEF key
<1>5. QED
  BY <1>3, <1>4 DEF key

\* When the walk is done, a directory without a namesake has the listing of the
\* directory of the disc it was made of.
LEMMA DoneFacts ==
    ASSUME IInv, scan = "done", NEW n \in DOMAIN nodes, IsDir(n), ~Namesake(n)
    PROVE  LET list == Listing(disc, nodes, n)
               kids == nodes[n].children IN
           /\ list \in Seq(EntryOf(disc))
           /\ \A e : e \in Visible(n) <=> Seen(skipped, n, e) /\ \E i \in DOMAIN list : list[i] = e
           /\ Walked(disc, nodes, lookup, skipped, n, kids, Len(list))
<1> DEFINE e == nodes[n].entry
           list == Listing(disc, nodes, n)
           s == disc.dirs[e.icb]
           keep == {x \in ToSet(s) : x.kind \notin Passed}
<1>1. Find(disc, nodes[n].path) = e
  BY DEF IInv, TreeInv, PathsLead
<1>2. e.kind = "dir" /\ e \in Things(disc)
  BY <1>1 DEF IInv, TreeInv, Made, NodeAt, IsDir
<1>3. Wellformed(disc)
  BY DiscWellformed DEF IInv
<1>4. e.icb \in DOMAIN disc.dirs
  BY <1>2, <1>3, ThingsType
<1>5. s \in Seq(EntryOf(disc))
  BY <1>3, <1>4 DEF Wellformed, EntryOf
<1>6. list = Kept(s, keep)
  BY <1>1, <1>2 DEF Listing, Entries
<1>7. \A x : x \in ToSet(s) <=> \E i \in DOMAIN s : s[i] = x
  BY DEF ToSet
<1>8. \A x : x \in Visible(n) <=> x \in ToSet(s) /\ Seen(skipped, n, x)
  BY DEF Visible, Seen
<1>9. \A x : Seen(skipped, n, x) => x.kind \notin Passed
  BY DEF Seen, Passed
<1>10. \A x : x \in keep <=> x \in ToSet(s) /\ x.kind \notin Passed
  OBVIOUS
<1> HIDE DEF s, list, keep
<1>11. /\ list \in Seq(EntryOf(disc))
       /\ \A x : (\E i \in DOMAIN list : list[i] = x) <=> x \in keep /\ \E i \in DOMAIN s : s[i] = x
  BY ONLY <1>5, <1>6, KeptElements
<1>12. Walked(disc, nodes, lookup, skipped, n, nodes[n].children, Len(list))
  <2>1. frames = <<>>
    BY DEF IInv, TreeInv, Walking
  <2>2. QED
    BY <2>1 DEF IInv, TreeInv, Mirrors, IsDir, list
<1>13. \A x : x \in Visible(n) <=> Seen(skipped, n, x) /\ \E i \in DOMAIN list : list[i] = x
  BY <1>7, <1>8, <1>9, <1>10, <1>11
<1>14. QED
  BY <1>11, <1>12, <1>13 DEF list

\* Below each directory the names a client can look up, and those it is listed,
\* are those of the disc that are to be seen, each once, and `..` leads back
\* (DiscTree::walk, walk_udf, BdFs::lookup).
THEOREM AlwaysMirrors == Spec => []Mirror
<1>1. ASSUME IInv, scan = "done", NEW n \in DOMAIN nodes, IsDir(n), ~Namesake(n)
      PROVE  LET kids == nodes[n].children IN
             /\ Len(kids) = Cardinality(Visible(n))
             /\ \A e \in Visible(n) : /\ Lookup(n, e.name) \in ToSet(kids)
                                      /\ nodes[Lookup(n, e.name)].entry = e
                                      /\ e.kind = "dir" => Lookup(Lookup(n, e.name), "..") = n
  <2> DEFINE kids == nodes[n].children
             list == Listing(disc, nodes, n)
             f    == [i \in DOMAIN kids |-> nodes[kids[i]].entry]
  <2>1. /\ list \in Seq(EntryOf(disc))
        /\ \A e : e \in Visible(n) <=> Seen(skipped, n, e) /\ \E i \in DOMAIN list : list[i] = e
        /\ Walked(disc, nodes, lookup, skipped, n, kids, Len(list))
    BY <1>1, DoneFacts
  <2>2. /\ kids \in Seq(DOMAIN nodes)
        /\ \A i, j \in DOMAIN kids : kids[i] = kids[j] => i = j
        /\ \A i \in DOMAIN kids :
              LET x == nodes[kids[i]].entry IN
              /\ kids[i] # Root /\ nodes[kids[i]].parent = n
              /\ <<n, x.name>> \in DOMAIN lookup /\ lookup[<<n, x.name>>] = kids[i]
              /\ Seen(skipped, n, x)
              /\ \E j \in 1..Len(list) : list[j] = x
        /\ \A j \in 1..Len(list) :
              Seen(skipped, n, list[j]) => \E i \in DOMAIN kids : nodes[kids[i]].entry = list[j]
    BY <2>1 DEF Walked
  <2> HIDE DEF kids, list
  <2>3. DOMAIN list = 1..Len(list)
    BY <2>1
  <2>4. ASSUME NEW i \in DOMAIN kids PROVE f[i] \in Visible(n)
    BY <2>1, <2>2, <2>3
  <2>5. ASSUME NEW i \in DOMAIN kids, NEW j \in DOMAIN kids, f[i] = f[j] PROVE i = j
    <3>1. lookup[<<n, f[i].name>>] = kids[i] /\ lookup[<<n, f[j].name>>] = kids[j]
      BY <2>2
    <3>2. QED
      BY <2>2, <2>5, <3>1
  <2>6. ASSUME NEW e \in Visible(n)
        PROVE  \E i \in DOMAIN kids : f[i] = e
    <3>1. PICK j \in DOMAIN list : list[j] = e
      BY <2>1
    <3>2. Seen(skipped, n, list[j]) /\ j \in 1..Len(list)
      BY <2>1, <2>3, <3>1
    <3>3. QED
      BY <2>2, <3>1, <3>2
  <2>7. Len(kids) = Cardinality(Visible(n))
    <3>1. f \in Bijection(DOMAIN kids, Visible(n))
      <4>1. f \in [DOMAIN kids -> Visible(n)]
        BY <2>4
      <4> HIDE DEF f
      <4>2. QED
        BY <2>5, <2>6, <4>1, Fun_IsBij
    <3>2. Len(kids) \in Nat /\ DOMAIN kids = 1..Len(kids)
      BY <2>2
    <3>3. IsFiniteSet(1..Len(kids)) /\ Cardinality(1..Len(kids)) = Len(kids)
      BY <3>2, FS_Interval
    <3>4. ExistsBijection(DOMAIN kids, Visible(n))
      BY <3>1 DEF ExistsBijection
    <3>5. QED
      BY <3>2, <3>3, <3>4, FS_Bijection
  <2>8. ASSUME NEW e \in Visible(n)
        PROVE  /\ Lookup(n, e.name) \in ToSet(kids)
               /\ nodes[Lookup(n, e.name)].entry = e
               /\ e.kind = "dir" => Lookup(Lookup(n, e.name), "..") = n
    <3>1. PICK i \in DOMAIN kids : nodes[kids[i]].entry = e
      BY <2>6
    <3>2. /\ <<n, e.name>> \in DOMAIN lookup /\ lookup[<<n, e.name>>] = kids[i]
          /\ kids[i] # Root /\ nodes[kids[i]].parent = n /\ kids[i] \in DOMAIN nodes
      BY <2>2, <3>1
    <3>4. Lookup(n, e.name) = kids[i]
      BY <1>1, <3>2, LookupIn
    <3>5. e.kind = "dir" => IsDir(kids[i])
      BY <1>1, <3>1, <3>2 DEF IInv, TreeInv, Made, NodeAt, IsDir
    <3>6. e.kind = "dir" => Lookup(kids[i], "..") = n
      BY <1>1, <3>2, <3>5, LookupIn
    <3>7. kids[i] \in ToSet(kids)
      BY DEF ToSet
    <3>8. QED
      BY <3>1, <3>4, <3>6, <3>7
  <2>9. QED
    BY <2>7, <2>8 DEF kids
<1>2. IInv => Mirror
  BY <1>1 DEF Mirror
<1>3. QED
  BY <1>2, Invariant, PTL
=============================================================================

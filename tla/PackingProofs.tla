---------------------------- MODULE PackingProofs ----------------------------
(***************************************************************************)
(* Theorems about Packing, for any SBOM, directories, plugins and order of *)
(* uploads: a package that has an index has all its components' files, and *)
(* what the index says is tagged beside it is there.                       *)
(***************************************************************************)
EXTENDS ComposeProofs

\* The digest that a plugin gives a file is the file's own: one that the registry
\* has already is not checked.
Truthful ==
    \A c \in Ref : \A a \in Answers[c] \ {None} :
        /\ a.manifest # None => a.manifest.says = None
        /\ \A i \in DOMAIN a.blobs : a.blobs[i].says = None

\* A file is not itself the record that stands for a manifest of bomify's.
Plain == \A kind, of, names : Manifest(kind, of, names) \notin Content

-----------------------------------------------------------------------------
(* The invariant.                                                          *)

Began == step \notin {"build", "idle"}

\* What is listed, once each.
ListsOnce ==
    /\ list \in Seq(Ref) /\ \A i, k \in DOMAIN list : list[i] = list[k] => i = k
    /\ IF step = "build" THEN list = <<>> ELSE sbom \in Seq(Ref)

\* What a file holds now it has held.
HoldsOn(c) ==
    dir[c] # None =>
        /\ DOMAIN held[c] = DOMAIN dir[c]
        /\ \A p \in DOMAIN dir[c] : dir[c][p] \in held[c][p] /\ held[c][p] \subseteq Content

DirsHeld ==
    /\ dir \in [Ref -> Directory \cup {None}]
    /\ Began => /\ held = [c \in Ref |-> [p \in DOMAIN held[c] |-> held[c][p]]]
                /\ \A c \in Ref : HoldsOn(c)

\* A plan has each file of the directory, once, as a blob of the pack or an extra.
PlanFits(c, plan) ==
    /\ dir[c] # None
    /\ plan.uploads \in Seq([path : DOMAIN dir[c], digest : Content])
    /\ \A i \in DOMAIN plan.uploads : plan.uploads[i].digest \in held[c][plan.uploads[i].path]
    /\ DOMAIN plan.files \subseteq DOMAIN dir[c]
    /\ \A p \in DOMAIN plan.files : plan.files[p] \in held[c][p]
    /\ plan.extras \in Seq(DOMAIN dir[c])
    /\ \A i, k \in DOMAIN plan.extras : plan.extras[i] = plan.extras[k] => i = k
    /\ Range(plan.extras) = DOMAIN dir[c] \ DOMAIN plan.files

\* What a packed component's manifest names has its blobs.
PlanNames(plan) ==
    IF plan.format = "packed"
    THEN /\ plan.manifest \in Content
         /\ \A p \in DOMAIN plan.files : plan.files[p] \in Reach(plan.manifest)
    ELSE plan.format \in {"model", "bomify"} /\ DOMAIN plan.files = {} /\ plan.uploads = <<>>

PlansFit ==
    /\ step = "plan" => DOMAIN plans \subseteq Range(list)
    /\ step = "upload" => DOMAIN plans = Range(list)
    /\ step \in {"plan", "upload"} => \A c \in DOMAIN plans : PlanFits(c, plans[c]) /\ PlanNames(plans[c])

\* What is uploaded of a file, it has held.
LayerFits(i) ==
    /\ hashed[i] \in {None} \cup held[AllLayers[i].of][AllLayers[i].path]
    /\ layers[i] \in {None} \cup (held[AllLayers[i].of][AllLayers[i].path] \cap registry)

LayersFit ==
    step = "upload" =>
        /\ DOMAIN layers = DOMAIN AllLayers /\ DOMAIN hashed = DOMAIN AllLayers
        /\ \A i \in DOMAIN AllLayers : LayerFits(i)

\* What is there as a manifest has what it names.
StoreCloses ==
    /\ complete \subseteq Content \cap registry
    /\ Closed({d \in Content : Has(d)})

\* A component's manifest has all its files, or leaves them to the SBOM's.
Made(k) ==
    /\ dir[list[k]] # None
    /\ DOMAIN manifests[k].files = DOMAIN dir[list[k]]
    /\ manifests[k].extras \in Seq(Content)
    /\ \A p \in DOMAIN dir[list[k]] :
        manifests[k].files[p] \in held[list[k]][p] \cap registry
                                    \cap (KeptBy(manifests[k].desc) \cup Range(manifests[k].extras))

ManifestsMade ==
    /\ manifests \in Seq(Range(manifests)) /\ Len(manifests) <= Len(list)
    /\ step = "sites" => Len(manifests) = Len(list)
    /\ \A k \in DOMAIN manifests : Made(k)

\* The index is of the manifests that were made.
Indexed ==
    /\ index.sbom = SBOMLayers
    /\ Len(manifests) = Len(list) /\ DOMAIN index.entries = DOMAIN list
    /\ \A k \in DOMAIN list : index.entries[k].desc = manifests[k].desc

Unindexed == {"build", "idle", "plan", "upload", "sites"}
Settled == {"tag", "pushed", "restore", "restored"}

\* The component that is being restored.
Restoring ==
    restored.of \in Range(list) /\ restored = [of |-> restored.of, files |-> restored.files]

IndexFits ==
    /\ index # None \/ step \in Settled => Indexed
    /\ step \in Unindexed => index = None
    /\ step = "restore" => Restoring

Steps == {"build", "idle", "plan", "upload", "sites", "tag", "pushed", "failed", "restore", "restored"}

PackInv ==
    /\ step \in Steps
    /\ ListsOnce /\ DirsHeld /\ PlansFit /\ LayersFit /\ StoreCloses /\ ManifestsMade /\ IndexFits

-----------------------------------------------------------------------------
(* Lists put one after the other.                                          *)

\* How a list of lists is put together, list by list.
Flattens(g, s, n) == g[0] = <<>> /\ \A i \in 1..n : g[i] = g[i - 1] \o s[i]

\* FlattenSeq puts them together that way.
LEMMA FlattenIs ==
    ASSUME NEW T, NEW n \in Nat, NEW s \in [1..n -> Seq(T)], NEW g, Flattens(g, s, n)
    PROVE  FlattenSeq(s) = g[n]
<1> DEFINE Grown(f) == [i \in 1..Len(s) |-> IF i = 1 THEN s[1] ELSE f[i - 1] \o s[i]]
           f == CHOOSE f : f = Grown(f)
           h == [i \in 1..n |-> g[i]]
<1>1. Len(s) = n /\ \A i \in 1..n : s[i] \in Seq(T)
  OBVIOUS
<1>2. g[0] = <<>> /\ \A i \in 1..n : g[i] = g[i - 1] \o s[i]
  BY DEF Flattens
<1>3. CASE n = 0
  <2>1. s = <<>>
    BY <1>3
  <2> QED
    BY <1>1, <1>2, <1>3, <2>1 DEF FlattenSeq
<1>4. CASE n # 0
  <2>1. FlattenSeq(s) = f[Len(s)]
    BY <1>1, <1>4 DEF FlattenSeq
  <2>2. h = Grown(h)
    <3>1. \A i \in 1..n : g[i] = IF i = 1 THEN s[1] ELSE h[i - 1] \o s[i]
      <4> SUFFICES ASSUME NEW i \in 1..n
                   PROVE  g[i] = IF i = 1 THEN s[1] ELSE h[i - 1] \o s[i]
        OBVIOUS
      <4> HIDE DEF h
      <4>1. CASE i = 1
        <5>1. <<>> \o s[1] = s[1]
          BY <1>1, <4>1, ConcatEmptySeq
        <5>2. i - 1 = 0
          BY <4>1
        <5>3. g[i] = <<>> \o s[i]
          BY <1>2, <5>2
        <5> QED
          BY <4>1, <5>1, <5>3
      <4>2. CASE i # 1
        <5>1. i - 1 \in 1..n
          BY <4>2
        <5>2. h[i - 1] = g[i - 1]
          BY <5>1 DEF h
        <5> QED
          BY <1>2, <4>2, <5>2
      <4> QED
        BY <4>1, <4>2
    <3> DEFINE Put(i) == IF i = 1 THEN s[1] ELSE h[i - 1] \o s[i]
    <3>2. \A i \in 1..n : g[i] = Put(i)
      BY <3>1
    <3> HIDE DEF Put
    <3>3. [i \in 1..n |-> g[i]] = [i \in 1..n |-> Put(i)]
      BY <3>2
    <3> USE DEF Put
    <3>4. 1..n = 1..Len(s)
      BY <1>1
    <3> QED
      BY <3>3, <3>4, Zenon
  <2> HIDE DEF h
  <2>3. f = Grown(f)
    <3>1. \E x : x = Grown(x)
      BY <2>2
    <3> HIDE DEF Grown
    <3> QED
      BY <3>1, Zenon
  <2> HIDE DEF f
  <2>4. \A x : x = Grown(x) => \A i \in 1..n : x[i] = IF i = 1 THEN s[1] ELSE x[i - 1] \o s[i]
    <3> SUFFICES ASSUME NEW x, x = Grown(x), NEW i \in 1..n
                 PROVE  x[i] = IF i = 1 THEN s[1] ELSE x[i - 1] \o s[i]
      BY Zenon
    <3>1. Grown(x)[i] = IF i = 1 THEN s[1] ELSE x[i - 1] \o s[i]
      BY <1>1, Zenon
    <3> HIDE DEF Grown
    <3> QED
      BY <3>1
  <2> HIDE DEF Grown
  <2> DEFINE Bad == {i \in 1..n : f[i] # h[i]}
  <2>5. Bad \subseteq Nat
    OBVIOUS
  <2>6. \A i : i \in Bad <=> i \in 1..n /\ f[i] # h[i]
    OBVIOUS
  <2> HIDE DEF Bad
  <2>7. Bad = {}
    <3> SUFFICES ASSUME Bad # {}
                 PROVE  FALSE
      OBVIOUS
    <3>1. PICK i \in Bad : \A k \in Bad : i <= k
      BY <2>5, LeastExists
    <3>2. i \in 1..n /\ f[i] # h[i]
      BY <2>6
    <3>3. f[i] = (IF i = 1 THEN s[1] ELSE f[i - 1] \o s[i]) /\ h[i] = (IF i = 1 THEN s[1] ELSE h[i - 1] \o s[i])
      BY <2>2, <2>3, <2>4, <3>2
    <3>4. CASE i = 1
      BY <3>2, <3>3, <3>4
    <3>5. CASE i # 1
      <4>1. i - 1 \in 1..n /\ i - 1 \notin Bad
        BY <2>5, <3>1, <3>2, <3>5
      <4>2. f[i - 1] = h[i - 1]
        BY <2>6, <4>1
      <4> QED
        BY <3>2, <3>3, <3>5, <4>2
    <3> QED
      BY <3>4, <3>5
  <2>8. n \in 1..n /\ n \notin Bad
    BY <1>4, <2>7
  <2>9. f[n] = g[n]
    BY <2>6, <2>8 DEF h
  <2> QED
    BY <1>1, <2>1, <2>9
<1> QED
  BY <1>3, <1>4

\* Every list of lists is put together so.
LEMMA FlattensExist ==
    ASSUME NEW T, NEW n \in Nat, NEW s \in [1..n -> Seq(T)]
    PROVE  \E g : Flattens(g, s, n) /\ \A i \in 0..n : g[i] \in Seq(T)
<1> DEFINE Typed(g, m) == \A i \in 0..m : g[i] \in Seq(T)
           Bad == {m \in 0..n : ~\E g : Flattens(g, s, m) /\ Typed(g, m)}
<1>1. \A i \in 1..n : s[i] \in Seq(T)
  OBVIOUS
<1>2. Bad \subseteq Nat
  OBVIOUS
<1>3. \A m : m \in Bad <=> m \in 0..n /\ ~\E g : Flattens(g, s, m) /\ Typed(g, m)
  OBVIOUS
<1> HIDE DEF Bad
<1>4. Bad = {}
  <2> SUFFICES ASSUME Bad # {}
               PROVE  FALSE
    OBVIOUS
  <2>1. PICK m \in Bad : \A k \in Bad : m <= k
    BY <1>2, LeastExists
  <2>2. m \in 0..n /\ ~\E g : Flattens(g, s, m) /\ Typed(g, m)
    BY <1>3
  <2>3. CASE m = 0
    <3> DEFINE e == [i \in {0} |-> <<>>]
    <3>1. e[0] = <<>> /\ \A i \in 0..0 : e[i] \in Seq(T)
      OBVIOUS
    <3> HIDE DEF e
    <3>2. Flattens(e, s, 0) /\ Typed(e, 0)
      BY <3>1 DEF Flattens
    <3> QED
      BY <2>2, <2>3, <3>2
  <2>4. CASE m # 0
    <3>1. m - 1 \in 0..n /\ m - 1 \notin Bad
      BY <1>2, <2>1, <2>2, <2>4
    <3>2. PICK g : Flattens(g, s, m - 1) /\ Typed(g, m - 1)
      BY <1>3, <3>1
    <3> DEFINE joined == g[m - 1] \o s[m]
    <3>3. joined \in Seq(T)
      <4>1. g[m - 1] \in Seq(T) /\ s[m] \in Seq(T)
        BY <1>1, <2>2, <2>4, <3>2
      <4> QED
        BY <4>1
    <3> HIDE DEF joined
    <3> DEFINE e == [i \in 0..m |-> IF i = m THEN joined ELSE g[i]]
    <3>4. g[0] = <<>> /\ \A i \in 1..(m - 1) : g[i] = g[i - 1] \o s[i]
      BY <3>2 DEF Flattens
    <3>5. \A i \in 0..(m - 1) : e[i] = g[i] /\ g[i] \in Seq(T)
      BY <1>1, <2>2, <3>2
    <3>6. e[m] = joined
      BY <2>2
    <3> HIDE DEF e
    <3>7. e[0] = <<>>
      BY <1>1, <2>2, <2>4, <3>4, <3>5
    <3>8. \A i \in 1..m : e[i] = e[i - 1] \o s[i]
      <4> SUFFICES ASSUME NEW i \in 1..m
                   PROVE  e[i] = e[i - 1] \o s[i]
        OBVIOUS
      <4>1. CASE i = m
        <5>1. m - 1 \in 0..(m - 1)
          BY <2>2, <2>4
        <5>2. e[m - 1] = g[m - 1]
          BY <3>5, <5>1
        <5> QED
          BY <3>6, <4>1, <5>2 DEF joined
      <4>2. CASE i # m
        <5>1. i \in 1..(m - 1) /\ i \in 0..(m - 1) /\ i - 1 \in 0..(m - 1)
          BY <1>1, <2>2, <4>2
        <5> QED
          BY <3>4, <3>5, <5>1
      <4> QED
        BY <4>1, <4>2
    <3>9. Typed(e, m)
      <4> SUFFICES ASSUME NEW i \in 0..m
                   PROVE  e[i] \in Seq(T)
        OBVIOUS
      <4>1. CASE i = m
        BY <3>6, <3>3, <4>1
      <4>2. CASE i # m
        BY <1>1, <2>2, <3>5, <4>2
      <4> QED
        BY <4>1, <4>2
    <3>10. Flattens(e, s, m)
      BY <3>7, <3>8 DEF Flattens
    <3> QED
      BY <2>2, <3>9, <3>10
  <2> QED
    BY <2>3, <2>4
<1>5. n \in 0..n /\ n \notin Bad
  BY <1>4
<1> QED
  BY <1>5, <1>3

\* The first m lists, one after the other.
UpTo(s, m) == FlattenSeq([k \in 1..m |-> s[k]])

\* Each list has its place, and there is nothing else.
InPlace(s, n) ==
    /\ \A k \in 1..n :
        /\ Len(UpTo(s, k)) = Len(UpTo(s, k - 1)) + Len(s[k])
        /\ Len(UpTo(s, k)) <= Len(FlattenSeq(s))
        /\ \A j \in 1..Len(s[k]) : FlattenSeq(s)[Len(UpTo(s, k - 1)) + j] = s[k][j]
    /\ \A i \in DOMAIN FlattenSeq(s) : \E k \in 1..n : \E j \in 1..Len(s[k]) :
        i = Len(UpTo(s, k - 1)) + j /\ FlattenSeq(s)[i] = s[k][j]

\* Lists put one after the other.
LEMMA FlattenParts ==
    ASSUME NEW T, NEW n \in Nat, NEW s \in [1..n -> Seq(T)]
    PROVE  /\ \A m \in 0..n : UpTo(s, m) \in Seq(T) /\ Len(UpTo(s, m)) \in Nat
           /\ UpTo(s, n) = FlattenSeq(s)
           /\ InPlace(s, n)
<1>1. PICK g : Flattens(g, s, n) /\ \A m \in 0..n : g[m] \in Seq(T)
  BY FlattensExist
<1>2. \A i \in 1..n : g[i] = g[i - 1] \o s[i]
  BY <1>1 DEF Flattens
<1>3. ASSUME NEW m \in 0..n
      PROVE  UpTo(s, m) = g[m] /\ g[m] \in Seq(T) /\ Len(g[m]) \in Nat /\ DOMAIN g[m] = 1..Len(g[m])
  <2> DEFINE t == [k \in 1..m |-> s[k]]
  <2>1. t \in [1..m -> Seq(T)] /\ \A i \in 1..m : i \in 1..n /\ t[i] = s[i]
    OBVIOUS
  <2> HIDE DEF t
  <2>2. Flattens(g, t, m)
    BY <1>1, <2>1 DEF Flattens
  <2>3. FlattenSeq(t) = g[m]
    BY <2>1, <2>2, FlattenIs
  <2> QED
    BY <1>1, <2>3 DEF UpTo, t
<1>4. ASSUME NEW k \in 1..n
      PROVE  /\ k - 1 \in 0..n /\ k \in 0..n
             /\ Len(g[k]) = Len(g[k - 1]) + Len(s[k]) /\ Len(s[k]) \in Nat
             /\ \A i \in 1..Len(g[k - 1]) : g[k][i] = g[k - 1][i]
             /\ \A j \in 1..Len(s[k]) : g[k][Len(g[k - 1]) + j] = s[k][j]
  <2> DEFINE a == g[k - 1]
             b == s[k]
  <2>1. k - 1 \in 0..n /\ k \in 0..n
    OBVIOUS
  <2>2. a \in Seq(T) /\ b \in Seq(T) /\ g[k] = a \o b
    BY <1>2, <1>3, <2>1
  <2> HIDE DEF a, b
  <2>3. /\ Len(a \o b) = Len(a) + Len(b) /\ Len(a) \in Nat /\ Len(b) \in Nat
        /\ \A i \in 1..(Len(a) + Len(b)) : (a \o b)[i] = IF i <= Len(a) THEN a[i] ELSE b[i - Len(a)]
    BY <2>2, ConcatProperties, LenProperties
  <2>4. \A i \in 1..Len(a) : (a \o b)[i] = a[i]
    BY <2>3
  <2>5. \A j \in 1..Len(b) : (a \o b)[Len(a) + j] = b[j]
    <3> SUFFICES ASSUME NEW j \in 1..Len(b)
                 PROVE  (a \o b)[Len(a) + j] = b[j]
      OBVIOUS
    <3>1. Len(a) + j \in 1..(Len(a) + Len(b)) /\ ~(Len(a) + j <= Len(a)) /\ (Len(a) + j) - Len(a) = j
      BY <2>3
    <3> QED
      BY <2>3, <3>1
  <2> QED
    BY <2>1, <2>2, <2>3, <2>4, <2>5 DEF a, b
<1> DEFINE L(m) == Len(g[m])
           Good(m) == /\ \A k \in 1..m : /\ L(k) <= L(m)
                                         /\ \A j \in 1..Len(s[k]) : g[m][L(k - 1) + j] = s[k][j]
                      /\ \A i \in 1..L(m) : \E k \in 1..m : \E j \in 1..Len(s[k]) :
                            i = L(k - 1) + j /\ g[m][i] = s[k][j]
           Bad == {m \in 0..n : ~Good(m)}
<1>5. Bad \subseteq Nat
  OBVIOUS
<1>6. \A m : m \in Bad <=> m \in 0..n /\ ~Good(m)
  OBVIOUS
<1> HIDE DEF Bad
<1>7. L(0) = 0
  BY <1>1 DEF Flattens
<1>8. Good(0)
  BY <1>7
<1>9. ASSUME NEW m \in 1..n, Good(m - 1)
      PROVE  Good(m)
  <2>1. /\ L(m) = L(m - 1) + Len(s[m]) /\ Len(s[m]) \in Nat /\ L(m - 1) \in Nat
        /\ \A i \in 1..L(m - 1) : g[m][i] = g[m - 1][i]
        /\ \A j \in 1..Len(s[m]) : g[m][L(m - 1) + j] = s[m][j]
    BY <1>3, <1>4
  <2>2. \A k \in 1..(m - 1) : /\ L(k) \in Nat /\ L(k - 1) \in Nat /\ L(k) = L(k - 1) + Len(s[k]) /\ Len(s[k]) \in Nat
    <3> SUFFICES ASSUME NEW k \in 1..(m - 1)
                 PROVE  L(k) \in Nat /\ L(k - 1) \in Nat /\ L(k) = L(k - 1) + Len(s[k]) /\ Len(s[k]) \in Nat
      OBVIOUS
    <3>1. k \in 1..n /\ k - 1 \in 0..n /\ k \in 0..n
      OBVIOUS
    <3> QED
      BY <1>3, <1>4, <3>1
  <2>3. /\ \A k \in 1..(m - 1) : /\ L(k) <= L(m - 1)
                                 /\ \A j \in 1..Len(s[k]) : g[m - 1][L(k - 1) + j] = s[k][j]
        /\ \A i \in 1..L(m - 1) : \E k \in 1..(m - 1) : \E j \in 1..Len(s[k]) :
              i = L(k - 1) + j /\ g[m - 1][i] = s[k][j]
    BY <1>9
  <2> DEFINE top == L(m - 1)
             all == g[m]
  <2> HIDE DEF L, Good, all
  <2>4. ASSUME NEW k \in 1..m
        PROVE  L(k) <= L(m) /\ \A j \in 1..Len(s[k]) : all[L(k - 1) + j] = s[k][j]
    <3>1. CASE k = m
      BY <2>1, <3>1 DEF all
    <3>2. CASE k # m
      <4>1. k \in 1..(m - 1)
        BY <3>2
      <4>2. \A j \in 1..Len(s[k]) : L(k - 1) + j \in 1..L(m - 1)
        <5>1. /\ L(k) \in Nat /\ L(k - 1) \in Nat /\ L(k) = L(k - 1) + Len(s[k])
              /\ Len(s[k]) \in Nat /\ L(k) <= L(m - 1) /\ L(m - 1) \in Nat
          BY <2>1, <2>2, <2>3, <4>1
        <5> QED
          BY <5>1
      <4>3. \A j \in 1..Len(s[k]) : all[L(k - 1) + j] = g[m - 1][L(k - 1) + j]
        BY <2>1, <4>2 DEF all
      <4>4. \A j \in 1..Len(s[k]) : g[m - 1][L(k - 1) + j] = s[k][j]
        BY <2>3, <4>1
      <4>5. L(k) <= L(m)
        <5>1. L(k) <= L(m - 1) /\ L(k) \in Nat
          BY <2>2, <2>3, <4>1
        <5> QED
          BY <2>1, <5>1
      <4> QED
        BY <4>3, <4>4, <4>5
    <3> QED
      BY <3>1, <3>2
  <2>5. ASSUME NEW i \in 1..L(m)
        PROVE  \E k \in 1..m : \E j \in 1..Len(s[k]) : i = L(k - 1) + j /\ all[i] = s[k][j]
    <3>1. CASE i <= L(m - 1)
      <4>1. PICK k \in 1..(m - 1) : \E j \in 1..Len(s[k]) : i = L(k - 1) + j /\ g[m - 1][i] = s[k][j]
        BY <2>1, <2>3, <3>1
      <4>2. k \in 1..m /\ all[i] = g[m - 1][i]
        BY <2>1, <3>1 DEF all
      <4> QED
        BY <4>1, <4>2
    <3>2. CASE ~(i <= L(m - 1))
      <4>1. i - L(m - 1) \in 1..Len(s[m]) /\ i = L(m - 1) + (i - L(m - 1)) /\ m \in 1..m
        BY <2>1, <3>2
      <4> QED
        BY <2>1, <4>1 DEF all
    <3> QED
      BY <3>1, <3>2
  <2> QED
    BY <2>4, <2>5 DEF Good, all
<1>10. \A m \in 0..n : Good(m)
  <2> SUFFICES ASSUME Bad # {}
               PROVE  FALSE
    BY <1>6
  <2>1. PICK m \in Bad : \A k \in Bad : m <= k
    BY <1>5, LeastExists
  <2>2. m \in 0..n /\ ~Good(m)
    BY <1>6
  <2> HIDE DEF Good
  <2>3. m # 0
    BY <1>8, <2>2
  <2>4. m \in 1..n /\ m - 1 \in 0..n /\ m - 1 \notin Bad
    BY <1>5, <2>1, <2>2, <2>3
  <2> QED
    BY <1>6, <1>9, <2>2, <2>4
<1>11. Good(n)
  BY <1>10
<1>12. [k \in 1..n |-> s[k]] = s
  OBVIOUS
<1>13. \A k \in 1..n : k \in 0..n /\ k - 1 \in 0..n /\ n \in 0..n
  OBVIOUS
<1> QED
  <2>1. \A m \in 0..n : UpTo(s, m) \in Seq(T) /\ Len(UpTo(s, m)) \in Nat
    BY <1>3
  <2>2. UpTo(s, n) = FlattenSeq(s)
    BY <1>12 DEF UpTo
  <2>3. n \in 0..n
    OBVIOUS
  <2>4. UpTo(s, n) = g[n] /\ DOMAIN g[n] = 1..Len(g[n])
    BY <1>3, <2>3
  <2>5. \A k \in 1..n : UpTo(s, k) = g[k] /\ UpTo(s, k - 1) = g[k - 1]
    BY <1>3, <1>13
  <2>6. ASSUME NEW k \in 1..n
        PROVE  /\ Len(UpTo(s, k)) = Len(UpTo(s, k - 1)) + Len(s[k])
               /\ Len(UpTo(s, k)) <= Len(FlattenSeq(s))
               /\ \A j \in 1..Len(s[k]) : FlattenSeq(s)[Len(UpTo(s, k - 1)) + j] = s[k][j]
    <3>1. FlattenSeq(s) = g[n] /\ UpTo(s, k) = g[k] /\ UpTo(s, k - 1) = g[k - 1]
      BY <2>2, <2>4, <2>5
    <3>2. Len(g[k]) = Len(g[k - 1]) + Len(s[k])
      BY <1>4
    <3>3. /\ L(k) <= L(n)
          /\ \A j \in 1..Len(s[k]) : g[n][L(k - 1) + j] = s[k][j]
      BY <1>11
    <3> QED
      BY <3>1, <3>2, <3>3
  <2>7. ASSUME NEW i \in DOMAIN FlattenSeq(s)
        PROVE  \E k \in 1..n : \E j \in 1..Len(s[k]) :
                 i = Len(UpTo(s, k - 1)) + j /\ FlattenSeq(s)[i] = s[k][j]
    <3>1. i \in 1..Len(g[n])
      BY <2>2, <2>4
    <3>2. PICK k \in 1..n : \E j \in 1..Len(s[k]) : i = L(k - 1) + j /\ g[n][i] = s[k][j]
      BY <1>11, <3>1
    <3> QED
      BY <2>2, <2>4, <2>5, <3>2
  <2>8. InPlace(s, n)
    BY <2>6, <2>7 DEF InPlace
  <2> QED
    BY <2>1, <2>2, <2>8

\* What is in lists is in them together, and nothing else.
LEMMA FlattenHolds ==
    ASSUME NEW T, NEW n \in Nat, NEW s \in [1..n -> Seq(T)]
    PROVE  /\ FlattenSeq(s) \in Seq(T)
           /\ \A k \in 1..n : Range(s[k]) \subseteq Range(FlattenSeq(s))
           /\ \A i \in DOMAIN FlattenSeq(s) : \E k \in 1..n : FlattenSeq(s)[i] \in Range(s[k])
<1> DEFINE all == FlattenSeq(s)
<1>1. /\ \A m \in 0..n : UpTo(s, m) \in Seq(T) /\ Len(UpTo(s, m)) \in Nat
      /\ UpTo(s, n) = all
  BY FlattenParts
<1>2. InPlace(s, n)
  BY FlattenParts
<1>3. /\ \A k \in 1..n :
            /\ Len(UpTo(s, k)) = Len(UpTo(s, k - 1)) + Len(s[k])
            /\ Len(UpTo(s, k)) <= Len(all)
            /\ \A j \in 1..Len(s[k]) : all[Len(UpTo(s, k - 1)) + j] = s[k][j]
      /\ \A i \in DOMAIN all : \E k \in 1..n : \E j \in 1..Len(s[k]) : all[i] = s[k][j]
  BY <1>2 DEF InPlace
<1>4. all \in Seq(T) /\ DOMAIN all = 1..Len(all) /\ Len(all) \in Nat
  <2>1. n \in 0..n
    OBVIOUS
  <2>2. all \in Seq(T)
    BY <1>1, <2>1
  <2> QED
    BY <2>2, LenProperties
<1> HIDE DEF all
<1>5. \A k \in 1..n : s[k] \in Seq(T) /\ DOMAIN s[k] = 1..Len(s[k]) /\ Len(s[k]) \in Nat
  BY LenProperties
<1>6. ASSUME NEW k \in 1..n, NEW j \in 1..Len(s[k])
      PROVE  \E i \in DOMAIN all : all[i] = s[k][j]
  <2> DEFINE a == Len(UpTo(s, k - 1))
  <2>1. k - 1 \in 0..n
    OBVIOUS
  <2>2. a \in Nat
    BY <1>1, <2>1
  <2>3. a + Len(s[k]) <= Len(all) /\ all[a + j] = s[k][j]
    BY <1>3
  <2> HIDE DEF a
  <2>4. a + j \in DOMAIN all
    BY <1>4, <1>5, <2>2, <2>3
  <2> QED
    BY <2>3, <2>4
<1>7. \A k \in 1..n : Range(s[k]) \subseteq Range(all)
  BY <1>5, <1>6 DEF Range
<1>8. \A i \in DOMAIN all : \E k \in 1..n : all[i] \in Range(s[k])
  <2> SUFFICES ASSUME NEW i \in DOMAIN all
               PROVE  \E k \in 1..n : all[i] \in Range(s[k])
    OBVIOUS
  <2>1. PICK k \in 1..n : \E j \in 1..Len(s[k]) : all[i] = s[k][j]
    BY <1>3
  <2> QED
    BY <1>5, <2>1 DEF Range
<1> QED
  BY <1>4, <1>7, <1>8 DEF all

\* uniqueComponents lists nothing twice.
LEMMA UniqueIsOnce ==
    ASSUME NEW l \in Seq(Ref)
    PROVE  /\ Unique(l) \in Seq(Ref)
           /\ \A a, b \in DOMAIN Unique(l) : Unique(l)[a] = Unique(l)[b] => a = b
<1> DEFINE n == Len(l)
           u == Unique(l)
           Firsts(i) == IF \E k \in 1..(i - 1) : l[k] = l[i] THEN <<>> ELSE <<l[i]>>
           s == [i \in 1..n |-> Firsts(i)]
<1>1. n \in Nat /\ DOMAIN l = 1..n /\ \A i \in 1..n : l[i] \in Ref
  OBVIOUS
<1>2. u = FlattenSeq(s)
  BY <1>1 DEF Unique
<1>3. ASSUME NEW i \in 1..n
      PROVE  /\ Firsts(i) \in Seq(Ref)
             /\ \A j \in 1..Len(Firsts(i)) :
                    j = 1 /\ Firsts(i)[j] = l[i] /\ \A k \in 1..(i - 1) : l[k] # l[i]
  <2>1. <<>> \in Seq(Ref) /\ Len(<<>>) = 0 /\ <<l[i]>> \in Seq(Ref) /\ Len(<<l[i]>>) = 1
    BY <1>1
  <2>2. CASE \E k \in 1..(i - 1) : l[k] = l[i]
    BY <2>1, <2>2
  <2>3. CASE ~\E k \in 1..(i - 1) : l[k] = l[i]
    BY <2>1, <2>3
  <2> QED
    BY <2>2, <2>3
<1>4. s \in [1..n -> Seq(Ref)] /\ \A i \in 1..n : s[i] = Firsts(i)
  BY <1>3
<1> HIDE DEF s, Firsts, u
<1>5. \A i \in DOMAIN u : \E k \in 1..n : \E j \in 1..Len(s[k]) :
        i = Len(UpTo(s, k - 1)) + j /\ u[i] = s[k][j]
  <2>1. InPlace(s, n)
    BY <1>1, <1>4, FlattenParts
  <2> QED
    BY <1>2, <2>1 DEF InPlace
<1>6. u \in Seq(Ref)
  BY <1>1, <1>2, <1>4, FlattenHolds
<1>7. \A i \in DOMAIN u : \E k \in 1..n :
        i = Len(UpTo(s, k - 1)) + 1 /\ u[i] = l[k] /\ \A m \in 1..(k - 1) : l[m] # l[k]
  <2> SUFFICES ASSUME NEW i \in DOMAIN u
               PROVE  \E k \in 1..n : i = Len(UpTo(s, k - 1)) + 1 /\ u[i] = l[k]
                                        /\ \A m \in 1..(k - 1) : l[m] # l[k]
    OBVIOUS
  <2>1. PICK k \in 1..n : \E j \in 1..Len(s[k]) : i = Len(UpTo(s, k - 1)) + j /\ u[i] = s[k][j]
    BY <1>5
  <2>2. PICK j \in 1..Len(s[k]) : i = Len(UpTo(s, k - 1)) + j /\ u[i] = s[k][j]
    BY <2>1
  <2>3. j \in 1..Len(Firsts(k)) /\ s[k] = Firsts(k)
    BY <1>4
  <2>4. j = 1 /\ s[k][j] = l[k] /\ \A m \in 1..(k - 1) : l[m] # l[k]
    BY <1>3, <2>3
  <2> QED
    BY <2>2, <2>4
<1>8. ASSUME NEW a \in DOMAIN u, NEW b \in DOMAIN u, u[a] = u[b]
      PROVE  a = b
  <2>1. PICK k \in 1..n : a = Len(UpTo(s, k - 1)) + 1 /\ u[a] = l[k] /\ \A m \in 1..(k - 1) : l[m] # l[k]
    BY <1>7
  <2>2. PICK h \in 1..n : b = Len(UpTo(s, h - 1)) + 1 /\ u[b] = l[h] /\ \A m \in 1..(h - 1) : l[m] # l[h]
    BY <1>7
  <2>3. k = h
    <3>1. l[k] = l[h] /\ k \in Nat /\ h \in Nat /\ k >= 1 /\ h >= 1
      BY <1>1, <1>8, <2>1, <2>2
    <3>2. ~(k < h) /\ ~(h < k)
      <4>1. k < h => k \in 1..(h - 1)
        BY <3>1
      <4>2. h < k => h \in 1..(k - 1)
        BY <3>1
      <4> QED
        BY <2>1, <2>2, <3>1, <4>1, <4>2
    <3> QED
      BY <3>1, <3>2
  <2> QED
    BY <2>1, <2>2, <2>3
<1> QED
  BY <1>6, <1>8 DEF u

\* What a manifest reaches is the least that has it and is closed.
LEMMA ReachIsLeast ==
    ASSUME NEW d \in Content
    PROVE  /\ d \in Reach(d) /\ Reach(d) \subseteq Content /\ Closed(Reach(d))
           /\ \A S \in SUBSET Content : d \in S /\ Closed(S) => Reach(d) \subseteq S
<1>1. \A e : e \in Reach(d) <=>
                e \in Content /\ \A S \in SUBSET Content : d \in S /\ Closed(S) => e \in S
  BY DEF Reach, Reaches
<1>2. Closed(Reach(d))
  <2> SUFFICES ASSUME NEW x \in Reach(d), NEW e \in Refers[x]
               PROVE  e \in Reach(d)
    BY DEF Closed
  <2>1. e \in Content
    BY <1>1, PackAssumption
  <2>2. ASSUME NEW S \in SUBSET Content, d \in S, Closed(S)
        PROVE  e \in S
    BY <1>1, <2>2 DEF Closed
  <2> QED
    BY <1>1, <2>1, <2>2
<1> QED
  BY <1>1, <1>2

-----------------------------------------------------------------------------
(* Plans and their layers.                                                 *)

\* A directory has finitely many files.
LEMMA DirectoryIs ==
    ASSUME NEW d \in Directory
    PROVE  /\ DOMAIN d \subseteq Path /\ IsFiniteSet(DOMAIN d)
           /\ d \in [DOMAIN d -> Content]
BY DEF Directory

Upload(P) == [path : P, digest : Content \cup {None}]

\* A plan's layers: its uploads, and then its extras.
LEMMA LayersAre ==
    ASSUME NEW c \in Ref, PlanFits(c, plans[c])
    PROVE  /\ LayersOf(c) \in Seq(Upload(DOMAIN dir[c]))
           /\ Len(LayersOf(c)) = Len(plans[c].uploads) + Len(plans[c].extras)
           /\ \A j \in 1..Len(plans[c].uploads) : LayersOf(c)[j] = plans[c].uploads[j]
           /\ \A j \in 1..Len(plans[c].extras) :
                LayersOf(c)[Len(plans[c].uploads) + j] = [path |-> plans[c].extras[j], digest |-> None]
<1> DEFINE up == plans[c].uploads
           ex == plans[c].extras
           rest == [i \in DOMAIN ex |-> [path |-> ex[i], digest |-> None]]
           T == Upload(DOMAIN dir[c])
           P == DOMAIN dir[c]
<1>1. up \in Seq([path : P, digest : Content]) /\ ex \in Seq(P)
  BY DEF PlanFits
<1>2. LayersOf(c) = up \o rest
  BY DEF LayersOf
<1> HIDE DEF up, ex, P
<1>3. up \in Seq(T) /\ Len(up) \in Nat
  <2>1. [path : P, digest : Content] \subseteq T
    BY DEF Upload, P
  <2> HIDE DEF T
  <2> QED
    BY <1>1, <2>1, SeqMonotonic, LenProperties
<1>4. Len(ex) \in Nat /\ DOMAIN ex = 1..Len(ex) /\ \A i \in 1..Len(ex) : ex[i] \in P
  BY <1>1
<1>5. /\ rest \in Seq(T) /\ Len(rest) = Len(ex)
      /\ \A i \in 1..Len(ex) : rest[i] = [path |-> ex[i], digest |-> None]
  <2>1. \A i \in 1..Len(ex) : [path |-> ex[i], digest |-> None] \in T
    BY <1>4 DEF Upload, P
  <2> HIDE DEF T
  <2> QED
    BY <1>4, <2>1
<1> HIDE DEF rest, T
<1>6. /\ up \o rest \in Seq(T) /\ Len(up \o rest) = Len(up) + Len(rest)
      /\ \A i \in 1..(Len(up) + Len(rest)) : (up \o rest)[i] =
            IF i <= Len(up) THEN up[i] ELSE rest[i - Len(up)]
  <2>1. rest \in Seq(T) /\ up \in Seq(T)
    BY <1>3, <1>5
  <2> QED
    BY <2>1, ConcatProperties, Zenon
<1>7. \A j \in 1..Len(up) : (up \o rest)[j] = up[j]
  BY <1>3, <1>4, <1>5, <1>6
<1>8. ASSUME NEW j \in 1..Len(ex)
      PROVE  (up \o rest)[Len(up) + j] = [path |-> ex[j], digest |-> None]
  <2>1. /\ Len(up) + j \in 1..(Len(up) + Len(rest)) /\ ~(Len(up) + j <= Len(up))
        /\ (Len(up) + j) - Len(up) = j
    BY <1>3, <1>4, <1>5
  <2> QED
    BY <1>5, <1>6, <2>1
<1> QED
  BY <1>2, <1>5, <1>6, <1>7, <1>8 DEF up, ex, T

Layer(c, j) == [of |-> c, path |-> LayersOf(c)[j].path, digest |-> LayersOf(c)[j].digest]

AllPlanned == /\ list \in Seq(Ref) /\ dir \in [Ref -> Directory \cup {None}]
            /\ \A k \in DOMAIN list : PlanFits(list[k], plans[list[k]])

\* A component's layers are those from its start to the next one's.
LEMMA LayersInPlace ==
    ASSUME AllPlanned
    PROVE  /\ AllLayers \in Seq([of : Ref, path : Path, digest : Content \cup {None}])
           /\ Start(1) \in Nat
           /\ \A k \in DOMAIN list :
                /\ Start(k) \in Nat /\ Start(k + 1) = Start(k) + Len(LayersOf(list[k]))
                /\ Start(k + 1) <= Len(AllLayers)
                /\ \A j \in 1..Len(LayersOf(list[k])) : AllLayers[Start(k) + j] = Layer(list[k], j)
           /\ \A i \in DOMAIN AllLayers : \E k \in DOMAIN list : \E j \in 1..Len(LayersOf(list[k])) :
                i = Start(k) + j /\ AllLayers[i] = Layer(list[k], j)
<1> DEFINE n == Len(list)
           T == [of : Ref, path : Path, digest : Content \cup {None}]
           Piece(k) == [j \in DOMAIN LayersOf(list[k]) |-> Layer(list[k], j)]
           s == [k \in 1..n |-> Piece(k)]
<1>1. n \in Nat /\ DOMAIN list = 1..n /\ \A k \in 1..n : list[k] \in Ref /\ PlanFits(list[k], plans[list[k]])
  BY DEF AllPlanned
<1>2. ASSUME NEW k \in 1..n
      PROVE  /\ Piece(k) \in Seq(T) /\ Len(Piece(k)) = Len(LayersOf(list[k]))
             /\ \A j \in 1..Len(LayersOf(list[k])) : Piece(k)[j] = Layer(list[k], j)
  <2> DEFINE c == list[k]
             l == LayersOf(c)
  <2>1. c \in Ref /\ l \in Seq(Upload(DOMAIN dir[c]))
    BY <1>1, LayersAre
  <2>2. DOMAIN dir[c] \subseteq Path
    <3>1. dir[c] # None /\ dir[c] \in Directory \cup {None}
      BY <1>1, <2>1 DEF PlanFits, AllPlanned
    <3> QED
      BY <3>1, DirectoryIs
  <2>3. Len(l) \in Nat /\ DOMAIN l = 1..Len(l) /\ \A j \in 1..Len(l) : l[j] \in Upload(DOMAIN dir[c])
    BY <2>1
  <2>4. \A j \in 1..Len(l) : Layer(c, j) \in T
    <3> SUFFICES ASSUME NEW j \in 1..Len(l)
                 PROVE  Layer(c, j) \in T
      OBVIOUS
    <3>1. l[j] \in Upload(DOMAIN dir[c])
      BY <2>3
    <3>2. l[j].path \in Path /\ l[j].digest \in Content \cup {None}
      BY <2>2, <3>1 DEF Upload
    <3> QED
      BY <2>1, <3>2 DEF Layer
  <2> HIDE DEF c, l, T
  <2>5. [j \in 1..Len(l) |-> Layer(c, j)] \in Seq(T)
    BY <2>3, <2>4
  <2> QED
    BY <2>3, <2>5 DEF c, l
<1>3. s \in [1..n -> Seq(T)] /\ \A k \in 1..n : s[k] = Piece(k)
  <2> HIDE DEF T, Piece
  <2> QED
    BY <1>2
<1>4. \A m \in 0..n : LayersTo(m) = UpTo(s, m)
  <2> SUFFICES ASSUME NEW m \in 0..n
               PROVE  LayersTo(m) = UpTo(s, m)
    OBVIOUS
  <2>1. \A k \in 1..m : k \in 1..n
    OBVIOUS
  <2>2. [k \in 1..m |-> Piece(k)] = [k \in 1..m |-> s[k]]
    BY <1>3, <2>1
  <2>3. LayersTo(m) = FlattenSeq([k \in 1..m |-> Piece(k)])
    BY DEF LayersTo, Layer
  <2> QED
    BY <2>2, <2>3 DEF UpTo
<1>5. AllLayers = FlattenSeq(s) /\ UpTo(s, n) = FlattenSeq(s)
  <2>1. n \in 0..n
    BY <1>1
  <2>2. UpTo(s, n) = FlattenSeq(s)
    BY <1>1, <1>3, FlattenParts
  <2> QED
    BY <1>4, <2>1, <2>2 DEF AllLayers
<1> HIDE DEF s, Piece, T
<1>6. InPlace(s, n) /\ \A m \in 0..n : UpTo(s, m) \in Seq(T) /\ Len(UpTo(s, m)) \in Nat
  BY <1>1, <1>3, FlattenParts
<1>7. \A m \in 0..n : Start(m + 1) = Len(UpTo(s, m)) /\ Start(m + 1) \in Nat
  <2> SUFFICES ASSUME NEW m \in 0..n
               PROVE  Start(m + 1) = Len(UpTo(s, m)) /\ Start(m + 1) \in Nat
    OBVIOUS
  <2>1. (m + 1) - 1 = m
    OBVIOUS
  <2>2. Start(m + 1) = Len(LayersTo(m))
    BY <2>1 DEF Start
  <2> QED
    BY <1>4, <1>6, <2>2
<1>8. \A k \in 1..n : /\ Start(k) = Len(UpTo(s, k - 1)) /\ Start(k) \in Nat
                      /\ Start(k + 1) = Len(UpTo(s, k))
  <2> SUFFICES ASSUME NEW k \in 1..n
               PROVE  /\ Start(k) = Len(UpTo(s, k - 1)) /\ Start(k) \in Nat
                      /\ Start(k + 1) = Len(UpTo(s, k))
    OBVIOUS
  <2>1. k \in 0..n /\ k - 1 \in 0..n /\ (k - 1) + 1 = k
    OBVIOUS
  <2> QED
    BY <1>7, <2>1
<1>9. \A k \in 1..n : Len(s[k]) = Len(LayersOf(list[k]))
                        /\ \A j \in 1..Len(LayersOf(list[k])) : s[k][j] = Layer(list[k], j)
  BY <1>2, <1>3
<1>10. AllLayers \in Seq(T)
  <2>1. n \in 0..n
    BY <1>1
  <2> QED
    BY <1>5, <1>6, <2>1
<1>11. Start(1) \in Nat
  <2>1. 0 \in 0..n /\ 0 + 1 = 1
    BY <1>1
  <2> QED
    BY <1>7, <2>1
<1>12. ASSUME NEW k \in 1..n
       PROVE  /\ Start(k) \in Nat /\ Start(k + 1) = Start(k) + Len(LayersOf(list[k]))
              /\ Start(k + 1) <= Len(AllLayers)
              /\ \A j \in 1..Len(LayersOf(list[k])) : AllLayers[Start(k) + j] = Layer(list[k], j)
  <2>1. /\ Len(UpTo(s, k)) = Len(UpTo(s, k - 1)) + Len(s[k])
        /\ Len(UpTo(s, k)) <= Len(AllLayers)
        /\ \A j \in 1..Len(s[k]) : AllLayers[Len(UpTo(s, k - 1)) + j] = s[k][j]
    BY <1>5, <1>6 DEF InPlace
  <2>2. /\ Start(k) = Len(UpTo(s, k - 1)) /\ Start(k) \in Nat /\ Start(k + 1) = Len(UpTo(s, k))
        /\ Len(s[k]) = Len(LayersOf(list[k]))
        /\ \A j \in 1..Len(LayersOf(list[k])) : s[k][j] = Layer(list[k], j)
    BY <1>8, <1>9
  <2> QED
    BY <2>1, <2>2, Zenon
<1>13. ASSUME NEW i \in DOMAIN AllLayers
       PROVE  \E k \in 1..n : \E j \in 1..Len(LayersOf(list[k])) :
                 i = Start(k) + j /\ AllLayers[i] = Layer(list[k], j)
  <2>1. PICK k \in 1..n : \E j \in 1..Len(s[k]) :
            i = Len(UpTo(s, k - 1)) + j /\ AllLayers[i] = s[k][j]
    BY <1>5, <1>6 DEF InPlace
  <2>2. PICK j \in 1..Len(s[k]) : i = Len(UpTo(s, k - 1)) + j /\ AllLayers[i] = s[k][j]
    BY <2>1
  <2>3. Start(k) = Len(UpTo(s, k - 1)) /\ j \in 1..Len(LayersOf(list[k])) /\ s[k][j] = Layer(list[k], j)
    BY <1>8, <1>9, <2>2
  <2> QED
    BY <2>2, <2>3
<1> QED
  BY <1>1, <1>10, <1>11, <1>12, <1>13 DEF T

\* listFiles lists each of finitely many files once.
LEMMA SortedIs ==
    ASSUME NEW P, IsFiniteSet(P)
    PROVE  /\ Sorted(P) \in Seq(P) /\ Range(Sorted(P)) = P
           /\ \A i, k \in DOMAIN Sorted(P) : Sorted(P)[i] = Sorted(P)[k] => i = k
<1> DEFINE q == SetToSeq(P)
<1>1. /\ \E n \in Nat : DOMAIN q = 1..n
      /\ \A i \in DOMAIN q : q[i] \in P
      /\ \A p \in P : \E i \in DOMAIN q : q[i] = p
      /\ \A i, k \in DOMAIN q : q[i] = q[k] => i = k
  BY SequenceOf
<1>2. \E f : q = [i \in DOMAIN q |-> f[i]]
  <2>1. q \in [1..Cardinality(P) -> P]
    <3>1. Cardinality(P) \in Nat /\ ExistsBijection(1..Cardinality(P), P)
      BY FS_CardinalityType
    <3>2. \E f \in [1..Cardinality(P) -> P] : IsInjective(f)
      BY <3>1 DEF ExistsBijection, Bijection, Injection
    <3> QED
      BY <3>2 DEF SetToSeq
  <2> HIDE DEF q
  <2>2. q = [i \in DOMAIN q |-> q[i]]
    BY <2>1
  <2> QED
    BY <2>2
<1> HIDE DEF q
<1>3. q \in Seq(P)
  <2>1. PICK n \in Nat : DOMAIN q = 1..n
    BY <1>1
  <2>2. q = [i \in 1..n |-> q[i]]
    BY <1>2, <2>1
  <2>3. q \in [1..n -> P]
    BY <1>1, <2>1, <2>2
  <2> QED
    BY <2>1, <2>3
<1>4. Range(q) = P
  BY <1>1 DEF Range
<1> QED
  BY <1>1, <1>3, <1>4 DEF Sorted, q

\* What a directory holds, when a component of it is planned.
LEMMA DirectoryHolds ==
    ASSUME DirsHeld, Began, NEW c \in Ref, dir[c] # None
    PROVE  /\ dir[c] \in Directory /\ IsFiniteSet(DOMAIN dir[c]) /\ DOMAIN dir[c] \subseteq Path
           /\ \A p \in DOMAIN dir[c] : dir[c][p] \in Content /\ dir[c][p] \in held[c][p]
<1>1. dir[c] \in Directory
  BY DEF DirsHeld
<1>2. dir[c] \in [DOMAIN dir[c] -> Content]
  BY <1>1, DirectoryIs
<1>3. \A p \in DOMAIN dir[c] : dir[c][p] \in Content
  BY <1>2
<1>4. \A p \in DOMAIN dir[c] : dir[c][p] \in held[c][p]
  BY DEF DirsHeld, HoldsOn
<1> QED
  BY <1>1, <1>3, <1>4, DirectoryIs

\* A model, or a component in bomify's own format: each file is an extra.
LEMMA FilesPlanFits ==
    ASSUME DirsHeld, Began, NEW c \in Ref, dir[c] # None
    PROVE  PlanFits(c, FilesPlan(c, dir[c])) /\ PlanNames(FilesPlan(c, dir[c]))
<1> DEFINE plan == FilesPlan(c, dir[c])
           P == DOMAIN dir[c]
<1>1. /\ plan.format \in {"model", "bomify"} /\ plan.uploads = <<>> /\ plan.files = <<>>
      /\ plan.extras = Sorted(P)
  BY DEF FilesPlan, Planned
<1>2. IsFiniteSet(P)
  BY DirectoryHolds
<1> HIDE DEF plan, P
<1>3. /\ Sorted(P) \in Seq(P) /\ Range(Sorted(P)) = P
      /\ \A i, k \in DOMAIN Sorted(P) : Sorted(P)[i] = Sorted(P)[k] => i = k
  BY <1>2, SortedIs
<1>4. DOMAIN plan.files = {} /\ DOMAIN plan.uploads = {} /\ plan.uploads \in Seq([path : P, digest : Content])
  BY <1>1
<1>5. PlanFits(c, plan)
  BY <1>1, <1>3, <1>4 DEF PlanFits, P
<1>6. PlanNames(plan)
  BY <1>1, <1>4 DEF PlanNames
<1> QED
  BY <1>5, <1>6 DEF plan

\* What a plugin packed: a file is one of the blobs that its manifest names, or an
\* extra.
LEMMA PackedPlanFits ==
    ASSUME DirsHeld, Began, Truthful, NEW c \in Ref, dir[c] # None,
           NEW a \in Answers[c], a # None, a.manifest # None,
           Sound(a, dir[c]), Describes(a, dir[c])
    PROVE  PlanFits(c, PackedPlan(a, dir[c])) /\ PlanNames(PackedPlan(a, dir[c]))
<1> DEFINE f == dir[c]
           P == DOMAIN f
           H == held[c]
           m == a.manifest
           all == {m} \cup Range(a.blobs)
           claimed == Claimed(a, f)
           paths == {x[1] : x \in claimed}
           upload(b) == IF b.path = None \/ b.manifest THEN <<>>
                        ELSE <<[path |-> b.path, digest |-> DigestOf(b, f)]>>
           ups == [i \in DOMAIN a.blobs |-> upload(a.blobs[i])]
           plan == PackedPlan(a, f)
           Fit == {u \in [path : P, digest : Content] : u.digest \in H[u.path]}
<1>1. /\ plan.format = "packed" /\ plan.manifest = DigestOf(m, f)
      /\ plan.uploads = FlattenSeq(ups)
      /\ plan.files = [p \in paths |-> (CHOOSE x \in claimed : x[1] = p)[2]]
      /\ plan.extras = Sorted(P \ paths)
  BY DEF PackedPlan, Planned
<1>2. IsFiniteSet(P) /\ \A p \in P : f[p] \in Content /\ f[p] \in H[p]
  BY DirectoryHolds
<1>3. a.blobs \in Seq(Blob) /\ m \in Blob
  BY PackAssumption
<1>4. \A b \in all : b \in Blob /\ b.says = None
  <2>1. m.says = None /\ \A i \in DOMAIN a.blobs : a.blobs[i].says = None /\ a.blobs[i] \in Blob
    BY <1>3 DEF Truthful
  <2> QED
    BY <1>3, <2>1 DEF Range
<1>5. \A b \in all : /\ (b.path = None) # (b.data = None)
                     /\ b.path # None => b.path \in P
  BY DEF Sound
<1>6. \A b \in all : /\ b.path # None => b.path \in P /\ DigestOf(b, f) = f[b.path]
                     /\ DigestOf(b, f) \in Content
  <2> SUFFICES ASSUME NEW b \in all
               PROVE  /\ b.path # None => b.path \in P /\ DigestOf(b, f) = f[b.path]
                      /\ DigestOf(b, f) \in Content
    OBVIOUS
  <2>1. b \in Blob /\ b.says = None /\ b.data \in Content \cup {None}
    BY <1>4 DEF Blob
  <2>2. CASE b.path = None
    <3>1. b.data \in Content
      BY <1>5, <2>1, <2>2
    <3>2. DigestOf(b, f) = b.data
      BY <2>2 DEF DigestOf
    <3> QED
      BY <2>2, <3>1, <3>2
  <2>3. CASE b.path # None
    <3>1. DigestOf(b, f) = f[b.path]
      BY <2>1, <2>3 DEF DigestOf
    <3> QED
      BY <1>2, <1>5, <2>3, <3>1
  <2> QED
    BY <2>2, <2>3
<1>7. \A x \in claimed : \E b \in all : /\ b.path # None /\ x = <<b.path, DigestOf(b, f)>>
                                        /\ x[1] = b.path /\ x[2] = DigestOf(b, f)
  BY DEF Claimed
<1>8. Reach(DigestOf(m, f)) = {DigestOf(b, f) : b \in Range(a.blobs)} \cup {DigestOf(m, f)}
  BY DEF Describes
<1>9. \A b \in all : DigestOf(b, f) \in Reach(DigestOf(m, f))
  BY <1>8
<1>10. paths \subseteq P
  BY <1>6, <1>7
<1>11. ASSUME NEW p \in paths
       PROVE  plan.files[p] \in H[p] /\ plan.files[p] \in Reach(DigestOf(m, f))
  <2> DEFINE y == CHOOSE x \in claimed : x[1] = p
  <2>1. \E x \in claimed : x[1] = p
    OBVIOUS
  <2>2. y \in claimed /\ y[1] = p
    BY <2>1
  <2>3. plan.files[p] = y[2]
    BY <1>1
  <2> HIDE DEF y, claimed, paths
  <2>4. PICK b \in all : b.path # None /\ y[1] = b.path /\ y[2] = DigestOf(b, f)
    BY <1>7, <2>2
  <2>5. y[2] = f[p] /\ p \in P
    BY <1>6, <2>2, <2>4
  <2> QED
    BY <1>2, <1>9, <2>3, <2>4, <2>5
<1>12. DOMAIN plan.files = paths
  BY <1>1
<1>13. plan.uploads \in Seq(Fit)
  <2>1. PICK n \in Nat : DOMAIN a.blobs = 1..n
    BY <1>3, LenProperties
  <2>2. \A i \in 1..n : a.blobs[i] \in all
    BY <2>1 DEF Range
  <2>3. ASSUME NEW b \in all
        PROVE  upload(b) \in Seq(Fit)
    <3>1. <<>> \in Seq(Fit)
      OBVIOUS
    <3>2. CASE b.path = None \/ b.manifest
      <4>1. upload(b) = <<>>
        BY <3>2
      <4> QED
        BY <3>1, <4>1
    <3>3. CASE ~(b.path = None \/ b.manifest)
      <4> DEFINE u == [path |-> b.path, digest |-> DigestOf(b, f)]
      <4>1. u \in Fit
        BY <1>2, <1>6, <3>3
      <4>2. upload(b) = <<u>>
        BY <3>3
      <4> HIDE DEF u, upload, Fit
      <4> QED
        BY <4>1, <4>2
    <3> QED
      BY <3>2, <3>3
  <2>4. ups \in [1..n -> Seq(Fit)]
    <3> HIDE DEF upload, all, Fit
    <3> QED
      BY <2>1, <2>2, <2>3
  <2> HIDE DEF ups, Fit, plan, all, claimed, paths, upload
  <2>5. FlattenSeq(ups) \in Seq(Fit)
    BY <2>4, FlattenHolds
  <2> QED
    BY <1>1, <2>5
<1>14. /\ Sorted(P \ paths) \in Seq(P \ paths) /\ Range(Sorted(P \ paths)) = P \ paths
       /\ \A i, k \in DOMAIN Sorted(P \ paths) : Sorted(P \ paths)[i] = Sorted(P \ paths)[k] => i = k
  <2>1. IsFiniteSet(P \ paths)
    BY <1>2, FS_Difference
  <2> HIDE DEF P, paths
  <2> QED
    BY <2>1, SortedIs
<1>15. DigestOf(m, f) \in Content
  BY <1>6
<1> HIDE DEF plan, paths, P, H, Fit, f, m, ups
<1>16. /\ plan.uploads \in Seq([path : P, digest : Content])
       /\ \A i \in DOMAIN plan.uploads : plan.uploads[i].digest \in H[plan.uploads[i].path]
  <2>1. Fit \subseteq [path : P, digest : Content] /\ \A u \in Fit : u.digest \in H[u.path]
    BY DEF Fit
  <2>2. \A i \in DOMAIN plan.uploads : plan.uploads[i] \in Fit
    BY <1>13
  <2> QED
    BY <1>13, <2>1, <2>2, SeqMonotonic
<1>17. Sorted(P \ paths) \in Seq(P)
  <2>1. P \ paths \subseteq P
    OBVIOUS
  <2> QED
    BY <1>14, <2>1, SeqMonotonic
<1>18. PlanFits(c, plan)
  BY <1>1, <1>10, <1>11, <1>12, <1>14, <1>16, <1>17 DEF PlanFits, P, H, f
<1>19. PlanNames(plan)
  BY <1>1, <1>11, <1>12, <1>15 DEF PlanNames
<1> QED
  BY <1>18, <1>19 DEF plan, f

-----------------------------------------------------------------------------
(* What stays so.                                                          *)

\* Nothing leaves the registry, and what a file has held it has held.
Grows ==
    /\ registry \subseteq registry'
    /\ \A c \in Ref : dir[c] # None =>
        /\ dir'[c] # None /\ DOMAIN dir'[c] = DOMAIN dir[c]
        /\ \A p \in DOMAIN dir[c] : held[c][p] \subseteq held'[c][p]

\* A plan fits while its component's files only grow.
LEMMA PlanStays ==
    ASSUME NEW c \in Ref, PlanFits(c, plans[c]), plans'[c] = plans[c], Grows
    PROVE  PlanFits(c, plans[c])'
<1> DEFINE u == plans[c].uploads
           f == plans[c].files
           P == DOMAIN dir[c]
<1>1. /\ dir'[c] # None /\ DOMAIN dir'[c] = P /\ \A p \in P : held[c][p] \subseteq held'[c][p]
  BY DEF PlanFits, Grows
<1>2. /\ u \in Seq([path : P, digest : Content])
      /\ \A i \in DOMAIN u : u[i].digest \in held[c][u[i].path]
      /\ DOMAIN f \subseteq P /\ \A p \in DOMAIN f : f[p] \in held[c][p]
  BY DEF PlanFits
<1> HIDE DEF u, f, P
<1>3. \A i \in DOMAIN u : u[i].path \in P
  <2>1. \A i \in DOMAIN u : u[i] \in [path : P, digest : Content]
    BY <1>2, LenProperties
  <2> QED
    BY <2>1
<1>4. /\ \A i \in DOMAIN u : u[i].digest \in held'[c][u[i].path]
      /\ \A p \in DOMAIN f : f[p] \in held'[c][p]
  BY <1>1, <1>2, <1>3
<1> QED
  BY <1>1, <1>2, <1>4 DEF PlanFits, u, f, P

\* A component's manifest has all its files, while they only grow.
LEMMA MadeStays ==
    ASSUME NEW k \in DOMAIN list, list \in Seq(Ref), Made(k),
           list' = list, manifests'[k] = manifests[k], Grows
    PROVE  Made(k)'
<1> DEFINE c == list[k]
           m == manifests[k]
           kept == KeptBy(m.desc) \cup Range(m.extras)
<1>1. c \in Ref
  OBVIOUS
<1>2. /\ dir[c] # None /\ DOMAIN m.files = DOMAIN dir[c] /\ m.extras \in Seq(Content)
      /\ \A p \in DOMAIN dir[c] : m.files[p] \in held[c][p] \cap registry \cap kept
  BY DEF Made
<1>3. /\ dir'[c] # None /\ DOMAIN dir'[c] = DOMAIN dir[c] /\ registry \subseteq registry'
      /\ \A p \in DOMAIN dir[c] : held[c][p] \subseteq held'[c][p]
  BY <1>1, <1>2 DEF Grows
<1>4. kept' = kept
  BY DEF KeptBy, Reach, Reaches
<1> HIDE DEF kept
<1>5. \A p \in DOMAIN dir[c] : m.files[p] \in held'[c][p] \cap registry' \cap kept'
  BY <1>2, <1>3, <1>4
<1> QED
  BY <1>2, <1>3, <1>5 DEF Made, kept

\* So have all manifests.
LEMMA ManifestsStay ==
    ASSUME ManifestsMade, list \in Seq(Ref), list' = list, manifests' = manifests, Grows,
           step' = "sites" => Len(manifests) = Len(list)
    PROVE  ManifestsMade'
<1>1. \A k \in DOMAIN manifests : k \in DOMAIN list
  BY DEF ManifestsMade
<1>2. \A k \in DOMAIN manifests : Made(k)'
  BY <1>1, MadeStays DEF ManifestsMade
<1> QED
  BY <1>2 DEF ManifestsMade

\* An index is of its manifests while they stay.
LEMMA IndexStays ==
    ASSUME Indexed, list' = list, manifests' = manifests, index' = index
    PROVE  Indexed'
<1>1. SBOMLayers' = SBOMLayers
  BY DEF SBOMLayers, FilesMap
<1> QED
  BY <1>1 DEF Indexed

-----------------------------------------------------------------------------
(* The registry.                                                           *)

Here == {d \in Content : Has(d)}

\* What has been copied as a manifest is there, with all it reaches.
LEMMA HereReaches ==
    ASSUME StoreCloses, NEW d \in Here
    PROVE  Reach(d) \subseteq Here /\ Here \subseteq registry
<1>1. Closed(Here) /\ Here \subseteq Content /\ d \in Content
  BY DEF StoreCloses, Here
<1>2. Here \subseteq registry
  BY DEF StoreCloses, Here, Has
<1> QED
  BY <1>1, <1>2, ReachIsLeast

\* A blob that is pushed leaves manifests as they are.
LEMMA BlobsLeaveManifests ==
    ASSUME StoreCloses, registry \subseteq registry', complete' = complete
    PROVE  StoreCloses'
<1>1. \A d \in Content : Has(d) => Has(d)'
  BY DEF Has
<1>2. ASSUME NEW d \in Content, Has(d)', NEW e \in Refers[d]
      PROVE  e \in Content /\ Has(e)'
  <2>1. Has(d)
    BY <1>2 DEF Has
  <2>2. e \in Content /\ Has(e)
    BY <1>2, <2>1 DEF StoreCloses, Closed
  <2> QED
    BY <1>1, <2>2
<1>3. Closed({d \in Content : Has(d)})'
  BY <1>2 DEF Closed
<1> QED
  BY <1>3 DEF StoreCloses

\* CopyGraph leaves the manifest and all it reaches in the registry.
LEMMA CopiesReach ==
    ASSUME StoreCloses, NEW d \in Content,
           registry' = registry \cup Copied(d), complete' = complete \cup (Copied(d) \cap Content)
    PROVE  StoreCloses' /\ Reach(d) \subseteq registry'
<1>1. d \in Reach(d) /\ Reach(d) \subseteq Content /\ Closed(Reach(d))
  BY ReachIsLeast
<1>2. Closed(Here) /\ complete \subseteq Content \cap registry
  BY DEF StoreCloses, Here
<1>3. CASE Has(d)
  <2>1. Copied(d) = {}
    BY <1>3 DEF Copied
  <2>2. d \in Here
    BY <1>3 DEF Here
  <2>3. Reach(d) \subseteq registry
    BY <2>2, HereReaches
  <2> QED
    BY <2>1, <2>3, BlobsLeaveManifests
<1>4. CASE ~Has(d)
  <2>1. Copied(d) = {e \in Reach(d) : ~Has(e)}
    BY <1>4 DEF Copied
  <2>2. \A e \in Content : Has(e)' <=> Has(e) \/ e \in Reach(d)
    <3> SUFFICES ASSUME NEW e \in Content
                 PROVE  Has(e)' <=> Has(e) \/ e \in Copied(d)
      BY <2>1
    <3>1. CASE Refers[e] = {}
      BY <3>1 DEF Has
    <3>2. CASE Refers[e] # {}
      BY <3>2 DEF Has
    <3> QED
      BY <3>1, <3>2
  <2>3. Here' = Here \cup Reach(d)
    BY <1>1, <2>2 DEF Here
  <2>4. Closed(Here \cup Reach(d))
    BY <1>1, <1>2 DEF Closed
  <2>5. complete' \subseteq Content \cap registry'
    BY <1>2
  <2>6. Here' \subseteq registry'
    BY <2>5 DEF Here, Has
  <2>7. Closed(Here')
    BY <2>3, <2>4
  <2>8. StoreCloses'
    BY <2>5, <2>7 DEF StoreCloses, Here, Closed
  <2> QED
    BY <2>3, <2>6, <2>8
<1> QED
  BY <1>3, <1>4

-----------------------------------------------------------------------------
(* What an index tells.                                                    *)

\* The files map and the extra files, as the SBOM's manifest has them.
LEMMA SBOMLayersAre ==
    ASSUME ManifestsMade
    PROVE  /\ SBOMLayers[1].names = FilesMap /\ 1 \in DOMAIN SBOMLayers
           /\ \A k \in DOMAIN manifests : Range(manifests[k].extras) \subseteq Range(SBOMLayers)
<1> DEFINE first == Manifest("files", None, FilesMap)
           s == [k \in DOMAIN manifests |-> manifests[k].extras]
           rest == FlattenSeq(s)
<1>1. PICK n \in Nat : DOMAIN manifests = 1..n
  BY LenProperties DEF ManifestsMade
<1>2. \A k \in 1..n : manifests[k].extras \in Seq(Content)
  BY <1>1 DEF ManifestsMade, Made
<1>3. s \in [1..n -> Seq(Content)] /\ \A k \in 1..n : s[k] = manifests[k].extras
  BY <1>1, <1>2
<1>4. SBOMLayers = <<first>> \o rest
  BY DEF SBOMLayers
<1> HIDE DEF s, first
<1>5. rest \in Seq(Content) /\ \A k \in 1..n : Range(s[k]) \subseteq Range(rest)
  BY <1>3, FlattenHolds
<1> HIDE DEF rest
<1> DEFINE T == Content \cup {first}
<1>6. <<first>> \in Seq(T) /\ rest \in Seq(T) /\ Len(<<first>>) = 1 /\ <<first>>[1] = first
  <2>1. first \in T /\ Content \subseteq T
    OBVIOUS
  <2> HIDE DEF T
  <2> QED
    BY <1>5, <2>1, SeqMonotonic
<1> HIDE DEF T
<1>7. /\ SBOMLayers \in Seq(T) /\ Len(SBOMLayers) = 1 + Len(rest) /\ Len(rest) \in Nat
      /\ \A i \in 1..(1 + Len(rest)) : SBOMLayers[i] = IF i <= 1 THEN <<first>>[i] ELSE rest[i - 1]
  BY <1>4, <1>6, ConcatProperties, LenProperties
<1>8. 1 \in DOMAIN SBOMLayers /\ SBOMLayers[1] = first
  BY <1>6, <1>7
<1>9. Range(rest) \subseteq Range(SBOMLayers)
  <2> SUFFICES ASSUME NEW i \in DOMAIN rest
               PROVE  \E j \in DOMAIN SBOMLayers : SBOMLayers[j] = rest[i]
    BY DEF Range
  <2>1. i \in 1..Len(rest) /\ DOMAIN SBOMLayers = 1..(1 + Len(rest))
    BY <1>5, <1>7
  <2>2. i + 1 \in 1..(1 + Len(rest)) /\ ~(i + 1 <= 1) /\ (i + 1) - 1 = i
    BY <1>7, <2>1
  <2>3. SBOMLayers[i + 1] = rest[i]
    BY <1>7, <2>2
  <2> QED
    BY <2>1, <2>2, <2>3
<1>10. SBOMLayers[1].names = FilesMap
  BY <1>8 DEF first, Manifest
<1> QED
  BY <1>1, <1>3, <1>5, <1>8, <1>9, <1>10

\* The files map names each component once, and has its files where they are.
LEMMA IndexTells ==
    ASSUME ListsOnce, ManifestsMade, Indexed, NEW c \in Range(list)
    PROVE  /\ c \in Ref /\ Cardinality(MapOf(c)) = 1 /\ dir[c] # None
           /\ DOMAIN MapEntry(c) = DOMAIN dir[c]
           /\ \A p \in DOMAIN dir[c] : MapEntry(c)[p] \in held[c][p] \cap registry \cap Kept
<1>1. PICK k \in DOMAIN list : list[k] = c
  BY DEF Range
<1>2. list \in Seq(Ref) /\ Len(manifests) = Len(list) /\ DOMAIN manifests = DOMAIN list
  <2>1. list \in Seq(Ref) /\ manifests \in Seq(Range(manifests)) /\ Len(manifests) = Len(list)
    BY DEF ListsOnce, ManifestsMade, Indexed
  <2> QED
    BY <2>1, LenProperties
<1>3. c \in Ref
  BY <1>1, <1>2
<1> DEFINE names == index.sbom[1].names
<1>4. names = FilesMap
  BY SBOMLayersAre DEF Indexed
<1>5. DOMAIN names = DOMAIN list /\ \A i \in DOMAIN list : names[i].of = list[i] /\ names[i].files = manifests[i].files
  BY <1>4 DEF FilesMap
<1>6. MapOf(c) = {k}
  <2>1. \A i \in DOMAIN list : list[i] = c => i = k
    BY <1>1 DEF ListsOnce
  <2> HIDE DEF names
  <2>2. {i \in DOMAIN names : names[i].of = c} = {k}
    BY <1>1, <1>5, <2>1
  <2> QED
    BY <2>2 DEF MapOf, names
<1>7. Cardinality(MapOf(c)) = 1
  BY <1>6, FS_Singleton
<1>8. MapEntry(c) = manifests[k].files
  <2>1. (CHOOSE i \in MapOf(c) : TRUE) = k
    BY <1>6
  <2> QED
    BY <1>5, <2>1 DEF MapEntry
<1>9. Made(k) /\ k \in DOMAIN manifests
  BY <1>2 DEF ManifestsMade
<1>10. Range(manifests[k].extras) \subseteq Kept /\ KeptBy(manifests[k].desc) \subseteq Kept
  <2>1. Range(manifests[k].extras) \subseteq Range(index.sbom)
    BY <1>9, SBOMLayersAre DEF Indexed
  <2>2. k \in DOMAIN index.entries /\ index.entries[k].desc = manifests[k].desc
    BY DEF Indexed
  <2>3. KeptBy(manifests[k].desc) \subseteq UNION {KeptBy(index.entries[i].desc) : i \in DOMAIN index.entries}
    BY <2>2
  <2> QED
    BY <2>1, <2>3 DEF Kept
<1> QED
  BY <1>1, <1>3, <1>7, <1>8, <1>9, <1>10 DEF Made

\* What the invariant is for.
LEMMA PackedWholeHolds ==
    ASSUME PackInv
    PROVE  PackedWhole
<1>1. ListsOnce /\ ManifestsMade /\ (index # None => Indexed) /\ step # "unrestorable"
  BY DEF PackInv, IndexFits, Steps
<1> QED
  BY <1>1, IndexTells DEF PackedWhole

-----------------------------------------------------------------------------
(* The steps.                                                              *)

\* Until its index is made, a push's layers and manifests stay.
LEMMA AllLayersStay ==
    ASSUME list' = list, plans' = plans
    PROVE  AllLayers' = AllLayers /\ \A k : Start(k)' = Start(k)
BY DEF AllLayers, LayersTo, LayersOf, Start

\* A step that neither plans nor uploads, nor makes a manifest.
LEMMA QuietStep ==
    ASSUME PackInv, UNCHANGED <<sbom, list, directories, packing, complete>>,
           registry \subseteq registry',
           step' \in Steps, step' = "build" <=> step = "build", Began' => Began,
           step' \in {"plan", "upload"} => step' = step,
           step' = "sites" => Len(manifests) = Len(list),
           index' # None \/ step' \in Settled => Indexed', step' \in Unindexed => index' = None,
           step' = "restore" => Restoring'
    PROVE  PackInv'
<1>1. /\ sbom' = sbom /\ list' = list /\ dir' = dir /\ held' = held
      /\ plans' = plans /\ layers' = layers /\ hashed' = hashed /\ manifests' = manifests
  BY DEF directories, packing
<1>2. ListsOnce /\ DirsHeld /\ PlansFit /\ LayersFit /\ StoreCloses /\ ManifestsMade
  BY DEF PackInv
<1>3. Grows
  BY <1>1 DEF Grows
<1>4. ListsOnce'
  BY <1>1, <1>2 DEF ListsOnce
<1>5. DirsHeld'
  BY <1>1, <1>2 DEF DirsHeld, HoldsOn
<1>6. PlansFit'
  <2>1. step' \in {"plan", "upload"} => \A c \in DOMAIN plans : PlanFits(c, plans[c]) /\ PlanNames(plans[c])
    BY <1>2 DEF PlansFit
  <2>2. step' \in {"plan", "upload"} => \A c \in DOMAIN plans : PlanFits(c, plans[c])' /\ PlanNames(plans[c])'
    BY <1>1, <2>1 DEF PlanFits, PlanNames, Reach, Reaches
  <2> QED
    BY <1>1, <1>2, <2>2 DEF PlansFit
<1>7. LayersFit'
  <2>1. AllLayers' = AllLayers
    BY <1>1, AllLayersStay
  <2>2. \A i \in DOMAIN AllLayers : LayerFits(i) => LayerFits(i)'
    BY <1>1, <2>1 DEF LayerFits
  <2> QED
    BY <1>1, <1>2, <2>1, <2>2 DEF LayersFit
<1>8. StoreCloses'
  BY <1>2, BlobsLeaveManifests
<1>9. ManifestsMade'
  BY <1>1, <1>2, <1>3, ManifestsStay DEF ListsOnce
<1>10. IndexFits'
  BY <1>1 DEF IndexFits, Settled
<1> QED
  BY <1>4, <1>5, <1>6, <1>7, <1>8, <1>9, <1>10 DEF PackInv

\* A step that leaves the index too.
LEMMA StepOn ==
    ASSUME PackInv, UNCHANGED <<sbom, list, directories, packing, complete, index>>,
           registry \subseteq registry',
           step' \in Steps, step' = "build" <=> step = "build", Began' => Began,
           step' \in {"plan", "upload"} => step' = step,
           step' = "sites" => Len(manifests) = Len(list),
           step' \in Unindexed => index = None,
           step' \in Settled => Indexed,
           step' = "restore" => Restoring'
    PROVE  PackInv'
<1>1. index # None => Indexed
  BY DEF PackInv, IndexFits
<1>2. index' # None \/ step' \in Settled => Indexed'
  BY <1>1, IndexStays DEF packing
<1> QED
  BY <1>2, QuietStep

\* A push that fails leaves all else as it was.
LEMMA FailStep ==
    ASSUME PackInv, Fail, Began
    PROVE  PackInv'
<1>1. /\ step' = "failed" /\ UNCHANGED <<sbom, list, directories, packing, complete, index>>
      /\ registry' = registry
  BY DEF Fail, asked, stored, beside
<1> QED
  BY <1>1, StepOn DEF Steps, Unindexed, Settled, Began

\* What Compose does, and what leaves all of Packing as it was.
LEMMA OtherStep ==
    ASSUME PackInv, UNCHANGED packVars
    PROVE  PackInv'
<1>1. /\ step' = step /\ UNCHANGED <<sbom, list, directories, packing, complete, index>>
      /\ registry' = registry /\ restored' = restored
  BY DEF packVars, asked, stored, beside
<1>2. /\ step \in Steps
      /\ step = "sites" => Len(manifests) = Len(list)
      /\ step \in Unindexed => index = None
      /\ step \in Settled => Indexed
      /\ step = "restore" => Restoring
  BY DEF PackInv, ManifestsMade, IndexFits
<1> QED
  BY <1>1, <1>2, StepOn DEF Began, Restoring

\* The steps that change only what the push does next, or what is beside it.
LEMMA LaterSteps ==
    ASSUME PackInv,
           PushSBOM \/ TagSite \/ TagPackage \/ Stop \/ Restored
              \/ (\E c \in Ref : PullComponent(c)) \/ (\E p \in Path : RestoreFile(p))
    PROVE  PackInv'
<1>1. /\ index # None => Indexed
      /\ step = "restore" => Restoring
      /\ step \in Settled => Indexed
      /\ step \in Unindexed => index = None
      /\ ListsOnce /\ ManifestsMade
  BY DEF PackInv, IndexFits
<1>2. CASE PushSBOM
  <2>1. /\ step = "upload" /\ step' = "sites" /\ Len(manifests) = Len(list)
        /\ UNCHANGED <<sbom, list, directories, packing, complete, index>>
        /\ registry \subseteq registry'
    BY <1>2 DEF PushSBOM, asked, beside
  <2> QED
    BY <1>1, <2>1, StepOn DEF Began, Unindexed, Settled, Steps
<1>3. CASE TagSite
  <2>1. /\ step = "tag" /\ step' = step /\ registry' = registry
        /\ UNCHANGED <<sbom, list, directories, packing, complete, index>>
    BY <1>3 DEF TagSite, asked, stored
  <2> QED
    BY <1>1, <2>1, StepOn DEF Began, Unindexed, Settled, Steps
<1>4. CASE TagPackage
  <2>1. /\ step = "tag" /\ step' = "pushed" /\ registry' = registry
        /\ UNCHANGED <<sbom, list, directories, packing, complete, index>>
    BY <1>4 DEF TagPackage, asked, stored, beside
  <2> QED
    BY <1>1, <2>1, StepOn DEF Began, Unindexed, Settled, Steps
<1>5. CASE Stop
  <2>1. Fail /\ Began
    BY <1>5 DEF Stop, Began
  <2> QED
    BY <2>1, FailStep
<1>6. CASE Restored
  <2>1. /\ step = "restore" /\ step' = "restored" /\ registry' = registry
        /\ UNCHANGED <<sbom, list, directories, packing, complete, index>>
    BY <1>6 DEF Restored, asked, stored, beside
  <2> QED
    BY <1>1, <2>1, StepOn DEF Began, Unindexed, Settled, Steps
<1>7. ASSUME NEW c \in Ref, PullComponent(c)
      PROVE  PackInv'
  <2>1. /\ step = "pushed" /\ c \in Range(list) /\ registry' = registry
        /\ restored' = [of |-> c, files |-> <<>>]
        /\ step' = IF Cardinality(MapOf(c)) = 1 THEN "restore" ELSE "unrestorable"
        /\ UNCHANGED <<sbom, list, directories, packing, complete, index>>
    BY <1>7 DEF PullComponent, asked, stored, beside
  <2>2. step' = "restore"
    BY <1>1, <2>1, IndexTells DEF Settled
  <2>3. Restoring'
    BY <2>1 DEF Restoring
  <2> QED
    BY <1>1, <2>1, <2>2, <2>3, StepOn DEF Began, Unindexed, Settled, Steps
<1>8. ASSUME NEW p \in Path, RestoreFile(p)
      PROVE  PackInv'
  <2>1. /\ step = "restore" /\ p \in DOMAIN Mapped /\ registry' = registry
        /\ UNCHANGED <<sbom, list, directories, packing, complete, index>>
        /\ IF Mapped[p] \in registry
           THEN /\ restored' = [restored EXCEPT !.files = @ @@ (p :> Mapped[p])]
                /\ UNCHANGED step
           ELSE /\ step' = "unrestorable"
                /\ UNCHANGED restored
    BY <1>8 DEF RestoreFile, asked, stored, beside
  <2>2. restored.of \in Range(list) /\ Mapped = MapEntry(restored.of)
    BY <1>1, <2>1 DEF Restoring, Mapped, MapEntry
  <2>3. Mapped[p] \in registry
    BY <1>1, <2>1, <2>2, IndexTells DEF Settled
  <2> DEFINE files == restored.files @@ (p :> Mapped[p])
  <2>4. restored' = [restored EXCEPT !.files = files] /\ step' = "restore"
    BY <2>1, <2>3
  <2> HIDE DEF files
  <2>5. restored = [of |-> restored.of, files |-> restored.files]
    BY <1>1, <2>1 DEF Restoring
  <2>6. restored' = [of |-> restored.of, files |-> files]
    BY <2>4, <2>5
  <2>7. Restoring'
    BY <2>1, <2>2, <2>6 DEF Restoring
  <2> QED
    BY <1>1, <2>1, <2>4, <2>7, StepOn DEF Began, Unindexed, Settled, Steps
<1> QED
  BY <1>2, <1>3, <1>4, <1>5, <1>6, <1>7, <1>8

\* pushIndex makes the index of the manifests that there are.
LEMMA PushIndexStep ==
    ASSUME PackInv, PushIndex
    PROVE  PackInv'
<1>1. step = "sites" /\ Len(manifests) = Len(list) /\ list \in Seq(Ref)
  BY DEF PushIndex, PackInv, ManifestsMade, ListsOnce
<1>2. \/ Fail
      \/ /\ UNCHANGED <<asked, directories, packing, placed, stored, restored>>
         /\ step' \in {"tag", "pushed"} /\ Indexed'
  <2>1. CASE Fail
    BY <2>1
  <2>2. CASE ~Fail
    <3> DEFINE plan == PlannedSites
               unplaced == {c \in Range(list) : SitedBy(plan, c) = {}}
               entry(k) == [purl |-> list[k], desc |-> manifests[k].desc,
                            reference |-> IF list[k] \in unplaced THEN None
                                          ELSE Reference(plan[CHOOSE i \in SitedBy(plan, list[k]) : TRUE].site)]
    <3>1. /\ index' = [sbom |-> SBOMLayers, entries |-> [k \in DOMAIN list |-> entry(k)]]
          /\ step' = IF tagging THEN "tag" ELSE "pushed"
          /\ UNCHANGED <<asked, directories, packing, placed, stored, restored>>
      BY <2>2 DEF PushIndex
    <3>2. \A k : entry(k).desc = manifests[k].desc
      OBVIOUS
    <3> HIDE DEF entry, unplaced, plan
    <3>3. /\ index'.sbom = SBOMLayers /\ DOMAIN index'.entries = DOMAIN list
          /\ \A k \in DOMAIN list : index'.entries[k].desc = manifests[k].desc
      BY <3>1, <3>2
    <3>4. list' = list /\ manifests' = manifests
      BY <3>1 DEF asked, packing
    <3>5. SBOMLayers' = SBOMLayers
      BY <3>4 DEF SBOMLayers, FilesMap
    <3>6. Indexed'
      BY <1>1, <3>3, <3>4, <3>5 DEF Indexed
    <3> QED
      BY <3>1, <3>6
  <2> QED
    BY <2>1, <2>2
<1>3. CASE Fail
  BY <1>1, <1>3, FailStep DEF Began
<1>4. CASE ~Fail
  <2>1. /\ UNCHANGED <<sbom, list, directories, packing, complete>> /\ registry' = registry
    BY <1>2, <1>4 DEF asked, stored
  <2> QED
    BY <1>1, <1>2, <1>4, <2>1, QuietStep DEF Began, Unindexed, Settled, Steps
<1> QED
  BY <1>3, <1>4

\* Where plans stay and files only grow, plans fit still.
LEMMA PlansStay ==
    ASSUME PlansFit, plans' = plans, list' = list, Grows,
           step' \in {"plan", "upload"} => step' = step, list \in Seq(Ref)
    PROVE  PlansFit'
<1>1. ASSUME step' \in {"plan", "upload"}, NEW c \in DOMAIN plans
      PROVE  PlanFits(c, plans[c])' /\ PlanNames(plans[c])'
  <2>1. PlanFits(c, plans[c]) /\ PlanNames(plans[c]) /\ c \in Range(list)
    BY <1>1 DEF PlansFit
  <2>2. c \in Ref
    BY <2>1 DEF Range
  <2>3. PlanNames(plans[c])'
    BY <2>1 DEF PlanNames, Reach, Reaches
  <2> QED
    BY <2>1, <2>2, <2>3, PlanStays
<1> QED
  BY <1>1 DEF PlansFit

\* Each layer is of a file of a component of the list.
LEMMA LayerIsOf ==
    ASSUME AllPlanned, NEW i \in DOMAIN AllLayers
    PROVE  LET c == AllLayers[i].of
               p == AllLayers[i].path
           IN  /\ c \in Ref /\ dir[c] # None /\ p \in DOMAIN dir[c]
               /\ AllLayers[i].digest \in {None} \cup held[c][p]
<1>1. PICK k \in DOMAIN list : \E j \in 1..Len(LayersOf(list[k])) : AllLayers[i] = Layer(list[k], j)
  BY LayersInPlace
<1> DEFINE c == list[k]
           l == LayersOf(c)
           up == plans[c].uploads
           ex == plans[c].extras
<1>2. PICK j \in 1..Len(l) : AllLayers[i] = Layer(c, j)
  BY <1>1
<1>3. c \in Ref /\ PlanFits(c, plans[c])
  BY DEF AllPlanned
<1>4. /\ dir[c] # None
      /\ up \in Seq([path : DOMAIN dir[c], digest : Content]) /\ ex \in Seq(DOMAIN dir[c])
      /\ \A m \in DOMAIN up : up[m].digest \in held[c][up[m].path]
  BY <1>3 DEF PlanFits
<1>5. /\ Len(l) = Len(up) + Len(ex)
      /\ \A m \in 1..Len(up) : l[m] = up[m]
      /\ \A m \in 1..Len(ex) : l[Len(up) + m] = [path |-> ex[m], digest |-> None]
  BY <1>3, LayersAre
<1>6. AllLayers[i].of = c /\ AllLayers[i].path = l[j].path /\ AllLayers[i].digest = l[j].digest
  BY <1>2 DEF Layer
<1> HIDE DEF l, up, ex
<1>7. l[j].path \in DOMAIN dir[c] /\ l[j].digest \in {None} \cup held[c][l[j].path]
  <2> DEFINE P == DOMAIN dir[c]
             Known == [path : P, digest : Content]
  <2>4. up \in Seq(Known) /\ ex \in Seq(P)
    BY <1>4
  <2> HIDE DEF P, Known
  <2>1. Len(up) \in Nat /\ Len(ex) \in Nat /\ DOMAIN up = 1..Len(up) /\ DOMAIN ex = 1..Len(ex)
    BY <1>4, LenProperties
  <2>2. CASE j <= Len(up)
    <3>1. j \in 1..Len(up)
      BY <2>1, <2>2
    <3>2. up[j] \in Known
      BY <2>1, <2>4, <3>1
    <3>3. up[j].path \in P /\ l[j] = up[j]
      BY <1>5, <3>1, <3>2 DEF Known
    <3> QED
      BY <1>4, <2>1, <3>1, <3>3 DEF P
  <2>3. CASE ~(j <= Len(up))
    <3> DEFINE m == j - Len(up)
    <3>1. m \in 1..Len(ex) /\ Len(up) + m = j
      BY <1>5, <2>1, <2>3
    <3> HIDE DEF m
    <3>2. ex[m] \in P
      BY <2>1, <2>4, <3>1
    <3>3. l[j] = [path |-> ex[m], digest |-> None]
      BY <1>5, <3>1
    <3> QED
      BY <3>2, <3>3 DEF P
  <2> QED
    BY <2>2, <2>3
<1> QED
  BY <1>3, <1>4, <1>6, <1>7

\* Once all plans are made, each component has one.
LEMMA PlansAreMade ==
    ASSUME ListsOnce, DirsHeld, PlansFit, step \in {"plan", "upload"}, DOMAIN plans = Range(list)
    PROVE  AllPlanned
BY DEF ListsOnce, DirsHeld, PlansFit, AllPlanned, Range

\* While blobs are uploaded.
LEMMA UploadStep ==
    ASSUME PackInv, step = "upload", registry \subseteq registry',
           UNCHANGED <<step, sbom, list, directories, plans, manifests, complete, index>>,
           DOMAIN layers' = DOMAIN layers, DOMAIN hashed' = DOMAIN hashed,
           \A i \in DOMAIN AllLayers : LayerFits(i)'
    PROVE  PackInv'
<1>1. /\ step' = step /\ sbom' = sbom /\ list' = list /\ dir' = dir /\ held' = held
      /\ plans' = plans /\ manifests' = manifests /\ complete' = complete /\ index' = index
  BY DEF directories
<1>2. /\ ListsOnce /\ DirsHeld /\ PlansFit /\ LayersFit /\ StoreCloses /\ ManifestsMade /\ IndexFits
      /\ list \in Seq(Ref)
  BY DEF PackInv, ListsOnce
<1>3. Grows
  BY <1>1 DEF Grows
<1>4. ListsOnce'
  BY <1>1, <1>2 DEF ListsOnce
<1>5. DirsHeld'
  BY <1>1, <1>2 DEF DirsHeld, HoldsOn, Began
<1>6. PlansFit'
  BY <1>1, <1>2, <1>3, PlansStay
<1>7. LayersFit'
  <2>1. AllLayers' = AllLayers
    BY <1>1, AllLayersStay
  <2> QED
    BY <1>2, <2>1 DEF LayersFit
<1>8. StoreCloses'
  BY <1>1, <1>2, BlobsLeaveManifests
<1>9. ManifestsMade'
  BY <1>1, <1>2, <1>3, ManifestsStay
<1>10. IndexFits'
  BY <1>1, <1>2 DEF IndexFits, Unindexed, Settled
<1>11. step' \in Steps
  BY <1>1 DEF PackInv
<1> QED
  BY <1>4, <1>5, <1>6, <1>7, <1>8, <1>9, <1>10, <1>11 DEF PackInv

\* What is hashed, and pushed, of a file is what it held.
LEMMA BlobSteps ==
    ASSUME PackInv, NEW i \in DOMAIN layers, HashLayer(i) \/ PushLayer(i)
    PROVE  PackInv'
<1>1. step = "upload"
  BY DEF HashLayer, PushLayer, Running
<1>2. /\ ListsOnce /\ DirsHeld /\ PlansFit /\ LayersFit /\ DOMAIN plans = Range(list)
      /\ DOMAIN layers = DOMAIN AllLayers /\ DOMAIN hashed = DOMAIN AllLayers
      /\ \A k \in DOMAIN AllLayers : LayerFits(k)
  BY <1>1 DEF PackInv, PlansFit, LayersFit
<1>3. AllPlanned
  BY <1>1, <1>2, PlansAreMade
<1> DEFINE c == AllLayers[i].of
           p == AllLayers[i].path
<1>4. c \in Ref /\ dir[c] # None /\ p \in DOMAIN dir[c]
  BY <1>2, <1>3, LayerIsOf
<1>5. FileOf(i) \in held[c][p]
  BY <1>1, <1>2, <1>4, DirectoryHolds DEF FileOf, Began
<1>6. CASE HashLayer(i)
  <2>1. /\ hashed' = [hashed EXCEPT ![i] = FileOf(i)] /\ layers' = layers /\ registry' = registry
        /\ UNCHANGED <<step, sbom, list, directories, plans, manifests, complete, index>>
    BY <1>6 DEF HashLayer, asked, stored, beside
  <2>2. list' = list /\ plans' = plans /\ held' = held
    BY <2>1 DEF directories
  <2>3. AllLayers' = AllLayers
    BY <2>2, AllLayersStay
  <2>4. ASSUME NEW k \in DOMAIN AllLayers
        PROVE  LayerFits(k)'
    <3>1. hashed'[k] = IF k = i THEN FileOf(i) ELSE hashed[k]
      BY <1>2, <2>1
    <3>2. LayerFits(k)
      BY <1>2
    <3> QED
      BY <1>5, <2>1, <2>2, <2>3, <3>1, <3>2 DEF LayerFits
  <2> QED
    BY <1>1, <2>1, <2>4, UploadStep
<1>7. CASE PushLayer(i) /\ ~Fail
  <2>1. /\ layers' = [layers EXCEPT ![i] = hashed[i]] /\ hashed' = hashed /\ hashed[i] # None
        /\ registry' = registry \cup {hashed[i]}
        /\ UNCHANGED <<step, sbom, list, directories, plans, manifests, complete, index>>
    BY <1>7 DEF PushLayer, asked, beside
  <2>2. list' = list /\ plans' = plans /\ held' = held
    BY <2>1 DEF directories
  <2>3. AllLayers' = AllLayers
    BY <2>2, AllLayersStay
  <2>4. ASSUME NEW k \in DOMAIN AllLayers
        PROVE  LayerFits(k)'
    <3>1. layers'[k] = IF k = i THEN hashed[i] ELSE layers[k]
      BY <1>2, <2>1
    <3>2. LayerFits(k) /\ LayerFits(i)
      BY <1>2
    <3> QED
      BY <2>1, <2>2, <2>3, <3>1, <3>2 DEF LayerFits
  <2> QED
    BY <1>1, <2>1, <2>4, UploadStep
<1>8. CASE Fail
  BY <1>1, <1>8, FailStep DEF Began
<1> QED
  BY <1>6, <1>7, <1>8

\* The layers that are to be uploaded have the digests that the plans know.
LEMMA StartUploadsStep ==
    ASSUME PackInv, StartUploads
    PROVE  PackInv'
<1>1. /\ step = "plan" /\ step' = "upload" /\ DOMAIN plans = Range(list)
      /\ layers' = [i \in DOMAIN AllLayers |-> None]
      /\ hashed' = [i \in DOMAIN AllLayers |-> AllLayers[i].digest]
      /\ UNCHANGED <<asked, directories, plans, manifests, beside, stored, restored>>
  BY DEF StartUploads
<1>2. /\ sbom' = sbom /\ list' = list /\ dir' = dir /\ held' = held
      /\ plans' = plans /\ manifests' = manifests /\ registry' = registry /\ complete' = complete
      /\ index' = index
  BY <1>1 DEF asked, directories, stored, beside
<1>3. /\ ListsOnce /\ DirsHeld /\ PlansFit /\ StoreCloses /\ ManifestsMade /\ IndexFits
      /\ list \in Seq(Ref)
  BY <1>1 DEF PackInv, ListsOnce
<1>4. AllPlanned /\ Grows
  BY <1>1, <1>2, <1>3, PlansAreMade DEF Grows
<1>5. ListsOnce'
  BY <1>1, <1>2, <1>3 DEF ListsOnce
<1>6. DirsHeld'
  BY <1>1, <1>2, <1>3 DEF DirsHeld, HoldsOn, Began
<1>7. PlansFit'
  <2>1. \A c \in DOMAIN plans : PlanFits(c, plans[c]) /\ PlanNames(plans[c])
    BY <1>1, <1>3 DEF PlansFit
  <2>2. \A c \in DOMAIN plans : PlanFits(c, plans[c])' /\ PlanNames(plans[c])'
    BY <1>2, <2>1 DEF PlanFits, PlanNames, Reach, Reaches
  <2> QED
    BY <1>1, <1>2, <2>2 DEF PlansFit
<1>8. LayersFit'
  <2>1. AllLayers' = AllLayers
    BY <1>2, AllLayersStay
  <2>2. ASSUME NEW i \in DOMAIN AllLayers
        PROVE  LayerFits(i)'
    <3>1. AllLayers[i].digest \in {None} \cup held[AllLayers[i].of][AllLayers[i].path]
      BY <1>4, LayerIsOf
    <3>2. hashed'[i] = AllLayers[i].digest /\ layers'[i] = None
      BY <1>1
    <3> QED
      BY <1>2, <2>1, <3>1, <3>2 DEF LayerFits
  <2> QED
    BY <1>1, <2>1, <2>2 DEF LayersFit
<1>9. StoreCloses'
  BY <1>2, <1>3, BlobsLeaveManifests
<1>10. ManifestsMade'
  BY <1>1, <1>2, <1>3, <1>4, ManifestsStay
<1>11. IndexFits'
  BY <1>1, <1>2, <1>3 DEF IndexFits, Unindexed, Settled
<1> QED
  BY <1>1, <1>5, <1>6, <1>7, <1>8, <1>9, <1>10, <1>11 DEF PackInv, Steps

\* A push lists each component of the SBOM once, and starts afresh.
LEMMA PushStep ==
    ASSUME PackInv, NEW tags, Push(tags)
    PROVE  PackInv'
<1>1. /\ step # "build" /\ step' = "plan" /\ list' = Unique(sbom)
      /\ held' = [c \in Ref |-> IF dir[c] = None THEN <<>> ELSE [p \in DOMAIN dir[c] |-> {dir[c][p]}]]
      /\ plans' = <<>> /\ manifests' = <<>> /\ index' = None
      /\ sbom' = sbom /\ dir' = dir /\ registry' = registry /\ complete' = complete
  BY DEF Push, stored
<1>2. ListsOnce /\ StoreCloses /\ sbom \in Seq(Ref) /\ dir \in [Ref -> Directory \cup {None}]
  BY <1>1 DEF PackInv, ListsOnce, DirsHeld
<1>3. ListsOnce'
  BY <1>1, <1>2, UniqueIsOnce DEF ListsOnce
<1>4. DirsHeld'
  <2> DEFINE h(c) == IF dir[c] = None THEN <<>> ELSE [p \in DOMAIN dir[c] |-> {dir[c][p]}]
  <2>1. \A c : h(c) = [p \in DOMAIN h(c) |-> h(c)[p]]
    <3> SUFFICES ASSUME NEW c
                 PROVE  h(c) = [p \in DOMAIN h(c) |-> h(c)[p]]
      OBVIOUS
    <3>1. CASE dir[c] = None
      BY <3>1
    <3>2. CASE dir[c] # None
      BY <3>2
    <3> QED
      BY <3>1, <3>2
  <2>2. ASSUME NEW c \in Ref
        PROVE  HoldsOn(c)'
    <3>1. ASSUME dir[c] # None
          PROVE  /\ DOMAIN h(c) = DOMAIN dir[c]
                 /\ \A p \in DOMAIN dir[c] : dir[c][p] \in h(c)[p] /\ h(c)[p] \subseteq Content
      <4>1. dir[c] \in Directory
        BY <1>2, <3>1
      <4>2. dir[c] \in [DOMAIN dir[c] -> Content]
        BY <4>1, DirectoryIs
      <4>3. h(c) = [p \in DOMAIN dir[c] |-> {dir[c][p]}]
        BY <3>1
      <4> QED
        BY <4>2, <4>3
    <3>2. held'[c] = h(c)
      BY <1>1
    <3> HIDE DEF h
    <3> QED
      BY <1>1, <3>1, <3>2 DEF HoldsOn
  <2>3. \A c \in Ref : held'[c] = h(c)
    BY <1>1
  <2>4. held' = [c \in Ref |-> h(c)]
    BY <1>1
  <2> HIDE DEF h
  <2>5. held' = [c \in Ref |-> [p \in DOMAIN held'[c] |-> held'[c][p]]]
    BY <2>1, <2>3, <2>4
  <2> QED
    BY <1>1, <1>2, <2>2, <2>5 DEF DirsHeld
<1>5. PlansFit'
  BY <1>1 DEF PlansFit
<1>6. LayersFit'
  BY <1>1 DEF LayersFit
<1>7. StoreCloses'
  BY <1>1, <1>2, BlobsLeaveManifests
<1>8. ManifestsMade'
  <2>1. list' \in Seq(Ref)
    BY <1>3 DEF ListsOnce
  <2>2. Len(list') \in Nat
    BY <2>1
  <2>3. <<>> \in Seq(Range(<<>>)) /\ Len(<<>>) = 0 /\ DOMAIN <<>> = {}
    OBVIOUS
  <2> QED
    BY <1>1, <2>2, <2>3 DEF ManifestsMade
<1>9. IndexFits'
  BY <1>1 DEF IndexFits, Settled
<1> QED
  BY <1>1, <1>3, <1>4, <1>5, <1>6, <1>7, <1>8, <1>9 DEF PackInv, Steps

\* A component's plan is of its files as they are then.
LEMMA PlanStep ==
    ASSUME PackInv, Truthful, Faithful, NEW c \in Ref, PlanComponent(c)
    PROVE  PackInv'
<1>1. step = "plan" /\ c \in Range(list) /\ c \notin DOMAIN plans
  BY DEF PlanComponent
<1>2. CASE Fail
  BY <1>1, <1>2, FailStep DEF Began
<1>3. CASE ~Fail
  <2>1. dir[c] # None
    BY <1>3 DEF PlanComponent
  <2> DEFINE packs(a) == a # None /\ a.manifest # None
             Plan(a) == IF packs(a) THEN PackedPlan(a, dir[c]) ELSE FilesPlan(c, dir[c])
  <2>0. PICK a \in AnswersOf(c) :
          /\ packs(a) => Sound(a, dir[c])
          /\ plans' = [d \in DOMAIN plans \cup {c} |->
                            CASE d # c -> plans[d]
                              [] d = c /\ packs(a) -> PackedPlan(a, dir[c])
                              [] d = c /\ ~packs(a) -> FilesPlan(c, dir[c])]
          /\ UNCHANGED <<step, asked, directories, layers, hashed, manifests, beside, stored, restored>>
    BY <1>3, <2>1, Zenon DEF PlanComponent
  <2>2. a \in Answers[c] /\ (packs(a) => Sound(a, dir[c]) /\ Describes(a, dir[c]))
    BY <2>0 DEF AnswersOf
  <2>3. /\ DOMAIN plans' = DOMAIN plans \cup {c} /\ plans'[c] = Plan(a)
        /\ \A d \in DOMAIN plans : plans'[d] = plans[d]
    BY <1>1, <2>0
  <2>4. /\ step' = step /\ sbom' = sbom /\ list' = list /\ dir' = dir /\ held' = held
        /\ manifests' = manifests /\ registry' = registry /\ complete' = complete /\ index' = index
    BY <2>0 DEF asked, directories, beside, stored
  <2>5. /\ ListsOnce /\ DirsHeld /\ PlansFit /\ StoreCloses /\ ManifestsMade /\ IndexFits
        /\ list \in Seq(Ref) /\ Began
    BY <1>1 DEF PackInv, ListsOnce, Began
  <2>6. PlanFits(c, Plan(a)) /\ PlanNames(Plan(a))
    <3>1. CASE packs(a)
      BY <2>1, <2>2, <2>5, <3>1, PackedPlanFits
    <3>2. CASE ~packs(a)
      BY <2>1, <2>5, <3>2, FilesPlanFits
    <3> QED
      BY <3>1, <3>2
  <2> HIDE DEF Plan
  <2>7. Grows
    BY <2>4 DEF Grows
  <2>8. ListsOnce'
    BY <1>1, <2>4, <2>5 DEF ListsOnce
  <2>9. DirsHeld'
    BY <2>4, <2>5 DEF DirsHeld, HoldsOn, Began
  <2>10. PlansFit'
    <3>1. ASSUME NEW d \in DOMAIN plans'
          PROVE  PlanFits(d, plans[d])' /\ PlanNames(plans[d])'
      <4>1. PlanFits(d, plans'[d]) /\ PlanNames(plans'[d])
        BY <1>1, <2>3, <2>5, <2>6 DEF PlansFit
      <4> QED
        BY <2>4, <4>1 DEF PlanFits, PlanNames, Reach, Reaches
    <3> QED
      BY <1>1, <2>3, <2>4, <2>5, <3>1 DEF PlansFit
  <2>11. LayersFit'
    BY <1>1, <2>4 DEF LayersFit
  <2>12. StoreCloses'
    BY <2>4, <2>5, BlobsLeaveManifests
  <2>13. ManifestsMade'
    BY <1>1, <2>4, <2>5, <2>7, ManifestsStay
  <2>14. IndexFits'
    BY <1>1, <2>4, <2>5 DEF IndexFits, Unindexed, Settled
  <2> QED
    BY <1>1, <2>4, <2>8, <2>9, <2>10, <2>11, <2>12, <2>13, <2>14 DEF PackInv, Steps
<1> QED
  BY <1>2, <1>3

\* A file that is rewritten has held both.
LEMMA RewriteStep ==
    ASSUME PackInv, NEW c \in Ref, NEW p \in Path, NEW content \in Rewrites, Rewrite(c, p, content)
    PROVE  PackInv'
<1>1. /\ step \in {"plan", "upload", "failed", "pushed"} /\ step' = step
      /\ dir[c] # None /\ p \in DOMAIN dir[c]
      /\ dir' = [dir EXCEPT ![c][p] = content]
      /\ held' = [held EXCEPT ![c][p] = @ \cup {content}]
      /\ sbom' = sbom /\ list' = list /\ plans' = plans /\ layers' = layers /\ hashed' = hashed
      /\ manifests' = manifests /\ registry' = registry /\ complete' = complete /\ index' = index
  BY DEF Rewrite, asked, packing, beside, stored
<1>2. /\ ListsOnce /\ DirsHeld /\ PlansFit /\ LayersFit /\ StoreCloses /\ ManifestsMade /\ IndexFits
      /\ list \in Seq(Ref) /\ Began
  BY <1>1 DEF PackInv, ListsOnce, Began
<1>3. /\ dir \in [Ref -> Directory \cup {None}] /\ content \in Content
      /\ held = [d \in Ref |-> [q \in DOMAIN held[d] |-> held[d][q]]]
      /\ \A d \in Ref : HoldsOn(d)
  BY <1>2, PackAssumption DEF DirsHeld
<1>4. dir[c] \in Directory /\ IsFiniteSet(DOMAIN dir[c]) /\ DOMAIN dir[c] \subseteq Path
      /\ dir[c] \in [DOMAIN dir[c] -> Content]
  BY <1>1, <1>3, DirectoryIs
<1>5. /\ DOMAIN held[c] = DOMAIN dir[c]
      /\ \A q \in DOMAIN dir[c] : dir[c][q] \in held[c][q] /\ held[c][q] \subseteq Content
  BY <1>1, <1>3 DEF HoldsOn
<1> DEFINE new == [dir[c] EXCEPT ![p] = content]
           holds == [held[c] EXCEPT ![p] = @ \cup {content}]
<1>6. /\ DOMAIN new = DOMAIN dir[c] /\ new \in [DOMAIN dir[c] -> Content]
      /\ \A q \in DOMAIN dir[c] : new[q] = IF q = p THEN content ELSE dir[c][q]
  BY <1>1, <1>3, <1>4
<1>7. new \in Directory
  BY <1>4, <1>6 DEF Directory
<1>8. /\ DOMAIN holds = DOMAIN dir[c]
      /\ \A q \in DOMAIN dir[c] : holds[q] = IF q = p THEN held[c][q] \cup {content} ELSE held[c][q]
      /\ holds = [q \in DOMAIN holds |-> holds[q]]
  BY <1>1, <1>5
<1>9. dir' = [dir EXCEPT ![c] = new] /\ held' = [held EXCEPT ![c] = holds]
  BY <1>1
<1> HIDE DEF new, holds
<1>10. /\ dir' \in [Ref -> Directory \cup {None}]
       /\ \A d \in Ref : dir'[d] = IF d = c THEN new ELSE dir[d]
       /\ DOMAIN held' = Ref /\ \A d \in Ref : held'[d] = IF d = c THEN holds ELSE held[d]
  BY <1>3, <1>7, <1>9
<1>11. new # None
  BY <1>7, PackAssumption
<1>12. Grows
  <2>1. \A q \in DOMAIN dir[c] : held[c][q] \subseteq holds[q]
    BY <1>8
  <2> QED
    BY <1>1, <1>6, <1>10, <1>11, <2>1 DEF Grows
<1>13. ListsOnce'
  BY <1>1, <1>2 DEF ListsOnce
<1>14. DirsHeld'
  <2>1. ASSUME NEW d \in Ref
        PROVE  /\ HoldsOn(d)'
               /\ held'[d] = [q \in DOMAIN held'[d] |-> held'[d][q]]
    <3>1. CASE d = c
      <4>1. dir'[d] = new /\ held'[d] = holds
        BY <1>10, <3>1
      <4>2. \A q \in DOMAIN dir[c] : new[q] \in holds[q] /\ holds[q] \subseteq Content
        BY <1>3, <1>5, <1>6, <1>8
      <4> QED
        BY <1>6, <1>8, <4>1, <4>2 DEF HoldsOn
    <3>2. CASE d # c
      <4>1. dir'[d] = dir[d] /\ held'[d] = held[d]
        BY <1>10, <3>2
      <4>2. held[d] = [q \in DOMAIN held[d] |-> held[d][q]] /\ HoldsOn(d)
        BY <1>3
      <4> QED
        BY <4>1, <4>2 DEF HoldsOn
    <3> QED
      BY <3>1, <3>2
  <2>2. held' = [d \in Ref |-> held'[d]]
    <3>1. held = [d \in Ref |-> held[d]]
      BY <1>3
    <3> QED
      BY <1>9, <3>1
  <2>3. held' = [d \in Ref |-> [q \in DOMAIN held'[d] |-> held'[d][q]]]
    BY <2>1, <2>2
  <2> QED
    BY <1>10, <2>1, <2>3 DEF DirsHeld
<1>15. PlansFit'
  BY <1>1, <1>2, <1>12, PlansStay
<1>16. LayersFit'
  <2> SUFFICES ASSUME step = "upload"
               PROVE  LayersFit'
    BY <1>1 DEF LayersFit
  <2>1. AllPlanned
    BY <1>2, PlansAreMade DEF PlansFit
  <2>2. AllLayers' = AllLayers
    BY <1>1, AllLayersStay
  <2>3. ASSUME NEW i \in DOMAIN AllLayers
        PROVE  LayerFits(i)'
    <3>1. LayerFits(i)
      BY <1>2 DEF LayersFit
    <3>2. held[AllLayers[i].of][AllLayers[i].path] \subseteq held'[AllLayers[i].of][AllLayers[i].path]
      BY <1>12, <2>1, LayerIsOf DEF Grows
    <3> QED
      BY <1>1, <2>2, <3>1, <3>2 DEF LayerFits
  <2> QED
    BY <1>1, <1>2, <2>2, <2>3 DEF LayersFit
<1>17. StoreCloses'
  BY <1>1, <1>2, BlobsLeaveManifests
<1>18. ManifestsMade'
  BY <1>1, <1>2, <1>12, ManifestsStay
<1>19. IndexFits'
  <2>1. step \in Settled => Indexed
    BY <1>2 DEF IndexFits
  <2>2. index # None => Indexed
    BY <1>2 DEF IndexFits
  <2>3. index' # None \/ step' \in Settled => Indexed'
    BY <1>1, <2>1, <2>2, IndexStays
  <2> QED
    BY <1>1, <1>2, <2>3 DEF IndexFits
<1> QED
  BY <1>1, <1>13, <1>14, <1>15, <1>16, <1>17, <1>18, <1>19 DEF PackInv, Steps

\* What was uploaded for component k, and what of it are its extras.
Descs(k) == SubSeq(layers, Start(k) + 1, Start(k + 1))
Own(k) == SubSeq(Descs(k), Len(plans[list[k]].uploads) + 1, Len(Descs(k)))

\* A part of a list.
LEMMA SliceIs ==
    ASSUME NEW T, NEW s, NEW a \in Nat, NEW n \in Nat, \A i \in 1..n : s[a + i] \in T
    PROVE  /\ SubSeq(s, a + 1, a + n) \in Seq(T) /\ Len(SubSeq(s, a + 1, a + n)) = n
           /\ \A i \in 1..n : SubSeq(s, a + 1, a + n)[i] = s[a + i]
<1> DEFINE b == a + 1
           c == a + n
<1>1. b \in Int /\ c \in Int /\ c - b + 1 = n /\ (b <= c <=> n # 0)
  OBVIOUS
<1>2. \A i \in b..c : s[i] \in T
  <2> SUFFICES ASSUME NEW i \in b..c
               PROVE  s[i] \in T
    OBVIOUS
  <2>1. i - a \in 1..n /\ a + (i - a) = i
    OBVIOUS
  <2> QED
    BY <2>1
<1>3. \A i \in 1..n : b + i - 1 = a + i
  OBVIOUS
<1> HIDE DEF b, c
<1>4. /\ SubSeq(s, b, c) \in Seq(T)
      /\ Len(SubSeq(s, b, c)) = IF b <= c THEN c - b + 1 ELSE 0
      /\ \A i \in 1..(c - b + 1) : SubSeq(s, b, c)[i] = s[b + i - 1]
  BY <1>1, <1>2, SubSeqProperties
<1>5. Len(SubSeq(s, b, c)) = n /\ \A i \in 1..n : SubSeq(s, b, c)[i] = s[a + i]
  BY <1>1, <1>3, <1>4
<1> QED
  BY <1>4, <1>5 DEF b, c

\* The length of a part and what stands in it, whatever the list holds.
LEMMA SliceAt ==
    ASSUME NEW s, NEW a \in Nat, NEW n \in Nat
    PROVE  /\ Len(SubSeq(s, a + 1, a + n)) = n
           /\ \A i \in 1..n : SubSeq(s, a + 1, a + n)[i] = s[a + i]
<1> DEFINE T == {s[a + i] : i \in 1..n}
<1>1. \A i \in 1..n : s[a + i] \in T
  OBVIOUS
<1> HIDE DEF T
<1> QED
  BY <1>1, SliceIs

\* Each extra is uploaded as what its file held.
LEMMA OwnLayers ==
    ASSUME AllPlanned, DirsHeld, Began, NEW k \in DOMAIN list,
           DOMAIN layers = DOMAIN AllLayers, \A i \in DOMAIN AllLayers : LayerFits(i),
           None \notin Range(layers)
    PROVE  LET ex == plans[list[k]].extras
           IN  /\ Own(k) \in Seq(Content) /\ Len(Own(k)) = Len(ex) /\ Len(ex) \in Nat
               /\ \A j \in 1..Len(ex) : Own(k)[j] \in held[list[k]][ex[j]] \cap registry
<1> DEFINE c == list[k]
           l == LayersOf(c)
           up == plans[c].uploads
           ex == plans[c].extras
           a == Start(k)
<1>1. c \in Ref /\ PlanFits(c, plans[c])
  BY DEF AllPlanned
<1>2. /\ Len(l) = Len(up) + Len(ex) /\ Len(up) \in Nat /\ Len(ex) \in Nat
      /\ \A j \in 1..Len(ex) : l[Len(up) + j] = [path |-> ex[j], digest |-> None]
  BY <1>1, LayersAre, LenProperties DEF PlanFits
<1>3. /\ AllLayers \in Seq([of : Ref, path : Path, digest : Content \cup {None}])
      /\ a \in Nat /\ Start(k + 1) = a + Len(l) /\ Start(k + 1) <= Len(AllLayers)
      /\ \A j \in 1..Len(l) : AllLayers[a + j] = Layer(c, j)
  BY LayersInPlace
<1>4. ASSUME NEW j \in 1..Len(l)
      PROVE  /\ layers[a + j] \in held[c][l[j].path] \cap registry
             /\ layers[a + j] \in Content
  <2> HIDE DEF a, l, up, ex
  <2>1. DOMAIN AllLayers = 1..Len(AllLayers) /\ Len(AllLayers) \in Nat /\ Len(l) \in Nat
    <3>1. DOMAIN AllLayers = 1..Len(AllLayers) /\ Len(AllLayers) \in Nat
      BY <1>3, LenProperties
    <3> QED
      BY <1>2, <3>1
  <2>2. a + j \in DOMAIN AllLayers
    BY <1>3, <2>1
  <2>3. layers[a + j] # None
    BY <2>2 DEF Range
  <2>4. AllLayers[a + j] = Layer(c, j)
    BY <1>3
  <2>5. AllLayers[a + j].of = c /\ AllLayers[a + j].path = l[j].path
    BY <2>4 DEF Layer, l, c
  <2>6. layers[a + j] \in held[c][l[j].path] \cap registry
    BY <2>2, <2>3, <2>5 DEF LayerFits
  <2>7. dir[c] # None /\ l[j].path \in DOMAIN dir[c]
    BY <2>2, <2>5, LayerIsOf
  <2>8. held[c][l[j].path] \subseteq Content
    BY <1>1, <2>7 DEF DirsHeld, HoldsOn
  <2> QED
    BY <2>6, <2>8
<1> HIDE DEF c, l, up, ex, a
<1>5. /\ Len(Descs(k)) = Len(up) + Len(ex)
      /\ \A j \in 1..(Len(up) + Len(ex)) : Descs(k)[j] = layers[a + j]
  <2>1. Len(l) \in Nat /\ \A j \in 1..Len(l) : layers[a + j] \in Content
    BY <1>2, <1>4
  <2>2. Descs(k) = SubSeq(layers, a + 1, a + Len(l))
    BY <1>3 DEF Descs, a
  <2>3. Len(Descs(k)) = Len(l) /\ \A j \in 1..Len(l) : Descs(k)[j] = layers[a + j]
    <3>1. a \in Nat /\ Len(l) \in Nat
      BY <1>3, <2>1
    <3>2. /\ Len(SubSeq(layers, a + 1, a + Len(l))) = Len(l)
          /\ \A i \in 1..Len(l) : SubSeq(layers, a + 1, a + Len(l))[i] = layers[a + i]
      BY <3>1, SliceAt
    <3> QED
      BY <2>2, <3>2, Zenon
  <2> QED
    BY <1>2, <2>3
<1> DEFINE d == Descs(k)
           m == Len(up)
           n == Len(ex)
<1>6. /\ m \in Nat /\ n \in Nat /\ Len(d) = m + n /\ Own(k) = SubSeq(d, m + 1, m + n)
      /\ Len(l) = m + n /\ \A j \in 1..(m + n) : d[j] = layers[a + j]
      /\ \A j \in 1..n : l[m + j] = [path |-> ex[j], digest |-> None]
  BY <1>2, <1>5 DEF Own, up, c
<1> HIDE DEF d, m, n
<1>7. ASSUME NEW j \in 1..n
      PROVE  d[m + j] \in held[c][ex[j]] \cap registry /\ d[m + j] \in Content
  <2>1. m + j \in 1..(m + n)
    BY <1>6
  <2>2. d[m + j] = layers[a + (m + j)]
    BY <1>6, <2>1
  <2>3. l[m + j] = [path |-> ex[j], digest |-> None]
    BY <1>6
  <2>4. l[m + j].path = ex[j]
    BY <2>3
  <2>5. m + j \in 1..Len(l)
    BY <1>6, <2>1
  <2> QED
    BY <1>4, <2>2, <2>4, <2>5
<1>8. /\ Own(k) \in Seq(Content) /\ Len(Own(k)) = n
      /\ \A j \in 1..n : Own(k)[j] = d[m + j]
  <2>1. \A j \in 1..n : d[m + j] \in Content
    BY <1>7
  <2>2. m \in Nat /\ n \in Nat /\ Own(k) = SubSeq(d, m + 1, m + n)
    BY <1>6
  <2>3. /\ SubSeq(d, m + 1, m + n) \in Seq(Content) /\ Len(SubSeq(d, m + 1, m + n)) = n
        /\ \A j \in 1..n : SubSeq(d, m + 1, m + n)[j] = d[m + j]
    <3>1. \A i \in 1..n : d[m + i] \in Content
      BY <2>1
    <3>2. m \in Nat /\ n \in Nat
      BY <2>2
    <3>3. SubSeq(d, m + 1, m + n) \in Seq(Content)
      BY <3>1, <3>2, SliceIs
    <3> QED
      BY <3>2, <3>3, SliceAt
  <2> QED
    BY <2>2, <2>3, Zenon
<1>9. \A j \in 1..n : Own(k)[j] \in held[c][ex[j]] \cap registry
  BY <1>7, <1>8
<1> QED
  BY <1>6, <1>8, <1>9 DEF n, ex, c

\* The manifest that is made for component k, of its plan.
ConfigOf(k) ==
    IF plans[list[k]].format = "model" THEN Manifest("config", NameOf(list[k]), Descs(k)) ELSE Empty
DescOf(k) ==
    LET c == list[k] IN
    CASE plans[c].format = "packed" -> plans[c].manifest
      [] plans[c].format = "model" -> Manifest("model", NameOf(c), Titled(c, Own(k)))
      [] OTHER -> Manifest("bomify", IF Own(k) = <<>> THEN None ELSE c, Titled(c, Own(k)))
CopiedOf(k) ==
    IF plans[list[k]].format = "packed" THEN Copied(plans[list[k]].manifest) ELSE {DescOf(k), ConfigOf(k)}
EntryOf(k) ==
    [desc |-> DescOf(k), files |-> MapFiles(list[k], Own(k)),
     extras |-> IF plans[list[k]].format = "packed" THEN Own(k) ELSE <<>>]

\* What pushManifest does, but for a failure.
LEMMA PushManifestDoes ==
    ASSUME PushManifest, ~Fail
    PROVE  LET k == Len(manifests) + 1
           IN  /\ step = "upload" /\ None \notin Range(layers) /\ Len(manifests) < Len(list)
               /\ registry' = registry \cup CopiedOf(k)
               /\ complete' = complete \cup (CopiedOf(k) \cap Content)
               /\ manifests' = Append(manifests, EntryOf(k))
               /\ UNCHANGED <<step, asked, directories, plans, layers, hashed, beside, restored>>
BY DEF PushManifest, ConfigOf, DescOf, CopiedOf, EntryOf, Own, Descs

\* Each file of a component is in the manifest that is made, or an extra.
LEMMA FilesAreMapped ==
    ASSUME NEW k \in DOMAIN list, NEW plan, plan = plans[list[k]], PlanFits(list[k], plan),
           Own(k) \in Seq(Content), Len(Own(k)) = Len(plan.extras),
           \A j \in 1..Len(plan.extras) : Own(k)[j] \in held[list[k]][plan.extras[j]] \cap registry
    PROVE  LET map == MapFiles(list[k], Own(k))
           IN  /\ DOMAIN map = DOMAIN dir[list[k]]
               /\ \A p \in DOMAIN plan.files : map[p] = plan.files[p] /\ map[p] \in held[list[k]][p]
               /\ \A p \in DOMAIN dir[list[k]] \ DOMAIN plan.files :
                    \E j \in 1..Len(plan.extras) :
                        map[p] = Own(k)[j] /\ map[p] \in held[list[k]][p] \cap registry
<1> DEFINE c == list[k]
           ex == plan.extras
           f == plan.files
           P == DOMAIN dir[c]
           own == Own(k)
           At(p) == CHOOSE i \in DOMAIN ex : ex[i] = p
           map == MapFiles(c, own)
<1>1. /\ map = [p \in DOMAIN f \cup Range(ex) |-> IF p \in DOMAIN f THEN f[p] ELSE own[At(p)]]
  BY DEF MapFiles
<1>2. /\ DOMAIN f \subseteq P /\ (\A p \in DOMAIN f : f[p] \in held[c][p])
      /\ Range(ex) = P \ DOMAIN f /\ ex \in Seq(P)
  BY DEF PlanFits
<1> HIDE DEF map, f, P, ex
<1>3. DOMAIN map = P
  BY <1>1, <1>2
<1>4. \A p \in DOMAIN f : map[p] = f[p] /\ map[p] \in held[c][p]
  BY <1>1, <1>2
<1>5. ASSUME NEW p \in P \ DOMAIN f
      PROVE  \E j \in 1..Len(ex) : map[p] = own[j] /\ map[p] \in held[c][p] \cap registry
  <2>1. \E i \in DOMAIN ex : ex[i] = p
    BY <1>2 DEF Range
  <2>2. At(p) \in DOMAIN ex /\ ex[At(p)] = p
    BY <2>1
  <2>3. map[p] = own[At(p)]
    BY <1>1, <1>2
  <2> HIDE DEF At, own
  <2>4. At(p) \in 1..Len(ex)
    BY <1>2, <2>2, LenProperties
  <2>5. own[At(p)] \in held[c][p] \cap registry
    BY <2>2, <2>4 DEF own, ex, c
  <2> QED
    BY <2>3, <2>4, <2>5
<1> QED
  BY <1>3, <1>4, <1>5 DEF map, f, P, ex, own, c

\* bomify's own manifests keep the files that are extras.
LEMMA OwnManifestKeeps ==
    ASSUME Plain, NEW k, plans[list[k]].format \in {"model", "bomify"}, Own(k) \in Seq(Content),
           Len(Own(k)) = Len(plans[list[k]].extras)
    PROVE  /\ \A j \in 1..Len(Own(k)) : Own(k)[j] \in KeptBy(DescOf(k))
           /\ CopiedOf(k) \cap Content = {}
<1> DEFINE t == Titled(list[k], Own(k))
<1>1. \E kind, of : DescOf(k) = Manifest(kind, of, t)
  <2>1. CASE plans[list[k]].format = "model"
    BY <2>1 DEF DescOf
  <2>2. CASE plans[list[k]].format = "bomify"
    BY <2>2 DEF DescOf
  <2> QED
    BY <2>1, <2>2
<1>2. DescOf(k).names = t /\ DescOf(k) \notin Content
  BY <1>1 DEF Manifest, Plain
<1>3. ConfigOf(k) \notin Content
  <2>1. \E kind, of, names : ConfigOf(k) = Manifest(kind, of, names)
    BY DEF ConfigOf, Empty
  <2> QED
    BY <2>1 DEF Plain
<1>4. CopiedOf(k) = {DescOf(k), ConfigOf(k)}
  BY DEF CopiedOf
<1>5. KeptBy(DescOf(k)) = {u[2] : u \in Range(t)}
  BY <1>2 DEF KeptBy
<1>6. ASSUME NEW j \in 1..Len(Own(k))
      PROVE  Own(k)[j] \in KeptBy(DescOf(k))
  <2>1. DOMAIN Own(k) = 1..Len(Own(k))
    BY LenProperties
  <2>2. j \in DOMAIN t /\ t[j] = <<plans[list[k]].extras[j], Own(k)[j]>>
    BY <2>1 DEF Titled
  <2>3. t[j] \in Range(t) /\ t[j][2] = Own(k)[j]
    BY <2>2 DEF Range
  <2> QED
    BY <1>5, <2>3
<1> QED
  BY <1>2, <1>3, <1>4, <1>6

\* A manifest that is made has all its component's files, and is then there with
\* what it names.
LEMMA MakesManifest ==
    ASSUME AllPlanned, PlansFit, DirsHeld, Plain, LayersFit, StoreCloses,
           step = "upload", None \notin Range(layers), NEW k \in DOMAIN list,
           registry' = registry \cup CopiedOf(k), complete' = complete \cup (CopiedOf(k) \cap Content)
    PROVE  /\ StoreCloses'
           /\ EntryOf(k).extras \in Seq(Content)
           /\ DOMAIN EntryOf(k).files = DOMAIN dir[list[k]]
           /\ \A p \in DOMAIN dir[list[k]] :
                EntryOf(k).files[p] \in held[list[k]][p] \cap registry'
                    \cap (KeptBy(EntryOf(k).desc) \cup Range(EntryOf(k).extras))
<1> DEFINE c == list[k]
           plan == plans[c]
           own == Own(k)
           map == MapFiles(c, own)
<1>1. DOMAIN layers = DOMAIN AllLayers /\ (\A i \in DOMAIN AllLayers : LayerFits(i)) /\ Began
  BY DEF LayersFit, Began
<1>2. /\ own \in Seq(Content) /\ Len(own) = Len(plan.extras) /\ Len(own) \in Nat
      /\ \A j \in 1..Len(plan.extras) : own[j] \in held[c][plan.extras[j]] \cap registry
  BY <1>1, OwnLayers
<1>3. c \in Ref /\ PlanFits(c, plan) /\ PlanNames(plan)
  BY DEF AllPlanned, PlansFit, Range
<1>4. /\ DOMAIN map = DOMAIN dir[c]
      /\ \A p \in DOMAIN plan.files : map[p] = plan.files[p] /\ map[p] \in held[c][p]
      /\ \A p \in DOMAIN dir[c] \ DOMAIN plan.files :
            \E j \in 1..Len(plan.extras) : map[p] = own[j] /\ map[p] \in held[c][p] \cap registry
  BY <1>2, <1>3, FilesAreMapped
<1>5. /\ EntryOf(k).desc = DescOf(k) /\ EntryOf(k).files = map
      /\ EntryOf(k).extras = IF plan.format = "packed" THEN own ELSE <<>>
  BY DEF EntryOf
<1>6. \A j \in 1..Len(own) : own[j] \in Range(own)
  BY <1>2, LenProperties DEF Range
<1>7. <<>> \in Seq(Content)
  OBVIOUS
<1> HIDE DEF c, own, map
<1>8. CASE plan.format = "packed"
  <2>1. plan.manifest \in Content /\ \A p \in DOMAIN plan.files : plan.files[p] \in Reach(plan.manifest)
    BY <1>3, <1>8 DEF PlanNames
  <2>2. CopiedOf(k) = Copied(plan.manifest) /\ DescOf(k) = plan.manifest
    BY <1>8 DEF CopiedOf, DescOf, c
  <2> DEFINE d == plan.manifest
  <2> HIDE DEF plan, d
  <2>3. registry' = registry \cup Copied(plan.manifest)
        /\ complete' = complete \cup (Copied(plan.manifest) \cap Content)
    BY <2>2
  <2>4. StoreCloses' /\ Reach(plan.manifest) \subseteq registry'
    BY <2>1, <2>3, CopiesReach
  <2>5. KeptBy(DescOf(k)) = Reach(plan.manifest)
    BY <2>1, <2>2 DEF KeptBy
  <2>6. ASSUME NEW p \in DOMAIN dir[c]
        PROVE  map[p] \in held[c][p] \cap registry' \cap (KeptBy(DescOf(k)) \cup Range(own))
    <3>1. CASE p \in DOMAIN plan.files
      BY <1>4, <2>1, <2>4, <2>5, <3>1
    <3>2. CASE p \notin DOMAIN plan.files
      BY <1>2, <1>4, <1>6, <3>2
    <3> QED
      BY <3>1, <3>2
  <2> QED
    BY <1>2, <1>4, <1>5, <1>8, <2>4, <2>6 DEF c
<1>9. CASE plan.format # "packed"
  <2>1. plan.format \in {"model", "bomify"} /\ DOMAIN plan.files = {}
    BY <1>3, <1>9 DEF PlanNames
  <2>2. (\A j \in 1..Len(own) : own[j] \in KeptBy(DescOf(k))) /\ CopiedOf(k) \cap Content = {}
    BY <1>2, <2>1, OwnManifestKeeps DEF own, c
  <2>3. registry \subseteq registry' /\ complete' = complete
    BY <2>2
  <2>4. StoreCloses'
    BY <2>3, BlobsLeaveManifests
  <2> HIDE DEF plan
  <2>5. ASSUME NEW p \in DOMAIN dir[c]
        PROVE  map[p] \in held[c][p] \cap registry' \cap KeptBy(DescOf(k))
    <3>1. PICK j \in 1..Len(plan.extras) : map[p] = own[j] /\ map[p] \in held[c][p] \cap registry
      BY <1>4, <2>1
    <3>2. own[j] \in KeptBy(DescOf(k))
      BY <1>2, <2>2, <3>1
    <3> QED
      BY <2>3, <3>1, <3>2
  <2> QED
    BY <1>4, <1>5, <1>7, <1>9, <2>4, <2>5 DEF c
<1> QED
  BY <1>8, <1>9

\* pushManifest adds a manifest that has its component's files.
LEMMA PushManifestStep ==
    ASSUME PackInv, Plain, PushManifest
    PROVE  PackInv'
<1>1. Len(manifests) \in Nat
  BY LenProperties DEF PackInv, ManifestsMade
<1>2. PICK k \in Nat : k = Len(manifests) + 1
  BY <1>1
<1>3. CASE Fail
  <2>1. Began
    BY DEF PushManifest, Began
  <2> QED
    BY <1>3, <2>1, FailStep
<1>4. CASE ~Fail
  <2>1. /\ step = "upload" /\ None \notin Range(layers) /\ Len(manifests) < Len(list)
        /\ registry' = registry \cup CopiedOf(k)
        /\ complete' = complete \cup (CopiedOf(k) \cap Content)
        /\ manifests' = Append(manifests, EntryOf(k))
        /\ UNCHANGED <<step, asked, directories, plans, layers, hashed, beside, restored>>
    BY <1>2, <1>4, PushManifestDoes
  <2>2. /\ step' = step /\ sbom' = sbom /\ list' = list /\ dir' = dir /\ held' = held /\ plans' = plans
        /\ layers' = layers /\ hashed' = hashed /\ index' = index /\ registry \subseteq registry'
    BY <2>1 DEF asked, directories, beside
  <2>3. /\ ListsOnce /\ DirsHeld /\ PlansFit /\ LayersFit /\ StoreCloses /\ ManifestsMade /\ IndexFits
        /\ list \in Seq(Ref)
    BY <2>1 DEF PackInv, ListsOnce
  <2>4. AllPlanned /\ Grows
    BY <2>1, <2>2, <2>3, PlansAreMade DEF Grows, PlansFit
  <2>5. ListsOnce'
    BY <2>2, <2>3 DEF ListsOnce
  <2>6. DirsHeld'
    BY <2>2, <2>3 DEF DirsHeld, HoldsOn, Began
  <2>7. PlansFit'
    BY <2>2, <2>3, <2>4, PlansStay
  <2>8. LayersFit'
    <3>1. AllLayers' = AllLayers
      BY <2>2, AllLayersStay
    <3>2. \A i \in DOMAIN AllLayers : LayerFits(i) => LayerFits(i)'
      BY <2>2, <3>1 DEF LayerFits
    <3> QED
      BY <2>2, <2>3, <3>1, <3>2 DEF LayersFit
  <2>9. /\ Len(manifests) \in Nat /\ Len(list) \in Nat /\ DOMAIN list = 1..Len(list)
        /\ manifests \in Seq(Range(manifests)) /\ DOMAIN manifests = 1..Len(manifests)
        /\ \A i \in DOMAIN manifests : Made(i)
    BY <2>3, LenProperties DEF ManifestsMade
  <2>10. k \in DOMAIN list
    BY <1>2, <2>1, <2>9
  <2> DEFINE e == EntryOf(k)
             M == Range(manifests) \cup {e}
  <2>11. /\ StoreCloses' /\ e.extras \in Seq(Content) /\ DOMAIN e.files = DOMAIN dir[list[k]]
         /\ \A p \in DOMAIN dir[list[k]] :
                e.files[p] \in held[list[k]][p] \cap registry' \cap (KeptBy(e.desc) \cup Range(e.extras))
    BY <2>1, <2>3, <2>4, <2>10, MakesManifest
  <2> HIDE DEF e
  <2>12. /\ manifests' \in Seq(M) /\ Len(manifests') = k /\ manifests'[k] = e
         /\ \A i \in 1..Len(manifests) : manifests'[i] = manifests[i]
    <3>1. manifests \in Seq(M) /\ e \in M
      <4>1. Range(manifests) \subseteq M
        OBVIOUS
      <4> HIDE DEF M
      <4> QED
        BY <2>9, <4>1, SeqMonotonic DEF M
    <3> HIDE DEF M
    <3>2. /\ Append(manifests, e) \in Seq(M) /\ Len(Append(manifests, e)) = Len(manifests) + 1
          /\ (\A i \in 1..Len(manifests) : Append(manifests, e)[i] = manifests[i])
          /\ Append(manifests, e)[Len(manifests) + 1] = e
      BY <3>1, AppendProperties
    <3>3. manifests' = Append(manifests, e)
      BY <2>1 DEF e
    <3> QED
      BY <1>2, <3>2, <3>3
  <2>13. ManifestsMade'
    <3> HIDE DEF M
    <3>1. DOMAIN manifests' = 1..k /\ k \in Nat /\ k <= Len(list) /\ 1..k = (1..Len(manifests)) \cup {k}
      BY <1>2, <2>9, <2>10, <2>12, LenProperties
    <3>2. manifests' \in Seq(Range(manifests'))
      BY <2>12, <3>1 DEF Range
    <3>3. Made(k)'
      <4>1. dir[list[k]] # None
        BY <2>4, <2>10 DEF AllPlanned, PlanFits
      <4>3. /\ e.extras \in Seq(Content) /\ DOMAIN e.files = DOMAIN dir'[list'[k]] /\ dir'[list'[k]] # None
            /\ \A p \in DOMAIN dir'[list'[k]] :
                e.files[p] \in held'[list'[k]][p] \cap registry' \cap (KeptBy(e.desc) \cup Range(e.extras))
        BY <2>2, <2>11, <4>1
      <4>4. manifests'[k] = e /\ KeptBy(manifests[k].desc)' = KeptBy(e.desc)
        BY <2>12 DEF KeptBy, Reach, Reaches
      <4> QED
        BY <4>3, <4>4 DEF Made
    <3>4. ASSUME NEW i \in 1..Len(manifests)
          PROVE  Made(i)'
      <4>1. i \in DOMAIN list /\ Made(i) /\ manifests'[i] = manifests[i]
        BY <2>9, <2>12, <3>1
      <4> QED
        BY <2>2, <2>3, <2>4, <4>1, MadeStays
    <3>5. \A i \in 1..k : Made(i)'
      BY <3>1, <3>3, <3>4
    <3>6. Len(manifests') <= Len(list')
      BY <2>2, <2>12, <3>1
    <3>7. step' # "sites"
      BY <2>1
    <3> QED
      BY <3>1, <3>2, <3>5, <3>6, <3>7 DEF ManifestsMade
  <2>14. IndexFits'
    BY <2>1, <2>2, <2>3 DEF IndexFits, Unindexed, Settled
  <2> QED
    BY <2>1, <2>2, <2>5, <2>6, <2>7, <2>8, <2>11, <2>13, <2>14 DEF PackInv, Steps
<1> QED
  BY <1>3, <1>4

\* What a build records lists refs.
LEMMA RecordsRefs ==
    ASSUME UnionInv,
           \/ doing = "composed" /\ sbom' = SetToSeq(DOMAIN composed.components)
           \/ sbom' \in Handwritten
    PROVE  sbom' \in Seq(Ref)
<1>1. CASE sbom' \in Handwritten
  BY <1>1, PackAssumption
<1>2. CASE doing = "composed" /\ sbom' = SetToSeq(DOMAIN composed.components)
  <2> DEFINE P == DOMAIN composed.components
  <2>1. P \subseteq Ref /\ IsFiniteSet(P)
    BY <1>2 DEF UnionInv, Whole
  <2>2. sbom' = Sorted(P)
    BY <1>2 DEF Sorted
  <2> HIDE DEF P
  <2>3. Sorted(P) \in Seq(P)
    BY <2>1, SortedIs
  <2> QED
    BY <2>1, <2>2, <2>3, SeqMonotonic
<1> QED
  BY <1>1, <1>2

\* A build records an SBOM, composed or written by hand.
LEMMA BuildStep ==
    ASSUME PackInv, UnionInv, Build
    PROVE  PackInv'
<1>1. /\ step = "build" /\ step' = "idle"
      /\ \/ doing = "composed" /\ sbom' = SetToSeq(DOMAIN composed.components)
         \/ sbom' \in Handwritten
      /\ list' = list /\ dir' = dir /\ held' = held /\ manifests' = manifests
      /\ registry' = registry /\ complete' = complete /\ index' = index
  BY DEF Build, directories, packing, stored, beside
<1>2. ListsOnce /\ DirsHeld /\ StoreCloses /\ ManifestsMade /\ IndexFits /\ list \in Seq(Ref)
  BY <1>1 DEF PackInv, ListsOnce
<1>3. sbom' \in Seq(Ref)
  BY <1>1, RecordsRefs
<1>4. ListsOnce'
  BY <1>1, <1>2, <1>3 DEF ListsOnce
<1>5. DirsHeld'
  BY <1>1, <1>2 DEF DirsHeld, Began
<1>6. PlansFit' /\ LayersFit'
  BY <1>1 DEF PlansFit, LayersFit
<1>7. StoreCloses'
  BY <1>1, <1>2, BlobsLeaveManifests
<1>8. Grows
  BY <1>1 DEF Grows
<1>9. ManifestsMade'
  BY <1>1, <1>2, <1>8, ManifestsStay
<1>10. IndexFits'
  BY <1>1, <1>2 DEF IndexFits, Unindexed, Settled
<1> QED
  BY <1>1, <1>4, <1>5, <1>6, <1>7, <1>9, <1>10 DEF PackInv, Steps

\* Each step keeps the invariant.
LEMMA PackStep ==
    ASSUME PackInv, UnionInv, Faithful, Truthful, Plain, [Next]_vars
    PROVE  PackInv'
<1>1. CASE UNCHANGED packVars
  BY <1>1, OtherStep
<1>2. CASE Build
  BY <1>2, BuildStep
<1>3. CASE PackNext
  <2>1. CASE \E tags \in BOOLEAN : Push(tags)
    BY <2>1, PushStep
  <2>2. ASSUME NEW c \in Ref, PlanComponent(c)
        PROVE  PackInv'
    BY <2>2, PlanStep
  <2>3. ASSUME NEW c \in Ref, NEW p \in Path, NEW content \in Rewrites, Rewrite(c, p, content)
        PROVE  PackInv'
    BY <2>3, RewriteStep
  <2>4. ASSUME NEW i \in DOMAIN layers, HashLayer(i) \/ PushLayer(i)
        PROVE  PackInv'
    BY <2>4, BlobSteps
  <2>5. CASE StartUploads
    BY <2>5, StartUploadsStep
  <2>6. CASE PushManifest
    BY <2>6, PushManifestStep
  <2>7. CASE PushIndex
    BY <2>7, PushIndexStep
  <2>8. CASE PushSBOM \/ TagSite \/ TagPackage \/ Stop \/ Restored
               \/ (\E c \in Ref : PullComponent(c)) \/ (\E p \in Path : RestoreFile(p))
    BY <2>8, LaterSteps
  <2> QED
    BY <1>3, <2>1, <2>2, <2>3, <2>4, <2>5, <2>6, <2>7, <2>8 DEF PackNext
<1> QED
  BY <1>1, <1>2, <1>3 DEF Next, vars

\* Before the build there is nothing.
LEMMA PackInit ==
    ASSUME Init
    PROVE  PackInv
<1>1. /\ step = "build" /\ list = <<>> /\ dir = Dirs /\ manifests = <<>>
      /\ registry = {} /\ complete = {} /\ index = None
  BY DEF Init
<1>2. <<>> \in Seq(Ref) /\ <<>> \in Seq(Range(<<>>)) /\ Len(<<>>) = 0 /\ DOMAIN <<>> = {}
  OBVIOUS
<1>3. ListsOnce /\ ManifestsMade
  BY <1>1, <1>2 DEF ListsOnce, ManifestsMade
<1>4. DirsHeld
  BY <1>1, PackAssumption DEF DirsHeld, Began
<1>5. PlansFit /\ LayersFit
  BY <1>1 DEF PlansFit, LayersFit
<1>6. StoreCloses
  BY <1>1 DEF StoreCloses, Closed, Has
<1>7. IndexFits
  BY <1>1 DEF IndexFits, Settled
<1> QED
  BY <1>1, <1>3, <1>4, <1>5, <1>6, <1>7 DEF PackInv, Steps

\* "bomify pull rebuilds it from the package": whatever SBOM is pushed, composed or
\* written by hand, whatever order uploads end in, whatever an earlier push left
\* there and whatever is rewritten or fails meanwhile, a package that has an index
\* has all files of all its components, as they were while it was pushed, in blobs
\* that the package keeps, and no component of it fails to be restored (push and
\* pull).  Plugins are as "component pack" asks: they list what their manifests
\* name, and no more, and digest files as they are.
THEOREM PackagesAreWhole ==
    ASSUME Faithful, Truthful, Plain
    PROVE  Spec => []PackedWhole
<1>1. Init => UnionInv /\ PackInv
  BY PackInit DEF Init, ComposeInit, Idle, UnionInv, Nothing
<1>2. UnionInv /\ PackInv /\ [Next]_vars => UnionInv' /\ PackInv'
  BY UnionStep, PackStep
<1>3. PackInv => PackedWhole
  BY PackedWholeHolds
<1> QED
  BY <1>1, <1>2, <1>3, PTL DEF Spec

-----------------------------------------------------------------------------
(* Sites.                                                                  *)

\* A tag is no digest, of a file or of a manifest, and a reference is not None.
Tagged ==
    /\ \A v \in DOMAIN VersionTag :
        /\ VersionTag[v] \notin Content
        /\ \A kind, of, names : VersionTag[v] # Manifest(kind, of, names)
    /\ \A path, name : <<path, name>> # None

\* Each component has its manifest.
AllMade ==
    /\ list \in Seq(Ref) /\ \A i, k \in DOMAIN list : list[i] = list[k] => i = k
    /\ DOMAIN manifests = DOMAIN list

Sites == {SiteOf(c) : c \in Ref}
MadeDescs == {manifests[k].desc : k \in DOMAIN manifests}
Member == [site : Sites, desc : MadeDescs]
SitePlan == [site : Sites, members : Seq(Member), purls : SUBSET Ref]

MemberOf(k) == [site |-> SiteOf(list[k]), desc |-> manifests[k].desc]

\* The plan of one site, of the first n components: each of its components has its
\* manifest there, each manifest there is one of its components', and no two are of
\* one platform.
GroupHolds(p, n) ==
    /\ \A c \in p.purls :
        /\ SiteOf(c) # None /\ Reference(SiteOf(c)) = Reference(p.site)
        /\ \E k \in 1..n : list[k] = c /\ \E a \in DOMAIN p.members : p.members[a].desc = manifests[k].desc
    /\ \A a \in DOMAIN p.members : \E k \in 1..n : list[k] \in p.purls /\ p.members[a] = MemberOf(k)
    /\ \A a, b \in DOMAIN p.members :
        a # b => IsOtherPlatformOf(p.members[a].site, p.members[b].site)

\* The plans of the sites of the first n components, one for each reference.
SitesHold(plan, n) ==
    /\ plan \in Seq(SitePlan)
    /\ \A i \in DOMAIN plan : plan[i].site # None /\ GroupHolds(plan[i], n)
    /\ \A i, k \in DOMAIN plan : Reference(plan[i].site) = Reference(plan[k].site) => i = k

\* What addMember does to a plan.
LEMMA JoinsMeans ==
    ASSUME NEW p, NEW m, p.members \in Seq(Member)
    PROVE  CASE Joins(p, m) = "member" ->
                    \A a \in DOMAIN p.members : IsOtherPlatformOf(m.site, p.members[a].site)
             [] Joins(p, m) = "same" -> \E a \in DOMAIN p.members : p.members[a].desc = m.desc
             [] OTHER -> TRUE
<1> DEFINE settling == {i \in DOMAIN p.members :
                            \/ p.members[i].desc = m.desc
                            \/ ~IsOtherPlatformOf(m.site, p.members[i].site)}
<1>1. settling \subseteq Nat /\ settling \subseteq DOMAIN p.members
  OBVIOUS
<1>2. \A a \in DOMAIN p.members : a \notin settling => IsOtherPlatformOf(m.site, p.members[a].site)
  OBVIOUS
<1>3. Joins(p, m) = CASE settling = {} -> "member"
                      [] settling # {} /\ p.members[Min(settling)].desc = m.desc -> "same"
                      [] OTHER -> "collides"
  BY DEF Joins
<1> HIDE DEF settling
<1>4. CASE settling = {}
  BY <1>2, <1>3, <1>4
<1>5. CASE settling # {}
  <2>1. Min(settling) \in DOMAIN p.members
    BY <1>1, <1>5, LeastOf
  <2> QED
    BY <1>3, <1>5, <2>1
<1> QED
  BY <1>4, <1>5

\* Adding component n to the plan of its site.
LEMMA AddedHolds ==
    ASSUME AllMade, NEW n \in DOMAIN list, NEW p \in SitePlan, GroupHolds(p, n - 1),
           SiteOf(list[n]) # None, Reference(SiteOf(list[n])) = Reference(p.site)
    PROVE  LET q == Added(p, MemberOf(n), list[n])
           IN  q \in SitePlan /\ q.site = p.site /\ GroupHolds(q, n)
<1> DEFINE c == list[n]
           m == MemberOf(n)
           q == Added(p, m, c)
<1>1. /\ n \in Nat \ {0} /\ c \in Ref /\ m \in Member /\ p.members \in Seq(Member)
      /\ m.site = SiteOf(c) /\ m.desc = manifests[n].desc
      /\ p = [site |-> p.site, members |-> p.members, purls |-> p.purls]
  BY DEF AllMade, SitePlan, Member, MemberOf, Sites, MadeDescs
<1>2. GroupHolds(p, n)
  <2>1. 1..(n - 1) \subseteq 1..n
    BY <1>1
  <2> QED
    BY <2>1 DEF GroupHolds
<1>3. n \in 1..n /\ list[n] = c /\ SiteOf(c) # None /\ Reference(SiteOf(c)) = Reference(p.site)
  BY <1>1
<1> HIDE DEF c, m
<1>4. CASE Joins(p, m) = "member"
  <2> DEFINE joined == Append(p.members, m)
  <2>1. q = [site |-> p.site, members |-> joined, purls |-> p.purls \cup {c}]
    <3>1. q = [p EXCEPT !.members = Append(@, m), !.purls = @ \cup {c}]
      BY <1>4 DEF Added
    <3> QED
      BY <1>1, <3>1
  <2>2. \A a \in DOMAIN p.members : IsOtherPlatformOf(m.site, p.members[a].site)
    BY <1>1, <1>4, JoinsMeans
  <2>3. /\ joined \in Seq(Member) /\ DOMAIN joined = DOMAIN p.members \cup {Len(p.members) + 1}
        /\ joined[Len(p.members) + 1] = m
        /\ \A a \in DOMAIN p.members : joined[a] = p.members[a]
    BY <1>1
  <2> HIDE DEF joined, q
  <2>4. q \in SitePlan /\ q.site = p.site /\ q.members = joined /\ q.purls = p.purls \cup {c}
    BY <1>1, <2>1, <2>3 DEF SitePlan
  <2>5. ASSUME NEW d \in q.purls
        PROVE  /\ SiteOf(d) # None /\ Reference(SiteOf(d)) = Reference(q.site)
               /\ \E k \in 1..n : list[k] = d /\ \E a \in DOMAIN joined : joined[a].desc = manifests[k].desc
    <3>1. CASE d = c
      BY <1>1, <1>3, <2>3, <2>4, <3>1
    <3>2. CASE d \in p.purls
      <4>1. PICK k \in 1..n : list[k] = d /\ \E a \in DOMAIN p.members : p.members[a].desc = manifests[k].desc
        BY <1>2, <3>2, Zenon DEF GroupHolds
      <4>2. PICK a \in DOMAIN p.members : p.members[a].desc = manifests[k].desc
        BY <4>1, Zenon
      <4>3. a \in DOMAIN joined /\ joined[a].desc = manifests[k].desc
        BY <2>3, <4>2
      <4>4. SiteOf(d) # None /\ Reference(SiteOf(d)) = Reference(q.site)
        BY <1>2, <2>4, <3>2, Zenon DEF GroupHolds
      <4> QED
        BY <4>1, <4>3, <4>4, Zenon
    <3> QED
      BY <2>4, <3>1, <3>2
  <2>6. ASSUME NEW a \in DOMAIN joined
        PROVE  \E k \in 1..n : list[k] \in q.purls /\ joined[a] = MemberOf(k)
    <3>1. CASE a \in DOMAIN p.members
      <4>1. PICK k \in 1..n : list[k] \in p.purls /\ p.members[a] = MemberOf(k)
        BY <1>2, <3>1, Zenon DEF GroupHolds
      <4>2. list[k] \in q.purls /\ joined[a] = MemberOf(k)
        BY <2>3, <2>4, <3>1, <4>1
      <4> QED
        BY <4>2, Zenon
    <3>2. CASE a = Len(p.members) + 1
      BY <1>3, <2>3, <2>4, <3>2 DEF m
    <3> QED
      BY <2>3, <3>1, <3>2
  <2>7. ASSUME NEW a \in DOMAIN joined, NEW b \in DOMAIN joined, a # b
        PROVE  IsOtherPlatformOf(joined[a].site, joined[b].site)
    <3>1. CASE a \in DOMAIN p.members /\ b \in DOMAIN p.members
      BY <1>2, <2>3, <2>7, <3>1 DEF GroupHolds
    <3>2. CASE a = Len(p.members) + 1 /\ b \in DOMAIN p.members
      BY <2>2, <2>3, <3>2
    <3>3. CASE a \in DOMAIN p.members /\ b = Len(p.members) + 1
      <4>1. joined[b] = m /\ joined[a] = p.members[a]
        BY <2>3, <3>3
      <4>2. IsOtherPlatformOf(m.site, p.members[a].site)
        BY <2>2, <3>3
      <4> QED
        BY <4>1, <4>2 DEF IsOtherPlatformOf
    <3> QED
      BY <2>3, <2>7, <3>1, <3>2, <3>3
  <2> QED
    BY <2>4, <2>5, <2>6, <2>7 DEF GroupHolds, q, m, c
<1>5. CASE Joins(p, m) = "same"
  <2>1. q = [site |-> p.site, members |-> p.members, purls |-> p.purls \cup {c}]
    <3>1. q = [p EXCEPT !.purls = @ \cup {c}]
      BY <1>5 DEF Added
    <3> QED
      BY <1>1, <3>1
  <2>2. \E a \in DOMAIN p.members : p.members[a].desc = m.desc
    BY <1>1, <1>5, JoinsMeans
  <2> HIDE DEF q
  <2>3. q \in SitePlan /\ q.site = p.site /\ q.members = p.members /\ q.purls = p.purls \cup {c}
    BY <1>1, <2>1 DEF SitePlan
  <2>4. GroupHolds(q, n)
    <3>1. ASSUME NEW d \in q.purls
          PROVE  /\ SiteOf(d) # None /\ Reference(SiteOf(d)) = Reference(q.site)
                 /\ \E k \in 1..n : list[k] = d /\ \E a \in DOMAIN q.members : q.members[a].desc = manifests[k].desc
      <4>1. CASE d = c
        BY <1>1, <1>3, <2>2, <2>3, <4>1
      <4>2. CASE d \in p.purls
        BY <1>2, <2>3, <4>2 DEF GroupHolds
      <4> QED
        BY <2>3, <4>1, <4>2
    <3>2. \A a \in DOMAIN q.members : \E k \in 1..n : list[k] \in q.purls /\ q.members[a] = MemberOf(k)
      BY <1>2, <2>3 DEF GroupHolds
    <3>3. \A a, b \in DOMAIN q.members :
              a # b => IsOtherPlatformOf(q.members[a].site, q.members[b].site)
      BY <1>2, <2>3 DEF GroupHolds
    <3> QED
      BY <3>1, <3>2, <3>3 DEF GroupHolds
  <2> QED
    BY <2>3, <2>4 DEF q, m, c
<1>6. CASE Joins(p, m) \notin {"member", "same"}
  <2>1. q = p
    BY <1>6 DEF Added
  <2> HIDE DEF q
  <2> QED
    BY <1>2, <2>1 DEF q, m, c
<1> QED
  BY <1>4, <1>5, <1>6

\* Planning the site of component n.
LEMMA AddSiteHolds ==
    ASSUME AllMade, NEW n \in DOMAIN list, NEW plan, SitesHold(plan, n - 1)
    PROVE  SitesHold(AddSite(plan, n), n)
<1> DEFINE c == list[n]
           site == SiteOf(c)
           m == MemberOf(n)
           at == {i \in DOMAIN plan : Reference(plan[i].site) = Reference(site)}
           fresh == [site |-> site, members |-> <<>>, purls |-> {}]
           i0 == CHOOSE i \in at : TRUE
           new == AddSite(plan, n)
<1>1. /\ n \in Nat \ {0} /\ c \in Ref /\ site \in Sites
      /\ plan \in Seq(SitePlan) /\ DOMAIN plan = 1..Len(plan) /\ Len(plan) \in Nat
  BY DEF AllMade, Sites, SitesHold
<1>2. \A i \in DOMAIN plan : GroupHolds(plan[i], n - 1) /\ plan[i] \in SitePlan /\ plan[i].site # None
  BY <1>1 DEF SitesHold
<1>3. \A i, k \in DOMAIN plan : Reference(plan[i].site) = Reference(plan[k].site) => i = k
  BY DEF SitesHold
<1>4. \A i \in DOMAIN plan : GroupHolds(plan[i], n)
  <2>1. 1..(n - 1) \subseteq 1..n
    BY <1>1
  <2> QED
    BY <1>2, <2>1 DEF GroupHolds
<1>5. new = CASE site = None -> plan
              [] site # None /\ at = {} -> Append(plan, Added(fresh, m, c))
              [] OTHER -> [plan EXCEPT ![i0] = Added(@, m, c)]
  BY DEF AddSite, MemberOf
<1>6. fresh \in SitePlan /\ fresh.site = site /\ GroupHolds(fresh, n - 1)
  BY <1>1 DEF SitePlan, GroupHolds
<1> HIDE DEF site, m, at, fresh, i0, new, c
<1>7. CASE site = None
  BY <1>1, <1>2, <1>3, <1>4, <1>5, <1>7, Zenon DEF SitesHold, new
<1>8. CASE site # None /\ at = {}
  <2> DEFINE q == Added(fresh, m, c)
  <2>1. q \in SitePlan /\ q.site = site /\ GroupHolds(q, n)
    BY <1>6, <1>8, AddedHolds DEF site, c, m
  <2>2. new = Append(plan, q)
    BY <1>5, <1>8
  <2> HIDE DEF q
  <2>3. /\ new \in Seq(SitePlan) /\ DOMAIN new = DOMAIN plan \cup {Len(plan) + 1}
        /\ new[Len(plan) + 1] = q /\ \A i \in DOMAIN plan : new[i] = plan[i]
    BY <1>1, <2>1, <2>2
  <2>4. \A i \in DOMAIN new : new[i].site # None /\ GroupHolds(new[i], n)
    BY <1>2, <1>4, <1>8, <2>1, <2>3
  <2>5. \A i \in DOMAIN plan : Reference(plan[i].site) # Reference(site)
    BY <1>8 DEF at
  <2>6. ASSUME NEW i \in DOMAIN new, NEW k \in DOMAIN new,
               Reference(new[i].site) = Reference(new[k].site)
        PROVE  i = k
    <3>1. CASE i \in DOMAIN plan /\ k \in DOMAIN plan
      BY <1>3, <2>3, <2>6, <3>1
    <3>2. CASE i \in DOMAIN plan /\ k = Len(plan) + 1
      BY <2>1, <2>3, <2>5, <2>6, <3>2
    <3>3. CASE i = Len(plan) + 1 /\ k \in DOMAIN plan
      <4>1. new[i].site = site /\ new[k].site = plan[k].site
        BY <2>1, <2>3, <3>3
      <4>2. Reference(plan[k].site) = Reference(site)
        BY <2>6, <4>1, Zenon
      <4> QED
        BY <2>5, <3>3, <4>2
    <3> QED
      BY <2>3, <3>1, <3>2, <3>3
  <2> QED
    BY <2>3, <2>4, <2>6 DEF SitesHold, new
<1>9. CASE site # None /\ at # {}
  <2>1. i0 \in DOMAIN plan /\ Reference(plan[i0].site) = Reference(site)
    BY <1>9 DEF i0, at
  <2> DEFINE q == Added(plan[i0], m, c)
  <2>2. q \in SitePlan /\ q.site = plan[i0].site /\ GroupHolds(q, n)
    <3>1. plan[i0] \in SitePlan /\ GroupHolds(plan[i0], n - 1)
      BY <1>2, <2>1
    <3>2. SiteOf(list[n]) # None /\ Reference(SiteOf(list[n])) = Reference(plan[i0].site)
      BY <1>9, <2>1 DEF site, c
    <3> QED
      BY <3>1, <3>2, AddedHolds DEF c, m
  <2>3. new = [plan EXCEPT ![i0] = q]
    BY <1>5, <1>9
  <2> HIDE DEF q
  <2>4. /\ new \in Seq(SitePlan) /\ DOMAIN new = DOMAIN plan
        /\ \A i \in DOMAIN plan : new[i] = IF i = i0 THEN q ELSE plan[i]
    BY <1>1, <2>1, <2>2, <2>3
  <2>5. \A i \in DOMAIN plan : new[i].site = plan[i].site /\ GroupHolds(new[i], n)
    BY <1>4, <2>2, <2>4
  <2> QED
    BY <1>2, <1>3, <2>4, <2>5 DEF SitesHold, new
<1> QED
  BY <1>7, <1>8, <1>9

\* How the plan grows, component by component.
Follows(g, m) == g[0] = <<>> /\ \A i \in 1..m : g[i] = AddSite(g[i - 1], i)

\* It can be followed from the first component to the last.
LEMMA PlansGrow ==
    ASSUME NEW n \in Nat
    PROVE  \E g : Follows(g, n)
<1> DEFINE Bad == {m \in 0..n : ~\E g : Follows(g, m)}
<1>1. Bad \subseteq Nat /\ \A m : m \in Bad <=> m \in 0..n /\ ~\E g : Follows(g, m)
  OBVIOUS
<1> HIDE DEF Bad
<1>2. Bad = {}
  <2> SUFFICES ASSUME Bad # {}
               PROVE  FALSE
    OBVIOUS
  <2>1. PICK m \in Bad : \A k \in Bad : m <= k
    BY <1>1, LeastExists
  <2>2. m \in 0..n /\ ~\E g : Follows(g, m)
    BY <1>1
  <2>3. CASE m = 0
    <3> DEFINE e == [i \in {0} |-> <<>>]
    <3>1. e[0] = <<>> /\ 1..0 = {}
      OBVIOUS
    <3> HIDE DEF e
    <3>2. Follows(e, 0)
      BY <3>1 DEF Follows
    <3> QED
      BY <2>2, <2>3, <3>2
  <2>4. CASE m # 0
    <3>1. m - 1 \in 0..n /\ m - 1 \notin Bad
      BY <1>1, <2>1, <2>2, <2>4
    <3>2. PICK g : Follows(g, m - 1)
      BY <1>1, <3>1
    <3> DEFINE last == AddSite(g[m - 1], m)
               e == [i \in 0..m |-> IF i = m THEN last ELSE g[i]]
    <3>3. g[0] = <<>> /\ \A i \in 1..(m - 1) : g[i] = AddSite(g[i - 1], i)
      BY <3>2 DEF Follows
    <3> HIDE DEF last
    <3>4. e[m] = last /\ \A i \in 0..(m - 1) : e[i] = g[i]
      BY <2>2
    <3> HIDE DEF e
    <3>5. e[0] = <<>>
      BY <2>2, <2>4, <3>3, <3>4
    <3>6. \A i \in 1..m : e[i] = AddSite(e[i - 1], i)
      <4> SUFFICES ASSUME NEW i \in 1..m
                   PROVE  e[i] = AddSite(e[i - 1], i)
        OBVIOUS
      <4>1. i - 1 \in 0..(m - 1)
        BY <2>2
      <4>2. e[i - 1] = g[i - 1]
        BY <3>4, <4>1
      <4>3. CASE i = m
        BY <3>4, <4>2, <4>3, Zenon DEF last
      <4>4. CASE i # m
        <5>1. i \in 1..(m - 1) /\ i \in 0..(m - 1)
          BY <2>2, <4>4
        <5>2. e[i] = g[i] /\ g[i] = AddSite(g[i - 1], i)
          BY <3>3, <3>4, <5>1, Zenon
        <5> QED
          BY <4>2, <5>2, Zenon
      <4> QED
        BY <4>3, <4>4
    <3> QED
      BY <2>2, <3>5, <3>6 DEF Follows
  <2> QED
    BY <2>3, <2>4
<1> QED
  BY <1>1, <1>2

\* planSites: the plan of all components.
LEMMA PlannedHolds ==
    ASSUME AllMade
    PROVE  SitesHold(PlannedSites, Len(list))
<1> DEFINE n == Len(list)
           PlanOf(f) == [k \in 0..n |-> IF k = 0 THEN <<>> ELSE AddSite(f[k - 1], k)]
           f == CHOOSE f : f = PlanOf(f)
<1>1. n \in Nat /\ DOMAIN list = 1..n
  BY DEF AllMade
<1>2. PlannedSites = f[n]
  BY DEF PlannedSites
<1>3. f = PlanOf(f)
  <2>1. PICK g : Follows(g, n)
    BY <1>1, PlansGrow
  <2> DEFINE h == [k \in 0..n |-> g[k]]
  <2>2. \A k \in 0..n : h[k] = g[k]
    OBVIOUS
  <2>3. \A k \in 0..n : h[k] = IF k = 0 THEN <<>> ELSE AddSite(h[k - 1], k)
    <3> SUFFICES ASSUME NEW k \in 0..n
                 PROVE  h[k] = IF k = 0 THEN <<>> ELSE AddSite(h[k - 1], k)
      OBVIOUS
    <3>1. CASE k = 0
      BY <1>1, <2>1, <2>2, <3>1 DEF Follows
    <3>2. CASE k # 0
      <4>1. k \in 1..n /\ k - 1 \in 0..n
        BY <1>1, <3>2
      <4>2. h[k] = g[k] /\ h[k - 1] = g[k - 1]
        BY <2>2, <4>1
      <4>3. g[k] = AddSite(g[k - 1], k)
        BY <2>1, <4>1 DEF Follows
      <4> QED
        BY <3>2, <4>2, <4>3, Zenon
    <3> QED
      BY <3>1, <3>2
  <2>4. h = [k \in 0..n |-> h[k]]
    OBVIOUS
  <2> HIDE DEF h
  <2>5. h = PlanOf(h)
    BY <2>3, <2>4
  <2> HIDE DEF PlanOf
  <2> QED
    BY <2>5, Zenon
<1> HIDE DEF f
<1>4. \A k \in 0..n : f[k] = IF k = 0 THEN <<>> ELSE AddSite(f[k - 1], k)
  BY <1>3
<1> HIDE DEF PlanOf
<1> DEFINE Bad == {k \in 0..n : ~SitesHold(f[k], k)}
<1>5. Bad \subseteq Nat /\ \A k : k \in Bad <=> k \in 0..n /\ ~SitesHold(f[k], k)
  BY <1>1
<1> HIDE DEF Bad
<1>6. Bad = {}
  <2> SUFFICES ASSUME Bad # {}
               PROVE  FALSE
    OBVIOUS
  <2>1. PICK k \in Bad : \A i \in Bad : k <= i
    BY <1>5, LeastExists
  <2>2. k \in 0..n /\ ~SitesHold(f[k], k)
    BY <1>5
  <2>3. CASE k = 0
    <3>1. f[k] = <<>>
      BY <1>4, <2>2, <2>3
    <3>2. <<>> \in Seq(SitePlan) /\ DOMAIN <<>> = {}
      OBVIOUS
    <3>3. SitesHold(<<>>, k)
      BY <3>2 DEF SitesHold
    <3> QED
      BY <2>2, <3>1, <3>3
  <2>4. CASE k # 0
    <3>1. k \in DOMAIN list /\ k - 1 \in 0..n /\ k - 1 \notin Bad
      BY <1>1, <1>5, <2>1, <2>2, <2>4
    <3>2. SitesHold(f[k - 1], k - 1)
      BY <1>5, <3>1
    <3>3. f[k] = AddSite(f[k - 1], k)
      BY <1>4, <2>2, <2>4
    <3>4. SitesHold(AddSite(f[k - 1], k), k)
      BY <3>1, <3>2, AddSiteHolds
    <3> QED
      BY <2>2, <3>3, <3>4
  <2> QED
    BY <2>3, <2>4
<1>7. n \in 0..n /\ n \notin Bad
  BY <1>1, <1>6
<1> QED
  BY <1>2, <1>5, <1>7

\* What the index says of component k.
Unplaced == {c \in Range(list) : SitedBy(PlannedSites, c) = {}}
EntryFor(k) ==
    [purl |-> list[k], desc |-> manifests[k].desc,
     reference |-> IF list[k] \in Unplaced THEN None
                   ELSE Reference(PlannedSites[CHOOSE i \in SitedBy(PlannedSites, list[k]) : TRUE].site)]

\* A component that a plan has is given that plan's reference, and one that is
\* given a reference is in a plan.
LEMMA EntryTells ==
    ASSUME AllMade, NEW k \in DOMAIN list
    PROVE  /\ \A i \in DOMAIN PlannedSites : list[k] \in PlannedSites[i].purls =>
                EntryFor(k).reference = Reference(PlannedSites[i].site)
           /\ list[k] \notin Unplaced =>
                \E i \in DOMAIN PlannedSites :
                    /\ list[k] \in PlannedSites[i].purls
                    /\ EntryFor(k).reference = Reference(PlannedSites[i].site)
           /\ list[k] \in Unplaced => EntryFor(k).reference = None
<1> DEFINE P == PlannedSites
           c == list[k]
           by == SitedBy(P, c)
           i0 == CHOOSE i \in by : TRUE
<1>1. SitesHold(P, Len(list))
  BY PlannedHolds
<1>2. c \in Range(list)
  BY DEF AllMade, Range
<1>3. \A i : i \in by <=> i \in DOMAIN P /\ c \in P[i].purls
  BY DEF SitedBy
<1>4. EntryFor(k).reference = IF c \in Unplaced THEN None ELSE Reference(P[i0].site)
  BY DEF EntryFor
<1>5. c \in Unplaced <=> by = {}
  BY <1>2 DEF Unplaced
<1>6. by # {} => i0 \in by
  OBVIOUS
<1> HIDE DEF P, by, i0, c
<1>7. ASSUME NEW i \in by
      PROVE  EntryFor(k).reference = Reference(P[i].site)
  <2>1. i0 \in by /\ EntryFor(k).reference = Reference(P[i0].site)
    BY <1>4, <1>5, <1>6
  <2>2. \A j \in by : Reference(P[j].site) = Reference(SiteOf(c))
    BY <1>1, <1>3 DEF SitesHold, GroupHolds
  <2> QED
    BY <2>1, <2>2
<1> QED
  BY <1>3, <1>4, <1>5, <1>6, <1>7 DEF P, c

\* The index gives one reference to different manifests only if they are of two
\* platforms of one component.
LEMMA ReferencesTell ==
    ASSUME AllMade, NEW k \in DOMAIN list, NEW l \in DOMAIN list,
           EntryFor(k).reference # None, EntryFor(k).reference = EntryFor(l).reference,
           EntryFor(k).desc # EntryFor(l).desc
    PROVE  \E g, h \in DOMAIN list :
                /\ EntryFor(g).desc = EntryFor(k).desc /\ EntryFor(h).desc = EntryFor(l).desc
                /\ EntryFor(g).reference = EntryFor(k).reference
                /\ EntryFor(h).reference = EntryFor(k).reference
                /\ IsOtherPlatformOf(SiteOf(EntryFor(g).purl), SiteOf(EntryFor(h).purl))
<1> DEFINE P == PlannedSites
           n == Len(list)
<1>1. SitesHold(P, n) /\ DOMAIN list = 1..n
  BY PlannedHolds DEF AllMade
<1>2. \A j : EntryFor(j).desc = manifests[j].desc /\ EntryFor(j).purl = list[j]
  BY DEF EntryFor
<1>3. list[k] \notin Unplaced /\ list[l] \notin Unplaced
  BY EntryTells
<1>4. PICK i \in DOMAIN P : list[k] \in P[i].purls /\ EntryFor(k).reference = Reference(P[i].site)
  BY <1>3, EntryTells
<1>5. PICK j \in DOMAIN P : list[l] \in P[j].purls /\ EntryFor(l).reference = Reference(P[j].site)
  BY <1>3, EntryTells
<1>6. i = j
  BY <1>1, <1>4, <1>5 DEF SitesHold
<1>7. ASSUME NEW o \in DOMAIN list, list[o] \in P[i].purls
      PROVE  \E a \in DOMAIN P[i].members : P[i].members[a].desc = manifests[o].desc
  <2>1. GroupHolds(P[i], n)
    BY <1>1 DEF SitesHold
  <2>2. PICK q \in 1..n : list[q] = list[o] /\ \E a \in DOMAIN P[i].members : P[i].members[a].desc = manifests[q].desc
    BY <1>7, <2>1, Zenon DEF GroupHolds
  <2>3. q = o
    BY <1>1, <2>2 DEF AllMade
  <2> QED
    BY <2>2, <2>3
<1>8. PICK a \in DOMAIN P[i].members : P[i].members[a].desc = manifests[k].desc
  BY <1>4, <1>7
<1>9. PICK b \in DOMAIN P[i].members : P[i].members[b].desc = manifests[l].desc
  BY <1>5, <1>6, <1>7
<1>10. a # b
  BY <1>2, <1>8, <1>9
<1>11. GroupHolds(P[i], n)
  BY <1>1 DEF SitesHold
<1>12. IsOtherPlatformOf(P[i].members[a].site, P[i].members[b].site)
  BY <1>10, <1>11, Zenon DEF GroupHolds
<1>13. ASSUME NEW e \in DOMAIN P[i].members
       PROVE  \E g \in DOMAIN list :
                /\ P[i].members[e].site = SiteOf(list[g]) /\ P[i].members[e].desc = manifests[g].desc
                /\ EntryFor(g).reference = Reference(P[i].site)
  <2>1. PICK g \in 1..n : list[g] \in P[i].purls /\ P[i].members[e] = MemberOf(g)
    BY <1>11, Zenon DEF GroupHolds
  <2>2. g \in DOMAIN list
    BY <1>1
  <2>3. EntryFor(g).reference = Reference(P[i].site)
    BY <2>1, <2>2, EntryTells
  <2> QED
    BY <2>1, <2>2, <2>3 DEF MemberOf
<1> HIDE DEF P
<1>14. PICK g \in DOMAIN list :
            /\ P[i].members[a].site = SiteOf(list[g]) /\ P[i].members[a].desc = manifests[g].desc
            /\ EntryFor(g).reference = Reference(P[i].site)
  BY <1>13
<1>15. PICK h \in DOMAIN list :
            /\ P[i].members[b].site = SiteOf(list[h]) /\ P[i].members[b].desc = manifests[h].desc
            /\ EntryFor(h).reference = Reference(P[i].site)
  BY <1>13
<1>16. /\ EntryFor(g).desc = EntryFor(k).desc /\ EntryFor(h).desc = EntryFor(l).desc
       /\ EntryFor(g).reference = EntryFor(k).reference
       /\ EntryFor(h).reference = EntryFor(k).reference
  BY <1>2, <1>4, <1>8, <1>9, <1>14, <1>15
<1>17. IsOtherPlatformOf(SiteOf(EntryFor(g).purl), SiteOf(EntryFor(h).purl))
  BY <1>2, <1>12, <1>14, <1>15
<1> QED
  BY <1>16, <1>17, Zenon

\* What a manifest is known by: its digest, or the record that stands for it.
IsDesc(d) == d \in Content \/ d = Manifest(d.kind, d.of, d.names)

\* What a site names.
LEMMA SiteIs ==
    ASSUME NEW c \in Ref, SiteOf(c) # None
    PROVE  LET s == SiteOf(c) IN
           /\ s.tag # None => \E v \in DOMAIN VersionTag : s.tag = VersionTag[v]
           /\ s.tag = None => s.pinned \in Content
<1> DEFINE purl == Purl[c]
           path == [i \in DOMAIN purl.segments |-> Segment[purl.segments[i]]]
           pins == purl.image /\ purl.pinned # None
           tagged == purl.image /\ purl.tag # None
           tag == CASE tagged -> VersionTag[purl.tag]
                    [] ~tagged /\ pins -> None
                    [] OTHER -> VersionTag[purl.version]
           s == SiteOf(c)
<1>1. /\ purl.version \in DOMAIN VersionTag
      /\ purl.tag \in DOMAIN VersionTag \cup {None} /\ purl.pinned \in Content \cup {None}
  BY PackAssumption DEF PurlType
<1>2. tag # None => \E v \in DOMAIN VersionTag : tag = VersionTag[v]
  BY <1>1
<1>3. pins => purl.pinned \in Content
  BY <1>1
<1>4. s = IF None \in Range(path) \/ (tag = None /\ ~pins) THEN None
          ELSE [path |-> path, tag |-> tag, pinned |-> IF pins THEN purl.pinned ELSE None,
                platform |-> purl.platform, unqualified |-> purl.unqualified]
  BY DEF SiteOf
<1>5. s # None
  OBVIOUS
<1> HIDE DEF purl, path, pins, tagged, tag, s
<1>6. s.tag = tag /\ s.pinned = (IF pins THEN purl.pinned ELSE None) /\ ~(tag = None /\ ~pins)
  BY <1>4, <1>5
<1> QED
  BY <1>2, <1>3, <1>6 DEF s

\* A reference with a tag is no reference with a digest.
LEMMA TagsTell ==
    ASSUME Tagged, NEW c \in Ref, SiteOf(c) # None, SiteOf(c).tag # None,
           NEW path, NEW d, Reference(SiteOf(c)) = <<path, d>>
    PROVE  ~IsDesc(d)
<1>1. PICK v \in DOMAIN VersionTag : SiteOf(c).tag = VersionTag[v]
  BY SiteIs
<1>2. Reference(SiteOf(c)) = <<SiteOf(c).path, VersionTag[v]>>
  BY <1>1 DEF Reference
<1>3. d = VersionTag[v]
  BY <1>2
<1> QED
  BY <1>3 DEF Tagged, IsDesc

\* A site names a manifest of a component, or one of several.
LEMMA NamedIs ==
    ASSUME NEW p \in SitePlan, \A k \in DOMAIN manifests : IsDesc(manifests[k].desc)
    PROVE  IsDesc(Named(p))
<1>1. CASE Len(p.members) = 1
  <2>1. p.members \in Seq(Member) /\ p.members[1] \in Member
    BY <1>1 DEF SitePlan
  <2>2. p.members[1].desc \in MadeDescs
    BY <2>1 DEF Member
  <2> QED
    BY <1>1, <2>2 DEF Named, MadeDescs
<1>2. CASE Len(p.members) # 1
  BY <1>2 DEF Named, IsDesc, Manifest
<1> QED
  BY <1>1, <1>2

\* Sites of different references are placed apart.
LEMMA PlacedApart ==
    ASSUME Tagged, NEW p \in SitePlan, NEW q \in SitePlan, p.site # None, p.site.tag # None,
           Reference(p.site) # Reference(q.site), IsDesc(Named(q))
    PROVE  ReferenceTo(q) # Reference(p.site)
<1>1. PICK c \in Ref : p.site = SiteOf(c)
  BY DEF SitePlan, Sites
<1>2. CASE q.site.tag = None
  <2>1. ReferenceTo(q) = <<q.site.path, Named(q)>>
    BY <1>2 DEF ReferenceTo
  <2> QED
    BY <1>1, <2>1, TagsTell
<1>3. CASE q.site.tag # None
  BY <1>3 DEF ReferenceTo
<1> QED
  BY <1>2, <1>3

\* A site that has been tagged names what its plan has.
Placed(p) ==
    p.site.tag # None =>
        Reference(p.site) \in DOMAIN placed /\ placed[Reference(p.site)] = Named(p)

\* The manifest of a component of a plan is a member of it.
LEMMA MemberIs ==
    ASSUME AllMade, NEW i \in DOMAIN PlannedSites, NEW k \in DOMAIN list, list[k] \in PlannedSites[i].purls
    PROVE  \E a \in DOMAIN PlannedSites[i].members :
                PlannedSites[i].members[a].desc = manifests[k].desc
<1> DEFINE p == PlannedSites[i]
<1>1. GroupHolds(p, Len(list)) /\ DOMAIN list = 1..Len(list)
  BY PlannedHolds DEF SitesHold, AllMade
<1> HIDE DEF p
<1>2. list[k] \in p.purls
  BY DEF p
<1>3. PICK q \in 1..Len(list) :
        list[q] = list[k] /\ \E a \in DOMAIN p.members : p.members[a].desc = manifests[q].desc
  BY <1>1, <1>2, Zenon DEF GroupHolds
<1>4. q = k
  BY <1>1, <1>3 DEF AllMade
<1> QED
  BY <1>3, <1>4 DEF p

\* Once all sites are tagged, each reference that has a tag names the manifest of
\* each of its components.
LEMMA TagsHold ==
    ASSUME AllMade, Tagged, Plain, \A i \in DOMAIN PlannedSites : Placed(PlannedSites[i]),
           NEW k \in DOMAIN list, list[k] \notin Unplaced
    PROVE  /\ EntryFor(k).reference # None
           /\ SiteOf(EntryFor(k).purl).tag # None =>
                LET named == placed[EntryFor(k).reference] IN
                \/ named = EntryFor(k).desc
                \/ named \notin Content /\ named.kind = "platforms"
                    /\ \E m \in Range(named.names) : m.desc = EntryFor(k).desc
<1> DEFINE P == PlannedSites
           c == list[k]
<1>1. PICK i \in DOMAIN P : c \in P[i].purls /\ EntryFor(k).reference = Reference(P[i].site)
  BY EntryTells
<1>2. SitesHold(P, Len(list))
  BY PlannedHolds
<1>3. P[i] \in SitePlan /\ GroupHolds(P[i], Len(list)) /\ P[i].site # None
  BY <1>2 DEF SitesHold
<1>4. SiteOf(c) # None /\ Reference(SiteOf(c)) = Reference(P[i].site) /\ c \in Ref
  BY <1>1, <1>3 DEF GroupHolds, AllMade
<1>5. PICK a \in DOMAIN P[i].members : P[i].members[a].desc = manifests[k].desc
  BY <1>1, MemberIs
<1>6. Placed(P[i])
  OBVIOUS
<1>7. EntryFor(k).purl = c /\ EntryFor(k).desc = manifests[k].desc
  BY DEF EntryFor
<1> HIDE DEF P, c
<1>8. EntryFor(k).reference # None
  BY <1>1 DEF Reference, Tagged
<1>9. ASSUME SiteOf(c).tag # None
      PROVE  placed[EntryFor(k).reference] = Named(P[i])
  <2>1. P[i].site.tag # None
    <3> SUFFICES ASSUME P[i].site.tag = None
                 PROVE  FALSE
      OBVIOUS
    <3>1. PICK d \in Ref : P[i].site = SiteOf(d)
      BY <1>3 DEF SitePlan, Sites
    <3>2. P[i].site.pinned \in Content
      BY <1>3, <3>1, SiteIs
    <3>3. Reference(SiteOf(c)) = <<P[i].site.path, P[i].site.pinned>>
      BY <1>4 DEF Reference
    <3>4. ~IsDesc(P[i].site.pinned)
      BY <1>4, <1>9, <3>3, TagsTell
    <3> QED
      BY <3>2, <3>4 DEF IsDesc
  <2> QED
    BY <1>1, <1>6, <2>1 DEF Placed
<1>10. CASE Len(P[i].members) = 1
  <2>1. P[i].members \in Seq(Member)
    BY <1>3 DEF SitePlan
  <2>2. a = 1
    BY <1>10, <2>1
  <2>3. Named(P[i]) = manifests[k].desc
    BY <1>5, <1>10, <2>2 DEF Named
  <2> QED
    BY <1>7, <1>8, <1>9, <2>3
<1>11. CASE Len(P[i].members) # 1
  <2> DEFINE names == [j \in DOMAIN P[i].members |->
                [desc |-> P[i].members[j].desc, platform |-> P[i].members[j].site.platform]]
  <2>1. Named(P[i]) = Manifest("platforms", None, names)
    BY <1>11 DEF Named
  <2>2. names[a] \in Range(names) /\ names[a].desc = manifests[k].desc
    BY <1>5 DEF Range
  <2> HIDE DEF names
  <2>3. Named(P[i]) \notin Content
    BY <2>1 DEF Plain
  <2>4. Named(P[i]).kind = "platforms" /\ Named(P[i]).names = names
    BY <2>1 DEF Manifest
  <2> QED
    BY <1>7, <1>8, <1>9, <2>2, <2>3, <2>4
<1> QED
  BY <1>10, <1>11

\* The steps of a push that has an index, and of pulls after it.
TagSteps == {"tag", "pushed", "restore", "restored", "unrestorable"}

PacksNamed ==
    /\ dir \in [Ref -> Directory \cup {None}]
    /\ step = "upload" => DOMAIN plans = Range(list)
    /\ \A c \in DOMAIN plans : plans[c].format = "packed" => plans[c].manifest \in Content

ManifestsNamed ==
    /\ manifests \in Seq(Range(manifests)) /\ Len(manifests) <= Len(list)
    /\ step = "sites" => Len(manifests) = Len(list)
    /\ \A k \in DOMAIN manifests : IsDesc(manifests[k].desc)

IndexTold ==
    /\ index # None \/ step \in TagSteps =>
        Len(manifests) = Len(list) /\ index.entries = [k \in DOMAIN list |-> EntryFor(k)]
    /\ step \in Unindexed => index = None

\* The sites that are left to tag; those before them have been.
SitesLeft ==
    /\ sites \in Seq(SitePlan)
    /\ \E done \in 0..Len(PlannedSites) :
        /\ Len(sites) = Len(PlannedSites) - done
        /\ \A i \in 1..Len(sites) : sites[i] = PlannedSites[done + i]
        /\ \A i \in 1..done : Placed(PlannedSites[i])

TagsPlaced ==
    step \in TagSteps /\ tagging =>
        /\ Unplaced = {}
        /\ IF step = "tag" THEN SitesLeft ELSE \A i \in DOMAIN PlannedSites : Placed(PlannedSites[i])

SiteSteps == Steps \cup {"unrestorable"}

SiteInv ==
    /\ step \in SiteSteps
    /\ ListsOnce /\ PacksNamed /\ ManifestsNamed /\ IndexTold /\ TagsPlaced

\* With the invariant, an index is of components that each have their manifest.
LEMMA AllAreMade ==
    ASSUME ListsOnce, ManifestsNamed, list \in Seq(Ref), Len(manifests) = Len(list)
    PROVE  AllMade
BY DEF ListsOnce, ManifestsNamed, AllMade

\* What an index and its sites are told from.
LEMMA SitesStay ==
    ASSUME list' = list, manifests' = manifests
    PROVE  /\ PlannedSites' = PlannedSites /\ Unplaced' = Unplaced /\ SitePlan' = SitePlan
           /\ \A k : EntryFor(k)' = EntryFor(k)
<1>1. PlannedSites' = PlannedSites
  BY DEF PlannedSites, AddSite
<1>2. Unplaced' = Unplaced
  BY <1>1 DEF Unplaced
<1>3. SitePlan' = SitePlan
  BY DEF SitePlan, Member, MadeDescs
<1>4. \A k : EntryFor(k)' = EntryFor(k)
  BY <1>1, <1>2 DEF EntryFor
<1> QED
  BY <1>1, <1>2, <1>3, <1>4

\* A step that neither plans nor makes a manifest or an index.
LEMMA QuietSites ==
    ASSUME SiteInv, UNCHANGED <<sbom, list, dir, plans, manifests, index>>,
           step' \in SiteSteps, step' = "build" <=> step = "build",
           step' = "upload" => DOMAIN plans = Range(list),
           step' = "sites" => Len(manifests) = Len(list),
           step' \in TagSteps => step \in TagSteps, step' \in Unindexed => index = None,
           TagsPlaced'
    PROVE  SiteInv'
<1>1. ListsOnce /\ PacksNamed /\ ManifestsNamed /\ IndexTold
  BY DEF SiteInv
<1>2. ListsOnce'
  BY <1>1 DEF ListsOnce
<1>3. PacksNamed'
  BY <1>1 DEF PacksNamed
<1>4. ManifestsNamed'
  BY <1>1 DEF ManifestsNamed
<1>5. IndexTold'
  <2>1. index' # None \/ step' \in TagSteps =>
            Len(manifests) = Len(list) /\ index.entries = [k \in DOMAIN list |-> EntryFor(k)]
    BY <1>1 DEF IndexTold
  <2>2. \A k : EntryFor(k)' = EntryFor(k)
    BY SitesStay
  <2> QED
    BY <2>1, <2>2 DEF IndexTold
<1> QED
  BY <1>2, <1>3, <1>4, <1>5 DEF SiteInv

\* A step that leaves what is tagged too.
LEMMA SitesGoOn ==
    ASSUME SiteInv, UNCHANGED <<sbom, list, dir, plans, manifests, index, tagging, sites, placed>>,
           step' \in SiteSteps, step' = "build" <=> step = "build",
           step' = "upload" => DOMAIN plans = Range(list),
           step' = "sites" => Len(manifests) = Len(list),
           step' \in TagSteps => step \in TagSteps /\ (step' = "tag" <=> step = "tag"),
           step' \in Unindexed => index = None
    PROVE  SiteInv'
<1>1. TagsPlaced
  BY DEF SiteInv
<1>2. /\ PlannedSites' = PlannedSites /\ Unplaced' = Unplaced /\ SitePlan' = SitePlan
      /\ \A p : Placed(p)' = Placed(p)
  BY SitesStay DEF Placed
<1>3. SitesLeft' = SitesLeft
  BY <1>2 DEF SitesLeft
<1>4. TagsPlaced'
  BY <1>1, <1>2, <1>3 DEF TagsPlaced
<1> QED
  BY <1>4, QuietSites

\* A push that fails leaves all that was there.
LEMMA FailSites ==
    ASSUME SiteInv, Fail, step # "build"
    PROVE  SiteInv'
BY SitesGoOn DEF Fail, asked, directories, packing, beside, SiteSteps, Steps, TagSteps, Unindexed

\* The steps that change neither the plan nor the index nor a tag.
LEMMA OtherSteps ==
    ASSUME SiteInv,
           \/ UNCHANGED packVars \/ StartUploads \/ PushSBOM \/ Stop \/ Restored
           \/ \E i \in DOMAIN layers : HashLayer(i) \/ PushLayer(i)
           \/ \E c \in Ref : PullComponent(c)
           \/ \E p \in Path : RestoreFile(p)
    PROVE  SiteInv'
<1>1. /\ step \in SiteSteps
      /\ step = "upload" => DOMAIN plans = Range(list)
      /\ step = "sites" => Len(manifests) = Len(list)
      /\ step \in Unindexed => index = None
  BY DEF SiteInv, PacksNamed, ManifestsNamed, IndexTold
<1> DEFINE Quiet == UNCHANGED <<sbom, list, dir, plans, manifests, index, tagging, sites, placed>>
<1>2. CASE UNCHANGED packVars
  <2>1. Quiet /\ step' = step
    BY <1>2 DEF packVars, asked, directories, packing, beside
  <2> QED
    BY <1>1, <2>1, SitesGoOn
<1>3. CASE StartUploads
  <2>1. Quiet /\ step = "plan" /\ step' = "upload" /\ DOMAIN plans = Range(list)
    BY <1>3 DEF StartUploads, asked, directories, beside
  <2> QED
    BY <1>1, <2>1, SitesGoOn DEF SiteSteps, Steps, TagSteps, Unindexed
<1>4. CASE PushSBOM
  <2>1. Quiet /\ step = "upload" /\ step' = "sites" /\ Len(manifests) = Len(list)
    BY <1>4 DEF PushSBOM, asked, directories, packing, beside
  <2> QED
    BY <1>1, <2>1, SitesGoOn DEF SiteSteps, Steps, TagSteps, Unindexed
<1>5. CASE Stop
  BY <1>5, FailSites DEF Stop
<1>6. CASE Restored
  <2>1. Quiet /\ step = "restore" /\ step' = "restored"
    BY <1>6 DEF Restored, asked, directories, packing, beside
  <2> QED
    BY <1>1, <2>1, SitesGoOn DEF SiteSteps, Steps, TagSteps, Unindexed
<1>7. ASSUME NEW i \in DOMAIN layers, HashLayer(i) \/ PushLayer(i)
      PROVE  SiteInv'
  <2>1. step = "upload" /\ (Fail \/ (Quiet /\ step' = step))
    BY <1>7 DEF HashLayer, PushLayer, Running, asked, directories, beside
  <2>2. CASE Fail
    BY <2>1, <2>2, FailSites
  <2>3. CASE Quiet /\ step' = step
    BY <1>1, <2>3, SitesGoOn
  <2> QED
    BY <2>1, <2>2, <2>3
<1>8. ASSUME NEW c \in Ref, PullComponent(c)
      PROVE  SiteInv'
  <2>1. Quiet /\ step = "pushed" /\ step' \in {"restore", "unrestorable"}
    BY <1>8 DEF PullComponent, asked, directories, packing, beside
  <2> QED
    BY <1>1, <2>1, SitesGoOn DEF SiteSteps, Steps, TagSteps, Unindexed
<1>9. ASSUME NEW p \in Path, RestoreFile(p)
      PROVE  SiteInv'
  <2>1. Quiet /\ step = "restore" /\ step' \in {"restore", "unrestorable"}
    BY <1>9 DEF RestoreFile, asked, directories, packing, beside
  <2> QED
    BY <1>1, <2>1, SitesGoOn DEF SiteSteps, Steps, TagSteps, Unindexed
<1> QED
  BY <1>2, <1>3, <1>4, <1>5, <1>6, <1>7, <1>8, <1>9

\* A build records an SBOM whose components are refs.
LEMMA BuildsSites ==
    ASSUME SiteInv, UnionInv, Build
    PROVE  SiteInv'
<1>1. /\ step = "build" /\ step' = "idle" /\ list' = list /\ dir' = dir /\ plans' = plans
      /\ manifests' = manifests /\ index' = index
      /\ \/ doing = "composed" /\ sbom' = SetToSeq(DOMAIN composed.components)
         \/ sbom' \in Handwritten
  BY DEF Build, directories, packing, beside
<1>2. ListsOnce /\ PacksNamed /\ ManifestsNamed /\ IndexTold
  BY DEF SiteInv
<1>3. list = <<>> /\ index = None
  BY <1>1, <1>2 DEF ListsOnce, IndexTold, Unindexed
<1>4. sbom' \in Seq(Ref)
  BY <1>1, RecordsRefs
<1>5. ListsOnce'
  BY <1>1, <1>2, <1>4 DEF ListsOnce
<1>6. PacksNamed' /\ ManifestsNamed'
  BY <1>1, <1>2 DEF PacksNamed, ManifestsNamed
<1>7. IndexTold' /\ TagsPlaced'
  BY <1>1, <1>3 DEF IndexTold, TagsPlaced, TagSteps
<1> QED
  BY <1>1, <1>5, <1>6, <1>7 DEF SiteInv, SiteSteps, Steps

\* A push begins with what its SBOM lists, and with no index.
LEMMA PushesSites ==
    ASSUME SiteInv, NEW tags, Push(tags)
    PROVE  SiteInv'
<1>1. /\ step # "build" /\ step' = "plan" /\ list' = Unique(sbom) /\ sbom' = sbom /\ dir' = dir
      /\ plans' = <<>> /\ manifests' = <<>> /\ index' = None
  BY DEF Push
<1>2. ListsOnce /\ PacksNamed /\ sbom \in Seq(Ref)
  BY <1>1 DEF SiteInv, ListsOnce
<1>3. ListsOnce'
  BY <1>1, <1>2, UniqueIsOnce DEF ListsOnce
<1>4. <<>> \in Seq(Range(<<>>)) /\ Len(<<>>) = 0 /\ DOMAIN <<>> = {}
  OBVIOUS
<1>5. PacksNamed'
  BY <1>1, <1>2, <1>4 DEF PacksNamed
<1>6. list' \in Seq(Ref)
  BY <1>3 DEF ListsOnce
<1>7. Len(list') \in Nat
  BY <1>6
<1>8. ManifestsNamed'
  BY <1>1, <1>4, <1>7 DEF ManifestsNamed
<1>9. IndexTold' /\ TagsPlaced'
  BY <1>1 DEF IndexTold, TagsPlaced, TagSteps
<1> QED
  BY <1>1, <1>3, <1>5, <1>8, <1>9 DEF SiteInv, SiteSteps, Steps

\* What a plugin says is the manifest is some content.
LEMMA PacksContent ==
    ASSUME NEW c \in Ref, dir[c] # None, dir \in [Ref -> Directory \cup {None}],
           NEW answer \in Answers[c], answer # None, answer.manifest # None, Sound(answer, dir[c])
    PROVE  DigestOf(answer.manifest, dir[c]) \in Content
<1> DEFINE b == answer.manifest
<1>1. b \in Blob
  BY PackAssumption
<1>2. b.path \in Path \cup {None} /\ b.data \in Content \cup {None} /\ b.says \in Content \cup {None}
  BY <1>1 DEF Blob
<1>3. /\ (b.path = None) # (b.data = None)
      /\ b.path # None => b.path \in DOMAIN dir[c] /\ dir[c][b.path] # Link
  BY DEF Sound
<1>4. dir[c] \in [DOMAIN dir[c] -> Content]
  BY DirectoryIs
<1> HIDE DEF b
<1>5. CASE b.path = None
  BY <1>2, <1>3, <1>5 DEF DigestOf, b
<1>6. CASE b.path # None /\ b.says # None
  BY <1>2, <1>6 DEF DigestOf, b
<1>7. CASE b.path # None /\ b.says = None
  <2>1. DigestOf(b, dir[c]) = dir[c][b.path]
    BY <1>7 DEF DigestOf
  <2> QED
    BY <1>3, <1>4, <1>7, <2>1 DEF b
<1> QED
  BY <1>5, <1>6, <1>7

\* A plan names its manifest.
LEMMA PlansSites ==
    ASSUME SiteInv, NEW c \in Ref, PlanComponent(c)
    PROVE  SiteInv'
<1>1. step = "plan" /\ dir \in [Ref -> Directory \cup {None}]
  BY DEF PlanComponent, SiteInv, PacksNamed
<1>2. CASE Fail
  BY <1>1, <1>2, FailSites
<1>3. CASE ~Fail
  <2>1. dir[c] # None
    BY <1>3 DEF PlanComponent
  <2> DEFINE Packs(answer) == answer # None /\ answer.manifest # None
             New(answer) == [d \in DOMAIN plans \cup {c} |->
                                CASE d # c -> plans[d]
                                  [] d = c /\ Packs(answer) -> PackedPlan(answer, dir[c])
                                  [] d = c /\ ~Packs(answer) -> FilesPlan(c, dir[c])]
  <2>0. PICK answer \in AnswersOf(c) :
            /\ Packs(answer) => Sound(answer, dir[c])
            /\ plans' = New(answer)
            /\ UNCHANGED <<step, asked, directories, layers, hashed, manifests, beside, stored, restored>>
    BY <1>3, <2>1, Zenon DEF PlanComponent
  <2>2. /\ answer \in Answers[c] /\ (Packs(answer) => Sound(answer, dir[c]))
        /\ plans' = New(answer)
    BY <2>0 DEF AnswersOf
  <2>3. /\ step' = step /\ sbom' = sbom /\ list' = list /\ dir' = dir
        /\ manifests' = manifests /\ index' = index
    BY <2>0 DEF asked, directories, beside
  <2>4. ASSUME NEW d \in DOMAIN plans', plans'[d].format = "packed"
        PROVE  plans'[d].manifest \in Content
    <3>1. CASE d # c
      <4>1. d \in DOMAIN plans /\ plans'[d] = plans[d]
        BY <2>2, <3>1
      <4> QED
        BY <2>4, <4>1 DEF SiteInv, PacksNamed
    <3>2. CASE d = c /\ Packs(answer)
      <4>1. plans'[d] = PackedPlan(answer, dir[c])
        BY <2>2, <3>2
      <4>2. PackedPlan(answer, dir[c]).manifest = DigestOf(answer.manifest, dir[c])
        BY Zenon DEF PackedPlan, Planned
      <4>3. DigestOf(answer.manifest, dir[c]) \in Content
        BY <1>1, <2>1, <2>2, <3>2, PacksContent
      <4> QED
        BY <4>1, <4>2, <4>3
    <3>3. CASE d = c /\ ~Packs(answer)
      <4>1. plans'[d] = FilesPlan(c, dir[c])
        BY <2>2, <3>3
      <4>2. FilesPlan(c, dir[c]).format # "packed"
        BY DEF FilesPlan, Planned
      <4> QED
        BY <2>4, <4>1, <4>2
    <3> QED
      BY <3>1, <3>2, <3>3
  <2>5. ListsOnce' /\ PacksNamed' /\ ManifestsNamed'
    BY <1>1, <2>3, <2>4 DEF SiteInv, ListsOnce, PacksNamed, ManifestsNamed
  <2>6. IndexTold' /\ TagsPlaced'
    BY <1>1, <2>3 DEF SiteInv, IndexTold, TagsPlaced, TagSteps, Unindexed
  <2> QED
    BY <1>1, <2>3, <2>5, <2>6 DEF SiteInv, SiteSteps, Steps
<1> QED
  BY <1>2, <1>3

\* A file that is rewritten holds content still.
LEMMA RewritesSites ==
    ASSUME SiteInv, NEW c \in Ref, NEW p \in Path, NEW content \in Rewrites, Rewrite(c, p, content)
    PROVE  SiteInv'
<1>1. /\ step' = step /\ p \in DOMAIN dir[c] /\ dir' = [dir EXCEPT ![c][p] = content] /\ dir[c] # None
      /\ UNCHANGED <<sbom, list, tagging, plans, manifests, index, sites, placed>>
  BY DEF Rewrite, asked, packing, beside
<1>2. ListsOnce /\ PacksNamed /\ ManifestsNamed /\ IndexTold /\ TagsPlaced
  BY DEF SiteInv
<1>3. dir \in [Ref -> Directory \cup {None}] /\ content \in Content
  BY <1>2, PackAssumption DEF PacksNamed
<1>4. dir[c] \in Directory
  BY <1>1, <1>3
<1> DEFINE new == [dir[c] EXCEPT ![p] = content]
<1>5. new \in Directory
  <2>1. dir[c] \in [DOMAIN dir[c] -> Content] /\ IsFiniteSet(DOMAIN dir[c]) /\ DOMAIN dir[c] \subseteq Path
    BY <1>4, DirectoryIs
  <2>2. new \in [DOMAIN dir[c] -> Content]
    BY <1>3, <2>1
  <2> QED
    BY <2>1, <2>2 DEF Directory
<1>6. dir' = [dir EXCEPT ![c] = new]
  BY <1>1
<1> HIDE DEF new
<1>7. dir' \in [Ref -> Directory \cup {None}]
  BY <1>3, <1>5, <1>6
<1>8. ListsOnce' /\ PacksNamed' /\ ManifestsNamed'
  BY <1>1, <1>2, <1>7 DEF ListsOnce, PacksNamed, ManifestsNamed
<1>9. /\ PlannedSites' = PlannedSites /\ Unplaced' = Unplaced /\ SitePlan' = SitePlan
      /\ \A k : EntryFor(k)' = EntryFor(k)
      /\ \A q : Placed(q)' = Placed(q)
  BY <1>1, SitesStay DEF Placed
<1>10. SitesLeft' = SitesLeft
  BY <1>1, <1>9 DEF SitesLeft
<1>11. IndexTold' /\ TagsPlaced'
  BY <1>1, <1>2, <1>9, <1>10 DEF IndexTold, TagsPlaced
<1> QED
  BY <1>1, <1>8, <1>11 DEF SiteInv

\* A component's manifest is the one that its plugin names, or one of bomify's.
LEMMA ManifestsSites ==
    ASSUME SiteInv, PushManifest
    PROVE  SiteInv'
<1>1. step = "upload"
  BY DEF PushManifest
<1>2. CASE Fail
  BY <1>1, <1>2, FailSites
<1>3. CASE ~Fail
  <2> DEFINE k == Len(manifests) + 1
             made == EntryOf(k)
  <2>1. /\ Len(manifests) < Len(list) /\ manifests' = Append(manifests, made) /\ step' = step
        /\ sbom' = sbom /\ list' = list /\ dir' = dir /\ plans' = plans /\ index' = index
    BY <1>3, PushManifestDoes DEF asked, directories, beside
  <2>2. ListsOnce /\ PacksNamed /\ ManifestsNamed /\ IndexTold
    BY DEF SiteInv
  <2>3. list \in Seq(Ref) /\ DOMAIN plans = Range(list)
    BY <1>1, <2>2 DEF ListsOnce, PacksNamed
  <2>4. manifests \in Seq(Range(manifests)) /\ k \in DOMAIN list /\ Len(manifests) \in Nat
    <3>1. manifests \in Seq(Range(manifests))
      BY <2>2 DEF ManifestsNamed
    <3>2. Len(manifests) \in Nat
      BY <3>1
    <3> QED
      BY <2>1, <2>3, <3>1, <3>2
  <2>5. IsDesc(made.desc)
    <3>1. made.desc = DescOf(k)
      BY DEF EntryOf
    <3>2. list[k] \in DOMAIN plans
      BY <2>3, <2>4 DEF Range
    <3>3. CASE plans[list[k]].format = "packed"
      BY <2>2, <3>1, <3>2, <3>3 DEF DescOf, PacksNamed, IsDesc
    <3>4. CASE plans[list[k]].format # "packed"
      <4>1. \E kind, of, names : DescOf(k) = Manifest(kind, of, names)
        BY <3>4 DEF DescOf
      <4> QED
        BY <3>1, <4>1 DEF IsDesc, Manifest
    <3> QED
      BY <3>3, <3>4
  <2> HIDE DEF made
  <2>6. /\ manifests' \in Seq(Range(manifests) \cup {made}) /\ Len(manifests') = k
        /\ DOMAIN manifests' = DOMAIN manifests \cup {k}
        /\ manifests'[k] = made /\ \A i \in DOMAIN manifests : manifests'[i] = manifests[i]
    BY <2>1, <2>4
  <2>7. manifests' \in Seq(Range(manifests'))
    BY <2>6 DEF Range
  <2>8. \A i \in DOMAIN manifests' : IsDesc(manifests'[i].desc)
    BY <2>2, <2>5, <2>6 DEF ManifestsNamed
  <2>9. ManifestsNamed'
    <3>1. k <= Len(list)
      BY <2>1, <2>3, <2>4
    <3> HIDE DEF k
    <3> QED
      BY <1>1, <2>1, <2>6, <2>7, <2>8, <3>1 DEF ManifestsNamed, IsDesc
  <2>10. ListsOnce' /\ PacksNamed'
    BY <2>1, <2>2 DEF ListsOnce, PacksNamed
  <2>11. IndexTold' /\ TagsPlaced'
    BY <1>1, <2>1, <2>2 DEF IndexTold, TagsPlaced, TagSteps, Unindexed
  <2> QED
    BY <1>1, <2>1, <2>9, <2>10, <2>11 DEF SiteInv, SiteSteps, Steps
<1> QED
  BY <1>2, <1>3

\* An index is of what was planned, and of all of it if the push tags.
LEMMA IndexSites ==
    ASSUME SiteInv, PushIndex
    PROVE  SiteInv'
<1>1. step = "sites"
  BY DEF PushIndex
<1>2. CASE Fail
  BY <1>1, <1>2, FailSites
<1>3. CASE ~Fail
  <2> DEFINE unplaced == {c \in Range(list) : SitedBy(PlannedSites, c) = {}}
             entry(k) == [purl |-> list[k], desc |-> manifests[k].desc,
                          reference |-> IF list[k] \in unplaced THEN None
                              ELSE Reference(PlannedSites[CHOOSE i \in SitedBy(PlannedSites, list[k]) : TRUE].site)]
  <2>1. /\ tagging => unplaced = {}
        /\ sites' = PlannedSites
        /\ index' = [sbom |-> SBOMLayers, entries |-> [k \in DOMAIN list |-> entry(k)]]
        /\ step' = IF tagging THEN "tag" ELSE "pushed"
        /\ UNCHANGED <<asked, directories, packing, placed, stored, restored>>
    BY <1>3 DEF PushIndex
  <2>2. unplaced = Unplaced /\ \A k : entry(k) = EntryFor(k)
    BY DEF Unplaced, EntryFor
  <2> HIDE DEF unplaced, entry
  <2>3. index'.entries = [k \in DOMAIN list |-> EntryFor(k)]
    BY <2>1, <2>2
  <2>4. /\ sbom' = sbom /\ list' = list /\ tagging' = tagging /\ dir' = dir
        /\ plans' = plans /\ manifests' = manifests
    BY <2>1 DEF asked, directories, packing
  <2>5. /\ PlannedSites' = PlannedSites /\ Unplaced' = Unplaced /\ SitePlan' = SitePlan
        /\ \A k : EntryFor(k)' = EntryFor(k)
    BY <2>4, SitesStay
  <2>6. ListsOnce /\ PacksNamed /\ ManifestsNamed /\ Len(manifests) = Len(list)
    BY <1>1 DEF SiteInv, ManifestsNamed
  <2>7. list \in Seq(Ref)
    BY <1>1, <2>6 DEF ListsOnce
  <2>8. PlannedSites \in Seq(SitePlan) /\ Len(PlannedSites) \in Nat
    <3>1. PlannedSites \in Seq(SitePlan)
      BY <2>6, <2>7, AllAreMade, PlannedHolds DEF SitesHold
    <3> QED
      BY <3>1
  <2>9. step' \in {"tag", "pushed"} /\ (tagging => step' = "tag")
    BY <2>1
  <2>10. TagsPlaced'
    <3> SUFFICES ASSUME tagging
                 PROVE  TagsPlaced'
      BY <2>4 DEF TagsPlaced
    <3>1. Unplaced' = {} /\ step' = "tag"
      BY <2>1, <2>2, <2>5, <2>9
    <3>2. sites' = PlannedSites' /\ sites' \in Seq(SitePlan)' /\ Len(PlannedSites') \in Nat
      BY <2>1, <2>5, <2>8
    <3>3. SitesLeft'
      <4>1. /\ 0 \in 0..Len(PlannedSites') /\ Len(sites') = Len(PlannedSites') - 0
            /\ \A i \in 1..Len(sites') : sites'[i] = PlannedSites'[0 + i]
            /\ 1..0 = {}
        BY <3>2
      <4> QED
        BY <3>2, <4>1 DEF SitesLeft
    <3> QED
      BY <3>1, <3>3 DEF TagsPlaced
  <2>11. ListsOnce' /\ PacksNamed' /\ ManifestsNamed'
    BY <1>1, <2>4, <2>6, <2>9 DEF ListsOnce, PacksNamed, ManifestsNamed
  <2>12. IndexTold'
    BY <2>3, <2>4, <2>5, <2>6, <2>9 DEF IndexTold, Unindexed
  <2> QED
    BY <2>9, <2>10, <2>11, <2>12 DEF SiteInv, SiteSteps, Steps
<1> QED
  BY <1>2, <1>3

\* A site is tagged, and those tagged before it stay as they are.
LEMMA TagsSites ==
    ASSUME SiteInv, Tagged, TagSite
    PROVE  SiteInv'
<1>1. /\ step = "tag" /\ step' = step /\ sites # <<>> /\ sites' = Tail(sites)
      /\ placed' = [reference \in DOMAIN placed \cup {ReferenceTo(sites[1])} |->
                        IF reference = ReferenceTo(sites[1]) THEN Named(sites[1]) ELSE placed[reference]]
      /\ UNCHANGED <<sbom, list, tagging, dir, plans, manifests, index>>
  BY DEF TagSite, asked, directories, packing
<1>2. /\ ListsOnce /\ ManifestsNamed /\ IndexTold /\ TagsPlaced
      /\ list \in Seq(Ref) /\ Len(manifests) = Len(list)
  BY <1>1 DEF SiteInv, ListsOnce, IndexTold, TagSteps
<1>3. AllMade
  BY <1>2, AllAreMade
<1> DEFINE P == PlannedSites
<1>4. SitesHold(P, Len(list))
  BY <1>3, PlannedHolds
<1>5. /\ P' = P /\ Unplaced' = Unplaced /\ SitePlan' = SitePlan
  BY <1>1, SitesStay
<1>6. P \in Seq(SitePlan) /\ Len(P) \in Nat /\ DOMAIN P = 1..Len(P)
  BY <1>4 DEF SitesHold
<1>7. ASSUME tagging
      PROVE  SitesLeft'
  <2>1. SitesLeft
    BY <1>1, <1>2, <1>7 DEF TagsPlaced, TagSteps
  <2>2. PICK done \in 0..Len(P) :
            /\ Len(sites) = Len(P) - done
            /\ \A i \in 1..Len(sites) : sites[i] = P[done + i]
            /\ \A i \in 1..done : Placed(P[i])
    BY <2>1 DEF SitesLeft
  <2> HIDE DEF P
  <2>3. sites \in Seq(SitePlan)
    BY <2>1 DEF SitesLeft
  <2>4. /\ Len(sites) \in Nat \ {0} /\ sites' \in Seq(SitePlan) /\ Len(sites') = Len(sites) - 1
        /\ \A i \in 1..(Len(sites) - 1) : sites'[i] = sites[i + 1]
    BY <1>1, <2>3
  <2> DEFINE d == done + 1
  <2>5. /\ d \in 1..Len(P) /\ d \in DOMAIN P /\ d \in 0..Len(P) /\ d \in Nat /\ done \in Nat
        /\ sites[1] = P[d] /\ Len(sites') = Len(P) - d
    <3>1. Len(P) \in Nat /\ DOMAIN P = 1..Len(P)
      BY <1>6
    <3>2. done \in Nat /\ Len(sites) = Len(P) - done /\ Len(sites) \in Nat \ {0}
      BY <2>2, <2>4, <3>1
    <3>3. d \in 1..Len(P) /\ d \in 0..Len(P) /\ d \in Nat /\ Len(sites) - 1 = Len(P) - d
      <4>1. ASSUME NEW a \in Nat, NEW b \in Nat \ {0}, NEW e \in Nat, b = a - e
            PROVE  e + 1 \in 1..a /\ e + 1 \in 0..a /\ e + 1 \in Nat /\ b - 1 = a - (e + 1)
        BY <4>1
      <4> QED
        BY <3>1, <3>2, <4>1
    <3>4. 1 \in 1..Len(sites)
      BY <3>2
    <3>5. sites[1] = P[done + 1]
      BY <2>2, <3>4
    <3> QED
      BY <2>4, <3>1, <3>2, <3>3, <3>5
  <2>6. \A i \in 1..Len(sites') : sites'[i] = P[d + i]
    <3> SUFFICES ASSUME NEW i \in 1..Len(sites')
                 PROVE  sites'[i] = P[d + i]
      OBVIOUS
    <3>1. Len(sites) \in Nat /\ Len(sites') = Len(sites) - 1
      BY <2>4
    <3>2. i + 1 \in 1..Len(sites) /\ i \in 1..(Len(sites) - 1)
      BY <3>1
    <3>3. done + (i + 1) = d + i
      BY <2>5, <3>1
    <3>4. sites[i + 1] = P[done + (i + 1)]
      BY <2>2, <3>2
    <3> QED
      BY <2>4, <3>2, <3>3, <3>4
  <2>7. ASSUME NEW i \in 1..d
        PROVE  i \in DOMAIN P /\ P[i] \in SitePlan /\ P[i].site # None /\ (i # d => i \in 1..done)
    <3>1. i \in 1..Len(P) /\ (i # d => i \in 1..done)
      BY <1>6, <2>5
    <3> HIDE DEF d
    <3>2. i \in DOMAIN P /\ P[i] \in SitePlan
      BY <1>6, <3>1
    <3> QED
      BY <1>4, <3>1, <3>2 DEF SitesHold
  <2> HIDE DEF d
  <2>8. ASSUME NEW i \in 1..d
        PROVE  Placed(P[i])'
    <3> SUFFICES ASSUME P[i].site.tag # None
                 PROVE  /\ Reference(P[i].site) \in DOMAIN placed'
                        /\ placed'[Reference(P[i].site)] = Named(P[i])
      BY <1>5 DEF Placed
    <3>1. CASE i = d
      <4>1. ReferenceTo(sites[1]) = Reference(P[i].site) /\ Named(sites[1]) = Named(P[i])
        BY <2>5, <3>1 DEF ReferenceTo
      <4> QED
        BY <1>1, <4>1
    <3>2. CASE i # d
      <4>1. Reference(P[i].site) \in DOMAIN placed /\ placed[Reference(P[i].site)] = Named(P[i])
        BY <2>2, <2>7, <3>2 DEF Placed
      <4>2. Reference(P[i].site) # Reference(P[d].site)
        BY <1>4, <2>5, <2>7, <3>2 DEF SitesHold
      <4>3. IsDesc(Named(P[d]))
        BY <1>2, <2>5, <2>7, <1>6, NamedIs DEF ManifestsNamed
      <4>4. ReferenceTo(P[d]) # Reference(P[i].site)
        BY <1>6, <2>5, <2>7, <4>2, <4>3, PlacedApart
      <4> QED
        BY <1>1, <2>5, <4>1, <4>4
    <3> QED
      BY <3>1, <3>2
  <2> QED
    BY <1>5, <2>4, <2>5, <2>6, <2>8 DEF SitesLeft, P
<1>8. TagsPlaced'
  BY <1>1, <1>2, <1>5, <1>7 DEF TagsPlaced
<1> QED
  BY <1>1, <1>8, QuietSites DEF SiteInv, PacksNamed, ManifestsNamed, IndexTold

\* When no site is left, all have been tagged.
LEMMA TaggedSites ==
    ASSUME SiteInv, TagPackage
    PROVE  SiteInv'
<1>1. /\ step = "tag" /\ step' = "pushed" /\ sites = <<>>
      /\ UNCHANGED <<sbom, list, tagging, dir, plans, manifests, index, sites, placed>>
  BY DEF TagPackage, asked, directories, packing, beside
<1>2. TagsPlaced /\ IndexTold /\ ManifestsNamed /\ ListsOnce /\ list \in Seq(Ref) /\ Len(manifests) = Len(list)
  BY <1>1 DEF SiteInv, ListsOnce, IndexTold, TagSteps
<1>3. PlannedSites' = PlannedSites /\ Unplaced' = Unplaced /\ \A p : Placed(p)' = Placed(p)
  BY <1>1, SitesStay DEF Placed
<1>4. PlannedSites \in Seq(SitePlan)
  BY <1>2, AllAreMade, PlannedHolds DEF SitesHold
<1>5. ASSUME tagging
      PROVE  \A i \in DOMAIN PlannedSites : Placed(PlannedSites[i])
  <2>1. PICK done \in 0..Len(PlannedSites) :
            Len(sites) = Len(PlannedSites) - done /\ \A i \in 1..done : Placed(PlannedSites[i])
    BY <1>1, <1>2, <1>5 DEF TagsPlaced, TagSteps, SitesLeft
  <2>2. done = Len(PlannedSites) /\ DOMAIN PlannedSites = 1..done
    BY <1>1, <1>4, <2>1
  <2> QED
    BY <2>1, <2>2
<1>6. TagsPlaced'
  BY <1>1, <1>2, <1>3, <1>5 DEF TagsPlaced, TagSteps
<1> QED
  BY <1>1, <1>6, QuietSites DEF SiteSteps, Steps, TagSteps, Unindexed

\* Each step keeps it.
LEMMA SiteStep ==
    ASSUME SiteInv, UnionInv, Tagged, [Next]_vars
    PROVE  SiteInv'
<1>1. CASE UNCHANGED packVars
  BY <1>1, OtherSteps
<1>2. CASE Build
  BY <1>2, BuildsSites
<1>3. CASE PackNext
  <2>1. CASE \E tags \in BOOLEAN : Push(tags)
    BY <2>1, PushesSites
  <2>2. ASSUME NEW c \in Ref, PlanComponent(c)
        PROVE  SiteInv'
    BY <2>2, PlansSites
  <2>3. ASSUME NEW c \in Ref, NEW p \in Path, NEW content \in Rewrites, Rewrite(c, p, content)
        PROVE  SiteInv'
    BY <2>3, RewritesSites
  <2>4. CASE PushManifest
    BY <2>4, ManifestsSites
  <2>5. CASE PushIndex
    BY <2>5, IndexSites
  <2>6. CASE TagSite
    BY <2>6, TagsSites
  <2>7. CASE TagPackage
    BY <2>7, TaggedSites
  <2>8. CASE \/ StartUploads \/ PushSBOM \/ Stop \/ Restored
             \/ \E i \in DOMAIN layers : HashLayer(i) \/ PushLayer(i)
             \/ \E c \in Ref : PullComponent(c)
             \/ \E p \in Path : RestoreFile(p)
    BY <2>8, OtherSteps
  <2> QED
    BY <1>3, <2>1, <2>2, <2>3, <2>4, <2>5, <2>6, <2>7, <2>8 DEF PackNext
<1> QED
  BY <1>1, <1>2, <1>3 DEF Next, vars

\* Before the build there is nothing.
LEMMA SiteInit ==
    ASSUME Init
    PROVE  SiteInv
<1>1. step = "build" /\ list = <<>> /\ dir = Dirs /\ plans = <<>> /\ manifests = <<>> /\ index = None
  BY DEF Init
<1>2. <<>> \in Seq(Range(<<>>)) /\ Len(<<>>) = 0 /\ DOMAIN <<>> = {}
  OBVIOUS
<1>3. ListsOnce /\ PacksNamed /\ ManifestsNamed
  BY <1>1, <1>2, PackAssumption DEF ListsOnce, PacksNamed, ManifestsNamed
<1>4. IndexTold /\ TagsPlaced
  BY <1>1 DEF IndexTold, TagsPlaced, TagSteps
<1> QED
  BY <1>1, <1>3, <1>4 DEF SiteInv, SiteSteps, Steps

\* What the invariant says of the references that the index gives.
LEMMA SitesTold ==
    ASSUME SiteInv, Tagged, Plain
    PROVE  SitesTell
<1> SUFFICES ASSUME index # None
             PROVE  SitesTell
  BY DEF SitesTell
<1>1. /\ index.entries = [k \in DOMAIN list |-> EntryFor(k)] /\ Len(manifests) = Len(list)
      /\ step \in SiteSteps /\ step \notin Unindexed
      /\ ListsOnce /\ ManifestsNamed /\ TagsPlaced
  BY DEF SiteInv, IndexTold
<1>2. list \in Seq(Ref)
  BY <1>1 DEF ListsOnce, Unindexed
<1>3. AllMade
  BY <1>1, <1>2, AllAreMade
<1>4. /\ \A k \in DOMAIN list : EntryFor(k) \in Entries
      /\ \A e \in Entries : \E k \in DOMAIN list : e = EntryFor(k)
  BY <1>1 DEF Entries, Range
<1>5. ASSUME NEW e \in Entries, NEW f \in Entries,
             e.reference # None, e.reference = f.reference, e.desc # f.desc
      PROVE  \E g, h \in Entries :
                /\ g.desc = e.desc /\ h.desc = f.desc
                /\ g.reference = e.reference /\ h.reference = e.reference
                /\ IsOtherPlatformOf(SiteOf(g.purl), SiteOf(h.purl))
  <2>1. PICK k \in DOMAIN list : e = EntryFor(k)
    BY <1>4
  <2>2. PICK l \in DOMAIN list : f = EntryFor(l)
    BY <1>4
  <2>3. PICK g, h \in DOMAIN list :
            /\ EntryFor(g).desc = e.desc /\ EntryFor(h).desc = f.desc
            /\ EntryFor(g).reference = e.reference /\ EntryFor(h).reference = e.reference
            /\ IsOtherPlatformOf(SiteOf(EntryFor(g).purl), SiteOf(EntryFor(h).purl))
    BY <1>3, <1>5, <2>1, <2>2, ReferencesTell
  <2>4. EntryFor(g) \in Entries /\ EntryFor(h) \in Entries
    BY <1>4
  <2> QED
    BY <2>3, <2>4, Zenon
<1>6. ASSUME tagging, step \notin {"tag", "failed"}, NEW e \in Entries
      PROVE  /\ e.reference # None
             /\ SiteOf(e.purl).tag # None =>
                LET named == placed[e.reference] IN
                \/ named = e.desc
                \/ named \notin Content /\ named.kind = "platforms"
                    /\ \E m \in Range(named.names) : m.desc = e.desc
  <2>1. PICK k \in DOMAIN list : e = EntryFor(k)
    BY <1>4
  <2>2. step \in TagSteps
    BY <1>1, <1>6 DEF SiteSteps, Steps, Unindexed, TagSteps
  <2>3. Unplaced = {} /\ \A i \in DOMAIN PlannedSites : Placed(PlannedSites[i])
    BY <1>1, <1>6, <2>2 DEF TagsPlaced
  <2> QED
    BY <1>3, <2>1, <2>3, TagsHold
<1> QED
  BY <1>5, <1>6, Zenon DEF SitesTell

\* "Components sharing a site must be the same manifest, or platforms of one
\* component": whatever SBOM is pushed, however plugins answer and whatever is
\* rewritten or fails meanwhile, a reference in the index tells its component's
\* manifest from others, and once a push that tags is done it names that manifest,
\* alone or as one platform of several (planSites and tagAll).  A tag has no
\* digest's form, nor a file that of a manifest that bomify makes.
THEOREM SitesAreTold ==
    ASSUME Tagged, Plain
    PROVE  Spec => []SitesTell
<1>1. Init => UnionInv /\ SiteInv
  BY SiteInit DEF Init, ComposeInit, Idle, UnionInv, Nothing
<1>2. UnionInv /\ SiteInv /\ [Next]_vars => UnionInv' /\ SiteInv'
  BY UnionStep, SiteStep
<1>3. SiteInv => SitesTell
  BY SitesTold
<1> QED
  BY <1>1, <1>2, <1>3, PTL DEF Spec

=============================================================================

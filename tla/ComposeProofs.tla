---------------------------- MODULE ComposeProofs ----------------------------
(***************************************************************************)
(* Theorems about Compose, in Packing, for any compositions, SBOM files    *)
(* and plugins: merging the parts one after the other composes exactly the *)
(* union of what they list, and of their dependencies but for those that a *)
(* later part drops with its root, or refuses when there is none.          *)
(***************************************************************************)
EXTENDS Packing, FiniteSetTheorems, SequenceTheorems, WellFoundedInduction, TLAPS

\* A set of numbers that is not empty has a least one.
LEMMA LeastExists ==
    ASSUME NEW S, S \subseteq Nat, S # {}
    PROVE  \E x \in S : \A y \in S : x <= y
<1> DEFINE Less == OpToRel(<, Nat)
<1>1. IsWellFoundedOn(Less, Nat)
  BY NatLessThanWellFounded, Zenon
<1>2. \A x, y \in Nat : <<y, x>> \in Less <=> y < x
  BY Zenon DEF OpToRel
<1> HIDE DEF Less
<1>3. PICK x \in S : \A y \in S : ~ (<<y, x>> \in Less)
  BY <1>1, WFMin
<1>4. \A y \in S : ~(y < x)
  BY <1>2, <1>3
<1> QED
  BY <1>4

\* Min gives the least of a set of numbers.
LEMMA LeastOf ==
    ASSUME NEW S, S \subseteq Nat, S # {}
    PROVE  Min(S) \in S /\ \A y \in S : Min(S) <= y
BY LeastExists DEF Min

\* What a list holds of a ref that it lists.
LEMMA FirstIsListed ==
    ASSUME NEW l, NEW n \in Nat, DOMAIN l = 1..n, NEW r \in RefsOf(l)
    PROVE  \E i \in DOMAIN l : l[i].ref = r /\ FirstIn(l, r) = l[i]
<1> DEFINE At == {i \in DOMAIN l : l[i].ref = r}
<1>1. At \subseteq Nat /\ At # {}
  BY DEF RefsOf
<1>2. PICK i \in At : \A k \in At : i <= k
  BY <1>1, LeastExists
<1>3. \A k \in 1..(i - 1) : k \in DOMAIN l /\ ~(i <= k)
  BY <1>2
<1>4. l[i].ref = r /\ \A k \in 1..(i - 1) : l[k].ref # r
  BY <1>2, <1>3
<1> QED
  BY <1>2, <1>4 DEF FirstIn

-----------------------------------------------------------------------------
(* What has been read, and what is listed.                                 *)

Part == (UNION {Gives[s] : s \in Medium \cup File}) \ {None}

\* A composition that was loaded, with the SBOMs of its first sources.
Sourced ==
    /\ composition \in Composition /\ Loadable(composition)
    /\ parts \in Seq(Part) /\ Len(parts) <= Len(composition.sources)

Listed == [name : Name, list : Seq(Component)]

\* What has been read is made of SBOMs, of sources that the composition names.
LEMMA PartsAre ==
    ASSUME Sourced
    PROVE  /\ Len(parts) \in Nat /\ DOMAIN parts = 1..Len(parts)
           /\ \A i \in 1..Len(parts) : IsPart(parts[i]) /\ composition.sources[i].name \in Name
           /\ composition.root \in Ref
           /\ composition.own \in Seq(Component)
<1>1. IsComposition(composition) /\ \A b \in Part : IsPart(b)
  BY ComposeAssumption DEF Sourced, Part
<1>2. Len(parts) \in Nat /\ DOMAIN parts = 1..Len(parts) /\ \A i \in 1..Len(parts) : parts[i] \in Part
  BY DEF Sourced
<1>3. /\ composition.root \in Ref /\ composition.own \in Seq(Component)
      /\ Len(composition.sources) \in Nat
      /\ \A i \in 1..Len(composition.sources) : composition.sources[i].name \in Name
  <2>1. composition.root # None
    BY DEF Sourced, Loadable
  <2> DEFINE Source == [name : Name, medium : Medium \cup {None}, sbom : File \cup {None}]
  <2>2. composition.sources \in Seq(Source) /\ \A x \in Source : x.name \in Name
    BY <1>1 DEF IsComposition
  <2> HIDE DEF Source
  <2>3. /\ Len(composition.sources) \in Nat
        /\ \A i \in 1..Len(composition.sources) : composition.sources[i] \in Source
    BY <2>2, LenProperties
  <2> QED
    BY <1>1, <2>1, <2>2, <2>3 DEF IsComposition
<1>4. \A i \in 1..Len(parts) : i \in 1..Len(composition.sources)
  BY <1>2, <1>3 DEF Sourced
<1> QED
  BY <1>1, <1>2, <1>3, <1>4

\* The lists are those of the parts, in order, and then the composition's own.
LEMMA ListsAre ==
    ASSUME Sourced
    PROVE  /\ DOMAIN Lists = 1..(Len(parts) + 1)
           /\ \A i \in 1..Len(parts) :
                 Lists[i] = [name |-> composition.sources[i].name, list |-> parts[i].lists]
           /\ Lists[Len(parts) + 1] = [name |-> Extra, list |-> composition.own]
           /\ \A i \in 1..(Len(parts) + 1) : Lists[i].list \in Seq(Component)
<1> DEFINE n == Len(parts)
           s == [i \in DOMAIN parts |->
                   [name |-> composition.sources[i].name, list |-> parts[i].lists]]
           t == <<[name |-> Extra, list |-> composition.own]>>
<1>1. n \in Nat /\ DOMAIN parts = 1..n
  BY PartsAre
<1>2. s \in Seq(Listed) /\ Len(s) = n
  <2>1. \A i \in 1..n : [name |-> composition.sources[i].name, list |-> parts[i].lists] \in Listed
    BY PartsAre DEF IsPart, Listed
  <2> QED
    BY <1>1, <2>1
<1>3. t \in Seq(Listed) /\ Len(t) = 1 /\ t[1] = [name |-> Extra, list |-> composition.own]
  BY PartsAre, ComposeAssumption DEF Listed
<1>4. Lists = s \o t
  BY DEF Lists
<1> HIDE DEF n, s, t
<1>5. /\ Lists \in Seq(Listed) /\ Len(Lists) = n + 1
      /\ \A i \in 1..(n + 1) : Lists[i] = IF i <= n THEN s[i] ELSE t[i - n]
  <2>1. /\ s \o t \in Seq(Listed) /\ Len(s \o t) = Len(s) + Len(t)
        /\ \A i \in 1..(Len(s) + Len(t)) : (s \o t)[i] = IF i <= Len(s) THEN s[i] ELSE t[i - Len(s)]
    BY <1>2, <1>3, ConcatProperties, Zenon
  <2> QED
    BY <1>1, <1>2, <1>3, <1>4, <2>1
<1>6. DOMAIN Lists = 1..(n + 1) /\ \A i \in 1..(n + 1) : Lists[i] \in Listed
  BY <1>1, <1>5
<1>7. \A i \in 1..n : Lists[i] = s[i]
  BY <1>1, <1>5
<1>8. Lists[n + 1] = t[1]
  BY <1>1, <1>5
<1> QED
  BY <1>1, <1>3, <1>6, <1>7, <1>8 DEF Listed, n, s

-----------------------------------------------------------------------------
(* What a merge of the first lists makes of their components.              *)

Seen(n) == UNION {RefsOf(Lists[i].list) : i \in 1..n}

SumOf(n) ==
    [r \in Seen(n) |-> [first |-> FirstOf(r),
                        sources |-> {Lists[i].name : i \in Listing(r) \cap (1..n)}]]

AgreeTo(n) ==
    \A i, k \in 1..n : \A a \in DOMAIN Lists[i].list, b \in DOMAIN Lists[k].list :
        Lists[i].list[a].ref = Lists[k].list[b].ref => Lists[i].list[a].id = Lists[k].list[b].id

\* What is the first of a ref is listed, and by the first list to have it.
LEMMA FirstIsSeen ==
    ASSUME Sourced, NEW n \in 0..(Len(parts) + 1), NEW r \in Seen(n)
    PROVE  /\ Min(Listing(r)) \in 1..n /\ r \in RefsOf(Lists[Min(Listing(r))].list)
           /\ \A k \in Listing(r) : Min(Listing(r)) <= k
           /\ FirstOf(r) = FirstIn(Lists[Min(Listing(r))].list, r)
           /\ \E a \in DOMAIN Lists[Min(Listing(r))].list :
                 /\ Lists[Min(Listing(r))].list[a].ref = r
                 /\ Lists[Min(Listing(r))].list[a] = FirstOf(r)
<1> DEFINE m == Min(Listing(r))
<1>1. Len(parts) \in Nat
  BY PartsAre
<1>2. PICK i \in 1..n : r \in RefsOf(Lists[i].list)
  BY DEF Seen
<1>3. i \in Listing(r) /\ Listing(r) \subseteq Nat
  BY <1>1, <1>2, ListsAre DEF Listing
<1>4. m \in Listing(r) /\ \A k \in Listing(r) : m <= k
  BY <1>3, LeastOf
<1> HIDE DEF m
<1>5. m \in 1..n /\ r \in RefsOf(Lists[m].list)
  BY <1>1, <1>3, <1>4, ListsAre DEF Listing
<1>6. FirstOf(r) = FirstIn(Lists[m].list, r)
  BY DEF FirstOf, m
<1>7. \E k \in Nat : DOMAIN Lists[m].list = 1..k
  <2>1. m \in 1..(Len(parts) + 1)
    BY <1>1, <1>5
  <2> QED
    BY <2>1, ListsAre, LenProperties
<1>8. \E a \in DOMAIN Lists[m].list : Lists[m].list[a].ref = r /\ FirstIn(Lists[m].list, r) = Lists[m].list[a]
  BY <1>5, <1>7, FirstIsListed
<1> QED
  BY <1>4, <1>5, <1>6, <1>8 DEF m

\* To add the next list is to go on with the sum.
LEMMA AddGoesOn ==
    ASSUME Sourced, NEW n \in 1..(Len(parts) + 1)
    PROVE  Add(SumOf(n - 1), Lists[n].list, Lists[n].name) = SumOf(n)
<1> DEFINE l == Lists[n].list
           added == Add(SumOf(n - 1), l, Lists[n].name)
<1>1. Len(parts) \in Nat /\ n \in Nat /\ n - 1 \in 0..(Len(parts) + 1) /\ n \in 0..(Len(parts) + 1)
  BY PartsAre
<1>2. 1..n = (1..(n - 1)) \cup {n} /\ n \notin 1..(n - 1)
  BY <1>1
<1>3. Seen(n) = Seen(n - 1) \cup RefsOf(l)
  BY <1>2 DEF Seen
<1>4. DOMAIN SumOf(n - 1) = Seen(n - 1)
  BY DEF SumOf
<1>5. ASSUME NEW r \in Seen(n)
      PROVE  added[r] = SumOf(n)[r]
  <2>1. n \in Listing(r) <=> r \in RefsOf(l)
    BY ListsAre DEF Listing
  <2>2. SumOf(n)[r] = [first |-> FirstOf(r), sources |-> {Lists[i].name : i \in Listing(r) \cap (1..n)}]
    BY DEF SumOf
  <2>3. r \in Seen(n - 1) => SumOf(n - 1)[r] =
            [first |-> FirstOf(r), sources |-> {Lists[i].name : i \in Listing(r) \cap (1..(n - 1))}]
    BY DEF SumOf
  <2>4. CASE r \notin RefsOf(l)
    <3>1. Listing(r) \cap (1..n) = Listing(r) \cap (1..(n - 1))
      BY <1>2, <2>1, <2>4
    <3>2. added[r] = SumOf(n - 1)[r]
      BY <1>3, <1>4, <2>4 DEF Add
    <3> QED
      BY <1>3, <2>2, <2>3, <2>4, <3>1, <3>2
  <2>5. CASE r \in RefsOf(l)
    <3>1. {Lists[i].name : i \in Listing(r) \cap (1..n)} =
              {Lists[i].name : i \in Listing(r) \cap (1..(n - 1))} \cup {Lists[n].name}
      BY <1>2, <2>1, <2>5
    <3>2. CASE r \in Seen(n - 1)
      <4>1. added[r] = [first |-> SumOf(n - 1)[r].first,
                        sources |-> SumOf(n - 1)[r].sources \cup {Lists[n].name}]
        BY <1>3, <1>4, <2>5, <3>2 DEF Add
      <4>2. added[r] = [first |-> FirstOf(r),
                        sources |-> {Lists[i].name : i \in Listing(r) \cap (1..(n - 1))}
                                        \cup {Lists[n].name}]
        <5> DEFINE before == {Lists[i].name : i \in Listing(r) \cap (1..(n - 1))}
        <5> HIDE DEF before, added
        <5>1. SumOf(n - 1)[r].first = FirstOf(r) /\ SumOf(n - 1)[r].sources = before
          BY <2>3, <3>2 DEF before
        <5> QED
          BY <4>1, <5>1 DEF before
      <4> QED
        BY <2>2, <3>1, <4>2
    <3>3. CASE r \notin Seen(n - 1)
      <4>1. added[r] = [first |-> FirstIn(l, r), sources |-> {Lists[n].name}]
        BY <1>3, <1>4, <2>5, <3>3 DEF Add
      <4>2. Listing(r) \cap (1..(n - 1)) = {}
        BY <3>3 DEF Seen, Listing
      <4>3. Min(Listing(r)) = n
        <5>1. Min(Listing(r)) \in 1..n /\ Min(Listing(r)) \in Listing(r)
          <6>1. Min(Listing(r)) \in 1..n /\ r \in RefsOf(Lists[Min(Listing(r))].list)
            BY <1>1, FirstIsSeen
          <6>2. 1..n \subseteq DOMAIN Lists
            BY <1>1, ListsAre
          <6> QED
            BY <6>1, <6>2 DEF Listing
        <5> QED
          BY <1>2, <4>2, <5>1
      <4>4. FirstOf(r) = FirstIn(l, r)
        BY <4>3 DEF FirstOf
      <4> QED
        BY <2>2, <3>1, <4>1, <4>2, <4>4
    <3> QED
      BY <3>2, <3>3
  <2> QED
    BY <2>4, <2>5
<1>6. added = [r \in Seen(n) |-> added[r]]
  BY <1>3, <1>4 DEF Add
<1>7. SumOf(n) = [r \in Seen(n) |-> SumOf(n)[r]]
  BY DEF SumOf
<1> HIDE DEF added
<1>8. added = SumOf(n)
  BY <1>5, <1>6, <1>7
<1> QED
  BY <1>8 DEF added, l

\* A conflict is a disagreement of the next list with those before it, or with itself.
LEMMA ConflictMeans ==
    ASSUME Sourced, NEW n \in 1..(Len(parts) + 1), AgreeTo(n - 1)
    PROVE  Conflict(SumOf(n - 1), Lists[n].list) <=> ~AgreeTo(n)
<1> DEFINE l == Lists[n].list
<1>1. Len(parts) \in Nat /\ n \in Nat /\ n - 1 \in 0..(Len(parts) + 1)
  BY PartsAre
<1>2. 1..n = (1..(n - 1)) \cup {n}
  BY <1>1
<1>3. DOMAIN SumOf(n - 1) = Seen(n - 1) /\ \A r \in Seen(n - 1) : SumOf(n - 1)[r].first = FirstOf(r)
  BY DEF SumOf
<1>4. PICK d \in Nat : DOMAIN l = 1..d
  BY ListsAre, LenProperties
<1>5. ASSUME Conflict(SumOf(n - 1), l)
      PROVE  ~AgreeTo(n)
  <2>1. PICK i \in DOMAIN l :
          \/ l[i].ref \in DOMAIN SumOf(n - 1) /\ SumOf(n - 1)[l[i].ref].first.id # l[i].id
          \/ \E k \in 1..(i - 1) : l[k].ref = l[i].ref /\ l[k].id # l[i].id
    BY <1>5 DEF Conflict
  <2>2. CASE l[i].ref \in Seen(n - 1) /\ FirstOf(l[i].ref).id # l[i].id
    <3>1. PICK j \in 1..(n - 1) : \E a \in DOMAIN Lists[j].list :
            Lists[j].list[a].ref = l[i].ref /\ Lists[j].list[a] = FirstOf(l[i].ref)
      BY <1>1, <2>2, FirstIsSeen
    <3>2. j \in 1..n /\ n \in 1..n
      BY <1>1, <1>2
    <3> QED
      BY <2>2, <3>1, <3>2 DEF AgreeTo
  <2>3. CASE \E k \in 1..(i - 1) : l[k].ref = l[i].ref /\ l[k].id # l[i].id
    <3>1. PICK k \in DOMAIN l : l[k].ref = l[i].ref /\ l[k].id # l[i].id
      BY <1>4, <2>3
    <3>2. n \in 1..n
      BY <1>1
    <3> QED
      BY <3>1, <3>2 DEF AgreeTo
  <2> QED
    BY <1>3, <2>1, <2>2, <2>3
<1>6. ASSUME ~Conflict(SumOf(n - 1), l)
      PROVE  AgreeTo(n)
  <2>1. \A i \in DOMAIN l : l[i].ref \in Seen(n - 1) => FirstOf(l[i].ref).id = l[i].id
    BY <1>3, <1>6 DEF Conflict
  <2>2. \A i, k \in DOMAIN l : l[k].ref = l[i].ref => l[k].id = l[i].id
    <3>1. \A i \in DOMAIN l : \A k \in 1..(i - 1) : l[k].ref = l[i].ref => l[k].id = l[i].id
      BY <1>6 DEF Conflict
    <3>2. ASSUME NEW i \in DOMAIN l, NEW k \in DOMAIN l, l[k].ref = l[i].ref
          PROVE  l[k].id = l[i].id
      <4>1. k \in 1..(i - 1) \/ k = i \/ i \in 1..(k - 1)
        BY <1>4
      <4> QED
        BY <3>1, <3>2, <4>1
    <3> QED
      BY <3>2
  <2>3. ASSUME NEW j \in 1..(n - 1), NEW a \in DOMAIN Lists[j].list, NEW i \in DOMAIN l,
               Lists[j].list[a].ref = l[i].ref
        PROVE  Lists[j].list[a].id = l[i].id
    <3>1. l[i].ref \in Seen(n - 1)
      BY <2>3 DEF Seen, RefsOf
    <3>2. PICK m \in 1..(n - 1) : \E b \in DOMAIN Lists[m].list :
            Lists[m].list[b].ref = l[i].ref /\ Lists[m].list[b] = FirstOf(l[i].ref)
      BY <1>1, <3>1, FirstIsSeen
    <3>3. Lists[j].list[a].id = FirstOf(l[i].ref).id
      BY <2>3, <3>2 DEF AgreeTo
    <3> QED
      BY <2>1, <3>1, <3>3
  <2>4. \A j, k \in 1..(n - 1) : \A a \in DOMAIN Lists[j].list, b \in DOMAIN Lists[k].list :
            Lists[j].list[a].ref = Lists[k].list[b].ref => Lists[j].list[a].id = Lists[k].list[b].id
    BY DEF AgreeTo
  <2> QED
    BY <1>2, <2>2, <2>3, <2>4 DEF AgreeTo
<1> QED
  BY <1>5, <1>6

-----------------------------------------------------------------------------
(* What it makes of their dependencies.                                    *)

\* Depend adds the edges of the entries it is given.
LEMMA DependEdges ==
    ASSUME NEW e, NEW on
    PROVE  /\ DOMAIN Depend(e, DOMAIN on, on) = DOMAIN e \cup DOMAIN on
           /\ EdgesOf(Depend(e, DOMAIN on, on)) = EdgesOf(e) \cup EdgesOf(on)
<1> DEFINE d == Depend(e, DOMAIN on, on)
<1>1. DOMAIN d = DOMAIN e \cup DOMAIN on
  BY DEF Depend
<1>2. \A r \in DOMAIN d : d[r] =
          (IF r \in DOMAIN e THEN e[r] ELSE {}) \cup IF r \in DOMAIN on THEN on[r] ELSE {}
  BY DEF Depend
<1> HIDE DEF d
<1>3. \A x : x \in EdgesOf(d) <=> \E r \in DOMAIN d : \E o \in d[r] : x = <<r, o>>
  BY DEF EdgesOf
<1>4. \A x : x \in EdgesOf(e) <=> \E r \in DOMAIN e : \E o \in e[r] : x = <<r, o>>
  BY DEF EdgesOf
<1>5. \A x : x \in EdgesOf(on) <=> \E r \in DOMAIN on : \E o \in on[r] : x = <<r, o>>
  BY DEF EdgesOf
<1>6. \A x : x \in EdgesOf(d) <=> \/ \E r \in DOMAIN e : \E o \in e[r] : x = <<r, o>>
                               \/ \E r \in DOMAIN on : \E o \in on[r] : x = <<r, o>>
  BY <1>1, <1>2, <1>3
<1>7. EdgesOf(d) = EdgesOf(e) \cup EdgesOf(on)
  BY <1>4, <1>5, <1>6
<1> QED
  BY <1>1, <1>7 DEF d

\* DependAll adds one entry's edges.
LEMMA DependAllEdges ==
    ASSUME NEW e, NEW x, NEW on
    PROVE  /\ DOMAIN DependAll(e, {x}, on) = DOMAIN e \cup {x}
           /\ EdgesOf(DependAll(e, {x}, on)) = EdgesOf(e) \cup Arrows(x, on)
<1> DEFINE f == [q \in {x} |-> on]
<1>1. DependAll(e, {x}, on) = Depend(e, DOMAIN f, f)
  BY DEF DependAll
<1>2. EdgesOf(f) = Arrows(x, on)
  BY DEF EdgesOf, Arrows
<1>3. DOMAIN f = {x}
  OBVIOUS
<1> HIDE DEF f
<1> QED
  BY <1>1, <1>2, <1>3, DependEdges

\* Dropping a ref drops the edges from it.
LEMMA RestrictEdges ==
    ASSUME NEW e, NEW x
    PROVE  /\ DOMAIN Restrict(e, DOMAIN e \ {x}) = DOMAIN e \ {x}
           /\ EdgesOf(Restrict(e, DOMAIN e \ {x})) = {d \in EdgesOf(e) : d[1] # x}
BY DEF Restrict, EdgesOf

\* Nothing is lost when no ref is dropped.
LEMMA RestrictsToItself ==
    ASSUME NEW e
    PROVE  EdgesOf(Restrict(e, DOMAIN e)) = EdgesOf(e)
<1> DEFINE f == Restrict(e, DOMAIN e)
<1>1. DOMAIN f = DOMAIN e /\ \A r \in DOMAIN e : f[r] = e[r]
  BY DEF Restrict
<1> HIDE DEF f
<1>2. \A z : z \in EdgesOf(f) <=> \E r \in DOMAIN e : \E o \in e[r] : z = <<r, o>>
  BY <1>1 DEF EdgesOf
<1>3. \A z : z \in EdgesOf(e) <=> \E r \in DOMAIN e : \E o \in e[r] : z = <<r, o>>
  BY DEF EdgesOf
<1>4. EdgesOf(f) = EdgesOf(e)
  BY <1>2, <1>3
<1> QED
  BY <1>4 DEF f

\* The edges of a part.
LEMMA PartEdges ==
    ASSUME NEW b
    PROVE  /\ EdgesOf(b.deps) = UNION {{<<r, o>> : o \in b.deps[r]} : r \in DOMAIN b.deps}
           /\ ~Unpackaged(b) => KeptEdges(b) = EdgesOf(b.deps)
           /\ Unpackaged(b) => KeptEdges(b) = {d \in EdgesOf(b.deps) : d[1] # b.root}
<1>1. EdgesOf(b.deps) = UNION {{<<r, o>> : o \in b.deps[r]} : r \in DOMAIN b.deps}
  BY DEF EdgesOf
<1>2. CASE ~Unpackaged(b)
  <2>1. KeptEdges(b) = EdgesOf(Restrict(b.deps, DOMAIN b.deps))
    <3>1. DOMAIN b.deps \ {} = DOMAIN b.deps
      OBVIOUS
    <3> QED
      BY <1>2, <3>1 DEF KeptEdges
  <2>2. EdgesOf(Restrict(b.deps, DOMAIN b.deps)) = EdgesOf(b.deps)
    BY RestrictsToItself
  <2> QED
    BY <1>1, <1>2, <2>1, <2>2
<1>3. CASE Unpackaged(b)
  BY <1>1, <1>3, RestrictEdges DEF KeptEdges
<1> QED
  BY <1>2, <1>3, <1>1

\* Of the edges of the parts before it part n keeps those that it does not drop.
LEMMA EdgesGoOn ==
    ASSUME NEW n \in Nat \ {0}
    PROVE  EdgesTo(n) = {e \in EdgesTo(n - 1) : ~Drops(n, e[1])} \cup GivenBy(n)
<1>1. 1..n = (1..(n - 1)) \cup {n} /\ (n + 1)..n = {} /\ n \in 1..n
  OBVIOUS
<1>2. \A i \in 1..(n - 1) : (i + 1)..n = ((i + 1)..(n - 1)) \cup {n}
  OBVIOUS
<1>3. \A e : e \in EdgesTo(n) <=>
          \E i \in 1..n : e \in GivenBy(i) /\ \A k \in (i + 1)..n : ~Drops(k, e[1])
  BY DEF EdgesTo
<1>4. \A e : e \in EdgesTo(n - 1) <=>
          \E i \in 1..(n - 1) : e \in GivenBy(i) /\ \A k \in (i + 1)..(n - 1) : ~Drops(k, e[1])
  BY DEF EdgesTo
<1>5. ASSUME NEW e \in EdgesTo(n)
      PROVE  e \in GivenBy(n) \/ (e \in EdgesTo(n - 1) /\ ~Drops(n, e[1]))
  <2>1. PICK i \in 1..n : e \in GivenBy(i) /\ \A k \in (i + 1)..n : ~Drops(k, e[1])
    BY <1>3, <1>5
  <2>2. CASE i = n
    BY <2>1, <2>2
  <2>3. CASE i \in 1..(n - 1)
    BY <1>2, <1>4, <2>1, <2>3
  <2> QED
    BY <1>1, <2>2, <2>3
<1>6. ASSUME NEW e \in EdgesTo(n - 1), ~Drops(n, e[1])
      PROVE  e \in EdgesTo(n)
  <2>1. PICK i \in 1..(n - 1) : e \in GivenBy(i) /\ \A k \in (i + 1)..(n - 1) : ~Drops(k, e[1])
    BY <1>4, <1>6
  <2>2. \A k \in (i + 1)..n : ~Drops(k, e[1])
    BY <1>2, <1>6, <2>1
  <2> QED
    BY <1>1, <1>3, <2>1, <2>2
<1>7. ASSUME NEW e \in GivenBy(n)
      PROVE  e \in EdgesTo(n)
  BY <1>1, <1>3, <1>7
<1> QED
  BY <1>5, <1>6, <1>7

\* What merging part b makes of the edges d.
MergedDeps(b, d) ==
    LET unioned == Depend(d, DOMAIN b.deps, b.deps)
        dropped == Restrict(unioned, DOMAIN unioned \ {b.root})
    IN CASE Packages(b, b.root) -> DependAll(unioned, {composition.root}, {b.root})
         [] b.lists = <<>> -> dropped
         [] OTHER -> DependAll(dropped, {composition.root}, RefsOf(b.lists))

\* Merging the next part goes on with their edges.
LEMMA MergesEdges ==
    ASSUME Sourced, NEW n \in 1..Len(parts), \A i \in 1..n : ValidGenerated(parts[i]), NEW d,
           DOMAIN d \subseteq Seen(n - 1) \cup {composition.root}
    PROVE  /\ DOMAIN MergedDeps(parts[n], d) \subseteq Seen(n) \cup {composition.root}
           /\ EdgesOf(d) = EdgesTo(n - 1) => EdgesOf(MergedDeps(parts[n], d)) = EdgesTo(n)
<1> DEFINE b == parts[n]
           top == composition.root
           unioned == Depend(d, DOMAIN b.deps, b.deps)
           dropped == Restrict(unioned, DOMAIN unioned \ {b.root})
           new == MergedDeps(b, d)
<1>1. Len(parts) \in Nat /\ n \in Nat \ {0} /\ DOMAIN parts = 1..Len(parts)
  BY PartsAre
<1>2. 1..n = (1..(n - 1)) \cup {n}
  BY <1>1
<1>3. Seen(n) = Seen(n - 1) \cup RefsOf(b.lists)
  <2> HIDE DEF unioned, dropped, new
  <2>1. Lists[n].list = b.lists
    <3>1. Lists[n] = [name |-> composition.sources[n].name, list |-> parts[n].lists]
      BY ListsAre
    <3> QED
      BY <3>1
  <2>2. \A x : x \in Seen(n) <=> \E i \in 1..n : x \in RefsOf(Lists[i].list)
    BY DEF Seen
  <2>3. \A x : x \in Seen(n - 1) <=> \E i \in 1..(n - 1) : x \in RefsOf(Lists[i].list)
    BY DEF Seen
  <2> QED
    BY <1>2, <2>1, <2>2, <2>3
<1>4. DOMAIN b.deps \subseteq RefsOf(b.lists) \cup {b.root}
  <2>1. ValidGenerated(b)
    BY <1>1
  <2> HIDE DEF b
  <2> QED
    BY <2>1 DEF ValidGenerated
<1>5. EdgesTo(n) = {e \in EdgesTo(n - 1) : ~(Unpackaged(b) /\ b.root = e[1])}
                       \cup KeptEdges(b) \cup Arrows(top, Needs(b))
  <2>1. EdgesTo(n) = {e \in EdgesTo(n - 1) : ~Drops(n, e[1])} \cup GivenBy(n)
    BY <1>1, EdgesGoOn
  <2> QED
    BY <2>1 DEF Drops, GivenBy
<1>6. /\ DOMAIN unioned = DOMAIN d \cup DOMAIN b.deps
      /\ EdgesOf(unioned) = EdgesOf(d) \cup EdgesOf(b.deps)
  BY DependEdges
<1>7. /\ DOMAIN dropped = DOMAIN unioned \ {b.root}
      /\ EdgesOf(dropped) = {e \in EdgesOf(unioned) : e[1] # b.root}
  BY RestrictEdges
<1>8. new = CASE Packages(b, b.root) -> DependAll(unioned, {top}, {b.root})
              [] b.lists = <<>> -> dropped
              [] OTHER -> DependAll(dropped, {top}, RefsOf(b.lists))
  BY DEF MergedDeps
<1>9. \A e, on : /\ DOMAIN DependAll(e, {top}, on) = DOMAIN e \cup {top}
                  /\ EdgesOf(DependAll(e, {top}, on)) = EdgesOf(e) \cup Arrows(top, on)
  BY DependAllEdges
<1> HIDE DEF unioned, dropped, new
<1>10. CASE Packages(b, b.root)
  <2>1. new = DependAll(unioned, {top}, {b.root})
    BY <1>8, <1>10 DEF Packages
  <2>2. b.root \in RefsOf(b.lists)
    BY <1>10 DEF Packages, RefsOf
  <2>3. DOMAIN new = DOMAIN unioned \cup {top}
    BY <2>1, <1>9
  <2>4. EdgesOf(new) = EdgesOf(unioned) \cup Arrows(top, {b.root})
    BY <2>1, <1>9
  <2>5. KeptEdges(b) = EdgesOf(b.deps) /\ Needs(b) = {b.root}
    BY <1>10, PartEdges DEF Needs, Unpackaged
  <2>6. DOMAIN new \subseteq Seen(n) \cup {top}
    BY <1>3, <1>4, <1>6, <2>2, <2>3
  <2>7. EdgesOf(d) = EdgesTo(n - 1) => EdgesOf(new) = EdgesTo(n)
    <3>1. EdgesTo(n) = EdgesTo(n - 1) \cup KeptEdges(b) \cup Arrows(top, Needs(b))
      BY <1>5, <1>10 DEF Unpackaged
    <3> QED
      BY <3>1, <1>6, <2>4, <2>5
  <2> QED
    BY <2>6, <2>7 DEF new
<1>11. CASE Unpackaged(b)
  <2>1. KeptEdges(b) = {e \in EdgesOf(b.deps) : e[1] # b.root} /\ Needs(b) = RefsOf(b.lists)
    BY <1>11, PartEdges DEF Needs
  <2>2. EdgesTo(n) = {e \in EdgesTo(n - 1) : e[1] # b.root} \cup KeptEdges(b)
                         \cup Arrows(top, Needs(b))
    <3>1. {e \in EdgesTo(n - 1) : ~(Unpackaged(b) /\ b.root = e[1])} =
              {e \in EdgesTo(n - 1) : e[1] # b.root}
      BY <1>11
    <3> QED
      BY <1>5, <3>1
  <2>3. EdgesOf(d) = EdgesTo(n - 1) =>
            EdgesOf(dropped) = {e \in EdgesTo(n - 1) : e[1] # b.root} \cup KeptEdges(b)
    BY <1>6, <1>7, <2>1
  <2>4. DOMAIN dropped \subseteq Seen(n) \cup {top}
    BY <1>3, <1>4, <1>6, <1>7
  <2>5. CASE b.lists = <<>>
    <3>1. new = dropped
      BY <1>8, <1>11, <2>5 DEF Unpackaged
    <3>2. Arrows(top, Needs(b)) = {}
      BY <2>1, <2>5 DEF RefsOf, Arrows
    <3>3. EdgesTo(n) = {e \in EdgesTo(n - 1) : e[1] # b.root} \cup KeptEdges(b)
      BY <2>2, <3>2
    <3> QED
      BY <2>3, <2>4, <3>1, <3>3 DEF new
  <2>6. CASE b.lists # <<>>
    <3>1. new = DependAll(dropped, {top}, RefsOf(b.lists))
      BY <1>8, <1>11, <2>6 DEF Unpackaged
    <3>2. DOMAIN new = DOMAIN dropped \cup {top}
      BY <3>1, <1>9
    <3>3. EdgesOf(new) = EdgesOf(dropped) \cup Arrows(top, RefsOf(b.lists))
      BY <3>1, <1>9
    <3>4. EdgesOf(d) = EdgesTo(n - 1) => EdgesOf(new) = EdgesTo(n)
      BY <2>1, <2>2, <2>3, <3>3
    <3> QED
      BY <2>4, <3>2, <3>4 DEF new
  <2> QED
    BY <2>5, <2>6
<1> QED
  BY <1>10, <1>11 DEF Unpackaged

-----------------------------------------------------------------------------
(* The composed SBOM.                                                      *)

\* A function of a finite set has finitely many values.
LEMMA ImageIsFinite ==
    ASSUME NEW f, IsFiniteSet(DOMAIN f)
    PROVE  IsFiniteSet({f[x] : x \in DOMAIN f})
<1> DEFINE T == {f[x] : x \in DOMAIN f}
           g == [x \in DOMAIN f |-> f[x]]
<1>1. g \in Surjection(DOMAIN f, T)
  BY DEF Surjection
<1> HIDE DEF g, T
<1>2. IsFiniteSet(T)
  BY <1>1, FS_Surjection
<1> QED
  BY <1>2 DEF T

\* Finitely many refs are listed.
LEMMA SeenIsFinite ==
    ASSUME Sourced, NEW n \in 0..(Len(parts) + 1)
    PROVE  IsFiniteSet(Seen(n))
<1>1. n \in Nat /\ Len(parts) \in Nat
  BY PartsAre
<1>2. ASSUME NEW i \in 1..n
      PROVE  IsFiniteSet(RefsOf(Lists[i].list))
  <2> DEFINE l == Lists[i].list
             g == [k \in DOMAIN l |-> l[k].ref]
  <2>1. i \in 1..(Len(parts) + 1)
    BY <1>1
  <2>2. PICK m \in Nat : DOMAIN l = 1..m
    BY <2>1, ListsAre, LenProperties
  <2>3. IsFiniteSet(1..m)
    BY <2>2, FS_Interval
  <2>4. RefsOf(l) = {g[k] : k \in DOMAIN g}
    BY DEF RefsOf
  <2>5. DOMAIN g = 1..m
    BY <2>2
  <2> HIDE DEF g, l
  <2>6. IsFiniteSet(RefsOf(l))
    BY <2>3, <2>4, <2>5, ImageIsFinite
  <2> QED
    BY <2>6 DEF l
<1> DEFINE h == [i \in 1..n |-> RefsOf(Lists[i].list)]
           all == {h[i] : i \in DOMAIN h}
<1>3. DOMAIN h = 1..n /\ \A i \in 1..n : h[i] = RefsOf(Lists[i].list)
  OBVIOUS
<1>4. IsFiniteSet(1..n)
  BY <1>1, FS_Interval
<1> HIDE DEF h
<1>5. IsFiniteSet(all)
  BY <1>3, <1>4, ImageIsFinite
<1>6. \A T \in all : IsFiniteSet(T)
  BY <1>2, <1>3
<1>7. Seen(n) = UNION all
  BY <1>3 DEF Seen
<1> HIDE DEF all
<1> QED
  BY <1>5, <1>6, <1>7, FS_UNION

\* SetToSeq gives each element of a finite set, once.
LEMMA SequenceOf ==
    ASSUME NEW S, IsFiniteSet(S)
    PROVE  /\ \E n \in Nat : DOMAIN SetToSeq(S) = 1..n
           /\ \A i \in DOMAIN SetToSeq(S) : SetToSeq(S)[i] \in S
           /\ \A s \in S : \E i \in DOMAIN SetToSeq(S) : SetToSeq(S)[i] = s
           /\ \A i, k \in DOMAIN SetToSeq(S) : SetToSeq(S)[i] = SetToSeq(S)[k] => i = k
<1> DEFINE n == Cardinality(S)
           q == SetToSeq(S)
<1>1. n \in Nat /\ ExistsBijection(1..n, S)
  BY FS_CardinalityType
<1>2. \E f \in [1..n -> S] : IsInjective(f)
  BY <1>1 DEF ExistsBijection, Bijection, Injection
<1>3. q \in [1..n -> S] /\ IsInjective(q)
  BY <1>2 DEF SetToSeq
<1> HIDE DEF q
<1>4. q \in Injection(1..n, S)
  BY <1>3 DEF Injection
<1>5. IsFiniteSet(1..n) /\ Cardinality(1..n) = n
  BY <1>1, FS_Interval
<1>6. q \in Surjection(1..n, S)
  BY <1>4, <1>5, FS_Injection
<1>7. /\ \E m \in Nat : DOMAIN q = 1..m
      /\ \A i \in DOMAIN q : q[i] \in S
      /\ \A s \in S : \E i \in DOMAIN q : q[i] = s
      /\ \A i, k \in DOMAIN q : q[i] = q[k] => i = k
  BY <1>1, <1>3, <1>6 DEF Surjection, IsInjective
<1> QED
  BY <1>7 DEF q

All == Len(parts) + 1

\* The last of the lists is the composition's own: with it all that is listed is seen.
LEMMA AllAreListed ==
    ASSUME Sourced
    PROVE  /\ All \in 1..(Len(parts) + 1) /\ All \in 0..(Len(parts) + 1) /\ All - 1 = Len(parts)
           /\ DOMAIN Lists = 1..All
           /\ ListedRefs = Seen(All)
           /\ Agree <=> AgreeTo(All)
           /\ Lists[All].list = composition.own /\ Lists[All].name = Extra
<1>1. Len(parts) \in Nat /\ DOMAIN Lists = 1..All
  BY PartsAre, ListsAre DEF All
<1>2. Lists[All] = [name |-> Extra, list |-> composition.own]
  BY ListsAre DEF All
<1>3. ListedRefs = Seen(All)
  BY <1>1 DEF ListedRefs, Seen
<1>4. Agree <=> AgreeTo(All)
  BY <1>1 DEF Agree, AgreeTo
<1> QED
  BY <1>1, <1>2, <1>3, <1>4 DEF All

\* The SBOM that Compose checks.
Bom(d) ==
    LET refs == SetToSeq(ListedRefs) IN
    [root |-> composition.root, proper |-> TRUE, deps |-> d,
     lists |-> [i \in DOMAIN refs |-> SumOf(All)[refs[i]].first]]

\* ValidGenerated of the composed SBOM, in terms of what was listed.
LEMMA BomIsValid ==
    ASSUME Sourced, NEW d, DOMAIN d \subseteq ListedRefs \cup {composition.root}
    PROVE  ValidGenerated(Bom(d)) <=>
              /\ \A r \in ListedRefs : FirstOf(r).proper
              /\ UNION {{e[1], e[2]} : e \in EdgesOf(d)} \subseteq ListedRefs \cup {composition.root}
<1> DEFINE refs == SetToSeq(ListedRefs)
           l == Bom(d).lists
           top == composition.root
<1>1. IsFiniteSet(ListedRefs)
  BY AllAreListed, SeenIsFinite
<1>2. /\ \E n \in Nat : DOMAIN refs = 1..n
      /\ \A i \in DOMAIN refs : refs[i] \in ListedRefs
      /\ \A r \in ListedRefs : \E i \in DOMAIN refs : refs[i] = r
      /\ \A i, k \in DOMAIN refs : refs[i] = refs[k] => i = k
  BY <1>1, SequenceOf
<1>3. \A r \in ListedRefs : SumOf(All)[r].first = FirstOf(r)
  BY AllAreListed DEF SumOf
<1>4. \A r \in ListedRefs : FirstOf(r).ref = r
  BY AllAreListed, FirstIsSeen
<1>5. DOMAIN l = DOMAIN refs /\ \A i \in DOMAIN refs : l[i] = SumOf(All)[refs[i]].first
  BY DEF Bom
<1>6. Bom(d).root = top /\ Bom(d).proper = TRUE /\ Bom(d).deps = d
  BY DEF Bom
<1> HIDE DEF refs, l
<1>7. \A i \in DOMAIN l : l[i] = FirstOf(refs[i]) /\ l[i].ref = refs[i]
  BY <1>2, <1>3, <1>4, <1>5
<1>8. RefsOf(l) = ListedRefs
  BY <1>2, <1>5, <1>7 DEF RefsOf
<1>9. \A i \in DOMAIN l : \A k \in 1..(i - 1) : l[k].ref # l[i].ref
  <2>1. PICK n \in Nat : DOMAIN refs = 1..n
    BY <1>2
  <2> SUFFICES ASSUME NEW i \in DOMAIN l, NEW k \in 1..(i - 1)
               PROVE  l[k].ref # l[i].ref
    OBVIOUS
  <2>2. k \in DOMAIN l /\ k # i
    BY <1>5, <2>1
  <2> QED
    BY <1>2, <1>5, <1>7, <2>2
<1>10. (\A i \in DOMAIN l : l[i].proper) <=> \A r \in ListedRefs : FirstOf(r).proper
  <2>1. ASSUME \A i \in DOMAIN l : l[i].proper, NEW r \in ListedRefs
        PROVE  FirstOf(r).proper
    <3>1. PICK i \in DOMAIN l : refs[i] = r
      BY <1>2, <1>5
    <3> QED
      BY <1>7, <2>1, <3>1
  <2>2. ASSUME \A r \in ListedRefs : FirstOf(r).proper, NEW i \in DOMAIN l
        PROVE  l[i].proper
    <3>1. refs[i] \in ListedRefs
      BY <1>2, <1>5
    <3> QED
      BY <1>7, <2>2, <3>1
  <2> QED
    BY <2>1, <2>2
<1>11. (\A r \in DOMAIN d : {r} \cup d[r] \subseteq ListedRefs \cup {top}) <=>
           UNION {{e[1], e[2]} : e \in EdgesOf(d)} \subseteq ListedRefs \cup {top}
  <2>1. \A e : e \in EdgesOf(d) <=> \E r \in DOMAIN d : \E o \in d[r] : e = <<r, o>>
    BY DEF EdgesOf
  <2>2. ASSUME UNION {{e[1], e[2]} : e \in EdgesOf(d)} \subseteq ListedRefs \cup {top},
               NEW r \in DOMAIN d, NEW o \in d[r]
        PROVE  o \in ListedRefs \cup {top}
    <3>1. <<r, o>> \in EdgesOf(d)
      BY <2>1
    <3>2. \A e \in EdgesOf(d) : e[2] \in UNION {{f[1], f[2]} : f \in EdgesOf(d)}
      OBVIOUS
    <3> QED
      BY <2>2, <3>1, <3>2
  <2>3. ASSUME \A r \in DOMAIN d : {r} \cup d[r] \subseteq ListedRefs \cup {top},
               NEW e \in EdgesOf(d)
        PROVE  {e[1], e[2]} \subseteq ListedRefs \cup {top}
    BY <2>1, <2>3
  <2> QED
    BY <2>2, <2>3
<1>12. ValidGenerated(Bom(d)) <=>
          /\ \A i \in DOMAIN l : l[i].proper /\ \A k \in 1..(i - 1) : l[k].ref # l[i].ref
          /\ \A r \in DOMAIN d : {r} \cup d[r] \subseteq RefsOf(l) \cup {top}
  BY <1>6 DEF ValidGenerated, l
<1> QED
  BY <1>8, <1>9, <1>10, <1>11, <1>12

\* The edges once the composition's own components are added.
OwnDeps(d) ==
    IF composition.own = <<>> THEN d ELSE DependAll(d, {composition.root}, RefsOf(composition.own))

\* The composition's own components complete the edges.
LEMMA OwnComplete ==
    ASSUME Sourced, NEW d, DOMAIN d \subseteq Seen(Len(parts)) \cup {composition.root}
    PROVE  /\ DOMAIN OwnDeps(d) \subseteq ListedRefs \cup {composition.root}
           /\ EdgesOf(d) = EdgesTo(Len(parts)) => EdgesOf(OwnDeps(d)) = LastingEdges
<1> DEFINE top == composition.root
           own == composition.own
<1>1. Len(parts) \in Nat /\ DOMAIN parts = 1..Len(parts)
  BY PartsAre
<1>2. Seen(Len(parts)) \subseteq ListedRefs
  BY <1>1, AllAreListed DEF Seen, All
<1>3. LastingEdges = EdgesTo(Len(parts)) \cup Arrows(top, RefsOf(own))
  BY DEF LastingEdges, OwnEdges
<1>4. CASE own = <<>>
  <2>1. OwnDeps(d) = d
    BY <1>4 DEF OwnDeps
  <2>2. Arrows(top, RefsOf(own)) = {}
    BY <1>4 DEF Arrows, RefsOf
  <2> QED
    BY <1>2, <1>3, <2>1, <2>2
<1>5. CASE own # <<>>
  <2>1. OwnDeps(d) = DependAll(d, {top}, RefsOf(own))
    BY <1>5 DEF OwnDeps
  <2>2. /\ DOMAIN OwnDeps(d) = DOMAIN d \cup {top}
        /\ EdgesOf(OwnDeps(d)) = EdgesOf(d) \cup Arrows(top, RefsOf(own))
    <3>1. \A e, on : /\ DOMAIN DependAll(e, {top}, on) = DOMAIN e \cup {top}
                      /\ EdgesOf(DependAll(e, {top}, on)) = EdgesOf(e) \cup Arrows(top, on)
      BY DependAllEdges
    <3> QED
      BY <2>1, <3>1
  <2> QED
    BY <1>2, <1>3, <2>2
<1> QED
  BY <1>4, <1>5

-----------------------------------------------------------------------------
(* The invariant: how far the command is, and what it has by then.         *)

MergedTo(n) ==
    /\ \A i \in 1..n : ValidGenerated(parts[i])
    /\ AgreeTo(n)
    /\ merged = SumOf(n)
    /\ DOMAIN deps \subseteq Seen(n) \cup {composition.root}
    /\ EdgesOf(deps) = EdgesTo(n)

AllSourced == Sourced /\ Len(parts) = Len(composition.sources)

Nothing == merged = <<>> /\ deps = <<>> /\ next = 1

Merging ==
    /\ AllSourced
    /\ \E n \in 0..Len(parts) : next = n + 1 /\ MergedTo(n)

Whole ==
    /\ Mergeable /\ IsComposed
    /\ DOMAIN composed.components \subseteq Ref /\ IsFiniteSet(DOMAIN composed.components)

Rightly == composition # None /\ Len(parts) = Len(composition.sources) => ~Mergeable

UnionInv ==
    \/ doing = "load" /\ composition = None /\ parts = <<>> /\ Nothing /\ composed = None /\ output = "old"
    \/ doing = "find" /\ Sourced /\ parts = <<>> /\ Nothing /\ composed = None /\ output = "old"
    \/ doing = "read" /\ Sourced /\ Nothing /\ composed = None /\ output = "old"
    \/ doing = "merge" /\ Merging /\ composed = None /\ output = "old"
    \/ doing \in {"create", "write", "composed", "failed"} /\ Whole
    \/ doing = "refused" /\ Rightly /\ composed = None /\ output = "old"
    \/ doing = "ended" /\ composed = None

-----------------------------------------------------------------------------
(* What is said of the composition and its parts stays so while they do.   *)

\* The lists, and what they say of each ref.
LEMMA ListsStay ==
    ASSUME parts' = parts, composition' = composition
    PROVE  /\ Lists' = Lists /\ ListedRefs' = ListedRefs
           /\ \A r : Listing(r)' = Listing(r) /\ FirstOf(r)' = FirstOf(r)
<1>1. Lists' = Lists
  BY DEF Lists
<1>2. ListedRefs' = ListedRefs
  BY <1>1 DEF ListedRefs
<1>3. \A r : Listing(r)' = Listing(r)
  BY <1>1 DEF Listing
<1>4. \A r : FirstOf(r)' = FirstOf(r)
  BY <1>1, <1>3 DEF FirstOf
<1> QED
  BY <1>1, <1>2, <1>3, <1>4

\* The sums of the first n lists, and their edges.
LEMMA SumsStay ==
    ASSUME parts' = parts, composition' = composition, NEW n
    PROVE  /\ Seen(n)' = Seen(n) /\ SumOf(n)' = SumOf(n)
           /\ AgreeTo(n)' <=> AgreeTo(n)
           /\ EdgesTo(n)' = EdgesTo(n)
<1>1. Seen(n)' = Seen(n)
  BY ListsStay DEF Seen
<1>2. SumOf(n)' = SumOf(n)
  <2> DEFINE names(r) == {Lists[i].name : i \in Listing(r) \cap (1..n)}
             sum(r) == [first |-> FirstOf(r), sources |-> names(r)]
  <2>1. \A r : names(r)' = names(r)
    BY ListsStay
  <2> HIDE DEF names
  <2>2. \A r : sum(r)' = sum(r)
    BY <2>1, ListsStay
  <2>3. SumOf(n) = [r \in Seen(n) |-> sum(r)]
    BY DEF SumOf, names
  <2>4. SumOf(n)' = [r \in Seen(n)' |-> sum(r)']
    BY DEF SumOf, names
  <2> HIDE DEF sum
  <2> QED
    BY <1>1, <2>2, <2>3, <2>4
<1>3. AgreeTo(n)' <=> AgreeTo(n)
  BY ListsStay DEF AgreeTo
<1>4. EdgesTo(n)' = EdgesTo(n)
  BY DEF EdgesTo, GivenBy, Drops
<1> QED
  BY <1>1, <1>2, <1>3, <1>4

\* What Mergeable and Rightly say.
LEMMA UnionsStay ==
    ASSUME parts' = parts, composition' = composition
    PROVE  /\ Sourced' <=> Sourced
           /\ AllSourced' <=> AllSourced
           /\ LastingEdges' = LastingEdges
           /\ Mergeable' <=> Mergeable
           /\ Rightly' <=> Rightly
<1>1. Sourced' <=> Sourced
  BY DEF Sourced
<1>2. AllSourced' <=> AllSourced
  BY <1>1 DEF AllSourced
<1>3. EdgesTo(Len(parts))' = EdgesTo(Len(parts))
  BY DEF EdgesTo, GivenBy, Drops
<1>4. LastingEdges' = LastingEdges
  BY <1>3 DEF LastingEdges, OwnEdges
<1>5. Mergeable' <=> Mergeable
  <2>1. Agree' <=> Agree
    BY ListsStay DEF Agree
  <2> QED
    BY <1>4, <2>1, ListsStay DEF Mergeable
<1>6. Rightly' <=> Rightly
  BY <1>5 DEF Rightly
<1> QED
  BY <1>1, <1>2, <1>4, <1>5, <1>6

\* What Whole says, while the composed SBOM stays too.
LEMMA WholeStays ==
    ASSUME parts' = parts, composition' = composition, composed' = composed
    PROVE  Whole' <=> Whole
<1>1. IsComposed' <=> IsComposed
  BY ListsStay, UnionsStay DEF IsComposed
<1> QED
  BY <1>1, UnionsStay DEF Whole

-----------------------------------------------------------------------------
(* The steps.                                                              *)

\* Parts that break a rule, or sources that disagree, are not to be merged.
LEMMA NotMergeable ==
    ASSUME Sourced, NEW n \in 0..(Len(parts) + 1)
    PROVE  /\ ~AgreeTo(n) => ~Mergeable
           /\ \A i \in 1..Len(parts) : ~ValidGenerated(parts[i]) => ~Mergeable
<1>1. Len(parts) \in Nat /\ DOMAIN parts = 1..Len(parts)
  BY PartsAre
<1>2. 1..n \subseteq 1..All
  BY <1>1 DEF All
<1>3. AgreeTo(All) => AgreeTo(n)
  BY <1>2 DEF AgreeTo
<1>4. Mergeable => AgreeTo(n)
  BY <1>3, AllAreListed DEF Mergeable
<1>5. Mergeable => \A i \in 1..Len(parts) : ValidGenerated(parts[i])
  BY <1>1 DEF Mergeable
<1> QED
  BY <1>4, <1>5

\* Before the first part is merged, nothing is.
LEMMA NothingIsMerged ==
    ASSUME Sourced, Nothing
    PROVE  MergedTo(0)
<1>1. Seen(0) = {} /\ EdgesTo(0) = {} /\ AgreeTo(0)
  <2>1. 1..0 = {}
    OBVIOUS
  <2> QED
    BY <2>1 DEF Seen, EdgesTo, AgreeTo
<1>2. merged = SumOf(0)
  BY <1>1 DEF SumOf, Nothing
<1>3. DOMAIN deps = {} /\ EdgesOf(deps) = {}
  BY DEF Nothing, EdgesOf
<1> QED
  BY <1>1, <1>2, <1>3 DEF MergedTo

\* MergePart goes on with the union, or refuses when there is none.
LEMMA MergesOn ==
    ASSUME Merging, MergePart, composed = None, output = "old"
    PROVE  \/ doing' = "merge" /\ Merging' /\ composed' = None /\ output' = "old"
           \/ doing' = "refused" /\ Rightly' /\ composed' = None /\ output' = "old"
<1>1. Sourced
  BY DEF Merging, AllSourced
<1>2. PICK n \in 0..Len(parts) : next = n + 1 /\ MergedTo(n)
  BY DEF Merging
<1>3. Len(parts) \in Nat /\ DOMAIN parts = 1..Len(parts)
  BY <1>1, PartsAre
<1> DEFINE b == parts[n + 1]
           k == n + 1
<1>4. /\ k \in 1..Len(parts) /\ k \in 1..(Len(parts) + 1) /\ k \in 0..(Len(parts) + 1)
      /\ n \in 0..(Len(parts) + 1) /\ k - 1 = n /\ next = k
  BY <1>2, <1>3 DEF MergePart
<1>5. Lists[k] = [name |-> composition.sources[k].name, list |-> b.lists]
  BY <1>1, <1>4, ListsAre
<1>6. parts' = parts /\ composition' = composition /\ composed' = composed /\ output' = output
  BY DEF MergePart, Refuse
<1>7. Conflict(merged, b.lists) <=> ~AgreeTo(k)
  <2>1. AgreeTo(k - 1) /\ merged = SumOf(k - 1)
    BY <1>2, <1>4 DEF MergedTo
  <2> HIDE DEF k
  <2>2. Conflict(SumOf(k - 1), Lists[k].list) <=> ~AgreeTo(k)
    BY <1>1, <1>4, <2>1, ConflictMeans
  <2>3. Lists[k].list = b.lists
    BY <1>5
  <2> QED
    BY <2>1, <2>2, <2>3
<1>8. CASE ~ValidGenerated(b) \/ Conflict(merged, b.lists)
  <2>1. doing' = "refused"
    BY <1>4, <1>8 DEF MergePart, Refuse
  <2>2. ~Mergeable
    BY <1>1, <1>4, <1>7, <1>8, NotMergeable
  <2>3. Rightly'
    BY <1>6, <2>2, UnionsStay DEF Rightly
  <2> QED
    BY <1>6, <2>1, <2>3
<1>9. CASE ValidGenerated(b) /\ ~Conflict(merged, b.lists)
  <2>1. /\ merged' = Add(merged, b.lists, composition.sources[k].name)
        /\ deps' = MergedDeps(b, deps)
        /\ next' = k + 1
        /\ doing' = "merge"
    BY <1>4, <1>9 DEF MergePart, MergedDeps, Packages
  <2>2. AgreeTo(k)
    BY <1>7, <1>9
  <2>3. \A i \in 1..k : ValidGenerated(parts[i])
    BY <1>2, <1>4, <1>9 DEF MergedTo
  <2>4. merged' = SumOf(k)
    <3>1. merged = SumOf(k - 1)
      BY <1>2, <1>4 DEF MergedTo
    <3> HIDE DEF k
    <3>2. Add(SumOf(k - 1), Lists[k].list, Lists[k].name) = SumOf(k)
      BY <1>1, <1>4, AddGoesOn
    <3>3. Lists[k].list = b.lists /\ Lists[k].name = composition.sources[k].name
      BY <1>5
    <3> QED
      BY <2>1, <3>1, <3>2, <3>3
  <2>5. /\ DOMAIN deps' \subseteq Seen(k) \cup {composition.root}
        /\ EdgesOf(deps') = EdgesTo(k)
    <3> DEFINE d == deps
    <3>1. /\ DOMAIN d \subseteq Seen(k - 1) \cup {composition.root}
          /\ EdgesOf(d) = EdgesTo(k - 1)
      BY <1>2, <1>4 DEF MergedTo
    <3>2. b = parts[k]
      OBVIOUS
    <3> HIDE DEF k, d, b
    <3>3. /\ DOMAIN MergedDeps(parts[k], d) \subseteq Seen(k) \cup {composition.root}
          /\ EdgesOf(d) = EdgesTo(k - 1) => EdgesOf(MergedDeps(parts[k], d)) = EdgesTo(k)
      BY <1>1, <1>4, <2>3, <3>1, MergesEdges
    <3> QED
      BY <2>1, <3>1, <3>2, <3>3 DEF d
  <2>6. MergedTo(k)'
    BY <1>6, <2>2, <2>3, <2>4, <2>5, SumsStay, UnionsStay DEF MergedTo
  <2>7. AllSourced'
    BY <1>6, UnionsStay DEF Merging
  <2>8. k \in 0..Len(parts')
    BY <1>4, <1>6
  <2>9. Merging'
    BY <2>1, <2>6, <2>7, <2>8 DEF Merging
  <2> QED
    BY <1>6, <2>1, <2>9
<1> QED
  BY <1>8, <1>9

\* Compose completes the union, or refuses when there is none.
LEMMA ComposesWhole ==
    ASSUME Merging, Compose, composed = None, output = "old"
    PROVE  \/ doing' = "create" /\ Whole'
           \/ doing' = "refused" /\ Rightly' /\ composed' = None /\ output' = "old"
<1>1. Sourced
  BY DEF Merging, AllSourced
<1>2. Len(parts) \in Nat /\ DOMAIN parts = 1..Len(parts)
  BY <1>1, PartsAre
<1>3. MergedTo(Len(parts))
  <2>1. PICK n \in 0..Len(parts) : next = n + 1 /\ MergedTo(n)
    BY DEF Merging
  <2>2. next > Len(parts)
    BY DEF Compose
  <2>3. n + 1 > Len(parts)
    BY <2>1, <2>2
  <2>4. n = Len(parts)
    <3> DEFINE m == Len(parts)
    <3>1. m \in Nat /\ n \in 0..m /\ n + 1 > m
      BY <1>2, <2>3
    <3> HIDE DEF m
    <3>2. n = m
      BY <3>1
    <3> QED
      BY <3>2 DEF m
  <2> QED
    BY <2>1, <2>4
<1>4. parts' = parts /\ composition' = composition /\ output' = output
  BY DEF Compose, Refuse
<1> DEFINE own == composition.own
           all == Add(merged, own, Extra)
           edges == OwnDeps(deps)
<1>5. all = SumOf(All)
  BY <1>1, <1>3, AllAreListed, AddGoesOn DEF MergedTo
<1>6. Conflict(merged, own) <=> ~AgreeTo(All)
  BY <1>1, <1>3, AllAreListed, ConflictMeans DEF MergedTo
<1>7. /\ DOMAIN edges \subseteq ListedRefs \cup {composition.root}
      /\ EdgesOf(edges) = LastingEdges
  BY <1>1, <1>3, OwnComplete DEF MergedTo
<1>8. DOMAIN all = ListedRefs
  BY <1>1, <1>5, AllAreListed DEF SumOf
<1>9. ValidGenerated(Bom(edges)) <=>
         /\ \A r \in ListedRefs : FirstOf(r).proper
         /\ UNION {{e[1], e[2]} : e \in EdgesOf(edges)} \subseteq ListedRefs \cup {composition.root}
  <2> HIDE DEF edges
  <2> QED
    BY <1>1, <1>7, BomIsValid
<1>10. Mergeable <=> ~Conflict(merged, own) /\ ValidGenerated(Bom(edges))
  <2>1. \A i \in DOMAIN parts : ValidGenerated(parts[i])
    BY <1>2, <1>3 DEF MergedTo
  <2>2. Agree <=> AgreeTo(All)
    BY <1>1, AllAreListed
  <2> QED
    BY <1>6, <1>7, <1>9, <2>1, <2>2 DEF Mergeable
<1>11. IF Conflict(merged, own) \/ ~ValidGenerated(Bom(edges)) THEN Refuse
       ELSE composed' = [components |-> all, deps |-> edges] /\ doing' = "create"
  <2> DEFINE refs == SetToSeq(DOMAIN all)
             bom == [root |-> composition.root, proper |-> TRUE, deps |-> edges,
                     lists |-> [i \in DOMAIN refs |-> all[refs[i]].first]]
  <2>1. bom = Bom(edges)
    <3> HIDE DEF all, edges
    <3> QED
      BY <1>5, <1>8 DEF Bom
  <2>2. IF Conflict(merged, own) \/ ~ValidGenerated(bom) THEN Refuse
        ELSE composed' = [components |-> all, deps |-> edges] /\ doing' = "create"
    BY DEF Compose, OwnDeps
  <2> HIDE DEF bom
  <2> QED
    BY <2>1, <2>2
<1> HIDE DEF all, edges
<1>12. CASE Conflict(merged, own) \/ ~ValidGenerated(Bom(edges))
  <2>1. Refuse
    BY <1>11, <1>12
  <2>2. Rightly
    BY <1>10, <1>12 DEF Rightly
  <2> QED
    BY <1>4, <2>1, <2>2, UnionsStay DEF Refuse
<1>13. CASE ~(Conflict(merged, own) \/ ~ValidGenerated(Bom(edges)))
  <2>1. composed' = [components |-> all, deps |-> edges] /\ doing' = "create"
    BY <1>11, <1>13
  <2>2. composed'.components = SumOf(All) /\ composed'.deps = edges
    BY <1>5, <2>1
  <2>3. ASSUME NEW r \in ListedRefs
        PROVE  /\ SumOf(All)[r].first = FirstOf(r)
               /\ SumOf(All)[r].sources = {Lists[i].name : i \in Listing(r)}
    <3>1. Listing(r) \cap (1..All) = Listing(r)
      BY <1>1, AllAreListed DEF Listing
    <3>2. SumOf(All)[r] = [first |-> FirstOf(r), sources |-> {Lists[i].name : i \in Listing(r)}]
      BY <1>1, <3>1, AllAreListed DEF SumOf
    <3> QED
      BY <3>2
  <2>4. IsComposed'
    <3>1. DOMAIN composed'.components = ListedRefs'
      BY <1>4, <1>5, <1>8, <2>2, ListsStay
    <3>2. \A r \in ListedRefs' : /\ composed'.components[r].first = FirstOf(r)'
                                 /\ composed'.components[r].sources = {Lists[i].name : i \in Listing(r)}'
      BY <1>4, <2>2, <2>3, ListsStay
    <3>3. EdgesOf(composed'.deps) = LastingEdges'
      BY <1>4, <1>7, <2>2, UnionsStay
    <3> QED
      BY <3>1, <3>2, <3>3 DEF IsComposed
  <2>5. Mergeable
    BY <1>10, <1>13
  <2>6. Seen(All) \subseteq Ref /\ IsFiniteSet(Seen(All))
    <3>1. \A i \in 1..All : Lists[i].list \in Seq(Component)
      BY <1>1, ListsAre DEF All
    <3>2. \A i \in 1..All : RefsOf(Lists[i].list) \subseteq Ref
      <4> SUFFICES ASSUME NEW i \in 1..All, NEW k \in DOMAIN Lists[i].list
                   PROVE  Lists[i].list[k].ref \in Ref
        BY DEF RefsOf
      <4>1. Lists[i].list[k] \in Component
        BY <3>1
      <4> QED
        BY <4>1 DEF Component
    <3>3. Seen(All) \subseteq Ref
      BY <3>2 DEF Seen
    <3>4. IsFiniteSet(Seen(All))
      BY <1>1, AllAreListed, SeenIsFinite
    <3> QED
      BY <3>3, <3>4
  <2>7. DOMAIN composed'.components = Seen(All)
    BY <1>1, <1>5, <1>8, <2>2, AllAreListed
  <2>8. Whole'
    BY <1>4, <2>4, <2>5, <2>6, <2>7, UnionsStay DEF Whole
  <2> QED
    BY <2>1, <2>8
<1> QED
  BY <1>12, <1>13

\* Load takes a composition, none of whose sources is read.
LEMMA LoadSources ==
    ASSUME NEW c \in Composition, Load(c), doing = "load", composition = None, parts = <<>>,
           Nothing, composed = None, output = "old"
    PROVE  UnionInv'
<1>1. CASE Loadable(c)
  <2>1. /\ composition' = c /\ doing' = "find"
        /\ UNCHANGED <<parts, merged, deps, next, composed, output>>
    BY <1>1 DEF Load
  <2>2. Sourced'
    <3>1. Len(c.sources) \in Nat
      BY ComposeAssumption DEF IsComposition
    <3>2. parts' \in Seq(Part) /\ Len(parts') = 0
      BY <2>1
    <3> QED
      BY <1>1, <2>1, <3>1, <3>2 DEF Sourced
  <2> QED
    BY <2>1, <2>2 DEF UnionInv, Nothing
<1>2. CASE ~Loadable(c)
  BY <1>2 DEF Load, Refuse, UnionInv, Rightly
<1> QED
  BY <1>1, <1>2

\* FindSBOMPlugins refuses before any source is read.
LEMMA FindKeepsSources ==
    ASSUME FindSBOMPlugins, Sourced, parts = <<>>, Nothing, composed = None, output = "old"
    PROVE  UnionInv'
<1> DEFINE found == \A i \in DOMAIN composition.sources :
                        composition.sources[i].medium \in Installed \cup {None}
<1>1. parts' = parts /\ composition' = composition
  BY DEF FindSBOMPlugins, Refuse
<1>2. CASE found
  <2>1. Sourced'
    BY <1>1, UnionsStay
  <2> QED
    BY <1>2, <2>1 DEF FindSBOMPlugins, UnionInv, Nothing
<1>3. CASE ~found
  <2>1. Len(parts) # Len(composition.sources)
    <3>1. composition.sources # <<>>
      BY <1>3
    <3>2. IsComposition(composition)
      BY ComposeAssumption DEF Sourced
    <3> DEFINE Source == [name : Name, medium : Medium \cup {None}, sbom : File \cup {None}]
    <3>3. composition.sources \in Seq(Source)
      BY <3>2 DEF IsComposition
    <3> HIDE DEF Source
    <3> QED
      BY <3>1, <3>3
  <2>2. Rightly'
    BY <1>1, <2>1 DEF Rightly
  <2> QED
    BY <1>3, <2>2 DEF FindSBOMPlugins, Refuse, UnionInv
<1> QED
  BY <1>2, <1>3

\* SourceSBOM reads one more source, or refuses before all are.
LEMMA ReadSources ==
    ASSUME NEW s \in Medium \cup File, NEW b \in Gives[s], SourceSBOM(b),
           Sourced, Nothing, composed = None, output = "old"
    PROVE  UnionInv'
<1>1. doing = "read" /\ Len(parts) < Len(composition.sources) /\ composition' = composition
  BY DEF SourceSBOM, Refuse
<1>2. \/ b # None /\ parts' = Append(parts, b)
            /\ UNCHANGED <<doing, composition, merged, deps, next, composed, output>>
      \/ Refuse
  BY DEF SourceSBOM
<1>3. CASE b # None /\ parts' = Append(parts, b)
            /\ UNCHANGED <<doing, composition, merged, deps, next, composed, output>>
  <2>1. b \in Part
    BY <1>3 DEF Part
  <2>2. parts \in Seq(Part) /\ Len(parts) \in Nat
    BY DEF Sourced
  <2>3. parts' \in Seq(Part) /\ Len(parts') = Len(parts) + 1
    BY <1>3, <2>1, <2>2, AppendProperties
  <2>4. Len(composition.sources) \in Nat
    <3>1. IsComposition(composition)
      BY ComposeAssumption DEF Sourced
    <3> QED
      BY <3>1 DEF IsComposition
  <2>5. Sourced'
    BY <1>1, <1>3, <2>2, <2>3, <2>4 DEF Sourced
  <2> QED
    BY <1>1, <1>3, <2>5 DEF UnionInv, Nothing
<1>4. CASE Refuse
  <2>1. Len(parts) # Len(composition.sources) /\ parts' = parts
    <3>1. Len(parts) \in Nat
      BY DEF Sourced
    <3> QED
      BY <1>1, <1>4, <3>1 DEF Refuse
  <2>2. Rightly'
    BY <1>1, <2>1 DEF Rightly
  <2> QED
    BY <1>4, <2>2 DEF Refuse, UnionInv
<1> QED
  BY <1>2, <1>3, <1>4

\* AllRead starts to merge what all the sources gave.
LEMMA AllReadMerges ==
    ASSUME AllRead, Sourced, Nothing, composed = None, output = "old"
    PROVE  UnionInv'
<1>1. /\ doing' = "merge" /\ Len(parts) = Len(composition.sources)
      /\ UNCHANGED <<composition, parts, merged, deps, next, composed, output>>
  BY DEF AllRead
<1>2. AllSourced'
  BY <1>1, UnionsStay DEF AllSourced
<1>3. MergedTo(0)'
  BY <1>1, NothingIsMerged, SumsStay, UnionsStay DEF MergedTo
<1>4. next' = 0 + 1 /\ 0 \in 0..Len(parts')
  BY <1>1, PartsAre DEF Nothing
<1>5. Merging'
  BY <1>2, <1>3, <1>4 DEF Merging
<1> QED
  BY <1>1, <1>5 DEF UnionInv

\* Each step keeps the invariant.
LEMMA UnionStep ==
    ASSUME UnionInv, [Next]_vars
    PROVE  UnionInv'
<1>1. CASE UNCHANGED composeVars
  <2>1. /\ doing' = doing /\ parts' = parts /\ composition' = composition /\ composed' = composed
        /\ output' = output /\ merged' = merged /\ deps' = deps /\ next' = next
    BY <1>1 DEF composeVars
  <2>2. Nothing' <=> Nothing
    BY <2>1 DEF Nothing
  <2>3. Merging' <=> Merging
    <3>1. \A n : MergedTo(n)' <=> MergedTo(n)
      BY <2>1, SumsStay, UnionsStay DEF MergedTo
    <3> QED
      BY <2>1, <3>1, UnionsStay DEF Merging
  <2> QED
    BY <2>1, <2>2, <2>3, UnionsStay, WholeStays DEF UnionInv
<1>2. ASSUME NEW c \in Composition, Load(c)
      PROVE  UnionInv'
  <2>1. doing = "load"
    BY <1>2 DEF Load
  <2> QED
    BY <1>2, <2>1, LoadSources DEF UnionInv
<1>3. CASE FindSBOMPlugins
  <2>1. doing = "find"
    BY <1>3 DEF FindSBOMPlugins
  <2> QED
    BY <1>3, <2>1, FindKeepsSources DEF UnionInv
<1>4. ASSUME NEW s \in Medium \cup File, NEW b \in Gives[s], SourceSBOM(b)
      PROVE  UnionInv'
  <2>1. doing = "read"
    BY <1>4 DEF SourceSBOM
  <2> QED
    BY <1>4, <2>1, ReadSources DEF UnionInv
<1>5. CASE AllRead
  <2>1. doing = "read"
    BY <1>5 DEF AllRead
  <2> QED
    BY <1>5, <2>1, AllReadMerges DEF UnionInv
<1>6. CASE MergePart
  <2>1. doing = "merge"
    BY <1>6 DEF MergePart
  <2> QED
    BY <1>6, <2>1, MergesOn DEF UnionInv
<1>7. CASE Compose
  <2>1. doing = "merge"
    BY <1>7 DEF Compose
  <2> QED
    BY <1>7, <2>1, ComposesWhole DEF UnionInv
<1>8. CASE CreateOutput \/ WriteOutput \/ FailOutput
  <2>1. /\ doing \in {"create", "write"} /\ doing' \in {"write", "composed", "failed"}
        /\ parts' = parts /\ composition' = composition /\ composed' = composed
    BY <1>8 DEF CreateOutput, WriteOutput, FailOutput
  <2>2. Whole
    BY <2>1 DEF UnionInv
  <2> QED
    BY <2>1, <2>2, WholeStays DEF UnionInv
<1>9. CASE Build
  BY <1>9 DEF Build, UnionInv
<1>10. \/ UNCHANGED composeVars \/ ComposeNext \/ Build
  BY DEF Next, vars
<1> QED
  BY <1>1, <1>2, <1>3, <1>4, <1>5, <1>6, <1>7, <1>8, <1>9, <1>10 DEF ComposeNext

\* "The same parts and components always give the same SBOM", for whatever
\* compositions, files and plugins there are: Merge, which goes through the parts
\* one by one (compose.go), composes the union of what they list, each component
\* from the first to list it, and of what they depend on, but for the edges from
\* a root that a later part does not package, whoever gave them; it does so when
\* no rule is broken and the sources agree, and refuses, leaving the output file
\* alone, when not.
THEOREM ComposedExactly == Spec => []ComposesExactly
<1>1. Init => UnionInv
  BY DEF Init, ComposeInit, Idle, UnionInv, Nothing
<1>2. UnionInv /\ [Next]_vars => UnionInv'
  BY UnionStep
<1>3. UnionInv => ComposesExactly
  <2> SUFFICES ASSUME UnionInv
               PROVE  ComposesExactly
    OBVIOUS
  <2>1. composed # None => Mergeable /\ IsComposed
    BY DEF UnionInv, Whole
  <2>2. doing = "refused" => output = "old" /\ Rightly
    BY DEF UnionInv
  <2> QED
    BY <2>1, <2>2 DEF ComposesExactly, Rightly
<1> QED
  BY <1>1, <1>2, <1>3, PTL DEF Spec
=============================================================================

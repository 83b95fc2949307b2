--------------------------- MODULE PackagePullProofs ---------------------------
EXTENDS Archive, FiniteSetTheorems, TLAPS

-----------------------------------------------------------------------------
(* What a pull knows.  These are of a pull r, the referrers R and the      *)
(* signatures S that are or were there, so that a step takes one to the    *)
(* next.                                                                   *)

\* r has the fields of a pull, whatever they hold.
IsRecord(r) ==
    r \in [pc : {r.pc}, job : {r.job}, pkg : {r.pkg}, node : {r.node}, left : {r.left},
           met : {r.met}, todo : {r.todo}, counted : {r.counted}, found : {r.found},
           rest : {r.rest}, held : {r.held}, pulls : {r.pulls}]

\* Its job is one of Jobs, of whichever reference.
Policed(r) == \E k \in Jobs : r.job = [k EXCEPT !.ref = r.job.ref]

Signing(S, n, j) == {g \in For(j).signers : \E sig \in S : sig.of = n /\ sig.key \in Trusts[g]}

VouchedIn(S, n, j) == Cardinality(Signing(S, n, j)) >= For(j).need

AccountedIn(R, s, j) ==
    \E n \in R, g \in For(j).signers :
        n.kind = "provenance" /\ n.of = s /\ n.about = s /\ n.key \in Trusts[g]

\* Its package has the signatures and the provenance that its policy asks for.
Trusted(r, R, S) ==
    /\ VouchedIn(S, Index(r.pkg), r.job)
    /\ ProvenanceRequired(r.job) => AccountedIn(R, r.pkg, r.job)

AttachedTo(n, r, R) == n \in R /\ n.of = r.pkg

Restoring == {"fetch", "sbom", "restore", "scan", "vex", "document", "reports", "layers",
               "finish", "output", "clear", "move"}

AnalysedBy(r) == {<<f.purl, f.scanner>> : f \in {f \in r.found : f.vulns # {None}}}

Judged(r, R, S) ==
    /\ r.pc = "verify" =>
         /\ r.left \subseteq For(r.job).signers
         /\ r.met \subseteq Signing(S, r.node, r.job)
         /\ \/ r.node = Index(r.pkg)
            \/ /\ AttachedTo(r.node, r, R) /\ r.node.kind \in {"vex", "reports"}
               /\ Trusted(r, R, S)
    /\ r.pc = "provenance" => VouchedIn(S, Index(r.pkg), r.job)
    /\ r.pc \in Restoring => Trusted(r, R, S)
    /\ r.pc \in {"document", "layers"} =>
         /\ AttachedTo(r.node, r, R) /\ VouchedIn(S, r.node, r.job)
         /\ r.node.kind = IF r.pc = "document" THEN "vex" ELSE "reports"
    /\ r.pc \in {"record", "keep"} => r.found = {} \/ Trusted(r, R, S)
    /\ r.pc = "keep" =>
         /\ r.todo \subseteq AnalysedBy(r)
         /\ r.job.from = "repository" => Trusted(r, R, S)
    /\ r.pc = "move" => r.todo \subseteq Content[r.pkg].files[r.job.only]

\* A document is being verified or counted.
Weighing(r) == r.pc = "document" \/ (r.pc = "verify" /\ r.node.kind = "vex")

Early(r) ==
    \/ r.pc \in {"open", "extract", "resolve", "provenance", "fetch", "sbom", "restore", "scan"}
    \/ r.pc = "verify" /\ r.node.kind = "index"

\* from gives the referrer of each document that counts.
CountedFrom(from, r, S) ==
    \A i \in DOMAIN r.counted :
        /\ from[i].kind = "vex" /\ from[i].of = r.pkg /\ from[i].what = r.counted[i]
        /\ Verifies(r.job) /\ VouchedIn(S, from[i], r.job)
        /\ \A k \in DOMAIN r.counted : k > i => from[k].age >= from[i].age
        /\ r.pc = "vex" \/ Weighing(r) => \A n \in r.todo : n.age >= from[i].age
        /\ Weighing(r) => r.node.age >= from[i].age

Counts(r, R, S) ==
    /\ Early(r) => r.counted = <<>>
    /\ r.counted \in Seq({n.what : n \in R})
    /\ r.pc = "vex" \/ Weighing(r) =>
         \A n \in r.todo : AttachedTo(n, r, R) /\ n.kind = "vex" /\ Verifies(r.job)
    /\ Weighing(r) => Verifies(r.job) /\ \A n \in r.todo : n.age >= r.node.age
    /\ \E from \in [DOMAIN r.counted -> R] : CountedFrom(from, r, S)

\* Who exempts what a scan of r found.
Silences(r, R, S) ==
    \A f \in r.found : \A v \in f.vulns \cap Vuln :
        Threshold(r.job) \in 1 .. Severity[v] =>
            \/ \E i \in DOMAIN ScanRule.vex : Says[ScanRule.vex[i]][v] = "exempt"
            \/ /\ Verifies(r.job)
               /\ \E n \in R : /\ n.kind = "vex" /\ n.of = f.of
                               /\ Says[n.what][v] = "exempt" /\ VouchedIn(S, n, r.job)

\* Each scanner that job j asks for has judged each component of package s.
ScannedIn(found, s, j) ==
    \A u \in Lists[Content[s].sbom] :
        LET of == {f \in found : f.of = s /\ f.purl = u} IN
        /\ {f.scanner : f \in of} = Scans(j)
        /\ FailsUnscanned(j) => \E f \in of : f.vulns # {None}

Judging(r) ==
    \/ r.pc \in {"reports", "layers", "finish"}
    \/ r.pc = "verify" /\ r.node.kind = "reports"
    \/ r.pc = "keep" /\ r.job.from = "repository"

Looked(r) ==
    /\ \A f \in r.found : f.scanner \in Scans(r.job)
    /\ Judging(r) /\ ~r.job.skipScan /\ Scans(r.job) # {} =>
         ScannedIn(r.found, r.pkg, r.job)
    /\ Early(r) /\ (r.job.from = "repository" \/ r.pc \in {"open", "extract"}) => r.found = {}
    /\ r.pc \in {"output", "clear", "move"} => r.job.only # None /\ r.found = {}

Known(r, R, S) ==
    \/ r = Idle
    \/ /\ r.pc # "ready" /\ Policed(r)
       /\ r.pc \in {"open", "extract"} => Archivist # {} /\ r.job.from = "archive"
       /\ r.pc = "record" => r.job.from = "archive"
       /\ Judged(r, R, S) /\ Counts(r, R, S) /\ Silences(r, R, S) /\ Looked(r)

Pullers ==
    /\ pull = [p \in Puller |-> pull[p]]
    /\ \A p \in Puller : IsRecord(pull[p])

Inv == Pullers /\ \A p \in Puller : Known(pull[p], referrers, signatures)

-----------------------------------------------------------------------------
(* Policies.                                                               *)

LEMMA ForFacts ==
    ASSUME NEW r, Policed(r)
    PROVE  /\ IsFiniteSet(For(r.job).signers)
           /\ For(r.job).need \in Nat
           /\ ~Verifies(r.job) => For(r.job).need = 0
<1> USE ConstantsAssumption
<1>1. PICK k \in Jobs : r.job = [k EXCEPT !.ref = r.job.ref]
  BY DEF Policed
<1>2. /\ k.verify \in Signer \cup {None}
      /\ r.job.verify = k.verify /\ r.job.skipVerify = k.skipVerify
  BY <1>1 DEF JobType
<1>3. /\ TrustRule.signers \subseteq Signer /\ TrustRule.require \in Nat
      /\ IsFiniteSet(Signer)
  OBVIOUS
<1>4. IsFiniteSet(TrustRule.signers) /\ Cardinality(TrustRule.signers) \in Nat
  BY <1>3, FS_Subset, FS_CardinalityType
<1>5. /\ IsFiniteSet({r.job.verify}) /\ IsFiniteSet({}) /\ Cardinality({}) = 0
  BY FS_Singleton, FS_EmptySet
<1>6. CASE r.job.skipVerify
  BY <1>5, <1>6 DEF For, Nobody, Verifies
<1>7. CASE ~r.job.skipVerify /\ r.job.verify # None
  BY <1>5, <1>7 DEF For, Verifies
<1>8. CASE ~r.job.skipVerify /\ r.job.verify = None
  <2>1. For(r.job) = [signers |-> TrustRule.signers, need |-> Required(TrustRule)]
    BY <1>8 DEF For
  <2>2. Required(TrustRule) \in Nat
    BY <1>3, <1>4 DEF Required
  <2>3. TrustRule.signers = {} => Required(TrustRule) = 0
    BY <1>3, <1>5 DEF Required
  <2> QED
    BY <1>4, <2>1, <2>2, <2>3 DEF Verifies
<1> QED
  BY <1>6, <1>7, <1>8

LEMMA SigningSuffices ==
    ASSUME NEW r, Policed(r), NEW S, NEW n, NEW met \in SUBSET Signing(S, n, r.job),
           Cardinality(met) = For(r.job).need
    PROVE  VouchedIn(S, n, r.job)
<1>1. IsFiniteSet(Signing(S, n, r.job))
  BY ForFacts, FS_Subset, Signing(S, n, r.job) \subseteq For(r.job).signers DEF Signing
<1> QED
  BY <1>1, FS_Subset DEF VouchedIn

LEMMA NobodyVouches ==
    ASSUME NEW r, Policed(r), ~Verifies(r.job), NEW S, NEW n
    PROVE  VouchedIn(S, n, r.job)
<1>1. IsFiniteSet(Signing(S, n, r.job))
  BY ForFacts, FS_Subset, Signing(S, n, r.job) \subseteq For(r.job).signers DEF Signing
<1> QED
  BY <1>1, ForFacts, FS_CardinalityType DEF VouchedIn

LEMMA VouchedGrows ==
    ASSUME NEW r, Policed(r), NEW S, NEW T, S \subseteq T, NEW n, VouchedIn(S, n, r.job)
    PROVE  VouchedIn(T, n, r.job)
<1>1. IsFiniteSet(Signing(T, n, r.job))
  BY ForFacts, FS_Subset, Signing(T, n, r.job) \subseteq For(r.job).signers DEF Signing
<1>2. Signing(S, n, r.job) \subseteq Signing(T, n, r.job)
  BY DEF Signing
<1>3. /\ IsFiniteSet(Signing(S, n, r.job))
      /\ Cardinality(Signing(S, n, r.job)) <= Cardinality(Signing(T, n, r.job))
  BY <1>1, <1>2, FS_Subset
<1> QED
  BY <1>1, <1>3, ForFacts, FS_CardinalityType DEF VouchedIn

LEMMA TrustedGrows ==
    ASSUME NEW r, Policed(r), NEW R, NEW T, R \subseteq T, NEW S, NEW V, S \subseteq V,
           Trusted(r, R, S)
    PROVE  Trusted(r, T, V)
BY VouchedGrows DEF Trusted, AccountedIn

-----------------------------------------------------------------------------
(* What others do: the registry only grows.                                *)

LEMMA CountsGrow ==
    ASSUME NEW r, Policed(r), NEW R, NEW T, R \subseteq T, NEW S, NEW V, S \subseteq V,
           Counts(r, R, S)
    PROVE  Counts(r, T, V)
<1>1. {n.what : n \in R} \subseteq {n.what : n \in T}
  OBVIOUS
<1>2. r.counted \in Seq({n.what : n \in T})
  BY <1>1 DEF Counts
<1>3. PICK from \in [DOMAIN r.counted -> R] : CountedFrom(from, r, S)
  BY DEF Counts
<1>4. from \in [DOMAIN r.counted -> T] /\ CountedFrom(from, r, V)
  BY <1>3, VouchedGrows DEF CountedFrom
<1> QED
  BY <1>2, <1>4 DEF Counts, AttachedTo

LEMMA KnownGrows ==
    ASSUME NEW r, NEW R, NEW T, R \subseteq T, NEW S, NEW V, S \subseteq V,
           Known(r, R, S)
    PROVE  Known(r, T, V)
<1>1. CASE r = Idle
  BY <1>1 DEF Known
<1>2. CASE r # Idle
  <2>1. Policed(r) /\ Judged(r, R, S) /\ Counts(r, R, S) /\ Silences(r, R, S)
    BY <1>2 DEF Known
  <2>2. \A n : VouchedIn(S, n, r.job) => VouchedIn(V, n, r.job)
    BY <2>1, VouchedGrows
  <2>3. Trusted(r, R, S) => Trusted(r, T, V)
    BY <2>1, TrustedGrows
  <2>4. \A n : Signing(S, n, r.job) \subseteq Signing(V, n, r.job)
    BY DEF Signing
  <2>5. Judged(r, T, V)
    BY <2>1, <2>2, <2>3, <2>4 DEF Judged, AttachedTo
  <2>6. Counts(r, T, V)
    BY <2>1, CountsGrow
  <2>7. Silences(r, T, V)
    BY <2>1, <2>2 DEF Silences
  <2> QED
    BY <1>2, <2>1, <2>5, <2>6, <2>7 DEF Known
<1> QED
  BY <1>1, <1>2
-----------------------------------------------------------------------------
(* What a step of a pull does to what it knows.                            *)

LEMMA SameTrust ==
    ASSUME NEW r, NEW s, s.job = r.job, s.pkg = r.pkg, NEW R, NEW S
    PROVE  /\ Policed(r) => Policed(s)
           /\ Trusted(r, R, S) <=> Trusted(s, R, S)
           /\ \A n : AttachedTo(n, s, R) <=> AttachedTo(n, r, R)
BY DEF Policed, Trusted, AttachedTo

LEMMA SameFindings ==
    ASSUME NEW r, NEW s, s.job = r.job, s.found = r.found, NEW R, NEW S
    PROVE  Silences(r, R, S) <=> Silences(s, R, S)
BY DEF Silences

\* No document is counted that was not being counted.
Weighed(r, s) ==
    /\ s.pc = "vex" \/ Weighing(s) => s.todo = r.todo /\ (r.pc = "vex" \/ Weighing(r))
    /\ Weighing(s) => Weighing(r) /\ s.node = r.node

LEMMA CountsKept ==
    ASSUME NEW r, NEW s, s.job = r.job, s.pkg = r.pkg, s.counted = r.counted, NEW R, NEW S,
           Counts(r, R, S), Weighed(r, s), Early(s) => Early(r)
    PROVE  Counts(s, R, S)
<1>1. PICK from \in [DOMAIN r.counted -> R] : CountedFrom(from, r, S)
  BY DEF Counts
<1>2. CountedFrom(from, s, S)
  BY <1>1 DEF CountedFrom, Weighed
<1> QED
  BY <1>1, <1>2, SameTrust DEF Counts, Weighed

LEMMA CountsNothing ==
    ASSUME NEW r, r.counted = <<>>, r.pc # "vex", ~Weighing(r), NEW R, NEW S
    PROVE  Counts(r, R, S)
<1>1. DOMAIN r.counted = {} /\ r.counted \in Seq({n.what : n \in R})
  OBVIOUS
<1>2. [i \in {} |-> CHOOSE n \in R : TRUE] \in [DOMAIN r.counted -> R]
  BY <1>1
<1>3. CountedFrom([i \in {} |-> CHOOSE n \in R : TRUE], r, S)
  BY <1>1 DEF CountedFrom
<1> QED
  BY <1>1, <1>2, <1>3 DEF Counts

LEMMA Advance ==
    ASSUME NEW r, NEW s, NEW R, NEW S, Known(r, R, S), r # Idle,
           s.job = r.job, s.pkg = r.pkg, s.counted = r.counted, s.found = r.found,
           s.pc # "ready", Weighed(r, s),
           s.pc \in {"open", "extract"} => r.pc = "open",
           s.pc = "record" => r.job.from = "archive",
           Early(s) => Early(r),
           Judging(s) => Judging(r) \/ r.job.skipScan \/ Scans(r.job) = {},
           s.pc \in {"output", "clear", "move"} =>
               r.pc \in {"output", "clear", "move"} \/ (r.pc = "fetch" /\ r.job.only # None),
           Judged(s, R, S)
    PROVE  Known(s, R, S)
<1> USE ArchiveAssumption, ConstantsAssumption
<1>1. /\ Policed(r) /\ Counts(r, R, S) /\ Silences(r, R, S) /\ Looked(r)
      /\ r.pc \in {"open", "extract"} => Archivist # {} /\ r.job.from = "archive"
  BY DEF Known
<1>2. Policed(s)
  BY <1>1, SameTrust
<1>3. Counts(s, R, S)
  BY <1>1, CountsKept
<1>4. Silences(s, R, S)
  BY <1>1 DEF Silences
<1>5. r.job.only # None => r.job.from = "repository"
  <2>1. PICK k \in Jobs : r.job = [k EXCEPT !.ref = r.job.ref]
    BY <1>1 DEF Policed
  <2>2. /\ r.job.only = k.only /\ r.job.from = k.from
        /\ k.from \in {"repository", "archive"} /\ (k.from = "archive" => k.only = None)
    BY <2>1 DEF JobType
  <2> QED
    BY <2>2
<1>6. Looked(s)
  <2>1. \A f \in s.found : f.scanner \in Scans(s.job)
    BY <1>1 DEF Looked
  <2>2. Judging(s) /\ ~s.job.skipScan /\ Scans(s.job) # {} =>
         ScannedIn(s.found, s.pkg, s.job)
    BY <1>1 DEF Looked
  <2>3. Early(s) /\ (s.job.from = "repository" \/ s.pc \in {"open", "extract"}) =>
         s.found = {}
    BY <1>1 DEF Looked
  <2>4. s.pc \in {"output", "clear", "move"} => s.job.only # None /\ s.found = {}
    BY <1>1, <1>5 DEF Looked, Early
  <2> QED
    BY <2>1, <2>2, <2>3, <2>4 DEF Looked
<1> QED
  BY <1>1, <1>2, <1>3, <1>4, <1>6 DEF Known

\* The puller's own record is all that a step of it changes of pull.
Moves(p) == Pullers' /\ \A q \in Puller \ {p} : pull'[q] = pull[q]

LEMMA Goes ==
    ASSUME Pullers, NEW p \in Puller, NEW label, Goto(p, label)
    PROVE  /\ Moves(p) /\ pull'[p].pc = label
           /\ \A f \in {"job", "pkg", "node", "left", "met", "todo", "counted", "found",
                         "rest", "held", "pulls"} : pull'[p][f] = pull[p][f]
BY DEF Pullers, IsRecord, Goto, Moves

LEMMA Works ==
    ASSUME Pullers, NEW p \in Puller, NEW label, NEW todo, Work(p, label, todo)
    PROVE  /\ Moves(p) /\ pull'[p].pc = label /\ pull'[p].todo = todo
           /\ \A f \in {"job", "pkg", "node", "left", "met", "counted", "found",
                         "rest", "held", "pulls"} : pull'[p][f] = pull[p][f]
BY DEF Pullers, IsRecord, Work, Moves

LEMMA Becomes ==
    ASSUME Pullers, NEW p \in Puller, NEW r, IsRecord(r), pull' = [pull EXCEPT ![p] = r]
    PROVE  Moves(p) /\ pull'[p] = r
BY DEF Pullers, Moves

LEMMA Strikes ==
    ASSUME Pullers, NEW p \in Puller, NEW x, pull' = [pull EXCEPT ![p].todo = @ \ {x}]
    PROVE  /\ Moves(p) /\ pull'[p].todo = pull[p].todo \ {x}
           /\ \A f \in {"pc", "job", "pkg", "node", "left", "met", "counted", "found",
                         "rest", "held", "pulls"} : pull'[p][f] = pull[p][f]
BY DEF Pullers, IsRecord, Moves

\* What a step of p has to keep.
Keeps(p) == Moves(p) /\ Known(pull'[p], referrers', signatures')

LEMMA KnownRunning ==
    ASSUME Inv, NEW p \in Puller, pull[p].pc # "ready"
    PROVE  /\ Pullers /\ Known(pull[p], referrers, signatures) /\ pull[p] # Idle
           /\ Policed(pull[p]) /\ Judged(pull[p], referrers, signatures)
           /\ Counts(pull[p], referrers, signatures)
           /\ Silences(pull[p], referrers, signatures) /\ Looked(pull[p])
<1>1. Idle.pc = "ready"
  BY DEF Idle
<1> QED
  BY <1>1 DEF Inv, Known

\* Steps that find out nothing new: their next label is one of those that their
\* last one leads to.
LEMMA PlainStep ==
    ASSUME Inv, NEW p \in Puller,
           \/ Fetch(p) \/ WriteSBOM(p) \/ (\E u \in Purl : Restore(p, u)) \/ Restored(p)
           \/ (\E u \in Purl, x \in Scanner : RestoreReport(p, u, x)) \/ LeaveReports(p)
           \/ Stage(p) \/ (\E f \in File : Clear(p, f) \/ Move(p, f)) \/ Cleared(p) \/ Moved(p)
           \/ CannotMove(p) \/ Fail(p) \/ Record(p) \/ RecordLoaded(p) \/ EndLoad(p)
           \/ (\E u \in Purl, x \in Scanner : KeepReport(p, u, x))
    PROVE  Keeps(p)
<1> DEFINE r == pull[p]
           s == pull'[p]
           Same == /\ s.job = r.job /\ s.pkg = r.pkg /\ s.node = r.node
                   /\ s.counted = r.counted /\ s.found = r.found
           Onward(from, to) ==
               /\ r.pc \in from /\ s.pc \in to
               /\ Moves(p) /\ Same /\ UNCHANGED <<referrers, signatures>>
<1> USE DEF At, Job, registry
<1>1. Pullers
  BY DEF Inv
<1>2. CASE \/ Fetch(p) \/ WriteSBOM(p) \/ (\E u \in Purl : Restore(p, u)) \/ Restored(p)
  <2>1. \/ Onward({"fetch"}, {"sbom"})
        \/ Onward({"fetch"}, {"output"}) /\ r.job.only # None
        \/ Onward({"sbom", "restore"}, {"restore"})
        \/ Onward({"restore"}, {"scan"})
        \/ Onward({"fetch", "sbom"}, {"failed"})
    <3>1. CASE Fetch(p)
      BY <1>1, <3>1, Goes DEF Fetch
    <3>2. CASE WriteSBOM(p)
      BY <1>1, <3>2, Works DEF WriteSBOM
    <3>3. CASE \E u \in Purl : Restore(p, u)
      <4>1. PICK u \in Purl : Restore(p, u)
        BY <3>3
      <4>2. /\ pull' = [pull EXCEPT ![p].todo = @ \ {u}]
            /\ r.pc = "restore" /\ UNCHANGED <<referrers, signatures>>
        BY <4>1 DEF Restore
      <4>3. Moves(p) /\ Same /\ s.pc = r.pc
        BY <1>1, <4>2, Strikes
      <4> QED
        BY <4>2, <4>3
    <3>4. CASE Restored(p)
      BY <1>1, <3>4, Goes DEF Restored
    <3> QED
      BY <1>2, <3>1, <3>2, <3>3, <3>4
  <2>2. Judged(s, referrers, signatures)
    BY <2>1, KnownRunning, SameTrust DEF Judged, Restoring
  <2>3. Known(s, referrers, signatures)
    BY <2>1, <2>2, KnownRunning, Advance DEF Weighed, Weighing, Early, Judging
  <2> QED
    BY <2>1, <2>3 DEF Keeps
<1>3. CASE \/ (\E u \in Purl, x \in Scanner : RestoreReport(p, u, x)) \/ LeaveReports(p)
  <2>1. Onward({"layers"}, {"layers", "finish"})
    <3>1. CASE \E u \in Purl, x \in Scanner : RestoreReport(p, u, x)
      <4>1. PICK u \in Purl, x \in Scanner : RestoreReport(p, u, x)
        BY <3>1
      <4>2. /\ pull' = [pull EXCEPT ![p].todo = @ \ {<<u, x>>}]
            /\ r.pc = "layers" /\ UNCHANGED <<referrers, signatures>>
        BY <4>1 DEF RestoreReport
      <4>3. Moves(p) /\ Same /\ s.pc = r.pc
        BY <1>1, <4>2, Strikes
      <4> QED
        BY <4>2, <4>3
    <3>2. CASE LeaveReports(p)
      BY <1>1, <3>2, Goes DEF LeaveReports
    <3> QED
      BY <1>3, <3>1, <3>2
  <2>2. Judged(s, referrers, signatures)
    BY <2>1, KnownRunning, SameTrust DEF Judged, Restoring
  <2>3. Known(s, referrers, signatures)
    BY <2>1, <2>2, KnownRunning, Advance DEF Weighed, Weighing, Early, Judging
  <2> QED
    BY <2>1, <2>3 DEF Keeps
<1>4. CASE \/ Stage(p) \/ (\E f \in File : Clear(p, f) \/ Move(p, f)) \/ Cleared(p)
           \/ Moved(p) \/ CannotMove(p)
  <2>1. \/ Onward({"output", "clear"}, {"clear"})
        \/ Onward({"clear"}, {"move"}) /\ s.todo = Wanted(p)
        \/ Onward({"move"}, {"move"}) /\ s.todo \subseteq r.todo
        \/ Onward({"output", "move"}, {"failed", "done"})
    <3>1. CASE Stage(p)
      BY <1>1, <3>1, Goes, Works DEF Stage
    <3>2. CASE Cleared(p)
      BY <1>1, <3>2, Works DEF Cleared
    <3>3. CASE \E f \in File : Clear(p, f) \/ Move(p, f)
      <4>1. PICK f \in File : Clear(p, f) \/ Move(p, f)
        BY <3>3
      <4>2. pull' = [pull EXCEPT ![p].todo = @ \ {f}]
        BY <4>1 DEF Clear, Move
      <4>3. /\ Moves(p) /\ Same /\ s.pc = r.pc
           /\ s.todo = r.todo \ {f}
        BY <1>1, <4>2, Strikes
      <4> QED
        BY <4>1, <4>3 DEF Clear, Move
    <3>4. CASE Moved(p) \/ CannotMove(p)
      BY <1>1, <3>4, Goes DEF Moved, CannotMove
    <3> QED
      BY <1>4, <3>1, <3>2, <3>3, <3>4
  <2>2. Judged(s, referrers, signatures)
    BY <2>1, KnownRunning, SameTrust DEF Judged, Restoring, Wanted
  <2>3. Known(s, referrers, signatures)
    BY <2>1, <2>2, KnownRunning, Advance DEF Weighed, Weighing, Early, Judging
  <2> QED
    BY <2>1, <2>3 DEF Keeps
<1>5. CASE Fail(p) \/ Record(p) \/ RecordLoaded(p) \/ EndLoad(p)
  <2>1. \/ r.pc # "ready" /\ Onward({r.pc}, {"failed", "done"})
        \/ Onward({"finish"}, {"record"}) /\ r.job.from = "archive"
    BY <1>1, <1>5, Goes DEF Fail, Record, RecordLoaded, EndLoad, Ended
  <2>2. Judged(s, referrers, signatures)
    BY <2>1, KnownRunning, SameTrust DEF Judged, Restoring
  <2>3. Known(s, referrers, signatures)
    BY <2>1, <2>2, KnownRunning, Advance DEF Weighed, Weighing, Early, Judging
  <2> QED
    BY <2>1, <2>3 DEF Keeps
<1>6. CASE \E u \in Purl, x \in Scanner : KeepReport(p, u, x)
  <2>1. Onward({"keep"}, {"keep"}) /\ s.todo \subseteq r.todo
    <3>1. PICK u \in Purl, x \in Scanner : KeepReport(p, u, x)
      BY <1>6
    <3>2. pull' = [pull EXCEPT ![p].todo = @ \ {<<u, x>>}]
      BY <3>1 DEF KeepReport
    <3>3. /\ Moves(p) /\ Same /\ s.pc = r.pc
         /\ s.todo = r.todo \ {<<u, x>>}
      BY <1>1, <3>2, Strikes
    <3> QED
      BY <3>1, <3>3 DEF KeepReport
  <2>2. AnalysedBy(s) = AnalysedBy(r)
    BY <2>1 DEF AnalysedBy
  <2>3. Judged(s, referrers, signatures)
    BY <2>1, <2>2, KnownRunning, SameTrust DEF Judged, Restoring
  <2>4. Known(s, referrers, signatures)
    BY <2>1, <2>3, KnownRunning, Advance DEF Weighed, Weighing, Early, Judging
  <2> QED
    BY <2>1, <2>4 DEF Keeps
<1> QED
  BY <1>2, <1>3, <1>4, <1>5, <1>6

-----------------------------------------------------------------------------
(* Steps that verify.                                                      *)

LEMMA StartStep ==
    ASSUME Inv, NEW p \in Puller, NEW j \in Jobs, Archiving <=> j.from = "archive", Start(p, j)
    PROVE  Keeps(p)
<1> USE ConstantsAssumption
<1> DEFINE s == pull'[p]
<1>1. PICK label \in {"failed", "open", "resolve"} :
         /\ label = "open" => j.from = "archive"
         /\ pull' = [pull EXCEPT ![p] =
                       [Idle EXCEPT !.pc = label, !.job = j, !.held = output,
                                    !.pulls = pull[p].pulls + 1]]
  BY DEF Start
<1>2. Moves(p) /\ s = [Idle EXCEPT !.pc = label, !.job = j, !.held = output,
                                   !.pulls = pull[p].pulls + 1]
  BY <1>1, Becomes DEF IsRecord, Idle, Inv
<1>3. /\ s.pc = label /\ s.job = j /\ s.counted = <<>> /\ s.found = {}
      /\ UNCHANGED <<referrers, signatures>>
  <2>1. s.pc = label /\ s.job = j /\ s.counted = <<>> /\ s.found = {}
    BY <1>2 DEF Idle
  <2> QED
    BY <2>1 DEF Start, registry
<1>4. Policed(s)
  BY <1>3, j = [j EXCEPT !.ref = j.ref] DEF Policed, JobType
<1>5. Counts(s, referrers', signatures')
  BY <1>3, CountsNothing DEF Weighing
<1>6. label = "open" => Archivist # {}
  BY <1>1 DEF Archiving
<1> QED
  BY <1>1, <1>2, <1>3, <1>4, <1>5, <1>6
  DEF Keeps, Known, Judged, Restoring, Silences, Looked, Judging, Early

LEMMA ResolveStep ==
    ASSUME Inv, NEW p \in Puller, Resolve(p)
    PROVE  Keeps(p)
<1> DEFINE r == pull[p]
           s == pull'[p]
           x == IF r.job.ref \in Tag THEN tags[r.job.ref] ELSE r.job.ref
<1>1. /\ Pullers /\ r.pc = "resolve" /\ UNCHANGED <<referrers, signatures>>
  BY DEF Inv, Resolve, At, registry
<1>2. /\ Known(r, referrers, signatures) /\ r # Idle /\ Policed(r)
      /\ Counts(r, referrers, signatures) /\ Silences(r, referrers, signatures) /\ Looked(r)
  BY <1>1, KnownRunning
<1>3. CASE x = None
  <2>1. Goto(p, "failed")
    BY <1>3 DEF Resolve, Job
  <2>2. Judged(s, referrers, signatures)
    BY <1>1, <2>1, Goes DEF Judged, Restoring
  <2>3. Known(s, referrers, signatures)
    BY <1>1, <1>2, <2>1, <2>2, Goes, Advance DEF Weighed, Weighing, Early, Judging
  <2> QED
    BY <1>1, <2>1, <2>3, Goes DEF Keeps
<1>4. CASE x # None /\ Verifies(r.job)
  <2> DEFINE v == [r EXCEPT !.pc = "verify", !.node = Index(x), !.left = For(r.job).signers,
                            !.met = {}, !.pkg = x]
  <2>1. pull' = [pull EXCEPT ![p] = v]
    BY <1>4 DEF Resolve, Verify, Job
  <2> HIDE DEF x
  <2>2. IsRecord(v)
    BY <1>1 DEF Pullers, IsRecord
  <2>3. Moves(p) /\ s = v
    BY <1>1, <2>1, <2>2, Becomes
  <2>4. /\ s.pc = "verify" /\ s.node = Index(x) /\ s.left = For(r.job).signers /\ s.met = {}
        /\ s.pkg = x /\ s.job = r.job /\ s.counted = r.counted /\ s.found = r.found
    BY <1>1, <2>3 DEF Pullers, IsRecord
  <2>5. s.node.kind = "index"
    BY <2>4 DEF Index
  <2>6. s.counted = <<>>
    BY <1>1, <1>2, <2>4 DEF Counts, Early
  <2>7. Counts(s, referrers, signatures)
    BY <2>4, <2>5, <2>6, CountsNothing DEF Weighing
  <2>8. Judged(s, referrers, signatures)
    BY <2>4, <2>5 DEF Judged, Restoring
  <2>9. Silences(s, referrers, signatures) /\ Policed(s)
    <3>1. Silences(s, referrers, signatures)
      BY <1>2, <2>4, SameFindings
    <3>2. Policed(s)
      BY <1>2, <2>4 DEF Policed
    <3> QED
      BY <3>1, <3>2
  <2>10. Looked(s)
    BY <1>1, <1>2, <2>4, <2>5 DEF Looked, Early, Judging
  <2> QED
    BY <1>1, <2>3, <2>4, <2>7, <2>8, <2>9, <2>10 DEF Keeps, Known
<1>5. CASE x # None /\ ~Verifies(r.job)
  <2> DEFINE label == Proceed(r.job)
  <2>1. pull' = [pull EXCEPT ![p].pc = label, ![p].pkg = x]
    BY <1>5 DEF Resolve, Job
  <2>2. /\ Moves(p) /\ s.pc = label
        /\ s.pkg = x /\ s.job = r.job /\ s.counted = r.counted /\ s.found = r.found
    BY <1>1, <2>1 DEF Pullers, IsRecord, Moves
  <2>3. label = IF ProvenanceRequired(r.job) THEN "provenance" ELSE "fetch"
    BY DEF Proceed
  <2>4. s.counted = <<>>
    BY <1>1, <1>2, <2>2 DEF Counts, Early
  <2>5. Counts(s, referrers, signatures)
    BY <2>2, <2>3, <2>4, CountsNothing DEF Weighing
  <2>6. Silences(s, referrers, signatures) /\ Policed(s)
    BY <1>2, <2>2 DEF Silences, Policed
  <2>7. VouchedIn(signatures, Index(s.pkg), s.job)
    BY <1>5, <2>2, <2>6, NobodyVouches
  <2>8. Judged(s, referrers, signatures)
    BY <2>2, <2>3, <2>7 DEF Judged, Restoring, Trusted
  <2>9. Looked(s)
    BY <1>1, <1>2, <2>2, <2>3 DEF Looked, Early, Judging
  <2> QED
    BY <1>1, <2>2, <2>3, <2>5, <2>6, <2>8, <2>9 DEF Keeps, Known
<1> QED
  BY <1>3, <1>4, <1>5

\* The signer is struck off, whether it verifies or not, and the label is one of three.
Answers(p, g, met, label, todo) ==
    /\ met = pull[p].met \/ (met = pull[p].met \cup {g} /\ Verified(pull[p].node, g))
    /\ \/ label = Accepted(p) /\ Cardinality(met) = For(Job(p)).need
       \/ label = "verify"
       \/ label = Refused(p)
    /\ label # "layers" => todo = pull[p].todo
    /\ pull' = [pull EXCEPT ![p].met = met, ![p].left = pull[p].left \ {g}, ![p].pc = label,
                            ![p].todo = todo]

LEMMA AskEffect ==
    ASSUME NEW p \in Puller, NEW g, Ask(p, g)
    PROVE  \E met, label, todo : Answers(p, g, met, label, todo)
<1> DEFINE r == pull[p]
<1>1. PICK yes \in {Verified(r.node, g)} \cup {FALSE} :
       LET met == IF yes THEN r.met \cup {g} ELSE r.met
           left == r.left \ {g}
           label == CASE Cardinality(met) = For(r.job).need -> Accepted(p)
                      [] Cardinality(met) # For(r.job).need /\ left # {} -> "verify"
                      [] OTHER -> Refused(p)
       IN  pull' = [pull EXCEPT ![p].met = met, ![p].left = left, ![p].pc = label,
              ![p].todo = IF label = "layers" THEN Lists[Bill(p)] \X Scanner ELSE @]
  BY DEF Ask, Job
<1> DEFINE met == IF yes THEN r.met \cup {g} ELSE r.met
           left == r.left \ {g}
           label == CASE Cardinality(met) = For(r.job).need -> Accepted(p)
                      [] Cardinality(met) # For(r.job).need /\ left # {} -> "verify"
                      [] OTHER -> Refused(p)
           todo == IF label = "layers" THEN Lists[Bill(p)] \X Scanner ELSE r.todo
<1>2. \/ label = Accepted(p) /\ Cardinality(met) = For(r.job).need
      \/ label = "verify"
      \/ label = Refused(p)
  OBVIOUS
<1>3. met = r.met \/ (met = r.met \cup {g} /\ Verified(r.node, g))
  BY <1>1 DEF Verified
<1>4. label # "layers" => todo = r.todo
  OBVIOUS
<1>5. pull' = [pull EXCEPT ![p].met = met, ![p].left = left, ![p].pc = label,
                           ![p].todo = todo]
  BY <1>1
<1>6. Answers(p, g, met, label, todo)
  BY <1>2, <1>3, <1>4, <1>5 DEF Answers, Job
<1> QED
  BY <1>6

LEMMA AskStep ==
    ASSUME Inv, NEW p \in Puller, NEW g, Ask(p, g)
    PROVE  Keeps(p)
<1> DEFINE r == pull[p]
           s == pull'[p]
<1>1. /\ Pullers /\ r.pc = "verify" /\ g \in r.left /\ UNCHANGED <<referrers, signatures>>
  BY DEF Inv, Ask, At, registry
<1>2. /\ Known(r, referrers, signatures) /\ r # Idle /\ Policed(r)
      /\ Judged(r, referrers, signatures) /\ Counts(r, referrers, signatures)
  BY <1>1, KnownRunning
<1>3. PICK met, label, todo : Answers(p, g, met, label, todo)
  BY AskEffect
<1>4. /\ Moves(p) /\ s.met = met /\ s.left = r.left \ {g} /\ s.pc = label /\ s.todo = todo
      /\ s.node = r.node /\ s.pkg = r.pkg /\ s.job = r.job /\ s.counted = r.counted
      /\ s.found = r.found
  <2> DEFINE v == [r EXCEPT !.met = met, !.left = r.left \ {g}, !.pc = label, !.todo = todo]
  <2>1. IsRecord(r)
    BY <1>1 DEF Pullers
  <2>2. /\ IsRecord(v)
        /\ v.met = met /\ v.left = r.left \ {g} /\ v.pc = label /\ v.todo = todo
        /\ v.node = r.node /\ v.pkg = r.pkg /\ v.job = r.job /\ v.counted = r.counted
        /\ v.found = r.found
    BY <2>1 DEF IsRecord
  <2>3. pull' = [pull EXCEPT ![p] = v]
    BY <1>3 DEF Answers
  <2> HIDE DEF v
  <2>4. Moves(p) /\ s = v
    BY <1>1, <2>2, <2>3, Becomes
  <2> QED
    BY <2>2, <2>4
<1>5. /\ s.left \subseteq For(s.job).signers
      /\ s.met \subseteq Signing(signatures, s.node, s.job)
  BY <1>1, <1>2, <1>3, <1>4 DEF Judged, Signing, Verified, Answers
<1>6. Cardinality(met) = For(r.job).need => VouchedIn(signatures, r.node, r.job)
  BY <1>2, <1>4, <1>5, SigningSuffices
<1>7. /\ \/ r.node = Index(r.pkg) /\ r.node.kind = "index"
         \/ /\ AttachedTo(r.node, r, referrers) /\ r.node.kind \in {"vex", "reports"}
            /\ Trusted(r, referrers, signatures)
      /\ \A R, S : Trusted(s, R, S) <=> Trusted(r, R, S)
      /\ \A n, R : AttachedTo(n, s, R) <=> AttachedTo(n, r, R)
  BY <1>1, <1>2, <1>4, SameTrust DEF Judged, Index
<1>8. CASE r.node.kind = "index"
  <2>1. \/ label = "verify" \/ label = "failed"
        \/ /\ label = Proceed(r.job) /\ VouchedIn(signatures, Index(r.pkg), r.job)
    BY <1>3, <1>6, <1>7, <1>8 DEF Accepted, Refused, Job, Answers
  <2>2. Judged(s, referrers, signatures)
    BY <1>4, <1>5, <1>7, <1>8, <2>1 DEF Judged, Restoring, Proceed, Trusted
  <2>3. Known(s, referrers, signatures)
    BY <1>1, <1>2, <1>4, <1>8, <2>1, <2>2, Advance
    DEF Weighed, Weighing, Early, Judging, Proceed
  <2> QED
    BY <1>1, <1>4, <2>3 DEF Keeps
<1>9. CASE r.node.kind = "vex"
  <2>1. /\ \/ label = "verify" \/ label = "vex"
           \/ label = "document" /\ VouchedIn(signatures, r.node, r.job)
        /\ todo = r.todo
    BY <1>3, <1>6, <1>7, <1>9 DEF Accepted, Refused, Job, Answers
  <2>2. Judged(s, referrers, signatures)
    BY <1>4, <1>5, <1>7, <1>9, <2>1 DEF Judged, Restoring
  <2>3. Known(s, referrers, signatures)
    BY <1>1, <1>2, <1>4, <1>9, <2>1, <2>2, Advance DEF Weighed, Weighing, Early, Judging
  <2> QED
    BY <1>1, <1>4, <2>3 DEF Keeps
<1>10. CASE r.node.kind = "reports"
  <2>1. \/ label = "verify" \/ label = "finish"
        \/ label = "layers" /\ VouchedIn(signatures, r.node, r.job)
    BY <1>3, <1>6, <1>7, <1>10 DEF Accepted, Refused, Job, Answers
  <2>2. Judged(s, referrers, signatures)
    BY <1>4, <1>5, <1>7, <1>10, <2>1 DEF Judged, Restoring
  <2>3. Known(s, referrers, signatures)
    BY <1>1, <1>2, <1>4, <1>10, <2>1, <2>2, Advance DEF Weighed, Weighing, Early, Judging
  <2> QED
    BY <1>1, <1>4, <2>3 DEF Keeps
<1> QED
  BY <1>7, <1>8, <1>9, <1>10

LEMMA AskProvenanceStep ==
    ASSUME Inv, NEW p \in Puller, AskProvenance(p)
    PROVE  Keeps(p)
<1> DEFINE r == pull[p]
           s == pull'[p]
<1>1. /\ Pullers /\ r.pc = "provenance" /\ UNCHANGED <<referrers, signatures>>
  BY DEF Inv, AskProvenance, At, registry
<1>2. /\ Known(r, referrers, signatures) /\ r # Idle
      /\ VouchedIn(signatures, Index(r.pkg), r.job)
  BY <1>1, KnownRunning DEF Judged
<1>3. \/ Goto(p, "fetch") /\ AccountedIn(referrers, r.pkg, r.job)
      \/ Goto(p, "failed")
  BY DEF AskProvenance, Attested, Checked, AccountedIn, Job
<1>4. /\ Moves(p) /\ s.pkg = r.pkg /\ s.job = r.job /\ s.counted = r.counted
      /\ s.found = r.found
      /\ \/ s.pc = "fetch" /\ AccountedIn(referrers, r.pkg, r.job)
         \/ s.pc = "failed"
  BY <1>1, <1>3, Goes
<1>5. Judged(s, referrers, signatures)
  BY <1>2, <1>4 DEF Judged, Restoring, Trusted
<1>6. Known(s, referrers, signatures)
  BY <1>1, <1>2, <1>4, <1>5, Advance DEF Weighed, Weighing, Early, Judging
<1> QED
  BY <1>1, <1>4, <1>6 DEF Keeps

-----------------------------------------------------------------------------
(* Steps that scan, and that count documents.                              *)

LEMMA ScanStep ==
    ASSUME Inv, NEW p \in Puller, Scan(p)
    PROVE  Keeps(p)
<1> DEFINE r == pull[p]
           s == pull'[p]
           carried == IF Verifies(r.job) THEN Carried(r.pkg, "vex") ELSE {}
<1>1. /\ Pullers /\ r.pc = "scan" /\ UNCHANGED <<referrers, signatures>>
  BY DEF Inv, Scan, At, registry
<1>2. /\ Known(r, referrers, signatures) /\ r # Idle /\ Policed(r)
      /\ Judged(r, referrers, signatures) /\ Counts(r, referrers, signatures)
      /\ Silences(r, referrers, signatures) /\ Looked(r)
  BY <1>1, KnownRunning
<1>3. \/ Goto(p, "reports") /\ (r.job.skipScan \/ Scans(r.job) = {})
      \/ Goto(p, "failed")
      \/ Work(p, "vex", carried)
  BY DEF Scan, Job
<1>4. CASE Work(p, "vex", carried)
  <2>1. /\ Moves(p) /\ s.pc = "vex" /\ s.todo = carried /\ s.pkg = r.pkg /\ s.job = r.job
        /\ s.counted = r.counted /\ s.found = r.found
    BY <1>1, <1>4, Works
  <2>2. \A n \in s.todo : AttachedTo(n, s, referrers) /\ n.kind = "vex" /\ Verifies(s.job)
    BY <2>1 DEF Carried, AttachedTo
  <2>3. s.counted = <<>>
    BY <1>1, <1>2, <2>1 DEF Counts, Early
  <2>4. Counts(s, referrers, signatures)
    <3>1. DOMAIN s.counted = {} /\ s.counted \in Seq({n.what : n \in referrers})
      BY <2>3
    <3>2. [i \in {} |-> CHOOSE n \in referrers : TRUE] \in [DOMAIN s.counted -> referrers]
      BY <3>1
    <3>3. CountedFrom([i \in {} |-> CHOOSE n \in referrers : TRUE], s, signatures)
      BY <3>1 DEF CountedFrom
    <3> QED
      BY <2>1, <2>2, <2>3, <3>1, <3>2, <3>3 DEF Counts, Weighing
  <2>5. Policed(s) /\ Silences(s, referrers, signatures)
    <3>1. Silences(s, referrers, signatures)
      BY <1>2, <2>1, SameFindings
    <3>2. Policed(s)
      BY <1>2, <2>1, SameTrust
    <3> QED
      BY <3>1, <3>2
  <2>6. Judged(s, referrers, signatures)
    BY <1>1, <1>2, <2>1, SameTrust DEF Judged, Restoring
  <2>7. Looked(s)
    BY <1>2, <2>1 DEF Looked, Judging, Early
  <2> QED
    BY <1>1, <2>1, <2>4, <2>5, <2>6, <2>7 DEF Keeps, Known
<1>5. CASE \/ Goto(p, "reports") /\ (r.job.skipScan \/ Scans(r.job) = {})
           \/ Goto(p, "failed")
  <2>1. /\ Moves(p) /\ s.pkg = r.pkg /\ s.job = r.job /\ s.counted = r.counted
        /\ s.found = r.found
        /\ \/ s.pc = "reports" /\ (r.job.skipScan \/ Scans(r.job) = {})
           \/ s.pc = "failed"
    BY <1>1, <1>5, Goes
  <2>2. Judged(s, referrers, signatures)
    BY <1>1, <1>2, <2>1, SameTrust DEF Judged, Restoring
  <2>3. Known(s, referrers, signatures)
    BY <1>1, <1>2, <2>1, <2>2, Advance DEF Weighed, Weighing, Early, Judging
  <2> QED
    BY <1>1, <2>1, <2>3 DEF Keeps
<1> QED
  BY <1>3, <1>4, <1>5

LEMMA TakeDocumentStep ==
    ASSUME Inv, NEW p \in Puller, NEW n, TakeDocument(p, n)
    PROVE  Keeps(p)
<1> DEFINE r == pull[p]
           s == pull'[p]
           v == [r EXCEPT !.pc = "verify", !.node = n, !.left = For(r.job).signers,
                          !.met = {}, !.todo = r.todo \ {n}]
<1>1. /\ Pullers /\ r.pc = "vex" /\ UNCHANGED <<referrers, signatures>>
      /\ n \in r.todo /\ \A m \in r.todo : n.age <= m.age
  BY DEF Inv, TakeDocument, At, registry
<1>2. /\ Known(r, referrers, signatures) /\ r # Idle /\ Policed(r)
      /\ Judged(r, referrers, signatures) /\ Counts(r, referrers, signatures)
      /\ Silences(r, referrers, signatures) /\ Looked(r)
  BY <1>1, KnownRunning
<1>3. pull' = [pull EXCEPT ![p] = v]
  BY <1>1 DEF TakeDocument, Verify, Job, Pullers, IsRecord
<1>4. IsRecord(v)
  BY <1>1 DEF Pullers, IsRecord
<1>5. Moves(p) /\ s = v
  BY <1>1, <1>3, <1>4, Becomes
<1>6. /\ s.pc = "verify" /\ s.node = n /\ s.left = For(r.job).signers /\ s.met = {}
      /\ s.todo = r.todo \ {n}
      /\ s.pkg = r.pkg /\ s.job = r.job /\ s.counted = r.counted /\ s.found = r.found
  BY <1>1, <1>5 DEF Pullers, IsRecord
<1> HIDE DEF v
<1>7. \A m \in r.todo : AttachedTo(m, s, referrers) /\ m.kind = "vex" /\ Verifies(r.job)
  BY <1>1, <1>2, <1>6, SameTrust DEF Counts
<1>8. Judged(s, referrers, signatures)
  BY <1>1, <1>2, <1>6, <1>7, SameTrust DEF Judged, Restoring
<1>9. Counts(s, referrers, signatures)
  <2>1. PICK from \in [DOMAIN r.counted -> referrers] : CountedFrom(from, r, signatures)
    BY <1>2 DEF Counts
  <2>2. CountedFrom(from, s, signatures)
    BY <1>1, <1>6, <2>1 DEF CountedFrom
  <2>3. \A m \in s.todo : m.age >= s.node.age
    BY <1>1, <1>6
  <2>4. ~Early(s)
    BY <1>1, <1>6, <1>7 DEF Early
  <2> QED
    BY <1>1, <1>2, <1>6, <1>7, <2>1, <2>2, <2>3, <2>4 DEF Counts
<1>10. Policed(s) /\ Silences(s, referrers, signatures)
  <2>1. Silences(s, referrers, signatures)
    BY <1>2, <1>6, SameFindings
  <2>2. Policed(s)
    BY <1>2, <1>6, SameTrust
  <2> QED
    BY <2>1, <2>2
<1>11. Looked(s)
  BY <1>1, <1>2, <1>6, <1>7 DEF Looked, Judging, Early
<1> QED
  BY <1>1, <1>5, <1>6, <1>8, <1>9, <1>10, <1>11 DEF Keeps, Known

\* A document that is counted is the last one, and was published last.
LEMMA CountsOneMore ==
    ASSUME NEW r, NEW s, NEW R, NEW S, Counts(r, R, S), r.pc = "document", s.pc = "vex",
           s.job = r.job, s.pkg = r.pkg, s.todo = r.todo,
           s.counted = Append(r.counted, r.node.what),
           AttachedTo(r.node, r, R), r.node.kind = "vex", VouchedIn(S, r.node, r.job)
    PROVE  Counts(s, R, S)
<1>1. PICK from \in [DOMAIN r.counted -> R] : CountedFrom(from, r, S)
  BY DEF Counts
<1> DEFINE N == Len(r.counted)
           more == [i \in 1 .. N + 1 |-> IF i <= N THEN from[i] ELSE r.node]
<1>2. /\ N \in Nat /\ DOMAIN r.counted = 1 .. N
      /\ s.counted \in Seq({n.what : n \in R}) /\ DOMAIN s.counted = 1 .. N + 1
      /\ \A i \in 1 .. N : s.counted[i] = r.counted[i]
      /\ s.counted[N + 1] = r.node.what
  <2>1. r.counted \in Seq({n.what : n \in R}) /\ r.node.what \in {n.what : n \in R}
    BY DEF Counts, AttachedTo
  <2> QED
    BY <2>1
<1>3. Verifies(r.job) /\ \A n \in r.todo : n.age >= r.node.age
  BY DEF Counts, Weighing
<1>4. Weighing(r) /\ ~Weighing(s) /\ ~Early(s)
  BY DEF Weighing, Early
<1>5. more \in [DOMAIN s.counted -> R]
  BY <1>1, <1>2 DEF AttachedTo
<1>6. CountedFrom(more, s, S)
  <2> SUFFICES ASSUME NEW i \in 1 .. N + 1
               PROVE  /\ more[i].kind = "vex" /\ more[i].of = r.pkg
                      /\ more[i].what = s.counted[i] /\ VouchedIn(S, more[i], r.job)
                      /\ \A k \in 1 .. N + 1 : k > i => more[k].age >= more[i].age
                      /\ \A n \in r.todo : n.age >= more[i].age
    BY <1>2, <1>3, <1>4 DEF CountedFrom
  <2>1. CASE i = N + 1
    <3>1. more[i] = r.node /\ \A k \in 1 .. N + 1 : ~(k > i)
      BY <1>2, <2>1
    <3> QED
      BY <1>2, <1>3, <2>1, <3>1 DEF AttachedTo
  <2>2. CASE i \in 1 .. N
    <3>1. more[i] = from[i] /\ i \in DOMAIN r.counted
      BY <1>2, <2>2
    <3>2. \A k \in 1 .. N + 1 : more[k] = IF k \in DOMAIN r.counted THEN from[k] ELSE r.node
      BY <1>2
    <3>3. /\ from[i].kind = "vex" /\ from[i].of = r.pkg /\ from[i].what = r.counted[i]
          /\ VouchedIn(S, from[i], r.job)
          /\ \A k \in DOMAIN r.counted : k > i => from[k].age >= from[i].age
          /\ \A n \in r.todo : n.age >= from[i].age
          /\ r.node.age >= from[i].age
      BY <1>1, <1>4, <3>1 DEF CountedFrom
    <3> HIDE DEF more
    <3> QED
      BY <1>2, <2>2, <3>1, <3>2, <3>3
  <2>3. i = N + 1 \/ i \in 1 .. N
    BY <1>2
  <2> QED
    BY <2>1, <2>2, <2>3
<1> HIDE DEF more
<1>7. \A n \in s.todo : AttachedTo(n, s, R) /\ n.kind = "vex" /\ Verifies(s.job)
  BY <1>4, SameTrust DEF Counts
<1> QED
  BY <1>2, <1>4, <1>5, <1>6, <1>7 DEF Counts

LEMMA CountDocumentStep ==
    ASSUME Inv, NEW p \in Puller, CountDocument(p)
    PROVE  Keeps(p)
<1> DEFINE r == pull[p]
           s == pull'[p]
<1>1. /\ Pullers /\ r.pc = "document" /\ UNCHANGED <<referrers, signatures>>
  BY DEF Inv, CountDocument, At, registry
<1>2. /\ Known(r, referrers, signatures) /\ r # Idle /\ Policed(r)
      /\ Judged(r, referrers, signatures) /\ Counts(r, referrers, signatures)
      /\ Silences(r, referrers, signatures) /\ Looked(r)
  BY <1>1, KnownRunning
<1>3. CASE pull' = [pull EXCEPT ![p].pc = "vex", ![p].counted = Append(@, r.node.what)]
  <2>1. /\ Moves(p) /\ s.pc = "vex" /\ s.counted = Append(r.counted, r.node.what)
        /\ s.todo = r.todo /\ s.pkg = r.pkg /\ s.job = r.job /\ s.found = r.found
    BY <1>1, <1>3 DEF Pullers, IsRecord, Moves
  <2>2. Counts(s, referrers, signatures)
    BY <1>1, <1>2, <2>1, CountsOneMore DEF Judged
  <2>3. Policed(s) /\ Silences(s, referrers, signatures)
    <3>1. Policed(s)
      BY <1>2, <2>1 DEF Policed
    <3>2. Silences(s, referrers, signatures)
      BY <1>2, <2>1 DEF Silences
    <3> QED
      BY <3>1, <3>2
  <2>4. Judged(s, referrers, signatures)
    BY <1>1, <1>2, <2>1, SameTrust DEF Judged, Restoring
  <2>5. Looked(s)
    BY <1>2, <2>1 DEF Looked, Judging, Early
  <2> QED
    BY <1>1, <2>1, <2>2, <2>3, <2>4, <2>5 DEF Keeps, Known
<1>4. CASE Goto(p, "vex")
  <2>1. /\ Moves(p) /\ s.pc = "vex" /\ s.counted = r.counted
        /\ s.todo = r.todo /\ s.pkg = r.pkg /\ s.job = r.job /\ s.found = r.found
    BY <1>1, <1>4, Goes
  <2>2. Judged(s, referrers, signatures)
    BY <1>1, <1>2, <2>1, SameTrust DEF Judged, Restoring
  <2>3. Known(s, referrers, signatures)
    BY <1>1, <1>2, <2>1, <2>2, Advance DEF Weighed, Weighing, Early, Judging
  <2> QED
    BY <1>1, <2>1, <2>3 DEF Keeps
<1> QED
  BY <1>3, <1>4 DEF CountDocument

\* What two sequences hold together.
LEMMA OneOfBoth ==
    ASSUME NEW A, NEW B, NEW a \in Seq(A), NEW b \in Seq(B), NEW i \in DOMAIN (a \o b)
    PROVE  \/ \E k \in DOMAIN b : (a \o b)[i] = b[k]
           \/ i \in DOMAIN a /\ (a \o b)[i] = a[i]
<1>1. /\ Len(a) \in Nat /\ Len(b) \in Nat /\ DOMAIN a = 1 .. Len(a) /\ DOMAIN b = 1 .. Len(b)
      /\ a \in Seq(A \cup B) /\ b \in Seq(A \cup B)
  OBVIOUS
<1>2. Len(a \o b) = Len(a) + Len(b) /\ i \in 1 .. Len(a) + Len(b)
  BY <1>1
<1>3. CASE i <= Len(a)
  BY <1>1, <1>2, <1>3
<1>4. CASE i > Len(a)
  <2>1. i - Len(a) \in 1 .. Len(b) /\ (a \o b)[i] = b[i - Len(a)]
    BY <1>1, <1>2, <1>4
  <2> QED
    BY <1>1, <2>1
<1> QED
  BY <1>1, <1>2, <1>3, <1>4

LEMMA GateStep ==
    ASSUME Inv, NEW p \in Puller, Gate(p)
    PROVE  Keeps(p)
<1> DEFINE r == pull[p]
           s == pull'[p]
           j == r.job
           us == Lists[Content[r.pkg].sbom]
           Found(results) == {[of |-> r.pkg, purl |-> c[1], scanner |-> c[2],
                               vulns |-> results[c]] : c \in us \X Scans(j)}
<1>1. /\ Pullers /\ r.pc = "vex" /\ UNCHANGED <<referrers, signatures>> /\ r.todo = {}
  BY DEF Inv, Gate, At, registry
<1>2. /\ Known(r, referrers, signatures) /\ r # Idle /\ Policed(r)
      /\ Judged(r, referrers, signatures) /\ Counts(r, referrers, signatures)
      /\ Silences(r, referrers, signatures) /\ Looked(r)
  BY <1>1, KnownRunning
<1>3. PICK found :
         /\ \E results : found = Found(results)
         /\ \/ Goto(p, "failed")
            \/ /\ ~Fails(j, found, r.counted \o ScanRule.vex)
               /\ pull' = [pull EXCEPT ![p].pc = "reports", ![p].found = @ \cup found]
  <2>1. PICK results \in Scanned(p) :
         LET found == {[of |-> r.pkg, purl |-> c[1], scanner |-> c[2],
                        vulns |-> results[c]] : c \in DOMAIN results}
         IN  \/ /\ Fails(Job(p), found, Documents(p))
                /\ Goto(p, "failed")
             \/ /\ ~Fails(Job(p), found, Documents(p))
                /\ pull' = [pull EXCEPT ![p].pc = "reports", ![p].found = @ \cup found]
    BY DEF Gate
  <2>2. DOMAIN results = us \X Scans(j)
    BY DEF Scanned, Bill, Job
  <2> HIDE DEF us
  <2>3. \/ Goto(p, "failed")
        \/ /\ ~Fails(j, Found(results), r.counted \o ScanRule.vex)
           /\ pull' = [pull EXCEPT ![p].pc = "reports", ![p].found = @ \cup Found(results)]
    BY <2>1, <2>2 DEF Job, Documents
  <2> HIDE DEF Found
  <2> QED
    BY <2>3
<1>4. CASE Goto(p, "failed")
  <2>1. /\ Moves(p) /\ s.pc = "failed" /\ s.counted = r.counted
        /\ s.pkg = r.pkg /\ s.job = r.job /\ s.found = r.found
    BY <1>1, <1>4, Goes
  <2>2. Judged(s, referrers, signatures)
    BY <1>1, <1>2, <2>1, SameTrust DEF Judged, Restoring
  <2>3. Known(s, referrers, signatures)
    BY <1>1, <1>2, <2>1, <2>2, Advance DEF Weighed, Weighing, Early, Judging
  <2> QED
    BY <1>1, <2>1, <2>3 DEF Keeps
<1>5. CASE /\ ~Fails(j, found, r.counted \o ScanRule.vex)
           /\ pull' = [pull EXCEPT ![p].pc = "reports", ![p].found = @ \cup found]
  <2> HIDE DEF us, Found
  <2>1. /\ Moves(p) /\ s.pc = "reports" /\ s.found = r.found \cup found
        /\ s.counted = r.counted /\ s.pkg = r.pkg /\ s.job = r.job
    <3> DEFINE both == r.found \cup found
    <3>1. pull' = [pull EXCEPT ![p].pc = "reports", ![p].found = both]
      BY <1>5
    <3>2. both = r.found \cup found
      OBVIOUS
    <3> HIDE DEF both
    <3>3. /\ Moves(p) /\ s.pc = "reports" /\ s.found = both
          /\ s.counted = r.counted /\ s.pkg = r.pkg /\ s.job = r.job
      BY <1>1, <3>1 DEF Pullers, IsRecord, Moves
    <3> QED
      BY <3>2, <3>3
  <2>2. Policed(s)
    BY <1>2, <2>1 DEF Policed
  <2>3. Judged(s, referrers, signatures)
    BY <1>1, <1>2, <2>1, SameTrust DEF Judged, Restoring
  <2>4. Counts(s, referrers, signatures)
    BY <1>1, <1>2, <2>1, CountsKept DEF Weighed, Weighing, Early
  <2>5. /\ \A f \in found : f.of = r.pkg /\ f.purl \in us /\ f.scanner \in Scans(j)
        /\ \A u \in us, x \in Scans(j) :
             \E f \in found : f.of = r.pkg /\ f.purl = u /\ f.scanner = x
    <3>1. PICK results : found = Found(results)
      BY <1>3
    <3>2. \A f \in found : f.of = r.pkg /\ f.purl \in us /\ f.scanner \in Scans(j)
      BY <3>1 DEF Found
    <3>3. ASSUME NEW u \in us, NEW x \in Scans(j)
          PROVE  \E f \in found : f.of = r.pkg /\ f.purl = u /\ f.scanner = x
      <4> DEFINE f == [of |-> r.pkg, purl |-> u, scanner |-> x, vulns |-> results[<<u, x>>]]
      <4>1. <<u, x>> \in us \X Scans(j) /\ <<u, x>>[1] = u /\ <<u, x>>[2] = x
        OBVIOUS
      <4>2. f \in found
        BY <3>1, <4>1 DEF Found
      <4> QED
        BY <4>2
    <3> QED
      BY <3>2, <3>3
  <2>6. Silences(s, referrers, signatures)
    <3> SUFFICES ASSUME NEW f \in s.found, NEW v \in f.vulns \cap Vuln,
                        Threshold(s.job) \in 1 .. Severity[v]
                 PROVE  \/ \E i \in DOMAIN ScanRule.vex :
                             Says[ScanRule.vex[i]][v] = "exempt"
                        \/ /\ Verifies(s.job)
                           /\ \E n \in referrers :
                                /\ n.kind = "vex" /\ n.of = f.of
                                /\ Says[n.what][v] = "exempt"
                                /\ VouchedIn(signatures, n, s.job)
      BY DEF Silences
    <3>1. CASE f \in r.found
      BY <1>2, <2>1, <3>1 DEF Silences
    <3>2. CASE f \in found
      <4>1. Exempted(r.counted \o ScanRule.vex, v)
        <5>1. v \in f.vulns \ {None}
          BY ConstantsAssumption
        <5>2. Severity[v] \in Nat /\ Threshold(j) > 0 /\ Severity[v] >= Threshold(j)
          BY <2>1, ConstantsAssumption
        <5> QED
          BY <1>5, <3>2, <5>1, <5>2 DEF Fails
      <4>2. PICK i \in DOMAIN (r.counted \o ScanRule.vex) :
                   Says[(r.counted \o ScanRule.vex)[i]][v] = "exempt"
        BY <4>1 DEF Exempted
      <4>3. PICK from \in [DOMAIN r.counted -> referrers] : CountedFrom(from, r, signatures)
        BY <1>2 DEF Counts
      <4>4. r.counted \in Seq({n.what : n \in referrers}) /\ ScanRule.vex \in Seq(Document)
        BY <1>2, ConstantsAssumption DEF Counts
      <4>5. \/ \E k \in DOMAIN ScanRule.vex : (r.counted \o ScanRule.vex)[i] = ScanRule.vex[k]
            \/ i \in DOMAIN r.counted /\ (r.counted \o ScanRule.vex)[i] = r.counted[i]
        <5> DEFINE A == {n.what : n \in referrers}
        <5>1. r.counted \in Seq(A) /\ ScanRule.vex \in Seq(Document)
          BY <4>4
        <5> HIDE DEF A
        <5>2. \A a \in Seq(A), b \in Seq(Document) : \A m \in DOMAIN (a \o b) :
                 \/ \E k \in DOMAIN b : (a \o b)[m] = b[k]
                 \/ m \in DOMAIN a /\ (a \o b)[m] = a[m]
          BY OneOfBoth
        <5> QED
          BY <4>2, <5>1, <5>2, Zenon
      <4>6. CASE \E k \in DOMAIN ScanRule.vex : (r.counted \o ScanRule.vex)[i] = ScanRule.vex[k]
        BY <4>2, <4>6
      <4>7. CASE i \in DOMAIN r.counted /\ (r.counted \o ScanRule.vex)[i] = r.counted[i]
        <5>1. /\ from[i] \in referrers /\ from[i].kind = "vex" /\ from[i].of = f.of
              /\ Says[from[i].what][v] = "exempt" /\ Verifies(s.job)
              /\ VouchedIn(signatures, from[i], s.job)
          BY <2>1, <2>5, <3>2, <4>2, <4>3, <4>7 DEF CountedFrom
        <5> QED
          BY <5>1
      <4> QED
        BY <4>5, <4>6, <4>7
    <3> QED
      BY <2>1, <3>1, <3>2
  <2>7. Looked(s)
    <3>1. \A f \in s.found : f.scanner \in Scans(j)
      BY <1>2, <2>1, <2>5 DEF Looked
    <3>2. ASSUME Scans(j) # {} PROVE ScannedIn(s.found, r.pkg, j)
      <4> SUFFICES ASSUME NEW u \in us
                   PROVE  LET of == {f \in s.found : f.of = r.pkg /\ f.purl = u} IN
                          /\ {f.scanner : f \in of} = Scans(j)
                          /\ FailsUnscanned(j) => \E f \in of : f.vulns # {None}
        BY DEF ScannedIn, us
      <4> DEFINE of == {f \in s.found : f.of = r.pkg /\ f.purl = u}
      <4>1. \A x \in Scans(j) : \E f \in of : f.scanner = x /\ f \in found
        BY <2>1, <2>5
      <4>2. {f.scanner : f \in of} = Scans(j)
        BY <3>1, <4>1
      <4>3. ASSUME FailsUnscanned(j) PROVE \E f \in of : f.vulns # {None}
        <5>1. PICK x \in Scans(j) : TRUE
          BY <3>2
        <5>2. u \in {f.purl : f \in found}
          BY <4>1, <5>1
        <5>3. PICK f \in found : f.purl = u /\ f.vulns # {None}
          BY <1>5, <4>3, <5>2 DEF Fails
        <5> QED
          BY <2>1, <2>5, <5>3
      <4> QED
        BY <4>2, <4>3
    <3> QED
      BY <2>1, <3>1, <3>2 DEF Looked, Judging, Early
  <2> QED
    BY <1>1, <2>1, <2>2, <2>3, <2>4, <2>6, <2>7 DEF Keeps, Known
<1> QED
  BY <1>3, <1>4, <1>5

-----------------------------------------------------------------------------
(* Steps that restore reports, and that end a pull.                        *)

LEMMA ListReportsStep ==
    ASSUME Inv, NEW p \in Puller, ListReports(p)
    PROVE  Keeps(p)
<1> DEFINE r == pull[p]
           s == pull'[p]
<1>1. /\ Pullers /\ r.pc = "reports" /\ UNCHANGED <<referrers, signatures>>
  BY DEF Inv, ListReports, At, registry
<1>2. /\ Known(r, referrers, signatures) /\ r # Idle /\ Policed(r)
      /\ Judged(r, referrers, signatures) /\ Counts(r, referrers, signatures)
      /\ Silences(r, referrers, signatures) /\ Looked(r)
  BY <1>1, KnownRunning
<1>3. CASE Goto(p, "finish")
  <2>1. /\ Moves(p) /\ s.pc = "finish" /\ s.counted = r.counted
        /\ s.pkg = r.pkg /\ s.job = r.job /\ s.found = r.found
    BY <1>1, <1>3, Goes
  <2>2. Judged(s, referrers, signatures)
    BY <1>1, <1>2, <2>1, SameTrust DEF Judged, Restoring
  <2>3. Known(s, referrers, signatures)
    BY <1>1, <1>2, <2>1, <2>2, Advance DEF Weighed, Weighing, Early, Judging
  <2> QED
    BY <1>1, <2>1, <2>3 DEF Keeps
<1>4. ASSUME NEW n \in Newest(r.pkg), pull' = [pull EXCEPT ![p] = Verify(p, n)]
      PROVE  Keeps(p)
  <2>1. AttachedTo(n, r, referrers) /\ n.kind = "reports"
    BY <1>4 DEF Newest, Carried, AttachedTo
  <2> DEFINE v == [r EXCEPT !.pc = "verify", !.node = n, !.left = For(r.job).signers,
                            !.met = {}]
  <2>2. IsRecord(v) /\ pull' = [pull EXCEPT ![p] = v]
    BY <1>1, <1>4 DEF Pullers, IsRecord, Verify, Job
  <2>3. Moves(p) /\ s = v
    BY <1>1, <2>2, Becomes
  <2>4. /\ s.pc = "verify" /\ s.node = n /\ s.left = For(r.job).signers /\ s.met = {}
        /\ s.pkg = r.pkg /\ s.job = r.job /\ s.counted = r.counted /\ s.found = r.found
    BY <1>1, <2>3 DEF Pullers, IsRecord
  <2> HIDE DEF v
  <2>5. Judged(s, referrers, signatures)
    BY <1>1, <1>2, <2>1, <2>4, SameTrust DEF Judged, Restoring
  <2>6. Known(s, referrers, signatures)
    BY <1>1, <1>2, <2>1, <2>4, <2>5, Advance DEF Weighed, Weighing, Early, Judging
  <2> QED
    BY <1>1, <2>3, <2>6 DEF Keeps
<1>5. ASSUME NEW n \in Newest(r.pkg), NEW todo, ~Verifies(r.job),
             pull' = [pull EXCEPT ![p].pc = "layers", ![p].node = n, ![p].todo = todo]
      PROVE  Keeps(p)
  <2>1. AttachedTo(n, r, referrers) /\ n.kind = "reports" /\ VouchedIn(signatures, n, r.job)
    BY <1>2, <1>5, NobodyVouches DEF Newest, Carried, AttachedTo
  <2>2. /\ Moves(p) /\ s.pc = "layers" /\ s.node = n /\ s.counted = r.counted
        /\ s.pkg = r.pkg /\ s.job = r.job /\ s.found = r.found
    BY <1>1, <1>5 DEF Pullers, IsRecord, Moves
  <2>3. Judged(s, referrers, signatures)
    BY <1>1, <1>2, <2>1, <2>2, SameTrust DEF Judged, Restoring
  <2>4. Known(s, referrers, signatures)
    BY <1>1, <1>2, <2>2, <2>3, Advance DEF Weighed, Weighing, Early, Judging
  <2> QED
    BY <1>1, <2>2, <2>4 DEF Keeps
<1> QED
  BY <1>3, <1>4, <1>5 DEF ListReports, Job

LEMMA FinishStep ==
    ASSUME Inv, NEW p \in Puller, Finish(p) \/ FinishLoad(p)
    PROVE  Keeps(p)
<1> DEFINE r == pull[p]
           s == pull'[p]
<1>1. /\ Pullers /\ UNCHANGED <<referrers, signatures>>
      /\ \/ r.pc = "finish" /\ r.job.from = "repository"
         \/ r.pc = "record"
      /\ Work(p, "keep", AnalysedBy(r))
  BY DEF Inv, Finish, FinishLoad, At, registry, AnalysedBy, Analysed, Job
<1>2. /\ Known(r, referrers, signatures) /\ r # Idle
      /\ Judged(r, referrers, signatures)
      /\ r.pc = "record" => r.job.from = "archive"
  BY <1>1, KnownRunning DEF Known
<1>3. /\ Moves(p) /\ s.pc = "keep" /\ s.todo = AnalysedBy(r) /\ s.counted = r.counted
      /\ s.pkg = r.pkg /\ s.job = r.job /\ s.found = r.found
  BY <1>1, Works
<1>4. AnalysedBy(s) = AnalysedBy(r)
  BY <1>3 DEF AnalysedBy
<1>5. Judged(s, referrers, signatures)
  BY <1>1, <1>2, <1>3, <1>4, SameTrust DEF Judged, Restoring
<1>6. Known(s, referrers, signatures)
  BY <1>1, <1>2, <1>3, <1>5, Advance DEF Weighed, Weighing, Early, Judging
<1> QED
  BY <1>1, <1>3, <1>6 DEF Keeps

-----------------------------------------------------------------------------
(* Steps of a load.                                                        *)

LEMMA ExtractStep ==
    ASSUME Inv, NEW p \in Puller, OpenArchive(p) \/ Extract(p)
    PROVE  Keeps(p)
<1> DEFINE r == pull[p]
           s == pull'[p]
<1>1. /\ Pullers /\ UNCHANGED <<referrers, signatures>>
      /\ \/ r.pc = "open" /\ Goto(p, "extract")
         \/ r.pc \in {"open", "extract"} /\ Goto(p, "failed")
         \/ UNCHANGED pull
  BY DEF Inv, OpenArchive, Extract, At, registry
<1>2. CASE UNCHANGED pull
  BY <1>1, <1>2 DEF Keeps, Moves, Pullers, Inv
<1>3. CASE r.pc \in {"open", "extract"} /\ ~UNCHANGED pull
  <2>1. /\ Known(r, referrers, signatures) /\ r # Idle
        /\ Judged(r, referrers, signatures) /\ Counts(r, referrers, signatures)
    BY <1>3, KnownRunning
  <2>2. /\ Moves(p) /\ s.counted = r.counted
        /\ s.pkg = r.pkg /\ s.job = r.job /\ s.found = r.found
        /\ s.pc = "failed" \/ (s.pc = "extract" /\ r.pc = "open")
    BY <1>1, <1>3, Goes
  <2>3. Judged(s, referrers, signatures)
    BY <2>1, <2>2, SameTrust DEF Judged, Restoring
  <2>4. Known(s, referrers, signatures)
    BY <1>3, <2>1, <2>2, <2>3, Advance DEF Weighed, Weighing, Early, Judging
  <2> QED
    BY <1>1, <2>2, <2>4 DEF Keeps
<1> QED
  BY <1>1, <1>2, <1>3

\* What a load extracts is a repository of its own: only it sees that one.
LEMMA ListTagsStep ==
    ASSUME Inv, NEW p \in Puller, ListTags(p)
    PROVE  Keeps(p) /\ Puller = {p}
<1> DEFINE r == pull[p]
           s == pull'[p]
<1>1. /\ Pullers /\ r.pc = "extract"
  BY DEF Inv, ListTags, At
<1>2. /\ Known(r, referrers, signatures) /\ r # Idle /\ Policed(r)
      /\ Judged(r, referrers, signatures) /\ Counts(r, referrers, signatures)
      /\ Silences(r, referrers, signatures) /\ Looked(r)
  BY <1>1, KnownRunning
<1>3. Archivist # {} /\ r.job.from = "archive"
  BY <1>1, <1>2 DEF Known
<1>4. /\ Moves(p) /\ s.pc \in {"record", "failed"}
      /\ s.counted = r.counted /\ s.pkg = r.pkg /\ s.job = r.job /\ s.found = r.found
  <2>1. CASE Goto(p, "failed")
    BY <1>1, <2>1, Goes
  <2>2. ASSUME NEW rest, pull' = [pull EXCEPT ![p].pc = "record", ![p].rest = rest]
        PROVE  /\ Moves(p) /\ s.pc = "record" /\ s.counted = r.counted
               /\ s.pkg = r.pkg /\ s.job = r.job /\ s.found = r.found
    BY <1>1, <2>2 DEF Pullers, IsRecord, Moves
  <2> QED
    BY <2>1, <2>2 DEF ListTags
<1>5. s.counted = <<>> /\ s.found = {}
  BY <1>1, <1>2, <1>4 DEF Counts, Looked, Early
<1>6. Counts(s, referrers', signatures')
  BY <1>4, <1>5, CountsNothing DEF Weighing
<1>7. Policed(s)
  BY <1>2, <1>4 DEF Policed
<1>8. Judged(s, referrers', signatures') /\ Silences(s, referrers', signatures') /\ Looked(s)
  BY <1>4, <1>5 DEF Judged, Restoring, Silences, Looked, Judging, Early
<1>9. Known(s, referrers', signatures')
  BY <1>3, <1>4, <1>6, <1>7, <1>8 DEF Known
<1> QED
  BY <1>3, <1>4, <1>9, ArchiveAssumption DEF Keeps

LEMMA NextTagStep ==
    ASSUME Inv, NEW p \in Puller, NextTag(p)
    PROVE  Keeps(p)
<1> DEFINE r == pull[p]
           s == pull'[p]
           j == [r.job EXCEPT !.ref = Head(r.rest)]
           v == [Idle EXCEPT !.pc = "resolve", !.job = j, !.rest = Tail(r.rest),
                             !.found = r.found, !.held = r.held, !.pulls = r.pulls]
<1>1. /\ Pullers /\ r.pc = "record" /\ UNCHANGED <<referrers, signatures>>
      /\ pull' = [pull EXCEPT ![p] = v]
  BY DEF Inv, NextTag, At, registry, Job
<1>2. /\ Known(r, referrers, signatures) /\ r # Idle /\ Policed(r)
      /\ Silences(r, referrers, signatures) /\ Looked(r)
  BY <1>1, KnownRunning
<1>3. r.job.from = "archive"
  BY <1>1, <1>2 DEF Known
<1>4. IsRecord(v) /\ v.pc = "resolve" /\ v.job = j /\ v.found = r.found /\ v.counted = <<>>
  BY DEF IsRecord, Idle
<1>5. Moves(p) /\ s = v
  BY <1>1, <1>4, Becomes
<1>6. /\ Policed(s)
      /\ \A f \in {"from", "skipVerify", "verify", "scanners", "failOn", "unscanned"} :
           s.job[f] = r.job[f]
  <2>1. PICK k \in Jobs : r.job = [k EXCEPT !.ref = r.job.ref]
    BY <1>2 DEF Policed
  <2>2. k \in JobType
    BY ConstantsAssumption
  <2>3. j = [k EXCEPT !.ref = j.ref]
    BY <2>1, <2>2 DEF JobType
  <2> QED
    BY <1>4, <1>5, <2>1, <2>2, <2>3 DEF Policed, JobType
<1> HIDE DEF v, j
<1>7. /\ Threshold(s.job) = Threshold(r.job) /\ Scans(s.job) = Scans(r.job)
      /\ Verifies(s.job) = Verifies(r.job) /\ For(s.job) = For(r.job)
  BY <1>6 DEF Threshold, Given, Scans, Verifies, For
<1>8. \A n : VouchedIn(signatures, n, s.job) = VouchedIn(signatures, n, r.job)
  BY <1>7 DEF VouchedIn, Signing
<1>9. Silences(s, referrers, signatures)
  BY <1>2, <1>4, <1>5, <1>7, <1>8 DEF Silences
<1>10. Counts(s, referrers, signatures)
  BY <1>4, <1>5, CountsNothing DEF Weighing
<1>11. Judged(s, referrers, signatures)
  BY <1>4, <1>5 DEF Judged, Restoring
<1>12. Looked(s)
  BY <1>2, <1>3, <1>4, <1>5, <1>6, <1>7 DEF Looked, Judging
<1> QED
  BY <1>1, <1>4, <1>5, <1>6, <1>9, <1>10, <1>11, <1>12 DEF Keeps, Known

-----------------------------------------------------------------------------
(* All steps.                                                              *)

LEMMA EachPulls ==
    ASSUME Inv, NEW p \in Puller, Pull(p) \/ CannotMove(p) \/ Fail(p) \/ Load(p)
    PROVE  Keeps(p)
<1>1. CASE \/ Resolve(p) \/ (\E g \in Signer : Ask(p, g)) \/ AskProvenance(p)
  BY <1>1, ResolveStep, AskStep, AskProvenanceStep
<1>2. CASE \/ Scan(p) \/ (\E n \in Publishable : TakeDocument(p, n)) \/ CountDocument(p)
           \/ Gate(p) \/ ListReports(p) \/ Finish(p)
  BY <1>2, ScanStep, TakeDocumentStep, CountDocumentStep, GateStep, ListReportsStep, FinishStep
<1>3. CASE OpenArchive(p) \/ Extract(p) \/ ListTags(p) \/ NextTag(p) \/ FinishLoad(p)
  BY <1>3, ExtractStep, ListTagsStep, NextTagStep, FinishStep
<1> QED
  BY <1>1, <1>2, <1>3, PlainStep DEF Pull, Load

\* The registry only grows under a pull, but a load's is that of its archive.
LEMMA Grows ==
    ASSUME Inv, [Next]_allVars
    PROVE  \/ referrers \subseteq referrers' /\ signatures \subseteq signatures'
           \/ \E p \in Puller : ListTags(p)
<1>1. CASE Others
  BY <1>1 DEF Others, Retag, Publish, Sign, Prune
<1>2. CASE UNCHANGED <<referrers, signatures>>
  BY <1>2
<1>3. ASSUME NEW p \in Puller, Pull(p) PROVE UNCHANGED <<referrers, signatures>>
  BY <1>3 DEF Pull, Resolve, Ask, AskProvenance, Fetch, WriteSBOM, Restore, Restored, Scan,
      TakeDocument, CountDocument, Gate, ListReports, RestoreReport, LeaveReports, Finish,
      KeepReport, Record, Stage, Clear, Cleared, Move, Moved, registry
<1>4. ASSUME NEW p \in Puller, CannotMove(p) \/ Fail(p) \/ (Load(p) /\ ~ListTags(p))
      PROVE UNCHANGED <<referrers, signatures>>
  BY <1>4 DEF CannotMove, Fail, Load, OpenArchive, Extract, NextTag, RecordLoaded, FinishLoad,
      EndLoad, registry
<1>5. ASSUME NEW p \in Puller, NEW j \in Jobs, Start(p, j)
      PROVE UNCHANGED <<referrers, signatures>>
  BY <1>5 DEF Start, registry
<1>6. CASE UNCHANGED vars
  BY <1>6 DEF vars, registry
<1> QED
  BY <1>1, <1>2, <1>3, <1>4, <1>5, <1>6 DEF Next, allVars

LEMMA InvStep == Inv /\ [Next]_allVars => Inv'
<1> SUFFICES ASSUME Inv, [Next]_allVars PROVE Inv'
  OBVIOUS
<1>1. ASSUME NEW p \in Puller, Keeps(p), ~ListTags(p) \/ Puller = {p} PROVE Inv'
  <2>1. CASE Puller = {p}
    BY <1>1, <2>1 DEF Keeps, Moves, Inv
  <2>2. CASE referrers \subseteq referrers' /\ signatures \subseteq signatures'
    <3>1. ASSUME NEW q \in Puller \ {p} PROVE Known(pull'[q], referrers', signatures')
      BY <1>1, <2>2, <3>1, KnownGrows DEF Keeps, Moves, Inv
    <3> QED
      BY <1>1, <3>1 DEF Keeps, Moves, Inv
  <2>3. ASSUME NEW q \in Puller, ListTags(q) PROVE Puller = {p}
    BY <2>3, ListTagsStep
  <2> QED
    BY <2>1, <2>2, <2>3, Grows
<1>2. CASE UNCHANGED pull
  <2>1. CASE referrers \subseteq referrers' /\ signatures \subseteq signatures'
    BY <1>2, <2>1, KnownGrows DEF Inv, Pullers
  <2>2. ASSUME NEW p \in Puller, ListTags(p) PROVE Inv'
    BY <1>1, <2>2, ListTagsStep
  <2> QED
    BY <2>1, <2>2, Grows
<1>3. CASE (Others /\ UNCHANGED archives) \/ UNCHANGED vars
  BY <1>2, <1>3 DEF Others, vars
<1>4. ASSUME NEW p \in Puller, Pull(p) \/ CannotMove(p) \/ Fail(p) \/ Load(p) PROVE Inv'
  BY <1>1, <1>4, EachPulls, ListTagsStep
<1>5. ASSUME NEW p \in Puller, NEW j \in Jobs, Archiving <=> j.from = "archive", Start(p, j)
      PROVE Inv'
  <2>1. Keeps(p)
    BY <1>5, StartStep
  <2>2. referrers' = referrers /\ signatures' = signatures
    BY <1>5 DEF Start, registry
  <2>3. ASSUME NEW q \in Puller \ {p} PROVE Known(pull'[q], referrers', signatures')
    BY <2>1, <2>2, <2>3 DEF Keeps, Moves, Inv
  <2> QED
    BY <2>1, <2>3 DEF Keeps, Moves, Inv
<1> QED
  BY <1>3, <1>4, <1>5 DEF Next, allVars

LEMMA InvHolds == Spec => []Inv
<1>1. ArchiveInit => Inv
  BY DEF ArchiveInit, Init, Inv, Pullers, Known, IsRecord, Idle
<1> QED
  BY <1>1, InvStep, PTL DEF Spec

-----------------------------------------------------------------------------
(* What the gate of a pull counts.                                         *)

\* Whatever documents a pull counts at its gate, each is attached to the package it
\* pulls, is vouched for on its own and comes after those published before it,
\* however others push, sign and delete meanwhile (PublishedVEX).
THEOREM CountedAreVouched == Spec => []CountedVouched
<1>1. Inv => CountedVouched
  <2> SUFFICES ASSUME Inv, NEW p \in Puller
               PROVE  \E from \in [DOMAIN pull[p].counted -> referrers] :
                        \A i \in DOMAIN pull[p].counted :
                          /\ from[i].kind = "vex" /\ from[i].of = pull[p].pkg
                          /\ from[i].what = pull[p].counted[i]
                          /\ Verifies(pull[p].job) /\ Vouched(from[i], pull[p].job)
                          /\ \A k \in DOMAIN pull[p].counted :
                               k > i => from[k].age >= from[i].age
    BY DEF CountedVouched, Job
  <2>1. CASE pull[p] = Idle
    <3>1. DOMAIN pull[p].counted = {}
      BY <2>1 DEF Idle
    <3>2. [i \in {} |-> CHOOSE n \in referrers : TRUE] \in [DOMAIN pull[p].counted -> referrers]
      BY <3>1
    <3> QED
      BY <3>1, <3>2
  <2>2. CASE Counts(pull[p], referrers, signatures)
    <3>1. PICK from \in [DOMAIN pull[p].counted -> referrers] :
              CountedFrom(from, pull[p], signatures)
      BY <2>2 DEF Counts
    <3>2. \A n : VouchedIn(signatures, n, pull[p].job) <=> Vouched(n, pull[p].job)
      BY DEF VouchedIn, Vouched, Signing
    <3> QED
      BY <3>1, <3>2 DEF CountedFrom
  <2> QED
    BY <2>1, <2>2 DEF Inv, Known
<1> QED
  BY <1>1, InvHolds, PTL

\* No finding at the threshold is silenced but by the rule's own documents or by one
\* that is vouched for as the package is: nobody else who can push to the
\* repository can have a package pass (CheckGate, PublishedVEX).
THEOREM NothingIsSilenced == Spec => []NothingSilenced
<1>1. Inv => NothingSilenced
  <2> SUFFICES ASSUME Inv, NEW p \in Puller, Passed(p),
                      NEW r \in pull[p].found, NEW v \in r.vulns \cap Vuln,
                      Threshold(pull[p].job) \in 1 .. Severity[v]
               PROVE  \/ \E i \in DOMAIN ScanRule.vex :
                           Says[ScanRule.vex[i]][v] = "exempt"
                      \/ /\ Verifies(pull[p].job)
                         /\ \E n \in referrers :
                              /\ n.kind = "vex" /\ n.of = r.of
                              /\ Says[n.what][v] = "exempt"
                              /\ VouchedIn(signatures, n, pull[p].job)
    BY DEF NothingSilenced, Job, Vouched, VouchedIn, Signing
  <2>1. pull[p].pc # "ready"
    BY DEF Passed
  <2> QED
    BY <2>1, KnownRunning DEF Silences
<1> QED
  BY <1>1, InvHolds, PTL

-----------------------------------------------------------------------------
(* What a pull writes.                                                     *)

Shapes ==
    /\ DOMAIN layers = Purl /\ DOMAIN local = Tag
    /\ DOMAIN reports = Purl /\ \A u \in Purl : DOMAIN reports[u] = Scanner

\* The steps that write.
Writes(p) ==
    \/ WriteSBOM(p) \/ (\E u \in Purl : Restore(p, u))
    \/ (\E u \in Purl, x \in Scanner : RestoreReport(p, u, x))
    \/ (\E u \in Purl, x \in Scanner : KeepReport(p, u, x))
    \/ Record(p) \/ RecordLoaded(p)
    \/ (\E f \in File : Clear(p, f) \/ Move(p, f)) \/ CannotMove(p)

LEMMA WhoWrites ==
    ASSUME [Next]_allVars
    PROVE  \/ UNCHANGED disk
           \/ \E p \in Puller : Writes(p)
<1>1. ASSUME NEW p \in Puller, Pull(p) PROVE UNCHANGED disk \/ Writes(p)
  BY <1>1 DEF Pull, Resolve, Ask, AskProvenance, Fetch, Restored, Scan,
      TakeDocument, CountDocument, Gate, ListReports, LeaveReports, Finish,
      Stage, Cleared, Moved, Writes
<1>2. ASSUME NEW p \in Puller, CannotMove(p) \/ Fail(p) \/ Load(p)
      PROVE  UNCHANGED disk \/ Writes(p)
  BY <1>2 DEF Fail, Load, OpenArchive, Extract, ListTags, NextTag, FinishLoad, EndLoad, Writes
<1>3. ASSUME NEW p \in Puller, NEW j \in Jobs, Start(p, j) PROVE UNCHANGED disk
  BY <1>3 DEF Start
<1>4. CASE Others \/ UNCHANGED vars
  BY <1>4 DEF Others, vars
<1> QED
  BY <1>1, <1>2, <1>3, <1>4 DEF Next, allVars

LEMMA ShapesStep == Shapes /\ [Next]_allVars => Shapes'
<1> SUFFICES ASSUME Shapes, [Next]_allVars PROVE Shapes'
  OBVIOUS
<1>1. CASE UNCHANGED disk
  BY <1>1 DEF Shapes, disk
<1>2. ASSUME NEW p \in Puller, Writes(p) PROVE Shapes'
  <2>1. CASE \/ WriteSBOM(p) \/ (\E u \in Purl : Restore(p, u)) \/ Record(p) \/ RecordLoaded(p)
             \/ (\E f \in File : Clear(p, f) \/ Move(p, f)) \/ CannotMove(p)
    BY <2>1 DEF Shapes, WriteSBOM, Restore, Record, RecordLoaded, Clear, Move, CannotMove
  <2>2. ASSUME NEW u \in Purl, NEW x \in Scanner, RestoreReport(p, u, x) \/ KeepReport(p, u, x)
        PROVE  Shapes'
    BY <2>2 DEF Shapes, RestoreReport, KeepReport
  <2> QED
    BY <1>2, <2>1, <2>2 DEF Writes
<1> QED
  BY <1>1, <1>2, WhoWrites

LEMMA ShapesHold == Spec => []Shapes
<1>1. ArchiveInit => Shapes
  BY DEF ArchiveInit, Init, Shapes
<1> QED
  BY <1>1, ShapesStep, PTL DEF Spec

LEMMA WriterTrusts ==
    ASSUME Inv, NEW p \in Puller, Writes(p)
    PROVE  /\ Trusted(pull[p], referrers, signatures)
           /\ pull[p].pc # "ready" /\ Moves(p)
<1> DEFINE r == pull[p]
<1>1. /\ r.pc \in {"sbom", "restore", "layers", "keep", "finish", "clear", "move"}
      /\ r.pc = "keep" => r.job.from = "repository" \/ r.todo # {}
  BY DEF Writes, WriteSBOM, Restore, RestoreReport, KeepReport, Record, RecordLoaded, Clear,
      Move, CannotMove, At, Job
<1>2. Judged(r, referrers, signatures)
  BY <1>1, KnownRunning
<1>3. r.found = {} => AnalysedBy(r) = {}
  BY DEF AnalysedBy
<1>4. Trusted(r, referrers, signatures)
  BY <1>1, <1>2, <1>3 DEF Judged, Restoring
<1>5. Keeps(p)
  BY EachPulls DEF Writes, Pull, Load
<1> QED
  BY <1>1, <1>4, <1>5 DEF Keeps

\* All that a pull writes, up to the tag, is of one package that is vouched for, with
\* provenance if its policy asks for that, and the reports are of one referrer that is
\* vouched for likewise, whatever others do to the repository meanwhile (pull.Pull).
THEOREM WritesAreVouched == Spec => WritesVouched
<1>1. Inv /\ Shapes /\ [Next]_allVars =>
        [\A p \in Puller : pull'[p] # pull[p] /\ disk' # disk =>
         /\ Vouched(Index(pull[p].pkg), Job(p))
         /\ ProvenanceRequired(Job(p)) => Accounted(pull[p].pkg, Job(p))
         /\ sboms' \subseteq sboms \cup {Bill(p)}
         /\ \A u \in Purl : layers'[u] \in {layers[u], Content[pull[p].pkg].files[u]}
         /\ \A t \in Tag : local'[t] \in {local[t], Bill(p)}
         /\ output' # output => output' \subseteq output \cup Wanted(p)
         /\ \A u \in Purl, x \in Scanner : LET r == reports'[u][x] IN
              \/ r = reports[u][x]
              \/ r.kind = "fresh"
              \/ r.kind = "reports" /\ r.of = pull[p].pkg /\ Vouched(r, Job(p))]_vars
  <2> SUFFICES ASSUME Inv, Shapes, [Next]_allVars, NEW p \in Puller,
                      pull'[p] # pull[p], disk' # disk
               PROVE  /\ Vouched(Index(pull[p].pkg), Job(p))
                      /\ ProvenanceRequired(Job(p)) => Accounted(pull[p].pkg, Job(p))
                      /\ sboms' \subseteq sboms \cup {Bill(p)}
                      /\ \A u \in Purl :
                           layers'[u] \in {layers[u], Content[pull[p].pkg].files[u]}
                      /\ \A t \in Tag : local'[t] \in {local[t], Bill(p)}
                      /\ output' # output => output' \subseteq output \cup Wanted(p)
                      /\ \A u \in Purl, x \in Scanner :
                           \/ reports'[u][x] = reports[u][x]
                           \/ reports'[u][x].kind = "fresh"
                           \/ /\ reports'[u][x].kind = "reports"
                              /\ reports'[u][x].of = pull[p].pkg
                              /\ Vouched(reports'[u][x], Job(p))
    OBVIOUS
  <2>1. PICK q \in Puller : Writes(q)
    BY WhoWrites DEF disk
  <2>2. q = p
    BY <2>1, WriterTrusts DEF Moves
  <2>3. /\ Writes(p) /\ Trusted(pull[p], referrers, signatures)
        /\ pull[p].pc # "ready"
    BY <2>1, <2>2, WriterTrusts
  <2>4. /\ Vouched(Index(pull[p].pkg), Job(p))
        /\ ProvenanceRequired(Job(p)) => Accounted(pull[p].pkg, Job(p))
    BY <2>3 DEF Trusted, Vouched, VouchedIn, Signing, Accounted, AccountedIn, Job
  <2>5. sboms' \subseteq sboms \cup {Bill(p)}
    BY <2>3 DEF Writes, WriteSBOM, Restore, RestoreReport, KeepReport, Record, RecordLoaded,
        Clear, Move, CannotMove, Bill
  <2>6. \A u \in Purl : layers'[u] \in {layers[u], Content[pull[p].pkg].files[u]}
    BY <2>3 DEF Shapes, Writes, WriteSBOM, Restore, RestoreReport, KeepReport, Record,
        RecordLoaded, Clear, Move, CannotMove
  <2>7. \A t \in Tag : local'[t] \in {local[t], Bill(p)}
    BY <2>3 DEF Shapes, Writes, WriteSBOM, Restore, RestoreReport, KeepReport, Record,
        RecordLoaded, Clear, Move, CannotMove
  <2>8. output' # output => output' \subseteq output \cup Wanted(p)
    <3>1. CASE \E f \in File : Move(p, f)
      <4>1. PICK f \in File : Move(p, f)
        BY <3>1
      <4>2. f \in Wanted(p)
        BY <2>3, <4>1, KnownRunning DEF Move, At, Judged, Wanted, Job
      <4> QED
        BY <4>1, <4>2 DEF Move
    <3>2. CASE ~\E f \in File : Move(p, f)
      BY <2>3, <3>2 DEF Writes, WriteSBOM, Restore, RestoreReport, KeepReport, Record,
          RecordLoaded, Clear, CannotMove
    <3> QED
      BY <3>1, <3>2
  <2> DEFINE Told(u, x) ==
        \/ reports'[u][x] = reports[u][x]
        \/ reports'[u][x].kind = "fresh"
        \/ /\ reports'[u][x].kind = "reports"
           /\ reports'[u][x].of = pull[p].pkg
           /\ Vouched(reports'[u][x], Job(p))
  <2>9. \A u \in Purl, x \in Scanner : Told(u, x)
    <3>1. ASSUME NEW u \in Purl, NEW x \in Scanner,
                 NEW w \in Purl, NEW y \in Scanner, RestoreReport(p, w, y)
          PROVE  Told(u, x)
      <4>1. /\ pull[p].node.kind = "reports" /\ pull[p].node.of = pull[p].pkg
            /\ Vouched(pull[p].node, Job(p))
        BY <2>3, <3>1, KnownRunning
        DEF RestoreReport, At, Judged, AttachedTo, Vouched, VouchedIn, Signing, Job
      <4>2. reports'[u][x] = IF u = w /\ x = y THEN pull[p].node ELSE reports[u][x]
        BY <3>1 DEF RestoreReport, Shapes
      <4> QED
        BY <4>1, <4>2
    <3>2. ASSUME NEW u \in Purl, NEW x \in Scanner,
                 NEW w \in Purl, NEW y \in Scanner, KeepReport(p, w, y)
          PROVE  Told(u, x)
      <4>1. reports'[u][x] = IF u = w /\ x = y THEN Fresh(p) ELSE reports[u][x]
        BY <3>2 DEF KeepReport, Shapes
      <4> QED
        BY <4>1 DEF Fresh
    <3>3. ASSUME NEW u \in Purl, NEW x \in Scanner, UNCHANGED reports
          PROVE  Told(u, x)
      BY <3>3
    <3>4. \/ \E u \in Purl, x \in Scanner : RestoreReport(p, u, x) \/ KeepReport(p, u, x)
          \/ UNCHANGED reports
      BY <2>3 DEF Writes, WriteSBOM, Restore, Record, RecordLoaded, Clear, Move, CannotMove
    <3> HIDE DEF Told
    <3> QED
      BY <3>1, <3>2, <3>3, <3>4
  <2> QED
    BY <2>4, <2>5, <2>6, <2>7, <2>8, <2>9
<1> QED
  BY <1>1, InvHolds, ShapesHold, PTL DEF Spec, WritesVouched

-----------------------------------------------------------------------------
(* What a pull has scanned when it tags.                                   *)

Alone == \A p, q \in Puller : p = q

\* What a pull found is reported but for what it has yet to report.
Reported ==
    \A p \in Puller : pull[p].pc = "keep" =>
        \A c \in Analysed(p) \ pull[p].todo :
            c \in Purl \X Scanner /\ reports[c[1]][c[2]] = Fresh(p)

\* What the steps of a pull leave alone, but for those that pull'[p] = r names.
LEMMA Persists ==
    ASSUME Pullers, NEW p \in Puller,
           Pull(p) \/ CannotMove(p) \/ Fail(p) \/ Load(p)
    PROVE  /\ pull'[p].pc = "keep" =>
                \/ Finish(p) \/ FinishLoad(p)
                \/ \E u \in Purl, x \in Scanner : KeepReport(p, u, x)
                \/ UNCHANGED pull
           /\ pull'[p].held = pull[p].held
           /\ NextTag(p) \/ pull'[p].job = pull[p].job
           /\ pull'[p].pc = "done" =>
                Record(p) \/ EndLoad(p) \/ Moved(p) \/ UNCHANGED pull
<1> DEFINE r == pull[p]
           s == pull'[p]
           Aside == s.pc \notin {"keep", "done"} /\ s.held = r.held /\ s.job = r.job
<1> USE DEF At, Job
<1>1. ASSUME NEW label, label \notin {"keep", "done"}, Goto(p, label) PROVE Aside
  BY <1>1, Goes
<1>2. ASSUME NEW label, NEW todo, label \notin {"keep", "done"}, Work(p, label, todo) PROVE Aside
  BY <1>2, Works
<1>4. CASE Resolve(p)
  <2> DEFINE x == IF r.job.ref \in Tag THEN tags[r.job.ref] ELSE r.job.ref
  <2>1. CASE x = None
    BY <1>1, <1>4, <2>1 DEF Resolve
  <2>2. CASE x # None /\ Verifies(r.job)
    <3>1. pull' = [pull EXCEPT ![p] = [Verify(p, Index(x)) EXCEPT !.pkg = x]]
      BY <1>4, <2>2 DEF Resolve
    <3> HIDE DEF x
    <3> QED
      BY <3>1 DEF Pullers, IsRecord, Verify
  <2>3. CASE x # None /\ ~Verifies(r.job)
    <3>1. pull' = [pull EXCEPT ![p].pc = Proceed(r.job), ![p].pkg = x]
      BY <1>4, <2>3 DEF Resolve
    <3> HIDE DEF x
    <3> QED
      BY <3>1 DEF Pullers, IsRecord, Proceed
  <2> QED
    BY <2>1, <2>2, <2>3
<1>5. ASSUME NEW g \in Signer, Ask(p, g) PROVE Aside
  <2>1. PICK met, label, todo : Answers(p, g, met, label, todo)
    BY <1>5, AskEffect
  <2>2. label \notin {"keep", "done"}
    BY <2>1 DEF Accepted, Refused, Proceed, Answers
  <2> QED
    BY <2>1, <2>2 DEF Pullers, IsRecord, Answers
<1>6. CASE Scan(p)
  <2>1. \/ Goto(p, "reports") \/ Goto(p, "failed") \/ \E todo : Work(p, "vex", todo)
    BY <1>6 DEF Scan
  <2> QED
    BY <1>1, <1>2, <2>1
<1>7. ASSUME NEW n, TakeDocument(p, n) PROVE Aside
  BY <1>7 DEF TakeDocument, Pullers, IsRecord, Verify
<1>8. CASE CountDocument(p)
  BY <1>8 DEF CountDocument, Goto, Pullers, IsRecord
<1>9. CASE Gate(p)
  <2>1. \/ Goto(p, "failed")
        \/ \E found : pull' = [pull EXCEPT ![p].pc = "reports", ![p].found = found]
    BY <1>9 DEF Gate
  <2>2. ASSUME NEW found, pull' = [pull EXCEPT ![p].pc = "reports", ![p].found = found]
        PROVE  Aside
    BY <2>2 DEF Pullers, IsRecord
  <2> QED
    BY <1>1, <2>1, <2>2
<1>10. CASE ListReports(p)
  <2>1. \/ Goto(p, "finish")
        \/ \E n : pull' = [pull EXCEPT ![p] = Verify(p, n)]
        \/ \E n, todo : pull' = [pull EXCEPT ![p].pc = "layers", ![p].node = n,
                                             ![p].todo = todo]
    BY <1>10 DEF ListReports
  <2>2. ASSUME NEW n, pull' = [pull EXCEPT ![p] = Verify(p, n)] PROVE Aside
    BY <2>2 DEF Pullers, IsRecord, Verify
  <2>3. ASSUME NEW n, NEW todo, pull' = [pull EXCEPT ![p].pc = "layers", ![p].node = n,
                                                     ![p].todo = todo]
        PROVE  Aside
    BY <2>3 DEF Pullers, IsRecord
  <2> QED
    BY <1>1, <2>1, <2>2, <2>3
<1>11. CASE AskProvenance(p) \/ Fetch(p) \/ WriteSBOM(p) \/ Restored(p) \/ LeaveReports(p)
            \/ CannotMove(p) \/ Fail(p) \/ Stage(p) \/ Cleared(p)
  <2>1. CASE AskProvenance(p) \/ Fetch(p) \/ Restored(p) \/ LeaveReports(p)
    BY <1>1, <2>1 DEF AskProvenance, Fetch, Restored, LeaveReports
  <2>2. CASE CannotMove(p) \/ Fail(p)
    BY <1>1, <2>2 DEF CannotMove, Fail
  <2>3. CASE WriteSBOM(p) \/ Stage(p) \/ Cleared(p)
    BY <1>1, <1>2, <2>3 DEF WriteSBOM, Stage, Cleared
  <2> QED
    BY <1>11, <2>1, <2>2, <2>3
<1>12. ASSUME NEW x, pull' = [pull EXCEPT ![p].todo = @ \ {x}]
       PROVE  s.pc = r.pc /\ s.held = r.held /\ s.job = r.job
  BY <1>12, Strikes
<1>13. CASE \/ (\E u \in Purl : Restore(p, u)) \/ (\E f \in File : Clear(p, f) \/ Move(p, f))
            \/ (\E u \in Purl, x \in Scanner : RestoreReport(p, u, x))
  BY <1>12, <1>13 DEF Restore, Clear, Move, RestoreReport
<1>14. CASE \E u \in Purl, x \in Scanner : KeepReport(p, u, x)
  BY <1>12, <1>14 DEF KeepReport
<1>15. CASE Finish(p) \/ FinishLoad(p)
  BY <1>15, Works DEF Finish, FinishLoad
<1>16. CASE OpenArchive(p) \/ Extract(p) \/ RecordLoaded(p)
  BY <1>1, <1>16 DEF OpenArchive, Extract, RecordLoaded
<1>17. CASE ListTags(p)
  <2>1. ASSUME NEW rest, pull' = [pull EXCEPT ![p].pc = "record", ![p].rest = rest]
        PROVE  Aside
    BY <2>1 DEF Pullers, IsRecord
  <2> QED
    BY <1>1, <1>17, <2>1 DEF ListTags
<1>18. CASE NextTag(p)
  BY <1>18 DEF NextTag, Pullers, IsRecord, Idle
<1>19. CASE Record(p) \/ Moved(p) \/ EndLoad(p)
  BY <1>19, Goes DEF Record, Moved, EndLoad
<1> QED
  BY <1>4, <1>5, <1>6, <1>7, <1>8, <1>9, <1>10, <1>11, <1>13, <1>14, <1>15, <1>16, <1>17, <1>18,
     <1>19
  DEF Pull, Load

LEMMA StartEffect ==
    ASSUME Pullers, NEW p \in Puller, NEW j \in Jobs, Start(p, j)
    PROVE  /\ Moves(p) /\ pull'[p].job = j /\ pull'[p].held = output
           /\ pull'[p].pc \in {"failed", "open", "resolve"}
           /\ pull'[p].pc = "open" => j.from = "archive"
           /\ UNCHANGED <<registry, disk>>
<1>1. PICK label \in {"failed", "open", "resolve"} :
         /\ label = "open" => j.from = "archive"
         /\ pull' = [pull EXCEPT ![p] =
                       [Idle EXCEPT !.pc = label, !.job = j, !.held = output,
                                    !.pulls = pull[p].pulls + 1]]
  BY DEF Start
<1>2. Moves(p) /\ pull'[p] = [Idle EXCEPT !.pc = label, !.job = j, !.held = output,
                                          !.pulls = pull[p].pulls + 1]
  BY <1>1, Becomes DEF IsRecord, Idle
<1> QED
  BY <1>1, <1>2 DEF Idle, Start

LEMMA WhoMoves ==
    ASSUME Inv, [Next]_allVars, NEW p \in Puller, pull'[p] # pull[p]
    PROVE  \/ \E j \in Jobs : Start(p, j)
           \/ Pull(p) \/ CannotMove(p) \/ Fail(p) \/ Load(p)
<1>1. ASSUME NEW q \in Puller, Pull(q) \/ CannotMove(q) \/ Fail(q) \/ Load(q)
      PROVE  q = p
  BY <1>1, EachPulls DEF Keeps, Moves
<1>2. ASSUME NEW q \in Puller, NEW j \in Jobs, Start(q, j) PROVE q = p
  BY <1>2, StartEffect DEF Moves, Inv
<1>3. ~Others /\ ~UNCHANGED vars
  BY DEF Others, vars
<1> QED
  BY <1>1, <1>2, <1>3 DEF Next, allVars

LEMMA Ends ==
    ASSUME Inv, [Next]_allVars, NEW p \in Puller, pull'[p] # pull[p], pull'[p].pc = "done"
    PROVE  /\ pull[p].pc \in {"keep", "move"}
           /\ pull[p].todo = {}
<1>1. \A j \in Jobs : ~Start(p, j)
  BY StartEffect DEF Inv
<1>2. Pull(p) \/ CannotMove(p) \/ Fail(p) \/ Load(p)
  BY <1>1, WhoMoves
<1>3. Record(p) \/ EndLoad(p) \/ Moved(p)
  BY <1>2, Persists DEF Inv
<1> QED
  BY <1>3 DEF Record, EndLoad, Moved, At

LEMMA ReportedStep ==
    ASSUME Alone, Inv, Shapes, Reported, [Next]_allVars
    PROVE  Reported'
<1>1. CASE UNCHANGED <<reports, pull>>
  BY <1>1 DEF Reported, Analysed, Fresh
<1>2. ASSUME NEW p \in Puller, Puller = {p}, pull'[p].pc # "keep" PROVE Reported'
  BY <1>2 DEF Reported
<1>3. ASSUME NEW p \in Puller, NEW u \in Purl, NEW x \in Scanner, KeepReport(p, u, x)
      PROVE  Reported'
  <2>1. Puller = {p}
    BY DEF Alone
  <2>2. /\ Pullers /\ pull' = [pull EXCEPT ![p].todo = @ \ {<<u, x>>}]
    BY <1>3 DEF Inv, KeepReport
  <2>3. /\ pull'[p].todo = pull[p].todo \ {<<u, x>>} /\ pull'[p].pc = pull[p].pc
        /\ pull'[p].found = pull[p].found /\ pull'[p].pulls = pull[p].pulls
    BY <2>2, Strikes
  <2>4. Analysed(p)' = Analysed(p) /\ Fresh(p)' = Fresh(p) /\ pull[p].pc = "keep"
    BY <1>3, <2>3 DEF Analysed, Fresh, KeepReport, At
  <2>5. \A w \in Purl, y \in Scanner :
           reports'[w][y] = IF w = u /\ y = x THEN Fresh(p) ELSE reports[w][y]
    BY <1>3 DEF KeepReport, Shapes
  <2>6. ASSUME NEW c \in Analysed(p) \ (pull[p].todo \ {<<u, x>>})
        PROVE  c \in Purl \X Scanner /\ reports'[c[1]][c[2]] = Fresh(p)
    <3>1. c = <<u, x>> \/ c \in Analysed(p) \ pull[p].todo
      OBVIOUS
    <3>2. c = <<c[1], c[2]>> /\ c[1] \in Purl /\ c[2] \in Scanner
      BY <2>4, <3>1 DEF Reported
    <3> QED
      BY <2>4, <2>5, <3>1, <3>2 DEF Reported
  <2> QED
    BY <2>1, <2>3, <2>4, <2>6 DEF Reported
<1>4. ASSUME NEW p \in Puller, Finish(p) \/ FinishLoad(p) PROVE Reported'
  <2>1. Puller = {p}
    BY DEF Alone
  <2>2. /\ Pullers /\ Work(p, "keep", Analysed(p))
    BY <1>4 DEF Inv, Finish, FinishLoad
  <2>3. pull'[p].todo = Analysed(p) /\ pull'[p].found = pull[p].found
    BY <2>2, Works
  <2>4. Analysed(p)' = Analysed(p)
    BY <2>3 DEF Analysed
  <2> QED
    BY <2>1, <2>3, <2>4 DEF Reported
<1>5. ASSUME NEW p \in Puller, Pull(p) \/ CannotMove(p) \/ Fail(p) \/ Load(p)
      PROVE  Reported'
  <2>1. Puller = {p} /\ Pullers
    BY DEF Alone, Inv
  <2>2. CASE pull'[p].pc # "keep"
    BY <1>2, <2>1, <2>2
  <2>3. CASE pull'[p].pc = "keep" /\ UNCHANGED pull
    <3>1. UNCHANGED reports \/ \E u \in Purl, x \in Scanner : KeepReport(p, u, x)
      <4>1. UNCHANGED disk \/ Writes(p)
        BY <2>1, WhoWrites
      <4>2. CASE UNCHANGED disk
        BY <4>2 DEF disk
      <4>3. CASE \E u \in Purl, x \in Scanner : RestoreReport(p, u, x)
        BY <2>3, <4>3 DEF RestoreReport, At
      <4> QED
        BY <4>1, <4>2, <4>3
        DEF Writes, WriteSBOM, Restore, Record, RecordLoaded, Clear, Move, CannotMove
    <3> QED
      BY <1>1, <1>3, <2>3, <3>1
  <2>4. CASE pull'[p].pc = "keep" /\ ~UNCHANGED pull
    BY <1>3, <1>4, <1>5, <2>1, <2>4, Persists
  <2> QED
    BY <2>2, <2>3, <2>4
<1>6. ASSUME NEW p \in Puller, NEW j \in Jobs, Archiving <=> j.from = "archive", Start(p, j)
      PROVE  Reported'
  <2>1. pull'[p].pc # "keep"
    BY <1>6, StartEffect DEF Inv
  <2> QED
    BY <1>2, <2>1 DEF Alone
<1>7. CASE Others \/ UNCHANGED vars
  BY <1>1, <1>7 DEF Others, vars, disk
<1> QED
  BY <1>5, <1>6, <1>7 DEF Next, allVars

LEMMA ReportedHolds == Alone /\ Spec => []Reported
<1>1. ArchiveInit => Reported
  BY DEF ArchiveInit, Init, Reported, Idle
<1>2. Alone /\ Inv /\ Shapes /\ Reported /\ [Next]_allVars => Reported'
  BY ReportedStep
<1>3. Alone => []Alone
  OBVIOUS
<1> QED
  BY <1>1, <1>2, <1>3, InvHolds, ShapesHold, PTL DEF Spec

\* What has every pull's tag backed by a scan: no tag that was to be scanned is set but
\* after each scanner judged each component, and a pull or a load that has the data
\* directory to itself leaves its own reports there in place of the publishers'
\* (pullScanHook.scan, restore.finish).
THEOREM TagsAreScanned == Alone /\ Spec => TaggedScanned
<1>1. Inv /\ Reported /\ [Next]_allVars =>
        [\A p \in Puller : pull'[p] # pull[p] =>
         /\ local' # local /\ ~Job(p).skipScan /\ Scans(Job(p)) # {} =>
              \A u \in Lists[Bill(p)] :
                LET of == {r \in pull[p].found : r.of = pull[p].pkg /\ r.purl = u} IN
                /\ {r.scanner : r \in of} = Scans(Job(p))
                /\ FailsUnscanned(Job(p)) => \E r \in of : r.vulns # {None}
         /\ pull'[p].pc = "done" =>
              \A r \in pull[p].found :
                r.vulns # {None} => reports[r.purl][r.scanner] = Fresh(p)]_vars
  <2> SUFFICES ASSUME Inv, Reported, [Next]_allVars, NEW p \in Puller, pull'[p] # pull[p]
               PROVE  /\ local' # local /\ ~pull[p].job.skipScan /\ Scans(pull[p].job) # {} =>
                           ScannedIn(pull[p].found, pull[p].pkg, pull[p].job)
                      /\ pull'[p].pc = "done" =>
                           \A r \in pull[p].found :
                             r.vulns # {None} => reports[r.purl][r.scanner] = Fresh(p)
    BY DEF ScannedIn, Bill, Job
  <2> DEFINE r == pull[p]
  <2>1. ASSUME local' # local, ~r.job.skipScan, Scans(r.job) # {}
        PROVE  ScannedIn(r.found, r.pkg, r.job)
    <3>1. PICK q \in Puller : Writes(q)
      BY <2>1, WhoWrites DEF disk
    <3>2. q = p
      BY <3>1, WriterTrusts DEF Moves
    <3>3. Record(p) \/ RecordLoaded(p)
      BY <2>1, <3>1, <3>2
      DEF Writes, WriteSBOM, Restore, RestoreReport, KeepReport, Clear, Move, CannotMove
    <3>4. /\ r.pc = "finish" \/ (r.pc = "keep" /\ r.job.from = "repository")
      BY <3>3 DEF Record, RecordLoaded, At, Job
    <3> QED
      BY <2>1, <3>4, KnownRunning DEF Looked, Judging
  <2>2. ASSUME pull'[p].pc = "done", NEW f \in r.found, f.vulns # {None}
        PROVE  reports[f.purl][f.scanner] = Fresh(p)
    <3>1. r.pc \in {"keep", "move"} /\ (r.pc = "keep" => r.todo = {})
      BY <2>2, Ends
    <3>2. r.pc = "keep"
      BY <2>2, <3>1, KnownRunning DEF Looked
    <3>3. <<f.purl, f.scanner>> \in Analysed(p) \ r.todo
      BY <2>2, <3>1, <3>2 DEF Analysed
    <3> QED
      BY <3>2, <3>3 DEF Reported
  <2> QED
    BY <2>1, <2>2
<1> QED
  BY <1>1, InvHolds, ReportedHolds, PTL DEF Spec, TaggedScanned

-----------------------------------------------------------------------------
(* "component pull".                                                       *)

\* What the output holds while r puts a component there, given out.
Placing(r, out) ==
    r.pc # "ready" /\ r.job.only # None =>
      LET wanted == Content[r.pkg].files[r.job.only] IN
      /\ r.pc \in {"resolve", "verify", "provenance", "fetch", "output", "clear", "move",
                   "done", "failed"}
      /\ r.pc = "verify" => r.node.kind = "index"
      /\ r.pc \in {"resolve", "verify", "provenance", "fetch", "output"} => out = r.held
      /\ r.pc = "clear" =>
           out = r.todo /\ (r.job.replace \/ (out = {} /\ r.held = {}))
      /\ r.pc = "move" =>
           /\ r.todo \subseteq wanted /\ out = wanted \ r.todo
           /\ r.job.replace \/ r.held = {}
      /\ r.pc = "done" => out = wanted
      /\ r.pc = "failed" => r.job.replace \/ out = r.held

Placed == \A p \in Puller : Placing(pull[p], output)

\* The steps of "component pull" before it has the component.
LEMMA PlacingBegins ==
    ASSUME Inv, Placed, NEW p \in Puller,
           Resolve(p) \/ (\E g \in Signer : Ask(p, g)) \/ AskProvenance(p) \/ Fetch(p)
    PROVE  Placing(pull'[p], output')
<1> DEFINE r == pull[p]
           s == pull'[p]
           Now == {"resolve", "verify", "provenance", "fetch", "output"}
<1>1. /\ Pullers /\ UNCHANGED output /\ r.pc \in Now /\ Placing(r, output)
      /\ Pull(p)
  BY DEF Inv, Placed, Pull, Resolve, Ask, AskProvenance, Fetch, At, disk
<1>2. s.job = r.job /\ s.held = r.held
  BY <1>1, Persists DEF NextTag, Resolve, Ask, AskProvenance, Fetch, At
<1>3. r.job.only # None => s.pc \in Now \cup {"failed"} /\ (s.pc = "verify" => s.node.kind = "index")
  <2>1. CASE Resolve(p)
    <3> DEFINE x == IF r.job.ref \in Tag THEN tags[r.job.ref] ELSE r.job.ref
    <3>1. CASE x = None
      <4>1. Goto(p, "failed")
        BY <2>1, <3>1 DEF Resolve, Job
      <4> HIDE DEF x
      <4> QED
        BY <1>1, <4>1, Goes
    <3>2. CASE x # None /\ Verifies(r.job)
      <4>1. pull' = [pull EXCEPT ![p] = [Verify(p, Index(x)) EXCEPT !.pkg = x]]
        BY <2>1, <3>2 DEF Resolve, Job
      <4> HIDE DEF x
      <4> QED
        BY <1>1, <4>1 DEF Pullers, IsRecord, Verify, Index
    <3>3. CASE x # None /\ ~Verifies(r.job)
      <4>1. pull' = [pull EXCEPT ![p].pc = Proceed(r.job), ![p].pkg = x]
        BY <2>1, <3>3 DEF Resolve, Job
      <4> HIDE DEF x
      <4> QED
        BY <1>1, <4>1 DEF Pullers, IsRecord, Proceed
    <3> QED
      BY <3>1, <3>2, <3>3
  <2>2. CASE AskProvenance(p)
    BY <1>1, <2>2, Goes DEF AskProvenance
  <2>3. CASE Fetch(p)
    <3>1. \/ Goto(p, "failed") \/ Goto(p, "output")
          \/ Goto(p, "sbom") /\ r.job.only = None
      BY <2>3 DEF Fetch, Job
    <3> QED
      BY <1>1, <3>1, Goes
  <2>4. ASSUME NEW g \in Signer, Ask(p, g), r.job.only # None
        PROVE  s.pc \in Now \cup {"failed"} /\ s.node.kind = "index"
    <3>1. PICK met, label, todo : Answers(p, g, met, label, todo)
      BY <2>4, AskEffect
    <3>2. r.node.kind = "index"
      BY <1>1, <2>4 DEF Placing, Ask, At
    <3>3. label \in Now \cup {"failed"}
      BY <3>1, <3>2 DEF Answers, Accepted, Refused, Proceed
    <3>4. s.pc = label /\ s.node = r.node
      BY <1>1, <3>1 DEF Answers, Pullers, IsRecord
    <3> QED
      BY <3>2, <3>3, <3>4
  <2> QED
    BY <2>1, <2>2, <2>3, <2>4
<1> QED
  BY <1>1, <1>2, <1>3 DEF Placing

LEMMA PlacingStep ==
    ASSUME Inv, Placed, NEW p \in Puller, Pull(p) \/ CannotMove(p) \/ Fail(p) \/ Load(p)
    PROVE  Placing(pull'[p], output')
<1> DEFINE r == pull[p]
           s == pull'[p]
<1>1. Pullers /\ Placing(r, output)
  BY DEF Inv, Placed
<1>2. CASE Resolve(p) \/ (\E g \in Signer : Ask(p, g)) \/ AskProvenance(p) \/ Fetch(p)
  BY <1>2, PlacingBegins
<1>3. CASE Stage(p)
  <2>1. /\ Pull(p) /\ r.pc = "output" /\ UNCHANGED output
        /\ \/ s.pc = "failed"
           \/ /\ s.pc = "clear" /\ s.todo = output
              /\ r.job.replace \/ output = {}
    BY <1>1, <1>3, Goes, Works DEF Stage, At, disk, Pull, Job
  <2>2. s.job = r.job /\ s.held = r.held /\ s.pkg = r.pkg
    BY <1>1, <1>3, Goes, Works DEF Stage
  <2> QED
    BY <1>1, <2>1, <2>2 DEF Placing, Wanted, Job
<1>4. CASE (\E f \in File : Clear(p, f)) \/ Cleared(p)
  <2>1. ASSUME NEW f \in File, Clear(p, f) PROVE Placing(s, output')
    <3>1. pull' = [pull EXCEPT ![p].todo = @ \ {f}]
      BY <2>1 DEF Clear
    <3>2. /\ s.todo = r.todo \ {f} /\ s.pc = r.pc /\ s.job = r.job /\ s.held = r.held
          /\ s.pkg = r.pkg
      BY <1>1, <3>1, Strikes
    <3>3. r.pc = "clear" /\ output' = output \ {f}
      BY <2>1 DEF Clear, At
    <3> QED
      BY <1>1, <3>2, <3>3 DEF Placing
  <2>2. CASE Cleared(p)
    <3>1. /\ r.pc = "clear" /\ s.pc = "move" /\ s.job = r.job /\ s.held = r.held
          /\ s.pkg = r.pkg /\ r.todo = {} /\ s.todo = Wanted(p) /\ UNCHANGED output
      BY <1>1, <2>2, Works DEF Cleared, At, disk
    <3> QED
      BY <1>1, <3>1 DEF Placing, Wanted, Job
  <2> QED
    BY <1>4, <2>1, <2>2
<1>5. ASSUME NEW f \in File, Move(p, f) PROVE Placing(s, output')
  <2>1. pull' = [pull EXCEPT ![p].todo = @ \ {f}]
    BY <1>5 DEF Move
  <2>2. /\ s.todo = r.todo \ {f} /\ s.pc = r.pc /\ s.job = r.job /\ s.held = r.held
        /\ s.pkg = r.pkg
    BY <1>1, <2>1, Strikes
  <2>3. r.pc = "move" /\ f \in r.todo /\ output' = output \cup {f}
    BY <1>5 DEF Move, At
  <2> QED
    BY <1>1, <2>2, <2>3 DEF Placing
<1>6. CASE Moved(p)
  <2>1. /\ r.pc = "move" /\ s.pc = "done" /\ s.job = r.job /\ s.pkg = r.pkg
        /\ r.todo = {} /\ UNCHANGED output
    BY <1>1, <1>6, Goes DEF Moved, At, disk
  <2> QED
    BY <1>1, <2>1 DEF Placing
<1>7. CASE CannotMove(p)
  <2>1. /\ r.pc = "move" /\ s.pc = "failed" /\ s.job = r.job /\ s.pkg = r.pkg
        /\ s.held = r.held /\ output' = output \ Wanted(p)
    BY <1>1, <1>7, Goes DEF CannotMove, At
  <2> QED
    BY <1>1, <2>1 DEF Placing, Wanted, Job
<1>8. CASE Fail(p)
  <2>1. /\ r.pc \notin {"ready", "done", "failed", "move"} /\ s.pc = "failed"
        /\ s.job = r.job /\ s.held = r.held /\ UNCHANGED output
    BY <1>1, <1>8, Goes DEF Fail, Ended, disk
  <2> QED
    BY <1>1, <2>1 DEF Placing
<1>9. CASE \/ WriteSBOM(p) \/ (\E u \in Purl : Restore(p, u)) \/ Restored(p) \/ Scan(p)
           \/ (\E n \in Publishable : TakeDocument(p, n)) \/ CountDocument(p) \/ Gate(p)
           \/ ListReports(p) \/ (\E u \in Purl, x \in Scanner : RestoreReport(p, u, x))
           \/ LeaveReports(p) \/ Finish(p)
           \/ (\E u \in Purl, x \in Scanner : KeepReport(p, u, x)) \/ Record(p) \/ Load(p)
  <2>1. r.pc \in {"sbom", "restore", "scan", "vex", "document", "reports", "layers", "finish",
                  "keep", "open", "extract", "record"}
    BY <1>9 DEF WriteSBOM, Restore, Restored, Scan, TakeDocument, CountDocument, Gate,
        ListReports, RestoreReport, LeaveReports, Finish, KeepReport, Record, Load,
        OpenArchive, Extract, ListTags, NextTag, RecordLoaded, FinishLoad, EndLoad, At
  <2>2. r.job.only = None
    BY <1>1, <2>1 DEF Placing
  <2>3. NextTag(p) \/ s.job = r.job
    BY <1>1, Persists
  <2>4. s.job.only = None
    <3>1. CASE NextTag(p)
      <4>1. s.job = [r.job EXCEPT !.ref = Head(r.rest)]
        BY <1>1, <3>1 DEF NextTag, Pullers, IsRecord, Job, Idle
      <4>2. PICK k \in Jobs : r.job = [k EXCEPT !.ref = r.job.ref]
        BY <2>1, KnownRunning DEF Policed
      <4> QED
        BY <2>2, <4>1, <4>2, ConstantsAssumption DEF JobType
    <3> QED
      BY <2>2, <2>3, <3>1
  <2> QED
    BY <2>4 DEF Placing
<1> QED
  BY <1>2, <1>3, <1>4, <1>5, <1>6, <1>7, <1>8, <1>9 DEF Pull

LEMMA PlacedStep ==
    ASSUME Alone, Inv, Placed, [Next]_allVars
    PROVE  Placed'
<1>1. CASE Others \/ UNCHANGED vars
  BY <1>1 DEF Others, vars, disk, Placed
<1>2. ASSUME NEW p \in Puller, Pull(p) \/ CannotMove(p) \/ Fail(p) \/ Load(p)
      PROVE  Placed'
  BY <1>2, PlacingStep DEF Alone, Placed
<1>3. ASSUME NEW p \in Puller, NEW j \in Jobs, Start(p, j)
      PROVE  Placed'
  <2>1. /\ pull'[p].job = j /\ pull'[p].held = output /\ output' = output
        /\ pull'[p].pc \in {"failed", "open", "resolve"}
        /\ pull'[p].pc = "open" => j.from = "archive"
    BY <1>3, StartEffect DEF Inv, disk
  <2>2. j.from = "archive" => j.only = None
    BY ArchiveAssumption
  <2>3. Placing(pull'[p], output')
    BY <2>1, <2>2 DEF Placing
  <2> QED
    BY <2>3 DEF Alone, Placed
<1> QED
  BY <1>1, <1>2, <1>3 DEF Next, allVars

\* A component pulled into a directory of its own has all of its files there and nothing
\* else once the pull is done, and a pull that fails and was not to replace what was
\* there leaves it alone, if nobody else puts anything there meanwhile (writeInto).
THEOREM OutputsWhole == Alone /\ Spec => []OutputWhole
<1>1. ArchiveInit => Placed
  BY DEF ArchiveInit, Init, Placed, Placing, Idle
<1>2. Alone /\ Inv /\ Placed /\ [Next]_allVars => Placed'
  BY PlacedStep
<1>3. Inv /\ Placed => OutputWhole
  <2> SUFFICES ASSUME Inv, Placed, NEW p \in Puller, pull[p].job # None,
                      pull[p].job.only # None
               PROVE  /\ pull[p].pc = "done" => output = Wanted(p)
                      /\ pull[p].pc = "failed" /\ ~pull[p].job.replace => output = pull[p].held
    BY DEF OutputWhole, Job
  <2> QED
    BY DEF Placed, Placing, Wanted, Job
<1>4. Alone => []Alone
  OBVIOUS
<1> QED
  BY <1>1, <1>2, <1>3, <1>4, InvHolds, PTL DEF Spec

=============================================================================

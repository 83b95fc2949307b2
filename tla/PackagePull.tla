----------------------------- MODULE PackagePull -----------------------------
(***************************************************************************)
(* How "bomify pull" verifies, restores, gates and tags a package of one   *)
(* repository, and how "bomify component pull" restores one component of   *)
(* it (internal/oci/pull, internal/signature, cmd/), while others publish  *)
(* to the repository: retag it, sign, and attach or delete referrers.      *)
(* "bomify load" pulls each package of an archive the same way (Archive).  *)
(*                                                                         *)
(* A verification is taken signer by signer, since each lists the          *)
(* referrers anew; restoring a component is one step, which DataDir takes  *)
(* apart.  Content is addressed by its digest, so what a puller fetches is *)
(* what the descriptor it holds names, or nothing.                         *)
(***************************************************************************)
EXTENDS Naturals, Sequences, FiniteSets

CONSTANTS
    Puller,     \* processes that pull
    Package,    \* package indexes, by digest
    SBOM,       \* SBOMs, by their hash
    Purl,       \* components
    File,       \* files, each with its content
    Tag,        \* tags of the repository
    Key,        \* what signs
    Signer,     \* signing plugins with the options that say what they trust
    Scanner,    \* scanning plugins
    Vuln,       \* vulnerabilities
    Document,   \* VEX documents
    None,       \* nothing
    Content,    \* what each package's index leads to
    Lists,      \* the components each SBOM lists
    Trusts,     \* the keys each signer trusts
    Severity,   \* how severe each vulnerability is
    Says,       \* what each document says of a vulnerability
    Results,    \* what a scan of a component may find, {None} if it can't tell
    Publishable, \* the referrers that may be attached
    Signable,   \* the signatures that may be made
    TrustRule,  \* the most specific trust rule, of no signers if there is none
    ScanRule,   \* the most specific scan rule that applies on pull, likewise
    Jobs,       \* the pulls that are run
    MayFail,    \* whether fetches may fail, or a pull be interrupted
    Beginnings, \* what the repository may hold when the pulls begin
    MaxPulls,   \* bound: how often each puller pulls
    MaxChanges  \* bound: how often others change the repository

Statuses == {"exempt", "affected", "silent"}

Kinds == {"index", "reports", "vex", "provenance"}

\* A package's index, or a referrer of it; about is what an attestation's
\* statement names, and age when it says it was made.
Node == [kind : Kinds, of : Package, what : Document \cup Nat \cup {None},
         about : Package \cup {None}, key : Key \cup {None}, age : Nat]

Index(s) ==
    [kind |-> "index", of |-> s, what |-> None, about |-> None, key |-> None, age |-> 0]

\* ref is a tag, or a package for a reference by digest; a load has each tag of an
\* archive in turn.  only is the component of "component pull", to a directory it
\* may replace.
JobType ==
    [from : {"repository", "archive"}, ref : Tag \cup Package \cup {None},
     skipVerify : BOOLEAN, verify : Signer \cup {None}, provenance : BOOLEAN, scanners : SUBSET Scanner, failOn : Nat,
     unscanned : BOOLEAN, skipScan : BOOLEAN, only : Purl \cup {None},
     replace : BOOLEAN]

ContentType ==
    [sboms : 0 .. 2, sbom : SBOM, entries : Seq(Purl), mapped : BOOLEAN,
     files : [Purl -> SUBSET File], laid : SUBSET Purl]

ASSUME ConstantsAssumption ==
    /\ None \notin Tag \cup Package \cup Signer \cup Purl \cup Key \cup SBOM \cup Vuln
    /\ Content \in [Package -> ContentType]
    /\ Lists \in [SBOM -> SUBSET Purl]
    /\ Trusts \in [Signer -> SUBSET Key]
    /\ Severity \in [Vuln -> Nat \ {0}]
    /\ Says \in [Document -> [Vuln -> Statuses]]
    /\ Results \subseteq SUBSET (Vuln \cup {None})
    /\ Publishable \subseteq {n \in Node : n.kind # "index"}
    /\ Signable \subseteq [of : Node, key : Key]
    /\ TrustRule \in [signers : SUBSET Signer, require : Nat, provenance : BOOLEAN]
    /\ ScanRule \in [scanners : SUBSET Scanner, failOn : Nat, unscanned : BOOLEAN,
                     vex : Seq(Document)]
    /\ Jobs \subseteq JobType
    /\ MayFail \in BOOLEAN
    /\ Beginnings \subseteq [tags : [Tag -> Package \cup {None}], referrers : SUBSET Publishable,
                              signatures : SUBSET Signable]
    /\ MaxPulls \in Nat
    /\ MaxChanges \in Nat
    /\ IsFiniteSet(Signer)
    /\ TrustRule.require <= Cardinality(TrustRule.signers)

VARIABLES
    tags,       \* the package each tag of the repository names, or None
    referrers,  \* what is attached to its packages
    signatures, \* what is signed, and by which key
    gone,       \* what of these was deleted
    changes,    \* how often others have changed this
    sboms,      \* manifests/<sbom hash>.json
    layers,     \* layers/<purl hash>/: the files it holds, or None
    records,    \* the components with a manifest of their own
    reports,    \* vulnerabilities/<purl hash>/<scanner>.json: its scan, or None
    local,      \* package/repositories.json: the SBOM each tag names, or None
    output,     \* the files "component pull" was given a directory to put in
    pull        \* the pull each puller is at

registry == <<tags, referrers, signatures, gone, changes>>
disk == <<sboms, layers, records, reports, local, output>>
vars == <<registry, disk, pull>>

-----------------------------------------------------------------------------
(* Policy.For, and what else the flags and the rules decide.               *)

\* How many of a rule's signers must verify.
Required(rule) == IF rule.require = 0 THEN Cardinality(rule.signers) ELSE rule.require

Nobody == [signers |-> {}, need |-> 0]

For(j) ==
    CASE j.skipVerify     -> Nobody
      [] ~j.skipVerify /\ j.verify # None -> [signers |-> {j.verify}, need |-> 1]
      [] OTHER -> [signers |-> TrustRule.signers, need |-> Required(TrustRule)]

Verifies(j) == For(j).signers # {}

ProvenanceRequired(j) ==
    /\ ~j.skipVerify
    /\ j.provenance \/ (j.verify = None /\ TrustRule.provenance)

\* --skip-scan takes no --scan and no --fail-on, --verify-provenance no
\* --insecure-skip-verify.
Contradictory(j) ==
    \/ j.skipScan /\ (j.scanners # {} \/ j.failOn > 0 \/ j.unscanned)
    \/ j.skipVerify /\ (j.verify # None \/ j.provenance)

Scans(j) == IF j.scanners # {} THEN j.scanners ELSE ScanRule.scanners

\* --fail-on replaces all of the rule's conditions.
Given(j) == j.failOn > 0 \/ j.unscanned

Threshold(j) == IF Given(j) THEN j.failOn ELSE ScanRule.failOn

FailsUnscanned(j) == IF Given(j) THEN j.unscanned ELSE ScanRule.unscanned

CanFail(j) == Threshold(j) > 0 \/ FailsUnscanned(j)

-----------------------------------------------------------------------------
(* What is in the registry.                                                *)

\* Some signature of n is by a key that g trusts.
Verified(n, g) ==
    \E sig \in signatures \ gone : sig.of = n /\ sig.key \in Trusts[g]

\* provenance.Check: the statement of r names this very package, whose SBOM it is of.
Checked(r, s) ==
    r.about # None /\ r.about = s /\ Content[r.about].sbom = Content[s].sbom

Attested(s, g) ==
    \E r \in referrers \ gone :
        r.kind = "provenance" /\ r.of = s /\ r.key \in Trusts[g] /\ Checked(r, s)

Carried(s, kind) == {r \in referrers \ gone : r.kind = kind /\ r.of = s}

Newest(s) == {r \in Carried(s, "reports") : \A q \in Carried(s, "reports") : q.age <= r.age}

\* transfer.FetchPackage: an index of this type, of one SBOM manifest, whose
\* first layer is a files map that names no component or file twice, and none
\* outside its component.
WellFormed(s) == Content[s].sboms = 1 /\ Content[s].mapped

Named(s) == {Content[s].entries[i] : i \in DOMAIN Content[s].entries}

NamesTwice(s) == Cardinality(Named(s)) < Len(Content[s].entries)

-----------------------------------------------------------------------------
Idle ==
    [pc |-> "ready", job |-> None, pkg |-> None, node |-> None, left |-> {},
     met |-> {}, todo |-> {}, counted |-> <<>>, found |-> {}, rest |-> <<>>,
     held |-> {}, pulls |-> 0]

Ended == {"ready", "done", "failed"}

Init ==
    /\ \E b \in Beginnings :
         /\ tags = b.tags
         /\ referrers = b.referrers
         /\ signatures = b.signatures
    /\ gone = {}
    /\ changes = 0
    /\ sboms = {}
    /\ layers = [u \in Purl |-> None]
    /\ records = {}
    /\ reports = [u \in Purl |-> [x \in Scanner |-> None]]
    /\ local = [t \in Tag |-> None]
    /\ output \in {{}, File}
    /\ pull = [p \in Puller |-> Idle]

Job(p) == pull[p].job

Bill(p) == Content[pull[p].pkg].sbom

At(p, label) == pull[p].pc = label

Goto(p, label) == pull' = [pull EXCEPT ![p].pc = label]

Work(p, label, todo) == pull' = [pull EXCEPT ![p].pc = label, ![p].todo = todo]

\* Puller p has the signers of its policy to ask whether they verify n.
Verify(p, n) ==
    [pull[p] EXCEPT !.pc = "verify", !.node = n, !.left = For(Job(p)).signers, !.met = {}]

\* What fresh scans have reports of: a load's are of several packages.
Analysed(p) == {<<r.purl, r.scanner>> : r \in {f \in pull[p].found : f.vulns # {None}}}

Proceed(j) == IF ProvenanceRequired(j) THEN "provenance" ELSE "fetch"

\* Where a verification leads once enough signers accept.
Accepted(p) ==
    CASE pull[p].node.kind = "index" -> Proceed(Job(p))
      [] pull[p].node.kind = "vex" -> "document"
      [] OTHER -> "layers"

-----------------------------------------------------------------------------
(* What some steps of a pull would be with a plausible bug.  No behaviour  *)
(* of the specification takes these; each shows that a property would      *)
(* catch the bug.                                                          *)

\* The reference is resolved again once the package is verified.
Fetch_Bug(p) ==
    /\ At(p, "fetch")
    /\ pull' = [pull EXCEPT ![p].pc = IF Job(p).only = None THEN "sbom" ELSE "output",
           ![p].pkg = IF Job(p).ref \in Tag THEN tags[Job(p).ref] ELSE @]
    /\ UNCHANGED <<registry, disk>>

\* A document counts whether it verifies or not.
Refused_Bug(p) ==
    CASE pull[p].node.kind = "index" -> "failed"
      [] pull[p].node.kind = "vex" -> "document"
      [] OTHER -> "finish"

\* Documents are taken as the registry lists them, newest first.
TakeDocument_Bug(p, n) ==
    /\ At(p, "vex") /\ n \in pull[p].todo
    /\ \A m \in pull[p].todo : n.age >= m.age
    /\ pull' = [pull EXCEPT ![p] = [Verify(p, n) EXCEPT !.todo = @ \ {n}]]
    /\ UNCHANGED <<registry, disk>>

\* A document counts as a whole referrer.
CountDocument_Bug(p) ==
    /\ At(p, "document")
    /\ pull' = [pull EXCEPT ![p].pc = "vex", ![p].counted = Append(@, pull[p].node)]
    /\ UNCHANGED <<registry, disk>>

\* A fresh report never replaces one that is there.
Finish_Bug(p) ==
    /\ At(p, "finish") /\ Job(p).from = "repository"
    /\ Work(p, "keep", {c \in Analysed(p) : reports[c[1]][c[2]] = None})
    /\ UNCHANGED <<registry, disk>>

\* What the output held is not waited for to be removed.
Cleared_Early(p) ==
    /\ At(p, "clear")
    /\ Work(p, "move", Content[pull[p].pkg].files[Job(p).only])
    /\ UNCHANGED <<registry, disk>>

\* Signers are asked again until all that are needed verify.
Ask_Bug(p, g) ==
    /\ At(p, "verify") /\ g \in pull[p].left
    /\ Verified(pull[p].node, g)
    /\ pull' = [pull EXCEPT ![p].left = @ \ {g},
           ![p].pc = IF pull[p].left = {g} THEN Accepted(p) ELSE "verify"]
    /\ UNCHANGED <<registry, disk>>

-----------------------------------------------------------------------------
(* Verification.                                                           *)

\* The policy is settled before anything else: restoreFlags.start.
Start(p, j) ==
    /\ pull[p].pc \in Ended
    /\ pull[p].pulls < MaxPulls
    /\ LET usable == j.only = None \/ j.replace \/ output = {}
           label == CASE Contradictory(j) \/ ~usable -> "failed"
                      [] OTHER -> IF j.from = "archive" THEN "open" ELSE "resolve"
       IN  pull' = [pull EXCEPT ![p] =
               [Idle EXCEPT !.pc = label, !.job = j, !.held = output,
                            !.pulls = pull[p].pulls + 1]]
    /\ UNCHANGED <<registry, disk>>

\* Whatever the reference is retagged to from here on, this is what is pulled.
Resolve(p) ==
    /\ At(p, "resolve")
    /\ LET s == IF Job(p).ref \in Tag THEN tags[Job(p).ref] ELSE Job(p).ref
       IN  CASE s = None -> Goto(p, "failed")
             [] s # None /\ Verifies(Job(p)) ->
                    pull' = [pull EXCEPT ![p] = [Verify(p, Index(s)) EXCEPT !.pkg = s]]
             [] OTHER -> pull' = [pull EXCEPT ![p].pc = Proceed(Job(p)), ![p].pkg = s]
    /\ UNCHANGED <<registry, disk>>

\* A package that is refused ends the pull, a document is only left out, and
\* so are the reports.
Refused(p) ==
    CASE pull[p].node.kind = "index" -> "failed"
      [] pull[p].node.kind = "vex" -> "vex"
      [] OTHER -> "finish"

\* VerifySigners: one signer, whose plugin looks for a signature it trusts.
Ask(p, g) ==
    /\ At(p, "verify") /\ g \in pull[p].left
    /\ \E yes \in {Verified(pull[p].node, g)} \cup (IF MayFail THEN {FALSE} ELSE {}) :
         LET met == IF yes THEN pull[p].met \cup {g} ELSE pull[p].met
             left == pull[p].left \ {g}
             label == CASE Cardinality(met) = For(Job(p)).need -> Accepted(p)
                        [] Cardinality(met) # For(Job(p)).need /\ left # {} -> "verify"
                        [] OTHER -> Refused(p)
         IN  pull' = [pull EXCEPT ![p].met = met, ![p].left = left, ![p].pc = label,
                ![p].todo = IF label = "layers" THEN Lists[Bill(p)] \X Scanner ELSE @]
    /\ UNCHANGED <<registry, disk>>

\* NewProvenanceVerifier: any one signer's attestation will do.
AskProvenance(p) ==
    /\ At(p, "provenance")
    /\ \/ /\ Content[pull[p].pkg].sboms = 1
          /\ \E g \in For(Job(p)).signers : Attested(pull[p].pkg, g)
          /\ Goto(p, "fetch")
       \/ /\ \/ MayFail
             \/ Content[pull[p].pkg].sboms # 1
             \/ \A g \in For(Job(p)).signers : ~Attested(pull[p].pkg, g)
          /\ Goto(p, "failed")
    /\ UNCHANGED <<registry, disk>>

-----------------------------------------------------------------------------
(* Restoring the components.                                               *)

\* fetchPackage writes nothing.
Fetch(p) ==
    /\ At(p, "fetch")
    /\ LET s == pull[p].pkg
           u == Job(p).only
       IN  Goto(p, CASE ~WellFormed(s) -> "failed"
                     [] WellFormed(s) /\ u = None -> "sbom"
                     [] OTHER -> IF u \in Lists[Content[s].sbom] \cap Content[s].laid
                                 THEN "output" ELSE "failed")
    /\ UNCHANGED <<registry, disk>>

\* The SBOM is written, then the index's entries are checked.
WriteSBOM(p) ==
    /\ At(p, "sbom")
    /\ LET s == pull[p].pkg
           bad == NamesTwice(s) \/ ~(Named(s) \subseteq Content[s].laid)
       IN  /\ sboms' = sboms \cup {Content[s].sbom}
           /\ Work(p, IF bad THEN "failed" ELSE "restore", Named(s))
    /\ UNCHANGED <<registry, layers, records, reports, local, output>>

\* A component's directory that is there is kept, and a manifest recorded for
\* a component the SBOM lists.
Restore(p, u) ==
    /\ At(p, "restore") /\ u \in pull[p].todo
    /\ layers' = [layers EXCEPT ![u] =
           IF @ = None THEN Content[pull[p].pkg].files[u] ELSE @]
    /\ records' = records \cup ({u} \cap Lists[Bill(p)])
    /\ pull' = [pull EXCEPT ![p].todo = @ \ {u}]
    /\ UNCHANGED <<registry, sboms, reports, local, output>>

Restored(p) ==
    /\ At(p, "restore") /\ pull[p].todo = {}
    /\ Goto(p, "scan")
    /\ UNCHANGED <<registry, disk>>

-----------------------------------------------------------------------------
(* The scan hook: pullScanHook.scan.                                       *)

\* A scanner with nothing to fail on, or a threshold with no scanner, is an
\* error.
Scan(p) ==
    /\ At(p, "scan")
    /\ LET j == Job(p)
           scans == Scans(j) # {}
       IN  CASE j.skipScan \/ (~scans /\ ~CanFail(j)) -> Goto(p, "reports")
             [] ~j.skipScan /\ scans # CanFail(j) -> Goto(p, "failed")
             [] OTHER -> \* Published documents only count if the pull verifies.
                  Work(p, "vex", IF Verifies(j) THEN Carried(pull[p].pkg, "vex") ELSE {})
    /\ UNCHANGED <<registry, disk>>

\* PublishedVEX takes the documents it listed oldest first.
TakeDocument(p, n) ==
    /\ At(p, "vex") /\ n \in pull[p].todo
    /\ \A m \in pull[p].todo : n.age <= m.age
    /\ pull' = [pull EXCEPT ![p] =
           [Verify(p, n) EXCEPT !.todo = @ \ {n}]]
    /\ UNCHANGED <<registry, disk>>

\* A document that verifies is fetched, and left out if it can't be.
CountDocument(p) ==
    /\ At(p, "document")
    /\ \/ pull' = [pull EXCEPT ![p].pc = "vex", ![p].counted = Append(@, pull[p].node.what)]
       \/ MayFail /\ Goto(p, "vex")
    /\ UNCHANGED <<registry, disk>>

\* The last document to say anything of v has the final say.
Exempted(docs, v) ==
    \E i \in DOMAIN docs :
        /\ Says[docs[i]][v] = "exempt"
        /\ \A k \in DOMAIN docs : k > i => Says[docs[k]][v] = "silent"

\* What fails the gate of job j, of the scans found, given the documents docs.
Fails(j, found, docs) ==
    \/ \E r \in found : \E v \in r.vulns \ {None} :
           Threshold(j) > 0 /\ Severity[v] >= Threshold(j) /\ ~Exempted(docs, v)
    \/ FailsUnscanned(j) /\ \E u \in {r.purl : r \in found} :
           \A r \in found : r.purl = u => r.vulns = {None}

\* The rule's own documents come last.
Documents(p) == pull[p].counted \o ScanRule.vex

\* Each scanner reports on each component, unless it cannot analyse it.
Scanned(p) == [Lists[Bill(p)] \X Scans(Job(p)) -> Results]

\* The scan is fresh, whatever reports the package carries.
Gate(p) ==
    /\ At(p, "vex") /\ pull[p].todo = {}
    /\ \E results \in Scanned(p) :
         LET found == {[of |-> pull[p].pkg, purl |-> c[1], scanner |-> c[2],
                        vulns |-> results[c]] : c \in DOMAIN results}
         IN  \/ /\ Fails(Job(p), found, Documents(p))
                /\ Goto(p, "failed")
             \/ /\ ~Fails(Job(p), found, Documents(p))
                /\ pull' = [pull EXCEPT ![p].pc = "reports", ![p].found = @ \cup found]
    /\ UNCHANGED <<registry, disk>>

-----------------------------------------------------------------------------
(* The package's own reports, which are advisory: restoreReports.          *)

ListReports(p) ==
    /\ At(p, "reports")
    /\ \/ Carried(pull[p].pkg, "reports") = {} /\ Goto(p, "finish")
       \/ \E n \in Newest(pull[p].pkg) :
            \/ /\ Verifies(Job(p))
               /\ pull' = [pull EXCEPT ![p] = Verify(p, n)]
            \/ /\ ~Verifies(Job(p))
               /\ pull' = [pull EXCEPT ![p].pc = "layers", ![p].node = n,
                                       ![p].todo = Lists[Bill(p)] \X Scanner]
       \/ MayFail /\ Goto(p, "finish")
    /\ UNCHANGED <<registry, disk>>

\* One report replaces that scanner's earlier one.
RestoreReport(p, u, x) ==
    /\ At(p, "layers") /\ <<u, x>> \in pull[p].todo
    /\ reports' = [reports EXCEPT ![u][x] = pull[p].node]
    /\ pull' = [pull EXCEPT ![p].todo = @ \ {<<u, x>>}]
    /\ UNCHANGED <<registry, sboms, layers, records, local, output>>

\* The referrer may have been deleted since it was listed.
LeaveReports(p) ==
    /\ At(p, "layers")
    /\ MayFail \/ pull[p].todo = {} \/ pull[p].node \in gone
    /\ Goto(p, "finish")
    /\ UNCHANGED <<registry, disk>>

-----------------------------------------------------------------------------
(* The end: restore.finish and the tag.                                    *)

Fresh(p) == [kind |-> "fresh", by |-> p, pull |-> pull[p].pulls]

Finish(p) ==
    /\ At(p, "finish") /\ Job(p).from = "repository"
    /\ Work(p, "keep", Analysed(p))
    /\ UNCHANGED <<registry, disk>>

\* The fresh reports replace those the publisher attached.
KeepReport(p, u, x) ==
    /\ At(p, "keep") /\ <<u, x>> \in pull[p].todo
    /\ reports' = [reports EXCEPT ![u][x] = Fresh(p)]
    /\ pull' = [pull EXCEPT ![p].todo = @ \ {<<u, x>>}]
    /\ UNCHANGED <<registry, sboms, layers, records, local, output>>

\* A reference by digest is not recorded as a tag.
Record(p) ==
    /\ At(p, "keep") /\ pull[p].todo = {} /\ Job(p).from = "repository"
    /\ local' = [t \in Tag |-> IF t = Job(p).ref THEN Bill(p) ELSE local[t]]
    /\ Goto(p, "done")
    /\ UNCHANGED <<registry, sboms, layers, records, reports, output>>

-----------------------------------------------------------------------------
(* "component pull": writeInto.                                            *)

Wanted(p) == Content[pull[p].pkg].files[Job(p).only]

\* Every file is fetched, into a directory inside the output, before what the
\* output held is listed and removed.
Stage(p) ==
    /\ At(p, "output")
    /\ IF Job(p).replace \/ output = {} THEN Work(p, "clear", output) ELSE Goto(p, "failed")
    /\ UNCHANGED <<registry, disk>>

\* removeAllBut: entry by entry.  One that cannot be removed fails the pull (Fail),
\* with those before it gone.
Clear(p, f) ==
    /\ At(p, "clear") /\ f \in pull[p].todo
    /\ output' = output \ {f}
    /\ pull' = [pull EXCEPT ![p].todo = @ \ {f}]
    /\ UNCHANGED <<registry, sboms, layers, records, reports, local>>

Cleared(p) ==
    /\ At(p, "clear") /\ pull[p].todo = {}
    /\ Work(p, "move", Wanted(p))
    /\ UNCHANGED <<registry, disk>>

Move(p, f) ==
    /\ At(p, "move") /\ f \in pull[p].todo
    /\ output' = output \cup {f}
    /\ pull' = [pull EXCEPT ![p].todo = @ \ {f}]
    /\ UNCHANGED <<registry, sboms, layers, records, reports, local>>

Moved(p) ==
    /\ At(p, "move") /\ pull[p].todo = {}
    /\ Goto(p, "done")
    /\ UNCHANGED <<registry, disk>>

\* A move that fails takes back what was moved.
CannotMove(p) ==
    /\ MayFail /\ At(p, "move") /\ pull[p].todo # {}
    /\ output' = output \ Wanted(p)
    /\ Goto(p, "failed")
    /\ UNCHANGED <<registry, sboms, layers, records, reports, local>>

\* Anything else that fails, or is cancelled, leaves what is written so far.
Fail(p) ==
    /\ MayFail
    /\ pull[p].pc \notin Ended \cup {"move"}
    /\ Goto(p, "failed")
    /\ UNCHANGED <<registry, disk>>

-----------------------------------------------------------------------------
(* What others do to the repository.                                       *)

Retag(t, s) ==
    /\ tags[t] # None /\ s # tags[t]
    /\ tags' = [tags EXCEPT ![t] = s]
    /\ UNCHANGED <<referrers, signatures, gone>>

Publish(n) ==
    /\ n \notin referrers
    /\ referrers' = referrers \cup {n}
    /\ UNCHANGED <<tags, signatures, gone>>

Sign(sig) ==
    /\ sig \notin signatures
    /\ sig.of.kind = "index" \/ sig.of \in referrers
    /\ signatures' = signatures \cup {sig}
    /\ UNCHANGED <<tags, referrers, gone>>

\* security.PruneReferrers: the signatures of older reports, then the reports.
Prune(n) ==
    /\ n \in Carried(n.of, "reports") \ Newest(n.of)
    /\ gone' = gone \cup
           (LET signed == {sig \in signatures \ gone : sig.of = n}
            IN  IF signed # {} THEN signed ELSE {n})
    /\ UNCHANGED <<tags, referrers, signatures>>

Others ==
    /\ changes < MaxChanges
    /\ changes' = changes + 1
    /\ \/ \E t \in Tag, s \in Package : Retag(t, s)
       \/ \E n \in Publishable : Publish(n)
       \/ \E sig \in Signable : Sign(sig)
       \/ \E n \in Publishable : Prune(n)
    /\ UNCHANGED <<disk, pull>>

Pull(p) ==
    \/ Resolve(p)
    \/ \E g \in Signer : Ask(p, g)
    \/ AskProvenance(p)
    \/ Fetch(p)
    \/ WriteSBOM(p)
    \/ \E u \in Purl : Restore(p, u)
    \/ Restored(p)
    \/ Scan(p)
    \/ \E n \in Publishable : TakeDocument(p, n)
    \/ CountDocument(p)
    \/ Gate(p)
    \/ ListReports(p)
    \/ \E u \in Purl, x \in Scanner : RestoreReport(p, u, x)
    \/ LeaveReports(p)
    \/ Finish(p)
    \/ \E u \in Purl, x \in Scanner : KeepReport(p, u, x)
    \/ Record(p)
    \/ Stage(p)
    \/ \E f \in File : Clear(p, f)
    \/ Cleared(p)
    \/ \E f \in File : Move(p, f)
    \/ Moved(p)

-----------------------------------------------------------------------------
(* Properties.                                                             *)

\* Every variable has its type.
TypeOK ==
    /\ tags \in [Tag -> Package \cup {None}]
    /\ referrers \subseteq Publishable
    /\ \A sig \in signatures : sig.of \in Node /\ sig.key \in Key
    /\ gone \subseteq Publishable \cup Signable
    /\ changes \in 0 .. MaxChanges
    /\ sboms \subseteq SBOM
    /\ layers \in [Purl -> (SUBSET File) \cup {None}]
    /\ records \subseteq Purl
    /\ DOMAIN reports = Purl
    /\ local \in [Tag -> SBOM \cup {None}]
    /\ output \subseteq File
    /\ \A p \in Puller :
         /\ pull[p].pc \in Ended \cup
              {"open", "extract", "record", "resolve", "verify", "provenance", "fetch", "sbom", "restore", "scan",
               "vex", "document", "reports", "layers", "finish", "keep", "output",
               "clear", "move"}
         /\ pull[p].job \in {[j EXCEPT !.ref = t] : j \in Jobs, t \in Tag} \cup Jobs \cup {None}
         /\ pull[p].pkg \in Package \cup {None}
         /\ pull[p].left \subseteq Signer
         /\ pull[p].met \subseteq Signer
         /\ pull[p].counted \in Seq(Document)
         /\ pull[p].pulls \in 0 .. MaxPulls

\* As many of the signers that job j requires as it requires have had, at some
\* time, a signature of n that they trust.
Vouched(n, j) ==
    Cardinality({g \in For(j).signers :
        \E sig \in signatures : sig.of = n /\ sig.key \in Trusts[g]}) >= For(j).need

\* A statement naming package s, attested by one that j's signers trust.
Accounted(s, j) ==
    \E r \in referrers, g \in For(j).signers :
        r.kind = "provenance" /\ r.of = s /\ r.about = s /\ r.key \in Trusts[g]

\* Whatever of the data directory or the output a pull changes, up to the tag,
\* it takes from one package index, for which the signers its policy asks for
\* have vouched, with provenance if it asks for that; reports it takes from one
\* referrer of that index, vouched for likewise.  Retagging the reference, or
\* pushing referrers, at any moment of the pull changes nothing of this (the
\* comment on pull.Pull).
WritesVouched ==
    [][\A p \in Puller : pull'[p] # pull[p] /\ disk' # disk =>
         /\ Vouched(Index(pull[p].pkg), Job(p))
         /\ ProvenanceRequired(Job(p)) => Accounted(pull[p].pkg, Job(p))
         /\ sboms' \subseteq sboms \cup {Bill(p)}
         /\ \A u \in Purl : layers'[u] \in {layers[u], Content[pull[p].pkg].files[u]}
         /\ \A t \in Tag : local'[t] \in {local[t], Bill(p)}
         /\ output' # output => output' \subseteq output \cup Wanted(p)
         /\ \A u \in Purl, x \in Scanner : LET r == reports'[u][x] IN
              \/ r = reports[u][x]
              \/ r.kind = "fresh"
              \/ r.kind = "reports" /\ r.of = pull[p].pkg /\ Vouched(r, Job(p))]_vars

\* Pulls past their gate.
Passed(p) == pull[p].pc \in {"reports", "layers", "finish", "keep", "record", "done"}

\* The published documents a gate counts are attached to the very package that
\* is pulled, each vouched for on its own, and in the order they were
\* published, oldest first, so that a later one has the say (PublishedVEX).
CountedVouched ==
    \A p \in Puller : LET docs == pull[p].counted IN
        \E from \in [DOMAIN docs -> referrers] : \A i \in DOMAIN docs :
            /\ from[i].kind = "vex" /\ from[i].of = pull[p].pkg /\ from[i].what = docs[i]
            /\ Verifies(Job(p)) /\ Vouched(from[i], Job(p))
            /\ \A k \in DOMAIN docs : k > i => from[k].age >= from[i].age

\* A vulnerability at the threshold that a pull's fresh scan finds lets the
\* package pass only if a document says so that the rule stores, or that is
\* vouched for by those the pull trusts to sign the package: nobody else who
\* can push to the repository can silence a finding.
NothingSilenced ==
    \A p \in Puller : Passed(p) =>
        \A r \in pull[p].found : \A v \in r.vulns \cap Vuln :
            Threshold(Job(p)) \in 1 .. Severity[v] =>
                \/ \E i \in DOMAIN ScanRule.vex : Says[ScanRule.vex[i]][v] = "exempt"
                \/ /\ Verifies(Job(p))
                   /\ \E n \in referrers :
                        /\ n.kind = "vex" /\ n.of = r.of
                        /\ Says[n.what][v] = "exempt" /\ Vouched(n, Job(p))

\* A pull or a load that was to scan on a rule, or on flags, and is not told to
\* skip, tags nothing that it has not scanned: each of its scanners has judged each
\* component the SBOM lists, unless it cannot tell and unscanned ones may pass.  A
\* pull that tags, and a load that ends well, have put every report of their own in
\* place of the publishers'.
TaggedScanned ==
    [][\A p \in Puller : pull'[p] # pull[p] =>
         /\ local' # local /\ ~Job(p).skipScan /\ Scans(Job(p)) # {} =>
              \A u \in Lists[Bill(p)] :
                LET of == {r \in pull[p].found : r.of = pull[p].pkg /\ r.purl = u} IN
                /\ {r.scanner : r \in of} = Scans(Job(p))
                /\ FailsUnscanned(Job(p)) => \E r \in of : r.vulns # {None}
         /\ pull'[p].pc = "done" =>
              \A r \in pull[p].found :
                r.vulns # {None} => reports[r.purl][r.scanner] = Fresh(p)]_vars

\* A component pulled into a directory of its own either has all of its files
\* there and nothing else, once the pull is done, or, unless it was to replace
\* what was there, leaves the directory as it was (writeInto).
OutputWhole ==
    \A p \in Puller : pull[p].job # None /\ Job(p).only # None =>
        /\ pull[p].pc = "done" => output = Wanted(p)
        /\ pull[p].pc = "failed" /\ ~Job(p).replace => output = pull[p].held

\* The pulls of component.go: "into.Dir is left as it was if the pull fails".
OutputKept ==
    \A p \in Puller : pull[p].job # None /\ Job(p).only # None =>
        (pull[p].pc = "failed" => output = pull[p].held)

\* README.md:37: the scan gate can stop a pull "before anything is written".  The
\* code scans once the SBOM and the components are on disk (PullComponents).
RefusedUnwritten ==
    [][\A p \in Puller : At(p, "vex") /\ pull'[p].pc = "failed" /\ pull[p].pulls = 1 =>
         layers = [u \in Purl |-> None]]_vars

\* A pull ends, whatever others do to the repository meanwhile.
EveryPullEnds ==
    \A p \in Puller : pull[p].pc \in {"open", "resolve"} ~> pull[p].pc \in Ended

=============================================================================

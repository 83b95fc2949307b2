----------------------------- MODULE PackagePush -----------------------------
(***************************************************************************)
(* How "bomify push" publishes packages to one repository of a registry    *)
(* (internal/oci/push), by several pushers at once, each of which may fail *)
(* or die at any step and be run again: the blobs, the manifests and the   *)
(* index that names them, the referrers attached to the index and the      *)
(* signatures of both, the components' own repositories, and the tag.      *)
(*                                                                         *)
(* A step is one call of the registry.  Content is addressed by its digest *)
(* and kept until it is deleted, so that pushing what is there changes     *)
(* nothing.  Where the code takes components, documents, signers or sites  *)
(* in the SBOM's or the command line's order, the model takes any order.   *)
(***************************************************************************)
EXTENDS Naturals, FiniteSets

CONSTANTS
    Pusher,     \* processes that run bomify push
    Package,    \* packages: an SBOM and the components it describes
    Component,  \* component manifests, by digest
    Blob,       \* blobs, by digest
    Site,       \* component repositories, each with its tag
    Tag,        \* tags of the package's repository
    Document,   \* VEX documents
    Signer,     \* signing plugins with their options
    None,       \* nothing
    Holds,      \* the components of each package
    Layers,     \* the blobs of each component
    Members,    \* the components each package has at each site
    Pinned,     \* sites of components pinned by digest, which are not tagged
    Unplaced,   \* packages some component of which no site can take
    Jobs,       \* the pushes that are run
    MayStop,    \* whether a push may fail, or its process die
    Overlap,    \* whether pushes may overlap
    MaxPushes   \* bound: how often each pusher pushes

\* scan is when the local vulnerability reports were made, 0 for none.
JobType ==
    [package : Package, tag : Tag, signers : SUBSET Signer,
     documents : SUBSET Document, scan : Nat, provenance : BOOLEAN,
     places : BOOLEAN, keep : Nat]

ASSUME ConstantsAssumption ==
    /\ None \notin Package \cup Signer
    /\ Holds \in [Package -> SUBSET Component]
    /\ Layers \in [Component -> SUBSET Blob]
    /\ Members \in [Package -> [Site -> SUBSET Component]]
    /\ \A s \in Package, x \in Site : Members[s][x] \subseteq Holds[s]
    /\ Pinned \subseteq Site
    /\ Unplaced \subseteq Package
    /\ Jobs \subseteq JobType
    /\ MayStop \in BOOLEAN
    /\ Overlap \in BOOLEAN
    /\ MaxPushes \in Nat

ASSUME NoneAssumption == None \notin Pusher \X Nat

VARIABLES
    blobs,      \* the blobs in the package's repository
    manifests,  \* the component manifests in it
    sboms,      \* the packages whose SBOM manifest is in it
    indexes,    \* the packages whose index is in it
    referrers,  \* what is attached to an index
    signatures, \* the signatures of indexes, referrers and components
    tags,       \* the package each tag names, or None
    siteBlobs,      \* the blobs in each site's repository
    siteManifests,  \* the component manifests in it
    siteIndexes,    \* the sets of components of several platforms it has an index of
    siteTags,       \* the components each site's tag names, {} for none
    pc,         \* where each pusher is
    job,        \* what it pushes
    todo,       \* what is left of the step it is at
    node,       \* the manifest or referrer it is attaching, signing or deleting
    unsigned,   \* the signers that have yet to sign it
    pushes      \* how often each pusher has pushed

repository == <<blobs, manifests, sboms, indexes>>
sites == <<siteBlobs, siteManifests, siteIndexes, siteTags>>
registry == <<repository, referrers, signatures, tags, sites>>
vars == <<registry, pc, job, todo, node, unsigned, pushes>>

Ended == {"ready", "done", "failed"}

Index(s) == [kind |-> "index", of |-> s, what |-> None, by |-> None]

\* Built from the reports alone, so that the same reports are one referrer.
Reports(s, scan) == [kind |-> "reports", of |-> s, what |-> scan, by |-> None]

\* Dated when it is attached, so that each push's is a referrer of its own.
Vex(s, d, p) == [kind |-> "vex", of |-> s, what |-> d, by |-> <<p, pushes[p]>>]

Attestation(s, g, p) ==
    [kind |-> "provenance", of |-> s, what |-> g, by |-> <<p, pushes[p]>>]

\* What a site's tag names: a manifest, or an index of several platforms'.
Placed(x, members) == [kind |-> "component", of |-> x, members |-> members]

Carried(s, kind) == {r \in referrers : r.kind = kind /\ r.of = s}

Signed(n, signers) == \A g \in signers : [of |-> n, signer |-> g] \in signatures

SitesOf(s) == {x \in Site : Members[s][x] # {}}

\* oras.CopyGraph skips a manifest the site has, with all that it names.
Missing(x, members) == members \ siteManifests[x]

Newer(r) == {q \in Carried(r.of, "reports") : q.what > r.what}

NoJob ==
    [package |-> None, tag |-> None, signers |-> {}, documents |-> {},
     scan |-> 0, provenance |-> FALSE, places |-> FALSE, keep |-> 0]

Init ==
    /\ blobs = {} /\ manifests = {} /\ sboms = {} /\ indexes = {}
    /\ referrers = {}
    /\ signatures = {}
    /\ tags = [t \in Tag |-> None]
    /\ siteBlobs = [x \in Site |-> {}]
    /\ siteManifests = [x \in Site |-> {}]
    /\ siteIndexes = [x \in Site |-> {}]
    /\ siteTags = [x \in Site |-> {}]
    /\ pc = [p \in Pusher |-> "ready"]
    /\ job = [p \in Pusher |-> NoJob]
    /\ todo = [p \in Pusher |-> {}]
    /\ node = [p \in Pusher |-> None]
    /\ unsigned = [p \in Pusher |-> {}]
    /\ pushes = [p \in Pusher |-> 0]

-----------------------------------------------------------------------------
\* Process p goes on to label, with left to do there of node n.
At(p, label, left, n) ==
    /\ pc' = [pc EXCEPT ![p] = label]
    /\ todo' = [todo EXCEPT ![p] = left]
    /\ node' = [node EXCEPT ![p] = n]
    /\ unsigned' = [unsigned EXCEPT ![p] = IF label = "sign" THEN job[p].signers ELSE {}]
    /\ UNCHANGED <<job, pushes>>

Goto(p, label, left) == At(p, label, left, None)

\* Process p has one thing less to do of the step it is at.
Strike(p, x) == At(p, pc[p], todo[p] \ {x}, None)

-----------------------------------------------------------------------------
(* What some steps of a push would be with a plausible bug.  No behaviour  *)
(* of the specification takes these; each shows that a property would      *)
(* catch the bug, in place of the step its name starts with.               *)

\* It takes the components' manifests for their blobs.
Start_ManifestsAsLayers(p) ==
    /\ pc[p] \in Ended
    /\ Overlap \/ \A q \in Pusher : pc[q] \in Ended
    /\ pushes[p] < MaxPushes
    /\ \E j \in Jobs :
        /\ job' = [job EXCEPT ![p] = j]
        /\ todo' = [todo EXCEPT ![p] = Holds[j.package]]
    /\ pc' = [pc EXCEPT ![p] = "layers"]
    /\ pushes' = [pushes EXCEPT ![p] = @ + 1]
    /\ UNCHANGED <<registry, node, unsigned>>

\* It attaches a document without looking for it first.
ListDocuments_Unchecked(p) ==
    /\ pc[p] = "documents"
    /\ \E d \in todo[p] : At(p, "attach", todo[p] \ {d}, Vex(job[p].package, d, p))
    /\ UNCHANGED registry

\* It leaves the document unsigned.
AttachDocument_Unsigned(p) ==
    /\ pc[p] = "attach"
    /\ referrers' = referrers \cup {node[p]}
    /\ Goto(p, "documents", todo[p])
    /\ UNCHANGED <<repository, signatures, tags, sites>>

\* It pushes a manifest before what it names.
CopyManifest_First(p) ==
    /\ pc[p] = "copy"
    /\ LET x == node[p].of
       IN  \E c \in Missing(x, node[p].members) :
             siteManifests' = [siteManifests EXCEPT ![x] = @ \cup {c}]
    /\ UNCHANGED <<repository, referrers, signatures, tags, siteBlobs, siteIndexes, siteTags,
                   pc, job, todo, node, unsigned, pushes>>

\* It sorts the reports oldest first, and so keeps the oldest.
Stale_Oldest(s, keep) ==
    IF keep = 0 THEN {}
    ELSE {r \in Carried(s, "reports") :
            Cardinality({q \in Carried(s, "reports") : q.what < r.what}) >= keep}

\* It leaves the signatures of the report it goes on to delete.
PruneSignatures_Left(p) ==
    /\ pc[p] = "stale"
    /\ \E r \in todo[p] : At(p, "delete", todo[p] \ {r}, r)
    /\ UNCHANGED registry

-----------------------------------------------------------------------------
(* One action per step of a push.                                          *)

Start(p) ==
    /\ pc[p] \in Ended
    /\ Overlap \/ \A q \in Pusher : pc[q] \in Ended
    /\ pushes[p] < MaxPushes
    /\ \E j \in Jobs :
        /\ job' = [job EXCEPT ![p] = j]
        /\ todo' = [todo EXCEPT ![p] = UNION {Layers[c] : c \in Holds[j.package]}]
    /\ pc' = [pc EXCEPT ![p] = "layers"]
    /\ pushes' = [pushes EXCEPT ![p] = @ + 1]
    /\ UNCHANGED <<registry, node, unsigned>>

\* The registry or a plugin refuses a call, or the process dies: push leaves
\* the registry as it is.
Stops(p) ==
    /\ MayStop
    /\ pc[p] \notin Ended
    /\ Goto(p, "failed", {})
    /\ UNCHANGED registry

-----------------------------------------------------------------------------
(* pushPackage: every component's blobs at once, then each component's     *)
(* manifest, the SBOM's and the index.                                     *)

PushLayer(p) ==
    /\ pc[p] = "layers"
    /\ \E b \in todo[p] :
        /\ blobs' = blobs \cup {b}
        /\ Strike(p, b)
    /\ UNCHANGED <<manifests, sboms, indexes, referrers, signatures, tags, sites>>

LayersPushed(p) ==
    /\ pc[p] = "layers"
    /\ todo[p] = {}
    /\ Goto(p, "manifests", Holds[job[p].package])
    /\ UNCHANGED registry

PushManifest(p) ==
    /\ pc[p] = "manifests"
    /\ \E c \in todo[p] :
        /\ manifests' = manifests \cup {c}
        /\ Strike(p, c)
    /\ UNCHANGED <<blobs, sboms, indexes, referrers, signatures, tags, sites>>

\* A component that no site can take fails a push that places components,
\* after the SBOM's manifest and before the index.
PushSBOM(p) ==
    /\ pc[p] = "manifests"
    /\ todo[p] = {}
    /\ sboms' = sboms \cup {job[p].package}
    /\ IF job[p].places /\ job[p].package \in Unplaced
         THEN Goto(p, "failed", {})
         ELSE Goto(p, "index", {})
    /\ UNCHANGED <<blobs, manifests, indexes, referrers, signatures, tags, sites>>

PushIndex(p) ==
    /\ pc[p] = "index"
    /\ indexes' = indexes \cup {job[p].package}
    /\ At(p, "sign", {}, Index(job[p].package))
    /\ UNCHANGED <<blobs, manifests, sboms, referrers, signatures, tags, sites>>

-----------------------------------------------------------------------------
(* referrerAttacher: the index is signed, and then each referrer as it is  *)
(* attached, by every signer.                                              *)

Sign(p) ==
    /\ pc[p] = "sign"
    /\ \E g \in unsigned[p] :
        /\ signatures' = signatures \cup {[of |-> node[p], signer |-> g]}
        /\ unsigned' = [unsigned EXCEPT ![p] = @ \ {g}]
    /\ UNCHANGED <<repository, referrers, tags, sites, pc, job, todo, node, pushes>>

\* What follows once every signer has signed the node.
SignedAll(p) ==
    /\ pc[p] = "sign"
    /\ unsigned[p] = {}
    /\ CASE node[p].kind = "index" -> Goto(p, "reports", {})
         [] node[p].kind = "reports" -> Goto(p, "documents", job[p].documents)
         [] node[p].kind = "vex" -> Goto(p, "documents", todo[p])
         [] node[p].kind = "component" -> At(p, "site_tag", todo[p], node[p])
    /\ UNCHANGED registry

\* security.Attach: the reports are one referrer, signed even if it is there.
AttachReports(p) ==
    /\ pc[p] = "reports"
    /\ IF job[p].scan = 0
         THEN /\ Goto(p, "documents", job[p].documents)
              /\ UNCHANGED referrers
         ELSE LET r == Reports(job[p].package, job[p].scan)
              IN  /\ referrers' = referrers \cup {r}
                  /\ At(p, "sign", {}, r)
    /\ UNCHANGED <<repository, signatures, tags, sites>>

\* transfer.Attach lists the referrers, and leaves a document that one of them
\* carries as it is, signed or not.
ListDocuments(p) ==
    /\ pc[p] = "documents"
    /\ \E d \in todo[p] :
        IF \E r \in Carried(job[p].package, "vex") : r.what = d
          THEN Strike(p, d)
          ELSE At(p, "attach", todo[p] \ {d}, Vex(job[p].package, d, p))
    /\ UNCHANGED registry

AttachDocument(p) ==
    /\ pc[p] = "attach"
    /\ referrers' = referrers \cup {node[p]}
    /\ At(p, "sign", todo[p], node[p])
    /\ UNCHANGED <<repository, signatures, tags, sites>>

DocumentsAttached(p) ==
    /\ pc[p] = "documents"
    /\ todo[p] = {}
    /\ Goto(p, "provenance", {})
    /\ UNCHANGED registry

\* provenance.Attach leaves a statement that the package carries as it is.
\* Otherwise each signer attests it, or it is attached unsigned.
ListProvenance(p) ==
    /\ pc[p] = "provenance"
    /\ IF job[p].provenance /\ Carried(job[p].package, "provenance") = {}
         THEN Goto(p, "attest", IF job[p].signers = {} THEN {None} ELSE job[p].signers)
         ELSE Goto(p, "attest", {})
    /\ UNCHANGED registry

Attest(p) ==
    /\ pc[p] = "attest"
    /\ \E g \in todo[p] :
        /\ referrers' = referrers \cup {Attestation(job[p].package, g, p)}
        /\ Strike(p, g)
    /\ UNCHANGED <<repository, signatures, tags, sites>>

Attested(p) ==
    /\ pc[p] = "attest"
    /\ todo[p] = {}
    /\ IF job[p].places
         THEN Goto(p, "sites", SitesOf(job[p].package))
         ELSE Goto(p, "tag", {})
    /\ UNCHANGED registry

-----------------------------------------------------------------------------
(* componentTagger: each site's components are copied into its repository, *)
(* what a manifest names before the manifest, signed there, and tagged.    *)

EnterSite(p) ==
    /\ pc[p] = "sites"
    /\ \E x \in todo[p] :
        At(p, "copy", todo[p] \ {x}, Placed(x, Members[job[p].package][x]))
    /\ UNCHANGED registry

CopyBlob(p) ==
    /\ pc[p] = "copy"
    /\ LET x == node[p].of
       IN  \E c \in Missing(x, node[p].members) : \E b \in Layers[c] \ siteBlobs[x] :
             siteBlobs' = [siteBlobs EXCEPT ![x] = @ \cup {b}]
    /\ UNCHANGED <<repository, referrers, signatures, tags, siteManifests, siteIndexes, siteTags,
                   pc, job, todo, node, unsigned, pushes>>

CopyManifest(p) ==
    /\ pc[p] = "copy"
    /\ LET x == node[p].of
       IN  \E c \in Missing(x, node[p].members) :
             /\ Layers[c] \subseteq siteBlobs[x]
             /\ siteManifests' = [siteManifests EXCEPT ![x] = @ \cup {c}]
    /\ UNCHANGED <<repository, referrers, signatures, tags, siteBlobs, siteIndexes, siteTags,
                   pc, job, todo, node, unsigned, pushes>>

Several(members) == \E c, d \in members : c # d

\* What the tag is to name is the one manifest, or pushPlatformIndex pushes an index
\* of them.  The push may stop before that, and between it and the tag.
Copied(p) ==
    /\ pc[p] = "copy"
    /\ LET x == node[p].of
           members == node[p].members
       IN  /\ Missing(x, members) = {}
           /\ siteIndexes' = [siteIndexes EXCEPT ![x] =
                                IF Several(members) THEN @ \cup {members} ELSE @]
    /\ At(p, "sign", todo[p], node[p])
    /\ UNCHANGED <<repository, referrers, signatures, tags, siteBlobs, siteManifests, siteTags>>

TagSite(p) ==
    /\ pc[p] = "site_tag"
    /\ siteTags' = [siteTags EXCEPT ![node[p].of] =
                      IF node[p].of \in Pinned THEN @ ELSE node[p].members]
    /\ Goto(p, "sites", todo[p])
    /\ UNCHANGED <<repository, referrers, signatures, tags, siteBlobs, siteManifests, siteIndexes>>

SitesTagged(p) ==
    /\ pc[p] = "sites"
    /\ todo[p] = {}
    /\ Goto(p, "tag", {})
    /\ UNCHANGED registry

TagPackage(p) ==
    /\ pc[p] = "tag"
    /\ tags' = [tags EXCEPT ![job[p].tag] = job[p].package]
    /\ Goto(p, "prune", {})
    /\ UNCHANGED <<repository, referrers, signatures, sites>>

-----------------------------------------------------------------------------
(* PruneReferrers: all but the newest reports go, each after what refers   *)
(* to it; a report or a signature that cannot be deleted is left.          *)

Stale(s, keep) ==
    IF keep = 0 THEN {}
    ELSE {r \in Carried(s, "reports") : Cardinality(Newer(r)) >= keep}

PruneList(p) ==
    /\ pc[p] = "prune"
    /\ Goto(p, "stale", Stale(job[p].package, job[p].keep))
    /\ UNCHANGED registry

SignaturesOf(n) == {g \in signatures : g.of = n}

PruneSignatures(p) ==
    /\ pc[p] = "stale"
    /\ \E r \in todo[p] :
        /\ signatures' = signatures \ SignaturesOf(r)
        /\ At(p, "delete", todo[p] \ {r}, r)
    /\ UNCHANGED <<repository, referrers, tags, sites>>

PruneReport(p) ==
    /\ pc[p] = "delete"
    /\ referrers' = referrers \ {node[p]}
    /\ Goto(p, "stale", todo[p])
    /\ UNCHANGED <<repository, signatures, tags, sites>>

\* The registry refuses the listing, or a deletion, with some signatures of the
\* report gone or not: the push is done all the same.
PruneRefused(p) ==
    /\ MayStop
    /\ \/ /\ pc[p] = "prune"
          /\ Goto(p, "done", {})
          /\ UNCHANGED signatures
       \/ /\ pc[p] = "stale"
          /\ \E r \in todo[p] :
              /\ \E gone \in SUBSET SignaturesOf(r) : signatures' = signatures \ gone
              /\ Strike(p, r)
       \/ /\ pc[p] = "delete"
          /\ Goto(p, "stale", todo[p])
          /\ UNCHANGED signatures
    /\ UNCHANGED <<repository, referrers, tags, sites>>

Pruned(p) ==
    /\ pc[p] = "stale"
    /\ todo[p] = {}
    /\ Goto(p, "done", {})
    /\ UNCHANGED registry

-----------------------------------------------------------------------------
Push(p) ==
    \/ Start(p) \/ Stops(p)
    \/ PushLayer(p) \/ LayersPushed(p) \/ PushManifest(p) \/ PushSBOM(p) \/ PushIndex(p)
    \/ Sign(p) \/ SignedAll(p)
    \/ AttachReports(p)
    \/ ListDocuments(p) \/ AttachDocument(p) \/ DocumentsAttached(p)
    \/ ListProvenance(p) \/ Attest(p) \/ Attested(p)
    \/ EnterSite(p) \/ CopyBlob(p) \/ CopyManifest(p) \/ Copied(p)
    \/ TagSite(p) \/ SitesTagged(p)
    \/ TagPackage(p)
    \/ PruneList(p) \/ PruneSignatures(p) \/ PruneReport(p) \/ PruneRefused(p)
    \/ Pruned(p)

Next == \E p \in Pusher : Push(p)

Spec == Init /\ [][Next]_vars

-----------------------------------------------------------------------------
(* What a push is supposed to guarantee.                                   *)

ReferrerType ==
    [kind : {"reports", "vex", "provenance"}, of : Package,
     what : {None} \cup Nat \cup Document \cup Signer,
     by : {None} \cup (Pusher \X Nat)]

PlacedType == [kind : {"component"}, of : Site, members : SUBSET Component]

NodeType == {Index(s) : s \in Package} \cup ReferrerType \cup PlacedType

Labels == Ended \cup {"layers", "manifests", "index", "sign", "reports", "documents",
    "attach", "provenance", "attest", "sites", "copy", "site_tag", "tag", "prune",
    "stale", "delete"}

\* What is left to do, and of which node, is of the step a pusher is at.
Fits(label, left, n) ==
    /\ label = "layers" => left \subseteq Blob
    /\ label = "manifests" => left \subseteq Component
    /\ label = "sign" =>
        /\ n \in NodeType
        /\ n.kind # "provenance"
        /\ n.kind = "vex" => left \subseteq Document
        /\ n.kind = "component" => left \subseteq Site
    /\ label \in {"documents", "attach"} => left \subseteq Document
    /\ label = "attest" => left \subseteq Signer \cup {None}
    /\ label \in {"sites", "copy", "site_tag"} => left \subseteq Site
    /\ label \in {"stale", "delete"} => left \subseteq ReferrerType
    /\ label \in {"attach", "delete"} => n \in ReferrerType
    /\ label = "attach" => n.kind = "vex"
    /\ label \in {"copy", "site_tag"} => n \in PlacedType

\* The state stays within its types.
TypeOK ==
    /\ blobs \subseteq Blob
    /\ manifests \subseteq Component
    /\ sboms \subseteq Package
    /\ indexes \subseteq Package
    /\ referrers \subseteq ReferrerType
    /\ signatures \subseteq [of : NodeType, signer : Signer]
    /\ tags \in [Tag -> Package \cup {None}]
    /\ siteBlobs \in [Site -> SUBSET Blob]
    /\ siteManifests \in [Site -> SUBSET Component]
    /\ siteIndexes \in [Site -> SUBSET SUBSET Component]
    /\ siteTags \in [Site -> SUBSET Component]
    /\ pc \in [Pusher -> Labels]
    /\ job \in [Pusher -> Jobs \cup {NoJob}]
    /\ DOMAIN todo = Pusher
    /\ DOMAIN node = Pusher
    /\ unsigned \in [Pusher -> SUBSET Signer]
    /\ pushes \in [Pusher -> 0..MaxPushes]
    /\ \A p \in Pusher :
        /\ pc[p] # "ready" => job[p] \in Jobs
        /\ Fits(pc[p], todo[p], node[p])

Present(s) ==
    /\ s \in indexes \cap sboms
    /\ Holds[s] \subseteq manifests
    /\ UNION {Layers[c] : c \in Holds[s]} \subseteq blobs

\* A tag, of the package or of a component's site, names only content that is
\* there in full, whatever other pushes do and wherever they stopped before:
\* a manifest follows what it names, in Push as in oras.CopyGraph, which
\* skips a manifest that is there and does not look at what it names.
TagsComplete ==
    /\ \A t \in Tag : tags[t] # None => Present(tags[t])
    /\ \A x \in Site :
        /\ \A c \in siteTags[x] : c \in siteManifests[x] /\ Layers[c] \subseteq siteBlobs[x]
        /\ Several(siteTags[x]) => siteTags[x] \in siteIndexes[x]

\* The package's tag moves only to a package that the push moving it has signed
\* in full: its index and every document it attached, by every signer, and
\* nothing it attested without one.  (The reports are left out: another
\* push's pruning may delete their signatures at any moment.)  A site's tag
\* moves only to a component that the push moving it has signed.
SignedBeforeTag ==
    [][ /\ \A t \in Tag : tags'[t] # tags[t] =>
            \E p \in Pusher :
                /\ pc[p] = "tag"
                /\ job[p].package = tags'[t]
                /\ Signed(Index(job[p].package), job[p].signers)
                /\ \A r \in referrers : r.by = <<p, pushes[p]>> =>
                    \/ r.kind = "vex" /\ Signed(r, job[p].signers)
                    \/ r.kind = "provenance" /\ (r.what = None => job[p].signers = {})
        /\ \A x \in Site : siteTags'[x] # siteTags[x] =>
            \E p \in Pusher :
                /\ pc[p] = "site_tag"
                /\ Signed(Placed(x, siteTags'[x]), job[p].signers)]_vars

\* However prunings interleave, reports are deleted only while newer ones of
\* the package remain: the newest scan that was pushed is never lost.
NewestReportsKept ==
    [][\A r \in referrers \ referrers' : r.kind = "reports" /\ Newer(r)' # {}]_vars

\* Only one pusher has pushed anything yet, however often.
OnePusher == \E p \in Pusher : \A q \in Pusher \ {p} : pushes[q] = 0

\* "Deleting a report never leaves an orphaned signature behind": every
\* signature of a report is of one that is there, wherever the one pusher's
\* pushes and prunings stopped.
SignaturesAnchored ==
    OnePusher =>
        \A g \in signatures : g.of.kind = "reports" => g.of \in referrers

\* "Attaching the same document again adds nothing": a package carries a
\* document once, however often one pusher's push of it failed and was run again.
DocumentsOnce ==
    OnePusher =>
        \A r \in referrers, q \in referrers :
            r.kind = "vex" /\ q.kind = "vex" /\ r.of = q.of /\ r.what = q.what => r = q

\* Once a push that signs has succeeded, every document it was given is on
\* the package, signed by every one of its signers.
DocumentsSigned ==
    \A p \in Pusher : pc[p] = "done" =>
        \A d \in job[p].documents :
            \E r \in Carried(job[p].package, "vex") :
                r.what = d /\ Signed(r, job[p].signers)

=============================================================================

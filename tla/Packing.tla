------------------------------ MODULE Packing ------------------------------
(***************************************************************************)
(* How a push lays a package out (internal/oci/push: components.go,        *)
(* layers.go, naming.go, aliases.go), and how a pull of one component puts *)
(* its files back (internal/oci/pull: component.go, restore.go).  The SBOM *)
(* pushed is one that Compose made, or one written by hand.                *)
(*                                                                         *)
(* Each component's directory is planned as its plugin packs it, as a      *)
(* ModelPack model or in bomify's own format; all blobs are uploaded at    *)
(* once, in any order, while files may be rewritten; each manifest, the    *)
(* files map, the sites and the index are then made of what came back.     *)
(* What is there of an earlier push is not uploaded again.                 *)
(*                                                                         *)
(* A blob is named by its digest, which is its content: a model value for  *)
(* a file's, and a record for what bomify makes of others.  The order in   *)
(* which tags, signatures and referrers follow is PackagePush's.           *)
(***************************************************************************)
EXTENDS Compose

CONSTANTS
    Path,          \* the files a component may have
    Content,       \* what a file holds
    Link,          \* a file that is no regular file
    Refers,        \* the blobs each content names, as a manifest
    Dirs,          \* the directory of each component, or None without one
    Answers,       \* what its plugin's "component pack" may answer, or None
    Faithful,      \* whether plugins list what their manifests name, and no more
    Models,        \* the components that are machine-learning models
    Purl,          \* each component's purl, taken apart
    Segment,       \* repositorySegment: a repository's segment, or None
    VersionTag,    \* versionTag: the tag of a version, or None
    Handwritten,   \* lists of components of SBOMs that Compose did not make
    Rewrites,      \* what may be written to a file meanwhile
    Concurrency,   \* how many blobs are uploaded at once
    MaxPushes,     \* bound: pushes of the package
    MaxRewrites    \* bound: files rewritten

\* A blob of a pack: a file of the directory, or bytes given inline.  says is a
\* digest that a plugin gives a file, or None for the file's own.
Blob == [path : Path \cup {None}, data : Content \cup {None},
         says : Content \cup {None}, manifest : BOOLEAN]

\* The files of a component.
Directory == UNION {[P -> Content] : P \in {P \in SUBSET Path : IsFiniteSet(P)}}

PurlType == [segments : Seq(DOMAIN Segment), version : DOMAIN VersionTag,
             image : BOOLEAN, tag : DOMAIN VersionTag \cup {None}, pinned : Content \cup {None},
             platform : STRING \cup {None}, unqualified : STRING]

ASSUME PackAssumption ==
    /\ None \notin Content \cup Path \cup Directory /\ Link \in Content
    /\ \A d \in Content : Refers[d] \subseteq Content
    /\ Dirs \in [Ref -> Directory \cup {None}]
    /\ \A c \in Ref :
        /\ Purl[c] \in PurlType
        /\ \A a \in Answers[c] \ {None} : a.manifest \in Blob \cup {None} /\ a.blobs \in Seq(Blob)
    /\ Faithful \in BOOLEAN
    /\ Models \subseteq Ref /\ Rewrites \subseteq Content
    /\ \A l \in Handwritten : l \in Seq(Ref)
    /\ Concurrency \in Nat \ {0} /\ MaxPushes \in Nat /\ MaxRewrites \in Nat

VARIABLES
    step,        \* what the push, or the build or the pull around it, does next
    sbom,        \* the components of the SBOM that a build recorded, or None
    tagging,     \* whether the push tags components beside the package
    list,        \* the components of the SBOM, each once
    pushes,      \* how many pushes there were
    dir,         \* the files of each component's directory, or None
    held,        \* what each file has held since the push began
    rewrites,    \* how many files were rewritten
    plans,       \* planComponents: the plan of each component
    layers,      \* pushLayers: the digest of each blob pushed, or None
    hashed,      \* the digest of each blob, once it is known, or None
    manifests,   \* pushComponents: the manifest of each component so far
    registry,    \* the blobs and manifests in the package's repository
    complete,    \* what of it is there as a manifest, with all it names
    index,       \* the package index, or None
    sites,       \* planSites: what is to be tagged at each site
    placed,      \* what each reference beside the package names
    restored     \* the component a pull restores, and its files so far

asked == <<sbom, tagging, list, pushes>>
directories == <<dir, held, rewrites>>
packing == <<plans, layers, hashed, manifests>>
beside == <<index, sites, placed>>
stored == <<registry, complete>>
packVars == <<step, asked, directories, packing, stored, beside, restored>>
vars == <<composeVars, packVars>>

Init ==
    /\ ComposeInit
    /\ step = "build" /\ sbom = None /\ tagging = FALSE /\ list = <<>> /\ pushes = 0
    /\ dir = Dirs /\ held = <<>> /\ rewrites = 0
    /\ plans = <<>> /\ layers = <<>> /\ hashed = <<>> /\ manifests = <<>>
    /\ registry = {} /\ complete = {} /\ index = None /\ sites = <<>> /\ placed = <<>> /\ restored = None

-----------------------------------------------------------------------------
(* Planning.                                                               *)

Fail ==
    /\ step' = "failed"
    /\ UNCHANGED <<asked, directories, packing, beside, stored, restored>>

\* A build records an SBOM, once it pulled its components: one that was composed,
\* whose components come in one fixed order, or another.
Build ==
    /\ step = "build"
    /\ \/ doing = "composed" /\ sbom' = SetToSeq(DOMAIN composed.components)
       \/ doing = "load" /\ sbom' \in Handwritten
    /\ step' = "idle"
    /\ doing' = "ended" /\ composition' = None /\ parts' = <<>> /\ merged' = <<>>
    /\ deps' = <<>> /\ next' = 1 /\ composed' = None
    /\ UNCHANGED <<output, tagging, list, pushes, directories, packing, stored, beside, restored>>

\* uniqueComponents: the index holds each component once.
Unique(l) ==
    FlattenSeq([i \in DOMAIN l |-> IF \E k \in 1..(i - 1) : l[k] = l[i] THEN <<>> ELSE <<l[i]>>])

\* pushPackage reads the SBOM; any earlier push has ended.
Push(tags) ==
    /\ step \in {"idle", "failed", "pushed"} /\ pushes < MaxPushes
    /\ step' = "plan" /\ tagging' = tags /\ list' = Unique(sbom) /\ pushes' = pushes + 1
    /\ held' = [c \in Ref |-> IF dir[c] = None THEN <<>> ELSE [p \in DOMAIN dir[c] |-> {dir[c][p]}]]
    /\ plans' = <<>> /\ layers' = <<>> /\ hashed' = <<>> /\ manifests' = <<>>
    /\ index' = None /\ sites' = <<>>
    /\ UNCHANGED <<sbom, dir, rewrites, placed, stored, restored>>

\* Another command, or the user, rewrites a file of a component.
Rewrite(c, p, content) ==
    /\ step \in {"plan", "upload", "failed", "pushed"} /\ rewrites < MaxRewrites
    /\ dir[c] # None /\ p \in DOMAIN dir[c] /\ dir[c][p] # content
    /\ dir' = [dir EXCEPT ![c][p] = content]
    /\ held' = [held EXCEPT ![c][p] = @ \cup {content}]
    /\ rewrites' = rewrites + 1
    /\ UNCHANGED <<step, asked, packing, beside, stored, restored>>

DigestOf(blob, files) ==
    IF blob.path = None THEN blob.data ELSE IF blob.says # None THEN blob.says ELSE files[blob.path]

\* addBlob and planFiles: the files that are blobs of the pack, and the rest.
Claimed(answer, files) ==
    {<<b.path, DigestOf(b, files)>> : b \in {b \in {answer.manifest} \cup Range(answer.blobs) : b.path # None}}

\* packedBlobs.add checks each blob; no file is two blobs.
Sound(answer, files) ==
    /\ answer.manifest.manifest
    /\ \A b \in {answer.manifest} \cup Range(answer.blobs) :
        /\ (b.path = None) # (b.data = None)
        /\ b.path # None => b.path \in DOMAIN files /\ files[b.path] # Link
    /\ \A x, y \in Claimed(answer, files) : x[1] = y[1] => x = y

\* A manifest, what it names, what those name, and so on.
Closed(S) == \A d \in S : Refers[d] \subseteq S
Reaches == [d \in Content |->
    {e \in Content : \A S \in SUBSET Content : d \in S /\ Closed(S) => e \in S}]
Reach(d) == Reaches[d]

\* The plugin lists its manifest and "every blob it refers to", and no other.
Describes(answer, files) ==
    {DigestOf(b, files) : b \in Range(answer.blobs)} \cup {DigestOf(answer.manifest, files)}
        = Reach(DigestOf(answer.manifest, files))

\* What c's plugin may answer.  That a sound answer describes its manifest, when
\* Faithful, is an assumption about plugins: the push does not check it.
AnswersOf(c) ==
    {a \in Answers[c] :
        (Faithful /\ a # None /\ a.manifest # None /\ Sound(a, dir[c])) => Describes(a, dir[c])}

\* Paths in one fixed order: listFiles sorts them.
Sorted(paths) == SetToSeq(paths)

\* uploads are the artifact's blobs that are files and no manifests; each of
\* extras is a file that is a blob of its own.  blobs is what CopyGraph may ask for.
Planned(format, manifest, uploads, claimed, blobs, extras) ==
    [format |-> format, manifest |-> manifest, uploads |-> uploads, files |-> claimed,
     blobs |-> blobs, extras |-> Sorted(extras)]

PackedPlan(answer, files) ==
    LET claimed == Claimed(answer, files)
        paths == {x[1] : x \in claimed}
        upload(b) == IF b.path = None \/ b.manifest THEN <<>>
                     ELSE <<[path |-> b.path, digest |-> DigestOf(b, files)]>>
        all == {answer.manifest} \cup Range(answer.blobs)
    IN Planned("packed", DigestOf(answer.manifest, files),
               FlattenSeq([i \in DOMAIN answer.blobs |-> upload(answer.blobs[i])]),
               [p \in paths |-> (CHOOSE x \in claimed : x[1] = p)[2]],
               {[digest |-> DigestOf(b, files), path |-> b.path] : b \in all},
               DOMAIN files \ paths)

\* Each file a blob of its own, of a model that has files or in bomify's format.
FilesPlan(c, files) ==
    Planned(IF c \in Models /\ files # <<>> THEN "model" ELSE "bomify",
            None, <<>>, <<>>, {}, DOMAIN files)

\* planComponent, of several components at once.
PlanComponent(c) ==
    /\ step = "plan" /\ c \in Range(list) \ DOMAIN plans
    /\ IF dir[c] = None THEN Fail
       ELSE \E answer \in AnswersOf(c) :
            LET packs == answer # None /\ answer.manifest # None
                stray == answer # None /\ answer.manifest = None /\ answer.blobs # <<>>
            IN IF \/ stray \/ Link \in Range(dir[c])
                  \/ packs /\ ~Sound(answer, dir[c])
               THEN Fail
               ELSE /\ plans' = [d \in DOMAIN plans \cup {c} |->
                            CASE d # c -> plans[d]
                              [] d = c /\ packs -> PackedPlan(answer, dir[c])
                              [] d = c /\ ~packs -> FilesPlan(c, dir[c])]
                    /\ UNCHANGED <<step, asked, directories, layers, hashed, manifests, beside,
                                   stored, restored>>

-----------------------------------------------------------------------------
(* Blobs.                                                                  *)

\* The extras first.  No behaviour of the specification has it.
LayersOf_ExtrasFirst(c) ==
    [i \in DOMAIN plans[c].extras |-> [path |-> plans[c].extras[i], digest |-> None]]
        \o plans[c].uploads

\* layers: the blobs of plan, those whose digest is known before its extras.
LayersOf(c) ==
    plans[c].uploads
        \o [i \in DOMAIN plans[c].extras |-> [path |-> plans[c].extras[i], digest |-> None]]

\* pushComponents puts the layers of all components in one list; starts is where
\* each one's begin in it, counted from 0, and then the list's end.
LayersTo(n) ==
    FlattenSeq([k \in 1..n |-> [i \in DOMAIN LayersOf(list[k]) |->
        [of |-> list[k], path |-> LayersOf(list[k])[i].path, digest |-> LayersOf(list[k])[i].digest]]])

AllLayers == LayersTo(Len(list))

Start(k) == Len(LayersTo(k - 1))

StartUploads ==
    /\ step = "plan" /\ DOMAIN plans = Range(list)
    /\ step' = "upload"
    /\ layers' = [i \in DOMAIN AllLayers |-> None]
    /\ hashed' = [i \in DOMAIN AllLayers |-> AllLayers[i].digest]
    /\ UNCHANGED <<asked, directories, plans, manifests, beside, stored, restored>>

\* parallel.Map starts them in order, each once fewer than Concurrency run.
Running(i) ==
    /\ step = "upload" /\ layers[i] = None
    /\ Cardinality({k \in 1..(i - 1) : layers[k] = None}) < Concurrency

FileOf(i) == dir[AllLayers[i].of][AllLayers[i].path]

HashLayer(i) ==
    /\ Running(i) /\ hashed[i] = None
    /\ hashed' = [hashed EXCEPT ![i] = FileOf(i)]
    /\ UNCHANGED <<step, asked, directories, plans, layers, manifests, beside, stored, restored>>

\* PushBlob: what is there is not sent; the target refuses bytes that are not the
\* digest's, which fails the push.
PushLayer(i) ==
    /\ Running(i) /\ hashed[i] # None
    /\ IF hashed[i] \notin registry /\ FileOf(i) # hashed[i] THEN Fail
       ELSE /\ layers' = [layers EXCEPT ![i] = hashed[i]]
            /\ registry' = registry \cup {hashed[i]}
            /\ UNCHANGED <<step, asked, directories, plans, hashed, manifests, complete, beside, restored>>

-----------------------------------------------------------------------------
(* Manifests.                                                              *)

\* A registry is asked for a manifest as a manifest: a blob of its bytes is none.
Has(d) == d \in IF Refers[d] = {} THEN registry ELSE complete

\* What CopyGraph copies: nothing, if the target has the manifest.
Copied(d) == IF Has(d) THEN {} ELSE {e \in Reach(d) : ~Has(e)}

\* The pack lists a blob, and its file still holds it.
Supplies(c, d) ==
    \E b \in plans[c].blobs : b.digest = d /\ (b.path = None \/ dir[c][b.path] = d)

Manifest(kind, of, names) == [kind |-> kind, of |-> of, names |-> names]
Empty == Manifest("empty", None, <<>>)

\* titleFile and describeModelFile: each layer with its path, and in bomify's own
\* format with its component's purl; a model's config has its name and version.
Titled(c, descs) == [i \in DOMAIN descs |-> <<plans[c].extras[i], descs[i]>>]
NameOf(c) == <<Purl[c].segments, Purl[c].version>>

\* mapFiles: each extra is in the blob uploaded for it.
MapFiles(c, descs) ==
    LET plan == plans[c] IN
    [p \in DOMAIN plan.files \cup Range(plan.extras) |->
        IF p \in DOMAIN plan.files THEN plan.files[p]
        ELSE descs[CHOOSE i \in DOMAIN plan.extras : plan.extras[i] = p]]

\* pushManifest of the next component: its layers are those from its start to the
\* next one's; the extras of a packed one come after its uploads.
PushManifest ==
    /\ step = "upload" /\ None \notin Range(layers) /\ Len(manifests) < Len(list)
    /\ LET k == Len(manifests) + 1
           c == list[k]
           plan == plans[c]
           descs == SubSeq(layers, Start(k) + 1, Start(k + 1))
           own == SubSeq(descs, Len(plan.uploads) + 1, Len(descs))
           config == IF plan.format = "model" THEN Manifest("config", NameOf(c), descs) ELSE Empty
           desc == CASE plan.format = "packed" -> plan.manifest
                     [] plan.format = "model" -> Manifest("model", NameOf(c), Titled(c, own))
                     [] OTHER -> Manifest("bomify", IF own = <<>> THEN None ELSE c, Titled(c, own))
           copied == IF plan.format = "packed" THEN Copied(plan.manifest) ELSE {desc, config}
       IN
        IF plan.format = "packed" /\ \E d \in copied : ~Supplies(c, d) THEN Fail
        ELSE /\ registry' = registry \cup copied
             /\ complete' = complete \cup (copied \cap Content)
             /\ manifests' = Append(manifests,
                    [desc |-> desc, files |-> MapFiles(c, own),
                     extras |-> IF plan.format = "packed" THEN own ELSE <<>>])
             /\ UNCHANGED <<step, asked, directories, plans, layers, hashed, beside, restored>>

\* pushSBOM: the files map, then the extra files, are the SBOM manifest's layers.
FilesMap == [k \in DOMAIN list |-> [of |-> list[k], files |-> manifests[k].files]]

SBOMLayers ==
    <<Manifest("files", None, FilesMap)>> \o FlattenSeq([k \in DOMAIN manifests |-> manifests[k].extras])

PushSBOM ==
    /\ step = "upload" /\ Len(manifests) = Len(list) /\ None \notin Range(layers)
    /\ step' = "sites"
    /\ registry' = registry \cup {SBOMLayers[1], Manifest("sbom", sbom, SBOMLayers)}
    /\ UNCHANGED <<asked, directories, packing, complete, beside, restored>>

-----------------------------------------------------------------------------
(* Sites.                                                                  *)

\* componentSiteOf, None for a purl that names no site: an image's tag is its tag
\* qualifier, else its version, unless that pins it to a digest.
SiteOf(c) ==
    LET purl == Purl[c]
        path == [i \in DOMAIN purl.segments |-> Segment[purl.segments[i]]]
        pins == purl.image /\ purl.pinned # None
        tagged == purl.image /\ purl.tag # None
        tag == CASE tagged -> VersionTag[purl.tag]
                 [] ~tagged /\ pins -> None
                 [] OTHER -> VersionTag[purl.version]
    IN IF None \in Range(path) \/ (tag = None /\ ~pins) THEN None
       ELSE [path |-> path, tag |-> tag, pinned |-> IF pins THEN purl.pinned ELSE None,
             platform |-> purl.platform, unqualified |-> purl.unqualified]

Reference(site) == <<site.path, IF site.tag = None THEN site.pinned ELSE site.tag>>

IsOtherPlatformOf(s, t) ==
    /\ s.platform # None /\ t.platform # None
    /\ s.unqualified = t.unqualified /\ s.platform # t.platform

\* Different manifests share a site, whatever they are of.  No behaviour has it.
Joins_Anyhow(plan, member) ==
    IF \E i \in DOMAIN plan.members : plan.members[i].desc = member.desc THEN "same" ELSE "member"

\* addMember: the first member that is the same manifest, or that this one is no
\* other platform of, settles it.
Joins(plan, member) ==
    LET settling == {i \in DOMAIN plan.members :
            \/ plan.members[i].desc = member.desc
            \/ ~IsOtherPlatformOf(member.site, plan.members[i].site)}
    IN CASE settling = {} -> "member"
         [] settling # {} /\ plan.members[Min(settling)].desc = member.desc -> "same"
         [] OTHER -> "collides"

Added(plan, member, c) ==
    CASE Joins(plan, member) = "member" ->
            [plan EXCEPT !.members = Append(@, member), !.purls = @ \cup {c}]
      [] Joins(plan, member) = "same" -> [plan EXCEPT !.purls = @ \cup {c}]
      [] OTHER -> plan

\* planSites: the components at one reference share a plan, in the order in which
\* sites first appear.
AddSite(plan, k) ==
    LET site == SiteOf(list[k])
        member == [site |-> site, desc |-> manifests[k].desc]
        at == {i \in DOMAIN plan : Reference(plan[i].site) = Reference(site)}
    IN CASE site = None -> plan
         [] site # None /\ at = {} ->
                Append(plan, Added([site |-> site, members |-> <<>>, purls |-> {}], member, list[k]))
         [] OTHER -> [plan EXCEPT ![CHOOSE i \in at : TRUE] = Added(@, member, list[k])]

PlannedSites ==
    LET planned[n \in 0..Len(list)] == IF n = 0 THEN <<>> ELSE AddSite(planned[n - 1], n)
    IN planned[Len(list)]

SitedBy(plan, c) == {i \in DOMAIN plan : c \in plan[i].purls}

\* planSites and pushIndex: a component that cannot be placed fails a push that
\* tags, and is just given no reference by one that does not.
PushIndex ==
    /\ step = "sites"
    /\ LET plan == PlannedSites
           unplaced == {c \in Range(list) : SitedBy(plan, c) = {}}
           entry(k) == [purl |-> list[k], desc |-> manifests[k].desc,
                        reference |-> IF list[k] \in unplaced THEN None
                                      ELSE Reference(plan[CHOOSE i \in SitedBy(plan, list[k]) : TRUE].site)]
       IN
        IF tagging /\ unplaced # {} THEN Fail
        ELSE /\ sites' = plan
             /\ index' = [sbom |-> SBOMLayers, entries |-> [k \in DOMAIN list |-> entry(k)]]
             /\ step' = IF tagging THEN "tag" ELSE "pushed"
             /\ UNCHANGED <<asked, directories, packing, placed, stored, restored>>

\* componentTagger.tag: one manifest, or an index of several platforms.  An image
\* pinned to a digest is there by its digest alone.
Named(plan) ==
    IF Len(plan.members) = 1 THEN plan.members[1].desc
    ELSE Manifest("platforms", None, [i \in DOMAIN plan.members |->
            [desc |-> plan.members[i].desc, platform |-> plan.members[i].site.platform]])

ReferenceTo(plan) ==
    IF plan.site.tag = None THEN <<plan.site.path, Named(plan)>> ELSE Reference(plan.site)

TagSite ==
    /\ step = "tag" /\ sites # <<>>
    /\ placed' = [reference \in DOMAIN placed \cup {ReferenceTo(sites[1])} |->
                    IF reference = ReferenceTo(sites[1]) THEN Named(sites[1]) ELSE placed[reference]]
    /\ sites' = Tail(sites)
    /\ UNCHANGED <<step, asked, directories, packing, index, stored, restored>>

TagPackage ==
    /\ step = "tag" /\ sites = <<>>
    /\ step' = "pushed"
    /\ UNCHANGED <<asked, directories, packing, beside, stored, restored>>

\* The push stops: a registry refuses, or the process is killed.
Stop ==
    /\ step \in {"plan", "upload", "sites", "tag"}
    /\ Fail

-----------------------------------------------------------------------------
(* A pull of one component.                                                *)

\* FetchFiles and restoreComponents: the files map names each component once.
MapOf(c) == {i \in DOMAIN index.sbom[1].names : index.sbom[1].names[i].of = c}

\* PullComponent: the files of the component it selects, by purl.
PullComponent(c) ==
    /\ step = "pushed" /\ c \in Range(list)
    /\ restored' = [of |-> c, files |-> <<>>]
    /\ step' = IF Cardinality(MapOf(c)) = 1 THEN "restore" ELSE "unrestorable"
    /\ UNCHANGED <<asked, directories, packing, beside, stored>>

Mapped == index.sbom[1].names[CHOOSE i \in MapOf(restored.of) : TRUE].files

\* restoreFile, of several files at once.
RestoreFile(p) ==
    /\ step = "restore" /\ p \in DOMAIN Mapped \ DOMAIN restored.files
    /\ IF Mapped[p] \in registry
       THEN /\ restored' = [restored EXCEPT !.files = @ @@ (p :> Mapped[p])]
            /\ UNCHANGED step
       ELSE /\ step' = "unrestorable"
            /\ UNCHANGED restored
    /\ UNCHANGED <<asked, directories, packing, beside, stored>>

Restored ==
    /\ step = "restore" /\ DOMAIN Mapped = DOMAIN restored.files
    /\ step' = "restored"
    /\ UNCHANGED <<asked, directories, packing, beside, stored, restored>>

-----------------------------------------------------------------------------
PackNext ==
    \/ \E tags \in BOOLEAN : Push(tags)
    \/ \E c \in Ref : PlanComponent(c) \/ PullComponent(c)
    \/ \E c \in Ref, p \in Path, content \in Rewrites : Rewrite(c, p, content)
    \/ \E i \in DOMAIN layers : HashLayer(i) \/ PushLayer(i)
    \/ \E p \in Path : RestoreFile(p)
    \/ StartUploads \/ PushManifest \/ PushSBOM \/ PushIndex \/ TagSite \/ TagPackage
    \/ Stop \/ Restored

Next ==
    \/ ComposeNext /\ UNCHANGED packVars
    \/ Build
    \/ PackNext /\ UNCHANGED composeVars

Spec == Init /\ [][Next]_vars

-----------------------------------------------------------------------------
(* Properties.                                                             *)

\* What the index names, and what those name: a registry may drop anything else.
KeptBy(desc) == IF desc \in Content THEN Reach(desc) ELSE {t[2] : t \in Range(desc.names)}

Kept ==
    (UNION {KeptBy(index.entries[k].desc) : k \in DOMAIN index.entries}) \cup Range(index.sbom)

MapEntry(c) == index.sbom[1].names[CHOOSE i \in MapOf(c) : TRUE].files

\* "bomify pull rebuilds it from the package": whatever order uploads end in, what
\* an earlier push left, and whatever is rewritten meanwhile, a package that has an
\* index has each file that each component's directory has, in a blob that holds
\* what the file held since the push began, and that the package itself keeps;
\* and no pull of a component of it fails for want of one.
PackedWhole ==
    /\ index # None => \A c \in Range(list) :
        /\ Cardinality(MapOf(c)) = 1
        /\ DOMAIN MapEntry(c) = DOMAIN dir[c]
        /\ \A p \in DOMAIN dir[c] : MapEntry(c)[p] \in held[c][p] \cap registry \cap Kept
    /\ step # "unrestorable"

Entries == Range(index.entries)

\* "Components sharing a site must be the same manifest, or platforms of one
\* component": the index gives different manifests one reference only if they are
\* of two platforms of one component; and once a push that tags is done, each
\* component's reference names its manifest there, alone or as one of several
\* platforms, but for an image pinned to a digest.
SitesTell ==
    index # None =>
        /\ \A e, f \in Entries :
            e.reference # None /\ e.reference = f.reference /\ e.desc # f.desc =>
                \E g, h \in Entries :
                    /\ g.desc = e.desc /\ h.desc = f.desc
                    /\ g.reference = e.reference /\ h.reference = e.reference
                    /\ IsOtherPlatformOf(SiteOf(g.purl), SiteOf(h.purl))
        /\ tagging /\ step \notin {"tag", "failed"} => \A e \in Entries :
            /\ e.reference # None
            /\ SiteOf(e.purl).tag # None =>
                LET named == placed[e.reference] IN
                \/ named = e.desc
                \/ named \notin Content /\ named.kind = "platforms"
                    /\ \E m \in Range(named.names) : m.desc = e.desc

=============================================================================

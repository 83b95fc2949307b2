------------------------------ MODULE Compose ------------------------------
(***************************************************************************)
(* "bomify sbom compose" (cmd/sbom.go, internal/sbom/compose.go): the SBOM *)
(* of each source a composition lists, generated by a plugin or read from  *)
(* a file, checked and merged with the others into one SBOM, whose         *)
(* components a push then packs (Packing).                                 *)
(*                                                                         *)
(* A component is what Merge tells apart of it: its purl, which is its     *)
(* bom-ref, what two sources must agree on (id) and what the first source  *)
(* has the say on (rest).  proper stands for the rules of the SBOM         *)
(* contract that look at one component, or at an SBOM's other fields.      *)
(***************************************************************************)
EXTENDS FiniteSets, Naturals, SequencesExt

CONSTANTS
    Ref,            \* purls
    Identity,       \* what conflict compares: type, name, version, hashes
    Rest,           \* a component's other fields
    Name,           \* what sources are called
    Extra,          \* what the composition's own components are listed under
    Medium,         \* the kinds of SBOM generation plugins,
    Installed,      \* and those of which a plugin is found
    File,           \* SBOM files
    Gives,          \* the SBOMs a plugin may generate, or a file may hold
    Composition,    \* the composition files
    None            \* nothing

Component == [ref : Ref, id : Identity, rest : Rest, proper : BOOLEAN]
RefsOf(list) == {list[i].ref : i \in DOMAIN list}

\* A source's SBOM; deps gives the refs that a ref with an entry depends on.
IsPart(b) ==
    /\ b.root \in Ref /\ b.proper \in BOOLEAN
    /\ b.lists \in Seq(Component)
    /\ DOMAIN b.deps \subseteq Ref /\ \A r \in DOMAIN b.deps : b.deps[r] \subseteq Ref

\* root is None for a composition without a name or a version.
IsComposition(c) ==
    /\ c.root \in Ref \cup {None}
    /\ c.sources \in Seq([name : Name, medium : Medium \cup {None}, sbom : File \cup {None}])
    /\ c.own \in Seq(Component)

ASSUME ComposeAssumption ==
    /\ Extra \in Name /\ Installed \subseteq Medium
    /\ None \notin Ref \cup Medium \cup File
    /\ \A c \in Composition : IsComposition(c)
    /\ \A s \in Medium \cup File : \A b \in Gives[s] \ {None} : IsPart(b)

VARIABLES
    doing,         \* what the command does next
    composition,   \* the composition it loaded, or None
    parts,         \* the SBOMs of its first sources
    merged,        \* merger.components: the component of each ref, and its sources
    deps,          \* merger.deps: the refs that each ref depends on
    next,          \* the part to merge next
    composed,      \* the composed SBOM, or None
    output         \* the output file: as it was, empty, or new

composeVars == <<doing, composition, parts, merged, deps, next, composed, output>>

Idle ==
    /\ doing = "load" /\ composition = None /\ parts = <<>>
    /\ merged = <<>> /\ deps = <<>> /\ next = 1 /\ composed = None

ComposeInit == Idle /\ output = "old"

-----------------------------------------------------------------------------
\* An error: what has been merged goes with the process.
Refuse ==
    /\ doing' = "refused"
    /\ UNCHANGED <<composition, parts, merged, deps, next, composed, output>>

\* LoadComposition.
Loadable(c) ==
    /\ c.root # None
    /\ c.sources # <<>> \/ c.own # <<>>
    /\ \A i \in DOMAIN c.sources :
        LET s == c.sources[i] IN
        /\ s.name # Extra /\ \A k \in 1..(i - 1) : c.sources[k].name # s.name
        /\ (s.medium = None) # (s.sbom = None)

Load(c) ==
    /\ doing = "load"
    /\ IF Loadable(c)
       THEN /\ composition' = c
            /\ doing' = "find"
            /\ UNCHANGED <<parts, merged, deps, next, composed, output>>
       ELSE Refuse

\* Before any plugin runs.
FindSBOMPlugins ==
    /\ doing = "find"
    /\ IF \A i \in DOMAIN composition.sources :
            composition.sources[i].medium \in Installed \cup {None}
       THEN /\ doing' = "read"
            /\ UNCHANGED <<composition, parts, merged, deps, next, composed, output>>
       ELSE Refuse

Packages(b, r) == \E i \in DOMAIN b.lists : b.lists[i].ref = r

\* ValidateGenerated: what is common to a source's SBOM and the composed one.
ValidGenerated(b) ==
    /\ b.proper
    /\ \A i \in DOMAIN b.lists :
        b.lists[i].proper /\ \A k \in 1..(i - 1) : b.lists[k].ref # b.lists[i].ref
    /\ \A r \in DOMAIN b.deps : {r} \cup b.deps[r] \subseteq RefsOf(b.lists) \cup {b.root}

\* A plugin may fail, a file may be missing or hold what CycloneDX does not
\* have (None).  A plugin's SBOM is checked as it comes, a file's once merged.
SourceSBOM(b) ==
    /\ doing = "read" /\ Len(parts) < Len(composition.sources)
    /\ LET s == composition.sources[Len(parts) + 1] IN
        /\ b \in Gives[IF s.sbom = None THEN s.medium ELSE s.sbom]
        /\ IF b = None \/ (s.sbom = None /\ ~ValidGenerated(b))
           THEN Refuse
           ELSE /\ parts' = Append(parts, b)
                /\ UNCHANGED <<doing, composition, merged, deps, next, composed, output>>

AllRead ==
    /\ doing = "read" /\ Len(parts) = Len(composition.sources)
    /\ doing' = "merge"
    /\ UNCHANGED <<composition, parts, merged, deps, next, composed, output>>

\* What list holds of ref r.
FirstIn(list, r) ==
    list[CHOOSE i \in DOMAIN list : list[i].ref = r /\ \A k \in 1..(i - 1) : list[k].ref # r]

\* The last source gives the component.  No behaviour of the specification has it.
Add_Last(components, list, source) ==
    [r \in DOMAIN components \cup RefsOf(list) |->
        IF r \notin RefsOf(list) THEN components[r]
        ELSE [first |-> FirstIn(list, r),
              sources |-> {source} \cup
                  IF r \in DOMAIN components THEN components[r].sources ELSE {}]]

\* merger.add: the first source to list a ref gives its component.
Add(components, list, source) ==
    [r \in DOMAIN components \cup RefsOf(list) |->
        IF r \notin RefsOf(list) THEN components[r]
        ELSE IF r \in DOMAIN components
             THEN [first |-> components[r].first, sources |-> components[r].sources \cup {source}]
             ELSE [first |-> FirstIn(list, r), sources |-> {source}]]

\* conflict: two that list one purl disagree on what it is.
Conflict(components, list) ==
    \E i \in DOMAIN list :
        \/ list[i].ref \in DOMAIN components /\ components[list[i].ref].first.id # list[i].id
        \/ \E k \in 1..(i - 1) : list[k].ref = list[i].ref /\ list[k].id # list[i].id

\* merger.depend, for an entry of each of refs.
Depend(edges, refs, on) ==
    [r \in DOMAIN edges \cup refs |->
        (IF r \in DOMAIN edges THEN edges[r] ELSE {}) \cup IF r \in refs THEN on[r] ELSE {}]

DependAll(edges, refs, on) == Depend(edges, refs, [r \in refs |-> on])

\* The composition depends on the part's root, or, when that is not packaged,
\* on each of its components; the root's own edges are then dropped.
MergePart ==
    /\ doing = "merge" /\ next <= Len(parts)
    /\ LET b == parts[next]
           unioned == Depend(deps, DOMAIN b.deps, b.deps)
           dropped == Restrict(unioned, DOMAIN unioned \ {b.root})
       IN
        IF ~ValidGenerated(b) \/ Conflict(merged, b.lists) THEN Refuse
        ELSE /\ merged' = Add(merged, b.lists, composition.sources[next].name)
             /\ deps' = CASE Packages(b, b.root) -> DependAll(unioned, {composition.root}, {b.root})
                          [] b.lists = <<>> -> dropped
                          [] OTHER -> DependAll(dropped, {composition.root}, RefsOf(b.lists))
             /\ next' = next + 1
             /\ UNCHANGED <<doing, composition, parts, composed, output>>

\* The composition's own components, and the composed SBOM, which must itself
\* follow the rules: sorted and dependencies give it in one order.
Compose ==
    /\ doing = "merge" /\ next > Len(parts)
    /\ LET own == composition.own
           all == Add(merged, own, Extra)
           edges == IF own = <<>> THEN deps ELSE DependAll(deps, {composition.root}, RefsOf(own))
           refs == SetToSeq(DOMAIN all)
           bom == [root |-> composition.root, proper |-> TRUE, deps |-> edges,
                   lists |-> [i \in DOMAIN refs |-> all[refs[i]].first]]
       IN
        IF Conflict(merged, own) \/ ~ValidGenerated(bom) THEN Refuse
        ELSE /\ composed' = [components |-> all, deps |-> edges]
             /\ doing' = "create"
             /\ UNCHANGED <<composition, parts, merged, deps, next, output>>

\* The output file is emptied, and written: either may fail.
CreateOutput ==
    /\ doing = "create"
    /\ doing' = "write" /\ output' = "empty"
    /\ UNCHANGED <<composition, parts, merged, deps, next, composed>>

WriteOutput ==
    /\ doing = "write"
    /\ doing' = "composed" /\ output' = "new"
    /\ UNCHANGED <<composition, parts, merged, deps, next, composed>>

FailOutput ==
    /\ doing \in {"create", "write"}
    /\ doing' = "failed"
    /\ UNCHANGED <<composition, parts, merged, deps, next, composed, output>>

ComposeNext ==
    \/ \E c \in Composition : Load(c)
    \/ FindSBOMPlugins
    \/ \E s \in Medium \cup File : \E b \in Gives[s] : SourceSBOM(b)
    \/ AllRead \/ MergePart \/ Compose \/ CreateOutput \/ WriteOutput \/ FailOutput

-----------------------------------------------------------------------------
(* Properties.                                                             *)

\* All that is listed: by each part, and by the composition itself.
Lists == [i \in DOMAIN parts |-> [name |-> composition.sources[i].name, list |-> parts[i].lists]]
            \o <<[name |-> Extra, list |-> composition.own]>>

ListedRefs == UNION {RefsOf(Lists[i].list) : i \in DOMAIN Lists}

Unpackaged(b) == ~Packages(b, b.root)

EdgesOf(d) == UNION {{<<r, o>> : o \in d[r]} : r \in DOMAIN d}

\* The edges of part b that the composed SBOM keeps.
KeptEdges(b) ==
    EdgesOf(Restrict(b.deps, DOMAIN b.deps \ (IF Unpackaged(b) THEN {b.root} ELSE {})))

\* What the composition depends on part b for.
Needs(b) == IF Unpackaged(b) THEN RefsOf(b.lists) ELSE {b.root}

Arrows(x, on) == {<<x, o>> : o \in on}

\* The edges that merging part i adds.
GivenBy(i) == KeptEdges(parts[i]) \cup Arrows(composition.root, Needs(parts[i]))

\* Part k drops all edges from a root that it does not package, whoever gave them.
Drops(k, r) == Unpackaged(parts[k]) /\ parts[k].root = r

\* What is left of them after the first n parts: a part drops those of the parts
\* before it, and not those that it adds itself or that come after it.
EdgesTo(n) ==
    UNION {{e \in GivenBy(i) : \A k \in (i + 1)..n : ~Drops(k, e[1])} : i \in 1..n}

OwnEdges == Arrows(composition.root, RefsOf(composition.own))

LastingEdges == EdgesTo(Len(parts)) \cup OwnEdges

Agree ==
    \A i, k \in DOMAIN Lists : \A a \in DOMAIN Lists[i].list, b \in DOMAIN Lists[k].list :
        Lists[i].list[a].ref = Lists[k].list[b].ref => Lists[i].list[a].id = Lists[k].list[b].id

\* The first to list r, and all that do.
Listing(r) == {i \in DOMAIN Lists : r \in RefsOf(Lists[i].list)}
FirstOf(r) == FirstIn(Lists[Min(Listing(r))].list, r)

\* The composed SBOM is what Merge's comment says, whatever its sources are, but
\* for the edges of roots that are not packaged: each component listed anywhere,
\* once, from the first source, with all its sources, and the lasting edges.
IsComposed ==
    /\ DOMAIN composed.components = ListedRefs
    /\ \A r \in ListedRefs :
        /\ composed.components[r].first = FirstOf(r)
        /\ composed.components[r].sources = {Lists[i].name : i \in Listing(r)}
    /\ EdgesOf(composed.deps) = LastingEdges

\* Nothing but a broken rule, or sources that disagree, keeps one from being made.
Mergeable ==
    /\ \A i \in DOMAIN parts : ValidGenerated(parts[i])
    /\ Agree
    /\ \A r \in ListedRefs : FirstOf(r).proper
    /\ UNION {{e[1], e[2]} : e \in LastingEdges} \subseteq ListedRefs \cup {composition.root}

\* "The same parts and components always give the same SBOM", in whatever order
\* the maps are walked: merging step by step composes just what the composition
\* and its parts say in their order, or refuses when they break a rule or
\* disagree, and a refused composition leaves the file it was to write as it was.
\* No case is set aside: a part whose root another part packages, or whose root
\* is the composition's, drops the edges that were there and none that follow.
ComposesExactly ==
    /\ composed # None => Mergeable /\ IsComposed
    /\ doing = "refused" =>
        /\ output = "old"
        /\ composition # None /\ Len(parts) = Len(composition.sources) => ~Mergeable

\* "dependencies are every part's, unioned per ref" (compose.go:180): the edges of
\* a component that one part packages are there also when another part has it as
\* a root that it does not package.  Which of the two comes first decides
\* (compose.go:222), so this does not hold.
EdgesUnioned ==
    composed # None =>
        EdgesOf(composed.deps) = (UNION {GivenBy(i) : i \in DOMAIN parts}) \cup OwnEdges

\* A composition that is not written in full leaves the file as it was.
OutputKept == doing \in {"refused", "failed"} => output = "old"

=============================================================================

----------------------------- MODULE MCPacking -----------------------------
(* The instances of Packing, and so of Compose, that TLC checks.            *)
EXTENDS Packing

CONSTANTS
    top, amd, arm, twin, pinned, tool, clash, model,  \* purls
    id1, id2, rest1, rest2,                           \* components' fields
    mA, mB, mC, bA, bB, bC, note, x, y, w, link,              \* contents
    oci, gen, lost,                                   \* media; lost has no plugin
    file                                              \* an SBOM file

-----------------------------------------------------------------------------
(* Compositions.                                                           *)

Is(ref, id, rest) == [ref |-> ref, id |-> id, rest |-> rest, proper |-> TRUE]
Nested(ref) == [ref |-> ref, id |-> id1, rest |-> rest1, proper |-> FALSE]
SBOM(root, lists, d) == [root |-> root, lists |-> lists, deps |-> d, proper |-> TRUE]
From(name, medium) == [name |-> name, medium |-> medium, sbom |-> None]
Read(name, given) == [name |-> name, medium |-> None, sbom |-> given]

\* An image's two platforms, of a root that is not packaged; a tool that is its own
\* root and needs the image; and what breaks a rule or disagrees.
SomeGives ==
    (oci :> {SBOM(clash, <<Is(amd, id1, rest1), Is(arm, id1, rest1)>>,
                  (amd :> {arm}) @@ (clash :> {amd})),
             SBOM(top, <<Is(arm, id1, rest1)>>, top :> {arm}),
             SBOM(clash, <<>>, <<>>),
             SBOM(clash, <<Is(arm, id1, rest1)>>, arm :> {clash})})
    @@ (gen :> {SBOM(tool, <<Is(tool, id1, rest1), Is(amd, id1, rest2)>>, tool :> {amd}),
                SBOM(tool, <<Is(tool, id1, rest1), Is(amd, id2, rest1)>>, tool :> {}),
                SBOM(tool, <<Nested(tool)>>, <<>>)})
    @@ (lost :> {})
    @@ (file :> {None, SBOM(clash, <<Is(clash, id1, rest1), Is(amd, id1, rest2)>>, clash :> {amd}),
                 SBOM(tool, <<Nested(tool)>>, <<>>)})

Composed(sources, own) == [root |-> top, sources |-> sources, own |-> own]

SomeCompositions ==
    {Composed(<<From("a", oci), From("b", gen)>>, <<>>),
     Composed(<<From("b", gen), From("a", oci)>>, <<Is(arm, id1, rest2)>>),
     Composed(<<From("a", oci), Read("c", file)>>, <<Is(clash, id1, rest2)>>),
     Composed(<<Read("c", file), From("a", oci)>>, <<>>),
     Composed(<<From("a", oci)>>, <<Nested(tool)>>),
     Composed(<<From("a", oci), From("d", lost)>>, <<>>),
     Composed(<<From("a", oci), From("a", gen)>>, <<>>),
     Composed(<<From("components", gen)>>, <<>>),
     Composed(<<>>, <<>>)}

-----------------------------------------------------------------------------
(* Components.                                                             *)

SomeRefers == [d \in Content |-> CASE d = mA -> {bA} [] d = mB -> {bB} [] d = mC -> {bC} [] OTHER -> {}]

\* An image's layout holds its manifest, or just its layer, and a note beside them.
SomeDirs ==
    (amd :> ("blob" :> bA @@ "manifest" :> mA @@ "note" :> note))
    @@ (arm :> ("blob" :> bB @@ "note" :> note))
    @@ (twin :> ("blob" :> bA @@ "manifest" :> mA))
    @@ (pinned :> ("blob" :> bA @@ "manifest" :> mA))
    @@ (tool :> ("blob" :> x @@ "note" :> y))
    @@ (clash :> ("blob" :> x))
    @@ (model :> ("blob" :> y))
    @@ (top :> None)

FileBlob(path) == [path |-> path, data |-> None, says |-> None, manifest |-> FALSE]
FileManifest(path) == [FileBlob(path) EXCEPT !.manifest = TRUE]
Inline(data) == [path |-> None, data |-> data, says |-> None, manifest |-> TRUE]
Pack(manifest, blobs) == [manifest |-> manifest, blobs |-> blobs]

FromLayout == Pack(FileManifest("manifest"), <<FileBlob("blob")>>)
Wrong(manifest, digest) == Pack(Inline(manifest), <<[FileBlob("blob") EXCEPT !.says = digest]>>)

SomeAnswers ==
    (amd :> {FromLayout}) @@ (twin :> {FromLayout}) @@ (pinned :> {FromLayout})
    @@ (arm :> {Pack(Inline(mB), <<FileBlob("blob")>>), Wrong(mC, bC)})
    @@ (tool :> {None, Pack(None, <<FileBlob("blob")>>)})
    @@ (clash :> {None}) @@ (model :> {None}) @@ (top :> {None})

SomeSegments ==
    ("oci" :> "oci") @@ ("App" :> "app") @@ ("app" :> "app")
    @@ ("generic" :> "generic") @@ ("+" :> None)

SomeTags == ("1.0+a" :> "1.0_a") @@ ("1.0_a" :> "1.0_a") @@ ("" :> "latest") @@ ("!" :> None)

Image(name, version, tag, pin, platform, rest) ==
    [segments |-> <<"oci", name>>, version |-> version, image |-> TRUE, tag |-> tag,
     pinned |-> pin, platform |-> platform, unqualified |-> rest]

Generic(name, version, rest) ==
    [segments |-> <<"generic", name>>, version |-> version, image |-> FALSE, tag |-> None,
     pinned |-> None, platform |-> None, unqualified |-> rest]

SomePurls ==
    (amd :> Image("app", "1.0+a", None, None, "amd64", "app"))
    @@ (arm :> Image("app", "1.0+a", None, None, "arm64", "app"))
    @@ (twin :> Image("App", "", "1.0_a", None, "amd64", "app-tag"))
    @@ (pinned :> Image("app", "", None, mA, None, "app-pinned"))
    @@ (tool :> Generic("app", "", "tool"))
    @@ (clash :> Generic("App", "", "clash"))
    @@ (model :> Generic("+", "!", "model"))
    @@ (top :> Generic("app", "!", "top"))

SomeLists ==
    {<<amd, arm, twin, amd>>, <<tool, clash, model>>, <<pinned, tool>>, <<top>>}

=============================================================================

SPECIFICATION Spec
CONSTANTS
    top = top
    amd = amd
    arm = arm
    twin = twin
    pinned = pinned
    tool = tool
    clash = clash
    model = model
    id1 = id1
    id2 = id2
    rest1 = rest1
    rest2 = rest2
    mA = mA
    mB = mB
    mC = mC
    bA = bA
    bB = bB
    bC = bC
    note = note
    x = x
    y = y
    w = w
    link = link
    oci = oci
    gen = gen
    lost = lost
    file = file
    None = None
    Ref = {top, amd, arm, twin, pinned, tool, clash, model}
    Identity = {id1, id2}
    Rest = {rest1, rest2}
    Name = {"a", "b", "c", "d", "components"}
    Extra = "components"
    Medium = {oci, gen, lost}
    Installed = {oci, gen}
    File = {file}
    Gives <- SomeGives
    Composition <- SomeCompositions
    Path = {"blob", "manifest", "note"}
    Content = {mA, mB, mC, bA, bB, bC, note, x, y, w, link}
    Link = link
    Refers <- SomeRefers
    Dirs <- SomeDirs
    Answers <- SomeAnswers
    Faithful = TRUE
    Models = {model}
    Purl <- SomePurls
    Segment <- SomeSegments
    VersionTag <- SomeTags
    Handwritten <- SomeLists
    Rewrites = {w, link}
    Concurrency = 2
    MaxPushes = 2
    MaxRewrites = 1
CHECK_DEADLOCK FALSE
INVARIANTS ComposesExactly PackedWhole SitesTell

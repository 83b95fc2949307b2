SPECIFICATION Spec
CONSTANTS
    s1 = s1
    s2 = s2
    s3 = s3
    s4 = s4
    c1 = c1
    c2 = c2
    h1 = h1
    h2 = h2
    p1 = p1
    p2 = p2
    p3 = p3
    p4 = p4
    p5 = p5
    t1 = t1
    t2 = t2
    Proc = {p1, p2, p3, p4, p5}
    SBOM = {s1, s2, s3, s4}
    Purl = {c1, c2}
    Tag = {t1, t2}
    Hash = {h1, h2}
    None = None
    Describes <- Nested
    Declares <- OneDeclares
    Source <- Reproducible
    Packaged <- PackagedAlike
    Plans <- BuildsAtOnce
PROPERTIES OthersTagsKept
CHECK_DEADLOCK FALSE

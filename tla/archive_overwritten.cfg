SPECIFICATION Spec
VIEW Told
CONSTANTS
    s1 = s1
    s2 = s2
    s3 = s3
    b1 = b1
    b2 = b2
    c1 = c1
    c2 = c2
    f1 = f1
    f2 = f2
    f3 = f3
    t1 = t1
    t2 = t2
    k0 = k0
    k1 = k1
    k2 = k2
    g1 = g1
    g2 = g2
    x1 = x1
    v1 = v1
    v2 = v2
    d1 = d1
    d2 = d2
    a1 = a1
    a2 = a2
    a3 = a3
    None = None
    Puller = {p1}
    Package = {s1, s2, s3}
    SBOM = {b1, b2}
    Purl = {c1, c2}
    File = {f1, f2, f3}
    Tag = {t1, t2}
    Key = {k0, k1, k2}
    Signer = {g1, g2}
    Scanner = {x1}
    Vuln = {v1, v2}
    Document = {d1, d2}
    Content <- ThreePackages
    Lists <- TwoBills
    Trusts <- OwnKey
    Severity <- Severities
    Says <- TwoDocuments
    Results <- Finds
    Publishable <- Attachments
    Signable <- Signings
    TrustRule <- BothOfTwo
    ScanRule <- ScanOnPull
    Jobs <- FewJobs
    MayFail = TRUE
    Beginnings <- Repositories
    Saver = {a1}
    Cosigner = {a2}
    Saves <- Stores
    KeyOf <- OwnKeys
    Order <- ByName
    Archives <- Before
    MaxPulls = 1
    MaxChanges = 2
PROPERTIES OverwrittenWhole
CHECK_DEADLOCK FALSE

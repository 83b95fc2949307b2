SPECIFICATION Spec
CONSTANTS
    verifier = verifier
    oci = oci
    old = old
    v1 = v1
    o1 = o1
    o2 = o2
    both = both
    stale = stale
    mixed = mixed
    other = other
    latest = latest
    alice = alice
    None = None
    Proc = {p1, p2}
    Newest = 2
    MaxOverlaps = 1
    Kind = {verifier, oci}
    Verifier = verifier
    Binary = {old, v1, o1, o2}
    Speaks = {v1}
    Package = {both, stale, mixed, other}
    Parts <- SomeParts
    Signer = {alice}
    SignedBy <- SomeSigned
    Tag = {latest}
    TrustRule <- SomeRules
    Jobs <- SomeJobs
    MaxRetags = 1
INVARIANTS RecordsMatch OlderKeptOut
PROPERTIES NothingIfStopped OwnAccepted

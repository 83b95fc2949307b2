SPECIFICATION Spec
CONSTANTS
    s1 = s1
    s2 = s2
    s3 = s3
    c1 = c1
    c2 = c2
    c3 = c3
    b1 = b1
    b2 = b2
    b3 = b3
    x1 = x1
    x2 = x2
    t1 = t1
    d1 = d1
    d2 = d2
    g1 = g1
    g2 = g2
    Pusher = {p1}
    Package = {s1, s2, s3}
    Component = {c1, c2, c3}
    Blob = {b1, b2, b3}
    Site = {x1, x2}
    Tag = {t1}
    Document = {d1, d2}
    Signer = {g1, g2}
    None = None
    Holds <- SharedComponent
    Layers <- SharedBlob
    Members <- TwoPlatforms
    Pinned = {x2}
    Unplaced = {s3}
    Jobs <- CoSigned
    MayStop = TRUE
    Overlap = FALSE
    MaxPushes = 2
INVARIANTS DocumentsSigned
CHECK_DEADLOCK FALSE

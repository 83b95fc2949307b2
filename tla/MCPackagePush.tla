---------------------------- MODULE MCPackagePush ----------------------------
(* Packages of two components each, one of them shared; the two components   *)
(* of the first are platforms of one image, at one site.  No site can take   *)
(* the components of the third.                                              *)
EXTENDS PackagePush, TLC

CONSTANTS s1, s2, s3, c1, c2, c3, b1, b2, b3, x1, x2, t1, d1, d2, g1, g2

SharedComponent == [s \in Package |-> IF s = s1 THEN {c1, c2} ELSE {c1, c3}]

SharedBlob == [c \in Component |-> CASE c = c1 -> {b1, b2} [] c = c2 -> {b2} [] c = c3 -> {b3}]

TwoPlatforms ==
    [s \in Package |-> [x \in Site |->
        IF x = x1 THEN SharedComponent[s] \ {c3} ELSE SharedComponent[s] \cap {c3}]]

Job(s, signers, documents, scan, provenance, places) ==
    [package |-> s, tag |-> t1, signers |-> signers, documents |-> documents,
     scan |-> scan, provenance |-> provenance, places |-> places, keep |-> 1]

\* Pushers are interchangeable.
Symmetric == Permutations(Pusher)

\* Pushes of either package, signed and not, of older and newer scans.
OneOfEach ==
    {Job(s1, {g1}, {d1}, 1, TRUE, TRUE), Job(s1, {}, {}, 2, TRUE, FALSE),
     Job(s2, {g1}, {}, 0, FALSE, TRUE)}

\* One package, co-signed, with two documents, or of a newer scan, or one that
\* no site can take.
CoSigned ==
    {Job(s1, {g1, g2}, {d1, d2}, 1, TRUE, FALSE), Job(s1, {g1}, {d1}, 2, FALSE, FALSE),
     Job(s3, {g1}, {}, 1, FALSE, TRUE)}

AllJobs == OneOfEach \cup CoSigned

\* push: every pusher pushes once, at the same time.
AtOnce ==
    \A p \in Pusher :
        job[p] # NoJob => pushes[p] = 1 /\ job[p] \in OneOfEach

\* push: one pusher pushes again and again.
Again ==
    \E p \in Pusher :
        /\ job[p] \in CoSigned \cup {NoJob}
        /\ \A q \in Pusher \ {p} : pushes[q] = 0

PlanSpec == Init /\ [][Next /\ (AtOnce \/ Again)']_vars

=============================================================================

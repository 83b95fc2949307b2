------------------------------ MODULE MCDataDir ------------------------------
(* Packages that share a component.                                          *)
EXTENDS DataDir, TLC

CONSTANTS s1, s2, s3, s4, c1, c2, h1, h2, p1, p2, p3, p4, p5, t1, t2

\* All share c1, and s2 has one more.
Nested == [s \in SBOM |-> IF s = s2 THEN {c1, c2} ELSE {c1}]

\* A source serves the content that s1 declares, and others do not; or what it
\* serves changes under the same purl.
Reproducible == [c \in Purl |-> {h1}]
Drifting == [c \in Purl |-> {h1, h2}]
PackagedAlike == [s \in SBOM |-> [c \in Purl |-> h1]]
OneDeclares == [s \in SBOM |-> [c \in Purl |-> IF s = s1 THEN h1 ELSE None]]

\* Processes are alike: one order of their first steps stands for all.
Ordered == (p1 :> {} @@ p2 :> {p1} @@ p3 :> {p1, p2} @@ p4 :> {p1, p2, p3}
            @@ p5 :> {p1, p2, p3, p4})

Five == {p1, p2, p3, p4, p5}
Four == {p1, p2, p3, p4}
Three == {p1, p2, p3}
Two == {p1, p2}

Plan(procs, commands, sboms, tags, faults, overlap) ==
    [procs |-> procs, commands |-> commands, sboms |-> sboms, tags |-> tags,
     faults |-> faults, overlap |-> overlap, before |-> [p \in Proc |-> Ordered[p]]]

-----------------------------------------------------------------------------
\* Any four commands in turn, some of which fail; four builds, removals and prunes
\* of two packages, or five of one, of which any may be killed; or three of any
\* kind that are killed at any moment and whose plugins survive.
InTurnPlans ==
    {Plan(Four, CommandKinds, {s1, s2}, {t1, t2}, {"fetch", "refuse"}, FALSE),
     Plan(Four, {"build", "remove", "prune"}, {s1, s2}, {t1}, {"crash"}, FALSE),
     Plan(Five, {"build", "remove", "prune"}, {s1}, {t1}, {"crash"}, FALSE),
     Plan(Three, CommandKinds, {s1}, {t1}, {"crash", "taking", "reclaiming", "orphan", "fetch"}, FALSE)}

\* Builds at once of packages of one component, builds in turn of which any may be
\* killed, or two pulls at once of packages that share a component.
AtOncePlans ==
    {Plan(Three, {"build"}, {s3}, {t1}, {}, TRUE),
     Plan(Two, {"build"}, {s3, s4}, {t1}, {"exit", "fetch"}, TRUE),
     Plan(Three, {"build", "remove"}, {s3}, {t1}, {"crash"}, FALSE),
     Plan(Two, {"pull"}, {s1, s2}, {t1}, {"fetch"}, TRUE)}

-----------------------------------------------------------------------------
(* Plans with which what the code's comments or its readers may expect does   *)
(* not hold.                                                                  *)
Few(procs, commands, faults, overlap) == Plan(procs, commands, {s1}, {t1}, faults, overlap)

CrashedBuildAndPull == {Few(Two, {"build", "pull"}, {"crash"}, FALSE)}

BuildsAtOnce == {Plan(Two, {"build"}, {s1}, {t1, t2}, {}, TRUE)}

CrashedRemovals == {Few(Four, {"build", "remove", "prune"}, {"crash"}, FALSE)}

CrashedPrunes == {Few(Four, {"build", "prune"}, {"crash", "reclaiming"}, FALSE)}

PrunesAtOnce ==
    {Few(Two, {"build", "prune"}, {}, TRUE), Few(Two, {"pull", "prune"}, {}, TRUE),
     Few(Three, {"build", "prune"}, {"crash"}, TRUE)}

BuildsAndPulls == {Plan(Two, {"build", "pull"}, {s2}, {t1}, {}, FALSE)}

=============================================================================

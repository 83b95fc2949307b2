-------------------------- MODULE MCPluginInstall --------------------------
(* The instances of PluginInstall, and so of LayoutVersion, that TLC checks. *)
EXTENDS PluginInstall, TLC

CONSTANTS
    verifier, oci,              \* two kinds of plugins
    old, v1, o1, o2,            \* their binaries; old speaks an older contract
    both, stale, mixed, other,  \* packages
    latest,                     \* a tag
    alice                       \* a signer

Entry(kind, here, contracts, declared, binary) ==
    [kind |-> kind, here |-> here, contracts |-> contracts,
     declared |-> declared, binary |-> binary]

\* A package of two plugins, an older verifier's, one with a binary that is not
\* what its SBOM declares, and one of another binary, for two platforms.
SomeParts ==
    [k \in Package |->
        CASE k = both -> {Entry(verifier, TRUE, "fit", v1, v1), Entry(oci, TRUE, "fit", o1, o1)}
          [] k = stale -> {Entry(verifier, TRUE, "fit", old, old)}
          [] k = mixed -> {Entry(verifier, TRUE, "fit", v1, v1), Entry(oci, TRUE, "fit", o1, o2)}
          [] k = other -> {Entry(oci, TRUE, "fit", None, o2), Entry(oci, FALSE, "unfit", o1, o1)}]

SomeSigned == [k \in Package |-> IF k \in {both, mixed} THEN {alice} ELSE {}]

\* A trust rule covers the tag's repository, and the packages in it.
SomeRules == [r \in Ref |-> IF r \in {latest, both} THEN alice ELSE None]

Ask(ref, verify, option) == [ref |-> ref, verify |-> verify, option |-> option]

SomeJobs ==
    {Ask(latest, TRUE, None), Ask(both, TRUE, None), Ask(stale, TRUE, None),
     Ask(latest, FALSE, None), Ask(mixed, TRUE, alice)}

Symmetric == Permutations(Proc)

=============================================================================

---------------------------- MODULE MCPackagePull ----------------------------
(* Two packages that share a component; s1 may be signed by both signers,    *)
(* s2 by one of them.  A third's index names a component twice.              *)
EXTENDS Archive

CONSTANTS s1, s2, s3, b1, b2, c1, c2, f1, f2, f3, t1, t2, k0, k1, k2, g1, g2, x1, v1, v2, d1, d2, a1, a2, a3

ThreePackages ==
    [s \in Package |->
        [sboms |-> 1, sbom |-> IF s = s1 THEN b1 ELSE b2, mapped |-> TRUE,
         entries |-> CASE s = s1 -> <<c1, c2>> [] s = s2 -> <<c1>> [] s = s3 -> <<c1, c1>>,
         files |-> [u \in Purl |-> IF u = c1 THEN {f1, f2} ELSE {f3}],
         laid |-> Purl]]

TwoBills == [b \in SBOM |-> IF b = b1 THEN {c1, c2} ELSE {c1}]

\* Both signers trust k0.
OwnKey == [g \in Signer |-> {k0, IF g = g1 THEN k1 ELSE k2}]

Severities == [v \in Vuln |-> IF v = v1 THEN 1 ELSE 2]

\* d1 exempts both vulnerabilities, and d2 says that v2 does affect.
TwoDocuments ==
    [d \in Document |-> [v \in Vuln |->
        IF d = d1 THEN "exempt" ELSE IF v = v2 THEN "affected" ELSE "silent"]]

Finds == {{}, {v2}, {None}}

Referrer(kind, s, what, about, key, age) ==
    [kind |-> kind, of |-> s, what |-> what, about |-> about, key |-> key, age |-> age]

Vex1 == Referrer("vex", s1, d1, None, None, 1)
Vex2 == Referrer("vex", s1, d2, None, None, 2)
Old == Referrer("reports", s1, 1, None, None, 1)
New == Referrer("reports", s1, 2, None, None, 2)

\* An attestation of s1 by a trusted key, and one about s2 that was put on s1.
Proof == Referrer("provenance", s1, None, s1, k1, 1)
Stray == Referrer("provenance", s1, None, s2, k1, 2)

Attachments == {Vex1, Vex2, Old, New, Proof, Stray}

By(key, n) == [of |-> n, key |-> key]

Signings == {By(k1, Index(s1)), By(k2, Index(s1)), By(k1, Index(s2)),
             By(k0, Vex1), By(k0, Vex2), By(k0, New)}

OneTag(s) == [t \in Tag |-> IF t = t1 THEN s ELSE None]

\* Nothing, nothing published but the packages, or all of it, with its signatures or
\* with those of the packages alone.
Repositories ==
    {Nothing} \cup
    [tags : {OneTag(s1)}, referrers : {{}}, signatures : {{}}]
        \cup [tags : {OneTag(s1), OneTag(s2)}, referrers : {Attachments},
              signatures : {Signings, {sig \in Signings : sig.of.kind = "index"}}]

PullOf(ref) ==
    [from |-> "repository", ref |-> ref, skipVerify |-> FALSE, verify |-> None, provenance |-> FALSE,
     scanners |-> {}, failOn |-> 0, unscanned |-> FALSE, skipScan |-> FALSE,
     only |-> None, replace |-> FALSE]

BothOfTwo == [signers |-> {g1, g2}, require |-> 0, provenance |-> TRUE]

ScanOnPull == [scanners |-> {x1}, failOn |-> 2, unscanned |-> FALSE, vex |-> <<>>]

\* Under the rules; by digest, with one signer's word, scanned on flags; of one
\* component, into a directory that may be replaced or not; unverified.  An archive
\* under the rule that scans.
FewJobs ==
    {PullOf(t1),
     [PullOf(s1) EXCEPT !.verify = g2, !.scanners = {x1}, !.unscanned = TRUE],
     [PullOf(t1) EXCEPT !.only = c1, !.verify = g1],
     [PullOf(t1) EXCEPT !.only = c2, !.replace = TRUE, !.skipVerify = TRUE],
     [PullOf(t1) EXCEPT !.skipVerify = TRUE, !.failOn = 1],
     [PullOf(s3) EXCEPT !.skipVerify = TRUE],
     [PullOf(None) EXCEPT !.from = "archive", !.verify = g1]}

\* Two packages, one with all that push attaches; or the other alone.
Both == [tags |-> [t \in Tag |-> IF t = t1 THEN s1 ELSE s2], referrers |-> {Vex1, New},
         signatures |->
             {By(k1, Index(s1)), By(k1, Index(s2)), By(k0, Vex1), By(k0, New)}]

One == [tags |-> OneTag(s2), referrers |-> {}, signatures |-> {By(k1, Index(s2))}]

Stores == {Both}

Before == {None, One}

OwnKeys == [a \in Cosigner |-> IF a = a2 THEN k2 ELSE k1]

\* Reports and documents first, so that a truncated archive may lack a package.
ByName ==
    <<New, Vex1, By(k0, Vex1), By(k1, Vex1), By(k2, Vex1), By(k0, New), By(k1, New),
      By(k2, New), s2, s1, By(k1, Index(s1)), By(k2, Index(s1)), By(k1, Index(s2)),
      By(k2, Index(s2))>>

\* States tell archives apart only as long as a load may still read one.
Told == <<vars, IF Awaited \/ ~Archiving THEN archives ELSE <<>>>>

=============================================================================

--------------------------- MODULE PluginInstall ---------------------------
(***************************************************************************)
(* "bomify plugin install" (cmd/plugin.go, internal/plugin/install): what  *)
(* must vouch for a package of plugin binaries, the checks on each binary, *)
(* and the binaries and their record put in place.  Every command opens    *)
(* the data directory first, as LayoutVersion has it.                      *)
(*                                                                         *)
(* One of the plugins is the verifier that later installs ask about        *)
(* signatures, so an install may replace what another one relies on.  No   *)
(* lock is taken, and a process may stop between any two steps.            *)
(***************************************************************************)
EXTENDS LayoutVersion

CONSTANTS
    Kind,         \* the kinds of plugins
    Verifier,     \* the kind that verifies signatures, and
    Binary,       \* the plugins' binaries
    Speaks,       \* those that speak the signing contract this bomify needs
    Package,      \* what a registry holds, by digest
    Parts,        \* the components each package's SBOM describes
    Signer,       \* whose signatures a package may carry
    SignedBy,     \* and carries
    Tag,          \* references by tag, which a publisher may move
    TrustRule,    \* the signer the trust rule for a reference names, or None
    Jobs,         \* the installs that are asked for
    None,         \* no binary, no record, no signer
    MaxRetags     \* bound: how often a tag is moved

Ref == Tag \cup Package

\* A component for this machine or another one (here), with the contracts it
\* records and the SHA-256 it declares, and the file its layer has.
\* A kind of None is a purl that does not parse.
Part ==
    [kind : Kind \cup {None}, here : BOOLEAN, contracts : {"none", "unfit", "fit"},
     declared : Binary \cup {None}, binary : Binary \cup {None}]

\* A signer given by --verify-option, or None; verify is FALSE for --verify=false.
JobType == [ref : Ref, verify : BOOLEAN, option : Signer \cup {None}]

Record == [reference : Ref, sha256 : Binary]

ASSUME InstallAssumption ==
    /\ Verifier \in Kind
    /\ Speaks \subseteq Binary
    /\ Parts \in [Package -> SUBSET Part]
    /\ SignedBy \in [Package -> SUBSET Signer]
    /\ TrustRule \in [Ref -> Signer \cup {None}]
    /\ Jobs \subseteq JobType
    /\ None \notin Kind \cup Binary \cup Signer \cup Package \cup Record \cup Jobs
    /\ Tag \cap Package = {}
    /\ MaxRetags \in Nat

VARIABLES
    tags,       \* the package each tag names
    bin,        \* the binary of each kind in plugins/, or None
    index,      \* installed.json: the record of each kind, or None
    job,        \* what each process was asked to install, or None
    signer,     \* whose signature it requires, or None
    package,    \* the package its reference named, or None
    staged,     \* the components whose binaries it has yet to move into place
    records,    \* the index it is to write
    torn,       \* kinds replaced by an install that has yet to record them
    retags      \* how often a tag was moved

installed == <<bin, index, torn>>
mine == <<job, signer, package, staged, records>>
installVars == <<tags, installed, mine, retags>>
vars == <<layoutVars, installVars>>

Installing == {"resolve", "verify", "fetch", "read_index", "place", "write_index"}

NoRecords == [k \in Kind |-> None]

InstallTypeOK ==
    /\ tags \in [Tag -> Package]
    /\ bin \in [Kind -> Binary \cup {None}]
    /\ index \in [Kind -> Record \cup {None}]
    /\ job \in [Proc -> Jobs \cup {None}]
    /\ signer \in [Proc -> Signer \cup {None}]
    /\ package \in [Proc -> Package \cup {None}]
    /\ staged \in [Proc -> SUBSET Part]
    /\ records \in [Proc -> [Kind -> Record \cup {None}]]
    /\ at \in [Proc -> Checking \cup Installing \cup {"idle", "using"}]
    /\ torn \in SUBSET Kind
    /\ retags \in 0..MaxRetags

Init ==
    /\ LayoutInit
    /\ tags \in [Tag -> Package]
    /\ bin = [k \in Kind |-> None]
    /\ index = NoRecords
    /\ job = [p \in Proc |-> None]
    /\ signer = [p \in Proc |-> None]
    /\ package = [p \in Proc |-> None]
    /\ staged = [p \in Proc |-> {}]
    /\ records = [p \in Proc |-> NoRecords]
    /\ torn = {}
    /\ retags = 0

-----------------------------------------------------------------------------
(* What vouches for a package, and what its binaries are checked for.      *)

IsDigest(ref) == ref \in Package

\* plugin.Find: "not_installed", "incompatible" as it answers "contract", or "ok".
\* It is asked again once its file is replaced.
Found ==
    CASE bin[Verifier] = None -> "not_installed"
      [] bin[Verifier] \in Speaks -> "ok"
      [] OTHER -> "incompatible"

\* pluginInstallPolicy: whose signature is required of job j's package, None
\* when no signature is, or "refused", by the verifier that is in place.
Policy(j) ==
    CASE ~j.verify -> IF j.option = None THEN None ELSE "refused"
      [] j.verify /\ Found = "incompatible" ->
            IF j.option = None /\ IsDigest(j.ref) THEN None ELSE "refused"
      [] j.verify /\ Found # "incompatible" ->
            IF j.option # None THEN IF Found = "ok" THEN j.option ELSE "refused"
            ELSE IF TrustRule[j.ref] # None THEN TrustRule[j.ref]
            ELSE IF IsDigest(j.ref) THEN None ELSE "refused"

\* selectBinaries: the components for this machine, of package k.
Candidates(k) == {c \in Parts[k] : c.kind # None /\ c.here}

\* checkBinaryContracts: every contract the SBOM records for it is bomify's.
Compatible(c) == c.contracts = "fit"

\* verifyBinary: the file is there, and has the SHA-256 its SBOM declares, if any.
Verified(c, requireChecksum) ==
    /\ c.binary # None
    /\ c.declared = None => ~requireChecksum
    /\ c.declared \in {None, c.binary}

\* The package passes whole: every purl parses, and there is one binary of a
\* kind, and at least one, for this machine.
Sound(k, requireChecksum) ==
    /\ \A c \in Parts[k] : c.kind # None
    /\ Candidates(k) # {}
    /\ \A c \in Candidates(k) :
        /\ \A d \in Candidates(k) : c.kind = d.kind => c = d
        /\ Compatible(c) /\ Verified(c, requireChecksum)

-----------------------------------------------------------------------------
Proceed(p, label) == Goto(p, label) /\ UNCHANGED target

\* Process p's install ends.
Close(p) ==
    /\ Leave(p)
    /\ job' = [job EXCEPT ![p] = None]
    /\ signer' = [signer EXCEPT ![p] = None]
    /\ package' = [package EXCEPT ![p] = None]
    /\ staged' = [staged EXCEPT ![p] = {}]
    /\ records' = [records EXCEPT ![p] = NoRecords]

(* What some steps would be with a plausible bug, which a property would   *)
(* catch.  No behaviour of the specification takes these.                  *)

\* The index is written from scratch.
ReadIndex_Fresh(p) ==
    /\ at[p] = "read_index"
    /\ records' = [records EXCEPT ![p] = NoRecords]
    /\ Proceed(p, "place")
    /\ UNCHANGED <<tags, installed, job, signer, package, staged>>

\* It asks for the tag again once its package is verified.
Fetch_Again(p) ==
    /\ at[p] = "fetch"
    /\ LET k == IF IsDigest(job[p].ref) THEN job[p].ref ELSE tags[job[p].ref]
       IN  IF Sound(k, job[p].verify)
           THEN /\ package' = [package EXCEPT ![p] = k]
                /\ staged' = [staged EXCEPT ![p] = Candidates(k)]
                /\ Proceed(p, "read_index")
                /\ UNCHANGED <<job, signer, records>>
           ELSE Close(p)
    /\ UNCHANGED <<tags, installed>>

-----------------------------------------------------------------------------
(* The install.                                                            *)

\* The directory is open; the policy is chosen before the registry is asked.
Choose(p, j) ==
    /\ at[p] = "using"
    /\ IF Policy(j) = "refused"
       THEN Close(p) /\ UNCHANGED content
       ELSE /\ job' = [job EXCEPT ![p] = j]
            /\ signer' = [signer EXCEPT ![p] = Policy(j)]
            /\ Proceed(p, "resolve")
            /\ content' = TRUE
            /\ UNCHANGED <<package, staged, records>>
    /\ UNCHANGED <<tags, installed>>

\* fetchPackage resolves the reference, once.
Resolve(p) ==
    /\ at[p] = "resolve"
    /\ LET k == IF IsDigest(job[p].ref) THEN job[p].ref ELSE tags[job[p].ref]
       IN  package' = [package EXCEPT ![p] = k]
    /\ Proceed(p, IF signer[p] = None THEN "fetch" ELSE "verify")
    /\ UNCHANGED <<tags, installed, job, signer, staged, records>>

\* VerifySignature finds the verifier again: it may have been replaced.
Verify(p) ==
    /\ at[p] = "verify"
    /\ IF Found = "ok" /\ signer[p] \in SignedBy[package[p]]
       THEN Proceed(p, "fetch") /\ UNCHANGED mine
       ELSE Close(p)
    /\ UNCHANGED <<tags, installed>>

\* The binaries for this machine are downloaded and every one of them checked.
Fetch(p) ==
    /\ at[p] = "fetch"
    /\ IF Sound(package[p], job[p].verify)
       THEN /\ staged' = [staged EXCEPT ![p] = Candidates(package[p])]
            /\ Proceed(p, "read_index")
            /\ UNCHANGED <<job, signer, package, records>>
       ELSE Close(p)
    /\ UNCHANGED <<tags, installed>>

ReadIndex(p) ==
    /\ at[p] = "read_index"
    /\ records' = [records EXCEPT ![p] = index]
    /\ Proceed(p, "place")
    /\ UNCHANGED <<tags, installed, job, signer, package, staged>>

\* One binary is renamed into place.
Place(p, c) ==
    /\ at[p] = "place"
    /\ c \in staged[p]
    /\ bin' = [bin EXCEPT ![c.kind] = c.binary]
    /\ records' = [records EXCEPT ![p][c.kind] =
                       [reference |-> job[p].ref, sha256 |-> c.binary]]
    /\ staged' = [staged EXCEPT ![p] = @ \ {c}]
    /\ torn' = torn \cup {c.kind}
    /\ Proceed(p, IF staged[p] = {c} THEN "write_index" ELSE "place")
    /\ UNCHANGED <<tags, index, job, signer, package>>

WriteIndex(p) ==
    /\ at[p] = "write_index"
    /\ index' = records[p]
    /\ torn' = torn \ {c.kind : c \in Candidates(package[p])}
    /\ Close(p)
    /\ UNCHANGED <<tags, bin>>

\* A download, a rename or a write fails, or the process dies.
Stop(p) ==
    /\ at[p] \in Installing
    /\ Close(p)
    /\ UNCHANGED <<tags, installed>>

\* The publisher moves a tag.
Retag(t, k) ==
    /\ retags < MaxRetags
    /\ retags' = retags + 1
    /\ tags' = [tags EXCEPT ![t] = k]
    /\ UNCHANGED <<layoutVars, installed, mine>>

\* List: each kind of which there is a binary, with its record.
Listed == [b \in {k \in Kind : bin[k] # None} |-> index[b]]

Install(p) ==
    \/ Resolve(p) \/ Verify(p) \/ Fetch(p) \/ ReadIndex(p) \/ WriteIndex(p) \/ Stop(p)
    \/ \E c \in staged[p] : Place(p, c)

Next ==
    \/ \E p \in Proc :
        \/ CheckVersion(p) /\ UNCHANGED installVars
        \/ /\ \/ \E j \in Jobs : Choose(p, j)
              \/ Install(p) /\ UNCHANGED content
           /\ UNCHANGED <<version, level, half, temps, debris, overlaps, retags>>
    \/ \E t \in Tag, k \in Package : Retag(t, k)

Spec == Init /\ [][Next]_vars

-----------------------------------------------------------------------------
(* Properties.                                                             *)

TypeOK == LayoutTypeOK /\ InstallTypeOK

\* Something vouches for package k, which an install of j took: the digest that
\* names it, the signature of the signer j or the trust rule names, or the user.
Vouched(j, k) ==
    \/ ~j.verify
    \/ j.option = None /\ k = j.ref
    \/ SignedBy[k] \cap ({j.option} \cup IF j.option = None THEN {TrustRule[j.ref]} ELSE {}) # {}

\* "A plugin is installed only if something vouches for it", and only if every
\* binary of its package passed its checks: whatever installs overlap, even of
\* the verifier they rely on, tags move and processes stop, a binary comes into
\* place only from a package that its install can rely on and that is sound.
InstalledVouched ==
    [][\A b \in Kind : bin'[b] # bin[b] =>
        \E p \in Proc :
            /\ at[p] = "place"
            /\ Vouched(job[p], package[p])
            /\ Sound(package[p], job[p].verify)
            /\ \E c \in Candidates(package[p]) : c.kind = b /\ c.binary = bin'[b]]_vars

\* The record listed for each kind is of the binary in place, but for one that
\* an install replaced and has yet to record.
RecordsMatch ==
    \A b \in DOMAIN Listed \ torn : Listed[b] # None /\ Listed[b].sha256 = bin[b]

\* "bomify plugin list" tells how each plugin was installed: as long as
\* commands run one after another, wherever they stopped, only an install that
\* stopped between its renames and its record leaves a kind's record behind.
RecordsTell == InTurn => RecordsMatch

\* "Nothing is installed if any step fails": an install that stops has put
\* none of its binaries into place.
NothingIfStopped ==
    [][\A p \in Proc : at[p] \in {"place", "write_index"} /\ Stop(p) =>
            torn \cap {c.kind : c \in Candidates(package[p])} = {}]_vars

=============================================================================

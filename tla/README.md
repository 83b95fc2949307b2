# bomify in TLA+

Specifications of bomify, model-checked with TLC and partly proved with TLAPS.
bomify builds a *package* from a CycloneDX SBOM: plugins fetch each component
the SBOM describes into a data directory, a tag names the result, and `push` and
`pull` move it to and from an OCI registry, `save` and `load` to and from a
file. Its design has no lock and no database: "content-addressing everywhere" and
"atomic writes" (`docs/architecture/README.md`) are meant to make builds, pulls
and pushes "idempotent and safe to run concurrently". These modules say what that
means, where it holds, and where it does not.

Every module is written from the Go code; `PROJECT.json` maps each definition to
the lines it stands for.

## The system

| Part | State it keeps | Operations | Hard behaviour |
|---|---|---|---|
| Component pull, `internal/plugin/cache.go` | `manifests/<purl>.pid`, `manifests/<purl>.json`, `layers/<purl>/` | `pull`, `PIDFileLive`, `WriteManifest` | goroutines and processes race for one claim; a claim outlives a crash; pids are reused |
| Builds, tags, prune, `internal/build`, `cmd/` | `package/repositories.json`, SBOM manifests, provenance, component records, layers, reports | `build`, `tag`, `package rm`, `package prune` | read-modify-write of the tags without a lock; prune against everything else; crashes between writes |
| Package pull, `internal/oci/pull`, `transfer`, `internal/signature`, `internal/security` | the same, and staging directories in `layers/` | `pull`, `component pull`, `VerifySigners`, `VerifyAttestation`, `Gate.Evaluate` | the publisher retags, signs, attaches and prunes during the pull; one of several steps fails |
| Archives, `internal/oci/save`, `transfer/tar.go` | a tarball | `save`, `sign --input`, `load` | the tarball is written in place, entry by entry, or replaced, while others read it; one of several packages fails |
| Package push, `internal/oci/push`, `transfer`, `provenance`, `security` | a registry: blobs, manifests, indexes, referrers, signatures, tags, component repositories | `push`, `security prune` | the order of some ten kinds of registry calls; stops in between; retries; two pushes and prunings at once |
| Component packing, `internal/oci/push` (`components.go`, `layers.go`, `aliases.go`) | none | `planComponents`, `pushLayers`, `pushComponents`, `planSites` | all blobs of all components are uploaded at once and cut apart again; what plugins answer; names that collide |
| SBOM composition, `internal/sbom/compose.go` | an output file | `compose`, `Merge` | the union of sources that overlap and disagree, step by step |
| Named stores and rules, `internal/namedstore`, `internal/rules` | `index.json` and stored copies; `trust.json`, `scan.json` | `Add`, `Remove`, `Resolve`, `Set` | read-modify-write without a lock; check, then remove |
| Layout version, `internal/layout` | `version.json` | `CheckVersion` | first runs at once; older and newer bomifys; a crash in a migration |
| Plugin installation, `internal/plugin/install` | `plugins/`, `installed.json` | `Install` | several renames, then one record; the verifier itself is replaced |
| Credentials, the command line, the plugins themselves | | | a thin wrapper, presentation, or separate programs |

How they interact. `build` calls the component pull once for each component, in
goroutines, and several `bomify` processes share the data directory; they talk
only through its files. `prune` reads the pid files to spare what is in flight;
`bomify pull` writes the same directory through staging directories and never
looks at pid files. `push` reads the tag and the component directories, packs
them and writes the registry, where other pushers do the same; `bomify pull`
reads it, asks the trust rule which keys must have signed, the signing plugins
whether they did, and the scan gate whether to go on. `save` is a push into a
directory that becomes a tarball, `load` a pull of each package in one. Every
command first checks the layout version.

What makes each part correct:

* component pull: one plugin at a time writes a directory; a result is of the
  hash the SBOM declares, and its directory is whole; a claim that counts as live
  is of a pull in flight; every call returns;
* data directory: a tag resolves to a package that is there in full; a recorded
  hash is that of the content beside it; nobody changes a directory a live build
  fills; one command changes one tag; prune reclaims everything no tag reaches;
* package pull: everything written is vouched for by one and the same verified
  index, whatever changes meanwhile; a document or report counts only if the
  required signers signed it; a tag follows a passed gate;
* archives: whoever reads one to its end has all that was saved, or is refused;
* push: a tag names only what is there in full and was signed; a report, its
  signatures and a document are there once, together, and not lost;
* packing: a pull gives each component its own files back, as they were; the
  names beside the package name what the index says;
* composition: the SBOM is the union of its sources, or there is none;
* stores: no rule names what is not there; a command is atomic;
* layout: an interrupted migration is resumed and never applied twice;
* plugin installation: nothing comes into place that nothing vouches for, and the
  record tells what is in place.

`PROJECT.json` lists the hazards at the lines where they bite, with the
properties aimed at them.

## The modules

| Module | What it is |
|---|---|
| `SingleFlight` | the abstract promise of a component's pull: one flight at a time fetches, only that flight stores, everyone else shares |
| `ComponentPull` | `pull` of `cache.go`, one file-system call a step, in any number of goroutines of any number of processes |
| `DataDir` | the commands that share a data directory, each step one change of it; a build pulls a component through the steps of `cache.go`, with the files of its plugin as one step |
| `PackagePull` | `bomify pull` and `component pull` against a repository that others change, from the flags to the tag |
| `Archive` | extends `PackagePull`: a tarball that is saved, signed and loaded; it composes both into one specification |
| `PackagePush` | `push`, one registry call a step, by any number of pushers |
| `Compose` | `sbom compose`: the merge of several SBOMs, step by step, and what it comes to |
| `Packing` | extends `Compose`: the components of the SBOM packed, uploaded, named, and pulled back |
| `RuleBook` | the abstract promise of stores and rules: entries and rules change one at a time, and refer to what is there |
| `NamedStore` | the stores and rule files, one file read or written a step |
| `LayoutVersion` | opening a data directory, by processes of several versions of bomify |
| `PluginInstall` | extends `LayoutVersion`: an install, from its policy to its record |
| `ComponentPullProofs`, `DataDirProofs`, `PackagePullProofs`, `PackagePushProofs`, `ComposeProofs`, `PackingProofs`, `NamedStoreProofs`, `PluginInstallProofs` | theorems |
| `MC...` | the constants TLC runs them with |

A part meets another at what the other promises. The exception is a component's
pull, whose claim `DataDir` takes apart as `ComponentPull` does: what a crash
leaves in the middle of it is what the commands after it meet. Restoring a
component is one step in `PackagePull` and taken apart in `DataDir`; what a push's
manifests hold is in
`Packing`, and the order in which they, the tags and the referrers come in
`PackagePush`.

### ComponentPull

The pid file is two variables: `claim`, the worker that created the file at the
path now, and `claimPid`, what is written in it (`None` while it is empty, which
`readPID` reports as "no pid file"). `manifest` is `manifests/<purl>.json`, `dir`
the component's directory file by file. A worker is a goroutine in `pull()`; its
`pc` is the next file-system call:

| pc | call in `cache.go` | action |
|---|---|---|
| `check_pid` | `readPID` | `CheckPID` |
| `probe` | `processAlive` of the pid read | `ProbeOwner` |
| `wait` | `waitForPIDFile` | `WaitForPIDFile` |
| `remove_stale` | `os.Remove(pid)` of a stale file | `RemoveStalePID` |
| `check_manifest` | `ReadManifest`, `verifyHash` | `CheckManifest` |
| `claim`, `write_pid` | `claimPIDFile`: exclusive create, then write | `ClaimPIDFile`, `WritePID`, `WritePIDFails` |
| `clear`, `mkdir` | `RemoveAll`, `MkdirAll` | `ClearDir`, `MakeDir` |
| `fetch` | the plugin, a file at a time | `FetchFile`, `FetchFails` |
| `verify`, `record` | `verifyHash`, `WriteManifest` | `VerifyFetched`, `WriteManifest`, `WriteManifestFails` |
| `remove_dir`, `release` | `RemoveAll` on error, the deferred `os.Remove(pid)` | `RemoveDir`, `Release` |

Two removals remove *whatever is at the path by then*, as `os.Remove` does.
Faults are `Crash` of a process with all its workers, `ReusePID` of a dead
process's pid by a new one, a claim that is created and cannot be written, a
plugin that fails, a manifest that cannot be written. `Crash` is also the exit of
a process whose calls have returned. It may end a process with its plugin, as a
signal to the process group or a lost machine does, or without it: a plugin is
started with neither a context nor a parent-death signal (`exec.go:30`), and then
goes on writing into the directory, whoever fills that by then (`OrphanWrites`).
It may strike anywhere; "taking" is the moment in which a worker has removed a
stale pid file and not yet written its own, when nothing marks the manifest as
that of a pull that did not end. A content is named by its
hash, and an upstream source may serve different contents at different times. A
behaviour picks a `plan` at its start: which workers call, what is served and
declared, which faults may strike, whether calls overlap, and how many there are.

### DataDir

A process runs one command to its end. `repos` is `repositories.json`; a command
that changes it reads it into its memory and writes all of that back, in two
steps. A component's directory is `absent`, `partial` or of a content, and `blank` is the components whose pid
file is still empty. The actions are the steps of `build`: of a component's
goroutine those of `cache.go` (`CheckPID`, `ProbeOwner`, `WaitForPIDFile`,
`RemoveStalePID`, `CheckManifest`, `ClaimPIDFile`, `WritePID`, `ClearDir`, `FillDir`,
`WriteManifest`, `PullFails`, `Release`), then `ComponentsEnd`, `RecordManifest`, the
tags and `WriteProvenance`; of `pull` (`Restore...`, `ScanRefuses`), of `tag`
(`ResolveTag`), and of `prune` (`PruneRead` to `PruneEnd`), which `package rm` runs
after it has removed its tag.

Here too a `plan` says which commands a behaviour may have, which faults, and
whether they overlap. The faults: a process is gone once its command has ended
("exit"; without it its pid is taken for as long as anyone looks), it is killed
("crash"), also just as it takes a stale claim away to pull ("taking") or to prune
("reclaiming"), or without its plugins ("orphan"); a fetch, or the record of it,
fails ("fetch"), a gate refuses ("refuse"). Four conditions on a plan are what the
properties are stated under:

* `Steady`: builds and copies of tags at once; nobody is killed, and nobody's pid
  becomes free while others still look for it.
* `Orderly`: `Steady`, or commands in turn, killed with their plugins and not
  while they take a stale claim away.
* `Consistent`: nothing is pulled, or a component is the same wherever it comes
  from. A pull keeps any directory it finds and records what its own SBOM declares.
* `Gentle`: what is killed is no pull, is not taking a stale claim away, and takes
  its plugins with it; and no fetch fails where something is killed.

Each is needed: the counterexamples below drop one at a time.

### PackagePull

The repository is what it holds (`tags`, `referrers`, `signatures`), what was
deleted (`gone`), and a count of changes; the disk is what a pull writes. Others
`Retag`, `Publish`, `Sign` and `Prune` at any moment. `pull[p]` is a puller: its
job (the flags, as `cmd/` parses them), the policy it made of them and of the
trust and scan rules (`Required`, `For`, `Scans`, `Given`, `Threshold`), and what
it has seen. A step is one look at the registry, or one write:

| pc | code | action |
|---|---|---|
| | flags, policies, contradictions between them | `Start` |
| `resolve` | the tag, resolved once | `Resolve` |
| `verify` | `VerifySigners`: each signer lists the referrers anew, m of n | `Ask`, `Refused` |
| `provenance` | `VerifyAttestation` | `AskProvenance` |
| `fetch` | the index and what it names, checked to be well formed | `Fetch` |
| `sbom`, `restore` | the SBOM, and the components it describes, one at a time | `WriteSBOM`, `Restore`, `Restored` |
| `scan`, `vex`, `document` | scanners, then the VEX documents, each counted only if verified; `Gate.Evaluate` | `Scan`, `TakeDocument`, `CountDocument`, `Gate` |
| `reports`, `layers` | the newest reports of the publisher, if they verify | `ListReports`, `RestoreReport`, `LeaveReports` |
| `finish`, `keep` | the fresh reports over the publisher's, and the tag | `Finish`, `KeepReport`, `Record` |
| `output`, `clear`, `move` | `component pull --output`: `writeInto` | `Stage`, `Clear`, `Cleared`, `Move`, `CannotMove` |

`Fail` is any call that fails. What a signing plugin accepts, and what a scanner
finds, are constants.

### Archive

A tarball is an inode with its entries in order; `path` says which inode has the
archive's name. `save` truncates that inode, or makes one, and writes an entry in
two steps (`BeginEntry`, `EndEntry`), so that a reader may meet one half written;
`sign --input` reads to the end and renames a new inode into place (`Replace`);
`load` reads to the end, before it pulls the first tag of it, and then runs
`PackagePull` for each. Whoever reads an inode that is truncated meanwhile may go
on reading or find garbage. A push into one's own staging directory is one step.

### PackagePush

Content in a registry is named by its digest and stays until deleted, so the
repository is four sets and pushing is union. Referrers are records of their
kind, their subject and what they carry; those that the code dates when it
attaches them (VEX documents, attestations) also carry the push that made them,
so that two pushes' are two, while a report referrer is the same for the same
reports. A component's *site* is its own repository with its tag; components of several
platforms share a site, which then has an index of its own (`siteIndexes`) that is
pushed before the tag (`Copied`, `TagSite`). A push is a
`job`: the package, the tag, the signers, the documents, the date of the local
reports (0 for none), whether it attaches provenance and places components, and
how many reports it keeps. `pc` is the next registry call; `Stops` ends a push
at any of them, and the pusher may then run a push again. oras.CopyGraph, which is
not part of the repository, is modelled by what `copyManifest` uses of it: a
manifest the target has is skipped with all it names, and any other follows what
it names.

### Compose and Packing

`Compose` reads a composition's sources one after another (`SourceSBOM`), merges
them one after another (`MergePart`), adds the composition's own components and
writes the result (`Compose`, `CreateOutput`, `WriteOutput`). A component is what
the merge tells apart: its purl, what two sources must agree on, and the rest.
`IsComposed` is the reference the merge is compared with: each component that is
listed anywhere, once, from the first source that lists it, and the edges that
last (`LastingEdges`): a part whose root another part packages, or whose root is
the composition's, drops the edges that were there before it (`compose.go:222`).
It drops none that follow, so the order of the parts matters, and `IsComposed` has
it.

`Packing` goes on with that SBOM, or one written by hand. `PlanComponent` takes a
component's directory and what its plugin answered to a plan (`AnswersOf`), in one
of the three formats; `HashLayer` and `PushLayer` upload the blobs of all components, in any
order, a bounded number at once, while `Rewrite` may change a file or make it one
that is not regular; `PushManifest` cuts the list apart again; `PushSBOM`,
`PushIndex`, `TagSite` and `TagPackage` follow. `AddSite` and `Joins` are
`planSites`: which components may share a reference. `PullComponent` and
`RestoreFile` read it all back. Strings are taken apart only where the code does:
a purl is its segments, its version and its qualifiers, and `Segment` and
`VersionTag` say which of them a repository and a tag may be called. The target is
a registry, which is asked for a manifest as a manifest (`Has`, `complete`): a blob
that happens to hold its bytes does not stand for what it names. Nobody checks
that a plugin lists what its manifest names: that it does is the constant
`Faithful`, an assumption on what plugins answer.

### NamedStore

For keys and for VEX documents, `index` is the index file, `copies` the stored
files and `rules` the rule file. A command is the reads and writes it makes:
`StoreCopy`, `CheckUsers`, `ReadIndex`, `WriteIndex`, `DiscardCopy` for entries,
`ReadRule`, `Resolve`, `ReadFile`, `WriteFile` for rules, `ReadRules`, `FindKeys`,
`OpenCopies` for a pull that needs them. `overlaps` counts the commands that
started while another ran, so that properties can say "in turn" of a behaviour.
`RuleBook` is the same without files: each command is one step.

### LayoutVersion and PluginInstall

`version` is what `version.json` records, `level` and `half` what the data really
is: at which version, and whether a migration of it began and did not end. A
process is of a version of bomify, and its steps are those of `checkVersion`
(`ReadVersion`, `CheckEmpty`, `BeginMigration`, `EndMigration`, `WriteTemp`,
`RenameTemp`). There is no migration yet; the tests of `checkVersion` have some.

An install (`Choose`, `Resolve`, `Verify`, `Fetch`) works out its policy from the
flags, the trust rule and the reference, asks the verifier that is installed *at
that moment*, checks every binary, and then renames each into place (`Place`)
between a read and a write of the record (`ReadIndex`, `WriteIndex`).

### Bugs a property would catch

Each module has a few operators named `Action_Bug`: the action as it would be
with a plausible bug. No behaviour takes them. Putting one in place of its
action must make TLC refute the property that `PROJECT.json` pairs it with; that
is how each checked property is shown to depend on the code.

## What is checked

Passing runs:

| Run | Instance | What it shows |
|---|---|---|
| `pull_flight` | 3 workers, two of them goroutines of one process, at once; plugins and writes fail, no process ends; two contents | `SingleFetcher`, `FetchedIntact`; `pull` implements `SingleFlight` (`FlightSpec`); `EveryCallReturns` |
| `pull_faults` | 4 processes in turn, one call each, killed with their plugins anywhere but in a takeover; or 2 at once, with every fault, orphaned plugins included | `ServedWhole`: in turn, what a result names is whole, whatever the killed calls left; `LiveMeansInFlight`; `ResultVerified` under every fault |
| `dir_at_once` | 3 builds at once of packages of one component, or 2 whose processes go and whose fetches fail; 3 builds and removals in turn that are killed; 2 pulls at once whose fetches fail | `BuildsBacked`, `PullsBacked`, `RecordsHonest`, `LivePullSparedInOrder`, `EveryCommandEnds` |
| `dir_in_turn` | any 4 commands in turn, failing or refused; 4 builds, removals and prunes of two packages, or 5 of one, that are killed; any 3 commands under all of these faults | `TagsBackedInTurn`, `OthersTagsKept`, `PruneReclaims` |
| `push` | 3 pushes at once of packages that share a component; or one pusher, three pushes in turn; each may stop anywhere | `TagsComplete`, `SignedBeforeTag`, `NewestReportsKept`; in turn `DocumentsOnce`, `SignaturesAnchored` |
| `package_pull` | one pull of any kind while others change the repository twice; or one save, one signer and one load of an archive | `WritesVouched`, `CountedVouched`, `NothingSilenced`, `TaggedScanned`, `OutputWhole`, `ArchivesWhole`, `EveryPullEnds` |
| `named_stores` | 2 processes with keys, or VEX documents, and their rules; one command may start while another runs; stops anywhere | `RulesHold`, `PullsFindKeys`, `RulesMeetable`; in turn each command is a step of `RuleBook` (`CommandsAtomic`) |
| `plugin_install` | 2 processes of versions 1 and 2, at once or not, stops anywhere; a tag that moves once | `MigrationsResume`, `InstalledVouched`, `RecordsTell` |
| `documents` | compositions of up to two sources that overlap, disagree or break rules, and lists of components made by hand; two pushes, one file rewritten, two uploads at once | `ComposesExactly`, `PackedWhole`, `SitesTell` |

Type invariants are checked in `pull_flight`, `push` and `named_stores`; that of
`PluginInstall` is only proved. The others (`ArchiveTypeOK`, `TypeOK` of
`DataDir`) are there to be added to a configuration when their module changes.

Deadlock is checked in `named_stores` and `plugin_install`, whose processes can
always start another command. The other systems end, when their calls, commands,
pushes or pulls have ended; there `EveryCallReturns`, `EveryCommandEnds` and
`EveryPullEnds` say that they do not end before.

Bounds, and why they are enough. *Workers, processes, pushers* (2 to 5): the
races here need one actor to act on what it read, one to change it meanwhile, and
at most one to leave a trace first (a killed owner). Commands in turn need more,
each a trace that the next one meets: a build, one that is killed over its record,
a prune or a build that is killed over what that left, and one that trusts it. The
counterexamples with commands in turn take four at most, and these runs have up to
five. *Calls, pushes*
(`MaxPushes`, and the number of calls of a plan, 1 to 3): a first that leaves
something, a second that meets it, and for `push` a third that meets what both
left. *Changes by others* (`MaxChanges`, 2): one thing replaced between two looks
at the registry, and one put beside it, or a signature and what it signs.
*Overlaps* (`MaxOverlaps`, 1) and *retags* (`MaxRetags`, 1): the first command of
a behaviour that starts while another runs is where "in turn" ends; with it the
properties that do not need commands in turn are already put to the test.
*Contents* (2): equal or different is all that is compared. *Files* (2): enough
for a directory half filled. *Components* (1 to 3), *packages* (2 or 3): one of
its own and one shared, or one that is not well formed; *signers, documents* (2):
between the first and the last. *Keep* is 1: one report more is too many.
*Versions of bomify* (`Newest`, 2): one older, one newer. *Uploads at once*
(`Concurrency`, 2): two that end in either order. *Rewrites* (`MaxRewrites`, 1): a
file that changes between the hash and the upload. The theorems below have no
bounds.

Symmetry is used on pushers, processes and contents, in runs without liveness
only. `package_pull` looks at a state through the view `Told`, which drops what no
later step reads of an archive: how it was made, once no load can read it any
more. For the same reason archivists take steps only while a load may still read
(`Awaited`).

Fairness: a running worker, command, pull or load takes steps unless its process
dies (`FairSpec` of `ComponentPull`, `DataDir` and `Archive`): Go schedules every runnable goroutine and the kernel every process, and `waitForPIDFile`
polls. No fault is fair, nor is what publishers, savers and
signers do, or the plugin's choice to fail. `EveryCallReturns`,
`EveryCommandEnds` and `EveryPullEnds` need no more; the other properties need no
fairness.

## Where the code does not do what its documents say

Three runs end in a violation that `PROJECT.json` reports as a finding.

* `pull_stale_race`. Two workers find the same stale pid file; the slower one's
  `os.Remove` (`cache.go:45`) removes the claim the faster one has just made, and
  both plugins fill one directory.
* `dir_kept_partial`. A build crashes while its plugin fills a directory in
  place; `bomify pull` takes any directory for a whole one (`restore.go:147`) and
  tags the package.
* `push_unsigned_document`. A push stops after it attached a VEX document and
  before it signed it; when it is run again it finds the document there
  (`referrers.go:76`), leaves it unsigned, and tags the package.

The other configurations in this directory each hold one counterexample that
bounds what the passing runs claim. They are run by hand, with
`tlc -config <name>.cfg <module>.tla`; TLC reports the property as violated.

`MCComponentPull`:

| Configuration | Property | What happens |
|---|---|---|
| `pull_reuse_in_flux` | `ServedWholeInFlux` | a worker that looked before there was a manifest claims and clears the directory again, while another, between the pid file and the manifest, finds the one just recorded: its result names a directory being cleared |
| `pull_manifest_outlives` | `ManifestBacked` | a crash, then a takeover whose fetch fails: the manifest stays, the directory does not |
| `pull_empty_claim` | `EveryCallReturns` | a crash between create and write leaves an empty pid file: `readPID` says there is none, `claimPIDFile` says there is one, and `pull` spins |
| `pull_orphan` | `ServedWholeInFlux` | a `bomify` is killed and its plugin is not: it goes on writing into the directory that a later pull has filled, and recorded as whole |
| `pull_taken` | `ServedWholeInFlux` | a crash between the removal of a stale pid file and the new claim: the next pull trusts the manifest that the pid file had overruled, and its directory is half filled |
| `pull_pid_reuse` | `LiveInFlight` | a stale pid is given to a new process: the claim counts as live |

`MCDataDir`:

| Configuration | Property | What happens |
|---|---|---|
| `dir_lost_tag` | `OthersTagsKept` | two builds write back `repositories.json` from the same read: one tag is lost |
| `dir_prune_at_once` | `PruneSparesTagged` | prune, which read the tags before, finds what a build has just recorded and removes it while the build writes its tag |
| | `LivePullSpared` | a build claims a component after prune looked at its pid file |
| | `LiveStagingSpared` | staging directories of a live pull are candidates of prune |
| `dir_prune_crash` | `TagsBacked` | prune removes the stale pid file of a half-filled component and stops: the record beside it, which the pid file overruled, is trusted again |
| `dir_orphan_provenance` | `PruneReclaimsProvenance` | prune stops after the manifest and before the statement, which no later prune looks for |
| `dir_record_overwritten` | `RestoreKeepsRecord` | `bomify pull` writes the SBOM's entry over the record a build computed a hash for |

`MCPackagePull`:

| Configuration | Property | What happens |
|---|---|---|
| `package_refused_late` | `RefusedUnwritten` | `README.md:37` has the scan gate act before anything is written; the code scans once the SBOM and the components are on disk, and a refused package leaves them there |
| `package_output_emptied` | `OutputKept` | `component pull` clears the directory it was given and then moves files in: one that cannot be moved leaves it empty or half full |
| `archive_load_partial` | `LoadedTellFresh` | a load whose second package fails has tagged the first, with the reports of its publisher and not with the fresh ones (`docs/architecture/security-scanning.md:165`) |
| `archive_overwritten` | `OverwrittenWhole` | a load reads a tarball while another save truncates and rewrites it |
| `archive_cosigners` | `CosignaturesKept` | two sign one tarball at once: the later rename drops the other's signatures |

`MCPacking`:

| Configuration | Property | What happens |
|---|---|---|
| `compose_root_edges` | `EdgesUnioned` | `Merge` says that dependencies are "unioned per ref" (`compose.go:180`); a later part whose root it does not package replaces the edges of that root (`compose.go:222`), also those that an earlier part gave it, which packages it |

Three configurations hold several properties, each of which is violated
(`dir_prune_at_once`, and the two below); to see the counterexample of one, leave
only that one in the configuration.

`MCNamedStore`, `stores_at_once`, where commands overlap:

| Property | What happens |
|---|---|
| `NamesHeld` | a rule is set between the check that a key has no rule and its removal |
| `CopiesHeld` | a removal discards a copy that an addition of the same content has just stored |
| `UpdatesKept` | two additions write back the index from the same read |

`MCPluginInstall`, `install_at_once`, where two versions of bomify run at once:

| Property | What happens |
|---|---|
| `NothingIfStopped` | an install stops between its renames: some binaries are new |
| `RecordsMatch` | two installs at once leave a record that is not of the binary in place |
| `OlderKeptOut` | a newer bomify stops inside a migration: an older one, which finds the old version, works on data half migrated |
| `OwnAccepted` | of two first runs at once, one finds the other's temporary file and refuses its directory as a foreign one |

With overlapping pushes `DocumentsOnce` and `SignaturesAnchored` fail too: two
pushes that both found no document attach one each, and a report may be signed
again between the listing of its signatures and its deletion. Of `Compose`,
`OutputKept` does not hold: the output file is emptied before it is written, and
a write that fails leaves it so.

## What is proved

Thirty-seven theorems, in eight modules, for every value of the constants that
satisfies the module's assumption. A hypothesis on the plan or on who runs is
stated in the theorem; where none is named below, there is none.

`ComponentPullProofs`:

* `TypeCorrect`, `ResultsVerified`: under every fault. A finished worker's
  result was compared with the hash declared in that very call, and neither
  changes until its next one.
* `FetchersExclude`, `FetchesIntact`: without crashes (`NoCrashes`). `SingleFetcher`
  is not inductive by itself: a worker may remove a pid file that it does not
  own. The invariant adds that no pid is ever found stale (so no worker is at
  `remove_stale`), that a worker between claim and release is the one the file
  names, and how far its fetch has come: which files hold its content. Without
  crashes every step of another worker leaves all of it alone.
* `ServedAreWhole` (`ServedWhole`): calls in turn, any number of processes, each
  killed with its plugin and not in a takeover (`OnlyInterrupted`). `TurnInv` says
  of each step of the running call what is there by then (`Stands`), and that
  between calls the directory is whole wherever there is a manifest, unless a
  pid file, by then stale, stands beside it. `pull_orphan`, `pull_taken` and
  `pull_manifest_outlives` are what happens without each of the conditions.
* `LivePIDsInFlight`: unless pids are reused (`NoPIDReuse`), crashes included. The
  invariant says that a pid in the file is that of the worker that created it,
  and that this worker, unless its process is dead, is still holding.
* `ImplementsSingleFlight`: without crashes and without failed claims
  (`NoFailedClaims`), every step of `ComponentPull` maps to a step of
  `SingleFlight`, or changes nothing there, with the claim as the holder and the
  manifest as what is stored.

`DataDirProofs`. `TypeInv` is what the other invariants rest on: it adds to
`TypeOK` what a command remembers at each of its steps.

* `TagsAreKept`: in turn (`InTurn`), under every fault. `TurnInv`: one process at
  most is busy, and what it has read of `repositories.json` is what is in it.
* `LivePullsAreSpared` (`LivePullSparedInOrder`): `Orderly`. `ClaimInv` says that a
  pid file names a process that holds the component, unless that was killed, and is
  empty only until its owner has written it; `CalmInv` that where nobody is killed
  nobody is found dead, and that no plugin is left over where the plan has none;
  `OwnedInv` that whoever holds a component has its pid file. Two that take one
  stale claim over break it (`pull_stale_race`), and so does a prune that looked
  before the build claimed (`dir_prune_at_once`).
* `RecordsAreHonest` (`RecordsHonest`): `Orderly` and `Consistent`. `HonestInv`:
  without pulls a build puts the directory and then the record in order between
  its claim and its release, so that a record beside another content has a claim
  beside it, or somebody who is taking a stale one away. `SameInv`: with pulls
  both are the one content that the component has everywhere.
* `BuildsAreBacked` (`BuildsBacked`): `Steady`, and no fetch fails or disagrees with
  its SBOM. `BuiltInv` says of each component that it is there when it is recorded,
  or is being fetched again (`Sourced`), and how far each build is (`Along`). A
  build at once with another may fetch again what was recorded while it looked,
  under the tag the other has written, and a fetch that then fails removes it.
* `PrunesReclaim`: in turn, under every fault. `PruneInv` says what a prune under
  way still has to remove (`Reclaims`), that it removes nothing a tag reaches
  (`Spares`), and that without crashes every statement has its manifest beside it
  (`Stated`).
* `TagsStayBacked` (`TagsBackedInTurn`): in turn, `Consistent` and `Gentle`: all
  five commands where nothing is killed, and builds, copies, removals and prunes
  where they are. `StoreInv` says of every tag that its package is `Full`: its
  manifest is there and each component is there, recorded, and what the manifest
  declares, with no claim beside it (`Settled`); of a running command how far it
  has come with its package and with each component (`Package`, `Stage`); and that
  what is recorded and not there has a stale claim beside it, or somebody who is
  just taking that away (`Kept`, `InFlux`). That is why it does not survive a crash
  in this very moment (`dir_prune_crash`, `pull_taken`), nor a pull after a crash
  (`dir_kept_partial`).

`PackagePullProofs`, while others change the repository in any way:

* `CountedAreVouched`, `NothingIsSilenced`, `WritesAreVouched`: any number of pulls
  and loads at once. `Inv` says what a puller has made sure of at each step: who of
  its policy's signers signed the one package it holds, and that enough did once
  it restores (`Judged`); where each document it counts comes from (`Counts`); who
  silences what a scan found (`Silences`); what it has scanned (`Looked`). Others
  add, delete and sign; they change neither what a digest names nor what a
  signature is of, so what was vouched for stays so.
* `TagsAreScanned`, `OutputsWhole`: with one puller (`Alone`), from `Shapes`, what a
  puller has at each step, and `Reported` and `Placed`, what is on disk by then.
  Two pulls into one directory share its reports and its files.

`PackagePushProofs`:

* `TypeCorrect`: the invariant is `TypeOK`, whose `Fits` says what a pusher's
  remaining work and node are at each step.
* `TagsNameWhatIsThere`: `TagsComplete`, with any number of pushers stopping
  anywhere. `ContentInv` adds, for each step of a push, what is there already or
  still to be pushed (`Backed`), and that every manifest at a site has its blobs
  there, and every index its manifests (`SitesClosed`). No step takes content away (`PushGrows`), so one
  pusher's steps never undo what another relies on.
* `TagsAreSigned` (`SignedBeforeTag`), `NewestReportsStay`: pushers at once, pruning
  and stopping. `ReferrersInv` says of each push how far it is with its signatures
  (`Signing`), so that what it attached is signed or just being signed
  (`Vouched`), and that what it has set out to delete is older than a report that
  stays, whatever others delete (`Pruning`, `Superseded`).
* `DocumentsAreOnce`, `SignaturesAreAnchored`: with one pusher (`OnePusher`, which is
  part of both properties), that may stop anywhere and push again. `LoneInv` adds
  that what the pusher found missing is missing, and which signatures are left
  to delete before their report is.

`ComposeProofs`:

* `ComposedExactly` (`ComposesExactly`): for any compositions, files and plugins.
  `UnionInv` says at each step of the command what it has by then: when n parts are
  merged (`MergedTo`) the components are the sum of the first n lists (`SumOf`),
  those agree (`AgreeTo`), and the dependencies are the edges of those parts that
  no later one of them dropped (`EdgesTo`). It rests on lemmas about one merge each:
  `AddGoesOn`, `ConflictMeans`, `MergesEdges`; `BomIsValid` says what the rules of
  the contract come to for the composed SBOM, and needs that only finitely many
  refs are listed. It is an induction over steps, so nothing has to be said of a
  recursive definition.

`PackingProofs`:

* `PackagesAreWhole` (`PackedWhole`): if plugins list what their manifests name
  (`Faithful`) and give no file a digest but its own (`Truthful`: `PushBlob` does
  not send, and so nobody checks, a blob whose digest the registry has already),
  and no file's content is one of bomify's own manifests (`Plain`). Lemmas on
  `FlattenSeq` say that the lists put together lie one after the other and that
  nothing else is there (`FlattenParts`), so that a component's layers are those
  from its start to the next one's (`LayersInPlace`) and `Unique` lists each
  component once. `PackInv` then says of each plan that its blobs and extras are
  the directory's files, each once, and that what it knows of a digest the file
  has held (`PlanFits`); of each layer hashed or pushed that its file has held it,
  and of one pushed that it is in the registry (`LayerFits`); that what is there
  as a manifest has all it names (`StoreCloses`); and of each manifest made that
  it, or its extras, has all its component's files (`Made`). A rewrite only adds to
  what a file has held, and no step takes anything out of the registry (`Grows`),
  so a plan, a layer and a manifest stay what they were. The SBOM is one that
  `Compose` made: `UnionInv` says that it lists finitely many refs.
* `SitesAreTold` (`SitesTell`): with any plugins, if no tag has the form of a digest,
  and `Plain` (`Tagged`). `SitesHold` says of the plan of the first n components,
  by induction on n (`AddSiteHolds`, `PlannedHolds`), that no two sites have one
  reference, that the manifest of each component at a site is a member of it, that
  each member is the manifest of one of its components, and that any two members
  are of other platforms (`GroupHolds`): `addMember` compares a new member with those
  before it, and being another platform goes both ways. `SiteInv` then says that
  the index has what that plan gives each component (`IndexTold`), and while sites
  are tagged which part of the plan is left and that each site before it names
  its members (`SitesLeft`). No later site takes an earlier one's tag
  (`PlacedApart`): the references differ, and a digest, under which a pinned image
  is put, is no tag. Neither `Faithful` nor `Truthful` is needed: a site names
  the manifest that was pushed, whatever that holds.

`NamedStoreProofs`:

* `TypeCorrect`: `TypeInv` adds to `TypeOK` which step a command
  can be at (`Labelled`): an addition never checks users, and so on.
* `RulesAlwaysHold`: `RulesHold`. `TurnInv` says that as long as commands run in
  turn one process at most is in one (`Solo`), that every rule's names resolve,
  and what the running command has found out (`Sound`): that the entry it is to
  remove is not used, that the names of the rule it is to write resolve, that
  what it read is still what is there. `Sound` is only kept because no other
  process moves (`OneMoves`).
* `PullsAlwaysFindKeys`: from `TurnInv` and `KeptInv`, that each entry of the index
  has its copy, and that the copy of the entry that is being written is there
  and not yet discarded (`Kept`).
* `CommandsAreAtomic`: from both, in turn each step of `NamedStore` is a step of
  `RuleBook` or a stutter: the write of the index, or of the rule file.
* `RulesAlwaysMeetable`: with any overlaps. `MeetInv` adds that a rule that is about
  to be written is one whose requirement its own signers can meet (`Writable`).

`PluginInstallProofs`:

* `TypeCorrect`, for the layout version and the installs.
* `InstallsAreVouched`: with any overlaps. `Relies` says what an install has made
  sure of at each step: that its policy has a signer unless a digest or the user
  vouches (`Chosen`), that the package is the one the reference names
  (`Resolved`), that this signer signed it, and that what is staged are its sound
  binaries. None of it is about the directory or the tags, which others change.
* `MigrationsAlwaysResume`: in turn. `LayoutInv` says that one process at most is
  at work (`Solo`), that the data is at the recorded version or the one after it
  (`Level`), and what the running process has read of it (`Knows`).
* `RecordsAlwaysTell`: in turn. `RecordsInv` adds, of an install that is about to
  write the record, that it is the record read with its own binaries in it
  (`Writes`).

Each theorem but `TypeCorrect` of `DataDir` and of `PluginInstall` names the
property that a run also checks. The findings and counterexamples above are why
the conditions on who runs and what is killed cannot be dropped.

Only model-checked: `ArchivesWhole` of `Archive` (see the plan below);
`PullsBacked` of `DataDir`; and liveness
(`EveryCallReturns`, `EveryCommandEnds`, `EveryPullEnds`), which is beyond the prover,
as are `ENABLED` and fairness. What a recursive definition computes for every input
is beyond it too.

## What is not modelled, and the plan

Next, a proof: `ArchivesWhole` of `Archive`, where a save selects from what it
has walked.

Left out, and why:

* Credentials: a thin wrapper of the docker credential store.
* The command line's output, logging, tables and progress bars: presentation.
* The plugins and the plugin library, which are separate programs. They appear as
  an environment: one that writes files and reports a hash, generates an SBOM,
  packs a component, verifies a signature, or finds vulnerabilities.
* The stand-alone `scan` and its report, and the parsing of VEX formats: what a
  document says of a finding is a constant.
* The reading and writing of SBOM formats; what the contract asks of one
  component is a constant (`proper`).
* Manifests that cannot be parsed, sizes, `build --check`, and tarballs that bomify
  did not write.
* A push into the image layout of `bomify save` (`internal/oci/save/save.go:45`) as
  far as `Packing` goes: a layout goes by digest alone, so there a blob with a
  manifest's bytes does stand for the manifest.
* Progress and the limit on downloads at once of `bomify pull`, which touch no
  state that a property is about.

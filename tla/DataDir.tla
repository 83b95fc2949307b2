------------------------------- MODULE DataDir -------------------------------
(***************************************************************************)
(* The data directory that bomify's commands share, and the commands that  *)
(* change it, run by several processes at once: "build" and "pull" add     *)
(* components and tag a package, "tag" copies a tag, "remove" removes one, *)
(* and "prune" reclaims what no tag reaches, as "remove" does in the end   *)
(* (internal/build, internal/oci/pull, cmd/).                              *)
(*                                                                         *)
(* A build's pull of one component goes through the steps of cache.go that *)
(* ComponentPull has too; the files that a plugin writes are one step here *)
(* and the directory is "partial" before it.                               *)
(***************************************************************************)
EXTENDS Naturals, FiniteSets

CONSTANTS
    Proc,       \* processes; each runs one command
    SBOM,       \* SBOMs, named by their content hash
    Purl,       \* components, named by their purl hash
    Tag,        \* name:version tags
    Hash,       \* the contents a component's directory may hold
    None,       \* no SBOM, no hash, no process
    Describes,  \* the components each SBOM describes
    Declares,   \* the hash each SBOM declares of each component, or None
    Source,     \* the contents each component's upstream source may serve
    Packaged,   \* what the registry's package of each SBOM holds
    Plans       \* what may be run together, and what may go wrong then

CommandKinds == {"build", "pull", "tag", "remove", "prune"}

\* What may go wrong.  A process may be gone as soon as its command has ended
\* ("exit": without it, its pid is taken for as long as anyone looks), or be
\* killed ("crash"), also while it takes a stale claim away, to pull ("taking")
\* or to prune ("reclaiming"), or without its plugins ("orphan").  A fetch or a
\* write of what was fetched may fail, and a gate may refuse a package.
FaultKinds == {"exit", "crash", "taking", "reclaiming", "orphan", "fetch", "refuse"}

\* The processes and the commands they run, the packages and tags these are
\* given, what may go wrong, whether the commands overlap or run one after
\* another, and which have started before each (of some that are alike, one
\* order will do).
PlanType ==
    [procs : SUBSET Proc, commands : SUBSET CommandKinds, sboms : SUBSET SBOM,
     tags : SUBSET Tag, faults : SUBSET FaultKinds, overlap : BOOLEAN,
     before : [Proc -> SUBSET Proc]]

ASSUME ConstantsAssumption ==
    /\ None \notin Proc \cup SBOM \cup Hash \cup Tag
    /\ {"absent", "partial"} \cap (Hash \cup {None}) = {}
    /\ Proc \cap Hash = {}
    /\ Describes \in [SBOM -> SUBSET Purl]
    /\ Declares \in [SBOM -> [Purl -> Hash \cup {None}]]
    /\ Source \in [Purl -> SUBSET Hash]
    /\ Packaged \in [SBOM -> [Purl -> Hash]]
    /\ Plans \subseteq PlanType

VARIABLES
    repos,      \* package/repositories.json: the SBOM each tag maps to
    manifests,  \* manifests/<sbom hash>.json
    provenance, \* provenance/<sbom hash>.json
    records,    \* manifests/<purl hash>.json: the recorded hash, or "absent"
    layer,      \* layers/<purl hash>/: "absent", "partial", or its content
    pid,        \* manifests/<purl hash>.pid: the process that made it, or None
    blank,      \* the components whose pid file has no pid in it yet
    reports,    \* vulnerabilities/<purl hash>/
    staging,    \* layers/.pull-*: the pull and the component each is for
    pc,         \* where each process is
    cmd,        \* the command it runs
    at,         \* how far it is with each component
    noted,      \* what it has read or computed of each: the owner that the pid
                \* file named, later the hash of what was fetched
    mem,        \* repositories.json as it read it
    kept,       \* what a prune found reachable
    victims,    \* what a prune has yet to reclaim
    victim,     \* what it is reclaiming
    orphans,    \* the plugins whose process is dead: the process, the component
    plan        \* the plan of this behaviour, which never changes

claims == <<pid, blank>>
disk == <<repos, manifests, provenance, records, layer, claims, reports, staging>>
prune == <<kept, victims, victim>>
memory == <<cmd, at, noted, mem, prune>>
vars == <<disk, pc, memory, orphans, plan>>

NoTags == [t \in Tag |-> None]

NoCommand == [op |-> "none", sbom |-> None, from |-> None, tag |-> None]

ToDo == "todo"

Ended == {"done", "failed", "crashed"}

Busy(p) == pc[p] \notin Ended \cup {"ready"}

\* processAlive, of a pid or of none.
Alive(p) ==
    p \in Proc /\ pc[p] \notin IF "exit" \in plan.faults THEN Ended ELSE {"crashed"}

\* readPID: None for no file, and for one that is empty yet.
ReadPID(c) == IF c \in blank THEN None ELSE pid[c]

\* PIDFileLive.
Live(c) == Alive(ReadPID(c))

VerifyHash(d, h) == d = None \/ h = None \/ d = h

Init ==
    /\ repos = NoTags
    /\ manifests = {}
    /\ provenance = {}
    /\ records = [c \in Purl |-> "absent"]
    /\ layer = [c \in Purl |-> "absent"]
    /\ pid = [c \in Purl |-> None]
    /\ blank = {}
    /\ reports = {}
    /\ staging = {}
    /\ pc = [p \in Proc |-> "ready"]
    /\ cmd = [p \in Proc |-> NoCommand]
    /\ at = [p \in Proc |-> [c \in Purl |-> "none"]]
    /\ noted = [p \in Proc |-> [c \in Purl |-> None]]
    /\ mem = [p \in Proc |-> NoTags]
    /\ kept = [p \in Proc |-> {}]
    /\ victims = [p \in Proc |-> {}]
    /\ victim = [p \in Proc |-> None]
    /\ orphans = {}
    /\ plan \in Plans

-----------------------------------------------------------------------------
Goto(p, label) == pc' = [pc EXCEPT ![p] = label]

At(p, c, where) == at' = [at EXCEPT ![p][c] = where]

\* Process p moves component c of its command on and notes something of it.
Notes(p, c, from, to, what) ==
    /\ pc[p] = "components"
    /\ at[p][c] = from
    /\ At(p, c, to)
    /\ noted' = [noted EXCEPT ![p][c] = what]
    /\ UNCHANGED <<repos, manifests, provenance, reports, pc, cmd, mem, prune>>

\* Process p moves component c of its command on, and touches nothing else.
Moves(p, c, from, to) == Notes(p, c, from, to, noted[p][c])

\* Process p ends, with the memory it had; the disk keeps what it wrote.
End(p, how) ==
    /\ Goto(p, how)
    /\ cmd' = [cmd EXCEPT ![p] = NoCommand]
    /\ at' = [at EXCEPT ![p] = [c \in Purl |-> "none"]]
    /\ noted' = [noted EXCEPT ![p] = [c \in Purl |-> None]]
    /\ mem' = [mem EXCEPT ![p] = NoTags]
    /\ kept' = [kept EXCEPT ![p] = {}]
    /\ victims' = [victims EXCEPT ![p] = {}]
    /\ victim' = [victim EXCEPT ![p] = None]

\* Process p goes on to label with its memory as it is, or ends there.
Continue(p, label) ==
    IF label \in Ended THEN End(p, label) ELSE Goto(p, label) /\ UNCHANGED memory

\* The command lines the commands take; a build need not tag what it built,
\* and a pull by digest does not.
CommandLines ==
    LET Lines(ops, sboms, froms, tags) ==
            [op : plan.commands \cap ops, sbom : sboms, from : froms, tag : tags]
    IN  UNION {Lines({"build", "pull"}, plan.sboms, {None}, plan.tags \cup {None}),
               Lines({"tag"}, {None}, plan.tags, plan.tags),
               Lines({"remove"}, {None}, {None}, plan.tags),
               Lines({"prune"}, {None}, {None}, {None})}

FirstStep == [build |-> "components", pull |-> "sbom", tag |-> "resolve",
              remove |-> "read_tags", prune |-> "prune_read"]

Start(p, line) ==
    /\ pc[p] = "ready"
    /\ p \in plan.procs
    /\ \A q \in plan.before[p] : pc[q] # "ready"
    /\ plan.overlap \/ \A q \in Proc : ~Busy(q)
    /\ cmd' = [cmd EXCEPT ![p] = line]
    /\ Goto(p, FirstStep[line.op])
    /\ at' = [at EXCEPT ![p] = [c \in Purl |->
                IF line.sbom # None /\ c \in Describes[line.sbom] THEN ToDo ELSE "none"]]
    /\ UNCHANGED <<disk, noted, mem, prune>>

Building(p) == cmd[p].op = "build"
Pulling(p) == cmd[p].op = "pull"
Removing(p) == cmd[p].op = "remove"
SBOMOf(p) == cmd[p].sbom
DeclaredBy(p, c) == Declares[SBOMOf(p)][c]

\* What follows a write of repositories.json.
AfterTags(p) ==
    CASE Building(p) -> "provenance" [] Removing(p) -> "prune_read" [] OTHER -> "done"

\* Where p goes to tag its package, or, if it was given no tag, goes instead.
Tagging(p, untagged) == IF cmd[p].tag = None THEN untagged ELSE "read_tags"

-----------------------------------------------------------------------------
(* What some steps would be with a plausible bug.  No behaviour of the     *)
(* specification takes these; each shows that a property would catch the   *)
(* bug, in place of the step its name starts with.                         *)

\* The create is not exclusive.
ClaimPIDFile_Shared(p, c) ==
    /\ Building(p)
    /\ Moves(p, c, "claim", "claimed")
    /\ pid' = [pid EXCEPT ![c] = p]
    /\ blank' = blank \cup {c}
    /\ UNCHANGED <<records, layer, staging>>

\* The pid file goes as soon as the plugin has returned.
FillDir_Releases(p, c, h) ==
    /\ Building(p)
    /\ layer[c] # "absent"
    /\ Notes(p, c, "fetching", "filled", h)
    /\ layer' = [layer EXCEPT ![c] = h]
    /\ pid' = [pid EXCEPT ![c] = None]
    /\ blank' = blank \ {c}
    /\ UNCHANGED <<records, staging>>

\* A directory that is there counts as pulled, with or without a manifest.
CheckManifest_ByDirectory(p, c) ==
    /\ Building(p)
    /\ Moves(p, c, "manifest", IF layer[c] = "absent" THEN "claim" ELSE "done")
    /\ UNCHANGED <<records, layer, claims, staging>>

\* A manifest that is there is kept.
WriteManifest_KeepsOld(p, c) ==
    /\ Building(p)
    /\ VerifyHash(DeclaredBy(p, c), noted[p][c])
    /\ Moves(p, c, "filled", "fetched")
    /\ records' = [records EXCEPT ![c] = IF @ = "absent" THEN noted[p][c] ELSE @]
    /\ UNCHANGED <<layer, claims, staging>>

\* Only the owner's death ends the wait.
WaitForPIDFile_DeathOnly(p, c) ==
    /\ Building(p)
    /\ ~Alive(noted[p][c])
    /\ Moves(p, c, "wait", ToDo)
    /\ UNCHANGED <<records, layer, claims, staging>>

\* The other tags are not written back.
WriteTags_OnlyOwn(p) ==
    /\ pc[p] = "write_tags"
    /\ repos' = [NoTags EXCEPT ![cmd[p].tag] = SBOMOf(p)]
    /\ Continue(p, AfterTags(p))
    /\ UNCHANGED <<manifests, provenance, records, layer, claims, reports, staging>>

\* What was downloaded is put in place without removing what is there first.
RestoreStage_Direct(p, c) ==
    /\ Pulling(p)
    /\ layer[c] = "absent"
    /\ Moves(p, c, ToDo, "staged")
    /\ staging' = staging \cup {<<p, c>>}
    /\ layer' = [layer EXCEPT ![c] = "partial"]
    /\ UNCHANGED <<records, claims>>

\* Candidates are what manifests/ lists.
PruneList_ManifestsOnly(p) ==
    /\ pc[p] = "prune_list"
    /\ victims' = [victims EXCEPT ![p] =
          (manifests \cup {c \in Purl : records[c] # "absent"}) \ kept[p]]
    /\ Goto(p, "prune")
    /\ UNCHANGED <<disk, cmd, at, noted, mem, kept, victim>>

-----------------------------------------------------------------------------
(* bomify build: plugin.Pull of each component, then finalizeBuild.        *)

\* The top of pull()'s loop: read the pid file.
CheckPID(p, c) ==
    /\ Building(p)
    /\ Notes(p, c, ToDo, IF ReadPID(c) = None THEN "manifest" ELSE "probe", ReadPID(c))
    /\ UNCHANGED <<records, layer, claims, staging>>

\* Probe the owner it names.
ProbeOwner(p, c) ==
    /\ Building(p)
    /\ Moves(p, c, "probe", IF Alive(noted[p][c]) THEN "wait" ELSE "stale")
    /\ UNCHANGED <<records, layer, claims, staging>>

\* waitForPIDFile returns once the file is gone or the owner it read is dead.
WaitForPIDFile(p, c) ==
    /\ Building(p)
    /\ pid[c] = None \/ ~Alive(noted[p][c])
    /\ Moves(p, c, "wait", ToDo)
    /\ UNCHANGED <<records, layer, claims, staging>>

\* Remove the pid file at the path, whoever made it.
RemovePID(c) ==
    /\ pid' = [pid EXCEPT ![c] = None]
    /\ blank' = blank \ {c}

RemoveStalePID(p, c) ==
    /\ Building(p)
    /\ Moves(p, c, "stale", "claim")
    /\ RemovePID(c)
    /\ UNCHANGED <<records, layer, staging>>

\* A recorded component that nobody is pulling is reused, if its hash agrees.
CheckManifest(p, c) ==
    /\ Building(p)
    /\ Moves(p, c, "manifest", IF records[c] = "absent" THEN "claim"
                               ELSE IF VerifyHash(DeclaredBy(p, c), records[c])
                               THEN "done" ELSE "failed")
    /\ UNCHANGED <<records, layer, claims, staging>>

\* The exclusive create; a file already there restarts the loop.
ClaimPIDFile(p, c) ==
    /\ Building(p)
    /\ IF pid[c] = None
       THEN /\ Moves(p, c, "claim", "claimed")
            /\ pid' = [pid EXCEPT ![c] = p]
            /\ blank' = blank \cup {c}
       ELSE Moves(p, c, "claim", ToDo) /\ UNCHANGED claims
    /\ UNCHANGED <<records, layer, staging>>

\* The pid goes into the file p created, linked or not.
WritePID(p, c) ==
    /\ Building(p)
    /\ Moves(p, c, "claimed", "clear")
    /\ blank' = IF pid[c] = p THEN blank \ {c} ELSE blank
    /\ UNCHANGED <<records, layer, pid, staging>>

\* The directory is emptied and made, and the plugin started.
ClearDir(p, c) ==
    /\ Building(p)
    /\ Moves(p, c, "clear", "fetching")
    /\ layer' = [layer EXCEPT ![c] = "partial"]
    /\ UNCHANGED <<records, claims, staging>>

\* The plugin has filled the directory with what its source serves today, h:
\* into a mix, if another plugin has put something else there since.
FillDir(p, c, h) ==
    /\ Building(p)
    /\ layer[c] # "absent"
    /\ Notes(p, c, "fetching", "filled", h)
    /\ layer' = [layer EXCEPT ![c] = IF @ \in {"partial", h} THEN h ELSE "partial"]
    /\ UNCHANGED <<records, claims, staging>>

\* The hash agrees, and the manifest is written.
WriteManifest(p, c) ==
    /\ Building(p)
    /\ VerifyHash(DeclaredBy(p, c), noted[p][c])
    /\ Moves(p, c, "filled", "fetched")
    /\ records' = [records EXCEPT ![c] = noted[p][c]]
    /\ UNCHANGED <<layer, claims, staging>>

\* The plugin fails, as it does when its directory is gone; or the hash
\* disagrees, or the manifest cannot be written: the directory is removed.
PullFails(p, c) ==
    /\ Building(p)
    /\ \/ /\ "fetch" \in plan.faults \/ layer[c] = "absent"
          /\ Moves(p, c, "fetching", "unfetched")
       \/ /\ "fetch" \in plan.faults \/ ~VerifyHash(DeclaredBy(p, c), noted[p][c])
          /\ Moves(p, c, "filled", "unfetched")
    /\ layer' = [layer EXCEPT ![c] = "absent"]
    /\ UNCHANGED <<records, claims, staging>>

\* The deferred os.Remove(pid).
Release(p, c) ==
    /\ Building(p)
    /\ \/ Moves(p, c, "fetched", "done")
       \/ Moves(p, c, "unfetched", "failed")
    /\ RemovePID(c)
    /\ UNCHANGED <<records, layer, staging>>

\* forEachComponent's Wait: every component has ended; any error ends the build.
ComponentsEnd(p) ==
    /\ pc[p] = "components"
    /\ \A c \in Purl : at[p][c] \in {"none", "done", "failed"}
    /\ Continue(p, IF \E c \in Purl : at[p][c] = "failed" THEN "failed"
                   ELSE IF Building(p) THEN "record" ELSE "reports")
    /\ UNCHANGED disk

RecordManifest(p) ==
    /\ pc[p] = "record"
    /\ manifests' = manifests \cup {SBOMOf(p)}
    /\ Goto(p, Tagging(p, "provenance"))
    /\ UNCHANGED <<repos, provenance, records, layer, claims, reports, staging,
                   memory>>

\* bomify tag's ResolveTag, which reads repositories.json for itself.
ResolveTag(p) ==
    /\ pc[p] = "resolve"
    /\ LET sbom == repos[cmd[p].from]
       IN  IF sbom = None
           THEN End(p, "failed")
           ELSE /\ cmd' = [cmd EXCEPT ![p].sbom = sbom]
                /\ Goto(p, "read_tags")
                /\ UNCHANGED <<at, noted, mem, prune>>
    /\ UNCHANGED disk

\* UpdateRepositories and RemoveTag read repositories.json, change one tag of
\* what they read, and write all of it back.
ReadTags(p) ==
    /\ pc[p] = "read_tags"
    /\ mem' = [mem EXCEPT ![p] = repos]
    /\ Goto(p, IF Removing(p) /\ repos[cmd[p].tag] = None
               THEN "prune_read" ELSE "write_tags")
    /\ UNCHANGED <<disk, cmd, at, noted, prune>>

WriteTags(p) ==
    /\ pc[p] = "write_tags"
    /\ repos' = [mem[p] EXCEPT ![cmd[p].tag] = SBOMOf(p)]
    /\ Continue(p, AfterTags(p))
    /\ UNCHANGED <<manifests, provenance, records, layer, claims, reports, staging>>

\* build --provenance writes its statement last; a build without it ends here.
WriteProvenance(p) ==
    /\ pc[p] = "provenance"
    /\ provenance' \in {provenance, provenance \cup {SBOMOf(p)}}
    /\ End(p, "done")
    /\ UNCHANGED <<repos, manifests, records, layer, claims, reports, staging>>

-----------------------------------------------------------------------------
(* bomify pull: the SBOM, each component through a staging directory, the  *)
(* vulnerability reports, and then the tag.                                *)

RestoreSBOM(p) ==
    /\ pc[p] = "sbom"
    /\ manifests' = manifests \cup {SBOMOf(p)}
    /\ Goto(p, "components")
    /\ UNCHANGED <<repos, provenance, records, layer, claims, reports, staging,
                   memory>>

\* componentRestore.run keeps a directory that exists.
RestoreKeep(p, c) ==
    /\ Pulling(p)
    /\ layer[c] # "absent"
    /\ Moves(p, c, ToDo, "record")
    /\ UNCHANGED <<records, layer, claims, staging>>

RestoreStage(p, c) ==
    /\ Pulling(p)
    /\ layer[c] = "absent"
    /\ Moves(p, c, ToDo, "staged")
    /\ staging' = staging \cup {<<p, c>>}
    /\ UNCHANGED <<records, layer, claims>>

\* Every file has been downloaded and verified: commit's RemoveAll.
RestoreClear(p, c) ==
    /\ Pulling(p)
    /\ <<p, c>> \in staging
    /\ Moves(p, c, "staged", "cleared")
    /\ layer' = [layer EXCEPT ![c] = "absent"]
    /\ UNCHANGED <<records, claims, staging>>

\* commit's Rename, which can replace only a missing or an empty directory.
RestoreRename(p, c) ==
    /\ Pulling(p)
    /\ <<p, c>> \in staging
    /\ layer[c] \in {"absent", "partial"}
    /\ Moves(p, c, "cleared", "record")
    /\ layer' = [layer EXCEPT ![c] = Packaged[SBOMOf(p)][c]]
    /\ staging' = staging \ {<<p, c>>}
    /\ UNCHANGED <<records, claims>>

\* A download, or commit, fails, or another component's failure cancelled it:
\* the staging directory is discarded.
RestoreFails(p, c) ==
    /\ Pulling(p)
    /\ \/ /\ \/ "fetch" \in plan.faults
             \/ <<p, c>> \notin staging
             \/ \E d \in Purl : at[p][d] = "failed"
          /\ Moves(p, c, "staged", "failed")
       \/ /\ layer[c] # "absent" \/ <<p, c>> \notin staging
          /\ Moves(p, c, "cleared", "failed")
    /\ staging' = staging \ {<<p, c>>}
    /\ UNCHANGED <<records, layer, claims>>

\* recordManifest writes the SBOM's entry over whatever was recorded.
RestoreRecord(p, c) ==
    /\ Pulling(p)
    /\ Moves(p, c, "record", "done")
    /\ records' = [records EXCEPT ![c] = DeclaredBy(p, c)]
    /\ UNCHANGED <<layer, claims, staging>>

\* The vulnerability gate refuses the package, which stays untagged.
ScanRefuses(p) ==
    /\ pc[p] = "reports"
    /\ "refuse" \in plan.faults
    /\ End(p, "failed")
    /\ UNCHANGED disk

\* The newest reports are restored when there are any and they verify, and a
\* fresh scan's replace them.
RestoreReports(p) ==
    /\ pc[p] = "reports"
    /\ \E some \in SUBSET Describes[SBOMOf(p)] : reports' = reports \cup some
    /\ Continue(p, Tagging(p, "done"))
    /\ UNCHANGED <<repos, manifests, provenance, records, layer, claims, staging>>

-----------------------------------------------------------------------------
(* bomify package prune.                                                   *)

\* What the tags reach: their SBOMs, and the components of those on disk.
Reachable(tags) ==
    LET tagged == {tags[t] : t \in Tag} \ {None}
    IN  tagged \cup UNION {Describes[s] : s \in tagged \cap manifests}

Recorded == {c \in Purl : records[c] # "absent"}

Layers == {c \in Purl : layer[c] # "absent"}

\* candidateHashes: what is listed in manifests/ (its .json files, so never a
\* pid file alone), layers/ and vulnerabilities/.
Candidates == manifests \cup Recorded \cup Layers \cup staging \cup reports

PruneRead(p) ==
    /\ pc[p] = "prune_read"
    /\ mem' = [mem EXCEPT ![p] = repos]
    /\ Goto(p, "prune_mark")
    /\ UNCHANGED <<disk, cmd, at, noted, prune>>

PruneMark(p) ==
    /\ pc[p] = "prune_mark"
    /\ kept' = [kept EXCEPT ![p] = Reachable(mem[p])]
    /\ Goto(p, "prune_list")
    /\ UNCHANGED <<disk, cmd, at, noted, mem, victims, victim>>

PruneList(p) ==
    /\ pc[p] = "prune_list"
    /\ victims' = [victims EXCEPT ![p] = Candidates \ kept[p]]
    /\ Goto(p, "prune")
    /\ UNCHANGED <<disk, cmd, at, noted, mem, kept, victim>>

\* The next victim: skipped while a live pid file names it.
PrunePick(p, h) ==
    /\ pc[p] = "prune"
    /\ h \in victims[p]
    /\ victims' = [victims EXCEPT ![p] = @ \ {h}]
    /\ IF h \in Purl /\ Live(h)
       THEN UNCHANGED <<pc, victim>>
       ELSE /\ victim' = [victim EXCEPT ![p] = h]
            /\ Goto(p, "prune_pid")
    /\ UNCHANGED <<disk, cmd, at, noted, mem, kept>>

\* The victim's pid file, stale when it was picked, goes first.
PrunePID(p) ==
    /\ pc[p] = "prune_pid"
    /\ pid' = [c \in Purl |-> IF c = victim[p] THEN None ELSE pid[c]]
    /\ blank' = blank \ {victim[p]}
    /\ Goto(p, "prune_manifest")
    /\ UNCHANGED <<repos, manifests, provenance, records, layer, reports, staging,
                   memory>>

\* The victim's manifest: an SBOM's, or a component's record.
PruneManifest(p) ==
    /\ pc[p] = "prune_manifest"
    /\ manifests' = manifests \ {victim[p]}
    /\ records' = [c \in Purl |-> IF c = victim[p] THEN "absent" ELSE records[c]]
    /\ Goto(p, "prune_provenance")
    /\ UNCHANGED <<repos, provenance, layer, claims, reports, staging, memory>>

PruneProvenance(p) ==
    /\ pc[p] = "prune_provenance"
    /\ provenance' = provenance \ {victim[p]}
    /\ Goto(p, "prune_layer")
    /\ UNCHANGED <<repos, manifests, records, layer, claims, reports, staging,
                   memory>>

\* RemoveAll of the victim's layer directory, which a crash leaves half done.
PruneLayer(p) ==
    /\ pc[p] = "prune_layer"
    /\ IF victim[p] \in Layers /\ layer[victim[p]] # "partial"
       THEN /\ layer' = [layer EXCEPT ![victim[p]] = "partial"]
            /\ UNCHANGED pc
       ELSE /\ layer' = [c \in Purl |-> IF c = victim[p] THEN "absent" ELSE layer[c]]
            /\ Goto(p, "prune_reports")
    /\ staging' = staging \ {victim[p]}
    /\ UNCHANGED <<repos, manifests, provenance, records, claims, reports,
                   memory>>

PruneReports(p) ==
    /\ pc[p] = "prune_reports"
    /\ reports' = reports \ {victim[p]}
    /\ Goto(p, "prune")
    /\ UNCHANGED <<repos, manifests, provenance, records, layer, claims, staging,
                   memory>>

PruneEnd(p) ==
    /\ pc[p] = "prune"
    /\ victims[p] = {}
    /\ End(p, "done")
    /\ UNCHANGED disk

-----------------------------------------------------------------------------
\* Nothing says any more that what is recorded may not be whole: a stale claim
\* is gone, and the new one not yet written, or the record not yet removed.
Taking(p) == \E c \in Recorded : at[p][c] \in {"claim", "claimed"}
Reclaiming(p) == pc[p] = "prune_manifest" /\ victim[p] \in Recorded

\* A process is killed; what it had on disk stays, its pid files now stale.
\* Nothing ties a plugin to it: a signal to the process group, or a lost
\* machine, ends both; otherwise its plugins survive.
Crash(p, survive) ==
    /\ "crash" \in plan.faults
    /\ survive => "orphan" \in plan.faults
    /\ Busy(p)
    /\ "taking" \in plan.faults \/ ~Taking(p)
    /\ "reclaiming" \in plan.faults \/ ~Reclaiming(p)
    /\ orphans' = IF survive
                  THEN orphans \cup {<<p, c>> : c \in {d \in Purl : at[p][d] = "fetching"}}
                  ELSE orphans
    /\ End(p, "crashed")
    /\ UNCHANGED disk

\* An orphaned plugin goes on writing into the directory it was given, as long
\* as that is there, whoever fills it now.
OrphanWrites(p, c, h) ==
    /\ <<p, c>> \in orphans
    /\ layer[c] # "absent"
    /\ layer' = [layer EXCEPT ![c] = h]
    /\ UNCHANGED <<repos, manifests, provenance, records, claims, reports, staging,
                   pc, memory, orphans>>

ComponentStep(p, c) ==
    \/ CheckPID(p, c)
    \/ ProbeOwner(p, c)
    \/ WaitForPIDFile(p, c)
    \/ RemoveStalePID(p, c)
    \/ CheckManifest(p, c)
    \/ ClaimPIDFile(p, c)
    \/ WritePID(p, c)
    \/ ClearDir(p, c)
    \/ \E h \in Source[c] : FillDir(p, c, h)
    \/ WriteManifest(p, c)
    \/ PullFails(p, c)
    \/ Release(p, c)
    \/ RestoreKeep(p, c)
    \/ RestoreStage(p, c)
    \/ RestoreClear(p, c)
    \/ RestoreRename(p, c)
    \/ RestoreFails(p, c)
    \/ RestoreRecord(p, c)

PruneStep(p) ==
    \/ PruneRead(p)
    \/ PruneMark(p)
    \/ PruneList(p)
    \/ \E h \in victims[p] : PrunePick(p, h)
    \/ PrunePID(p)
    \/ PruneManifest(p)
    \/ PruneProvenance(p)
    \/ PruneLayer(p)
    \/ PruneReports(p)
    \/ PruneEnd(p)

CommandStep(p) ==
    \/ ComponentsEnd(p)
    \/ RecordManifest(p)
    \/ ResolveTag(p)
    \/ ReadTags(p)
    \/ WriteTags(p)
    \/ WriteProvenance(p)
    \/ RestoreSBOM(p)
    \/ ScanRefuses(p)
    \/ RestoreReports(p)
    \/ PruneStep(p)

Step(p) == CommandStep(p) \/ \E c \in Purl : ComponentStep(p, c)

Next ==
    /\ \/ \E p \in Proc : Step(p) /\ UNCHANGED orphans
       \/ \E p \in Proc, survive \in BOOLEAN : Crash(p, survive)
       \/ \E p \in Proc, c \in Purl : \E h \in Source[c] \cup {"partial"} : OrphanWrites(p, c, h)
       \/ \E p \in Proc, line \in CommandLines : Start(p, line) /\ UNCHANGED orphans
    /\ UNCHANGED plan

Spec == Init /\ [][Next]_vars

\* A running process keeps running unless it is killed, and so does the goroutine
\* that it has for each component.
FairSpec ==
    /\ Spec
    /\ \A p \in Proc :
          /\ WF_vars(p \in plan.procs /\ CommandStep(p) /\ UNCHANGED <<orphans, plan>>)
          /\ \A c \in Purl : WF_vars(/\ p \in plan.procs /\ ComponentStep(p, c)
                                     /\ UNCHANGED <<orphans, plan>>)

-----------------------------------------------------------------------------
(* Properties.                                                             *)

Held == {"claimed", "clear", "fetching", "filled", "fetched", "unfetched"}

Wheres == {"none", ToDo, "probe", "wait", "stale", "manifest", "claim", "staged",
           "cleared", "record", "done", "failed"} \cup Held

Labels == Ended \cup {"ready", "components", "record", "sbom", "reports",
    "resolve", "read_tags", "write_tags", "provenance", "prune_read", "prune_mark",
    "prune_list", "prune", "prune_pid", "prune_manifest", "prune_provenance", "prune_layer",
    "prune_reports"}

TypeOK ==
    /\ repos \in [Tag -> SBOM \cup {None}]
    /\ manifests \subseteq SBOM
    /\ provenance \subseteq SBOM
    /\ records \in [Purl -> Hash \cup {None, "absent"}]
    /\ layer \in [Purl -> Hash \cup {"absent", "partial"}]
    /\ pid \in [Purl -> Proc \cup {None}]
    /\ blank \subseteq Purl
    /\ reports \subseteq Purl
    /\ staging \subseteq Proc \X Purl
    /\ pc \in [Proc -> Labels]
    /\ at \in [Proc -> [Purl -> Wheres]]
    /\ noted \in [Proc -> [Purl -> Proc \cup Hash \cup {None}]]
    /\ mem \in [Proc -> [Tag -> SBOM \cup {None}]]
    /\ orphans \subseteq Proc \X Purl
    /\ plan \in Plans

InTurn == ~plan.overlap

\* Builds and copies of tags, at once, that nothing kills, and whose pids are not
\* given to others while somebody still looks for them.
Steady ==
    /\ plan.commands \subseteq {"build", "tag"}
    /\ plan.faults \cap {"crash", "exit"} = {}

\* Nobody removes the pid file of a live build or fills its directory beside it.
Orderly ==
    \/ Steady
    \/ InTurn /\ plan.faults \cap {"taking", "reclaiming", "orphan"} = {}

\* A component is the same wherever it comes from.
SameEverywhere(c, k) ==
    /\ "build" \in plan.commands => Source[c] \subseteq {k}
    /\ \A s \in plan.sboms : Packaged[s][c] = k /\ Declares[s][c] \in {k, None}

OneContent ==
    \A s \in plan.sboms : \A c \in Describes[s] : \E k \in Hash : SameEverywhere(c, k)

\* Nothing is pulled, or a component is the same wherever it comes from: a pull
\* keeps any directory it finds, and records the hash its own SBOM declares.
Consistent == "pull" \in plan.commands => OneContent

\* No fetch of a package that is built fails, or disagrees with its SBOM.
FetchesSucceed ==
    /\ "fetch" \notin plan.faults
    /\ \A s \in plan.sboms : \A c \in Describes[s] : \A h \in Source[c] :
          VerifyHash(Declares[s][c], h)

\* What is killed is a build, a copy, a removal or a prune, with its plugins and
\* not while it takes a stale claim away; no fetch fails then.
Gentle ==
    /\ plan.faults \cap {"taking", "reclaiming", "orphan"} = {}
    /\ "crash" \in plan.faults => "pull" \notin plan.commands /\ FetchesSucceed

\* A package is there whole, with the content its SBOM s declares.
Backed(s) ==
    /\ s \in manifests
    /\ \A c \in Describes[s] : layer[c] \in Hash /\ VerifyHash(Declares[s][c], layer[c])

\* A tag always resolves to a package that push can read: its SBOM is there,
\* and each component it describes is there whole, with the content it declares
\* (the order build and pull write in, and what prune may remove).
TagsBacked == \A t \in Tag : repos[t] # None => Backed(repos[t])

\* So it is when the commands run one after another, some of them killed.  A
\* stale claim is then all that keeps the next build from reusing the record of
\* a directory that is not whole (cache.go:37-59), and it is not when a command
\* is killed just as it takes that claim away, when a plugin outlives it, when
\* the next fetch fails, or when the next command is a pull.
TagsBackedInTurn == InTurn /\ Consistent /\ Gentle => TagsBacked

\* A build at once with others refetches a component that was recorded while it
\* looked (cache.go:51-69), under the tag that another has given it; otherwise
\* what builds have tagged is there, and recorded.
BuildsBacked ==
    Steady /\ FetchesSucceed =>
        \A t \in Tag : repos[t] # None =>
            /\ repos[t] \in manifests
            /\ \A c \in Describes[repos[t]] :
                  /\ records[c] # "absent"
                  /\ \/ layer[c] \in Hash /\ VerifyHash(Declares[repos[t]][c], layer[c])
                     \/ pid[c] # None /\ at[pid[c]][c] = "fetching"

\* A pull at once with others has what it has tagged, but for the moment in which
\* another puts its own copy in place of it (commit's RemoveAll and Rename).
PullsBacked ==
    plan.commands = {"pull"} /\ "crash" \notin plan.faults /\ Consistent =>
        \A t \in Tag : repos[t] # None =>
            /\ repos[t] \in manifests
            /\ \A c \in Describes[repos[t]] :
                  \/ layer[c] \in Hash /\ VerifyHash(Declares[repos[t]][c], layer[c])
                  \/ \E p \in Proc : at[p][c] = "cleared"

\* A stale claim of c is being taken away, to pull it or to reclaim it.
Taken(c) ==
    \E p \in Proc : \/ at[p][c] = "claim" /\ noted[p][c] # None
                    \/ pc[p] = "prune_manifest" /\ victim[p] = c

\* A recorded hash is that of the content in the directory beside it, which a
\* build that reuses the record does not read again, as long as nobody claims the
\* component or is taking a stale claim away: when commands run in turn and plugins
\* end with them, or builds run at once.
RecordsHonest ==
    Consistent /\ Orderly =>
        \A c \in Purl : records[c] \in Hash /\ layer[c] \in Hash =>
            records[c] = layer[c] \/ pid[c] # None \/ Taken(c)

\* Writing repositories.json changes no tag but the command's own.
OthersTagsKept ==
    [][\A t \in Tag : repos'[t] # repos[t] =>
          \E p \in Proc : pc[p] = "write_tags" /\ cmd[p].tag = t]_repos

FetchesSpared ==
    \A p \in Proc, c \in Purl :
        at[p][c] \in {"fetching", "filled"} /\ layer'[c] # layer[c] => at'[p][c] # at[p][c]

\* While a build's plugin is filling a component's directory, and until its hash
\* is recorded, nobody else changes or removes that directory.
LivePullSpared == [][FetchesSpared]_layer

\* So it is when commands run in turn and plugins end with them, or builds run at
\* once: the pid file keeps the others out, as long as no live one is removed.
LivePullSparedInOrder == [][Orderly => FetchesSpared]_layer

Pruned(p) == pc[p] = "prune" /\ pc'[p] = "done"

\* A provenance statement whose SBOM a crashed prune removed before it is not
\* found again.
PruneReclaimsProvenance ==
    [][\A p \in Proc : Pruned(p) => provenance \subseteq Reachable(repos)]_pc

\* After a prune that ran by itself, nothing is left of what it lists that no
\* tag reaches, but what a live pull is still at, and no provenance statement of
\* a build that is gone, unless commands crash.
PruneReclaims ==
    [][\A p \in Proc : Pruned(p) =>
          /\ \A h \in Candidates \ Reachable(repos) : h \in Purl /\ Live(h)
          /\ "crash" \in plan.faults \/ provenance \subseteq Reachable(repos)]_pc

\* A component's manifest is filled in only if missing by bomify pull: the hash
\* that a build computed stays.
RestoreKeepsRecord ==
    [][\A p \in Proc, c \in Purl : RestoreRecord(p, c) /\ records[c] # "absent" =>
          records' = records]_vars

\* A prune removes no component that a tag reaches by then.
PruneSparesTagged ==
    [][\A p \in Proc, c \in Purl :
          pc[p] = "prune_layer" /\ victim[p] = c /\ layer'[c] # layer[c] =>
              c \notin Reachable(repos)]_layer

\* A directory that a live pull stages a component in is not removed under it.
LiveStagingSpared ==
    [][\A p \in Proc, c \in Purl :
          <<p, c>> \in staging \ staging' /\ Alive(p) => at'[p][c] # at[p][c]]_staging

\* Every command ends, whatever the others hold claims of, unless some are killed:
\* a claim that its owner leaves without a pid makes every later build spin.  As
\* each process runs one command, all end if there is always a time when none runs.
EveryCommandEnds ==
    []<>("crash" \in plan.faults \/ \A p \in Proc : ~Busy(p))

=============================================================================

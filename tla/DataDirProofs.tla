--------------------------- MODULE DataDirProofs ---------------------------
(***************************************************************************)
(* What TLAPS proves of DataDir, for any number of processes, packages,    *)
(* components, tags and contents, and any set of plans.                    *)
(*                                                                         *)
(* Most of it only holds of some plans: no lock keeps the commands apart.  *)
(* What a theorem needs is a predicate on the plan, which never changes.   *)
(***************************************************************************)
EXTENDS DataDir, TLAPS

Command ==
    [op : CommandKinds \cup {"none"}, sbom : SBOM \cup {None},
     from : Tag \cup {None}, tag : Tag \cup {None}]

\* What a prune may come by, or reclaim.
Names == SBOM \cup Purl \cup (Proc \X Purl)

\* What a command may note of a component.
Noted == Proc \cup Hash \cup {None}

PruneLabels == {"prune_read", "prune_mark", "prune_list", "prune", "prune_pid",
    "prune_manifest", "prune_provenance", "prune_layer", "prune_reports"}

\* Where only a build is, looking for an owner or with its own pid file, and
\* where only a pull is.
Looking == {"probe", "wait", "stale"}
Builds == Looking \cup {"manifest", "claim"} \cup Held
Pulls == {"staged", "cleared", "record"}

\* Which command a process runs at each label, and on what.
Fits(p) ==
    /\ Busy(p) => cmd[p].op \in plan.commands
    /\ Busy(p) /\ (Building(p) \/ Pulling(p)) => SBOMOf(p) \in plan.sboms
    /\ Busy(p) /\ Removing(p) => SBOMOf(p) = None
    /\ pc[p] = "components" => Building(p) \/ Pulling(p)
    /\ pc[p] \in {"record", "provenance"} => Building(p)
    /\ pc[p] \in {"sbom", "reports"} => Pulling(p)
    /\ pc[p] = "resolve" => cmd[p].op = "tag" /\ cmd[p].from \in Tag
    /\ pc[p] \in {"resolve", "read_tags", "write_tags"} => cmd[p].tag \in Tag
    /\ pc[p] \in {"read_tags", "write_tags"} =>
          /\ cmd[p].op \in {"build", "pull", "tag", "remove"}
          /\ cmd[p].op = "tag" => SBOMOf(p) \in SBOM
    /\ pc[p] \in PruneLabels => cmd[p].op \in {"remove", "prune"}

\* How far a process can be with a component, and what it has noted of it then.
Places(p) ==
    /\ pc[p] \in {"sbom", "components"} =>
          \A c \in Purl : at[p][c] = "none" <=> c \notin Describes[SBOMOf(p)]
    /\ pc[p] = "sbom" => \A c \in Purl : at[p][c] \in {"none", ToDo}
    /\ pc[p] \notin {"sbom", "components"} => \A c \in Purl : at[p][c] \in {"none", "done"}
    /\ \A c \in Purl : at[p][c] \in Builds => Building(p)
    /\ \A c \in Purl : at[p][c] \in Pulls => Pulling(p)
    /\ \A c \in Purl : at[p][c] \in Looking => noted[p][c] \in Proc
    /\ \A c \in Purl : at[p][c] \in {"filled", "fetched"} => noted[p][c] \in Hash

Memory ==
    /\ cmd \in [Proc -> Command]
    /\ kept \in [Proc -> SUBSET Names]
    /\ victims \in [Proc -> SUBSET Names]
    /\ victim \in [Proc -> Names \cup {None}]
    /\ plan \in PlanType

TypeInv ==
    /\ TypeOK
    /\ Memory
    /\ \A p \in Proc : Fits(p) /\ Places(p)

\* A step of process p, of whatever kind, and one of a plugin that outlived its
\* process.
StepOf(p) ==
    \/ Step(p) /\ UNCHANGED orphans
    \/ \E survive \in BOOLEAN : Crash(p, survive)
    \/ \E line \in CommandLines : Start(p, line) /\ UNCHANGED orphans

OrphanStep ==
    \E p \in Proc, c \in Purl : \E h \in Source[c] \cup {"partial"} : OrphanWrites(p, c, h)

LEMMA EveryStepIsOfOne ==
    ASSUME Next
    PROVE  ((\E p \in Proc : StepOf(p)) \/ OrphanStep) /\ plan' = plan
BY DEF Next, StepOf, OrphanStep

-----------------------------------------------------------------------------
(***************************************************************************)
(* Type correctness.                                                       *)
(***************************************************************************)

LEMMA LinesTyped ==
    ASSUME TypeInv, NEW line \in CommandLines
    PROVE  /\ line \in Command
           /\ line.op \in plan.commands
           /\ line.op \in {"build", "pull", "tag", "remove", "prune"}
           /\ line.op \in {"build", "pull"} => line.sbom \in plan.sboms /\ line.sbom \in SBOM
           /\ line.op = "tag" => line.from \in Tag /\ line.tag \in Tag
           /\ line.op = "remove" => line.tag \in Tag
           /\ line.op \in {"tag", "remove", "prune"} => line.sbom = None
<1>1. plan.commands \subseteq CommandKinds /\ plan.sboms \subseteq SBOM /\ plan.tags \subseteq Tag
  BY DEF TypeInv, Memory, PlanType
<1>2. QED
  BY <1>1 DEF CommandLines, Command, CommandKinds

\* A process that ends forgets its command, and leaves every other as it was.
LEMMA EndTyped ==
    ASSUME TypeInv, NEW p \in Proc, NEW how \in Ended, End(p, how), plan' = plan
    PROVE  /\ pc' \in [Proc -> Labels]
           /\ at' \in [Proc -> [Purl -> Wheres]]
           /\ noted' \in [Proc -> [Purl -> Noted]]
           /\ mem' \in [Proc -> [Tag -> SBOM \cup {None}]]
           /\ Memory'
           /\ \A q \in Proc : Fits(q)' /\ Places(q)'
<1>1. /\ pc' \in [Proc -> Labels]
      /\ mem' \in [Proc -> [Tag -> SBOM \cup {None}]]
      /\ at' \in [Proc -> [Purl -> Wheres]]
      /\ noted' \in [Proc -> [Purl -> Noted]]
      /\ Memory'
  BY DEF TypeInv, TypeOK, Memory, End, Goto, Labels, Ended, Wheres, Noted, NoTags, NoCommand, Command
<1>2. ASSUME NEW q \in Proc
      PROVE  Fits(q)' /\ Places(q)'
  <2>1. CASE q = p
    BY <2>1 DEF TypeInv, TypeOK, Memory, Fits, Places, Busy, End, Goto, Ended, PruneLabels, Held,
                Looking, Builds, Pulls
  <2>2. CASE q # p
    BY <2>2 DEF TypeInv, TypeOK, Memory, Fits, Places, Busy, End, Goto, Building, Pulling,
                Removing, SBOMOf
  <2>3. QED
    BY <2>1, <2>2
<1>3. QED
  BY <1>1, <1>2

\* What a process does fits it after a step that is not its own.
LEMMA OthersFit ==
    ASSUME TypeInv, plan' = plan, NEW q \in Proc,
           pc'[q] = pc[q], cmd'[q] = cmd[q], at'[q] = at[q], noted'[q] = noted[q]
    PROVE  Fits(q)' /\ Places(q)'
BY DEF TypeInv, Fits, Places, Busy, Building, Pulling, Removing, SBOMOf

\* What a step that moves one component on does.
LEMMA NotesMeans ==
    ASSUME TypeInv, NEW p \in Proc, NEW c \in Purl, NEW from, NEW to \in Wheres,
           NEW what \in Noted, Notes(p, c, from, to, what)
    PROVE  /\ pc[p] = "components" /\ at[p][c] = from
           /\ at'[p][c] = to /\ noted'[p][c] = what
           /\ \A d \in Purl : d # c => at'[p][d] = at[p][d] /\ noted'[p][d] = noted[p][d]
           /\ \A q \in Proc : q # p => at'[q] = at[q] /\ noted'[q] = noted[q]
           /\ at' \in [Proc -> [Purl -> Wheres]]
           /\ noted' \in [Proc -> [Purl -> Noted]]
           /\ pc' = pc /\ cmd' = cmd /\ mem' = mem
           /\ kept' = kept /\ victims' = victims /\ victim' = victim
           /\ repos' = repos /\ manifests' = manifests /\ provenance' = provenance /\ reports' = reports
<1>1. at \in [Proc -> [Purl -> Wheres]] /\ noted \in [Proc -> [Purl -> Noted]]
  BY DEF TypeInv, TypeOK, Noted
<1>2. at' = [at EXCEPT ![p][c] = to] /\ noted' = [noted EXCEPT ![p][c] = what]
  BY DEF Notes, At
<1>3. /\ at'[p][c] = to
      /\ \A d \in Purl : d # c => at'[p][d] = at[p][d]
      /\ \A q \in Proc : q # p => at'[q] = at[q]
      /\ at' \in [Proc -> [Purl -> Wheres]]
  BY <1>1, <1>2
<1>4. /\ noted'[p][c] = what
      /\ \A d \in Purl : d # c => noted'[p][d] = noted[p][d]
      /\ \A q \in Proc : q # p => noted'[q] = noted[q]
      /\ noted' \in [Proc -> [Purl -> Noted]]
  BY <1>1, <1>2
<1>5. QED
  BY <1>3, <1>4 DEF Notes, prune

\* A step that moves one component on.
LEMMA NotesTyped ==
    ASSUME TypeInv, NEW p \in Proc, NEW c \in Purl, NEW from, NEW to \in Wheres,
           NEW what \in Noted, Notes(p, c, from, to, what), plan' = plan,
           from # "none", to # "none",
           to \in Builds => Building(p), to \in Pulls => Pulling(p),
           to \in Looking => what \in Proc, to \in {"filled", "fetched"} => what \in Hash
    PROVE  /\ repos' \in [Tag -> SBOM \cup {None}]
           /\ manifests' \subseteq SBOM
           /\ provenance' \subseteq SBOM
           /\ reports' \subseteq Purl
           /\ pc' \in [Proc -> Labels]
           /\ at' \in [Proc -> [Purl -> Wheres]]
           /\ noted' \in [Proc -> [Purl -> Noted]]
           /\ mem' \in [Proc -> [Tag -> SBOM \cup {None}]]
           /\ plan' \in Plans
           /\ Memory'
           /\ \A q \in Proc : Fits(q)' /\ Places(q)'
<1>1. /\ pc[p] = "components" /\ at[p][c] = from
      /\ at'[p][c] = to /\ noted'[p][c] = what
      /\ \A d \in Purl : d # c => at'[p][d] = at[p][d] /\ noted'[p][d] = noted[p][d]
      /\ \A q \in Proc : q # p => at'[q] = at[q] /\ noted'[q] = noted[q]
      /\ at' \in [Proc -> [Purl -> Wheres]]
      /\ noted' \in [Proc -> [Purl -> Noted]]
      /\ pc' = pc /\ cmd' = cmd /\ mem' = mem
      /\ kept' = kept /\ victims' = victims /\ victim' = victim
      /\ repos' = repos /\ manifests' = manifests /\ provenance' = provenance /\ reports' = reports
  BY NotesMeans
<1>2. Fits(p)'
  BY <1>1 DEF TypeInv, Fits, Busy, Building, Pulling, Removing, SBOMOf
<1>3. Places(p)'
  <2>1. Places(p)
    BY DEF TypeInv
  <2>2. ASSUME NEW d \in Purl
        PROVE  /\ at'[p][d] = "none" <=> at[p][d] = "none"
               /\ at'[p][d] \in Builds => Building(p)
               /\ at'[p][d] \in Pulls => Pulling(p)
               /\ at'[p][d] \in Looking => noted'[p][d] \in Proc
               /\ at'[p][d] \in {"filled", "fetched"} => noted'[p][d] \in Hash
    BY <1>1, <2>1 DEF Places
  <2>3. QED
    BY <1>1, <2>1, <2>2 DEF Places, Building, Pulling, SBOMOf
<1>4. \A q \in Proc : q # p => Fits(q)' /\ Places(q)'
  BY <1>1, OthersFit
<1>5. QED
  BY <1>1, <1>2, <1>3, <1>4 DEF TypeInv, TypeOK, Memory

LEMMA ComponentStepTyped ==
    ASSUME TypeInv, NEW p \in Proc, NEW c \in Purl, ComponentStep(p, c), UNCHANGED <<orphans, plan>>
    PROVE  TypeInv'
<1>1. /\ records \in [Purl -> Hash \cup {None, "absent"}]
      /\ layer \in [Purl -> Hash \cup {"absent", "partial"}]
      /\ pid \in [Purl -> Proc \cup {None}]
      /\ blank \subseteq Purl
      /\ staging \subseteq Proc \X Purl
      /\ noted[p][c] \in Noted
      /\ orphans \subseteq Proc \X Purl
  BY DEF TypeInv, TypeOK, Noted
<1>2. pc[p] = "components" => SBOMOf(p) \in SBOM
  BY DEF TypeInv, Memory, Fits, Busy, Ended, PlanType, Building, Pulling
<1>3. Places(p)
  BY DEF TypeInv
<1> DEFINE DiskTyped == /\ records' \in [Purl -> Hash \cup {None, "absent"}]
                        /\ layer' \in [Purl -> Hash \cup {"absent", "partial"}]
                        /\ pid' \in [Purl -> Proc \cup {None}]
                        /\ blank' \subseteq Purl
                        /\ staging' \subseteq Proc \X Purl
<1>4. ASSUME NEW from, NEW to \in Wheres, NEW what \in Noted, Notes(p, c, from, to, what),
             from # "none", to # "none",
             to \in Builds => Building(p), to \in Pulls => Pulling(p),
             to \in Looking => what \in Proc, to \in {"filled", "fetched"} => what \in Hash,
             DiskTyped
      PROVE  TypeInv'
  <2>1. /\ repos' \in [Tag -> SBOM \cup {None}]
        /\ manifests' \subseteq SBOM
        /\ provenance' \subseteq SBOM
        /\ reports' \subseteq Purl
        /\ pc' \in [Proc -> Labels]
        /\ at' \in [Proc -> [Purl -> Wheres]]
        /\ noted' \in [Proc -> [Purl -> Noted]]
        /\ mem' \in [Proc -> [Tag -> SBOM \cup {None}]]
        /\ plan' \in Plans
        /\ Memory'
        /\ \A q \in Proc : Fits(q)' /\ Places(q)'
    BY <1>4, NotesTyped
  <2>2. QED
    BY <1>1, <1>4, <2>1 DEF TypeInv, TypeOK, Noted
<1>5. ASSUME NEW from, NEW to \in Wheres, Moves(p, c, from, to), from # "none", to # "none",
             to \in Builds => Building(p), to \in Pulls => Pulling(p),
             to \in Looking => from \in Looking,
             to \in {"filled", "fetched"} => from \in {"filled", "fetched"},
             DiskTyped
      PROVE  TypeInv'
  <2>1. at[p][c] = from /\ Notes(p, c, from, to, noted[p][c])
    BY <1>5 DEF Moves, Notes
  <2> HIDE DEF DiskTyped
  <2>2. QED
    BY <1>1, <1>3, <1>4, <1>5, <2>1 DEF Places
<1> USE DEF Wheres, ToDo, Held, Looking, Builds, Pulls
<1>6. CASE CheckPID(p, c)
  <2>1. ReadPID(c) \in Proc \cup {None} /\ ReadPID(c) \in Noted
    BY <1>1 DEF ReadPID, Noted
  <2>2. DiskTyped
    BY <1>1, <1>6 DEF CheckPID, claims
  <2> HIDE DEF DiskTyped
  <2>3. CASE ReadPID(c) = None
    BY <1>4, <1>6, <2>1, <2>2, <2>3 DEF CheckPID
  <2>4. CASE ReadPID(c) # None
    BY <1>4, <1>6, <2>1, <2>2, <2>4 DEF CheckPID
  <2>5. QED
    BY <2>3, <2>4
<1>7. CASE ProbeOwner(p, c)
  <2>1. DiskTyped
    BY <1>1, <1>7 DEF ProbeOwner, claims
  <2> HIDE DEF DiskTyped
  <2>2. CASE Alive(noted[p][c])
    BY <1>5, <1>7, <2>1, <2>2 DEF ProbeOwner
  <2>3. CASE ~Alive(noted[p][c])
    BY <1>5, <1>7, <2>1, <2>3 DEF ProbeOwner
  <2>4. QED
    BY <2>2, <2>3
<1>8. CASE WaitForPIDFile(p, c)
  BY <1>1, <1>5, <1>8 DEF WaitForPIDFile, claims
<1>9. CASE RemoveStalePID(p, c)
  <2>1. DiskTyped
    BY <1>1, <1>9 DEF RemoveStalePID, RemovePID
  <2> HIDE DEF DiskTyped
  <2>2. QED
    BY <1>5, <1>9, <2>1 DEF RemoveStalePID
<1>10. CASE CheckManifest(p, c)
  <2>1. DiskTyped
    BY <1>1, <1>10 DEF CheckManifest, claims
  <2>2. ASSUME NEW to \in {"claim", "done", "failed"}, Moves(p, c, "manifest", to), Building(p)
        PROVE  TypeInv'
    BY <1>5, <2>1, <2>2
  <2>3. QED
    BY <1>10, <2>2 DEF CheckManifest
<1>11. CASE ClaimPIDFile(p, c)
  <2>1. DiskTyped
    BY <1>1, <1>11 DEF ClaimPIDFile, claims
  <2> HIDE DEF DiskTyped
  <2>2. CASE pid[c] = None
    BY <1>5, <1>11, <2>1, <2>2 DEF ClaimPIDFile
  <2>3. CASE pid[c] # None
    BY <1>5, <1>11, <2>1, <2>3 DEF ClaimPIDFile
  <2>4. QED
    BY <2>2, <2>3
<1>12. CASE WritePID(p, c)
  <2>1. DiskTyped
    BY <1>1, <1>12 DEF WritePID
  <2> HIDE DEF DiskTyped
  <2>2. QED
    BY <1>5, <1>12, <2>1 DEF WritePID
<1>13. CASE ClearDir(p, c)
  <2>1. DiskTyped
    BY <1>1, <1>13 DEF ClearDir, claims
  <2> HIDE DEF DiskTyped
  <2>2. QED
    BY <1>5, <1>13, <2>1 DEF ClearDir
<1>14. ASSUME NEW h \in Source[c], FillDir(p, c, h)
       PROVE  TypeInv'
  <2>1. h \in Hash
    BY ConstantsAssumption
  <2>2. DiskTyped
    BY <1>1, <1>14, <2>1 DEF FillDir, claims
  <2> HIDE DEF DiskTyped
  <2>3. QED
    BY <1>4, <1>14, <2>1, <2>2 DEF FillDir, Noted
<1>15. CASE WriteManifest(p, c)
  <2>1. noted[p][c] \in Hash
    BY <1>3, <1>15 DEF WriteManifest, Moves, Notes, Places
  <2>2. DiskTyped
    BY <1>1, <1>15, <2>1 DEF WriteManifest, claims
  <2> HIDE DEF DiskTyped
  <2>3. QED
    BY <1>5, <1>15, <2>2 DEF WriteManifest
<1>16. CASE PullFails(p, c)
  <2>1. DiskTyped
    BY <1>1, <1>16 DEF PullFails, claims
  <2>2. ASSUME NEW from \in {"fetching", "filled"}, Moves(p, c, from, "unfetched"), Building(p)
        PROVE  TypeInv'
    BY <1>5, <2>1, <2>2
  <2>3. QED
    BY <1>16, <2>2 DEF PullFails
<1>17. CASE Release(p, c)
  <2>1. DiskTyped
    BY <1>1, <1>17 DEF Release, RemovePID
  <2> HIDE DEF DiskTyped
  <2>2. QED
    BY <1>5, <1>17, <2>1 DEF Release
<1>18. CASE RestoreKeep(p, c)
  BY <1>1, <1>5, <1>18 DEF RestoreKeep, claims
<1>19. CASE RestoreStage(p, c)
  BY <1>1, <1>5, <1>19 DEF RestoreStage, claims
<1>20. CASE RestoreClear(p, c)
  BY <1>1, <1>5, <1>20 DEF RestoreClear, claims
<1>21. CASE RestoreRename(p, c)
  <2>1. Packaged[SBOMOf(p)][c] \in Hash
    BY <1>2, <1>21, ConstantsAssumption DEF RestoreRename, Moves, Notes
  <2>2. DiskTyped
    BY <1>1, <1>21, <2>1 DEF RestoreRename, claims
  <2> HIDE DEF DiskTyped
  <2>3. QED
    BY <1>5, <1>21, <2>2 DEF RestoreRename
<1>22. CASE RestoreFails(p, c)
  <2>1. DiskTyped
    BY <1>1, <1>22 DEF RestoreFails, claims
  <2>2. ASSUME NEW from \in {"staged", "cleared"}, Moves(p, c, from, "failed"), Pulling(p)
        PROVE  TypeInv'
    BY <1>5, <2>1, <2>2
  <2>3. QED
    BY <1>22, <2>2 DEF RestoreFails
<1>23. CASE RestoreRecord(p, c)
  <2>1. DeclaredBy(p, c) \in Hash \cup {None}
    BY <1>2, <1>23, ConstantsAssumption DEF RestoreRecord, Moves, Notes, DeclaredBy
  <2>2. DiskTyped
    BY <1>1, <1>23, <2>1 DEF RestoreRecord, claims
  <2> HIDE DEF DiskTyped
  <2>3. QED
    BY <1>5, <1>23, <2>2 DEF RestoreRecord
<1>24. QED
  BY <1>6, <1>7, <1>8, <1>9, <1>10, <1>11, <1>12, <1>13, <1>14, <1>15, <1>16, <1>17, <1>18, <1>19,
     <1>20, <1>21, <1>22, <1>23 DEF ComponentStep

\* A step that leaves the memory alone and goes from one label to another.
LEMMA GotoTyped ==
    ASSUME TypeInv, NEW p \in Proc, NEW label \in Labels, Goto(p, label),
           UNCHANGED <<cmd, at, noted, plan>>,
           mem' \in [Proc -> [Tag -> SBOM \cup {None}]],
           kept' \in [Proc -> SUBSET Names],
           victims' \in [Proc -> SUBSET Names],
           victim' \in [Proc -> Names \cup {None}],
           pc[p] \notin {"ready", "sbom"} \cup Ended,
           pc[p] = "components" => \A c \in Purl : at[p][c] \in {"none", "done"},
           label \notin {"ready", "components", "sbom", "resolve"} \cup Ended,
           label \in {"record", "provenance"} => Building(p),
           label = "reports" => Pulling(p),
           label \in {"read_tags", "write_tags"} =>
              /\ cmd[p].tag \in Tag
              /\ cmd[p].op \in {"build", "pull", "tag", "remove"}
              /\ cmd[p].op = "tag" => SBOMOf(p) \in SBOM,
           label \in PruneLabels => cmd[p].op \in {"remove", "prune"}
    PROVE  /\ pc' \in [Proc -> Labels]
           /\ Memory'
           /\ \A q \in Proc : Fits(q)' /\ Places(q)'
<1>1. pc' = [pc EXCEPT ![p] = label] /\ pc \in [Proc -> Labels]
  BY DEF Goto, TypeInv, TypeOK
<1>2. Fits(p)' /\ Places(p)'
  <2>1. pc'[p] = label
    BY <1>1
  <2>2. Fits(p) /\ Places(p)
    BY DEF TypeInv
  <2>3. Fits(p)'
    BY <2>1, <2>2 DEF Fits, Busy, Building, Pulling, Removing, SBOMOf
  <2>4. Places(p)'
    BY <2>1, <2>2 DEF Places, Building, Pulling, SBOMOf
  <2>5. QED
    BY <2>3, <2>4
<1>3. \A q \in Proc : q # p => Fits(q)' /\ Places(q)'
  BY <1>1, OthersFit
<1>4. QED
  BY <1>1, <1>2, <1>3 DEF TypeInv, Memory

LEMMA StartTyped ==
    ASSUME TypeInv, NEW p \in Proc, NEW line \in CommandLines, Start(p, line), UNCHANGED <<orphans, plan>>
    PROVE  TypeInv'
<1>1. /\ line \in Command
      /\ line.op \in plan.commands
      /\ line.op \in {"build", "pull", "tag", "remove", "prune"}
      /\ line.op \in {"build", "pull"} => line.sbom \in plan.sboms /\ line.sbom \in SBOM
      /\ line.op = "tag" => line.from \in Tag /\ line.tag \in Tag
      /\ line.op = "remove" => line.tag \in Tag
      /\ line.op \in {"tag", "remove", "prune"} => line.sbom = None
  BY LinesTyped
<1> DEFINE first == FirstStep[line.op]
           places == [c \in Purl |->
                IF line.sbom # None /\ c \in Describes[line.sbom] THEN ToDo ELSE "none"]
<1>2. /\ line.op = "build" => first = "components"
      /\ line.op = "pull" => first = "sbom"
      /\ line.op = "tag" => first = "resolve"
      /\ line.op = "remove" => first = "read_tags"
      /\ line.op = "prune" => first = "prune_read"
  BY DEF FirstStep
<1>3. /\ cmd' = [cmd EXCEPT ![p] = line]
      /\ pc' = [pc EXCEPT ![p] = first]
      /\ at' = [at EXCEPT ![p] = places]
      /\ UNCHANGED <<disk, noted, mem, prune>>
  BY DEF Start, Goto
<1>4. /\ places \in [Purl -> Wheres]
      /\ \A c \in Purl : places[c] \in {"none", ToDo}
      /\ line.sbom = None => \A c \in Purl : places[c] = "none"
      /\ line.sbom # None => \A c \in Purl : places[c] = "none" <=> c \notin Describes[line.sbom]
  BY DEF Wheres, ToDo
<1> HIDE DEF first, places
<1>5. first \in Labels
  BY <1>1, <1>2 DEF Labels
<1>6. /\ cmd'[p] = line /\ pc'[p] = first /\ at'[p] = places
      /\ cmd' \in [Proc -> Command]
      /\ pc' \in [Proc -> Labels]
      /\ at' \in [Proc -> [Purl -> Wheres]]
      /\ \A q \in Proc : q # p => cmd'[q] = cmd[q] /\ pc'[q] = pc[q] /\ at'[q] = at[q]
      /\ noted' = noted
  BY <1>1, <1>3, <1>4, <1>5 DEF TypeInv, TypeOK, Memory
<1>7. Fits(p)'
  <2>1. None \notin SBOM
    BY ConstantsAssumption
  <2>2. QED
    BY <1>1, <1>2, <1>6, <2>1 DEF Fits, Busy, Building, Pulling, Removing, SBOMOf, PruneLabels, Ended
<1>8. Places(p)'
  <2>1. None \notin SBOM
    BY ConstantsAssumption
  <2>2. CASE line.op \in {"build", "pull"}
    BY <1>1, <1>2, <1>4, <1>6, <2>1, <2>2 DEF Places, Building, Pulling, SBOMOf, Held, Looking, Builds, Pulls, ToDo
  <2>3. CASE line.op \notin {"build", "pull"}
    BY <1>1, <1>2, <1>4, <1>6, <2>3 DEF Places, Building, Pulling, SBOMOf, Held, Looking, Builds, Pulls, ToDo
  <2>4. QED
    BY <2>2, <2>3
<1>9. \A q \in Proc : Fits(q)' /\ Places(q)'
  BY <1>6, <1>7, <1>8, OthersFit
<1>10. QED
  BY <1>3, <1>6, <1>9 DEF TypeInv, TypeOK, Memory, disk, claims, prune

\* A prune's steps leave the tags, and the pulls and builds there are, alone.
LEMMA PruneStepTyped ==
    ASSUME TypeInv, NEW p \in Proc, PruneStep(p), UNCHANGED <<orphans, plan>>
    PROVE  TypeInv'
<1> USE DEF PruneLabels, Labels, Ended
<1>1. TypeOK /\ Memory /\ Fits(p)
  BY DEF TypeInv
<1>2. ASSUME NEW label \in PruneLabels, Goto(p, label), pc[p] \in PruneLabels,
             UNCHANGED <<repos, cmd, at, noted>>,
             mem' \in [Proc -> [Tag -> SBOM \cup {None}]],
             kept' \in [Proc -> SUBSET Names],
             victims' \in [Proc -> SUBSET Names],
             victim' \in [Proc -> Names \cup {None}],
             /\ manifests' \subseteq SBOM
             /\ provenance' \subseteq SBOM
             /\ records' \in [Purl -> Hash \cup {None, "absent"}]
             /\ layer' \in [Purl -> Hash \cup {"absent", "partial"}]
             /\ pid' \in [Purl -> Proc \cup {None}]
             /\ blank' \subseteq Purl
             /\ reports' \subseteq Purl
             /\ staging' \subseteq Proc \X Purl
      PROVE  TypeInv'
  <2>1. cmd[p].op \in {"remove", "prune"}
    BY <1>1, <1>2 DEF Fits
  <2>2. /\ label \in Labels
        /\ pc[p] \notin {"ready", "sbom", "components"} \cup Ended
        /\ label \notin {"ready", "components", "sbom", "resolve", "record", "provenance",
                         "reports", "read_tags", "write_tags"} \cup Ended
    BY <1>2
  <2>3. pc' \in [Proc -> Labels] /\ Memory' /\ \A q \in Proc : Fits(q)' /\ Places(q)'
    BY <1>2, <2>1, <2>2, GotoTyped
  <2>4. QED
    BY <1>1, <1>2, <2>3 DEF TypeInv, TypeOK
<1>3. /\ mem \in [Proc -> [Tag -> SBOM \cup {None}]]
      /\ repos \in [Tag -> SBOM \cup {None}]
      /\ kept \in [Proc -> SUBSET Names]
      /\ victims \in [Proc -> SUBSET Names]
      /\ victim \in [Proc -> Names \cup {None}]
      /\ manifests \subseteq SBOM
      /\ provenance \subseteq SBOM
      /\ records \in [Purl -> Hash \cup {None, "absent"}]
      /\ layer \in [Purl -> Hash \cup {"absent", "partial"}]
      /\ pid \in [Purl -> Proc \cup {None}]
      /\ blank \subseteq Purl
      /\ reports \subseteq Purl
      /\ staging \subseteq Proc \X Purl
      /\ pc \in [Proc -> Labels]
  BY <1>1 DEF TypeOK, Memory
<1> HIDE DEF Labels
<1>4. CASE PruneRead(p)
  <2>1. mem' \in [Proc -> [Tag -> SBOM \cup {None}]]
    BY <1>3, <1>4 DEF PruneRead
  <2>2. QED
    BY <1>2, <1>3, <1>4, <2>1 DEF PruneRead, disk, claims, prune
<1>5. CASE PruneMark(p)
  <2>1. Reachable(mem[p]) \subseteq Names
    BY <1>3, ConstantsAssumption DEF Reachable, Names
  <2>2. kept' \in [Proc -> SUBSET Names]
    BY <1>3, <1>5, <2>1 DEF PruneMark
  <2>3. QED
    BY <1>2, <1>3, <1>5, <2>2 DEF PruneMark, disk, claims
<1>6. CASE PruneList(p)
  <2>1. Candidates \subseteq Names
    BY <1>3 DEF Candidates, Recorded, Layers, Names
  <2>2. victims' \in [Proc -> SUBSET Names]
    BY <1>3, <1>6, <2>1 DEF PruneList
  <2>3. QED
    BY <1>2, <1>3, <1>6, <2>2 DEF PruneList, disk, claims
<1>7. ASSUME NEW h \in victims[p], PrunePick(p, h)
      PROVE  TypeInv'
  <2>1. h \in Names
    BY <1>3
  <2>2. victims' \in [Proc -> SUBSET Names]
    BY <1>3, <1>7 DEF PrunePick
  <2>3. CASE h \in Purl /\ Live(h)
    <3>1. Goto(p, "prune")
      BY <1>3, <1>7, <2>3 DEF PrunePick, Goto
    <3>2. QED
      BY <1>2, <1>3, <1>7, <2>2, <2>3, <3>1 DEF PrunePick, disk, claims
  <2>4. CASE ~(h \in Purl /\ Live(h))
    <3>1. victim' \in [Proc -> Names \cup {None}]
      BY <1>3, <1>7, <2>1, <2>4 DEF PrunePick
    <3>2. QED
      BY <1>2, <1>3, <1>7, <2>2, <2>4, <3>1 DEF PrunePick, disk, claims
  <2>5. QED
    BY <2>3, <2>4
<1>8. CASE PrunePID(p)
  <2>1. pid' \in [Purl -> Proc \cup {None}] /\ blank' \subseteq Purl
    BY <1>3, <1>8 DEF PrunePID
  <2>2. QED
    BY <1>2, <1>3, <1>8, <2>1 DEF PrunePID, memory, prune
<1>9. CASE PruneManifest(p)
  <2>1. records' \in [Purl -> Hash \cup {None, "absent"}] /\ manifests' \subseteq SBOM
    BY <1>3, <1>9 DEF PruneManifest
  <2>2. QED
    BY <1>2, <1>3, <1>9, <2>1 DEF PruneManifest, claims, memory, prune
<1>10. CASE PruneProvenance(p)
  <2>1. provenance' \subseteq SBOM
    BY <1>3, <1>10 DEF PruneProvenance
  <2>2. QED
    BY <1>2, <1>3, <1>10, <2>1 DEF PruneProvenance, claims, memory, prune
<1>11. CASE PruneLayer(p)
  <2>1. staging' \subseteq Proc \X Purl
    BY <1>3, <1>11 DEF PruneLayer
  <2>2. CASE victim[p] \in Layers /\ layer[victim[p]] # "partial"
    <3>1. layer' \in [Purl -> Hash \cup {"absent", "partial"}]
      BY <1>3, <1>11, <2>2 DEF PruneLayer
    <3>2. Goto(p, "prune_layer")
      BY <1>3, <1>11, <2>2 DEF PruneLayer, Goto
    <3>3. QED
      BY <1>2, <1>3, <1>11, <2>1, <2>2, <3>1, <3>2 DEF PruneLayer, claims, memory, prune
  <2>3. CASE ~(victim[p] \in Layers /\ layer[victim[p]] # "partial")
    <3>1. layer' \in [Purl -> Hash \cup {"absent", "partial"}]
      BY <1>3, <1>11, <2>3 DEF PruneLayer
    <3>2. QED
      BY <1>2, <1>3, <1>11, <2>1, <2>3, <3>1 DEF PruneLayer, claims, memory, prune
  <2>4. QED
    BY <2>2, <2>3
<1>12. CASE PruneReports(p)
  <2>1. reports' \subseteq Purl
    BY <1>3, <1>12 DEF PruneReports
  <2>2. QED
    BY <1>2, <1>3, <1>12, <2>1 DEF PruneReports, claims, memory, prune
<1>13. CASE PruneEnd(p)
  <2>1. /\ pc' \in [Proc -> Labels]
        /\ at' \in [Proc -> [Purl -> Wheres]]
        /\ noted' \in [Proc -> [Purl -> Noted]]
        /\ mem' \in [Proc -> [Tag -> SBOM \cup {None}]]
        /\ Memory'
        /\ \A q \in Proc : Fits(q)' /\ Places(q)'
    BY <1>13, EndTyped DEF PruneEnd
  <2>2. QED
    BY <1>1, <1>13, <2>1 DEF PruneEnd, disk, claims, TypeInv, TypeOK, Noted
<1>14. QED
  BY <1>4, <1>5, <1>6, <1>7, <1>8, <1>9, <1>10, <1>11, <1>12, <1>13 DEF PruneStep

\* The steps of builds, pulls, tags and removals between their components and
\* their end.
LEMMA CommandStepTyped ==
    ASSUME TypeInv, NEW p \in Proc, UNCHANGED <<orphans, plan>>,
           \/ ComponentsEnd(p) \/ RecordManifest(p) \/ ResolveTag(p) \/ ReadTags(p)
           \/ WriteTags(p) \/ WriteProvenance(p) \/ RestoreSBOM(p) \/ ScanRefuses(p)
           \/ RestoreReports(p)
    PROVE  TypeInv'
<1>1. TypeOK /\ Memory /\ Fits(p) /\ Places(p)
  BY DEF TypeInv
<1>2. /\ mem \in [Proc -> [Tag -> SBOM \cup {None}]]
      /\ repos \in [Tag -> SBOM \cup {None}]
      /\ manifests \subseteq SBOM
      /\ provenance \subseteq SBOM
      /\ reports \subseteq Purl
      /\ pc \in [Proc -> Labels]
      /\ at \in [Proc -> [Purl -> Wheres]]
      /\ noted \in [Proc -> [Purl -> Noted]]
      /\ cmd \in [Proc -> Command]
      /\ kept \in [Proc -> SUBSET Names]
      /\ victims \in [Proc -> SUBSET Names]
      /\ victim \in [Proc -> Names \cup {None}]
      /\ plan.sboms \subseteq SBOM
  BY <1>1 DEF TypeOK, Memory, PlanType, Noted
<1>3. ASSUME NEW label \in {"record", "reports", "read_tags", "write_tags", "provenance",
                            "prune_read"},
             Goto(p, label), pc[p] \notin {"ready", "sbom"} \cup Ended,
             pc[p] = "components" => \A c \in Purl : at[p][c] \in {"none", "done"},
             label \in {"record", "provenance"} => Building(p),
             label = "reports" => Pulling(p),
             label \in {"read_tags", "write_tags"} =>
                /\ cmd[p].tag \in Tag
                /\ cmd[p].op \in {"build", "pull", "tag", "remove"}
                /\ cmd[p].op = "tag" => SBOMOf(p) \in SBOM,
             label = "prune_read" => cmd[p].op \in {"remove", "prune"},
             UNCHANGED <<cmd, at, noted, prune, records, layer, claims, staging>>,
             /\ repos' \in [Tag -> SBOM \cup {None}]
             /\ manifests' \subseteq SBOM
             /\ provenance' \subseteq SBOM
             /\ reports' \subseteq Purl
             /\ mem' \in [Proc -> [Tag -> SBOM \cup {None}]]
      PROVE  TypeInv'
  <2>1. label \in Labels /\ label \notin {"ready", "components", "sbom", "resolve"} \cup Ended
    BY DEF Labels, Ended
  <2>2. label \in PruneLabels => label = "prune_read"
    BY DEF PruneLabels
  <2>3. pc' \in [Proc -> Labels] /\ Memory' /\ \A q \in Proc : Fits(q)' /\ Places(q)'
    BY <1>2, <1>3, <2>1, <2>2, GotoTyped DEF prune
  <2>4. QED
    BY <1>1, <1>3, <2>3 DEF TypeInv, TypeOK, claims
<1>4. ASSUME NEW how \in Ended, End(p, how), UNCHANGED <<records, layer, claims, staging>>,
             /\ repos' \in [Tag -> SBOM \cup {None}]
             /\ manifests' \subseteq SBOM
             /\ provenance' \subseteq SBOM
             /\ reports' \subseteq Purl
      PROVE  TypeInv'
  <2>1. /\ pc' \in [Proc -> Labels]
        /\ at' \in [Proc -> [Purl -> Wheres]]
        /\ noted' \in [Proc -> [Purl -> Noted]]
        /\ mem' \in [Proc -> [Tag -> SBOM \cup {None}]]
        /\ Memory'
        /\ \A q \in Proc : Fits(q)' /\ Places(q)'
    BY <1>4, EndTyped
  <2>2. QED
    BY <1>1, <1>4, <2>1 DEF TypeInv, TypeOK, claims, Noted
<1>5. {"done", "failed", "crashed"} = Ended
  BY DEF Ended
<1>6. cmd[p].tag \in Tag \cup {None} /\ None \notin Tag /\ None \notin SBOM
  BY <1>2, ConstantsAssumption DEF Command
<1>7. pc[p] \in {"record", "provenance", "sbom", "reports", "components"} => SBOMOf(p) \in SBOM
  BY <1>1, <1>2 DEF Fits, Busy, Ended
<1>8. CASE ComponentsEnd(p)
  <2>1. CASE \E c \in Purl : at[p][c] = "failed"
    BY <1>2, <1>4, <1>5, <1>8, <2>1 DEF ComponentsEnd, Continue, disk
  <2>2. CASE ~\E c \in Purl : at[p][c] = "failed"
    <3>1. \A c \in Purl : at[p][c] \in {"none", "done"}
      BY <1>8, <2>2 DEF ComponentsEnd
    <3>2. CASE Building(p)
      BY <1>2, <1>3, <1>5, <1>8, <2>2, <3>1, <3>2 DEF ComponentsEnd, Continue, disk, memory
    <3>3. CASE ~Building(p)
      <4>1. Pulling(p)
        BY <1>1, <1>8, <3>3 DEF ComponentsEnd, Fits
      <4>2. QED
        BY <1>2, <1>3, <1>5, <1>8, <2>2, <3>1, <3>3, <4>1 DEF ComponentsEnd, Continue, disk, memory
    <3>4. QED
      BY <3>2, <3>3
  <2>3. QED
    BY <2>1, <2>2
<1>9. CASE RecordManifest(p)
  <2>1. Building(p) /\ SBOMOf(p) \in SBOM
    BY <1>1, <1>7, <1>9 DEF RecordManifest, Fits
  <2>2. manifests' \subseteq SBOM
    BY <1>2, <1>9, <2>1 DEF RecordManifest
  <2>3. QED
    BY <1>2, <1>3, <1>5, <1>6, <1>9, <2>1, <2>2
       DEF RecordManifest, Tagging, Building, memory
<1>10. CASE ResolveTag(p)
  <2>1. cmd[p].op = "tag" /\ cmd[p].from \in Tag /\ cmd[p].tag \in Tag
    BY <1>1, <1>10 DEF ResolveTag, Fits
  <2>2. CASE repos[cmd[p].from] = None
    BY <1>2, <1>4, <1>5, <1>10, <2>2 DEF ResolveTag, disk
  <2>3. CASE repos[cmd[p].from] # None
    <3> DEFINE s == repos[cmd[p].from]
    <3>1. s \in SBOM
      BY <1>2, <2>1, <2>3
    <3>2. /\ cmd' = [cmd EXCEPT ![p].sbom = s]
          /\ pc' = [pc EXCEPT ![p] = "read_tags"]
          /\ UNCHANGED <<at, noted, mem, prune, disk>>
      BY <1>10, <2>3 DEF ResolveTag, Goto
    <3> HIDE DEF s
    <3>3. /\ cmd' \in [Proc -> Command]
          /\ cmd'[p].op = "tag" /\ cmd'[p].tag \in Tag /\ cmd'[p].sbom = s
          /\ \A q \in Proc : q # p => cmd'[q] = cmd[q]
      BY <1>2, <2>1, <3>1, <3>2 DEF Command
    <3>4. pc' \in [Proc -> Labels] /\ pc'[p] = "read_tags" /\ pc[p] = "resolve"
      BY <1>2, <1>10, <3>2 DEF Labels, ResolveTag
    <3>5. Fits(p)'
      BY <1>1, <2>1, <3>1, <3>3, <3>4
         DEF Fits, Busy, Building, Pulling, Removing, SBOMOf, PruneLabels, Ended
    <3>6. Places(p)'
      BY <1>1, <2>1, <3>2, <3>3, <3>4 DEF Places, Building, Pulling, SBOMOf, Held, Looking, Builds, Pulls
    <3>7. \A q \in Proc : q # p => Fits(q)' /\ Places(q)'
      BY <1>2, <3>2, <3>3, OthersFit
    <3>8. QED
      BY <1>1, <3>2, <3>3, <3>4, <3>5, <3>6, <3>7 DEF TypeInv, TypeOK, Memory, disk, claims, prune
  <2>4. QED
    BY <2>2, <2>3
<1>11. CASE ReadTags(p)
  <2>1. /\ cmd[p].tag \in Tag
        /\ cmd[p].op \in {"build", "pull", "tag", "remove"}
        /\ cmd[p].op = "tag" => SBOMOf(p) \in SBOM
    BY <1>1, <1>11 DEF ReadTags, Fits
  <2>2. mem' \in [Proc -> [Tag -> SBOM \cup {None}]]
    BY <1>2, <1>11 DEF ReadTags
  <2>3. pc[p] = "read_tags" /\ UNCHANGED <<disk, cmd, at, noted, prune>>
    BY <1>11 DEF ReadTags
  <2>4. CASE Removing(p) /\ repos[cmd[p].tag] = None
    <3>1. Goto(p, "prune_read")
      BY <1>11, <2>4 DEF ReadTags
    <3>2. QED
      BY <1>2, <1>3, <1>5, <2>1, <2>2, <2>3, <2>4, <3>1 DEF disk, Removing
  <2>5. CASE ~(Removing(p) /\ repos[cmd[p].tag] = None)
    <3>1. Goto(p, "write_tags")
      BY <1>11, <2>5 DEF ReadTags
    <3>2. QED
      BY <1>2, <1>3, <1>5, <2>1, <2>2, <2>3, <3>1 DEF disk
  <2>6. QED
    BY <2>4, <2>5
<1>12. CASE WriteTags(p)
  <2>1. /\ cmd[p].tag \in Tag
        /\ cmd[p].op \in {"build", "pull", "tag", "remove"}
        /\ SBOMOf(p) \in SBOM \cup {None}
        /\ pc[p] = "write_tags"
        /\ UNCHANGED <<manifests, provenance, records, layer, claims, reports, staging>>
    BY <1>1, <1>2, <1>12 DEF WriteTags, Fits, Command, SBOMOf
  <2>2. repos' \in [Tag -> SBOM \cup {None}]
    BY <1>2, <1>12, <2>1 DEF WriteTags
  <2>3. CASE Building(p)
    <3>1. Goto(p, "provenance") /\ UNCHANGED memory
      BY <1>5, <1>12, <2>3 DEF WriteTags, Continue, AfterTags, Building, Removing
    <3>2. QED
      BY <1>2, <1>3, <1>5, <2>1, <2>2, <2>3, <3>1 DEF memory
  <2>4. CASE Removing(p)
    <3>1. Goto(p, "prune_read") /\ UNCHANGED memory
      BY <1>5, <1>12, <2>4 DEF WriteTags, Continue, AfterTags, Building, Removing
    <3>2. QED
      BY <1>2, <1>3, <1>5, <2>1, <2>2, <2>4, <3>1 DEF memory, Removing
  <2>5. CASE ~Building(p) /\ ~Removing(p)
    <3>1. End(p, "done")
      BY <1>5, <1>12, <2>5 DEF WriteTags, Continue, AfterTags
    <3>2. QED
      BY <1>2, <1>4, <1>5, <2>1, <2>2, <3>1
  <2>6. QED
    BY <2>3, <2>4, <2>5
<1>13. CASE WriteProvenance(p)
  BY <1>2, <1>4, <1>5, <1>7, <1>13 DEF WriteProvenance
<1>14. CASE RestoreSBOM(p)
  <2>1. /\ pc' = [pc EXCEPT ![p] = "components"] /\ pc[p] = "sbom"
        /\ manifests' = manifests \cup {SBOMOf(p)}
        /\ UNCHANGED <<repos, provenance, records, layer, claims, reports, staging, memory>>
    BY <1>14 DEF RestoreSBOM, Goto
  <2>2. pc' \in [Proc -> Labels] /\ pc'[p] = "components" /\ manifests' \subseteq SBOM
    BY <1>2, <1>7, <2>1 DEF Labels
  <2>3. Fits(p)' /\ Places(p)'
    BY <1>1, <2>1, <2>2 DEF Fits, Places, Busy, Building, Pulling, Removing, SBOMOf, PruneLabels,
                            Ended, Held, Looking, Builds, Pulls, memory
  <2>4. \A q \in Proc : q # p => Fits(q)' /\ Places(q)'
    BY <1>2, <2>1, OthersFit DEF memory
  <2>5. QED
    BY <1>1, <2>1, <2>2, <2>3, <2>4 DEF TypeInv, TypeOK, Memory, claims, memory, prune
<1>15. CASE ScanRefuses(p)
  BY <1>2, <1>4, <1>5, <1>15 DEF ScanRefuses, disk
<1>16. CASE RestoreReports(p)
  <2>1. Pulling(p) /\ SBOMOf(p) \in SBOM
    BY <1>1, <1>7, <1>16 DEF RestoreReports, Fits
  <2>2. Describes[SBOMOf(p)] \subseteq Purl
    BY <2>1, ConstantsAssumption
  <2>3. /\ pc[p] = "reports" /\ reports' \subseteq Purl
        /\ UNCHANGED <<repos, manifests, provenance, records, layer, claims, staging>>
    BY <1>2, <1>16, <2>2 DEF RestoreReports
  <2>4. CASE cmd[p].tag = None
    <3>1. End(p, "done")
      BY <1>5, <1>16, <2>4 DEF RestoreReports, Continue, Tagging
    <3>2. QED
      BY <1>2, <1>4, <1>5, <2>3, <3>1
  <2>5. CASE cmd[p].tag # None
    <3>1. Goto(p, "read_tags") /\ UNCHANGED memory
      BY <1>5, <1>16, <2>5 DEF RestoreReports, Continue, Tagging
    <3>2. QED
      BY <1>2, <1>3, <1>5, <1>6, <2>1, <2>3, <2>5, <3>1 DEF memory, Pulling
  <2>6. QED
    BY <2>4, <2>5
<1>17. QED
  BY <1>8, <1>9, <1>10, <1>11, <1>12, <1>13, <1>14, <1>15, <1>16

LEMMA StepTyped ==
    ASSUME TypeInv, [Next]_vars
    PROVE  TypeInv'
<1>1. CASE UNCHANGED vars
  BY <1>1 DEF vars, disk, claims, memory, prune, TypeInv, TypeOK, Memory, Fits, Places, Busy, Building,
              Pulling, Removing, SBOMOf
<1>2. ASSUME NEW p \in Proc, StepOf(p), plan' = plan
      PROVE  TypeInv'
  <2>1. CASE \E c \in Purl : ComponentStep(p, c) /\ UNCHANGED orphans
    BY <1>2, <2>1, ComponentStepTyped
  <2>2. CASE PruneStep(p) /\ UNCHANGED orphans
    BY <1>2, <2>2, PruneStepTyped
  <2>3. ASSUME NEW survive \in BOOLEAN, Crash(p, survive)
        PROVE  TypeInv'
    <3>1. "crashed" \in Ended /\ End(p, "crashed") /\ UNCHANGED disk
      BY <2>3 DEF Crash, Ended
    <3>2. /\ pc' \in [Proc -> Labels]
          /\ at' \in [Proc -> [Purl -> Wheres]]
          /\ noted' \in [Proc -> [Purl -> Noted]]
          /\ mem' \in [Proc -> [Tag -> SBOM \cup {None}]]
          /\ Memory'
          /\ \A q \in Proc : Fits(q)' /\ Places(q)'
      BY <1>2, <3>1, EndTyped
    <3>3. orphans' \subseteq Proc \X Purl
      BY <2>3 DEF Crash, TypeInv, TypeOK
    <3>4. QED
      BY <1>2, <3>1, <3>2, <3>3 DEF TypeInv, TypeOK, disk, claims, Noted
  <2>4. CASE \E line \in CommandLines : Start(p, line) /\ UNCHANGED orphans
    BY <1>2, <2>4, StartTyped
  <2>5. QED
    BY <1>2, <2>1, <2>2, <2>3, <2>4, CommandStepTyped DEF StepOf, Step, CommandStep
<1>3. CASE OrphanStep /\ plan' = plan
  <2>1. PICK p \in Proc, c \in Purl : \E h \in Source[c] \cup {"partial"} : OrphanWrites(p, c, h)
    BY <1>3 DEF OrphanStep
  <2>2. PICK h \in Source[c] \cup {"partial"} : OrphanWrites(p, c, h)
    BY <2>1
  <2>3. layer' \in [Purl -> Hash \cup {"absent", "partial"}]
    BY <2>2, ConstantsAssumption DEF OrphanWrites, TypeInv, TypeOK
  <2>4. QED
    BY <1>3, <2>2, <2>3
       DEF OrphanWrites, claims, memory, prune, TypeInv, TypeOK, Memory, Fits, Places, Busy,
           Building, Pulling, Removing, SBOMOf
<1>4. QED
  BY <1>1, <1>2, <1>3, EveryStepIsOfOne

LEMMA InitTyped == Init => TypeInv
<1> SUFFICES ASSUME Init
             PROVE  TypeInv
  OBVIOUS
<1>1. TypeOK
  BY ConstantsAssumption DEF Init, TypeOK, Labels, Wheres, NoTags
<1>2. Memory
  BY ConstantsAssumption DEF Init, Memory, Command, NoCommand
<1>3. ASSUME NEW p \in Proc
      PROVE  Fits(p) /\ Places(p)
  BY DEF Init, Fits, Places, Busy, PruneLabels, Held, Looking, Builds, Pulls, Ended
<1>4. QED
  BY <1>1, <1>2, <1>3 DEF TypeInv

LEMMA TypeInvariant == Spec => []TypeInv
BY InitTyped, StepTyped, PTL DEF Spec

\* The data directory and what the commands remember of it are always of their
\* types: a tag maps to an SBOM, a component's directory holds a content or
\* part of one (internal/build, internal/oci/pull, cmd/).
THEOREM TypeCorrect == Spec => []TypeOK
BY TypeInvariant, PTL DEF TypeInv

-----------------------------------------------------------------------------
(***************************************************************************)
(* What a step leaves alone.                                               *)
(***************************************************************************)

\* A step of a component moves it on, and notes something of it.
LEMMA ComponentStepNotes ==
    ASSUME NEW p \in Proc, NEW c \in Purl, ComponentStep(p, c)
    PROVE  \E from, to, what : Notes(p, c, from, to, what)
<1>1. ASSUME NEW from, NEW to, Moves(p, c, from, to)
      PROVE  \E f, t, what : Notes(p, c, f, t, what)
  BY <1>1 DEF Moves
<1>2. CASE CheckPID(p, c)
  BY <1>2 DEF CheckPID
<1>3. ASSUME NEW h \in Source[c], FillDir(p, c, h)
      PROVE  \E f, t, what : Notes(p, c, f, t, what)
  BY <1>3 DEF FillDir
<1>4. CASE \/ ProbeOwner(p, c) \/ WaitForPIDFile(p, c) \/ RemoveStalePID(p, c)
           \/ CheckManifest(p, c) \/ ClaimPIDFile(p, c) \/ WritePID(p, c) \/ ClearDir(p, c)
           \/ WriteManifest(p, c) \/ PullFails(p, c) \/ Release(p, c)
  BY <1>1, <1>4 DEF ProbeOwner, WaitForPIDFile, RemoveStalePID, CheckManifest, ClaimPIDFile,
                    WritePID, ClearDir, WriteManifest, PullFails, Release
<1>5. CASE \/ RestoreKeep(p, c) \/ RestoreStage(p, c) \/ RestoreClear(p, c)
           \/ RestoreRename(p, c) \/ RestoreFails(p, c) \/ RestoreRecord(p, c)
  BY <1>1, <1>5 DEF RestoreKeep, RestoreStage, RestoreClear, RestoreRename, RestoreFails,
                    RestoreRecord
<1>6. QED
  BY <1>2, <1>3, <1>4, <1>5 DEF ComponentStep

\* A process changes only its own memory.
LEMMA OthersKept ==
    ASSUME TypeInv, NEW p \in Proc, StepOf(p), NEW q \in Proc, q # p
    PROVE  /\ pc'[q] = pc[q]
           /\ cmd'[q] = cmd[q]
           /\ at'[q] = at[q]
           /\ noted'[q] = noted[q]
           /\ mem'[q] = mem[q]
           /\ kept'[q] = kept[q]
           /\ victims'[q] = victims[q]
           /\ victim'[q] = victim[q]
<1> DEFINE Same == /\ pc'[q] = pc[q] /\ cmd'[q] = cmd[q] /\ at'[q] = at[q] /\ noted'[q] = noted[q]
                   /\ mem'[q] = mem[q]
                   /\ kept'[q] = kept[q] /\ victims'[q] = victims[q] /\ victim'[q] = victim[q]
<1>1. ASSUME NEW how, End(p, how)
      PROVE  Same
  BY <1>1 DEF TypeInv, TypeOK, Memory, End, Goto
<1>2. ASSUME NEW label, Goto(p, label)
      PROVE  pc'[q] = pc[q]
  BY <1>2 DEF TypeInv, TypeOK, Goto
<1>3. ASSUME NEW label, Continue(p, label)
      PROVE  Same
  BY <1>1, <1>2, <1>3 DEF Continue, memory, prune
<1>4. ASSUME NEW c \in Purl, NEW from, NEW to, NEW what, Notes(p, c, from, to, what)
      PROVE  Same
  BY <1>4 DEF TypeInv, TypeOK, Notes, At, prune
<1>5. ASSUME NEW c \in Purl, ComponentStep(p, c)
      PROVE  Same
  <2>1. \E from, to, what : Notes(p, c, from, to, what)
    BY <1>5, ComponentStepNotes
  <2>2. QED
    BY <1>4, <2>1
<1>6. CASE PruneStep(p)
  <2>1. CASE PruneRead(p) \/ PruneMark(p) \/ PruneList(p)
    BY <1>2, <2>1 DEF PruneRead, PruneMark, PruneList, TypeInv, TypeOK, Memory, prune
  <2>2. ASSUME NEW h \in victims[p], PrunePick(p, h)
        PROVE  Same
    BY <1>2, <2>2 DEF PrunePick, TypeInv, Memory
  <2>3. CASE PrunePID(p) \/ PruneManifest(p) \/ PruneProvenance(p) \/ PruneLayer(p) \/ PruneReports(p)
    BY <1>2, <2>3 DEF PrunePID, PruneManifest, PruneProvenance, PruneLayer, PruneReports, memory, prune
  <2>4. CASE PruneEnd(p)
    BY <1>1, <2>4 DEF PruneEnd
  <2>5. QED
    BY <1>6, <2>1, <2>2, <2>3, <2>4 DEF PruneStep
<1>7. CASE ResolveTag(p)
  BY <1>1, <1>2, <1>7 DEF ResolveTag, TypeInv, Memory, prune
<1>8. CASE ReadTags(p)
  BY <1>2, <1>8 DEF ReadTags, TypeInv, TypeOK, prune
<1>9. CASE ComponentsEnd(p) \/ WriteTags(p) \/ RestoreReports(p)
  BY <1>3, <1>9 DEF ComponentsEnd, WriteTags, RestoreReports
<1>10. CASE RecordManifest(p) \/ RestoreSBOM(p)
  BY <1>2, <1>10 DEF RecordManifest, RestoreSBOM, memory, prune
<1>11. CASE WriteProvenance(p) \/ ScanRefuses(p) \/ \E survive \in BOOLEAN : Crash(p, survive)
  BY <1>1, <1>11 DEF WriteProvenance, ScanRefuses, Crash
<1>12. ASSUME NEW line \in CommandLines, Start(p, line)
       PROVE  Same
  BY <1>2, <1>12 DEF Start, TypeInv, TypeOK, Memory, prune
<1>13. QED
  BY <1>5, <1>6, <1>7, <1>8, <1>9, <1>10, <1>11, <1>12 DEF StepOf, Step, CommandStep

\* Components' directories, records, claims and staging directories change by
\* a step of one component, or by a prune.
LEMMA ComponentsKept ==
    ASSUME NEW p \in Proc, StepOf(p), ~\E c \in Purl : ComponentStep(p, c), ~PruneStep(p)
    PROVE  UNCHANGED <<records, layer, claims, staging>>
BY DEF StepOf, Step, CommandStep, ComponentsEnd, RecordManifest, ResolveTag, ReadTags, WriteTags, WriteProvenance,
       RestoreSBOM, ScanRefuses, RestoreReports, Crash, Start, disk

\* The steps of a prune that change them.
LEMMA PruneKeeps ==
    ASSUME NEW p \in Proc, PruneStep(p)
    PROVE  /\ ~PruneManifest(p) => UNCHANGED <<manifests, records>>
           /\ ~PruneLayer(p) => UNCHANGED <<layer, staging>>
           /\ ~PrunePID(p) => claims' = claims
           /\ ~PruneProvenance(p) => provenance' = provenance
           /\ ~PruneReports(p) => reports' = reports
           /\ repos' = repos
BY DEF PruneStep, PruneRead, PruneMark, PruneList, PrunePick, PrunePID, PruneManifest,
       PruneProvenance, PruneLayer, PruneReports, PruneEnd, disk

\* A step of a prune is made by a process that prunes.
LEMMA PruneStepLabel ==
    ASSUME NEW p \in Proc, PruneStep(p)
    PROVE  pc[p] \in PruneLabels
BY DEF PruneStep, PruneRead, PruneMark, PruneList, PrunePick, PrunePID, PruneManifest,
       PruneProvenance, PruneLayer, PruneReports, PruneEnd, PruneLabels

\* Where a process goes, or ends.
LEMMA GoesTo ==
    ASSUME TypeInv, NEW p \in Proc, NEW label
    PROVE  /\ Goto(p, label) => pc'[p] = label
           /\ End(p, label) => pc'[p] = label
           /\ Continue(p, label) => pc'[p] = label
BY DEF TypeInv, TypeOK, Goto, End, Continue

\* Which label follows which.
LEMMA StepLabels ==
    ASSUME TypeInv, NEW p \in Proc
    PROVE  /\ ComponentsEnd(p) => pc'[p] \in {"failed", "record", "reports"}
           /\ RecordManifest(p) => pc'[p] \in {"read_tags", "provenance"}
           /\ ResolveTag(p) => pc'[p] \in {"read_tags", "failed"}
           /\ ReadTags(p) => pc'[p] \in {"write_tags", "prune_read"}
           /\ WriteTags(p) => pc'[p] \in {"provenance", "prune_read", "done"}
           /\ WriteProvenance(p) => pc'[p] = "done"
           /\ RestoreSBOM(p) => pc'[p] = "components"
           /\ ScanRefuses(p) => pc'[p] = "failed"
           /\ RestoreReports(p) => pc'[p] \in {"read_tags", "done"}
           /\ PruneRead(p) => pc'[p] = "prune_mark"
           /\ PruneMark(p) => pc'[p] = "prune_list"
           /\ PruneList(p) => pc'[p] = "prune"
           /\ \A h \in victims[p] : PrunePick(p, h) => pc'[p] \in {"prune", "prune_pid"}
           /\ PrunePID(p) => pc'[p] = "prune_manifest"
           /\ PruneManifest(p) => pc'[p] = "prune_provenance"
           /\ PruneProvenance(p) => pc'[p] = "prune_layer"
           /\ PruneLayer(p) => pc'[p] \in {"prune_layer", "prune_reports"}
           /\ PruneReports(p) => pc'[p] = "prune"
           /\ PruneEnd(p) => pc'[p] = "done"
           /\ \A survive \in BOOLEAN : Crash(p, survive) => pc'[p] = "crashed"
           /\ \A line \in CommandLines : Start(p, line) =>
                 pc'[p] \in {"components", "sbom", "resolve", "read_tags", "prune_read"}
<1>1. /\ ComponentsEnd(p) => pc'[p] \in {"failed", "record", "reports"}
      /\ RecordManifest(p) => pc'[p] \in {"read_tags", "provenance"}
      /\ ResolveTag(p) => pc'[p] \in {"read_tags", "failed"}
      /\ ReadTags(p) => pc'[p] \in {"write_tags", "prune_read"}
  BY GoesTo DEF ComponentsEnd, RecordManifest, ResolveTag, ReadTags, Tagging
<1>2. WriteTags(p) => pc'[p] \in {"provenance", "prune_read", "done"}
  <2>1. AfterTags(p) \in {"provenance", "prune_read", "done"}
    BY DEF AfterTags
  <2>2. QED
    BY <2>1, GoesTo DEF WriteTags
<1>3. /\ WriteProvenance(p) => pc'[p] = "done"
      /\ RestoreSBOM(p) => pc'[p] = "components"
      /\ ScanRefuses(p) => pc'[p] = "failed"
      /\ \A survive \in BOOLEAN : Crash(p, survive) => pc'[p] = "crashed"
  BY GoesTo DEF WriteProvenance, RestoreSBOM, ScanRefuses, Crash
<1>4. RestoreReports(p) => pc'[p] \in {"read_tags", "done"}
  BY GoesTo DEF RestoreReports, Tagging
<1>5. /\ PruneRead(p) => pc'[p] = "prune_mark"
      /\ PruneMark(p) => pc'[p] = "prune_list"
      /\ PruneList(p) => pc'[p] = "prune"
      /\ PrunePID(p) => pc'[p] = "prune_manifest"
      /\ PruneManifest(p) => pc'[p] = "prune_provenance"
      /\ PruneProvenance(p) => pc'[p] = "prune_layer"
      /\ PruneReports(p) => pc'[p] = "prune"
      /\ PruneEnd(p) => pc'[p] = "done"
  BY GoesTo DEF PruneRead, PruneMark, PruneList, PrunePID, PruneManifest, PruneProvenance,
                PruneReports, PruneEnd
<1>6. \A h \in victims[p] : PrunePick(p, h) => pc'[p] \in {"prune", "prune_pid"}
  BY GoesTo DEF PrunePick
<1>7. PruneLayer(p) => pc'[p] \in {"prune_layer", "prune_reports"}
  BY GoesTo DEF PruneLayer
<1>8. ASSUME NEW line \in CommandLines, Start(p, line)
      PROVE  pc'[p] \in {"components", "sbom", "resolve", "read_tags", "prune_read"}
  <2>1. FirstStep[line.op] \in {"components", "sbom", "resolve", "read_tags", "prune_read"}
    BY LinesTyped DEF FirstStep
  <2>2. QED
    BY <1>8, <2>1, GoesTo DEF Start
<1>9. QED
  BY <1>1, <1>2, <1>3, <1>4, <1>5, <1>6, <1>7, <1>8

\* A step of one component is all a process does to it, and to nothing else.
LEMMA ComponentStepLocal ==
    ASSUME TypeInv, NEW p \in Proc, NEW c \in Purl, ComponentStep(p, c)
    PROVE  /\ pc[p] = "components"
           /\ UNCHANGED <<repos, manifests, provenance, reports, pc, cmd, mem, prune>>
           /\ \A q \in Proc : q # p => at'[q] = at[q] /\ noted'[q] = noted[q]
           /\ \A d \in Purl \ {c} :
                 /\ at'[p][d] = at[p][d]
                 /\ noted'[p][d] = noted[p][d]
                 /\ pid'[d] = pid[d]
                 /\ d \in blank' <=> d \in blank
                 /\ layer'[d] = layer[d]
                 /\ records'[d] = records[d]
           /\ \A q \in Proc, d \in Purl : <<q, d>> # <<p, c>> =>
                 (<<q, d>> \in staging' <=> <<q, d>> \in staging)
<1>1. /\ at \in [Proc -> [Purl -> Wheres]]
      /\ noted \in [Proc -> [Purl -> Noted]]
      /\ records \in [Purl -> Hash \cup {None, "absent"}]
      /\ layer \in [Purl -> Hash \cup {"absent", "partial"}]
      /\ pid \in [Purl -> Proc \cup {None}]
  BY DEF TypeInv, TypeOK, Noted
<1>2. /\ pc[p] = "components"
      /\ UNCHANGED <<repos, manifests, provenance, reports, pc, cmd, mem, prune>>
      /\ \A q \in Proc : q # p => at'[q] = at[q] /\ noted'[q] = noted[q]
      /\ \A d \in Purl \ {c} : at'[p][d] = at[p][d] /\ noted'[p][d] = noted[p][d]
  <2>1. PICK from, to, what : Notes(p, c, from, to, what)
    BY ComponentStepNotes
  <2>2. at' = [at EXCEPT ![p][c] = to] /\ noted' = [noted EXCEPT ![p][c] = what]
    BY <2>1 DEF Notes, At
  <2>3. /\ \A q \in Proc : q # p => at'[q] = at[q]
        /\ \A d \in Purl \ {c} : at'[p][d] = at[p][d]
    BY <1>1, <2>2
  <2>4. /\ \A q \in Proc : q # p => noted'[q] = noted[q]
        /\ \A d \in Purl \ {c} : noted'[p][d] = noted[p][d]
    BY <1>1, <2>2
  <2>5. QED
    BY <2>1, <2>3, <2>4 DEF Notes
<1>3. \A d \in Purl \ {c} : pid'[d] = pid[d] /\ layer'[d] = layer[d] /\ records'[d] = records[d]
  BY <1>1 DEF ComponentStep, CheckPID, ProbeOwner, WaitForPIDFile, RemoveStalePID, RemovePID,
              CheckManifest, ClaimPIDFile, WritePID, ClearDir, FillDir, WriteManifest, PullFails,
              Release, RestoreKeep, RestoreStage, RestoreClear, RestoreRename, RestoreFails,
              RestoreRecord, claims
<1>4. blank' \in {blank, blank \cup {c}, blank \ {c}}
  BY DEF ComponentStep, CheckPID, ProbeOwner, WaitForPIDFile, RemoveStalePID, RemovePID,
         CheckManifest, ClaimPIDFile, WritePID, ClearDir, FillDir, WriteManifest, PullFails,
         Release, RestoreKeep, RestoreStage, RestoreClear, RestoreRename, RestoreFails,
         RestoreRecord, claims
<1>5. staging' \in {staging, staging \cup {<<p, c>>}, staging \ {<<p, c>>}}
  BY DEF ComponentStep, CheckPID, ProbeOwner, WaitForPIDFile, RemoveStalePID, CheckManifest,
         ClaimPIDFile, WritePID, ClearDir, FillDir, WriteManifest, PullFails, Release,
         RestoreKeep, RestoreStage, RestoreClear, RestoreRename, RestoreFails, RestoreRecord
<1>6. QED
  BY <1>2, <1>3, <1>4, <1>5

\* Process p has moved component c from one place to another, and noted what.
Moved(p, c, from, to, what) ==
    at[p][c] = from /\ at'[p][c] = to /\ noted'[p][c] = what

\* What each step of a build's component does to it.
Checked(p, c) ==
    /\ Building(p) /\ UNCHANGED <<records, layer, claims, staging>>
    /\ Moved(p, c, ToDo, IF ReadPID(c) = None THEN "manifest" ELSE "probe", ReadPID(c))

Probed(p, c) ==
    /\ Building(p) /\ UNCHANGED <<records, layer, claims, staging>>
    /\ Moved(p, c, "probe", IF Alive(noted[p][c]) THEN "wait" ELSE "stale", noted[p][c])

Waited(p, c) ==
    /\ Building(p) /\ UNCHANGED <<records, layer, claims, staging>>
    /\ Moved(p, c, "wait", ToDo, noted[p][c])

Removed(p, c) ==
    /\ Building(p) /\ UNCHANGED <<records, layer, staging>>
    /\ Moved(p, c, "stale", "claim", noted[p][c])
    /\ pid'[c] = None /\ c \notin blank'

Decided(p, c) ==
    /\ Building(p) /\ UNCHANGED <<records, layer, claims, staging>>
    /\ Moved(p, c, "manifest", IF records[c] = "absent" THEN "claim"
               ELSE IF VerifyHash(DeclaredBy(p, c), records[c]) THEN "done"
               ELSE "failed", noted[p][c])

Claimed(p, c) ==
    /\ Building(p) /\ UNCHANGED <<records, layer, staging>>
    /\ Moved(p, c, "claim", "claimed", noted[p][c])
    /\ pid[c] = None /\ pid'[c] = p /\ c \in blank'

Beaten(p, c) ==
    /\ Building(p) /\ UNCHANGED <<records, layer, claims, staging>>
    /\ Moved(p, c, "claim", ToDo, noted[p][c])
    /\ pid[c] # None

Written(p, c) ==
    /\ Building(p) /\ UNCHANGED <<records, layer, pid, staging>>
    /\ Moved(p, c, "claimed", "clear", noted[p][c])
    /\ c \in blank' <=> (c \in blank /\ pid[c] # p)

Cleared(p, c) ==
    /\ Building(p) /\ UNCHANGED <<records, claims, staging>>
    /\ Moved(p, c, "clear", "fetching", noted[p][c])
    /\ layer'[c] = "partial"

Filled(p, c) ==
    /\ Building(p) /\ UNCHANGED <<records, claims, staging>>
    /\ layer[c] # "absent"
    /\ \E h \in Source[c] : /\ Moved(p, c, "fetching", "filled", h)
                            /\ layer'[c] = IF layer[c] \in {"partial", h} THEN h ELSE "partial"

Noticed(p, c) ==
    /\ Building(p) /\ UNCHANGED <<layer, claims, staging>>
    /\ Moved(p, c, "filled", "fetched", noted[p][c])
    /\ noted[p][c] \in Hash /\ VerifyHash(DeclaredBy(p, c), noted[p][c])
    /\ records'[c] = noted[p][c]

Failed(p, c) ==
    /\ Building(p) /\ UNCHANGED <<records, claims, staging>>
    /\ \/ /\ "fetch" \in plan.faults \/ layer[c] = "absent"
          /\ Moved(p, c, "fetching", "unfetched", noted[p][c])
       \/ /\ "fetch" \in plan.faults \/ ~VerifyHash(DeclaredBy(p, c), noted[p][c])
          /\ Moved(p, c, "filled", "unfetched", noted[p][c])
    /\ layer'[c] = "absent"

Released(p, c) ==
    /\ Building(p) /\ UNCHANGED <<records, layer, staging>>
    /\ \/ Moved(p, c, "fetched", "done", noted[p][c])
       \/ Moved(p, c, "unfetched", "failed", noted[p][c])
    /\ pid'[c] = None /\ c \notin blank'

\* What each step of a pull's component does to it.
Keeps(p, c) ==
    /\ Pulling(p) /\ UNCHANGED <<records, layer, claims, staging>>
    /\ Moved(p, c, ToDo, "record", noted[p][c])
    /\ layer[c] # "absent"

Stages(p, c) ==
    /\ Pulling(p) /\ UNCHANGED <<records, layer, claims>>
    /\ Moved(p, c, ToDo, "staged", noted[p][c])
    /\ layer[c] = "absent"

Clears(p, c) ==
    /\ Pulling(p) /\ UNCHANGED <<records, claims, staging>>
    /\ Moved(p, c, "staged", "cleared", noted[p][c])
    /\ layer'[c] = "absent"

Renames(p, c) ==
    /\ Pulling(p) /\ UNCHANGED <<records, claims>>
    /\ Moved(p, c, "cleared", "record", noted[p][c])
    /\ layer[c] \in {"absent", "partial"} /\ layer'[c] = Packaged[SBOMOf(p)][c]

Discards(p, c) ==
    /\ Pulling(p) /\ UNCHANGED <<records, layer, claims>>
    /\ \/ Moved(p, c, "staged", "failed", noted[p][c])
       \/ Moved(p, c, "cleared", "failed", noted[p][c])

Records(p, c) ==
    /\ Pulling(p) /\ UNCHANGED <<layer, claims, staging>>
    /\ Moved(p, c, "record", "done", noted[p][c])
    /\ records'[c] = DeclaredBy(p, c)

LEMMA ComponentStepMeans ==
    ASSUME TypeInv, NEW p \in Proc, NEW c \in Purl, ComponentStep(p, c)
    PROVE  \/ Checked(p, c) \/ Probed(p, c) \/ Waited(p, c) \/ Removed(p, c) \/ Decided(p, c)
           \/ Claimed(p, c) \/ Beaten(p, c) \/ Written(p, c) \/ Cleared(p, c) \/ Filled(p, c)
           \/ Noticed(p, c) \/ Failed(p, c) \/ Released(p, c)
           \/ Keeps(p, c) \/ Stages(p, c) \/ Clears(p, c) \/ Renames(p, c) \/ Discards(p, c)
           \/ Records(p, c)
<1>1. /\ noted[p][c] \in Noted
      /\ records \in [Purl -> Hash \cup {None, "absent"}]
      /\ layer \in [Purl -> Hash \cup {"absent", "partial"}]
      /\ pid \in [Purl -> Proc \cup {None}]
      /\ blank \subseteq Purl
      /\ Places(p)
  BY DEF TypeInv, TypeOK, Noted
<1>2. ASSUME NEW from, NEW to \in Wheres, NEW what \in Noted, Notes(p, c, from, to, what)
      PROVE  Moved(p, c, from, to, what)
  <2>1. at \in [Proc -> [Purl -> Wheres]] /\ noted \in [Proc -> [Purl -> Noted]]
    BY DEF TypeInv, TypeOK, Noted
  <2>2. at[p][c] = from /\ at' = [at EXCEPT ![p][c] = to] /\ noted' = [noted EXCEPT ![p][c] = what]
    BY <1>2 DEF Notes, At
  <2>3. QED
    BY <2>1, <2>2 DEF Moved
<1>3. ASSUME NEW from, NEW to \in Wheres, Moves(p, c, from, to)
      PROVE  Moved(p, c, from, to, noted[p][c])
  BY <1>1, <1>2, <1>3 DEF Moves
<1>4. {ToDo, "manifest", "probe", "wait", "stale", "claim", "claimed", "clear", "fetching", "filled",
       "fetched", "unfetched", "record", "staged", "cleared", "done", "failed"} \subseteq Wheres
  BY DEF Wheres, Held
<1>5. ReadPID(c) \in Noted
  BY <1>1 DEF ReadPID, Noted
<1> HIDE DEF ToDo
<1>6. CheckPID(p, c) => Checked(p, c)
  BY <1>2, <1>4, <1>5 DEF CheckPID, Checked
<1>7. ProbeOwner(p, c) => Probed(p, c)
  BY <1>3, <1>4 DEF ProbeOwner, Probed
<1>8. WaitForPIDFile(p, c) => Waited(p, c)
  BY <1>3, <1>4 DEF WaitForPIDFile, Waited
<1>9. RemoveStalePID(p, c) => Removed(p, c)
  BY <1>1, <1>3, <1>4 DEF RemoveStalePID, RemovePID, Removed
<1>10. CheckManifest(p, c) => Decided(p, c)
  BY <1>3, <1>4 DEF CheckManifest, Decided
<1>11. ClaimPIDFile(p, c) => Claimed(p, c) \/ Beaten(p, c)
  BY <1>1, <1>3, <1>4 DEF ClaimPIDFile, Claimed, Beaten
<1>12. WritePID(p, c) => Written(p, c)
  BY <1>1, <1>3, <1>4 DEF WritePID, Written
<1>13. ClearDir(p, c) => Cleared(p, c)
  BY <1>1, <1>3, <1>4 DEF ClearDir, Cleared
<1>14. ASSUME NEW h \in Source[c], FillDir(p, c, h)
       PROVE  Filled(p, c)
  <2>1. h \in Noted
    BY ConstantsAssumption DEF Noted
  <2>2. Moved(p, c, "fetching", "filled", h)
    BY <1>2, <1>4, <1>14, <2>1 DEF FillDir
  <2>3. QED
    BY <1>1, <1>14, <2>2 DEF FillDir, Filled
<1>15. WriteManifest(p, c) => Noticed(p, c)
  <2>1. ASSUME WriteManifest(p, c)
        PROVE  /\ Moved(p, c, "filled", "fetched", noted[p][c])
               /\ noted[p][c] \in Hash
    BY <1>1, <1>3, <1>4, <2>1 DEF WriteManifest, Moved, Places
  <2>2. QED
    BY <1>1, <2>1 DEF WriteManifest, Noticed
<1>16. PullFails(p, c) => Failed(p, c)
  BY <1>1, <1>3, <1>4 DEF PullFails, Failed
<1>17. Release(p, c) => Released(p, c)
  BY <1>1, <1>3, <1>4 DEF Release, RemovePID, Released
<1>18. /\ RestoreKeep(p, c) => Keeps(p, c)
       /\ RestoreStage(p, c) => Stages(p, c)
       /\ RestoreClear(p, c) => Clears(p, c)
       /\ RestoreRename(p, c) => Renames(p, c)
  BY <1>1, <1>3, <1>4 DEF RestoreKeep, RestoreStage, RestoreClear, RestoreRename, Keeps, Stages,
                          Clears, Renames
<1>19. /\ RestoreFails(p, c) => Discards(p, c)
       /\ RestoreRecord(p, c) => Records(p, c)
  BY <1>1, <1>3, <1>4 DEF RestoreFails, RestoreRecord, Discards, Records
<1>20. QED
  BY <1>6, <1>7, <1>8, <1>9, <1>10, <1>11, <1>12, <1>13, <1>14, <1>15, <1>16, <1>17, <1>18, <1>19
     DEF ComponentStep

-----------------------------------------------------------------------------
(***************************************************************************)
(* Commands in turn.                                                       *)
(***************************************************************************)

TurnInv ==
    /\ InTurn
    /\ \A p, q \in Proc : Busy(p) /\ Busy(q) => p = q
    /\ \A p \in Proc : pc[p] \in {"write_tags", "prune_mark"} => mem[p] = repos

\* A step is of a command that runs, or starts one.
LEMMA StepsRun ==
    ASSUME TypeInv, NEW p \in Proc, StepOf(p)
    PROVE  Busy(p) \/ \E line \in CommandLines : Start(p, line)
<1>2. CASE Step(p)
  <2>1. pc[p] \in {"components", "record", "resolve", "read_tags", "write_tags", "provenance",
                   "sbom", "reports"} \cup PruneLabels
    BY <1>2, ComponentStepLocal, PruneStepLabel
       DEF Step, CommandStep, ComponentsEnd, RecordManifest, ResolveTag, ReadTags, WriteTags, WriteProvenance,
           RestoreSBOM, ScanRefuses, RestoreReports
  <2>2. QED
    BY <2>1 DEF Busy, Ended, PruneLabels
<1>3. CASE \E survive \in BOOLEAN : Crash(p, survive)
  BY <1>3 DEF Crash, Busy
<1>4. QED
  BY <1>2, <1>3 DEF StepOf

\* In turn, nobody else runs while a process takes a step.
LEMMA NobodyElse ==
    ASSUME TypeInv, TurnInv, NEW p \in Proc, StepOf(p), NEW q \in Proc, q # p
    PROVE  ~Busy(q) /\ ~Busy(q)'
<1>1. ~Busy(q)
  <2>1. CASE Busy(p)
    BY <2>1 DEF TurnInv
  <2>2. CASE \E line \in CommandLines : Start(p, line)
    BY <2>2 DEF Start, TurnInv, InTurn, Busy
  <2>3. QED
    BY <2>1, <2>2, StepsRun
<1>2. QED
  BY <1>1, OthersKept DEF Busy

LEMMA TurnStep ==
    ASSUME TypeInv, TurnInv, [Next]_vars
    PROVE  TurnInv'
<1>1. CASE UNCHANGED vars
  BY <1>1 DEF vars, disk, memory, TurnInv, InTurn, Busy
<1>2. ASSUME NEW p \in Proc, StepOf(p), plan' = plan
      PROVE  TurnInv'
  <2>1. \A q \in Proc : q # p => ~Busy(q)'
    BY <1>2, NobodyElse
  <2>2. InTurn'
    BY <1>2 DEF TurnInv, InTurn
  <2>3. ASSUME pc'[p] \in {"write_tags", "prune_mark"}
        PROVE  mem'[p] = repos'
    <3>1. /\ pc \in [Proc -> Labels]
          /\ mem \in [Proc -> [Tag -> SBOM \cup {None}]]
      BY DEF TypeInv, TypeOK
    <3>2. ReadTags(p) \/ PruneRead(p)
      <4>1. ~\E c \in Purl : ComponentStep(p, c)
        BY <2>3, ComponentStepLocal
      <4>2. PruneStep(p) => PruneRead(p)
        BY <2>3, StepLabels DEF PruneStep
      <4>3. QED
        BY <1>2, <2>3, <4>1, <4>2, StepLabels DEF StepOf, Step, CommandStep
    <3>3. QED
      BY <3>1, <3>2 DEF ReadTags, PruneRead, disk
  <2>4. QED
    BY <2>1, <2>2, <2>3 DEF TurnInv, Busy, Ended
<1>3. CASE OrphanStep /\ plan' = plan
  BY <1>3 DEF OrphanStep, OrphanWrites, memory, TurnInv, InTurn, Busy
<1>4. QED
  BY <1>1, <1>2, <1>3, EveryStepIsOfOne

LEMMA InitInTurn == Init /\ InTurn => TurnInv
BY DEF Init, TurnInv, Busy

LEMMA TurnInvariant == Spec /\ InTurn => []TurnInv
BY InitInTurn, TurnStep, TypeInvariant, PTL DEF Spec

\* In turn, writing repositories.json back changes no tag but the command's own
\* (UpdateRepositories and RemoveTag of cmd/).
THEOREM TagsAreKept == Spec /\ InTurn => OthersTagsKept
<1>1. TypeInv /\ TurnInv /\ [Next]_vars =>
        [\A t \in Tag : repos'[t] # repos[t] =>
            \E p \in Proc : pc[p] = "write_tags" /\ cmd[p].tag = t]_repos
  <2> SUFFICES ASSUME TypeInv, TurnInv, [Next]_vars, repos' # repos
               PROVE  \A t \in Tag : repos'[t] # repos[t] =>
                         \E p \in Proc : pc[p] = "write_tags" /\ cmd[p].tag = t
    OBVIOUS
  <2>1. Next
    BY DEF vars, disk
  <2>2. ASSUME NEW p \in Proc, StepOf(p)
        PROVE  WriteTags(p)
    BY <2>2, ComponentStepLocal, PruneKeeps
       DEF StepOf, Step, CommandStep, ComponentsEnd, RecordManifest, ResolveTag, ReadTags, WriteProvenance,
           RestoreSBOM, ScanRefuses, RestoreReports, Crash, Start, disk
  <2>3. ASSUME NEW p \in Proc, WriteTags(p), NEW t \in Tag, repos'[t] # repos[t]
        PROVE  pc[p] = "write_tags" /\ cmd[p].tag = t
    <3>1. mem[p] = repos /\ pc[p] = "write_tags"
      BY <2>3 DEF WriteTags, TurnInv
    <3>2. repos \in [Tag -> SBOM \cup {None}]
      BY DEF TypeInv, TypeOK
    <3>3. QED
      BY <2>3, <3>1, <3>2 DEF WriteTags
  <2>4. ~OrphanStep
    BY DEF OrphanStep, OrphanWrites
  <2>5. QED
    BY <2>1, <2>2, <2>3, <2>4, EveryStepIsOfOne
<1>2. QED
  BY <1>1, TypeInvariant, TurnInvariant, PTL DEF Spec, OthersTagsKept

LEMMA TurnOrNot == Spec => [](InTurn => TurnInv)
<1>1. Init => (InTurn => TurnInv)
  BY InitInTurn
<1>2. TypeInv /\ (InTurn => TurnInv) /\ [Next]_vars => (InTurn => TurnInv)'
  <2>1. [Next]_vars => plan' = plan
    BY DEF Next, vars
  <2>2. QED
    BY <2>1, TurnStep DEF InTurn
<1>3. QED
  BY <1>1, <1>2, TypeInvariant, PTL DEF Spec

-----------------------------------------------------------------------------
(***************************************************************************)
(* Claims.                                                                 *)
(***************************************************************************)

\* A pid file names a process that holds the component, unless it was killed, and
\* is blank only until its owner has written its pid.
ClaimInv ==
    \A c \in Purl :
        /\ pid[c] # None /\ pc[pid[c]] # "crashed" => at[pid[c]][c] \in Held
        /\ c \in blank =>
              pid[c] # None /\ (pc[pid[c]] # "crashed" => at[pid[c]][c] = "claimed")

\* What is in the middle of a component runs.
LEMMA MidwayRun ==
    ASSUME TypeInv, NEW p \in Proc, NEW c \in Purl, at[p][c] \notin {"none", "done", ToDo}
    PROVE  pc[p] = "components" /\ Busy(p)
BY DEF TypeInv, Places, Busy, Ended

\* A step of no component leaves one that it was in the middle of only if killed.
LEMMA MidwayStep ==
    ASSUME TypeInv, NEW p \in Proc, StepOf(p), ~\E d \in Purl : ComponentStep(p, d), NEW c \in Purl
    PROVE  /\ at'[p][c] \notin {"none", ToDo} => at'[p][c] = at[p][c] /\ noted'[p][c] = noted[p][c]
           /\ at[p][c] \notin {"none", "done", "failed", ToDo} =>
                 \E survive \in BOOLEAN : Crash(p, survive)
<1>1. /\ at \in [Proc -> [Purl -> Wheres]] /\ noted \in [Proc -> [Purl -> Noted]]
      /\ pc[p] # "components" => at[p][c] \in {"none", "done", ToDo}
  BY MidwayRun DEF TypeInv, TypeOK, Noted
<1> DEFINE Same == at' = at /\ noted' = noted
           Gone == at' = [at EXCEPT ![p] = [d \in Purl |-> "none"]]
<1>2. ASSUME NEW how, End(p, how)
      PROVE  Gone
  BY <1>2 DEF End
<1>3. ASSUME NEW label, Continue(p, label)
      PROVE  Same \/ Gone
  BY <1>2, <1>3 DEF Continue, memory
<1>4. PruneStep(p) => (Same \/ Gone) /\ pc[p] # "components"
  <2>1. PruneStep(p) => pc[p] # "components"
    BY PruneStepLabel DEF PruneLabels
  <2>2. QED
    BY <1>2, <2>1 DEF PruneStep, PruneRead, PruneMark, PruneList, PrunePick, PrunePID, PruneManifest,
                      PruneProvenance, PruneLayer, PruneReports, PruneEnd, memory
<1>5. CommandStep(p) => (Same \/ Gone) /\ (pc[p] = "components" => ComponentsEnd(p))
  <2>1. ComponentsEnd(p) \/ WriteTags(p) \/ RestoreReports(p) => Same \/ Gone
    BY <1>3 DEF ComponentsEnd, WriteTags, RestoreReports
  <2>2. RecordManifest(p) \/ ResolveTag(p) \/ ReadTags(p) \/ WriteProvenance(p) \/ RestoreSBOM(p)
          \/ ScanRefuses(p) => Same \/ Gone
    BY <1>2 DEF RecordManifest, ResolveTag, ReadTags, WriteProvenance, RestoreSBOM, ScanRefuses, memory
  <2>3. CommandStep(p) /\ pc[p] = "components" => ComponentsEnd(p)
    BY <1>4 DEF CommandStep, RecordManifest, ResolveTag, ReadTags, WriteTags, WriteProvenance,
                RestoreSBOM, ScanRefuses, RestoreReports
  <2>4. QED
    BY <1>4, <2>1, <2>2, <2>3 DEF CommandStep
<1>6. ComponentsEnd(p) => at[p][c] \in {"none", "done", "failed"}
  BY DEF ComponentsEnd
<1>7. ASSUME NEW line \in CommandLines, Start(p, line)
      PROVE  at'[p][c] \in {"none", ToDo} /\ pc[p] # "components"
  BY <1>1, <1>7 DEF Start
<1>8. ASSUME NEW survive \in BOOLEAN, Crash(p, survive)
      PROVE  Gone
  BY <1>2, <1>8 DEF Crash
<1>9. Gone => at'[p][c] = "none"
  BY <1>1
<1> HIDE DEF Gone
<1>10. QED
  BY <1>1, <1>5, <1>6, <1>7, <1>8, <1>9 DEF StepOf, Step

LEMMA ClaimStep ==
    ASSUME TypeInv, ClaimInv, [Next]_vars
    PROVE  ClaimInv'
<1>1. CASE UNCHANGED vars
  BY <1>1 DEF vars, disk, claims, memory, ClaimInv
<1>2. CASE OrphanStep
  BY <1>2 DEF OrphanStep, OrphanWrites, claims, memory, ClaimInv
<1>3. ASSUME NEW p \in Proc, StepOf(p), NEW c \in Purl
      PROVE  /\ pid'[c] # None /\ pc'[pid'[c]] # "crashed" => at'[pid'[c]][c] \in Held
             /\ c \in blank' =>
                   pid'[c] # None /\ (pc'[pid'[c]] # "crashed" => at'[pid'[c]][c] = "claimed")
  <2>1. /\ pid \in [Purl -> Proc \cup {None}] /\ pc[p] # "crashed"
        /\ \A q \in Proc : q # p => pc'[q] = pc[q] /\ at'[q] = at[q]
    BY <1>3, OthersKept, StepsRun DEF TypeInv, TypeOK, Busy, Ended, Start
  <2>2. /\ pid[c] # None /\ pc[pid[c]] # "crashed" => at[pid[c]][c] \in Held
        /\ c \in blank =>
              pid[c] # None /\ (pc[pid[c]] # "crashed" => at[pid[c]][c] = "claimed")
    BY DEF ClaimInv
  <2>3. ASSUME NEW d \in Purl, ComponentStep(p, d)
        PROVE  /\ pid'[c] # None /\ pc'[pid'[c]] # "crashed" => at'[pid'[c]][c] \in Held
               /\ c \in blank' =>
                     pid'[c] # None /\ (pc'[pid'[c]] # "crashed" => at'[pid'[c]][c] = "claimed")
    <3>1. pc' = pc
      BY <2>3, ComponentStepLocal
    <3>2. CASE c # d
      <4>1. pid'[c] = pid[c] /\ (c \in blank' <=> c \in blank) /\ at'[p][c] = at[p][c]
        BY <2>3, <3>2, ComponentStepLocal
      <4>2. QED
        BY <2>1, <2>2, <3>1, <4>1
    <3>3. CASE c = d
      <4>1. CASE Checked(p, c) \/ Probed(p, c) \/ Waited(p, c) \/ Decided(p, c) \/ Beaten(p, c)
                 \/ Keeps(p, c) \/ Stages(p, c) \/ Clears(p, c) \/ Renames(p, c) \/ Discards(p, c)
                 \/ Records(p, c)
        <5>1. at[p][c] \notin Held /\ UNCHANGED claims
          BY <4>1 DEF Checked, Probed, Waited, Decided, Beaten, Keeps, Stages, Clears, Renames,
                      Discards, Records, Moved, Held, ToDo
        <5>2. pid[c] # p
          BY <2>1, <2>2, <5>1, ConstantsAssumption
        <5>3. QED
          BY <2>1, <2>2, <3>1, <5>1, <5>2 DEF claims
      <4>2. CASE Removed(p, c) \/ Released(p, c)
        BY <4>2 DEF Removed, Released
      <4>3. CASE Claimed(p, c)
        BY <4>3, ConstantsAssumption DEF Claimed, Moved, Held
      <4>4. CASE Written(p, c)
        <5>1. at'[p][c] = "clear" /\ pid' = pid /\ (c \in blank' => c \in blank /\ pid[c] # p)
          BY <4>4 DEF Written, Moved
        <5>2. QED
          BY <2>1, <2>2, <3>1, <5>1 DEF Held
      <4>5. CASE Cleared(p, c) \/ Filled(p, c) \/ Noticed(p, c) \/ Failed(p, c)
        <5>1. at'[p][c] \in Held /\ at[p][c] # "claimed" /\ UNCHANGED claims
          BY <4>5 DEF Cleared, Filled, Noticed, Failed, Moved, Held
        <5>2. QED
          BY <2>1, <2>2, <3>1, <5>1 DEF claims
      <4>6. QED
        BY <2>3, <3>3, <4>1, <4>2, <4>3, <4>4, <4>5, ComponentStepMeans
    <3>4. QED
      BY <3>2, <3>3
  <2>4. CASE ~\E d \in Purl : ComponentStep(p, d)
    <3>1. pid'[c] \in {pid[c], None} /\ (c \in blank' => c \in blank /\ pid'[c] = pid[c])
      <4>1. CASE PrunePID(p)
        BY <2>1, <4>1 DEF PrunePID
      <4>2. CASE ~PrunePID(p)
        BY <1>3, <2>4, <4>2, ComponentsKept, PruneKeeps DEF claims
      <4>3. QED
        BY <4>1, <4>2
    <3>2. pid[c] # None /\ pc[pid[c]] # "crashed" /\ pid[c] = p => pc'[p] = "crashed"
      BY <1>3, <2>2, <2>4, MidwayStep, StepLabels DEF Held, ToDo
    <3>3. QED
      BY <2>1, <2>2, <3>1, <3>2
  <2>5. QED
    BY <2>3, <2>4
<1>4. QED
  BY <1>1, <1>2, <1>3, EveryStepIsOfOne DEF ClaimInv

LEMMA ClaimInvariant == Spec => []ClaimInv
<1>1. Init => ClaimInv
  BY DEF Init, ClaimInv
<1>2. QED
  BY <1>1, ClaimStep, TypeInvariant, PTL DEF Spec

\* No process that looks for a plugin's owner finds it dead, and no plugin
\* outlives it, in plans that do not say so.
CalmInv ==
    /\ {"crash", "orphan"} \subseteq plan.faults \/ orphans = {}
    /\ "crash" \notin plan.faults => \A p \in Proc : pc[p] # "crashed"
    /\ Steady => \A p \in Proc, c \in Purl : at[p][c] # "stale"

LEMMA CalmStep ==
    ASSUME TypeInv, CalmInv, [Next]_vars
    PROVE  CalmInv'
<1>1. CASE UNCHANGED vars
  BY <1>1 DEF vars, memory, CalmInv, Steady
<1>2. CASE OrphanStep /\ plan' = plan
  BY <1>2 DEF OrphanStep, OrphanWrites, memory, CalmInv, Steady
<1>3. ASSUME NEW p \in Proc, StepOf(p), plan' = plan
      PROVE  CalmInv'
  <2>1. \A q \in Proc : q # p => pc'[q] = pc[q] /\ at'[q] = at[q]
    BY <1>3, OthersKept
  <2>2. {"crash", "orphan"} \subseteq plan.faults \/ orphans' = {}
    BY <1>3 DEF StepOf, Crash, CalmInv
  <2>3. "crash" \notin plan.faults => pc'[p] # "crashed"
    <3>1. ASSUME "crash" \notin plan.faults, pc'[p] = "crashed"
          PROVE  FALSE
      <4>1. pc[p] # "crashed"
        BY <3>1 DEF CalmInv
      <4>2. ~\E c \in Purl : ComponentStep(p, c)
        BY <3>1, <4>1, ComponentStepLocal
      <4>3. QED
        BY <1>3, <3>1, <4>1, <4>2, StepLabels DEF StepOf, Step, CommandStep, PruneStep, Crash
    <3>2. QED
      BY <3>1
  <2>4. ASSUME Steady, NEW c \in Purl, at'[p][c] = "stale"
        PROVE  FALSE
    <3>1. at[p][c] # "stale" /\ pc[p] # "crashed" /\ Places(p)
      BY <2>4 DEF CalmInv, Steady, TypeInv
    <3>2. PICK d \in Purl : ComponentStep(p, d)
      BY <1>3, <2>4, <3>1, MidwayStep DEF ToDo
    <3>3. d = c
      BY <2>4, <3>1, <3>2, ComponentStepLocal
    <3>4. Probed(p, c)
      BY <2>4, <3>2, <3>3, ComponentStepMeans
         DEF Checked, Waited, Removed, Decided, Claimed, Beaten, Written, Cleared, Filled, Noticed,
             Failed, Released, Keeps, Stages, Clears, Renames, Discards, Records, Moved, ToDo
    <3>5. at[p][c] = "probe" /\ ~Alive(noted[p][c])
      BY <2>4, <3>4 DEF Probed, Moved
    <3>6. noted[p][c] \in Proc
      BY <3>1, <3>5 DEF Places, Looking
    <3>7. QED
      BY <2>4, <3>5, <3>6 DEF Alive, CalmInv, Steady
  <2>5. QED
    BY <1>3, <2>1, <2>2, <2>3, <2>4 DEF CalmInv, Steady
<1>4. QED
  BY <1>1, <1>2, <1>3, EveryStepIsOfOne

LEMMA CalmInvariant == Spec => []CalmInv
<1>1. Init => CalmInv
  BY DEF Init, CalmInv
<1>2. QED
  BY <1>1, CalmStep, TypeInvariant, PTL DEF Spec

\* Whoever holds a component has its pid file, in turn, or while nobody is killed.
OwnedInv ==
    InTurn \/ Steady => \A p \in Proc, c \in Purl : at[p][c] \in Held => pid[c] = p

LEMMA OwnedStep ==
    ASSUME TypeInv, InTurn => TurnInv, CalmInv, OwnedInv, [Next]_vars
    PROVE  OwnedInv'
<1>1. CASE UNCHANGED vars
  BY <1>1 DEF vars, disk, claims, memory, OwnedInv, InTurn, Steady
<1>2. CASE OrphanStep /\ plan' = plan
  BY <1>2 DEF OrphanStep, OrphanWrites, claims, memory, OwnedInv, InTurn, Steady
<1>3. ASSUME NEW p \in Proc, StepOf(p), plan' = plan, InTurn \/ Steady,
             NEW q \in Proc, NEW c \in Purl, at'[q][c] \in Held
      PROVE  pid'[c] = q
  <2>1. /\ pid \in [Purl -> Proc \cup {None}]
        /\ \A r \in Proc : at[r][c] \in Held => pid[c] = r
    BY <1>3 DEF TypeInv, TypeOK, OwnedInv
  <2>2. q # p => at'[q] = at[q] /\ pid[c] = q
    BY <1>3, <2>1, OthersKept
  <2>3. ASSUME NEW d \in Purl, ComponentStep(p, d)
        PROVE  pid'[c] = q
    <3>1. CASE c # d
      BY <1>3, <2>1, <2>2, <2>3, <3>1, ComponentStepLocal
    <3>2. CASE c = d
      <4>1. CASE Checked(p, c) \/ Probed(p, c) \/ Waited(p, c) \/ Decided(p, c) \/ Beaten(p, c)
                 \/ Keeps(p, c) \/ Stages(p, c) \/ Clears(p, c) \/ Renames(p, c) \/ Discards(p, c)
                 \/ Records(p, c)
        <5>1. at'[p][c] \notin Held /\ UNCHANGED claims
          BY <4>1 DEF Checked, Probed, Waited, Decided, Beaten, Keeps, Stages, Clears, Renames,
                      Discards, Records, Moved, Held, ToDo
        <5>2. QED
          BY <1>3, <2>1, <2>2, <5>1 DEF claims
      <4>2. CASE Removed(p, c)
        <5>1. at'[p][c] \notin Held /\ at[p][c] = "stale" /\ q # p
          BY <1>3, <4>2 DEF Removed, Moved, Held
        <5>2. ~Steady
          BY <5>1 DEF CalmInv
        <5>3. at[q][c] \in Held
          BY <1>3, <2>2, <5>1
        <5>4. Busy(p) /\ Busy(q)
          BY <5>1, <5>3, MidwayRun DEF Held, ToDo
        <5>5. QED
          BY <1>3, <5>1, <5>2, <5>4 DEF TurnInv
      <4>3. CASE Claimed(p, c)
        BY <1>3, <2>1, <2>2, <4>3, ConstantsAssumption DEF Claimed
      <4>4. CASE Written(p, c) \/ Cleared(p, c) \/ Filled(p, c) \/ Noticed(p, c) \/ Failed(p, c)
        <5>1. at[p][c] \in Held /\ pid'[c] = pid[c]
          BY <4>4 DEF Written, Cleared, Filled, Noticed, Failed, Moved, Held, claims
        <5>2. QED
          BY <1>3, <2>1, <2>2, <5>1
      <4>5. CASE Released(p, c)
        <5>1. at'[p][c] \notin Held /\ at[p][c] \in Held
          BY <4>5 DEF Released, Moved, Held
        <5>2. QED
          BY <1>3, <2>1, <2>2, <5>1
      <4>6. QED
        BY <2>3, <3>2, <4>1, <4>2, <4>3, <4>4, <4>5, ComponentStepMeans
    <3>3. QED
      BY <3>1, <3>2
  <2>4. CASE ~\E d \in Purl : ComponentStep(p, d)
    <3>1. at[q][c] \in Held
      BY <1>3, <2>2, <2>4, MidwayStep DEF Held, ToDo
    <3>2. ~PrunePID(p)
      <4>1. PrunePID(p) => pc[p] = "prune_pid" /\ Busy(p) /\ cmd[p].op \in {"remove", "prune"}
        BY DEF PrunePID, Busy, Ended, TypeInv, Fits, PruneLabels
      <4>2. PrunePID(p) => ~Steady
        BY <4>1 DEF Steady, TypeInv, Fits
      <4>3. Busy(q) /\ pc[q] = "components"
        BY <3>1, MidwayRun DEF Held, ToDo
      <4>4. QED
        BY <1>3, <4>1, <4>2, <4>3 DEF TurnInv
    <3>3. pid' = pid
      BY <1>3, <2>4, <3>2, ComponentsKept, PruneKeeps DEF claims
    <3>4. QED
      BY <2>1, <3>1, <3>3
  <2>5. QED
    BY <2>3, <2>4
<1>4. QED
  BY <1>1, <1>2, <1>3, EveryStepIsOfOne DEF OwnedInv, InTurn, Steady

LEMMA OwnedInvariant == Spec => []OwnedInv
<1>1. Init => OwnedInv
  BY DEF Init, OwnedInv, Held
<1>2. QED
  BY <1>1, OwnedStep, TypeInvariant, TurnOrNot, CalmInvariant, PTL DEF Spec

\* In turn, with plugins that end with their commands, or at once with builds that
\* nothing kills, nobody else touches the directory that a build's plugin is
\* filling, until its hash is recorded (the pid file of cache.go).
THEOREM LivePullsAreSpared == Spec => LivePullSparedInOrder
<1>1. TypeInv /\ (InTurn => TurnInv) /\ CalmInv /\ OwnedInv /\ [Next]_vars =>
        [Orderly => FetchesSpared]_layer
  <2> SUFFICES ASSUME TypeInv, InTurn => TurnInv, CalmInv, OwnedInv, Next, Orderly,
                      NEW p \in Proc, NEW c \in Purl,
                      at[p][c] \in {"fetching", "filled"}, layer'[c] # layer[c]
               PROVE  at'[p][c] # at[p][c]
    BY DEF FetchesSpared, vars, disk
  <2>1. ~OrphanStep
    BY DEF OrphanStep, OrphanWrites, CalmInv, Orderly, Steady
  <2>2. PICK q \in Proc : StepOf(q)
    BY <2>1, EveryStepIsOfOne
  <2>3. at[p][c] \in Held /\ pid[c] = p /\ pc[p] = "components" /\ Busy(p)
    BY MidwayRun DEF Held, ToDo, OwnedInv, Orderly
  <2>4. ASSUME ~\E d \in Purl : ComponentStep(q, d)
        PROVE  FALSE
    <3>1. PruneStep(q)
      BY <2>2, <2>4, ComponentsKept
    <3>2. pc[q] \in PruneLabels /\ Busy(q)
      BY <3>1, PruneStepLabel DEF PruneLabels, Busy, Ended
    <3>3. ~Steady
      BY <3>2 DEF Steady, TypeInv, Fits
    <3>4. QED
      BY <2>3, <3>2, <3>3 DEF Orderly, TurnInv, PruneLabels
  <2>5. PICK d \in Purl : ComponentStep(q, d)
    BY <2>4
  <2>6. d = c
    BY <2>5, ComponentStepLocal
  <2>7. CASE q = p
    BY <2>5, <2>6, <2>7, ComponentStepMeans
       DEF Checked, Probed, Waited, Removed, Decided, Claimed, Beaten, Written, Cleared, Filled,
           Noticed, Failed, Released, Keeps, Stages, Clears, Renames, Discards, Records, Moved, ToDo
  <2>8. CASE q # p
    <3>1. at[q][c] \in Held \/ Pulling(q)
      BY <2>5, <2>6, ComponentStepMeans
         DEF Checked, Probed, Waited, Removed, Decided, Claimed, Beaten, Written, Cleared, Filled,
             Noticed, Failed, Released, Keeps, Stages, Clears, Renames, Discards, Records, Moved, Held
    <3>2. at[q][c] \notin Held
      BY <2>3, <2>8 DEF OwnedInv, Orderly
    <3>3. Busy(q)
      BY <2>5, ComponentStepLocal DEF Busy, Ended
    <3>4. ~Steady
      BY <3>1, <3>2, <3>3 DEF Steady, TypeInv, Fits, Pulling
    <3>5. QED
      BY <2>3, <2>8, <3>3, <3>4 DEF Orderly, TurnInv
  <2>9. QED
    BY <2>7, <2>8
<1>2. QED
  BY <1>1, TypeInvariant, TurnOrNot, CalmInvariant, OwnedInvariant, PTL
     DEF Spec, LivePullSparedInOrder

-----------------------------------------------------------------------------
(***************************************************************************)
(* Records are honest.                                                     *)
(***************************************************************************)

ContentOf(c) == CHOOSE k \in Hash : SameEverywhere(c, k)

\* What is pulled and built is the same wherever it comes from.
SameInv ==
    "pull" \in plan.commands /\ Consistent /\ Orderly =>
        \A c \in Purl :
            /\ records[c] \in Hash => records[c] = ContentOf(c)
            /\ layer[c] \in Hash => layer[c] = ContentOf(c)
            /\ \A p \in Proc : at[p][c] = "filled" => noted[p][c] = ContentOf(c)

\* Nothing is pulled: between a claim and its release, a build puts the directory
\* and then the record in order.
HonestInv ==
    "pull" \notin plan.commands /\ Orderly =>
        \A c \in Purl :
            /\ records[c] \in Hash /\ layer[c] \in Hash =>
                  records[c] = layer[c] \/ pid[c] # None \/ Taken(c)
            /\ \A p \in Proc :
                  /\ at[p][c] = "fetching" => layer[c] = "partial"
                  /\ at[p][c] = "filled" => layer[c] = noted[p][c]
                  /\ at[p][c] = "fetched" => layer[c] = records[c]
                  /\ at[p][c] = "unfetched" => layer[c] = "absent"

\* The content of a component that a command of the plan is at.
LEMMA ContentIsOne ==
    ASSUME TypeInv, OneContent, NEW p \in Proc, NEW c \in Purl, pc[p] = "components",
           at[p][c] # "none"
    PROVE  /\ Building(p) => Source[c] \subseteq {ContentOf(c)}
           /\ Packaged[SBOMOf(p)][c] = ContentOf(c)
           /\ DeclaredBy(p, c) \in {ContentOf(c), None}
<1>1. /\ SBOMOf(p) \in plan.sboms /\ c \in Describes[SBOMOf(p)]
      /\ Building(p) => "build" \in plan.commands
  BY DEF TypeInv, Fits, Places, Busy, Ended, Building
<1>2. \E k \in Hash : SameEverywhere(c, k)
  BY <1>1 DEF OneContent
<1>3. SameEverywhere(c, ContentOf(c))
  BY <1>2 DEF ContentOf
<1>4. QED
  BY <1>1, <1>3 DEF SameEverywhere, DeclaredBy

\* What a step of no component does to directories and records.
LEMMA PruneTakes ==
    ASSUME TypeInv, NEW p \in Proc, StepOf(p), ~\E d \in Purl : ComponentStep(p, d), NEW c \in Purl
    PROVE  /\ layer'[c] \in {layer[c], "partial", "absent"}
           /\ records'[c] \in {records[c], "absent"}
           /\ pid'[c] # pid[c] => PrunePID(p) /\ victim[p] = c
           /\ ~PruneStep(p) => layer' = layer /\ records' = records /\ claims' = claims
<1>1. /\ layer \in [Purl -> Hash \cup {"absent", "partial"}]
      /\ records \in [Purl -> Hash \cup {None, "absent"}]
      /\ pid \in [Purl -> Proc \cup {None}]
  BY DEF TypeInv, TypeOK
<1>2. ~PruneStep(p) => layer' = layer /\ records' = records /\ claims' = claims
  BY ComponentsKept
<1>3. PruneStep(p) => layer'[c] \in {layer[c], "partial", "absent"}
  <2>1. PruneLayer(p) => layer'[c] \in {layer[c], "partial", "absent"}
    BY <1>1 DEF PruneLayer
  <2>2. QED
    BY <2>1, PruneKeeps
<1>4. PruneStep(p) => records'[c] \in {records[c], "absent"}
  <2>1. PruneManifest(p) => records'[c] \in {records[c], "absent"}
    BY <1>1 DEF PruneManifest
  <2>2. QED
    BY <2>1, PruneKeeps
<1>5. PruneStep(p) /\ pid'[c] # pid[c] => PrunePID(p) /\ victim[p] = c
  <2>1. PrunePID(p) /\ pid'[c] # pid[c] => victim[p] = c
    BY <1>1 DEF PrunePID
  <2>2. QED
    BY <2>1, PruneKeeps DEF claims
<1>6. QED
  BY <1>2, <1>3, <1>4, <1>5 DEF claims

\* A step other than a prune's, of a component or an end, leaves what a process
\* notes of a component while it stays at it.
LEMMA StaysAt ==
    ASSUME TypeInv, NEW p \in Proc, StepOf(p), NEW q \in Proc, NEW c \in Purl,
           at'[q][c] \notin {"none", ToDo}, q # p \/ ~ComponentStep(p, c)
    PROVE  at'[q][c] = at[q][c] /\ noted'[q][c] = noted[q][c]
<1>1. CASE q # p
  BY <1>1, OthersKept
<1>2. CASE q = p
  <2>1. CASE \E d \in Purl : ComponentStep(p, d)
    BY <1>2, <2>1, ComponentStepLocal
  <2>2. CASE ~\E d \in Purl : ComponentStep(p, d)
    BY <1>2, <2>2, MidwayStep
  <2>3. QED
    BY <2>1, <2>2
<1>3. QED
  BY <1>1, <1>2

LEMMA SameStep ==
    ASSUME TypeInv, CalmInv, SameInv, [Next]_vars
    PROVE  SameInv'
<1>1. CASE UNCHANGED vars
  BY <1>1 DEF vars, disk, memory, SameInv, Consistent, OneContent, SameEverywhere, ContentOf, Orderly,
              Steady, InTurn
<1>2. plan' = plan => /\ ("pull" \in plan.commands /\ Consistent /\ Orderly)'
                           <=> "pull" \in plan.commands /\ Consistent /\ Orderly
                      /\ \A c : ContentOf(c)' = ContentOf(c)
  BY DEF Consistent, OneContent, SameEverywhere, ContentOf, Orderly, Steady, InTurn
<1> SUFFICES ASSUME Next, plan' = plan, "pull" \in plan.commands, Consistent, Orderly,
                    NEW c \in Purl
             PROVE  /\ records'[c] \in Hash => records'[c] = ContentOf(c)
                    /\ layer'[c] \in Hash => layer'[c] = ContentOf(c)
                    /\ \A q \in Proc : at'[q][c] = "filled" => noted'[q][c] = ContentOf(c)
  BY <1>1, <1>2, EveryStepIsOfOne DEF SameInv
<1>3. OneContent /\ ~OrphanStep
  BY DEF Consistent, OrphanStep, OrphanWrites, CalmInv, Orderly, Steady
<1>4. PICK p \in Proc : StepOf(p)
  BY <1>3, EveryStepIsOfOne
<1>5. /\ records[c] \in Hash => records[c] = ContentOf(c)
      /\ layer[c] \in Hash => layer[c] = ContentOf(c)
      /\ \A q \in Proc : at[q][c] = "filled" => noted[q][c] = ContentOf(c)
      /\ {"absent", "partial", None} \cap Hash = {}
  BY ConstantsAssumption DEF SameInv
<1>6. ASSUME NEW q \in Proc, at'[q][c] = "filled", q # p \/ ~ComponentStep(p, c)
      PROVE  noted'[q][c] = ContentOf(c)
  BY <1>4, <1>5, <1>6, StaysAt DEF ToDo
<1>7. CASE ComponentStep(p, c)
  <2>1. pc[p] = "components"
    BY <1>7, ComponentStepLocal
  <2>2. at[p][c] # "none" =>
           /\ Building(p) => Source[c] \subseteq {ContentOf(c)}
           /\ Packaged[SBOMOf(p)][c] = ContentOf(c)
           /\ DeclaredBy(p, c) \in {ContentOf(c), None}
    BY <1>3, <2>1, ContentIsOne
  <2>3. CASE Filled(p, c)
    <3>1. PICK h \in Source[c] : /\ Moved(p, c, "fetching", "filled", h)
                                 /\ layer'[c] = IF layer[c] \in {"partial", h} THEN h ELSE "partial"
      BY <2>3 DEF Filled
    <3>2. h = ContentOf(c)
      BY <2>2, <2>3, <3>1 DEF Filled, Moved
    <3>3. QED
      BY <1>5, <1>6, <2>3, <3>1, <3>2 DEF Filled, Moved
  <2>4. CASE ~Filled(p, c)
    <3>1. at'[p][c] # "filled"
      BY <1>7, <2>4, ComponentStepMeans
         DEF Checked, Probed, Waited, Removed, Decided, Claimed, Beaten, Written, Cleared, Noticed,
             Failed, Released, Keeps, Stages, Clears, Renames, Discards, Records, Moved, ToDo
    <3>2. layer'[c] \in {layer[c], "absent", "partial", ContentOf(c)}
      BY <1>7, <2>2, <2>4, ComponentStepMeans
         DEF Checked, Probed, Waited, Removed, Decided, Claimed, Beaten, Written, Cleared, Noticed,
             Failed, Released, Keeps, Stages, Clears, Renames, Discards, Records, Moved
    <3>3. records'[c] \in {records[c], ContentOf(c), None}
      BY <1>5, <1>7, <2>2, <2>4, ComponentStepMeans
         DEF Checked, Probed, Waited, Removed, Decided, Claimed, Beaten, Written, Cleared, Noticed,
             Failed, Released, Keeps, Stages, Clears, Renames, Discards, Records, Moved, ToDo
    <3>4. QED
      BY <1>5, <1>6, <3>1, <3>2, <3>3
  <2>5. QED
    BY <2>3, <2>4
<1>8. CASE ~ComponentStep(p, c)
  <2>1. layer'[c] \in {layer[c], "partial", "absent"} /\ records'[c] \in {records[c], "absent"}
    BY <1>4, <1>8, PruneTakes, ComponentStepLocal
  <2>2. QED
    BY <1>5, <1>6, <1>8, <2>1
<1>9. QED
  BY <1>7, <1>8

\* A build at a component, in order, is the only one at it.
LEMMA HolderAlone ==
    ASSUME TypeInv, InTurn => TurnInv, OwnedInv, Orderly,
           NEW p \in Proc, NEW q \in Proc, NEW c \in Purl, at[p][c] \in Held, at[q][c] \in Held
    PROVE  p = q
BY DEF OwnedInv, Orderly

\* A stale claim that is being taken away stays so until it is claimed anew, or
\* its record is gone.
LEMMA TakenStays ==
    ASSUME TypeInv, ClaimInv, Orderly, NEW p \in Proc, StepOf(p), NEW c \in Purl, Taken(c),
           records[c] \in Hash
    PROVE  pid'[c] # None \/ Taken(c)' \/ records'[c] = "absent"
<1>1. records[c] # "absent" /\ records \in [Purl -> Hash \cup {None, "absent"}]
  BY ConstantsAssumption DEF TypeInv, TypeOK
<1>2. PICK q \in Proc : \/ at[q][c] = "claim" /\ noted[q][c] # None
                        \/ pc[q] = "prune_manifest" /\ victim[q] = c
  BY DEF Taken
<1>3. CASE q # p
  BY <1>2, <1>3, OthersKept DEF Taken
<1>4. CASE q = p /\ at[q][c] = "claim" /\ noted[q][c] # None
  <2>1. ASSUME NEW survive \in BOOLEAN, Crash(p, survive)
        PROVE  FALSE
    <3>1. Taking(p)
      BY <1>1, <1>4 DEF Taking, Recorded
    <3>2. QED
      BY <2>1, <3>1 DEF Crash, Orderly, Steady
  <2>2. PICK d \in Purl : ComponentStep(p, d)
    BY <1>4, <2>1, MidwayStep DEF ToDo
  <2>3. CASE d # c
    BY <1>4, <2>2, <2>3, ComponentStepLocal DEF Taken
  <2>4. CASE d = c
    <3>1. Claimed(p, c) \/ Beaten(p, c)
      BY <1>4, <2>2, <2>4, ComponentStepMeans
         DEF Checked, Probed, Waited, Removed, Decided, Written, Cleared, Filled, Noticed,
             Failed, Released, Keeps, Stages, Clears, Renames, Discards, Records, Moved, ToDo
    <3>2. QED
      BY <3>1, ConstantsAssumption DEF Claimed, Beaten, claims
  <2>5. QED
    BY <2>3, <2>4
<1>5. CASE q = p /\ pc[q] = "prune_manifest" /\ victim[q] = c
  <2>1. ~\E d \in Purl : ComponentStep(p, d)
    BY <1>5, ComponentStepLocal
  <2>2. ASSUME NEW survive \in BOOLEAN, Crash(p, survive)
        PROVE  FALSE
    <3>1. Reclaiming(p)
      BY <1>1, <1>5 DEF Reclaiming, Recorded
    <3>2. QED
      BY <2>2, <3>1 DEF Crash, Orderly, Steady
  <2>3. PruneManifest(p)
    BY <1>5, <2>1, <2>2
       DEF StepOf, Step, CommandStep, ComponentsEnd, RecordManifest, ResolveTag, ReadTags, WriteTags,
           WriteProvenance, RestoreSBOM, ScanRefuses, RestoreReports, Start, PruneStep, PruneRead,
           PruneMark, PruneList, PrunePick, PrunePID, PruneProvenance, PruneLayer, PruneReports,
           PruneEnd
  <2>4. QED
    BY <1>1, <1>5, <2>3 DEF PruneManifest
<1>6. QED
  BY <1>2, <1>3, <1>4, <1>5

LEMMA HonestStep ==
    ASSUME TypeInv, InTurn => TurnInv, ClaimInv, CalmInv, OwnedInv, HonestInv, [Next]_vars
    PROVE  HonestInv'
<1>1. CASE UNCHANGED vars
  BY <1>1 DEF vars, disk, claims, memory, prune, HonestInv, Taken, Orderly, Steady, InTurn
<1>2. plan' = plan => (("pull" \notin plan.commands /\ Orderly)'
                           <=> "pull" \notin plan.commands /\ Orderly)
  BY DEF Orderly, Steady, InTurn
<1> DEFINE Sound(c) == /\ records[c] \in Hash /\ layer[c] \in Hash =>
                             records[c] = layer[c] \/ pid[c] # None \/ Taken(c)
                       /\ \A q \in Proc :
                             /\ at[q][c] = "fetching" => layer[c] = "partial"
                             /\ at[q][c] = "filled" => layer[c] = noted[q][c]
                             /\ at[q][c] = "fetched" => layer[c] = records[c]
                             /\ at[q][c] = "unfetched" => layer[c] = "absent"
<1> SUFFICES ASSUME Next, plan' = plan, "pull" \notin plan.commands, Orderly, NEW c \in Purl
             PROVE  Sound(c)'
  BY <1>1, <1>2, EveryStepIsOfOne DEF HonestInv
<1>3. ~OrphanStep
  BY DEF OrphanStep, OrphanWrites, CalmInv, Orderly, Steady
<1>4. PICK p \in Proc : StepOf(p)
  BY <1>3, EveryStepIsOfOne
<1>5. Sound(c) /\ {"absent", "partial", None} \cap Hash = {}
  BY ConstantsAssumption DEF HonestInv
<1>6. Taken(c) /\ records[c] \in Hash => pid'[c] # None \/ Taken(c)' \/ records'[c] = "absent"
  BY <1>4, TakenStays
<1> HIDE DEF Taken
<1>7. CASE ComponentStep(p, c)
  <2>1. pc[p] = "components" /\ Building(p)
    BY <1>7, ComponentStepLocal DEF TypeInv, Fits, Busy, Ended, Pulling, Building
  <2>2. \A q \in Proc : q # p => at'[q] = at[q] /\ noted'[q] = noted[q]
    BY <1>7, ComponentStepLocal
  <2>3. CASE Checked(p, c) \/ Probed(p, c) \/ Waited(p, c) \/ Decided(p, c) \/ Beaten(p, c)
    <3>1. at'[p][c] \notin Held /\ UNCHANGED <<records, layer, claims>>
      BY <2>3 DEF Checked, Probed, Waited, Decided, Beaten, Moved, Held, ToDo
    <3>2. pid' = pid
      BY <3>1 DEF claims
    <3>3. QED
      BY <1>5, <1>6, <2>2, <3>1, <3>2 DEF Held
  <2>4. CASE Removed(p, c)
    <3>1. at'[p][c] = "claim" /\ noted'[p][c] # None /\ UNCHANGED <<records, layer>>
      <4>1. noted[p][c] \in Proc
        BY <2>4 DEF Removed, Moved, TypeInv, Places, Looking
      <4>2. QED
        BY <2>4, <4>1, ConstantsAssumption DEF Removed, Moved
    <3>2. Taken(c)'
      BY <3>1 DEF Taken
    <3>3. QED
      BY <1>5, <2>2, <3>1, <3>2
  <2>5. CASE Claimed(p, c) \/ Written(p, c)
    <3>1. /\ at'[p][c] \in {"claimed", "clear"} /\ UNCHANGED <<records, layer>>
          /\ pid'[c] # None \/ pid'[c] = pid[c]
      BY <2>5, ConstantsAssumption DEF Claimed, Written, Moved
    <3>2. QED
      BY <1>5, <1>6, <2>2, <3>1
  <2>6. CASE Cleared(p, c) \/ Filled(p, c) \/ Noticed(p, c) \/ Failed(p, c)
    <3>1. at[p][c] \in Held /\ pid'[c] = pid[c] /\ at'[p][c] \in Held
      BY <2>6 DEF Cleared, Filled, Noticed, Failed, Moved, Held, claims
    <3>2. pid'[c] # None
      BY <3>1, ConstantsAssumption DEF OwnedInv, Orderly
    <3>3. \A q \in Proc : q # p => at'[q][c] \notin Held
      BY <2>2, <3>1, HolderAlone
    <3>4. /\ at'[p][c] = "fetching" => layer'[c] = "partial"
          /\ at'[p][c] = "filled" => layer'[c] = noted'[p][c]
          /\ at'[p][c] = "fetched" => layer'[c] = records'[c]
          /\ at'[p][c] = "unfetched" => layer'[c] = "absent"
      BY <1>5, <2>6 DEF Cleared, Filled, Noticed, Failed, Moved
    <3>5. QED
      BY <3>2, <3>3, <3>4 DEF Held
  <2>7. CASE Released(p, c)
    <3>1. /\ at[p][c] \in {"fetched", "unfetched"} /\ at'[p][c] \notin Held
          /\ UNCHANGED <<records, layer>>
      BY <2>7 DEF Released, Moved, Held
    <3>2. QED
      BY <1>5, <2>2, <3>1 DEF Held
  <2>8. QED
    BY <1>7, <2>1, <2>3, <2>4, <2>5, <2>6, <2>7, ComponentStepMeans
       DEF Keeps, Stages, Clears, Renames, Discards, Records, Pulling, Building
<1>8. CASE ~ComponentStep(p, c)
  <2>1. \A q \in Proc : at'[q][c] \in Held => at'[q][c] = at[q][c] /\ noted'[q][c] = noted[q][c]
    BY <1>4, <1>8, StaysAt DEF Held, ToDo
  <2>2. CASE \E d \in Purl : ComponentStep(p, d)
    <3>1. layer'[c] = layer[c] /\ records'[c] = records[c] /\ pid'[c] = pid[c]
      BY <1>8, <2>2, ComponentStepLocal
    <3>2. QED
      BY <1>5, <1>6, <2>1, <3>1 DEF Held
  <2>3. CASE ~\E d \in Purl : ComponentStep(p, d)
    <3>1. /\ layer'[c] \in {layer[c], "partial", "absent"}
          /\ records'[c] \in {records[c], "absent"}
          /\ pid'[c] # pid[c] => PrunePID(p) /\ victim[p] = c
          /\ ~PruneStep(p) => layer' = layer /\ records' = records /\ claims' = claims
      BY <1>4, <2>3, PruneTakes
    <3>2. records'[c] \in Hash /\ layer'[c] \in Hash =>
             records'[c] = layer'[c] \/ pid'[c] # None \/ Taken(c)'
      <4>1. PrunePID(p) => pc'[p] = "prune_manifest" /\ victim' = victim
        BY StepLabels DEF PrunePID, memory, prune
      <4>2. PrunePID(p) /\ victim[p] = c => Taken(c)'
        BY <4>1 DEF Taken
      <4>3. QED
        BY <1>5, <1>6, <3>1, <4>2
    <3>3. PruneStep(p) => \A q \in Proc : at'[q][c] \notin Held
      <4>1. ASSUME PruneStep(p), NEW q \in Proc, at'[q][c] \in Held
            PROVE  FALSE
        <5>1. pc[p] \in PruneLabels /\ Busy(p)
          BY <4>1, PruneStepLabel DEF PruneLabels, Busy, Ended
        <5>2. pc[q] = "components" /\ Busy(q)
          BY <2>1, <4>1, MidwayRun DEF Held, ToDo
        <5>3. ~Steady
          BY <5>1 DEF Steady, TypeInv, Fits
        <5>4. QED
          BY <5>1, <5>2, <5>3 DEF Orderly, TurnInv, PruneLabels
      <4>2. QED
        BY <4>1
    <3>4. QED
      BY <1>5, <2>1, <3>1, <3>2, <3>3 DEF Held
  <2>4. QED
    BY <2>2, <2>3
<1>9. QED
  BY <1>7, <1>8

LEMMA HonestInvariant == Spec => [](SameInv /\ HonestInv)
<1>1. Init => SameInv /\ HonestInv
  BY ConstantsAssumption DEF Init, SameInv, HonestInv
<1>2. QED
  BY <1>1, SameStep, HonestStep, TypeInvariant, TurnOrNot, ClaimInvariant, CalmInvariant,
     OwnedInvariant, PTL DEF Spec

\* A component's record is the hash of what is in the directory beside it, when
\* commands run one after another, some of them killed with their plugins but not
\* while they take a stale claim away, and when builds run at once that nothing
\* kills (cache.go's order of directory and manifest, pull's recordManifest).
THEOREM RecordsAreHonest == Spec => []RecordsHonest
<1>1. SameInv /\ HonestInv => RecordsHonest
  BY DEF SameInv, HonestInv, RecordsHonest
<1>2. QED
  BY <1>1, HonestInvariant, PTL

-----------------------------------------------------------------------------
(***************************************************************************)
(* Prune, in turn.                                                         *)
(***************************************************************************)

VictimLabels == {"prune_pid", "prune_manifest", "prune_provenance", "prune_layer", "prune_reports"}

\* A prune keeps what the tags reach, and picks its victims from the rest.
Spares(p) ==
    /\ pc[p] \in {"prune_list", "prune"} \cup VictimLabels => kept[p] = Reachable(repos)
    /\ pc[p] \in {"prune"} \cup VictimLabels => victims[p] \cap Reachable(repos) = {}
    /\ pc[p] \in VictimLabels => victim[p] \notin Reachable(repos)

\* How much of the rest a prune has yet to go through.
Reclaims(p) ==
    /\ pc[p] = "prune" => Candidates \subseteq Reachable(repos) \cup victims[p]
    /\ pc[p] \in VictimLabels =>
          Candidates \subseteq Reachable(repos) \cup victims[p] \cup {victim[p]}
    /\ pc[p] \in {"prune_provenance", "prune_layer", "prune_reports"} =>
          victim[p] \notin manifests \cup Recorded
    /\ pc[p] = "prune_reports" => victim[p] \notin Layers \cup staging

\* A build's statement comes after its manifest, and goes after it.
Stated ==
    /\ \A p \in Proc :
          (pc[p] = "provenance" \/ (pc[p] \in {"read_tags", "write_tags"} /\ Building(p))) =>
              SBOMOf(p) \in manifests
    /\ \A s \in provenance :
          s \in manifests \/ (\E p \in Proc : pc[p] = "prune_provenance" /\ victim[p] = s)

PruneInv ==
    /\ \A p \in Proc : Spares(p) /\ Reclaims(p)
    /\ "crash" \notin plan.faults => Stated

\* Taking away what is not reachable leaves what is reachable as it was.
LEMMA ReachableStays ==
    ASSUME repos' = repos,
           \A s : s \in Reachable(repos) => (s \in manifests' <=> s \in manifests)
    PROVE  Reachable(repos)' = Reachable(repos)
<1> DEFINE tagged == {repos[t] : t \in Tag} \ {None}
<1>1. tagged \cap manifests' = tagged \cap manifests
  BY DEF Reachable
<1>2. Reachable(repos)' = tagged \cup UNION {Describes[s] : s \in tagged \cap manifests'}
  BY DEF Reachable
<1>3. Reachable(repos) = tagged \cup UNION {Describes[s] : s \in tagged \cap manifests}
  BY DEF Reachable
<1> HIDE DEF tagged
<1>4. QED
  BY <1>1, <1>2, <1>3

LEMMA PruneInvOfPrune ==
    ASSUME TypeInv, TurnInv, ClaimInv, PruneInv, NEW p \in Proc, PruneStep(p), plan' = plan
    PROVE  /\ Reachable(repos)' = Reachable(repos)
           /\ Spares(p)' /\ Reclaims(p)'
           /\ "crash" \notin plan.faults => \A s \in provenance' :
                 s \in manifests' \/ (pc'[p] = "prune_provenance" /\ victim'[p] = s)
<1> DEFINE R == Reachable(repos)
<1>1. /\ pc \in [Proc -> Labels]
      /\ kept \in [Proc -> SUBSET Names]
      /\ victims \in [Proc -> SUBSET Names]
      /\ victim \in [Proc -> Names \cup {None}]
      /\ records \in [Purl -> Hash \cup {None, "absent"}]
      /\ layer \in [Purl -> Hash \cup {"absent", "partial"}]
  BY DEF TypeInv, TypeOK, Memory
<1>2. Spares(p) /\ Reclaims(p)
  BY DEF PruneInv
<1>3. repos' = repos /\ pc[p] \in PruneLabels /\ Busy(p)
  BY PruneKeeps, PruneStepLabel DEF Busy, Ended, PruneLabels
<1>4. "crash" \notin plan.faults =>
         \A s \in provenance : s \in manifests \/ (pc[p] = "prune_provenance" /\ victim[p] = s)
  <2>1. \A q \in Proc : pc[q] = "prune_provenance" => q = p
    BY <1>3 DEF TurnInv, Busy, Ended
  <2>2. QED
    BY <2>1 DEF PruneInv, Stated
<1>5. R' = R
  <2>1. ASSUME NEW s, s \in R
        PROVE  s \in manifests' <=> s \in manifests
    <3>1. CASE PruneManifest(p)
      BY <1>2, <2>1, <3>1 DEF PruneManifest, Spares, VictimLabels
    <3>2. CASE ~PruneManifest(p)
      BY <3>2, PruneKeeps
    <3>3. QED
      BY <3>1, <3>2
  <2>2. QED
    BY <1>3, <2>1, ReachableStays
<1> HIDE DEF R
<1> DEFINE PP == "crash" \notin plan.faults => \A s \in provenance' :
                 s \in manifests' \/ (pc'[p] = "prune_provenance" /\ victim'[p] = s)
<1>6. CASE PruneRead(p)
  <2>1. pc'[p] = "prune_mark" /\ UNCHANGED disk
    BY <1>6, StepLabels DEF PruneRead
  <2>2. pc[p] = "prune_read"
    BY <1>6 DEF PruneRead
  <2>3. QED
    BY <1>4, <1>5, <2>1, <2>2 DEF Spares, Reclaims, VictimLabels, disk, R
<1>7. CASE PruneMark(p)
  <2>1. /\ pc'[p] = "prune_list" /\ UNCHANGED disk /\ pc[p] = "prune_mark"
        /\ kept'[p] = Reachable(mem[p]) /\ mem[p] = repos
    BY <1>1, <1>7, StepLabels DEF PruneMark, TurnInv
  <2>2. kept'[p] = R'
    BY <1>5, <2>1 DEF R
  <2>3. QED
    BY <1>4, <1>5, <2>1, <2>2 DEF Spares, Reclaims, VictimLabels, disk, R
<1>8. CASE PruneList(p)
  <2>1. /\ pc'[p] = "prune" /\ UNCHANGED <<disk, kept, victim>> /\ pc[p] = "prune_list"
        /\ victims'[p] = Candidates \ kept[p] /\ kept[p] = R
    BY <1>1, <1>2, <1>8, StepLabels DEF PruneList, Spares, R
  <2>2. Candidates' = Candidates
    BY <2>1 DEF disk, Candidates, Recorded, Layers
  <2>3. Spares(p)'
    BY <1>5, <2>1, <2>2 DEF Spares, VictimLabels, R
  <2>4. Reclaims(p)'
    BY <1>5, <2>1, <2>2 DEF Reclaims, VictimLabels, R
  <2>5. QED
    BY <1>4, <1>5, <2>1, <2>3, <2>4 DEF disk, R
<1>9. ASSUME NEW h \in victims[p], PrunePick(p, h)
      PROVE  R' = R /\ Spares(p)' /\ Reclaims(p)' /\ PP
  <2>1. ~(h \in Purl /\ Live(h))
    <3>1. ASSUME h \in Purl, Live(h)
          PROVE  FALSE
      <4>1. pid[h] \in Proc /\ pc[pid[h]] # "crashed"
        BY <3>1, ConstantsAssumption DEF Live, ReadPID, Alive, Ended
      <4>2. PICK q \in Proc : q = pid[h] /\ at[q][h] \in Held
        BY <3>1, <4>1, ConstantsAssumption DEF ClaimInv
      <4>3. pc[q] = "components" /\ Busy(q)
        BY <3>1, <4>2, MidwayRun DEF Held, ToDo
      <4>4. QED
        BY <1>3, <4>3 DEF TurnInv, PruneLabels
    <3>2. QED
      BY <3>1
  <2>2. /\ pc[p] = "prune" /\ pc'[p] = "prune_pid" /\ UNCHANGED <<disk, kept>>
        /\ victims'[p] = victims[p] \ {h} /\ victim'[p] = h
    BY <1>1, <1>9, <2>1, GoesTo DEF PrunePick
  <2>3. Candidates' = Candidates
    BY <2>2 DEF disk, Candidates, Recorded, Layers
  <2>4. Spares(p)'
    BY <1>2, <1>5, <1>9, <2>2 DEF Spares, VictimLabels, R
  <2>5. Reclaims(p)'
    BY <1>2, <1>5, <2>2, <2>3 DEF Reclaims, VictimLabels, R
  <2>6. QED
    BY <1>4, <1>5, <2>2, <2>4, <2>5 DEF disk, R
<1>10. ASSUME UNCHANGED memory, pc'[p] \in {"prune"} \cup VictimLabels,
              pc[p] \in {"prune"} \cup VictimLabels, pc[p] = "prune" => pc'[p] = "prune"
       PROVE  Spares(p)'
  <2>1. /\ kept' = kept /\ victims' = victims /\ victim' = victim
    BY <1>10 DEF memory, prune
  <2>2. QED
    BY <1>2, <1>5, <1>10, <2>1 DEF Spares, R, VictimLabels
<1>11. CASE PrunePID(p)
  <2>1. /\ pc[p] = "prune_pid" /\ pc'[p] = "prune_manifest" /\ UNCHANGED memory
        /\ UNCHANGED <<repos, manifests, provenance, records, layer, reports, staging>>
    BY <1>11, StepLabels DEF PrunePID
  <2>2. Candidates' = Candidates
    BY <2>1 DEF Candidates, Recorded, Layers
  <2>3. Reclaims(p)'
    BY <1>2, <1>5, <2>1, <2>2 DEF Reclaims, VictimLabels, R, memory, prune
  <2>4. QED
    BY <1>4, <1>5, <1>10, <2>1, <2>3 DEF R, VictimLabels
<1>12. CASE PruneManifest(p)
  <2>1. /\ pc[p] = "prune_manifest" /\ pc'[p] = "prune_provenance" /\ UNCHANGED memory
        /\ UNCHANGED <<repos, provenance, layer, reports, staging>>
        /\ manifests' = manifests \ {victim[p]}
        /\ records' = [c \in Purl |-> IF c = victim[p] THEN "absent" ELSE records[c]]
    BY <1>12, StepLabels DEF PruneManifest
  <2>2. victim' = victim /\ victims' = victims
    BY <2>1 DEF memory, prune
  <2>3. Recorded' = Recorded \ {victim[p]}
    BY <1>1, <2>1 DEF Recorded
  <2>4. Layers' = Layers
    BY <2>1 DEF Layers
  <2>5. Reclaims(p)'
    BY <1>2, <1>5, <2>1, <2>2, <2>3, <2>4 DEF Reclaims, VictimLabels, Candidates, R
  <2>6. QED
    BY <1>4, <1>5, <1>10, <2>1, <2>2, <2>5 DEF R, VictimLabels
<1>13. CASE PruneProvenance(p)
  <2>1. /\ pc[p] = "prune_provenance" /\ pc'[p] = "prune_layer" /\ UNCHANGED memory
        /\ UNCHANGED <<repos, manifests, records, layer, reports, staging>>
        /\ provenance' = provenance \ {victim[p]}
    BY <1>13, StepLabels DEF PruneProvenance
  <2>2. victim' = victim /\ victims' = victims
    BY <2>1 DEF memory, prune
  <2>3. Candidates' = Candidates /\ Recorded' = Recorded
    BY <2>1 DEF Candidates, Recorded, Layers
  <2>4. Reclaims(p)'
    BY <1>2, <1>5, <2>1, <2>2, <2>3 DEF Reclaims, VictimLabels, R
  <2>5. QED
    BY <1>4, <1>5, <1>10, <2>1, <2>2, <2>4 DEF R, VictimLabels
<1>14. CASE PruneLayer(p)
  <2>1. /\ pc[p] = "prune_layer" /\ pc'[p] \in {"prune_layer", "prune_reports"} /\ UNCHANGED memory
        /\ UNCHANGED <<repos, manifests, provenance, records, reports>>
        /\ staging' = staging \ {victim[p]}
    BY <1>14, StepLabels DEF PruneLayer
  <2>2. victim' = victim /\ victims' = victims
    BY <2>1 DEF memory, prune
  <2>3. /\ Recorded' = Recorded
        /\ Layers' \subseteq Layers
        /\ pc'[p] = "prune_reports" => Layers' = Layers \ {victim[p]}
    <3>1. CASE victim[p] \in Layers /\ layer[victim[p]] # "partial"
      <4>1. layer' = [layer EXCEPT ![victim[p]] = "partial"] /\ pc' = pc
        BY <1>14, <3>1 DEF PruneLayer
      <4>2. QED
        BY <1>1, <2>1, <3>1, <4>1 DEF Layers, Recorded
    <3>2. CASE ~(victim[p] \in Layers /\ layer[victim[p]] # "partial")
      <4>1. layer' = [c \in Purl |-> IF c = victim[p] THEN "absent" ELSE layer[c]]
        BY <1>14, <3>2 DEF PruneLayer
      <4>2. QED
        BY <1>1, <2>1, <4>1 DEF Layers, Recorded
    <3>3. QED
      BY <3>1, <3>2
  <2>4. Reclaims(p)'
    BY <1>2, <1>5, <2>1, <2>2, <2>3 DEF Reclaims, VictimLabels, Candidates, R
  <2>5. QED
    BY <1>4, <1>5, <1>10, <2>1, <2>2, <2>4 DEF R, VictimLabels
<1>15. CASE PruneReports(p)
  <2>1. /\ pc[p] = "prune_reports" /\ pc'[p] = "prune" /\ UNCHANGED memory
        /\ UNCHANGED <<repos, manifests, provenance, records, layer, staging>>
        /\ reports' = reports \ {victim[p]}
    BY <1>15, StepLabels DEF PruneReports
  <2>2. victim' = victim /\ victims' = victims
    BY <2>1 DEF memory, prune
  <2>3. Recorded' = Recorded /\ Layers' = Layers
    BY <2>1 DEF Recorded, Layers
  <2>4. Reclaims(p)'
    BY <1>2, <1>5, <2>1, <2>2, <2>3 DEF Reclaims, VictimLabels, Candidates, R
  <2>5. QED
    BY <1>4, <1>5, <1>10, <2>1, <2>2, <2>4 DEF R, VictimLabels
<1>16. CASE PruneEnd(p)
  <2>1. pc[p] = "prune" /\ pc'[p] = "done" /\ UNCHANGED disk
    BY <1>16, StepLabels DEF PruneEnd
  <2>2. QED
    BY <1>4, <1>5, <2>1 DEF Spares, Reclaims, VictimLabels, disk, R
<1>17. QED
  BY <1>6, <1>7, <1>8, <1>9, <1>11, <1>12, <1>13, <1>14, <1>15, <1>16 DEF PruneStep, R

\* A process that takes no step of a prune comes to none of its later labels.
LEMMA PruneLabelsAreOfPrunes ==
    ASSUME TypeInv, NEW p \in Proc, StepOf(p), ~PruneStep(p)
    PROVE  /\ pc'[p] \notin {"prune_mark", "prune_list", "prune"} \cup VictimLabels
           /\ manifests \subseteq manifests'
           /\ provenance' = provenance \/ WriteProvenance(p)
           /\ pc[p] \in PruneLabels => \E survive \in BOOLEAN : Crash(p, survive)
<1>1. ASSUME NEW c \in Purl, ComponentStep(p, c)
      PROVE  /\ pc'[p] = "components"
             /\ manifests' = manifests
             /\ provenance' = provenance
             /\ pc[p] \notin PruneLabels
  BY <1>1, ComponentStepLocal DEF PruneLabels
<1>2. CASE ~\E c \in Purl : ComponentStep(p, c)
  <2>1. pc'[p] \notin {"prune_mark", "prune_list", "prune"} \cup VictimLabels
    BY <1>2, StepLabels DEF StepOf, Step, CommandStep, VictimLabels
  <2>2. /\ manifests \subseteq manifests'
        /\ provenance' = provenance \/ WriteProvenance(p)
    BY <1>2 DEF StepOf, Step, CommandStep, ComponentsEnd, RecordManifest, ResolveTag, ReadTags, WriteTags,
                WriteProvenance, RestoreSBOM, ScanRefuses, RestoreReports, Crash, Start, disk
  <2>3. pc[p] \in PruneLabels => \E survive \in BOOLEAN : Crash(p, survive)
    BY <1>2 DEF StepOf, Step, CommandStep, ComponentsEnd, RecordManifest, ResolveTag, ReadTags, WriteTags,
                WriteProvenance, RestoreSBOM, ScanRefuses, RestoreReports, Start, PruneLabels
  <2>4. QED
    BY <2>1, <2>2, <2>3
<1>3. QED
  BY <1>1, <1>2 DEF VictimLabels

\* A build comes to its tag, and to its statement, after its manifest.
LEMMA StatedOfBuild ==
    ASSUME TypeInv, PruneInv, "crash" \notin plan.faults, NEW p \in Proc, StepOf(p), ~PruneStep(p),
           \/ pc'[p] = "provenance"
           \/ pc'[p] \in {"read_tags", "write_tags"} /\ Building(p)'
    PROVE  SBOMOf(p)' \in manifests'
<1>1. /\ cmd \in [Proc -> Command]
      /\ \A survive \in BOOLEAN : ~Crash(p, survive)
      /\ ~\E c \in Purl : ComponentStep(p, c)
  BY ComponentStepLocal DEF TypeInv, Memory, Crash
<1>2. CASE RecordManifest(p)
  BY <1>2 DEF RecordManifest, SBOMOf, memory
<1>3. CASE ReadTags(p)
  <2>1. pc[p] = "read_tags" /\ cmd' = cmd /\ manifests' = manifests /\ pc'[p] # "provenance"
    BY <1>3, StepLabels DEF ReadTags, disk
  <2>2. QED
    BY <2>1 DEF PruneInv, Stated, Building, SBOMOf
<1>4. CASE WriteTags(p)
  <2>1. pc'[p] = "provenance"
    BY <1>4, StepLabels
  <2>2. Building(p)
    BY <1>4, <2>1, GoesTo DEF WriteTags, AfterTags
  <2>3. pc[p] = "write_tags" /\ cmd' = cmd /\ manifests' = manifests
    <3>1. AfterTags(p) = "provenance"
      BY <2>2 DEF AfterTags, Building, Removing
    <3>2. QED
      BY <1>4, <3>1 DEF WriteTags, Continue, Ended, memory
  <2>4. QED
    BY <2>2, <2>3 DEF PruneInv, Stated, Building, SBOMOf
<1>5. CASE ResolveTag(p)
  <2>1. cmd[p].op = "tag" /\ pc'[p] \in {"read_tags", "failed"}
    BY <1>5, StepLabels DEF ResolveTag, TypeInv, Fits
  <2>2. pc'[p] = "read_tags"
    BY <2>1
  <2>3. cmd' = [cmd EXCEPT ![p].sbom = repos[cmd[p].from]]
    BY <1>5, <2>2, GoesTo DEF ResolveTag
  <2>4. cmd'[p].op = "tag"
    BY <1>1, <2>1, <2>3 DEF Command
  <2>5. QED
    BY <2>2, <2>4 DEF Building
<1>6. CASE RestoreReports(p)
  <2>1. pc[p] = "reports" /\ cmd[p].op = "pull"
    BY <1>6 DEF RestoreReports, TypeInv, Fits, Pulling
  <2>2. pc'[p] = "read_tags"
    BY <1>6, StepLabels
  <2>3. cmd' = cmd
    BY <1>6, <2>2, GoesTo DEF RestoreReports, Continue, Ended, memory, Tagging
  <2>4. QED
    BY <2>1, <2>2, <2>3 DEF Building
<1>7. ASSUME NEW line \in CommandLines, Start(p, line)
      PROVE  FALSE
  <2>1. cmd'[p] = line /\ pc'[p] = FirstStep[line.op]
    BY <1>1, <1>7, GoesTo DEF Start
  <2>2. line.op = "build"
    BY <2>1, <1>7, StepLabels DEF Building
  <2>3. QED
    BY <2>1, <2>2 DEF FirstStep
<1>8. QED
  BY <1>1, <1>2, <1>3, <1>4, <1>5, <1>6, <1>7, StepLabels DEF StepOf, Step, CommandStep

LEMMA PruneInvStep ==
    ASSUME TypeInv, TurnInv, ClaimInv, PruneInv, [Next]_vars
    PROVE  PruneInv'
<1>1. CASE UNCHANGED vars
  BY <1>1 DEF vars, disk, memory, prune, PruneInv, Spares, Reclaims, Stated, Reachable, Candidates,
              Recorded, Layers, Building, SBOMOf
<1>2. ASSUME NEW p \in Proc, StepOf(p), plan' = plan
      PROVE  PruneInv'
  <2>1. ASSUME NEW q \in Proc, q # p
        PROVE  ~Busy(q)' /\ Spares(q)' /\ Reclaims(q)'
    BY <1>2, <2>1, NobodyElse DEF Spares, Reclaims, VictimLabels, Busy, Ended
  <2>2. \A q \in Proc : q # p => pc'[q] \notin {"provenance", "read_tags", "write_tags"}
    BY <2>1 DEF Busy, Ended
  <2>3. CASE PruneStep(p)
    <3>1. /\ Spares(p)' /\ Reclaims(p)'
          /\ "crash" \notin plan.faults => \A s \in provenance' :
                s \in manifests' \/ (pc'[p] = "prune_provenance" /\ victim'[p] = s)
      BY <1>2, <2>3, PruneInvOfPrune
    <3>2. pc'[p] \notin {"provenance", "read_tags", "write_tags"}
      BY <2>3, StepLabels DEF PruneStep
    <3>3. "crash" \notin plan.faults => Stated'
      BY <2>2, <3>1, <3>2 DEF Stated
    <3>4. QED
      BY <1>2, <2>1, <3>1, <3>3 DEF PruneInv
  <2>4. CASE ~PruneStep(p)
    <3>1. /\ pc'[p] \notin {"prune_mark", "prune_list", "prune"} \cup VictimLabels
          /\ manifests \subseteq manifests'
          /\ provenance' = provenance \/ WriteProvenance(p)
          /\ pc[p] \in PruneLabels => \E survive \in BOOLEAN : Crash(p, survive)
      BY <1>2, <2>4, PruneLabelsAreOfPrunes
    <3>2. Spares(p)' /\ Reclaims(p)'
      BY <3>1 DEF Spares, Reclaims, VictimLabels
    <3>3. ASSUME "crash" \notin plan.faults
          PROVE  Stated'
      <4>1. \A q \in Proc :
               (pc[q] = "provenance" \/ (pc[q] \in {"read_tags", "write_tags"} /\ Building(q)))' =>
                   (SBOMOf(q) \in manifests)'
        BY <1>2, <2>2, <2>4, <3>3, StatedOfBuild
      <4>2. ASSUME NEW s \in provenance
            PROVE  s \in manifests
        <5>1. ASSUME NEW q \in Proc, pc[q] = "prune_provenance"
              PROVE  FALSE
          <6>1. Busy(q)
            BY <5>1 DEF Busy, Ended
          <6>2. q = p
            BY <1>2, <6>1, NobodyElse
          <6>3. \E survive \in BOOLEAN : Crash(p, survive)
            BY <3>1, <5>1, <6>2 DEF PruneLabels
          <6>4. QED
            BY <3>3, <6>3 DEF Crash
        <5>2. QED
          BY <3>3, <5>1 DEF PruneInv, Stated
      <4>3. WriteProvenance(p) => provenance' \subseteq provenance \cup {SBOMOf(p)}
                                  /\ SBOMOf(p) \in manifests
        BY <3>3 DEF WriteProvenance, PruneInv, Stated
      <4>4. QED
        BY <3>1, <4>1, <4>2, <4>3 DEF Stated
    <3>4. QED
      BY <1>2, <2>1, <3>2, <3>3 DEF PruneInv
  <2>5. QED
    BY <2>3, <2>4
<1>3. CASE OrphanStep /\ plan' = plan
  <2>1. PICK p \in Proc, c \in Purl : \E h \in Source[c] \cup {"partial"} : OrphanWrites(p, c, h)
    BY <1>3 DEF OrphanStep
  <2>2. PICK h \in Source[c] \cup {"partial"} : OrphanWrites(p, c, h)
    BY <2>1
  <2>3. layer \in [Purl -> Hash \cup {"absent", "partial"}] /\ h # "absent"
    BY <2>2, ConstantsAssumption DEF TypeInv, TypeOK
  <2>4. Layers' = Layers
    BY <2>2, <2>3 DEF OrphanWrites, Layers
  <2>5. /\ UNCHANGED <<repos, manifests, provenance, records, reports, staging, pc, memory>>
        /\ Candidates' = Candidates
    BY <2>2, <2>4 DEF OrphanWrites, Candidates, Recorded
  <2>6. QED
    BY <1>3, <2>4, <2>5 DEF memory, prune, PruneInv, Spares, Reclaims, Stated, Reachable, Recorded,
                            Building, SBOMOf
<1>4. QED
  BY <1>1, <1>2, <1>3, EveryStepIsOfOne

LEMMA PruneInvariant == Spec /\ InTurn => []PruneInv
<1>1. Init => PruneInv
  BY DEF Init, PruneInv, Spares, Reclaims, Stated, VictimLabels
<1>2. QED
  BY <1>1, PruneInvStep, TypeInvariant, TurnInvariant, ClaimInvariant, PTL DEF Spec

\* In turn, a prune leaves nothing on disk that no tag reaches, and, unless
\* commands crash, no provenance statement either (candidateHashes and the
\* removals of cmd/package.go's prune).
THEOREM PrunesReclaim == Spec /\ InTurn => PruneReclaims
<1>1. TypeInv /\ TurnInv /\ PruneInv /\ [Next]_vars =>
        [\A p \in Proc : Pruned(p) =>
            /\ \A h \in Candidates \ Reachable(repos) : h \in Purl /\ Live(h)
            /\ "crash" \in plan.faults \/ provenance \subseteq Reachable(repos)]_pc
  <2> SUFFICES ASSUME TypeInv, TurnInv, PruneInv, Next, NEW p \in Proc, Pruned(p)
               PROVE  /\ Candidates \subseteq Reachable(repos)
                      /\ "crash" \in plan.faults \/ provenance \subseteq Reachable(repos)
    BY DEF vars
  <2>1. Candidates \subseteq Reachable(repos) \cup victims[p]
    BY DEF Pruned, PruneInv, Reclaims
  <2>2. Busy(p)
    BY DEF Pruned, Busy, Ended
  <2>3. PICK q \in Proc : StepOf(q)
    BY EveryStepIsOfOne DEF Pruned, OrphanStep, OrphanWrites
  <2>4. q = p
    BY <2>2, <2>3, NobodyElse
  <2>5. PruneEnd(p)
    <3>1. PruneStep(p)
      BY <2>3, <2>4, PruneLabelsAreOfPrunes, StepLabels DEF Pruned, PruneLabels
    <3>2. QED
      BY <3>1, StepLabels DEF Pruned, PruneStep
  <2>6. victims[p] = {}
    BY <2>5 DEF PruneEnd
  <2>7. "crash" \notin plan.faults => provenance \subseteq manifests
    <3>1. \A r \in Proc : pc[r] # "prune_provenance"
      BY <2>2 DEF TurnInv, Busy, Ended, Pruned
    <3>2. QED
      BY <3>1 DEF PruneInv, Stated
  <2>8. QED
    BY <2>1, <2>6, <2>7 DEF Candidates
<1>2. QED
  BY <1>1, TypeInvariant, TurnInvariant, PruneInvariant, PTL DEF Spec, PruneReclaims

-----------------------------------------------------------------------------
(***************************************************************************)
(* What builds and copies have tagged, at once.                            *)
(***************************************************************************)

\* A package that is recorded, and whose components are.
AllRecorded(s) == \A c \in Describes[s] : records[c] # "absent"

Stored(s) == s \in plan.sboms /\ s \in manifests /\ AllRecorded(s)

\* How far a build is with a component, and what is there then.
Filling(p, c) ==
    /\ at[p][c] = "fetching" => layer[c] = "partial"
    /\ at[p][c] \in {"filled", "fetched"} => layer[c] \in Source[c] /\ noted[p][c] \in Source[c]
    /\ at[p][c] \in {"fetched", "done"} => records[c] # "absent"
    /\ at[p][c] # "unfetched"

\* A recorded component is there, or on its way again.
Sourced(c) ==
    /\ layer[c] \in Source[c] \cup {"absent", "partial"}
    /\ records[c] \in Source[c] \cup {"absent"}
    /\ records[c] # "absent" =>
          layer[c] \in Source[c] \/ (pid[c] # None /\ at[pid[c]][c] = "fetching")
    /\ \A p \in Proc : Filling(p, c)

\* How far a build or a copy is with its package.
Along(p) ==
    /\ pc[p] = "record" => AllRecorded(SBOMOf(p))
    /\ pc[p] \in {"read_tags", "write_tags", "provenance"} => Stored(SBOMOf(p))
    /\ pc[p] = "write_tags" => \A t \in Tag : mem[p][t] # None => Stored(mem[p][t])

BuiltInv ==
    Steady /\ FetchesSucceed =>
        /\ \A c \in Purl : Sourced(c)
        /\ \A t \in Tag : repos[t] # None => Stored(repos[t])
        /\ \A p \in Proc : Along(p)

\* Only builds and copies run.
LEMMA SteadyRuns ==
    ASSUME TypeInv, Steady, NEW p \in Proc, Busy(p)
    PROVE  /\ cmd[p].op \in {"build", "tag"}
           /\ pc[p] \notin PruneLabels \cup {"sbom", "reports"}
           /\ SBOMOf(p) \in SBOM => (Building(p) => SBOMOf(p) \in plan.sboms)
BY DEF TypeInv, Fits, Steady, PruneLabels, Pulling

\* They take no step of a pull or a prune, and are not killed.
LEMMA SteadySteps ==
    ASSUME TypeInv, CalmInv, Steady, NEW p \in Proc, StepOf(p)
    PROVE  /\ ~PruneStep(p) /\ ~RestoreSBOM(p) /\ ~RestoreReports(p) /\ ~ScanRefuses(p)
           /\ \A survive \in BOOLEAN : ~Crash(p, survive)
           /\ manifests \subseteq manifests'
<1>1. ~PruneStep(p)
  <2>1. PruneStep(p) => pc[p] \in PruneLabels /\ Busy(p)
    BY PruneStepLabel DEF PruneLabels, Busy, Ended
  <2>2. QED
    BY <2>1, SteadyRuns
<1>2. ~RestoreSBOM(p) /\ ~RestoreReports(p) /\ ~ScanRefuses(p)
  <2>1. RestoreSBOM(p) \/ RestoreReports(p) \/ ScanRefuses(p) =>
           pc[p] \in {"sbom", "reports"} /\ Busy(p)
    BY DEF RestoreSBOM, RestoreReports, ScanRefuses, Busy, Ended
  <2>2. QED
    BY <2>1, SteadyRuns
<1>3. \A survive \in BOOLEAN : ~Crash(p, survive)
  BY DEF Crash, Steady
<1>4. manifests \subseteq manifests'
  BY <1>1, PruneLabelsAreOfPrunes
<1>5. QED
  BY <1>1, <1>2, <1>3, <1>4

\* The step of one component.
LEMMA SourcedOfComponent ==
    ASSUME TypeInv, CalmInv, OwnedInv, BuiltInv, Steady, FetchesSucceed, plan' = plan,
           NEW p \in Proc, NEW c \in Purl, ComponentStep(p, c)
    PROVE  Sourced(c)' /\ (records[c] # "absent" => records'[c] # "absent")
<1>1. /\ pc[p] = "components" /\ Busy(p)
      /\ \A q \in Proc : q # p => at'[q] = at[q] /\ noted'[q] = noted[q]
  BY ComponentStepLocal DEF Busy, Ended
<1>2. ~Pulling(p)
  BY <1>1, SteadyRuns DEF Pulling
<1>3. /\ Sourced(c)
      /\ at[p][c] # "none" => \A h \in Source[c] : VerifyHash(DeclaredBy(p, c), h)
      /\ "fetch" \notin plan.faults
  <2>1. at[p][c] # "none" => SBOMOf(p) \in plan.sboms /\ c \in Describes[SBOMOf(p)]
    BY <1>1 DEF TypeInv, Fits, Places
  <2>2. QED
    BY <2>1 DEF BuiltInv, FetchesSucceed, DeclaredBy
<1>4. /\ Source[c] \subseteq Hash /\ {"absent", "partial"} \cap Hash = {}
      /\ None \notin Proc
  BY ConstantsAssumption
<1>5. \A q \in Proc : at[q][c] \in Held => pid[c] = q
  BY DEF OwnedInv
<1>6. ASSUME UNCHANGED <<records, layer>>, at'[p][c] \notin Held,
             at'[p][c] = "done" => records[c] # "absent",
             pid'[c] # pid[c] => at[p][c] \in Held \ {"fetching"},
             at[p][c] # "fetching"
      PROVE  Sourced(c)'
  <2>1. \A q \in Proc : Filling(q, c)'
    BY <1>1, <1>3, <1>6 DEF Sourced, Filling, Held
  <2>2. records[c] # "absent" =>
           layer[c] \in Source[c] \/ (pid'[c] # None /\ at'[pid'[c]][c] = "fetching")
    <3>1. CASE pid'[c] = pid[c] /\ pid[c] = p
      BY <1>3, <1>6, <3>1 DEF Sourced
    <3>2. CASE pid'[c] = pid[c] /\ pid[c] # p
      <4>1. pid[c] # None => pid[c] \in Proc
        BY DEF TypeInv, TypeOK
      <4>2. QED
        BY <1>1, <1>3, <3>2, <4>1 DEF Sourced
    <3>3. CASE pid'[c] # pid[c]
      <4>1. at[p][c] \in Held \ {"fetching"}
        BY <1>6, <3>3
      <4>2. QED
        BY <1>3, <1>5, <4>1 DEF Sourced
    <3>4. QED
      BY <3>1, <3>2, <3>3
  <2>3. QED
    BY <1>3, <1>6, <2>1, <2>2 DEF Sourced
<1>7. CASE Checked(p, c) \/ Probed(p, c) \/ Waited(p, c) \/ Decided(p, c) \/ Beaten(p, c)
  <2>1. /\ UNCHANGED <<records, layer, claims>> /\ at'[p][c] \notin Held /\ at[p][c] # "fetching"
        /\ at'[p][c] = "done" => records[c] # "absent"
    BY <1>7 DEF Checked, Probed, Waited, Decided, Beaten, Moved, Held, ToDo
  <2>2. QED
    BY <1>6, <2>1 DEF claims
<1>8. ~Removed(p, c)
  BY DEF Removed, Moved, CalmInv
<1>9. CASE Claimed(p, c) \/ Written(p, c)
  <2>1. /\ UNCHANGED <<records, layer>> /\ at'[p][c] \in {"claimed", "clear"}
        /\ pid'[c] = p /\ at[p][c] # "fetching" /\ (pid[c] = None \/ pid[c] = p)
    BY <1>5, <1>9 DEF Claimed, Written, Moved, Held
  <2>2. \A q \in Proc : Filling(q, c)'
    BY <1>1, <1>3, <2>1 DEF Sourced, Filling
  <2>3. records[c] # "absent" => layer[c] \in Source[c]
    BY <1>3, <2>1 DEF Sourced
  <2>4. QED
    BY <1>3, <2>1, <2>2, <2>3 DEF Sourced
<1>10. ASSUME at[p][c] \in Held, at'[p][c] \in Held, UNCHANGED <<claims>>
       PROVE  /\ pid'[c] = p
              /\ \A q \in Proc : q # p => at'[q][c] \notin Held
  BY <1>1, <1>5, <1>10 DEF claims
<1>11. CASE Cleared(p, c)
  <2>1. /\ at[p][c] \in Held /\ at'[p][c] = "fetching" /\ layer'[c] = "partial"
        /\ UNCHANGED <<records, claims>>
    BY <1>11 DEF Cleared, Moved, Held
  <2>2. pid'[c] = p /\ \A q \in Proc : q # p => at'[q][c] \notin Held
    BY <1>10, <2>1 DEF Held
  <2>3. \A q \in Proc : Filling(q, c)'
    BY <1>1, <1>3, <2>1, <2>2 DEF Sourced, Filling, Held
  <2>4. QED
    BY <1>3, <1>4, <2>1, <2>2, <2>3 DEF Sourced
<1>12. CASE Filled(p, c)
  <2>1. PICK h \in Source[c] : /\ Moved(p, c, "fetching", "filled", h)
                               /\ layer'[c] = IF layer[c] \in {"partial", h} THEN h ELSE "partial"
    BY <1>12 DEF Filled
  <2>2. layer'[c] = h /\ UNCHANGED <<records, claims>>
    BY <1>3, <1>12, <2>1 DEF Filled, Moved, Sourced, Filling
  <2>3. at[p][c] \in Held /\ at'[p][c] = "filled" /\ noted'[p][c] = h
    BY <2>1 DEF Moved, Held
  <2>4. pid'[c] = p /\ \A q \in Proc : q # p => at'[q][c] \notin Held
    BY <1>10, <2>2, <2>3 DEF Held
  <2>5. \A q \in Proc : Filling(q, c)'
    BY <1>1, <1>3, <2>2, <2>3, <2>4 DEF Sourced, Filling, Held
  <2>6. QED
    BY <1>3, <2>2, <2>5 DEF Sourced
<1>13. CASE Noticed(p, c)
  <2>1. /\ at[p][c] = "filled" /\ at'[p][c] = "fetched" /\ noted'[p][c] = noted[p][c]
        /\ layer' = layer /\ UNCHANGED <<claims>>
        /\ records'[c] = noted[p][c]
    BY <1>13 DEF Noticed, Moved
  <2>2. layer[c] \in Source[c] /\ noted[p][c] \in Source[c]
    BY <1>3, <2>1 DEF Sourced, Filling
  <2>3. \A q \in Proc : q # p => at'[q][c] \notin Held
    BY <1>10, <2>1 DEF Held
  <2>4. \A q \in Proc : Filling(q, c)'
    BY <1>1, <1>3, <1>4, <2>1, <2>2, <2>3 DEF Sourced, Filling, Held
  <2>5. QED
    BY <1>4, <2>1, <2>2, <2>4 DEF Sourced
<1>14. ~Failed(p, c)
  BY <1>3, <1>4 DEF Failed, Moved, Sourced, Filling
<1>15. CASE Released(p, c)
  <2>1. /\ at[p][c] = "fetched" /\ at'[p][c] = "done" /\ UNCHANGED <<records, layer>>
    BY <1>3, <1>15 DEF Released, Moved, Sourced, Filling
  <2>2. records[c] # "absent"
    BY <1>3, <2>1 DEF Sourced, Filling
  <2>3. QED
    BY <1>6, <2>1, <2>2 DEF Held
<1>16. records[c] # "absent" => records'[c] # "absent"
  BY <1>4, ComponentStepMeans, <1>2
     DEF Checked, Probed, Waited, Removed, Decided, Claimed, Beaten, Written, Cleared, Filled, Noticed,
         Failed, Released, Keeps, Stages, Clears, Renames, Discards, Records
<1>17. QED
  BY <1>2, <1>7, <1>8, <1>9, <1>11, <1>12, <1>13, <1>14, <1>15, <1>16, ComponentStepMeans
     DEF Keeps, Stages, Clears, Renames, Discards, Records

\* The steps between the components and the end of a command.
LEMMA BuildingOfCommand ==
    ASSUME TypeInv, CalmInv, BuiltInv, Steady, FetchesSucceed, plan' = plan,
           NEW p \in Proc, StepOf(p), ~\E d \in Purl : ComponentStep(p, d),
           manifests \subseteq manifests',
           \A c \in Purl : records[c] # "absent" => records'[c] # "absent"
    PROVE  Along(p)' /\ (\A t \in Tag : repos[t] # None => Stored(repos[t]))'
<1>1. /\ ~PruneStep(p) /\ ~RestoreSBOM(p) /\ ~RestoreReports(p) /\ ~ScanRefuses(p)
      /\ \A survive \in BOOLEAN : ~Crash(p, survive)
  BY SteadySteps
<1>2. /\ pc \in [Proc -> Labels] /\ mem \in [Proc -> [Tag -> SBOM \cup {None}]]
      /\ repos \in [Tag -> SBOM \cup {None}] /\ cmd \in [Proc -> Command]
      /\ Fits(p) /\ Places(p)
  BY DEF TypeInv, TypeOK, Memory
<1>3. Along(p) /\ \A t \in Tag : repos[t] # None => Stored(repos[t])
  BY DEF BuiltInv
<1> DEFINE Tagged == (\A t \in Tag : repos[t] # None => Stored(repos[t]))'
           Is(s) == s \in plan.sboms /\ s \in manifests' /\ \A c \in Describes[s] : records'[c] # "absent"
<1>4. /\ \A s : Stored(s) => Is(s)
      /\ \A s \in plan.sboms : AllRecorded(s) => \A c \in Describes[s] : records'[c] # "absent"
  <2>1. plan.sboms \subseteq SBOM /\ \A s \in SBOM : Describes[s] \subseteq Purl
    BY ConstantsAssumption DEF TypeInv, Memory, PlanType
  <2>2. QED
    BY <2>1 DEF Stored, AllRecorded
<1>5. /\ Tagged <=> \A t \in Tag : repos'[t] # None => Is(repos'[t])
      /\ Stored(SBOMOf(p))' <=> Is(SBOMOf(p)')
      /\ AllRecorded(SBOMOf(p))' <=> \A c \in Describes[SBOMOf(p)'] : records'[c] # "absent"
      /\ (\A t \in Tag : mem[p][t] # None => Stored(mem[p][t]))'
             <=> \A t \in Tag : mem'[p][t] # None => Is(mem'[p][t])
  BY DEF Stored, AllRecorded
<1> HIDE DEF Tagged, Is
<1>6. ASSUME repos' = repos
      PROVE  Tagged
  BY <1>4, <1>5, <1>3, <1>6
<1>7. CASE ComponentsEnd(p)
  <2>1. pc[p] = "components" /\ repos' = repos
    BY <1>7 DEF ComponentsEnd, disk
  <2>2. pc'[p] \in {"failed", "record", "reports"}
    BY <1>7, StepLabels
  <2>3. ASSUME pc'[p] = "record"
        PROVE  SBOMOf(p)' = SBOMOf(p) /\ \A c \in Describes[SBOMOf(p)] : records'[c] # "absent"
    <3>1. /\ ~\E c \in Purl : at[p][c] = "failed"
          /\ UNCHANGED memory
      BY <1>7, <2>3, GoesTo DEF ComponentsEnd, Continue, Ended
    <3>2. \A c \in Purl : at[p][c] \in {"none", "done"}
      BY <1>7, <3>1 DEF ComponentsEnd
    <3>3. \A c \in Purl : c \in Describes[SBOMOf(p)] => records[c] # "absent"
      BY <1>2, <2>1, <3>2 DEF Places, BuiltInv, Sourced, Filling
    <3>4. SBOMOf(p) \in SBOM /\ Describes[SBOMOf(p)] \subseteq Purl
      BY <1>2, <2>1, ConstantsAssumption DEF Fits, Busy, Ended, TypeInv, Memory, PlanType
    <3>5. QED
      BY <3>1, <3>3, <3>4 DEF SBOMOf, memory
  <2>4. Along(p)'
    BY <1>5, <2>2, <2>3 DEF Along
  <2>5. QED
    BY <1>6, <2>1, <2>4 DEF Tagged
<1>8. CASE RecordManifest(p)
  <2>1. /\ pc[p] = "record" /\ UNCHANGED <<repos, records, memory>>
        /\ manifests' = manifests \cup {SBOMOf(p)}
    BY <1>8 DEF RecordManifest
  <2>2. pc'[p] \in {"read_tags", "provenance"} /\ SBOMOf(p)' = SBOMOf(p)
    BY <1>8, <2>1, StepLabels DEF SBOMOf, memory
  <2>3. AllRecorded(SBOMOf(p)) /\ SBOMOf(p) \in plan.sboms
    BY <1>2, <1>3, <2>1 DEF Along, Fits, Busy, Ended
  <2>4. Stored(SBOMOf(p))'
    BY <1>4, <1>5, <2>1, <2>2, <2>3 DEF Is
  <2>5. Along(p)'
    BY <2>2, <2>4 DEF Along
  <2>6. QED
    BY <1>6, <2>1, <2>5 DEF Tagged
<1>9. CASE ResolveTag(p)
  <2>1. repos' = repos /\ pc'[p] \in {"read_tags", "failed"} /\ cmd[p].from \in Tag
    BY <1>2, <1>9, StepLabels DEF ResolveTag, disk, Fits
  <2>2. ASSUME pc'[p] = "read_tags"
        PROVE  Stored(SBOMOf(p))'
    <3>1. repos[cmd[p].from] # None /\ cmd' = [cmd EXCEPT ![p].sbom = repos[cmd[p].from]]
      BY <1>9, <2>2, GoesTo DEF ResolveTag
    <3>2. SBOMOf(p)' = repos[cmd[p].from]
      BY <1>2, <3>1 DEF SBOMOf, Command
    <3>3. QED
      BY <1>4, <1>5, <1>3, <2>1, <3>1, <3>2
  <2>3. Along(p)'
    BY <2>1, <2>2 DEF Along
  <2>4. QED
    BY <1>6, <2>1, <2>3 DEF Tagged
<1>10. CASE ReadTags(p)
  <2>1. /\ pc[p] = "read_tags" /\ repos' = repos /\ cmd' = cmd /\ mem'[p] = repos
    BY <1>2, <1>10 DEF ReadTags, disk
  <2>2. ~Removing(p)
    <3>1. Busy(p)
      BY <2>1 DEF Busy, Ended
    <3>2. QED
      BY <3>1, SteadyRuns DEF Removing
  <2>3. pc'[p] = "write_tags"
    BY <1>10, <2>2, GoesTo DEF ReadTags
  <2>4. Stored(SBOMOf(p))' /\ SBOMOf(p)' = SBOMOf(p)
    BY <1>4, <1>5, <1>3, <2>1 DEF Along, SBOMOf
  <2>5. (\A t \in Tag : mem[p][t] # None => Stored(mem[p][t]))'
    BY <1>4, <1>5, <1>3, <2>1
  <2>6. Along(p)'
    BY <2>3, <2>4, <2>5 DEF Along
  <2>7. QED
    BY <1>6, <2>1, <2>6 DEF Tagged
<1>11. CASE WriteTags(p)
  <2>1. /\ pc[p] = "write_tags" /\ repos' = [mem[p] EXCEPT ![cmd[p].tag] = SBOMOf(p)]
        /\ Stored(SBOMOf(p)) /\ \A t \in Tag : mem[p][t] # None => Stored(mem[p][t])
    BY <1>3, <1>11 DEF WriteTags, Along
  <2>2. Tagged
    BY <1>4, <1>5, <1>2, <2>1
  <2>3. pc'[p] \in {"provenance", "prune_read", "done"}
    BY <1>11, StepLabels
  <2>4. pc'[p] = "provenance" => SBOMOf(p)' = SBOMOf(p)
    BY <1>11, GoesTo DEF WriteTags, Continue, Ended, memory, SBOMOf
  <2>5. pc'[p] = "provenance" => Stored(SBOMOf(p))'
    BY <1>4, <1>5, <2>1, <2>4
  <2>6. Along(p)'
    BY <2>3, <2>5 DEF Along
  <2>7. QED
    BY <2>2, <2>6 DEF Tagged
<1>12. CASE WriteProvenance(p)
  <2>1. pc'[p] = "done" /\ repos' = repos
    BY <1>12, StepLabels DEF WriteProvenance
  <2>2. Along(p)'
    BY <2>1 DEF Along
  <2>3. QED
    BY <1>6, <2>1, <2>2 DEF Tagged
<1>13. ASSUME NEW line \in CommandLines, Start(p, line)
       PROVE  Along(p)' /\ Tagged
  <2>1. /\ pc'[p] = FirstStep[line.op] /\ repos' = repos
        /\ line.op \in plan.commands
    BY <1>13, GoesTo, LinesTyped DEF Start, disk
  <2>2. line.op \in {"build", "tag"}
    BY <2>1 DEF Steady
  <2>3. QED
    BY <1>6, <2>1, <2>2 DEF FirstStep, Along
<1>14. QED
  BY <1>1, <1>7, <1>8, <1>9, <1>10, <1>11, <1>12, <1>13 DEF StepOf, Step, CommandStep, Tagged

LEMMA BuiltStep ==
    ASSUME TypeInv, CalmInv, OwnedInv, BuiltInv, [Next]_vars
    PROVE  BuiltInv'
<1>1. CASE UNCHANGED vars
  BY <1>1 DEF vars, disk, claims, memory, BuiltInv, Sourced, Filling, Stored, AllRecorded, Along,
              SBOMOf, Steady, FetchesSucceed
<1> SUFFICES ASSUME Next, plan' = plan, Steady, FetchesSucceed
             PROVE  /\ \A c \in Purl : Sourced(c)'
                    /\ (\A t \in Tag : repos[t] # None => Stored(repos[t]))'
                    /\ \A p \in Proc : Along(p)'
  BY <1>1, EveryStepIsOfOne DEF BuiltInv, Steady, FetchesSucceed
<1>2. ~OrphanStep
  BY DEF OrphanStep, OrphanWrites, CalmInv, Steady
<1>3. PICK p \in Proc : StepOf(p)
  BY <1>2, EveryStepIsOfOne
<1>4. /\ \A c \in Purl : Sourced(c)
      /\ \A t \in Tag : repos[t] # None => Stored(repos[t])
      /\ \A q \in Proc : Along(q)
  BY DEF BuiltInv
<1>5. ~PruneStep(p) /\ manifests \subseteq manifests'
  BY <1>3, SteadySteps
<1>6. \A c \in Purl : Sourced(c)' /\ (records[c] # "absent" => records'[c] # "absent")
  <2>1. ASSUME NEW c \in Purl, ~ComponentStep(p, c)
        PROVE  Sourced(c)' /\ (records[c] # "absent" => records'[c] # "absent")
    <3>1. layer'[c] = layer[c] /\ records'[c] = records[c] /\ pid'[c] = pid[c]
      <4>1. CASE \E d \in Purl : ComponentStep(p, d)
        BY <2>1, <4>1, ComponentStepLocal
      <4>2. CASE ~\E d \in Purl : ComponentStep(p, d)
        BY <1>3, <1>5, <4>2, ComponentsKept DEF claims
      <4>3. QED
        BY <4>1, <4>2
    <3>2. ASSUME NEW q \in Proc
          PROVE  Filling(q, c)'
      <4>1. at'[q][c] \notin {"none", ToDo} => at'[q][c] = at[q][c] /\ noted'[q][c] = noted[q][c]
        BY <1>3, <2>1, StaysAt
      <4>2. QED
        BY <1>4, <3>1, <4>1 DEF Sourced, Filling, ToDo
    <3>3. ASSUME pid[c] # None, at[pid[c]][c] = "fetching"
          PROVE  at'[pid[c]][c] = "fetching"
      <4>1. PICK q \in Proc : q = pid[c]
        BY <3>3 DEF TypeInv, TypeOK
      <4>2. CASE q # p
        BY <1>3, <3>3, <4>1, <4>2, OthersKept
      <4>3. CASE q = p
        <5>1. CASE \E d \in Purl : ComponentStep(p, d)
          BY <2>1, <3>3, <4>1, <4>3, <5>1, ComponentStepLocal
        <5>2. CASE ~\E d \in Purl : ComponentStep(p, d)
          BY <1>3, <3>3, <4>1, <4>3, <5>2, MidwayStep, SteadySteps DEF ToDo
        <5>3. QED
          BY <5>1, <5>2
      <4>4. QED
        BY <4>2, <4>3
    <3>4. QED
      BY <1>4, <3>1, <3>2, <3>3 DEF Sourced
  <2>2. QED
    BY <2>1, SourcedOfComponent
<1>7. ASSUME NEW s, Stored(s) \/ (s \in plan.sboms /\ AllRecorded(s))
      PROVE  /\ \A c \in Describes[s] : records'[c] # "absent"
             /\ Stored(s) => s \in plan'.sboms /\ s \in manifests'
  <2>1. s \in SBOM /\ Describes[s] \subseteq Purl
    BY <1>7, ConstantsAssumption DEF Stored, TypeInv, Memory, PlanType
  <2>2. QED
    BY <1>5, <1>6, <1>7, <2>1 DEF Stored, AllRecorded
<1>8. ASSUME NEW q \in Proc, q # p
      PROVE  Along(q)'
  <2>1. pc'[q] = pc[q] /\ cmd'[q] = cmd[q] /\ mem'[q] = mem[q] /\ Along(q)
    BY <1>3, <1>4, <1>8, OthersKept
  <2>2. pc[q] = "record" => SBOMOf(q) \in plan.sboms
    BY DEF TypeInv, Fits, Busy, Ended
  <2>3. QED
    BY <1>7, <2>1, <2>2 DEF Along, SBOMOf, Stored, AllRecorded
<1>9. CASE \E d \in Purl : ComponentStep(p, d)
  <2>1. pc'[p] = "components" /\ repos' = repos
    BY <1>9, ComponentStepLocal
  <2>2. Along(p)'
    BY <2>1 DEF Along
  <2>3. (\A t \in Tag : repos[t] # None => Stored(repos[t]))'
    BY <1>4, <1>7, <2>1 DEF Stored, AllRecorded
  <2>4. QED
    BY <1>6, <1>8, <2>2, <2>3
<1>10. CASE ~\E d \in Purl : ComponentStep(p, d)
  BY <1>3, <1>5, <1>6, <1>8, <1>10, BuildingOfCommand
<1>11. QED
  BY <1>9, <1>10

LEMMA BuiltInvariant == Spec => []BuiltInv
<1>1. Init => BuiltInv
  BY ConstantsAssumption
     DEF Init, BuiltInv, Sourced, Filling, Along, NoTags
<1>2. QED
  BY <1>1, BuiltStep, TypeInvariant, CalmInvariant, OwnedInvariant, PTL DEF Spec

\* What builds that nothing kills, and copies of tags, have tagged is recorded, and
\* there whole or being fetched again, however they overlap (cache.go:51-69).
THEOREM BuildsAreBacked == Spec => []BuildsBacked
<1>1. BuiltInv /\ TypeInv => BuildsBacked
  <2> SUFFICES ASSUME BuiltInv, TypeInv, Steady, FetchesSucceed,
                      NEW t \in Tag, repos[t] # None
               PROVE  /\ repos[t] \in manifests
                      /\ \A c \in Describes[repos[t]] :
                            /\ records[c] # "absent"
                            /\ \/ layer[c] \in Hash /\ VerifyHash(Declares[repos[t]][c], layer[c])
                               \/ pid[c] # None /\ at[pid[c]][c] = "fetching"
    BY DEF BuildsBacked
  <2>1. Stored(repos[t])
    BY DEF BuiltInv
  <2>2. repos[t] \in plan.sboms /\ Describes[repos[t]] \subseteq Purl
    BY <2>1, ConstantsAssumption DEF Stored, TypeInv, Memory, PlanType
  <2>3. ASSUME NEW c \in Describes[repos[t]]
        PROVE  /\ records[c] # "absent"
               /\ \/ layer[c] \in Hash /\ VerifyHash(Declares[repos[t]][c], layer[c])
                  \/ pid[c] # None /\ at[pid[c]][c] = "fetching"
    <3>1. records[c] # "absent" /\ Sourced(c)
      BY <2>1, <2>2 DEF Stored, AllRecorded, BuiltInv
    <3>2. layer[c] \in Source[c] => layer[c] \in Hash /\ VerifyHash(Declares[repos[t]][c], layer[c])
      BY <2>2, ConstantsAssumption DEF FetchesSucceed
    <3>3. QED
      BY <3>1, <3>2 DEF Sourced
  <2>4. QED
    BY <2>1, <2>3 DEF Stored
<1>2. QED
  BY <1>1, BuiltInvariant, TypeInvariant, PTL

-----------------------------------------------------------------------------
(***************************************************************************)
(* What is tagged stays in full, in turn.                                  *)
(***************************************************************************)

Crashing == "crash" \in plan.faults

\* A component is there, recorded, and what the SBOM s declares.
Whole(s, c) == layer[c] \in Hash /\ records[c] # "absent" /\ VerifyHash(Declares[s][c], layer[c])

\* And nobody claims it, or is about to.
Settled(s, c) == Whole(s, c) /\ pid[c] = None /\ \A p \in Proc : at[p][c] # "claim"

Full(s) == s \in manifests /\ \A c \in Describes[s] : Settled(s, c)

\* How far a command is with a component.
Stage(p, c) ==
    /\ at[p][c] \in Looking => Crashing /\ pid[c] # None
    /\ at[p][c] \in {"manifest", "claim"} => records[c] = "absent" \/ pid[c] = None
    /\ at[p][c] \in {"claim", "claimed", "clear", "fetching", "filled", "unfetched"} =>
          records[c] = "absent" \/ Crashing
    /\ at[p][c] = "fetching" => layer[c] = "partial"
    /\ at[p][c] = "filled" => layer[c] = noted[p][c]
    /\ at[p][c] = "fetched" => Whole(SBOMOf(p), c)
    /\ at[p][c] = "unfetched" => ~Crashing
    /\ at[p][c] \in {"staged", "cleared"} => layer[c] = "absent" /\ records[c] = "absent"
    /\ at[p][c] = "record" => layer[c] \in Hash /\ VerifyHash(DeclaredBy(p, c), layer[c])
    /\ pc[p] = "components" /\ at[p][c] = "done" => Settled(SBOMOf(p), c)

\* How far it is with its package.
Package(p) ==
    /\ pc[p] = "components" /\ Pulling(p) => SBOMOf(p) \in manifests
    /\ pc[p] = "record" => \A c \in Describes[SBOMOf(p)] : Settled(SBOMOf(p), c)
    /\ pc[p] = "reports" => Full(SBOMOf(p))
    /\ pc[p] \in {"read_tags", "write_tags"} /\ ~Removing(p) => Full(SBOMOf(p))

\* A stale claim of c, or whoever is taking it away, keeps its record from reuse.
InFlux(c) ==
    \/ pid[c] # None /\ c \notin blank
    \/ \E p \in Proc : \/ at[p][c] \in {"claim", "claimed"}
                       \/ pc[p] = "prune_manifest" /\ victim[p] = c

\* What is there of a component.
Kept(c) ==
    /\ records[c] # "absent" => layer[c] \in Hash \/ (Crashing /\ InFlux(c))
    /\ records[c] # "absent" /\ c \in blank => \E p \in Proc : at[p][c] = "claimed"
    /\ "pull" \notin plan.commands => records[c] # None
    /\ Crashing => layer[c] \in Source[c] \cup {"absent", "partial"}
    /\ ~Crashing /\ layer[c] = "partial" =>
          \E p \in Proc : at[p][c] = "fetching" \/ (pc[p] = "prune_layer" /\ victim[p] = c)

Store ==
    /\ \A c \in Purl : Kept(c) /\ \A p \in Proc : Stage(p, c)
    /\ \A p \in Proc : Package(p)
    /\ \A t \in Tag : repos[t] # None => Full(repos[t])

StoreInv == InTurn /\ Consistent /\ Gentle => Store

\* What else is known then.
Quiet ==
    /\ TypeInv /\ TurnInv /\ ClaimInv /\ CalmInv /\ OwnedInv /\ SameInv /\ HonestInv /\ PruneInv
    /\ Consistent /\ Gentle

LEMMA QuietIsOrderly == Quiet => InTurn /\ Orderly /\ orphans = {}
BY DEF Quiet, TurnInv, Gentle, Orderly, CalmInv

\* Whoever steps to a component is the only one at it, or at anything.
LEMMA AloneAtComponent ==
    ASSUME Quiet, NEW p \in Proc, NEW c \in Purl, ComponentStep(p, c)
    PROVE  /\ pc[p] = "components" /\ pc' = pc /\ cmd' = cmd
           /\ \A q \in Proc : q # p => at'[q] = at[q] /\ at[q][c] \in {"none", "done"}
           /\ \A q \in Proc : q # p => pc[q] \in Ended \cup {"ready"}
           /\ pid[c] # None /\ ~Crashing => at[p][c] \in Held
           /\ at[p][c] \in Held => pid[c] = p
           /\ c \in blank => pid[c] # None /\ (at[p][c] \in Held => at[p][c] = "claimed")
<1>1. TypeInv /\ TurnInv /\ ClaimInv /\ CalmInv /\ OwnedInv /\ InTurn
  BY QuietIsOrderly DEF Quiet
<1>2. /\ pc[p] = "components" /\ pc' = pc /\ cmd' = cmd
      /\ \A q \in Proc : q # p => at'[q] = at[q]
  BY <1>1, ComponentStepLocal
<1>3. ASSUME NEW q \in Proc, q # p
      PROVE  pc[q] \in Ended \cup {"ready"} /\ at[q][c] \in {"none", "done"}
  <2>1. Busy(p)
    BY <1>2 DEF Busy, Ended
  <2>2. ~Busy(q)
    BY <1>1, <1>3, <2>1 DEF TurnInv
  <2>3. pc[q] \in Ended \cup {"ready"}
    BY <2>2 DEF Busy
  <2>4. QED
    BY <1>1, <2>3 DEF TypeInv, Places, Ended
<1>4. pid[c] # None => pid[c] \in Proc
  BY <1>1 DEF TypeInv, TypeOK
<1>5. pid[c] # None /\ ~Crashing => at[p][c] \in Held
  <2>1. pid[c] # None /\ ~Crashing => at[pid[c]][c] \in Held
    BY <1>1, <1>4 DEF CalmInv, ClaimInv, Crashing
  <2>2. QED
    BY <1>3, <1>4, <2>1 DEF Held
<1>6. at[p][c] \in Held => pid[c] = p
  BY <1>1 DEF OwnedInv
<1>7. c \in blank => pid[c] # None /\ (at[p][c] \in Held => at[p][c] = "claimed")
  BY <1>1, <1>2, <1>6 DEF ClaimInv
<1>8. QED
  BY <1>2, <1>3, <1>5, <1>6, <1>7

\* What is in the directory of a component that is reused or kept is what the
\* package declares.
LEMMA ReusedVerifies ==
    ASSUME Quiet, NEW p \in Proc, NEW c \in Purl, ComponentStep(p, c), layer[c] \in Hash,
           at[p][c] # "none", pid[c] = None, at[p][c] # "claim", records[c] \in Hash,
           VerifyHash(DeclaredBy(p, c), records[c])
    PROVE  VerifyHash(DeclaredBy(p, c), layer[c])
<1>1. TypeInv /\ SameInv /\ HonestInv /\ Consistent /\ Orderly
  BY QuietIsOrderly DEF Quiet
<1>2. /\ pc[p] = "components"
      /\ \A q \in Proc : q # p => at[q][c] \in {"none", "done"} /\ pc[q] \in Ended \cup {"ready"}
  BY AloneAtComponent
<1>3. CASE "pull" \in plan.commands
  BY <1>1, <1>3 DEF SameInv
<1>4. CASE "pull" \notin plan.commands
  <2>1. ~Taken(c)
    BY <1>2 DEF Taken, Ended
  <2>2. QED
    BY <1>1, <1>4, <2>1 DEF HonestInv
<1>5. QED
  BY <1>3, <1>4

LEMMA PulledVerifies ==
    ASSUME Quiet, NEW p \in Proc, NEW c \in Purl, ComponentStep(p, c), Pulling(p), at[p][c] # "none"
    PROVE  /\ ~Crashing
           /\ layer[c] \in Hash => VerifyHash(DeclaredBy(p, c), layer[c])
           /\ Packaged[SBOMOf(p)][c] \in Hash
           /\ VerifyHash(DeclaredBy(p, c), Packaged[SBOMOf(p)][c])
           /\ "pull" \in plan.commands
           /\ DeclaredBy(p, c) \in Hash \cup {None}
<1>1. TypeInv /\ SameInv /\ Consistent /\ Orderly /\ Gentle
  BY QuietIsOrderly DEF Quiet
<1>2. pc[p] = "components"
  BY AloneAtComponent
<1>3. "pull" \in plan.commands /\ SBOMOf(p) \in plan.sboms /\ plan.sboms \subseteq SBOM
  BY <1>1, <1>2 DEF TypeInv, Fits, Busy, Ended, Pulling, Memory, PlanType
<1>4. /\ Packaged[SBOMOf(p)][c] = ContentOf(c)
      /\ DeclaredBy(p, c) \in {ContentOf(c), None}
  BY <1>1, <1>2, <1>3, ContentIsOne DEF Consistent
<1>5. layer[c] \in Hash => layer[c] = ContentOf(c)
  BY <1>1, <1>3 DEF SameInv
<1>6. /\ Packaged[SBOMOf(p)][c] \in Hash
      /\ DeclaredBy(p, c) \in Hash \cup {None}
  BY <1>3, ConstantsAssumption DEF DeclaredBy
<1>7. \A h : VerifyHash(None, h) /\ VerifyHash(h, h)
  BY DEF VerifyHash
<1>8. QED
  BY <1>1, <1>3, <1>4, <1>5, <1>6, <1>7 DEF Gentle, Crashing

\* What the source serves is what the package declares, when commands are killed.
LEMMA FilledVerifies ==
    ASSUME Quiet, Crashing, NEW p \in Proc, NEW c \in Purl, ComponentStep(p, c), at[p][c] # "none",
           Building(p)
    PROVE  "fetch" \notin plan.faults /\ \A h \in Source[c] : VerifyHash(DeclaredBy(p, c), h)
<1>1. TypeInv /\ FetchesSucceed
  BY DEF Quiet, Gentle, Crashing
<1>2. pc[p] = "components"
  BY AloneAtComponent
<1>3. SBOMOf(p) \in plan.sboms /\ c \in Describes[SBOMOf(p)]
  BY <1>1, <1>2 DEF TypeInv, Fits, Places, Busy, Ended
<1>4. QED
  BY <1>1, <1>3 DEF FetchesSucceed, DeclaredBy

\* What is there of a component that p alone is at.
KeptBy(p, c) ==
    /\ records[c] # "absent" =>
          \/ layer[c] \in Hash
          \/ Crashing /\ ((pid[c] # None /\ c \notin blank) \/ at[p][c] \in {"claim", "claimed"})
    /\ records[c] # "absent" /\ c \in blank => at[p][c] = "claimed"
    /\ "pull" \notin plan.commands => records[c] # None
    /\ Crashing => layer[c] \in Source[c] \cup {"absent", "partial"}
    /\ ~Crashing /\ layer[c] = "partial" => at[p][c] = "fetching"

LEMMA KeptAlone ==
    ASSUME Quiet, NEW p \in Proc, NEW c \in Purl, ComponentStep(p, c)
    PROVE  /\ Kept(c) => KeptBy(p, c)
           /\ KeptBy(p, c)' => Kept(c)'
<1>1. /\ pc[p] = "components"
      /\ \A q \in Proc : q # p => at[q][c] \in {"none", "done"} /\ pc[q] \in Ended \cup {"ready"}
  BY AloneAtComponent
<1>2. \A q \in Proc : pc[q] \notin {"prune_manifest", "prune_layer"}
  BY <1>1 DEF Ended
<1>3. InFlux(c) => (pid[c] # None /\ c \notin blank) \/ at[p][c] \in {"claim", "claimed"}
  BY <1>1, <1>2 DEF InFlux
<1>4. Kept(c) => KeptBy(p, c)
  BY <1>1, <1>2, <1>3 DEF Kept, KeptBy
<1>5. KeptBy(p, c)' => Kept(c)'
  BY DEF Kept, KeptBy, InFlux
<1>6. QED
  BY <1>4, <1>5

\* A component that is settled stays so, whatever is done to it.
LEMMA SettledOfComponent ==
    ASSUME Quiet, NEW p \in Proc, NEW c \in Purl, ComponentStep(p, c), Stage(p, c), NEW s,
           Settled(s, c)
    PROVE  Settled(s, c)'
<1>1. /\ \A q \in Proc : q # p => at'[q] = at[q]
      /\ at[p][c] \in Held => pid[c] = p
      /\ TypeInv
  BY AloneAtComponent DEF Quiet
<1>2. /\ layer[c] \in Hash /\ records[c] # "absent" /\ pid[c] = None
      /\ VerifyHash(Declares[s][c], layer[c])
      /\ layer[c] \notin {"absent", "partial"}
      /\ \A q \in Proc : at[q][c] # "claim"
      /\ at[p][c] \notin Held
      /\ at[p][c] \notin Looking \cup {"staged", "cleared"}
  BY <1>1, ConstantsAssumption DEF Settled, Whole, Stage
<1>3. layer'[c] = layer[c] /\ pid'[c] = None /\ records'[c] # "absent" /\ at'[p][c] # "claim"
  <2>1. CASE Checked(p, c) \/ Decided(p, c) \/ Keeps(p, c)
    BY <1>2, <2>1 DEF Checked, Decided, Keeps, Moved, claims
  <2>2. ~Stages(p, c)
    BY <1>2 DEF Stages
  <2>3. CASE Records(p, c)
    <3>1. DeclaredBy(p, c) \in Hash \cup {None}
      BY <2>3, PulledVerifies DEF Records, Moved
    <3>2. QED
      BY <1>2, <2>3, <3>1, ConstantsAssumption DEF Records, Moved, claims
  <2>4. ~Probed(p, c) /\ ~Waited(p, c) /\ ~Removed(p, c)
    BY <1>2 DEF Probed, Waited, Removed, Moved, Looking
  <2>5. ~Claimed(p, c) /\ ~Beaten(p, c)
    BY <1>2 DEF Claimed, Beaten, Moved
  <2>6. ~Written(p, c) /\ ~Cleared(p, c) /\ ~Filled(p, c) /\ ~Noticed(p, c) /\ ~Failed(p, c)
        /\ ~Released(p, c)
    BY <1>2 DEF Written, Cleared, Filled, Noticed, Failed, Released, Moved, Held
  <2>7. ~Clears(p, c) /\ ~Renames(p, c) /\ ~Discards(p, c)
    BY <1>2 DEF Clears, Renames, Discards, Moved
  <2>8. QED
    BY <1>1, <2>1, <2>2, <2>3, <2>4, <2>5, <2>6, <2>7, ComponentStepMeans
<1>4. \A q \in Proc : at'[q][c] # "claim"
  BY <1>1, <1>2, <1>3
<1>5. QED
  BY <1>2, <1>3, <1>4 DEF Settled, Whole

\* What a step of one component makes of it.
LEMMA StoreOfComponent ==
    ASSUME Quiet, NEW p \in Proc, NEW c \in Purl, ComponentStep(p, c), Stage(p, c), KeptBy(p, c),
           plan' = plan
    PROVE  Stage(p, c)' /\ KeptBy(p, c)'
<1>1. /\ TypeInv
      /\ pc[p] = "components" /\ pc' = pc /\ cmd' = cmd
      /\ \A q \in Proc : q # p => at'[q] = at[q] /\ at[q][c] \in {"none", "done"}
      /\ pid[c] # None /\ ~Crashing => at[p][c] \in Held
      /\ at[p][c] \in Held => pid[c] = p
      /\ c \in blank => pid[c] # None /\ (at[p][c] \in Held => at[p][c] = "claimed")
  BY AloneAtComponent DEF Quiet
<1>2. /\ records[c] \in Hash \cup {None, "absent"}
      /\ layer[c] \in Hash \cup {"absent", "partial"}
      /\ {"absent", "partial"} \cap (Hash \cup {None}) = {} /\ None \notin Hash \cup Proc
      /\ Source[c] \subseteq Hash
  BY <1>1, ConstantsAssumption DEF TypeInv, TypeOK
<1>3. PICK s : s = SBOMOf(p) /\ s = SBOMOf(p)'
  BY <1>1 DEF SBOMOf
<1>4. DeclaredBy(p, c) = Declares[s][c] /\ DeclaredBy(p, c)' = Declares[s][c]
  BY <1>3 DEF DeclaredBy
<1>5. Crashing' = Crashing
  BY DEF Crashing
<1> DEFINE Good == Stage(p, c)' /\ KeptBy(p, c)'
<1>6. CASE Checked(p, c)
  <2>1. /\ at[p][c] = ToDo /\ UNCHANGED <<records, layer, pid, blank>>
        /\ \/ at'[p][c] = "manifest" /\ (pid[c] = None \/ c \in blank)
           \/ at'[p][c] = "probe" /\ pid[c] # None
    BY <1>6, <1>2 DEF Checked, Moved, ReadPID, claims
  <2>2. at'[p][c] = "probe" => Crashing
    BY <1>1, <2>1 DEF Held, ToDo
  <2>3. at'[p][c] = "manifest" => records[c] = "absent" \/ pid[c] = None
    BY <2>1 DEF KeptBy, ToDo
  <2>4. Stage(p, c)'
    BY <1>5, <2>1, <2>2, <2>3 DEF Stage, Looking
  <2>5. KeptBy(p, c)'
    BY <1>5, <2>1 DEF KeptBy, ToDo
  <2>6. QED
    BY <2>4, <2>5
<1>7. CASE Probed(p, c) \/ Waited(p, c)
  <2>1. /\ at[p][c] \in Looking /\ at'[p][c] \in {"wait", "stale", ToDo}
        /\ UNCHANGED <<records, layer, pid, blank>>
    BY <1>7 DEF Probed, Waited, Moved, claims, Looking
  <2>2. Stage(p, c)'
    BY <1>5, <2>1 DEF Stage, Looking, ToDo
  <2>3. KeptBy(p, c)'
    BY <1>5, <2>1 DEF KeptBy, Looking
  <2>4. QED
    BY <2>2, <2>3
<1>8. CASE Removed(p, c)
  <2>1. /\ at[p][c] = "stale" /\ at'[p][c] = "claim" /\ UNCHANGED <<records, layer>>
        /\ pid'[c] = None /\ c \notin blank'
    BY <1>8 DEF Removed, Moved
  <2>2. Crashing
    BY <2>1 DEF Stage, Looking
  <2>3. Stage(p, c)'
    BY <1>5, <2>1, <2>2 DEF Stage, Looking
  <2>4. KeptBy(p, c)'
    BY <1>5, <2>1, <2>2 DEF KeptBy
  <2>5. QED
    BY <2>3, <2>4
<1>9. CASE Decided(p, c)
  <2>1. /\ at[p][c] = "manifest" /\ UNCHANGED <<records, layer, pid, blank>>
        /\ \/ at'[p][c] = "claim" /\ records[c] = "absent"
           \/ at'[p][c] = "done" /\ records[c] # "absent" /\ VerifyHash(DeclaredBy(p, c), records[c])
           \/ at'[p][c] = "failed"
    BY <1>9 DEF Decided, Moved, claims
  <2>2. ASSUME at'[p][c] = "done"
        PROVE  Settled(s, c)'
    <3>1. records[c] # "absent" /\ pid[c] = None
      BY <2>1, <2>2 DEF Stage
    <3>2. layer[c] \in Hash
      BY <2>1, <3>1 DEF KeptBy
    <3>3. VerifyHash(Declares[s][c], layer[c])
      <4>1. CASE records[c] \in Hash
        BY <1>4, <2>1, <2>2, <3>1, <3>2, <4>1, ReusedVerifies
      <4>2. CASE records[c] = None
        <5>1. "pull" \in plan.commands
          BY <4>2 DEF KeptBy
        <5>2. Consistent /\ SameInv /\ Orderly
          BY QuietIsOrderly DEF Quiet
        <5>3. DeclaredBy(p, c) \in {ContentOf(c), None} /\ layer[c] = ContentOf(c)
          BY <1>1, <2>1, <3>2, <5>1, <5>2, ContentIsOne DEF Consistent, SameInv
        <5>4. QED
          BY <1>4, <5>3 DEF VerifyHash
      <4>3. QED
        BY <1>2, <3>1, <4>1, <4>2
    <3>4. \A q \in Proc : at'[q][c] # "claim"
      BY <1>1, <2>2
    <3>5. QED
      BY <2>1, <3>1, <3>2, <3>3, <3>4 DEF Settled, Whole
  <2>3. Stage(p, c)'
    BY <1>3, <1>5, <2>1, <2>2 DEF Stage, Looking
  <2>4. KeptBy(p, c)'
    BY <1>5, <2>1 DEF KeptBy
  <2>5. QED
    BY <2>3, <2>4
<1>10. CASE Claimed(p, c)
  <2>1. /\ at[p][c] = "claim" /\ at'[p][c] = "claimed" /\ UNCHANGED <<records, layer>>
        /\ pid'[c] = p
    BY <1>10 DEF Claimed, Moved
  <2>2. Stage(p, c)'
    BY <1>5, <2>1 DEF Stage, Looking
  <2>3. KeptBy(p, c)'
    BY <1>5, <2>1 DEF KeptBy, Stage
  <2>4. QED
    BY <2>2, <2>3
<1>11. CASE Beaten(p, c)
  <2>1. /\ at[p][c] = "claim" /\ at'[p][c] = ToDo /\ UNCHANGED <<records, layer, pid, blank>>
        /\ pid[c] # None
    BY <1>11 DEF Beaten, Moved, claims
  <2>2. records[c] = "absent"
    BY <2>1 DEF Stage
  <2>3. Stage(p, c)'
    BY <2>1 DEF Stage, Looking, ToDo
  <2>4. KeptBy(p, c)'
    BY <1>5, <2>1, <2>2 DEF KeptBy
  <2>5. QED
    BY <2>3, <2>4
<1>12. CASE Written(p, c)
  <2>1. /\ at[p][c] = "claimed" /\ at'[p][c] = "clear" /\ UNCHANGED <<records, layer, pid>>
        /\ c \notin blank' /\ pid'[c] = p
    BY <1>1, <1>12 DEF Written, Moved, Held
  <2>2. Stage(p, c)'
    BY <1>5, <2>1 DEF Stage, Looking
  <2>3. KeptBy(p, c)'
    BY <1>2, <1>5, <2>1 DEF KeptBy, Stage
  <2>4. QED
    BY <2>2, <2>3
<1>13. CASE Cleared(p, c)
  <2>1. /\ at[p][c] = "clear" /\ at'[p][c] = "fetching" /\ UNCHANGED <<records, pid, blank>>
        /\ layer'[c] = "partial" /\ pid[c] = p /\ c \notin blank
    BY <1>1, <1>13 DEF Cleared, Moved, Held, claims
  <2>2. Stage(p, c)'
    BY <1>5, <2>1 DEF Stage, Looking
  <2>3. KeptBy(p, c)'
    BY <1>2, <1>5, <2>1 DEF KeptBy, Stage
  <2>4. QED
    BY <2>2, <2>3
<1>14. CASE Filled(p, c)
  <2>1. PICK h \in Source[c] : /\ Moved(p, c, "fetching", "filled", h)
                               /\ layer'[c] = IF layer[c] \in {"partial", h} THEN h ELSE "partial"
    BY <1>14 DEF Filled
  <2>2. /\ at[p][c] = "fetching" /\ at'[p][c] = "filled" /\ UNCHANGED <<records, pid, blank>>
        /\ layer'[c] = h /\ noted'[p][c] = h /\ c \notin blank
    BY <1>1, <1>14, <2>1 DEF Filled, Moved, Held, claims, Stage
  <2>3. Stage(p, c)'
    BY <1>5, <2>2 DEF Stage, Looking
  <2>4. KeptBy(p, c)'
    BY <1>2, <1>5, <2>2 DEF KeptBy
  <2>5. QED
    BY <2>3, <2>4
<1>15. CASE Noticed(p, c)
  <2>1. /\ at[p][c] = "filled" /\ at'[p][c] = "fetched" /\ UNCHANGED <<layer, pid, blank>>
        /\ records'[c] = layer[c] /\ layer[c] \in Hash /\ VerifyHash(Declares[s][c], layer[c])
        /\ c \notin blank
    BY <1>1, <1>4, <1>15 DEF Noticed, Moved, Held, claims, Stage
  <2>2. Whole(s, c)'
    BY <1>2, <2>1 DEF Whole
  <2>3. Stage(p, c)'
    BY <1>3, <1>5, <2>1, <2>2 DEF Stage, Looking
  <2>4. KeptBy(p, c)'
    BY <1>2, <1>5, <2>1 DEF KeptBy
  <2>5. QED
    BY <2>3, <2>4
<1>16. CASE Failed(p, c)
  <2>1. /\ at[p][c] \in {"fetching", "filled"} /\ at'[p][c] = "unfetched"
        /\ UNCHANGED <<records, pid, blank>> /\ layer'[c] = "absent"
        /\ \/ "fetch" \in plan.faults
           \/ at[p][c] = "fetching" /\ layer[c] = "absent"
           \/ at[p][c] = "filled" /\ ~VerifyHash(DeclaredBy(p, c), noted[p][c])
    BY <1>16 DEF Failed, Moved, claims
  <2>2. ~Crashing
    <3>1. ASSUME Crashing
          PROVE  FALSE
      <4>1. "fetch" \notin plan.faults /\ \A h \in Source[c] : VerifyHash(DeclaredBy(p, c), h)
        BY <1>16, <2>1, <3>1, FilledVerifies DEF Failed
      <4>2. at[p][c] = "filled" => noted[p][c] \in Hash
        BY <1>1 DEF TypeInv, Places
      <4>3. at[p][c] = "filled" => noted[p][c] \in Source[c]
        BY <1>2, <3>1, <4>2 DEF Stage, KeptBy
      <4>4. QED
        BY <1>2, <2>1, <4>1, <4>3 DEF Stage
    <3>2. QED
      BY <3>1
  <2>3. records[c] = "absent"
    BY <2>1, <2>2 DEF Stage
  <2>4. Stage(p, c)'
    BY <1>5, <2>1, <2>2, <2>3 DEF Stage, Looking
  <2>5. KeptBy(p, c)'
    BY <1>2, <1>5, <2>1, <2>2, <2>3 DEF KeptBy
  <2>6. QED
    BY <2>4, <2>5
<1>17. CASE Released(p, c)
  <2>1. /\ UNCHANGED <<records, layer>> /\ pid'[c] = None /\ c \notin blank'
        /\ \/ at[p][c] = "fetched" /\ at'[p][c] = "done"
           \/ at[p][c] = "unfetched" /\ at'[p][c] = "failed"
    BY <1>17 DEF Released, Moved
  <2>2. at'[p][c] = "done" => Settled(s, c)'
    <3>1. at'[p][c] = "done" => Whole(s, c)
      BY <1>3, <2>1 DEF Stage
    <3>2. \A q \in Proc : at'[q][c] # "claim"
      BY <1>1, <2>1
    <3>3. QED
      BY <2>1, <3>1, <3>2 DEF Settled, Whole
  <2>3. at[p][c] = "fetched" => layer[c] \in Hash
    BY DEF Stage, Whole
  <2>4. at[p][c] = "unfetched" => records[c] = "absent"
    BY DEF Stage
  <2>5. Stage(p, c)'
    BY <1>3, <1>5, <2>1, <2>2 DEF Stage, Looking
  <2>6. KeptBy(p, c)'
    BY <1>2, <1>5, <2>1, <2>3, <2>4 DEF KeptBy
  <2>7. QED
    BY <2>5, <2>6
<1>18. CASE Keeps(p, c)
  <2>1. /\ at[p][c] = ToDo /\ at'[p][c] = "record" /\ UNCHANGED <<records, layer, pid, blank>>
        /\ layer[c] # "absent" /\ Pulling(p)
    BY <1>18 DEF Keeps, Moved, claims
  <2>2. /\ ~Crashing
        /\ layer[c] \in Hash => VerifyHash(DeclaredBy(p, c), layer[c])
    BY <2>1, PulledVerifies DEF ToDo
  <2>3. layer[c] \in Hash
    BY <1>2, <2>1, <2>2 DEF KeptBy, ToDo
  <2>4. Stage(p, c)'
    BY <1>4, <1>5, <2>1, <2>2, <2>3 DEF Stage, Looking
  <2>5. KeptBy(p, c)'
    BY <1>2, <1>5, <2>1, <2>2, <2>3 DEF KeptBy, ToDo
  <2>6. QED
    BY <2>4, <2>5
<1>19. CASE Stages(p, c)
  <2>1. /\ at[p][c] = ToDo /\ at'[p][c] = "staged" /\ UNCHANGED <<records, layer, pid, blank>>
        /\ layer[c] = "absent" /\ Pulling(p)
    BY <1>19 DEF Stages, Moved, claims
  <2>2. ~Crashing
    BY <2>1, PulledVerifies DEF ToDo
  <2>3. records[c] = "absent"
    BY <1>2, <2>1, <2>2 DEF KeptBy
  <2>4. Stage(p, c)'
    BY <1>5, <2>1, <2>3 DEF Stage, Looking
  <2>5. KeptBy(p, c)'
    BY <1>2, <1>5, <2>1, <2>2, <2>3 DEF KeptBy
  <2>6. QED
    BY <2>4, <2>5
<1>20. CASE Clears(p, c)
  <2>1. /\ at[p][c] = "staged" /\ at'[p][c] = "cleared" /\ UNCHANGED <<records, pid, blank>>
        /\ layer'[c] = "absent" /\ records[c] = "absent"
    BY <1>20 DEF Clears, Moved, claims, Stage
  <2>2. Stage(p, c)'
    BY <1>5, <2>1 DEF Stage, Looking
  <2>3. KeptBy(p, c)'
    BY <1>2, <1>5, <2>1 DEF KeptBy
  <2>4. QED
    BY <2>2, <2>3
<1>21. CASE Renames(p, c)
  <2>1. /\ at[p][c] = "cleared" /\ at'[p][c] = "record" /\ UNCHANGED <<records, pid, blank>>
        /\ layer'[c] = Packaged[SBOMOf(p)][c] /\ records[c] = "absent" /\ Pulling(p)
    BY <1>21 DEF Renames, Moved, claims, Stage
  <2>2. /\ ~Crashing
        /\ layer'[c] \in Hash
        /\ VerifyHash(DeclaredBy(p, c), layer'[c])
    BY <2>1, PulledVerifies
  <2>3. Stage(p, c)'
    BY <1>4, <1>5, <2>1, <2>2 DEF Stage, Looking
  <2>4. KeptBy(p, c)'
    BY <1>2, <1>5, <2>1, <2>2 DEF KeptBy
  <2>5. QED
    BY <2>3, <2>4
<1>22. CASE Discards(p, c)
  <2>1. /\ at[p][c] \in {"staged", "cleared"} /\ at'[p][c] = "failed"
        /\ UNCHANGED <<records, layer, pid, blank>>
    BY <1>22 DEF Discards, Moved, claims
  <2>2. Stage(p, c)'
    BY <1>5, <2>1 DEF Stage, Looking
  <2>3. KeptBy(p, c)'
    BY <1>2, <1>5, <2>1 DEF KeptBy, Stage
  <2>4. QED
    BY <2>2, <2>3
<1>23. CASE Records(p, c)
  <2>1. /\ at[p][c] = "record" /\ at'[p][c] = "done" /\ UNCHANGED <<layer, pid, blank>>
        /\ records'[c] = DeclaredBy(p, c) /\ Pulling(p)
        /\ layer[c] \in Hash /\ VerifyHash(Declares[s][c], layer[c])
    BY <1>4, <1>23 DEF Records, Moved, claims, Stage
  <2>2. ~Crashing /\ "pull" \in plan.commands /\ DeclaredBy(p, c) \in Hash \cup {None}
    BY <2>1, PulledVerifies
  <2>3. pid[c] = None /\ c \notin blank
    BY <1>1, <2>1, <2>2 DEF Held
  <2>4. Settled(s, c)'
    <3>1. \A q \in Proc : at'[q][c] # "claim"
      BY <1>1, <2>1
    <3>2. QED
      BY <1>2, <2>1, <2>2, <2>3, <3>1 DEF Settled, Whole
  <2>5. Stage(p, c)'
    BY <1>3, <1>5, <2>1, <2>4 DEF Stage, Looking
  <2>6. KeptBy(p, c)'
    BY <1>2, <1>5, <2>1, <2>2, <2>3 DEF KeptBy
  <2>7. QED
    BY <2>5, <2>6
<1>24. QED
  BY <1>1, <1>6, <1>7, <1>8, <1>9, <1>10, <1>11, <1>12, <1>13, <1>14, <1>15, <1>16, <1>17, <1>18,
     <1>19, <1>20, <1>21, <1>22, <1>23, ComponentStepMeans

\* A component that a package has settled stays so, unless a prune takes it away.
LEMMA SettledStays ==
    ASSUME Quiet, Store, NEW p \in Proc, StepOf(p), NEW c \in Purl, NEW s, Settled(s, c),
           ~(PruneManifest(p) /\ victim[p] = c), ~(PruneLayer(p) /\ victim[p] = c)
    PROVE  Settled(s, c)'
<1>1. /\ TypeInv
      /\ records \in [Purl -> Hash \cup {None, "absent"}]
      /\ layer \in [Purl -> Hash \cup {"absent", "partial"}]
      /\ victim \in [Proc -> Names \cup {None}]
  BY DEF Quiet, TypeInv, TypeOK, Memory
<1>2. ASSUME ~ComponentStep(p, c), layer'[c] = layer[c], records'[c] = records[c],
             pid'[c] \in {pid[c], None}
      PROVE  Settled(s, c)'
  <2>1. \A q \in Proc : at'[q][c] = "claim" => at[q][c] = "claim"
    BY <1>1, <1>2, StaysAt DEF ToDo
  <2>2. QED
    BY <1>2, <2>1 DEF Settled, Whole
<1>3. CASE ComponentStep(p, c)
  BY <1>3, SettledOfComponent DEF Store
<1>4. ASSUME NEW d \in Purl, ComponentStep(p, d), d # c
      PROVE  Settled(s, c)'
  <2>1. /\ layer'[c] = layer[c] /\ records'[c] = records[c] /\ pid'[c] = pid[c]
        /\ at'[p][c] = at[p][c]
        /\ \A q \in Proc : q # p => at'[q] = at[q]
    BY <1>1, <1>4, ComponentStepLocal
  <2>2. QED
    BY <2>1 DEF Settled, Whole
<1>5. CASE PruneStep(p) /\ ~\E d \in Purl : ComponentStep(p, d)
  <2>1. records'[c] = records[c]
    <3>1. CASE PruneManifest(p)
      BY <3>1 DEF PruneManifest
    <3>2. CASE ~PruneManifest(p)
      BY <1>5, <3>2, PruneKeeps
    <3>3. QED
      BY <3>1, <3>2
  <2>2. layer'[c] = layer[c]
    <3>1. CASE PruneLayer(p)
      BY <1>1, <3>1 DEF PruneLayer
    <3>2. CASE ~PruneLayer(p)
      BY <1>5, <3>2, PruneKeeps
    <3>3. QED
      BY <3>1, <3>2
  <2>3. pid'[c] \in {pid[c], None}
    <3>1. CASE PrunePID(p)
      BY <3>1 DEF PrunePID
    <3>2. CASE ~PrunePID(p)
      BY <1>5, <3>2, PruneKeeps DEF claims
    <3>3. QED
      BY <3>1, <3>2
  <2>4. QED
    BY <1>2, <1>5, <2>1, <2>2, <2>3
<1>6. CASE ~PruneStep(p) /\ ~\E d \in Purl : ComponentStep(p, d)
  <2>1. UNCHANGED <<records, layer, claims>>
    BY <1>6, ComponentsKept
  <2>2. layer'[c] = layer[c] /\ records'[c] = records[c] /\ pid'[c] = pid[c]
    BY <2>1 DEF claims
  <2>3. QED
    BY <1>2, <1>6, <2>2
<1>7. QED
  BY <1>3, <1>4, <1>5, <1>6

\* A package stays in full unless a prune is at it.
LEMMA FullStays ==
    ASSUME Quiet, Store, NEW p \in Proc, StepOf(p), ~PruneStep(p), NEW s \in SBOM
    PROVE  /\ \A c \in Describes[s] : Settled(s, c) => Settled(s, c)'
           /\ Full(s) => Full(s)'
<1>1. Describes[s] \subseteq Purl
  BY ConstantsAssumption
<1>2. ~PruneManifest(p) /\ ~PruneLayer(p)
  BY DEF PruneStep
<1>3. \A c \in Describes[s] : Settled(s, c) => Settled(s, c)'
  BY <1>1, <1>2, SettledStays
<1>4. manifests \subseteq manifests'
  BY PruneLabelsAreOfPrunes DEF Quiet
<1>5. QED
  BY <1>3, <1>4 DEF Full

\* A package that is tagged stays in full.
LEMMA TaggedStays ==
    ASSUME Quiet, Store, NEW p \in Proc, StepOf(p), NEW t \in Tag, repos[t] # None,
           NEW s \in SBOM, s = repos[t]
    PROVE  Full(s)'
<1>1. Full(s)
  BY DEF Store
<1>2. CASE ~PruneStep(p)
  BY <1>1, <1>2, FullStays
<1>3. CASE PruneStep(p)
  <2>1. Describes[s] \subseteq Purl
    BY ConstantsAssumption
  <2>2. s \in Reachable(repos) /\ Describes[s] \subseteq Reachable(repos)
    <3>1. s \in {repos[u] : u \in Tag} \ {None}
      OBVIOUS
    <3>2. s \in manifests
      BY <1>1 DEF Full
    <3>3. QED
      BY <3>1, <3>2 DEF Reachable
  <2>3. PruneManifest(p) \/ PruneLayer(p) => victim[p] \notin Reachable(repos)
    BY DEF Quiet, PruneInv, Spares, VictimLabels, PruneManifest, PruneLayer
  <2>4. \A c \in Describes[s] : Settled(s, c)'
    BY <1>1, <2>1, <2>2, <2>3, SettledStays DEF Full
  <2>5. s \in manifests'
    <3>1. CASE PruneManifest(p)
      BY <1>1, <2>2, <2>3, <3>1 DEF PruneManifest, Full
    <3>2. CASE ~PruneManifest(p)
      BY <1>1, <1>3, <3>2, PruneKeeps DEF Full
    <3>3. QED
      BY <3>1, <3>2
  <2>6. QED
    BY <2>4, <2>5 DEF Full
<1>4. QED
  BY <1>2, <1>3

\* What a process does to its package, between its components and its tag.
LEMMA PackageOfCommand ==
    ASSUME Quiet, Store, NEW p \in Proc, StepOf(p), ~PruneStep(p),
           ~\E c \in Purl : ComponentStep(p, c)
    PROVE  Package(p)'
<1>1. /\ TypeInv
      /\ cmd \in [Proc -> Command]
      /\ at \in [Proc -> [Purl -> Wheres]]
      /\ repos \in [Tag -> SBOM \cup {None}]
      /\ plan.sboms \subseteq SBOM
      /\ \A s \in SBOM : Describes[s] \subseteq Purl
  BY ConstantsAssumption DEF Quiet, TypeInv, TypeOK, Memory, PlanType
<1>2. Package(p) /\ Fits(p) /\ Places(p) /\ \A c \in Purl : Stage(p, c)
  BY <1>1 DEF Store, TypeInv
<1>3. CASE ComponentsEnd(p)
  <2>1. pc'[p] \in {"failed", "record", "reports"} /\ pc[p] = "components" /\ UNCHANGED disk
    BY <1>1, <1>3, StepLabels DEF ComponentsEnd
  <2>2. ASSUME pc'[p] # "failed"
        PROVE  Package(p)'
    <3>1. /\ \A c \in Purl : at[p][c] \in {"none", "done"}
          /\ cmd' = cmd
          /\ pc'[p] = "reports" => ~Building(p)
      <4>1. PICK label \in {"failed", "record", "reports"} :
                /\ Continue(p, label)
                /\ label = "reports" => ~Building(p)
                /\ label # "failed" => ~\E c \in Purl : at[p][c] = "failed"
        BY <1>3 DEF ComponentsEnd
      <4>2. pc'[p] = label
        BY <1>1, <4>1, GoesTo
      <4>3. cmd' = cmd
        BY <2>2, <4>1, <4>2 DEF Continue, Ended, memory
      <4>4. QED
        BY <1>3, <2>2, <4>1, <4>2, <4>3 DEF ComponentsEnd
    <3>2. PICK s \in SBOM : s = SBOMOf(p)
      BY <1>1, <1>2, <2>1 DEF Fits, Busy, Ended
    <3>3. s = SBOMOf(p)'
      BY <3>1, <3>2 DEF SBOMOf
    <3>4. \A c \in Describes[s] : Settled(s, c)
      <4>1. ASSUME NEW c \in Describes[s]
            PROVE  at[p][c] = "done"
        BY <1>1, <1>2, <2>1, <3>1, <3>2 DEF Places
      <4>2. QED
        BY <1>1, <1>2, <2>1, <3>2, <4>1 DEF Stage
    <3>5. \A c \in Describes[s] : Settled(s, c)'
      BY <3>4, FullStays
    <3>6. pc'[p] = "reports" => s \in manifests'
      BY <1>2, <2>1, <3>1, <3>2 DEF Package, Fits, disk
    <3>7. (\A c \in Describes[s] : Settled(s, c))' /\ (pc'[p] = "reports" => Full(s)')
      BY <3>5, <3>6 DEF Full
    <3>8. QED
      BY <2>1, <2>2, <3>3, <3>7 DEF Package
  <2>3. QED
    BY <2>1, <2>2 DEF Package
<1>4. CASE RecordManifest(p)
  <2>1. /\ pc[p] = "record" /\ cmd' = cmd /\ manifests' = manifests \cup {SBOMOf(p)}
        /\ pc'[p] \in {"read_tags", "provenance"}
    BY <1>1, <1>4, StepLabels DEF RecordManifest, memory
  <2>2. PICK s \in SBOM : s = SBOMOf(p)
    BY <1>1, <1>2, <2>1 DEF Fits, Busy, Ended
  <2>3. s = SBOMOf(p)'
    BY <2>1, <2>2 DEF SBOMOf
  <2>4. \A c \in Describes[s] : Settled(s, c)'
    BY <1>2, <2>1, <2>2, FullStays DEF Package
  <2>5. Full(s)'
    BY <2>1, <2>2, <2>4 DEF Full
  <2>6. QED
    BY <2>1, <2>3, <2>5 DEF Package
<1>5. CASE ResolveTag(p)
  <2>1. pc'[p] \in {"read_tags", "failed"}
    BY <1>1, <1>5, StepLabels
  <2>2. ASSUME pc'[p] = "read_tags"
        PROVE  Package(p)'
    <3>1. repos[cmd[p].from] # None /\ cmd' = [cmd EXCEPT ![p].sbom = repos[cmd[p].from]]
      BY <1>1, <1>5, <2>2, GoesTo DEF ResolveTag
    <3>2. cmd[p].from \in Tag
      BY <1>2, <1>5 DEF ResolveTag, Fits
    <3>3. PICK s \in SBOM : s = repos[cmd[p].from]
      BY <1>1, <3>1, <3>2
    <3>4. s = SBOMOf(p)'
      BY <1>1, <3>1, <3>3 DEF SBOMOf, Command
    <3>5. Full(s)
      BY <3>1, <3>2, <3>3 DEF Store
    <3>6. Full(s)'
      BY <3>5, FullStays
    <3>7. QED
      BY <2>2, <3>4, <3>6 DEF Package
  <2>3. QED
    BY <2>1, <2>2 DEF Package
<1>6. CASE ReadTags(p)
  <2>1. /\ pc[p] = "read_tags" /\ cmd' = cmd
        /\ pc'[p] \in {"write_tags", "prune_read"}
    BY <1>1, <1>6, StepLabels DEF ReadTags
  <2>2. Removing(p)' = Removing(p) /\ SBOMOf(p)' = SBOMOf(p)
    BY <2>1 DEF Removing, SBOMOf
  <2>3. ASSUME ~Removing(p)
        PROVE  Full(SBOMOf(p))'
    <3>1. cmd[p].op \in {"build", "pull", "tag"}
      BY <1>2, <2>1, <2>3 DEF Fits, Removing
    <3>2. SBOMOf(p) \in SBOM
      BY <1>1, <1>2, <2>1, <3>1 DEF Fits, Busy, Ended, Building, Pulling
    <3>3. PICK s \in SBOM : s = SBOMOf(p) /\ s = SBOMOf(p)'
      BY <2>2, <3>2
    <3>4. Full(s)'
      BY <1>2, <2>1, <2>3, <3>3, FullStays DEF Package
    <3>5. QED
      BY <3>3, <3>4
  <2>4. QED
    BY <2>1, <2>2, <2>3 DEF Package
<1>7. CASE WriteTags(p) \/ WriteProvenance(p) \/ ScanRefuses(p) \/ \E survive \in BOOLEAN : Crash(p, survive)
  <2>1. pc'[p] \in {"provenance", "prune_read", "done", "failed", "crashed"}
    BY <1>1, <1>7, StepLabels
  <2>2. QED
    BY <2>1 DEF Package
<1>8. CASE RestoreSBOM(p)
  <2>1. /\ pc'[p] = "components" /\ cmd' = cmd /\ manifests' = manifests \cup {SBOMOf(p)}
    BY <1>1, <1>8, StepLabels DEF RestoreSBOM, memory
  <2>2. QED
    BY <2>1 DEF Package, SBOMOf
<1>9. CASE RestoreReports(p)
  <2>1. pc[p] = "reports" /\ pc'[p] \in {"read_tags", "done"}
    BY <1>1, <1>9, StepLabels DEF RestoreReports
  <2>2. ASSUME pc'[p] = "read_tags"
        PROVE  Package(p)'
    <3>1. cmd' = cmd
      BY <1>1, <1>9, <2>2, GoesTo DEF RestoreReports, Continue, Ended, memory
    <3>2. PICK s \in SBOM : s = SBOMOf(p)
      BY <1>1, <1>2, <2>1 DEF Fits, Busy, Ended
    <3>3. s = SBOMOf(p)'
      BY <3>1, <3>2 DEF SBOMOf
    <3>4. Full(s)'
      BY <1>2, <2>1, <3>2, FullStays DEF Package
    <3>5. QED
      BY <2>2, <3>3, <3>4 DEF Package
  <2>3. QED
    BY <2>1, <2>2 DEF Package
<1>10. ASSUME NEW line \in CommandLines, Start(p, line)
       PROVE  Package(p)'
  <2>1. cmd'[p] = line /\ pc'[p] = FirstStep[line.op]
    BY <1>1, <1>10, GoesTo DEF Start
  <2>2. CASE line.op = "build"
    BY <2>1, <2>2 DEF Package, FirstStep, Pulling
  <2>3. CASE line.op = "remove"
    BY <2>1, <2>3 DEF Package, FirstStep, Removing
  <2>4. CASE line.op \in {"pull", "tag", "prune"}
    BY <2>1, <2>4 DEF Package, FirstStep
  <2>5. QED
    BY <1>1, <2>2, <2>3, <2>4, LinesTyped
<1>11. QED
  BY <1>3, <1>4, <1>5, <1>6, <1>7, <1>8, <1>9, <1>10 DEF StepOf, Step, CommandStep

\* A process that steps to no component, or away from them, has none in hand.
LEMMA StageOfCommand ==
    ASSUME TypeInv, TypeInv', NEW p \in Proc, StepOf(p), NEW c \in Purl,
           ~\E d \in Purl : ComponentStep(p, d)
    PROVE  Stage(p, c)'
<1>1. ASSUME at'[p][c] \in {"none", ToDo, "done"}, pc'[p] = "components" => at'[p][c] # "done"
      PROVE  Stage(p, c)'
  BY <1>1 DEF Stage, Looking, ToDo
<1>2. CASE pc'[p] \notin {"sbom", "components"}
  BY <1>1, <1>2 DEF TypeInv, Places
<1>3. CASE pc'[p] = "sbom"
  BY <1>1, <1>3 DEF TypeInv, Places, ToDo
<1>4. CASE pc'[p] = "components"
  <2>1. RestoreSBOM(p) \/ \E line \in CommandLines : Start(p, line)
    <3>1. PruneStep(p) => pc'[p] # "components"
      BY StepLabels DEF PruneStep
    <3>2. QED
      BY <1>4, <3>1, StepLabels DEF StepOf, Step, CommandStep
  <2>2. CASE RestoreSBOM(p)
    <3>1. at' = at /\ pc[p] = "sbom"
      BY <2>2 DEF RestoreSBOM, memory
    <3>2. at[p][c] \in {"none", ToDo}
      BY <3>1 DEF TypeInv, Places
    <3>3. QED
      BY <1>1, <3>1, <3>2 DEF ToDo
  <2>3. ASSUME NEW line \in CommandLines, Start(p, line)
        PROVE  Stage(p, c)'
    <3>1. at'[p][c] \in {"none", ToDo}
      BY <2>3 DEF Start, TypeInv, TypeOK
    <3>2. QED
      BY <1>1, <3>1 DEF ToDo
  <2>4. QED
    BY <2>1, <2>2, <2>3
<1>5. QED
  BY <1>2, <1>3, <1>4

\* What a prune leaves of a component.
LEMMA KeptOfPrune ==
    ASSUME Quiet, Store, NEW p \in Proc, PruneStep(p), plan' = plan, NEW c \in Purl
    PROVE  Kept(c)'
<1>1. /\ TypeInv
      /\ records \in [Purl -> Hash \cup {None, "absent"}]
      /\ layer \in [Purl -> Hash \cup {"absent", "partial"}]
      /\ pid \in [Purl -> Proc \cup {None}]
      /\ {"absent", "partial"} \cap (Hash \cup {None}) = {}
      /\ Crashing' = Crashing
  BY ConstantsAssumption DEF Quiet, TypeInv, TypeOK, Crashing
<1>2. pc[p] \in PruneLabels /\ Busy(p)
  BY PruneStepLabel DEF Busy, Ended, PruneLabels
<1>3. \A q \in Proc : /\ q # p => pc[q] \in Ended \cup {"ready"}
                      /\ at[q][c] \in {"none", "done"}
  <2>1. \A q \in Proc : q # p => pc[q] \in Ended \cup {"ready"}
    BY <1>2 DEF Quiet, TurnInv, Busy
  <2>2. QED
    BY <1>1, <1>2, <2>1 DEF TypeInv, Places, Ended, PruneLabels
<1>4. Kept(c)
  BY DEF Store
<1> DEFINE Marked == pc[p] = "prune_manifest" /\ victim[p] = c
           Halved == pc[p] = "prune_layer" /\ victim[p] = c
           Claimed0 == pid[c] # None /\ c \notin blank
<1>5. /\ InFlux(c) => Claimed0 \/ Marked
      /\ records[c] # "absent" => c \notin blank
      /\ ~Crashing /\ layer[c] = "partial" => Halved
  <2>1. \A q \in Proc : q # p => pc[q] \notin {"prune_manifest", "prune_layer"}
    BY <1>3 DEF Ended
  <2>2. QED
    BY <1>3, <1>4, <2>1 DEF InFlux, Kept
<1>6. ASSUME records'[c] = records[c], layer'[c] = layer[c], claims' = claims,
             Marked => pc'[p] = "prune_manifest" /\ victim'[p] = c,
             Halved => pc'[p] = "prune_layer" /\ victim'[p] = c
      PROVE  Kept(c)'
  BY <1>1, <1>4, <1>5, <1>6 DEF Kept, InFlux, claims
<1>7. CASE PrunePID(p)
  <2>1. /\ records' = records /\ layer' = layer /\ victim' = victim
        /\ pc[p] = "prune_pid" /\ pc'[p] = "prune_manifest"
        /\ blank' = blank \ {victim[p]}
        /\ pid'[c] = IF c = victim[p] THEN None ELSE pid[c]
    BY <1>1, <1>7, StepLabels DEF PrunePID, memory, prune
  <2>2. QED
    BY <1>1, <1>4, <1>5, <2>1 DEF Kept, InFlux
<1>8. CASE PruneManifest(p)
  <2>1. /\ layer' = layer /\ UNCHANGED claims /\ pc[p] = "prune_manifest"
        /\ records'[c] = IF c = victim[p] THEN "absent" ELSE records[c]
    BY <1>8 DEF PruneManifest
  <2>2. QED
    BY <1>1, <1>4, <1>5, <2>1 DEF Kept, InFlux, claims
<1>9. CASE PruneLayer(p)
  <2>1. /\ records' = records /\ UNCHANGED claims /\ pc[p] = "prune_layer" /\ victim' = victim
        /\ victim[p] \notin Recorded
    BY <1>9 DEF PruneLayer, memory, prune, Quiet, PruneInv, Reclaims
  <2>2. \/ layer'[c] = layer[c] /\ victim[p] # c
        \/ victim[p] = c /\ layer'[c] = "absent"
        \/ victim[p] = c /\ layer'[c] = "partial" /\ pc'[p] = "prune_layer"
    <3>1. CASE victim[p] \in Layers /\ layer[victim[p]] # "partial"
      BY <1>1, <1>9, <2>1, <3>1 DEF PruneLayer, Layers
    <3>2. CASE ~(victim[p] \in Layers /\ layer[victim[p]] # "partial")
      BY <1>1, <1>9, <2>1, <3>2 DEF PruneLayer
    <3>3. QED
      BY <3>1, <3>2
  <2>3. CASE victim[p] # c
    BY <1>1, <1>4, <1>5, <2>1, <2>2, <2>3 DEF Kept, InFlux, claims
  <2>4. CASE victim[p] = c
    <3>1. records[c] = "absent"
      BY <2>1, <2>4 DEF Recorded
    <3>2. QED
      BY <1>1, <1>4, <2>1, <2>2, <2>4, <3>1 DEF Kept
  <2>5. QED
    BY <2>3, <2>4
<1>10. CASE ~PrunePID(p) /\ ~PruneManifest(p) /\ ~PruneLayer(p)
  <2>1. UNCHANGED <<records, layer>> /\ claims' = claims
    BY <1>10, PruneKeeps
  <2>2. ~Marked /\ ~Halved
    BY <1>10 DEF PruneStep, PruneRead, PruneMark, PruneList, PrunePick, PruneProvenance,
                 PruneReports, PruneEnd
  <2>3. QED
    BY <1>6, <2>1, <2>2
<1>11. QED
  BY <1>7, <1>8, <1>9, <1>10

\* What any other step does.
LEMMA KeptOfCommand ==
    ASSUME Quiet, Store, NEW p \in Proc, StepOf(p), ~PruneStep(p), plan' = plan, NEW c \in Purl,
           ~\E d \in Purl : ComponentStep(p, d)
    PROVE  Kept(c)'
<1>1. /\ TypeInv /\ Kept(c) /\ Gentle
      /\ Crashing' = Crashing
  BY DEF Quiet, Store, Crashing
<1>2. UNCHANGED <<records, layer, claims>>
  BY ComponentsKept
<1>3. \A survive \in BOOLEAN : Crash(p, survive) => Crashing /\ ~Taking(p) /\ ~Reclaiming(p)
  BY <1>1 DEF Crash, Gentle, Crashing
<1>4. ASSUME NEW q \in Proc, at[q][c] \in {"claim", "claimed"}, records[c] # "absent"
      PROVE  at'[q][c] = at[q][c]
  <2>1. CASE q # p
    BY <1>1, <1>4, <2>1, OthersKept
  <2>2. CASE q = p
    <3>1. PICK survive \in BOOLEAN : Crash(p, survive)
      BY <1>1, <1>4, <2>2, MidwayStep DEF ToDo
    <3>2. QED
      BY <1>3, <1>4, <2>2, <3>1 DEF Taking, Recorded
  <2>3. QED
    BY <2>1, <2>2
<1>5. ASSUME NEW q \in Proc, pc[q] = "prune_manifest", victim[q] = c, records[c] # "absent"
      PROVE  pc'[q] = "prune_manifest" /\ victim'[q] = c
  <2>1. CASE q # p
    BY <1>1, <1>5, <2>1, OthersKept
  <2>2. CASE q = p
    <3>1. PICK survive \in BOOLEAN : Crash(p, survive)
      BY <1>1, <1>5, <2>2, PruneLabelsAreOfPrunes DEF PruneLabels
    <3>2. QED
      BY <1>3, <1>5, <2>2, <3>1 DEF Reclaiming, Recorded
  <2>3. QED
    BY <2>1, <2>2
<1>6. ASSUME NEW q \in Proc, ~Crashing, at[q][c] = "fetching"
      PROVE  at'[q][c] = "fetching"
  <2>1. CASE q # p
    BY <1>1, <1>6, <2>1, OthersKept
  <2>2. CASE q = p
    BY <1>1, <1>3, <1>6, <2>2, MidwayStep DEF ToDo
  <2>3. QED
    BY <2>1, <2>2
<1>7. ASSUME NEW q \in Proc, ~Crashing, pc[q] = "prune_layer", victim[q] = c
      PROVE  pc'[q] = "prune_layer" /\ victim'[q] = c
  <2>1. CASE q # p
    BY <1>1, <1>7, <2>1, OthersKept
  <2>2. CASE q = p
    BY <1>1, <1>3, <1>7, <2>2, PruneLabelsAreOfPrunes DEF PruneLabels
  <2>3. QED
    BY <2>1, <2>2
<1>8. records[c] # "absent" /\ InFlux(c) => InFlux(c)'
  BY <1>2, <1>4, <1>5 DEF InFlux, claims
<1>9. QED
  BY <1>1, <1>2, <1>4, <1>6, <1>7, <1>8 DEF Kept, claims

LEMMA StoreStep ==
    ASSUME TypeInv, TypeInv', InTurn => TurnInv, ClaimInv, CalmInv, OwnedInv, SameInv, HonestInv,
           InTurn => PruneInv, StoreInv, [Next]_vars
    PROVE  StoreInv'
<1>1. CASE UNCHANGED vars
  <2>1. (InTurn /\ Consistent /\ Gentle)' <=> InTurn /\ Consistent /\ Gentle
    BY <1>1 DEF vars, InTurn, Consistent, OneContent, SameEverywhere, Gentle, FetchesSucceed
  <2>2. Store => Store'
    BY <1>1 DEF vars, disk, claims, memory, prune, Store, Kept, InFlux, Crashing, Package, Stage,
                Full, Settled, Whole, SBOMOf, DeclaredBy, Removing, Pulling
  <2>3. QED
    BY <2>1, <2>2 DEF StoreInv
<1>2. plan' = plan => ((InTurn /\ Consistent /\ Gentle)' <=> InTurn /\ Consistent /\ Gentle)
  BY DEF InTurn, Consistent, OneContent, SameEverywhere, Gentle, FetchesSucceed
<1> SUFFICES ASSUME Next, plan' = plan, Quiet, Store
             PROVE  Store'
  BY <1>1, <1>2, EveryStepIsOfOne DEF StoreInv, Quiet
<1>3. ~OrphanStep
  BY QuietIsOrderly DEF OrphanStep, OrphanWrites
<1>4. PICK p \in Proc : StepOf(p)
  BY <1>3, EveryStepIsOfOne
<1>5. ASSUME NEW q \in Proc, q # p
      PROVE  Package(q)' /\ \A c \in Purl : Stage(q, c)'
  <2>1. pc'[q] \in Ended \cup {"ready"}
    BY <1>4, <1>5, NobodyElse DEF Quiet, Busy
  <2>2. \A c \in Purl : at'[q][c] \in {"none", "done"}
    BY <2>1 DEF TypeInv, Places, Ended
  <2>3. QED
    BY <2>1, <2>2 DEF Package, Stage, Looking, Ended
<1>6. ASSUME NEW t \in Tag, repos'[t] # None
      PROVE  Full(repos[t])'
  <2>1. repos \in [Tag -> SBOM \cup {None}] /\ repos' \in [Tag -> SBOM \cup {None}]
    BY DEF TypeInv, TypeOK
  <2>2. CASE repos'[t] = repos[t]
    <3>1. PICK s \in SBOM : s = repos[t] /\ s = repos'[t]
      BY <1>6, <2>1, <2>2
    <3>2. Full(s)'
      BY <1>4, <1>6, <2>2, <3>1, TaggedStays
    <3>3. QED
      BY <3>1, <3>2
  <2>3. CASE repos'[t] # repos[t]
    <3>1. WriteTags(p)
      BY <1>4, <2>3, ComponentStepLocal, PruneKeeps
         DEF StepOf, Step, CommandStep, ComponentsEnd, RecordManifest, ResolveTag, ReadTags,
             WriteProvenance, RestoreSBOM, ScanRefuses, RestoreReports, Crash, Start, disk
    <3>2. /\ pc[p] = "write_tags" /\ mem[p] = repos
          /\ repos' = [repos EXCEPT ![cmd[p].tag] = SBOMOf(p)]
      BY <3>1 DEF WriteTags, Quiet, TurnInv
    <3>3. repos'[t] = SBOMOf(p)
      BY <2>1, <2>3, <3>2
    <3>4. ~Removing(p)
      BY <1>6, <3>2, <3>3 DEF TypeInv, Fits, Busy, Ended
    <3>5. PICK s \in SBOM : s = SBOMOf(p) /\ s = repos'[t]
      BY <1>6, <2>1, <3>3
    <3>6. Full(s)
      BY <3>2, <3>4, <3>5 DEF Store, Package
    <3>7. ~PruneStep(p)
      BY <3>2, PruneStepLabel DEF PruneLabels
    <3>8. Full(s)'
      BY <1>4, <3>6, <3>7, FullStays
    <3>9. QED
      BY <3>5, <3>8
  <2>4. QED
    BY <2>2, <2>3
<1>7. ASSUME NEW c \in Purl, ComponentStep(p, c)
      PROVE  Package(p)' /\ \A d \in Purl : Kept(d)' /\ Stage(p, d)'
  <2>1. /\ pc' = pc /\ cmd' = cmd /\ manifests' = manifests /\ pc[p] = "components"
        /\ \A q \in Proc : q # p => at'[q] = at[q]
        /\ victim' = victim
        /\ \A d \in Purl \ {c} : /\ at'[p][d] = at[p][d]
                                 /\ noted'[p][d] = noted[p][d]
                                 /\ pid'[d] = pid[d]
                                 /\ d \in blank' <=> d \in blank
                                 /\ layer'[d] = layer[d]
                                 /\ records'[d] = records[d]
    BY <1>7, ComponentStepLocal DEF prune
  <2>2. Package(p)'
    BY <2>1 DEF Store, Package, SBOMOf, Pulling
  <2>3. Kept(c)' /\ Stage(p, c)'
    BY <1>7, KeptAlone, StoreOfComponent DEF Store
  <2>4. ASSUME NEW d \in Purl, d # c
        PROVE  Kept(d)' /\ Stage(p, d)'
    <3>1. /\ at'[p][d] = at[p][d] /\ noted'[p][d] = noted[p][d] /\ pid'[d] = pid[d]
          /\ d \in blank' <=> d \in blank
          /\ layer'[d] = layer[d] /\ records'[d] = records[d]
          /\ \A q \in Proc : at'[q][d] = at[q][d]
      BY <2>1, <2>4
    <3>2. Kept(d) /\ Stage(p, d)
      BY DEF Store
    <3>3. Kept(d)'
      BY <2>1, <3>1, <3>2 DEF Kept, InFlux, Crashing
    <3>4. PICK s : s = SBOMOf(p) /\ s = SBOMOf(p)'
      BY <2>1 DEF SBOMOf
    <3>5. Stage(p, d)'
      BY <2>1, <3>1, <3>2, <3>4 DEF Stage, Settled, Whole, DeclaredBy, Crashing
    <3>6. QED
      BY <3>3, <3>5
  <2>5. QED
    BY <2>2, <2>3, <2>4
<1>8. CASE PruneStep(p)
  <2>1. /\ pc'[p] \in PruneLabels \cup {"done"}
        /\ ~\E c \in Purl : ComponentStep(p, c)
    BY <1>8, PruneStepLabel, StepLabels, ComponentStepLocal DEF PruneStep, PruneLabels
  <2>2. Package(p)' /\ \A c \in Purl : Stage(p, c)'
    BY <1>4, <2>1, StageOfCommand DEF Package, PruneLabels
  <2>3. \A c \in Purl : Kept(c)'
    BY <1>8, KeptOfPrune
  <2>4. QED
    BY <1>5, <1>6, <2>2, <2>3 DEF Store
<1>9. CASE ~PruneStep(p) /\ ~\E c \in Purl : ComponentStep(p, c)
  <2>1. Package(p)' /\ \A c \in Purl : Stage(p, c)' /\ Kept(c)'
    BY <1>4, <1>9, PackageOfCommand, StageOfCommand, KeptOfCommand
  <2>2. QED
    BY <1>5, <1>6, <2>1 DEF Store
<1>10. CASE \E c \in Purl : ComponentStep(p, c)
  BY <1>5, <1>6, <1>7, <1>10 DEF Store
<1>11. QED
  BY <1>8, <1>9, <1>10

LEMMA PruneOrNot == Spec => [](InTurn => PruneInv)
<1>1. Init => (InTurn => PruneInv)
  BY DEF Init, PruneInv, Spares, Reclaims, Stated, VictimLabels
<1>2. TypeInv /\ (InTurn => TurnInv) /\ ClaimInv /\ (InTurn => PruneInv) /\ [Next]_vars
        => (InTurn => PruneInv)'
  <2>1. [Next]_vars => plan' = plan
    BY DEF Next, vars
  <2>2. QED
    BY <2>1, PruneInvStep DEF InTurn
<1>3. QED
  BY <1>1, <1>2, TypeInvariant, TurnOrNot, ClaimInvariant, PTL DEF Spec

LEMMA StoreInvariant == Spec => []StoreInv
<1>1. Init => StoreInv
  <2> SUFFICES ASSUME Init
               PROVE  Store
    BY DEF StoreInv
  <2>1. None # "absent"
    BY ConstantsAssumption
  <2>2. \A c \in Purl : Kept(c) /\ \A p \in Proc : Stage(p, c)
    BY <2>1 DEF Init, Kept, Stage, Looking
  <2>3. QED
    BY <2>2 DEF Init, Store, Package, NoTags
<1>2. QED
  BY <1>1, StoreStep, TypeInvariant, TurnOrNot, ClaimInvariant, CalmInvariant, OwnedInvariant,
     HonestInvariant, PruneOrNot, PTL DEF Spec

\* When commands run one after another, any of which may fail, every tag resolves
\* to a package that is there in full; and when builds, copies, removals and prunes
\* are killed too, with their plugins and not while they take a stale claim away
\* (the order of cache.go:37-84, what a pull keeps, what prune takes for reachable).
THEOREM TagsStayBacked == Spec => []TagsBackedInTurn
<1>1. StoreInv => TagsBackedInTurn
  BY DEF StoreInv, Store, Full, Settled, Whole, TagsBackedInTurn, TagsBacked, Backed
<1>2. QED
  BY <1>1, StoreInvariant, PTL
=============================================================================

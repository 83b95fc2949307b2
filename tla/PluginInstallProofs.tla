------------------------ MODULE PluginInstallProofs ------------------------
(***************************************************************************)
(* Theorems about PluginInstall and the layout version it opens: for any   *)
(* number of processes, versions of bomify, plugins and packages.          *)
(***************************************************************************)
EXTENDS PluginInstall, TLAPS

-----------------------------------------------------------------------------
(* What an install has made sure of.                                       *)

\* The signer of process p's policy is the one its flags or the trust rule
\* name, and without one the digest, or the user, vouches for the package.
Chosen(p) ==
    /\ job[p] \in Jobs
    /\ signer[p] = None => ~job[p].verify \/ (job[p].option = None /\ job[p].ref \in Package)
    /\ signer[p] # None =>
           signer[p] = IF job[p].option # None THEN job[p].option ELSE TrustRule[job[p].ref]

Resolved(p) ==
    /\ package[p] \in Package
    /\ job[p].ref \in Package => package[p] = job[p].ref

Relies(p) ==
    /\ at[p] \in Installing => Chosen(p)
    /\ at[p] \in Installing \ {"resolve"} => Resolved(p)
    /\ at[p] \in Installing \ {"resolve", "verify"} /\ signer[p] # None =>
           signer[p] \in SignedBy[package[p]]
    /\ at[p] \in {"read_index", "place", "write_index"} =>
           /\ Sound(package[p], job[p].verify)
           /\ staged[p] \subseteq Candidates(package[p])

Inv == TypeOK /\ \A p \in Proc : Relies(p)

\* The processes but p stay as they are.
Others(p) ==
    \A q \in Proc \ {p} :
        /\ at'[q] = at[q] /\ bomify'[q] = bomify[q] /\ target'[q] = target[q]
        /\ job'[q] = job[q] /\ signer'[q] = signer[q] /\ package'[q] = package[q]
        /\ staged'[q] = staged[q] /\ records'[q] = records[q]

\* Opening the directory is no install.
LEMMA Checks ==
    ASSUME Inv, NEW p \in Proc, CheckVersion(p), UNCHANGED installVars
    PROVE  /\ LayoutTypeOK' /\ InstallTypeOK'
           /\ at'[p] \notin Installing
           /\ Others(p)
<1> DEFINE Checked == /\ LayoutTypeOK' /\ InstallTypeOK'
                      /\ at'[p] \notin Installing
                      /\ Others(p)
<1> USE LayoutAssumption DEF Checking, Installing, directory
<1>1. /\ LayoutTypeOK /\ InstallTypeOK
      /\ bomify[p] \in 1..Newest /\ target[p] \in 0..Newest
  BY DEF Inv, TypeOK, LayoutTypeOK
<1>2. ASSUME NEW l \in Checking \cup {"idle", "using"}, at' = [at EXCEPT ![p] = l],
             NEW v \in 1..Newest, bomify' = [bomify EXCEPT ![p] = v],
             NEW t \in 0..Newest, target' = [target EXCEPT ![p] = t]
      PROVE  /\ InstallTypeOK' /\ at'[p] \notin Installing /\ Others(p)
             /\ bomify' \in [Proc -> 1..Newest] /\ target' \in [Proc -> 0..Newest]
  <2>1. at' \in [Proc -> Checking \cup Installing \cup {"idle", "using"}] /\ at'[p] = l
    BY <1>1, <1>2 DEF InstallTypeOK
  <2>2. bomify' \in [Proc -> 1..Newest] /\ target' \in [Proc -> 0..Newest]
    BY <1>1, <1>2 DEF LayoutTypeOK
  <2>3. InstallTypeOK'
    BY <1>1, <2>1 DEF InstallTypeOK, installVars, installed, mine
  <2>4. Others(p)
    BY <1>1, <1>2 DEF Others, InstallTypeOK, LayoutTypeOK, installVars, mine
  <2> QED
    BY <2>1, <2>2, <2>3, <2>4
<1>3. UNCHANGED bomify => bomify' = [bomify EXCEPT ![p] = bomify[p]]
  BY <1>1 DEF LayoutTypeOK
<1>4. UNCHANGED target => target' = [target EXCEPT ![p] = target[p]]
  BY <1>1 DEF LayoutTypeOK
<1>5. 1 \in 1..Newest /\ 0 \in 0..Newest
  BY DEF LayoutAssumption
<1>6. ASSUME NEW v \in 1..Newest, Open(p, v)
      PROVE  Checked
  <2>1. /\ InstallTypeOK' /\ at'[p] \notin Installing /\ Others(p)
        /\ bomify' \in [Proc -> 1..Newest] /\ target' \in [Proc -> 0..Newest]
    BY <1>1, <1>2, <1>4, <1>6 DEF Open
  <2>2. overlaps' \in 0..MaxOverlaps
    BY <1>1, <1>6 DEF Open, LayoutTypeOK, LayoutAssumption
  <2> QED
    BY <1>1, <1>6, <2>1, <2>2 DEF Open, LayoutTypeOK
<1> DEFINE Rest == /\ version' \in 0..Newest /\ level' \in 0..Spoilt
                   /\ {half', content', debris'} \subseteq BOOLEAN /\ temps' \in SUBSET Proc
                   /\ UNCHANGED overlaps
<1>7. ASSUME Rest, NEW l \in Checking \cup {"idle", "using"}, Goto(p, l),
             NEW t \in 0..Newest, target' = [target EXCEPT ![p] = t]
      PROVE  Checked
  BY <1>1, <1>2, <1>3, <1>7 DEF Goto, LayoutTypeOK
<1>8. ASSUME Rest, Leave(p)
      PROVE  Checked
  BY <1>1, <1>2, <1>5, <1>8 DEF Leave, LayoutTypeOK
<1>9. ASSUME Rest, NEW v \in 0..Newest, Continue(p, v)
      PROVE  Checked
  <2>1. (IF v < bomify[p] THEN v + 1 ELSE 0) \in 0..Newest
    BY <1>1 DEF LayoutAssumption
  <2>2. CASE v < bomify[p]
    BY <1>7, <1>9, <2>1, <2>2 DEF Continue
  <2>3. CASE ~(v < bomify[p])
    BY <1>7, <1>9, <2>1, <2>3 DEF Continue
  <2> QED
    BY <2>2, <2>3
<1>10. UNCHANGED <<directory, overlaps>> => Rest
  BY <1>1 DEF LayoutTypeOK
<1>11. CASE ReadVersion(p) /\ UNCHANGED overlaps
  <2>1. CASE version = 0
    BY <1>1, <1>4, <1>7, <1>10, <1>11, <2>1 DEF ReadVersion
  <2>2. CASE version # 0 /\ version > bomify[p]
    BY <1>8, <1>10, <1>11, <2>2 DEF ReadVersion
  <2>3. CASE version # 0 /\ ~(version > bomify[p])
    BY <1>1, <1>9, <1>10, <1>11, <2>3 DEF ReadVersion, LayoutTypeOK
  <2> QED
    BY <2>1, <2>2, <2>3
<1>12. CASE CheckEmpty(p) /\ UNCHANGED overlaps
  <2>1. bomify[p] \in 0..Newest
    BY <1>1 DEF LayoutAssumption
  <2>2. CASE content \/ temps # {} \/ debris
    BY <1>8, <1>10, <1>12, <2>2 DEF CheckEmpty
  <2>3. CASE ~(content \/ temps # {} \/ debris)
    BY <1>7, <1>10, <1>12, <2>1, <2>3 DEF CheckEmpty
  <2> QED
    BY <2>2, <2>3
<1>13. CASE BeginMigration(p) /\ UNCHANGED overlaps
  BY <1>1, <1>4, <1>7, <1>13 DEF BeginMigration, LayoutTypeOK
<1>14. CASE EndMigration(p) /\ UNCHANGED overlaps
  <2>1. level' \in 0..Spoilt
    BY <1>1, <1>14 DEF EndMigration, Spoilt, LayoutAssumption
  <2>2. Rest
    BY <1>1, <1>14, <2>1 DEF EndMigration, LayoutTypeOK
  <2> QED
    BY <1>1, <1>4, <1>7, <1>14, <2>2 DEF EndMigration
<1>15. CASE WriteTemp(p) /\ UNCHANGED overlaps
  BY <1>1, <1>4, <1>7, <1>15 DEF WriteTemp, LayoutTypeOK
<1>16. CASE RenameTemp(p) /\ UNCHANGED overlaps
  <2>1. Rest
    BY <1>1, <1>16 DEF RenameTemp, LayoutTypeOK, Spoilt, LayoutAssumption
  <2> QED
    BY <1>1, <1>9, <1>16, <2>1 DEF RenameTemp
<1>17. CASE (CheckFails(p) \/ CrashChecking(p) \/ Use(p)) /\ UNCHANGED overlaps
  BY <1>1, <1>8, <1>17 DEF CheckFails, CrashChecking, Use, LayoutTypeOK
<1> QED
  BY <1>6, <1>11, <1>12, <1>13, <1>14, <1>15, <1>16, <1>17 DEF CheckVersion

\* A step of the install itself keeps the types, given what it relies on.
LEMMA Installs ==
    ASSUME Inv, NEW p \in Proc,
           (\E j \in Jobs : Choose(p, j)) \/ (Install(p) /\ UNCHANGED content),
           UNCHANGED <<version, level, half, temps, debris, overlaps, retags>>
    PROVE  LayoutTypeOK' /\ InstallTypeOK' /\ Others(p)
<1> USE InstallAssumption DEF Installing
<1>1. /\ LayoutTypeOK /\ InstallTypeOK /\ Relies(p)
      /\ 1 \in 1..Newest /\ 0 \in 0..Newest
  BY LayoutAssumption DEF Inv, TypeOK
<1> DEFINE Mine == /\ job' \in [Proc -> Jobs \cup {None}]
                   /\ signer' \in [Proc -> Signer \cup {None}]
                   /\ package' \in [Proc -> Package \cup {None}]
                   /\ staged' \in [Proc -> SUBSET Part]
                   /\ records' \in [Proc -> [Kind -> Record \cup {None}]]
           Theirs == \A q \in Proc \ {p} :
                   /\ job'[q] = job[q] /\ signer'[q] = signer[q] /\ package'[q] = package[q]
                   /\ staged'[q] = staged[q] /\ records'[q] = records[q]
           Placed == /\ bin' \in [Kind -> Binary \cup {None}]
                     /\ index' \in [Kind -> Record \cup {None}]
                     /\ torn' \in SUBSET Kind
<1>2. ASSUME Leave(p)
      PROVE  /\ bomify' \in [Proc -> 1..Newest] /\ target' \in [Proc -> 0..Newest]
             /\ at' \in [Proc -> Checking \cup Installing \cup {"idle", "using"}]
             /\ \A q \in Proc \ {p} :
                    at'[q] = at[q] /\ bomify'[q] = bomify[q] /\ target'[q] = target[q]
  BY <1>1, <1>2 DEF Leave, LayoutTypeOK, InstallTypeOK
<1>3. ASSUME NEW l \in Installing, Proceed(p, l)
      PROVE  /\ bomify' \in [Proc -> 1..Newest] /\ target' \in [Proc -> 0..Newest]
             /\ at' \in [Proc -> Checking \cup Installing \cup {"idle", "using"}]
             /\ \A q \in Proc \ {p} :
                    at'[q] = at[q] /\ bomify'[q] = bomify[q] /\ target'[q] = target[q]
  BY <1>1, <1>3 DEF Proceed, Goto, LayoutTypeOK, InstallTypeOK
<1>4. ASSUME Close(p) PROVE Mine /\ Theirs
  <2>1. NoRecords \in [Kind -> Record \cup {None}]
    BY DEF NoRecords
  <2> QED
    BY <1>1, <1>4, <2>1 DEF Close, InstallTypeOK
<1>5. UNCHANGED mine => Mine /\ Theirs
  BY <1>1 DEF mine, InstallTypeOK
<1>6. ASSUME Mine, Theirs, Placed, UNCHANGED tags, content' \in BOOLEAN,
             Leave(p) \/ \E l \in Installing : Proceed(p, l)
      PROVE  LayoutTypeOK' /\ InstallTypeOK' /\ Others(p)
  <2>1. /\ bomify' \in [Proc -> 1..Newest] /\ target' \in [Proc -> 0..Newest]
        /\ at' \in [Proc -> Checking \cup Installing \cup {"idle", "using"}]
        /\ \A q \in Proc \ {p} :
               at'[q] = at[q] /\ bomify'[q] = bomify[q] /\ target'[q] = target[q]
    BY <1>2, <1>3, <1>6
  <2>2. LayoutTypeOK'
    BY <1>1, <1>6, <2>1 DEF LayoutTypeOK
  <2>3. InstallTypeOK'
    BY <1>1, <1>6, <2>1 DEF InstallTypeOK
  <2> QED
    BY <1>6, <2>1, <2>2, <2>3 DEF Others
<1>7. UNCHANGED installed => Placed
  BY <1>1 DEF installed, InstallTypeOK
<1>8. content \in BOOLEAN
  BY <1>1 DEF LayoutTypeOK
<1>9. ASSUME NEW j \in Jobs, Choose(p, j)
      PROVE  LayoutTypeOK' /\ InstallTypeOK' /\ Others(p)
  <2>1. CASE Policy(j) = "refused"
    BY <1>4, <1>6, <1>7, <1>8, <1>9, <2>1 DEF Choose, Close
  <2>2. CASE Policy(j) # "refused"
    <3>1. j.option \in Signer \cup {None} /\ TrustRule[j.ref] \in Signer \cup {None}
      BY DEF JobType
    <3>2. Policy(j) \in Signer \cup {None}
      BY <2>2, <3>1 DEF Policy
    <3>3. /\ job' = [job EXCEPT ![p] = j] /\ signer' = [signer EXCEPT ![p] = Policy(j)]
          /\ UNCHANGED <<package, staged, records, tags, installed>>
          /\ content' \in BOOLEAN /\ Proceed(p, "resolve")
      BY <1>9, <2>2 DEF Choose
    <3>4. Mine /\ Theirs
      BY <1>1, <3>2, <3>3 DEF InstallTypeOK
    <3> QED
      BY <1>6, <1>7, <3>3, <3>4
  <2> QED
    BY <2>1, <2>2
<1>10. CASE Resolve(p) /\ UNCHANGED content
  <2>1. job[p] \in Jobs /\ job[p].ref \in Tag \cup Package
    BY <1>1, <1>10 DEF Resolve, Relies, Chosen, JobType, Ref
  <2>2. (IF IsDigest(job[p].ref) THEN job[p].ref ELSE tags[job[p].ref]) \in Package
    BY <1>1, <2>1 DEF IsDigest, InstallTypeOK
  <2>3. Mine /\ Theirs
    BY <1>1, <1>10, <2>2 DEF Resolve, InstallTypeOK
  <2> QED
    BY <1>6, <1>7, <1>8, <1>10, <2>3 DEF Resolve
<1>11. CASE Verify(p) /\ UNCHANGED content
  BY <1>4, <1>5, <1>6, <1>7, <1>8, <1>11 DEF Verify, Close
<1>12. CASE Fetch(p) /\ UNCHANGED content
  <2>1. CASE Sound(package[p], job[p].verify)
    <3>1. package[p] \in Package
      BY <1>1, <1>12 DEF Fetch, Relies, Resolved
    <3>2. Candidates(package[p]) \in SUBSET Part
      BY <3>1 DEF Candidates
    <3>3. Mine /\ Theirs
      BY <1>1, <1>12, <2>1, <3>2 DEF Fetch, InstallTypeOK
    <3> QED
      BY <1>6, <1>7, <1>8, <1>12, <2>1, <3>3 DEF Fetch
  <2>2. CASE ~Sound(package[p], job[p].verify)
    BY <1>4, <1>6, <1>7, <1>8, <1>12, <2>2 DEF Fetch, Close
  <2> QED
    BY <2>1, <2>2
<1>13. CASE ReadIndex(p) /\ UNCHANGED content
  <2>1. Mine /\ Theirs
    BY <1>1, <1>13 DEF ReadIndex, InstallTypeOK
  <2> QED
    BY <1>6, <1>7, <1>8, <1>13, <2>1 DEF ReadIndex
<1>14. ASSUME NEW c \in staged[p], Place(p, c), UNCHANGED content
       PROVE  LayoutTypeOK' /\ InstallTypeOK' /\ Others(p)
  <2>1. /\ Sound(package[p], job[p].verify) /\ c \in Candidates(package[p])
        /\ job[p] \in Jobs /\ package[p] \in Package
    BY <1>1, <1>14 DEF Place, Relies, Chosen, Resolved
  <2>2. c.kind \in Kind /\ c.binary \in Binary
    BY <2>1 DEF Sound, Verified, Candidates, Part
  <2>3. [reference |-> job[p].ref, sha256 |-> c.binary] \in Record
    BY <2>1, <2>2 DEF Record, JobType
  <2>4. Placed
    BY <1>1, <1>14, <2>2 DEF Place, InstallTypeOK
  <2>5. Mine /\ Theirs
    BY <1>1, <1>14, <2>2, <2>3 DEF Place, InstallTypeOK
  <2> QED
    BY <1>6, <1>8, <1>14, <2>4, <2>5 DEF Place
<1>15. CASE WriteIndex(p) /\ UNCHANGED content
  <2>1. Placed
    BY <1>1, <1>15 DEF WriteIndex, InstallTypeOK
  <2> QED
    BY <1>4, <1>6, <1>8, <1>15, <2>1 DEF WriteIndex, Close
<1>16. CASE Stop(p) /\ UNCHANGED content
  BY <1>4, <1>6, <1>7, <1>8, <1>16 DEF Stop, Close
<1> QED
  BY <1>9, <1>10, <1>11, <1>12, <1>13, <1>14, <1>15, <1>16 DEF Install

\* A step of one process leaves alone what the others rely on.
LEMMA ReliesOthers ==
    ASSUME NEW p \in Proc, NEW q \in Proc \ {p}, Others(p), Relies(q)
    PROVE  Relies(q)'
BY DEF Others, Relies, Chosen, Resolved

LEMMA ReliesStep ==
    ASSUME Inv, NEW p \in Proc,
           (\E j \in Jobs : Choose(p, j)) \/ Install(p)
    PROVE  Relies(p)'
<1> USE InstallAssumption DEF Installing
<1>1. InstallTypeOK /\ Relies(p)
  BY DEF Inv, TypeOK
<1>2. ASSUME Leave(p)
      PROVE  Relies(p)'
  BY <1>1, <1>2 DEF Leave, Relies, InstallTypeOK
<1>3. ASSUME NEW l \in Installing, Proceed(p, l)
      PROVE  at'[p] = l
  BY <1>1, <1>3 DEF Proceed, Goto, InstallTypeOK
<1>4. ASSUME NEW j \in Jobs, Choose(p, j)
      PROVE  Relies(p)'
  <2>1. CASE Policy(j) = "refused"
    BY <1>2, <1>4, <2>1 DEF Choose, Close
  <2>2. CASE Policy(j) # "refused"
    <3>1. /\ job'[p] = j /\ signer'[p] = Policy(j)
          /\ at'[p] = "resolve"
      BY <1>1, <1>3, <1>4, <2>2 DEF Choose, InstallTypeOK
    <3>2. j.option \in Signer \cup {None} /\ TrustRule[j.ref] \in Signer \cup {None}
          /\ j.verify \in BOOLEAN
      BY DEF JobType
    <3>3. /\ Policy(j) = None => ~j.verify \/ (j.option = None /\ j.ref \in Package)
          /\ Policy(j) # None => Policy(j) = IF j.option # None THEN j.option ELSE TrustRule[j.ref]
      BY <2>2, <3>2 DEF Policy, IsDigest
    <3> QED
      BY <3>1, <3>3 DEF Relies, Chosen
  <2> QED
    BY <2>1, <2>2
<1>5. CASE Resolve(p)
  <2>1. job[p] \in Jobs /\ job[p].ref \in Tag \cup Package /\ Chosen(p)
    BY <1>1, <1>5 DEF Resolve, Relies, Chosen, JobType, Ref
  <2>2. package'[p] = IF IsDigest(job[p].ref) THEN job[p].ref ELSE tags[job[p].ref]
    BY <1>1, <1>5 DEF Resolve, InstallTypeOK
  <2>3. at'[p] = IF signer[p] = None THEN "fetch" ELSE "verify"
    BY <1>3, <1>5 DEF Resolve
  <2>4. Chosen(p)' /\ Resolved(p)' /\ signer' = signer
    BY <1>1, <1>5, <2>1, <2>2 DEF Resolve, Chosen, Resolved, IsDigest, InstallTypeOK
  <2> QED
    BY <2>3, <2>4 DEF Relies
<1>6. CASE Verify(p)
  BY <1>1, <1>2, <1>3, <1>6 DEF Verify, Close, Relies, Chosen, Resolved, mine
<1>7. CASE Fetch(p)
  <2>1. CASE Sound(package[p], job[p].verify)
    <3>1. /\ at'[p] = "read_index" /\ UNCHANGED <<job, signer, package>>
          /\ staged'[p] = Candidates(package[p])
      BY <1>1, <1>3, <1>7, <2>1 DEF Fetch, InstallTypeOK
    <3> QED
      BY <1>1, <1>7, <2>1, <3>1 DEF Fetch, Relies, Chosen, Resolved
  <2>2. CASE ~Sound(package[p], job[p].verify)
    BY <1>2, <1>7, <2>2 DEF Fetch, Close
  <2> QED
    BY <2>1, <2>2
<1>8. CASE ReadIndex(p)
  BY <1>1, <1>3, <1>8 DEF ReadIndex, Relies, Chosen, Resolved
<1>9. ASSUME NEW c \in staged[p], Place(p, c)
      PROVE  Relies(p)'
  <2>1. at'[p] \in {"write_index", "place"} /\ UNCHANGED <<job, signer, package>>
    BY <1>3, <1>9 DEF Place
  <2>2. staged'[p] \subseteq staged[p]
    BY <1>1, <1>9 DEF Place, InstallTypeOK
  <2> QED
    BY <1>1, <1>9, <2>1, <2>2 DEF Place, Relies, Chosen, Resolved
<1>10. CASE WriteIndex(p) \/ Stop(p)
  BY <1>2, <1>10 DEF WriteIndex, Stop, Close
<1> QED
  BY <1>4, <1>5, <1>6, <1>7, <1>8, <1>9, <1>10 DEF Install

LEMMA InitInv == Init => Inv
<1> SUFFICES ASSUME Init PROVE Inv
  OBVIOUS
<1> USE LayoutAssumption, InstallAssumption
<1>1. LayoutTypeOK
  <2>1. Newest \in Nat \ {0} /\ 1 \in 1..Newest /\ 0 \in 0..Newest /\ 0 \in 0..MaxOverlaps
    OBVIOUS
  <2>2. version \in 0..Spoilt
    BY DEF Init, LayoutInit, Spoilt
  <2> QED
    BY <2>1, <2>2 DEF Init, LayoutInit, LayoutTypeOK
<1>2. InstallTypeOK
  BY DEF Init, LayoutInit, InstallTypeOK, NoRecords
<1>3. ASSUME NEW p \in Proc PROVE Relies(p)
  BY DEF Init, LayoutInit, Relies, Installing
<1> QED
  BY <1>1, <1>2, <1>3 DEF Inv, TypeOK

\* The cases of a step.
LEMMA Steps ==
    ASSUME [Next]_vars
    PROVE  \/ \E p \in Proc : CheckVersion(p) /\ UNCHANGED installVars
           \/ \E p \in Proc :
                /\ (\E j \in Jobs : Choose(p, j)) \/ (Install(p) /\ UNCHANGED content)
                /\ UNCHANGED <<version, level, half, temps, debris, overlaps, retags>>
           \/ \E t \in Tag, k \in Package : Retag(t, k)
           \/ UNCHANGED vars
BY DEF Next

LEMMA InvStep == Inv /\ [Next]_vars => Inv'
<1> SUFFICES ASSUME Inv, [Next]_vars PROVE Inv'
  OBVIOUS
<1>1. ASSUME NEW p \in Proc, CheckVersion(p), UNCHANGED installVars PROVE Inv'
  <2>1. LayoutTypeOK' /\ InstallTypeOK' /\ at'[p] \notin Installing /\ Others(p)
    BY <1>1, Checks
  <2>2. Relies(p)'
    BY <2>1 DEF Relies, Installing
  <2>3. \A q \in Proc \ {p} : Relies(q)'
    BY <2>1, ReliesOthers DEF Inv
  <2> QED
    BY <2>1, <2>2, <2>3 DEF Inv, TypeOK
<1>2. ASSUME NEW p \in Proc,
             (\E j \in Jobs : Choose(p, j)) \/ (Install(p) /\ UNCHANGED content),
             UNCHANGED <<version, level, half, temps, debris, overlaps, retags>>
      PROVE  Inv'
  <2>1. LayoutTypeOK' /\ InstallTypeOK' /\ Others(p)
    BY <1>2, Installs
  <2>2. Relies(p)'
    BY <1>2, ReliesStep
  <2>3. \A q \in Proc \ {p} : Relies(q)'
    BY <2>1, ReliesOthers DEF Inv
  <2> QED
    BY <2>1, <2>2, <2>3 DEF Inv, TypeOK
<1>3. ASSUME NEW t \in Tag, NEW k \in Package, Retag(t, k) PROVE Inv'
  <2>1. LayoutTypeOK'
    BY <1>3 DEF Inv, TypeOK, Retag, layoutVars, directory, LayoutTypeOK
  <2>2. InstallTypeOK'
    BY <1>3, InstallAssumption
       DEF Inv, TypeOK, Retag, layoutVars, installed, mine, InstallTypeOK
  <2>3. \A p \in Proc : Relies(p)'
    BY <1>3 DEF Inv, Retag, layoutVars, mine, Relies, Chosen, Resolved
  <2> QED
    BY <2>1, <2>2, <2>3 DEF Inv, TypeOK
<1>4. CASE UNCHANGED vars
  <2>1. LayoutTypeOK' /\ InstallTypeOK'
    BY <1>4 DEF Inv, TypeOK, vars, layoutVars, directory, installVars, installed, mine,
                LayoutTypeOK, InstallTypeOK
  <2>2. \A p \in Proc : Relies(p)'
    BY <1>4 DEF Inv, vars, layoutVars, installVars, mine, Relies, Chosen, Resolved
  <2> QED
    BY <2>1, <2>2 DEF Inv, TypeOK
<1> QED
  BY <1>1, <1>2, <1>3, <1>4, Steps

\* Every state of the directory and of the installs is well typed.
THEOREM TypeCorrect == Spec => []TypeOK
<1>1. Inv => TypeOK
  BY DEF Inv
<1> QED
  BY <1>1, InitInv, InvStep, PTL DEF Spec

\* Every step that changes a binary in place is a rename of an install whose
\* package is vouched for, and sound.
LEMMA VouchedStep ==
    ASSUME Inv, [Next]_vars
    PROVE  \A b \in Kind : bin'[b] # bin[b] =>
               \E p \in Proc :
                   /\ at[p] = "place"
                   /\ Vouched(job[p], package[p])
                   /\ Sound(package[p], job[p].verify)
                   /\ \E c \in Candidates(package[p]) : c.kind = b /\ c.binary = bin'[b]
<1> USE InstallAssumption
<1>1. ASSUME NEW p \in Proc, NEW c \in staged[p], Place(p, c),
             NEW b \in Kind, bin'[b] # bin[b]
      PROVE  /\ at[p] = "place" /\ Vouched(job[p], package[p])
             /\ Sound(package[p], job[p].verify)
             /\ \E d \in Candidates(package[p]) : d.kind = b /\ d.binary = bin'[b]
  <2>1. /\ at[p] = "place" /\ Chosen(p) /\ Resolved(p)
        /\ signer[p] # None => signer[p] \in SignedBy[package[p]]
        /\ Sound(package[p], job[p].verify) /\ c \in Candidates(package[p])
    BY <1>1 DEF Place, Inv, Relies, Installing
  <2>2. c.kind = b /\ c.binary = bin'[b]
    BY <1>1 DEF Place, Inv, TypeOK, InstallTypeOK
  <2>3. Vouched(job[p], package[p])
    <3>1. CASE signer[p] = None
      BY <2>1, <3>1 DEF Chosen, Resolved, Vouched
    <3>2. CASE signer[p] # None
      BY <2>1, <3>2 DEF Chosen, Vouched
    <3> QED
      BY <3>1, <3>2
  <2> QED
    BY <2>1, <2>2, <2>3
<1>2. ASSUME bin' # bin
      PROVE  \E p \in Proc : \E c \in staged[p] : Place(p, c)
  <2>1. ASSUME NEW p \in Proc, UNCHANGED installVars PROVE FALSE
    BY <1>2, <2>1 DEF installVars, installed
  <2>2. ASSUME NEW p \in Proc, NEW j \in Jobs, Choose(p, j) PROVE FALSE
    BY <1>2, <2>2 DEF Choose, installed
  <2>3. ASSUME NEW p \in Proc, Install(p) PROVE \E c \in staged[p] : Place(p, c)
    BY <1>2, <2>3 DEF Install, Resolve, Verify, Fetch, ReadIndex, WriteIndex, Stop, installed
  <2>4. ASSUME NEW t \in Tag, NEW k \in Package, Retag(t, k) PROVE FALSE
    BY <1>2, <2>4 DEF Retag, installed
  <2>5. ~UNCHANGED vars
    BY <1>2 DEF vars, installVars, installed
  <2> QED
    BY <2>1, <2>2, <2>3, <2>4, <2>5, Steps
<1> QED
  BY <1>1, <1>2

\* A binary only comes into place from a package that something vouches for and
\* that is sound, however installs overlap, and replace the verifier that others
\* ask, wherever they stop and wherever tags move meanwhile (cmd/plugin.go,
\* Install).
THEOREM InstallsAreVouched == Spec => InstalledVouched
<1>1. Inv /\ [Next]_vars => [\A b \in Kind : bin'[b] # bin[b] =>
          \E p \in Proc :
              /\ at[p] = "place"
              /\ Vouched(job[p], package[p])
              /\ Sound(package[p], job[p].verify)
              /\ \E c \in Candidates(package[p]) : c.kind = b /\ c.binary = bin'[b]]_vars
  BY VouchedStep
<1> QED
  BY <1>1, InitInv, InvStep, PTL DEF Spec, InstalledVouched

-----------------------------------------------------------------------------
(* Commands that run one after another.                                    *)

Solo == \A p, q \in Proc : at[p] # "idle" /\ at[q] # "idle" => p = q

\* The data is at the version recorded, or at the one after it.
Level ==
    /\ level \in {version, version + 1} \ {Spoilt}
    /\ half => version < Newest
    /\ version = 0 => level = 0 /\ ~half

\* What the check of process p has found out.
Knows(p) ==
    /\ at[p] = "is_empty" => version = 0
    /\ at[p] \in {"migrate", "migrated", "write_temp", "rename"} =>
           \/ at[p] \in {"write_temp", "rename"} /\ version = 0 /\ target[p] = bomify[p]
           \/ version # 0 /\ target[p] = version + 1 /\ target[p] <= bomify[p]
    /\ at[p] \in {"write_temp", "rename"} => ~half /\ level \in {0, target[p]}
    /\ Working(p) => version = bomify[p]

LayoutInv == InTurn => Solo /\ Level /\ \A p \in Proc : Knows(p)

\* A step of one process, which the others' idling does not concern.
LEMMA SoloStep ==
    ASSUME Inv, LayoutInv, NEW p \in Proc, Others(p), InTurn', InTurn,
           at[p] # "idle" \/ \A q \in Proc : at[q] = "idle"
    PROVE  /\ Solo'
           /\ \A q \in Proc \ {p} : at[q] = "idle" /\ at'[q] = "idle"
BY DEF LayoutInv, Solo, Others

LEMMA KnowsIdle ==
    ASSUME NEW p \in Proc, at'[p] = "idle"
    PROVE  Knows(p)'
BY DEF Knows, Working, Checking

LEMMA LayoutStep ==
    ASSUME Inv, LayoutInv, NEW p \in Proc, CheckVersion(p), UNCHANGED installVars
    PROVE  LayoutInv'
<1> SUFFICES ASSUME InTurn' PROVE Solo' /\ Level' /\ \A q \in Proc : Knows(q)'
  BY DEF LayoutInv
<1> USE LayoutAssumption
<1>1. /\ LayoutTypeOK /\ at \in [Proc -> Checking \cup Installing \cup {"idle", "using"}]
      /\ bomify[p] \in 1..Newest /\ target[p] \in 0..Newest
      /\ version \in 0..Newest /\ level \in 0..Spoilt /\ overlaps \in Nat
      /\ half \in BOOLEAN
  BY DEF Inv, TypeOK, LayoutTypeOK, InstallTypeOK
<1>2. InTurn /\ (at[p] # "idle" \/ \A q \in Proc : at[q] = "idle")
  <2>1. ASSUME NEW v \in 1..Newest, Open(p, v)
        PROVE  InTurn /\ \A q \in Proc : at[q] = "idle"
    BY <1>1, <2>1 DEF Open, InTurn
  <2>2. ASSUME UNCHANGED overlaps, ~ \E v \in 1..Newest : Open(p, v)
        PROVE  InTurn /\ at[p] # "idle"
    BY <2>2 DEF InTurn, CheckVersion, ReadVersion, CheckEmpty, BeginMigration, EndMigration,
                WriteTemp, RenameTemp, CheckFails, CrashChecking, Use, Checking
  <2> QED
    BY <2>1, <2>2 DEF CheckVersion
<1>3. Level /\ Knows(p)
  BY <1>2 DEF LayoutInv
<1>4. Solo' /\ \A q \in Proc \ {p} : Knows(q)'
  BY <1>2, Checks, SoloStep, KnowsIdle
<1>5. ASSUME Leave(p) PROVE Knows(p)'
  BY <1>1, <1>5, KnowsIdle DEF Leave
<1>6. UNCHANGED directory => Level'
  BY <1>3 DEF Level, directory
<1>7. ASSUME NEW l \in Checking \cup {"using"}, Goto(p, l)
      PROVE  at'[p] = l /\ bomify'[p] = bomify[p]
  BY <1>1, <1>7 DEF Goto
<1>8. ASSUME NEW v \in 1..Newest, Continue(p, v), version' = v, v <= bomify[p]
      PROVE  Knows(p)'
  <2>1. CASE v < bomify[p]
    <3>1. target'[p] = v + 1 /\ at'[p] = "migrate" /\ bomify'[p] = bomify[p]
      BY <1>1, <1>7, <1>8, <2>1 DEF Continue, LayoutTypeOK, Checking
    <3> QED
      BY <1>1, <1>8, <2>1, <3>1 DEF Knows, Working, Checking
  <2>2. CASE ~(v < bomify[p])
    <3>1. at'[p] = "using" /\ bomify'[p] = bomify[p]
      BY <1>7, <1>8, <2>2 DEF Continue
    <3> QED
      BY <1>1, <1>8, <2>2, <3>1 DEF Knows, Working, Checking
  <2> QED
    BY <2>1, <2>2
<1>9. ASSUME NEW v \in 1..Newest, Open(p, v) PROVE Level' /\ Knows(p)'
  <2>1. at'[p] = "read_version"
    BY <1>1, <1>9 DEF Open
  <2> QED
    BY <1>6, <1>9, <2>1 DEF Open, Knows, Working, Checking
<1>10. ASSUME ReadVersion(p) PROVE Level' /\ Knows(p)'
  <2>1. Level' /\ version' = version
    BY <1>6, <1>10 DEF ReadVersion, directory
  <2>2. CASE version = 0
    BY <1>7, <1>10, <2>1, <2>2 DEF ReadVersion, Knows, Working, Checking
  <2>3. CASE version # 0 /\ version > bomify[p]
    BY <1>5, <1>10, <2>1, <2>3 DEF ReadVersion
  <2>4. CASE version # 0 /\ ~(version > bomify[p])
    BY <1>1, <1>8, <1>10, <2>1, <2>4 DEF ReadVersion
  <2> QED
    BY <2>1, <2>2, <2>3, <2>4
<1>11. ASSUME CheckEmpty(p) PROVE Level' /\ Knows(p)'
  <2>1. Level' /\ UNCHANGED directory /\ version = 0
    BY <1>3, <1>6, <1>11 DEF CheckEmpty, Knows
  <2>2. CASE content \/ temps # {} \/ debris
    BY <1>5, <1>11, <2>1, <2>2 DEF CheckEmpty
  <2>3. CASE ~(content \/ temps # {} \/ debris)
    <3>1. at'[p] = "write_temp" /\ target'[p] = bomify[p] /\ bomify'[p] = bomify[p]
      BY <1>1, <1>7, <1>11, <2>3 DEF CheckEmpty, LayoutTypeOK, Checking
    <3> QED
      BY <1>3, <2>1, <3>1 DEF Knows, Level, directory, Working, Checking
  <2> QED
    BY <2>1, <2>2, <2>3
<1>12. ASSUME BeginMigration(p) PROVE Level' /\ Knows(p)'
  <2>1. /\ at'[p] = "migrated" /\ bomify'[p] = bomify[p] /\ target' = target
        /\ version' = version /\ level' = level /\ half' = TRUE
    BY <1>7, <1>12 DEF BeginMigration, Checking
  <2>2. version # 0 /\ target[p] = version + 1 /\ target[p] <= bomify[p]
    BY <1>3, <1>12 DEF BeginMigration, Knows
  <2>3. Level'
    BY <1>1, <1>3, <2>1, <2>2 DEF Level
  <2>4. Knows(p)'
    BY <2>1, <2>2 DEF Knows, Working, Checking
  <2> QED
    BY <2>3, <2>4
<1>13. ASSUME EndMigration(p) PROVE Level' /\ Knows(p)'
  <2>1. /\ at'[p] = "write_temp" /\ bomify'[p] = bomify[p] /\ target' = target
        /\ version' = version /\ half' = FALSE
    BY <1>7, <1>13 DEF EndMigration, Checking
  <2>2. version # 0 /\ target[p] = version + 1 /\ target[p] <= bomify[p]
    BY <1>3, <1>13 DEF EndMigration, Knows
  <2>3. level' = target[p]
    BY <1>1, <1>3, <1>13, <2>2 DEF EndMigration, Level
  <2>4. Level'
    BY <1>1, <2>1, <2>2, <2>3 DEF Level, Spoilt
  <2>5. Knows(p)'
    BY <2>1, <2>2, <2>3 DEF Knows, Working, Checking
  <2> QED
    BY <2>4, <2>5
<1>14. ASSUME WriteTemp(p) PROVE Level' /\ Knows(p)'
  <2>1. /\ at'[p] = "rename" /\ bomify'[p] = bomify[p]
        /\ UNCHANGED <<target, version, level, half>>
    BY <1>7, <1>14 DEF WriteTemp, Checking
  <2> QED
    BY <1>3, <1>14, <2>1 DEF WriteTemp, Level, Knows, Working, Checking
<1>15. ASSUME RenameTemp(p) PROVE Level' /\ Knows(p)'
  <2>1. /\ target[p] \in 1..Newest /\ target[p] <= bomify[p]
        /\ ~half /\ level \in {0, target[p]}
    BY <1>1, <1>3, <1>15 DEF RenameTemp, Knows
  <2>2. Knows(p)'
    BY <1>8, <1>15, <2>1 DEF RenameTemp
  <2>3. Level'
    BY <1>1, <1>15, <2>1 DEF RenameTemp, Level, Spoilt
  <2> QED
    BY <2>2, <2>3
<1>16. ASSUME CheckFails(p) \/ CrashChecking(p) \/ Use(p) PROVE Level' /\ Knows(p)'
  <2>1. UNCHANGED <<version, level, half>> /\ Leave(p)
    BY <1>16 DEF CheckFails, CrashChecking, Use
  <2> QED
    BY <1>3, <1>5, <2>1 DEF Level
<1>17. Level' /\ Knows(p)'
  BY <1>9, <1>10, <1>11, <1>12, <1>13, <1>14, <1>15, <1>16 DEF CheckVersion
<1> QED
  BY <1>4, <1>17

\* In turn, an install is alone with the directory it has opened.
LEMMA InstallAlone ==
    ASSUME Inv, LayoutInv, InTurn', NEW p \in Proc,
           (\E j \in Jobs : Choose(p, j)) \/ (Install(p) /\ UNCHANGED content),
           UNCHANGED <<version, level, half, temps, debris, overlaps, retags>>
    PROVE  /\ Solo' /\ Level' /\ \A q \in Proc : Knows(q)'
           /\ \A q \in Proc \ {p} : at[q] = "idle" /\ at'[q] = "idle"
<1>1. /\ at \in [Proc -> Checking \cup Installing \cup {"idle", "using"}]
      /\ bomify \in [Proc -> 1..Newest]
  BY DEF Inv, TypeOK, LayoutTypeOK, InstallTypeOK
<1>2. InTurn /\ at[p] \in Installing \cup {"using"}
  BY DEF InTurn, Choose, Install, Resolve, Verify, Fetch, ReadIndex, Place, WriteIndex, Stop,
         Installing
<1>3. Solo' /\ \A q \in Proc \ {p} : at[q] = "idle" /\ at'[q] = "idle"
  BY <1>2, Installs, SoloStep DEF Installing
<1>4. \A q \in Proc \ {p} : Knows(q)'
  BY <1>3, KnowsIdle
<1>5. Level /\ version = bomify[p]
  BY <1>2 DEF LayoutInv, Knows, Working, Checking, Installing
<1>6. Level'
  BY <1>5 DEF Level
<1>7. at'[p] = "idle" \/ (at'[p] \in Installing /\ bomify' = bomify)
  <2>1. ASSUME NEW l \in Installing, Proceed(p, l)
        PROVE  at'[p] \in Installing /\ bomify' = bomify
    BY <1>1, <2>1 DEF Proceed, Goto
  <2>2. ASSUME Close(p) PROVE at'[p] = "idle"
    BY <1>1, <2>2 DEF Close, Leave
  <2>3. Close(p) \/ \E l \in Installing : Proceed(p, l)
    BY DEF Choose, Install, Resolve, Verify, Fetch, ReadIndex, Place, WriteIndex, Stop, Installing
  <2> QED
    BY <2>1, <2>2, <2>3
<1>8. Knows(p)'
  BY <1>5, <1>7 DEF Knows, Working, Checking, Installing
<1> QED
  BY <1>3, <1>4, <1>6, <1>8

LEMMA InitLayoutInv == Init => LayoutInv
<1> SUFFICES ASSUME Init PROVE Solo /\ Level /\ \A p \in Proc : Knows(p)
  BY DEF LayoutInv
<1> USE LayoutAssumption
<1>1. /\ \A p \in Proc : at[p] = "idle"
      /\ level = version /\ version \in 0..Newest /\ half = FALSE
  BY DEF Init, LayoutInit
<1>2. Level
  BY <1>1 DEF Level, Spoilt
<1>3. \A p \in Proc : Knows(p)
  BY <1>1 DEF Knows, Working, Checking
<1> QED
  BY <1>1, <1>2, <1>3 DEF Solo

LEMMA LayoutInvStep == Inv /\ LayoutInv /\ [Next]_vars => LayoutInv'
<1> SUFFICES ASSUME Inv, LayoutInv, [Next]_vars PROVE LayoutInv'
  OBVIOUS
<1>1. ASSUME NEW p \in Proc,
             (\E j \in Jobs : Choose(p, j)) \/ (Install(p) /\ UNCHANGED content),
             UNCHANGED <<version, level, half, temps, debris, overlaps, retags>>
      PROVE  LayoutInv'
  BY <1>1, InstallAlone DEF LayoutInv
<1>2. ASSUME UNCHANGED layoutVars PROVE LayoutInv'
  BY <1>2 DEF layoutVars, directory, LayoutInv, InTurn, Solo, Level, Knows, Working
<1>3. ASSUME NEW t \in Tag, NEW k \in Package, Retag(t, k) PROVE LayoutInv'
  BY <1>2, <1>3 DEF Retag
<1>4. CASE UNCHANGED vars
  BY <1>2, <1>4 DEF vars
<1> QED
  BY <1>1, <1>3, <1>4, Steps, LayoutStep

\* Wherever commands that run one after another stop, no migration is skipped or
\* run on data that is past it, and the newest bomify only works on data that is
\* migrated in full (checkVersion).
THEOREM MigrationsAlwaysResume == Spec => []MigrationsResume
<1>1. Inv /\ LayoutInv => MigrationsResume
  <2> SUFFICES ASSUME Inv, LayoutInv, InTurn
               PROVE  /\ level \in {version, version + 1} \ {Spoilt}
                      /\ half => version < Newest
                      /\ \A p \in Proc : Working(p) =>
                          /\ version = bomify[p]
                          /\ bomify[p] = Newest => level = Newest /\ ~half
    BY DEF MigrationsResume
  <2>1. Level /\ \A p \in Proc : Working(p) => version = bomify[p]
    BY DEF LayoutInv, Knows
  <2>2. version = Newest => level = Newest /\ ~half
    BY <2>1, LayoutAssumption DEF Level, Spoilt
  <2> QED
    BY <2>1, <2>2 DEF Level
<1> QED
  BY <1>1, InitInv, InvStep, InitLayoutInv, LayoutInvStep, PTL DEF Spec

-----------------------------------------------------------------------------
(* The record of what is installed.                                        *)

Match ==
    \A b \in Kind : bin[b] # None /\ b \notin torn =>
        index[b] # None /\ index[b].sha256 = bin[b]

\* The kinds whose binaries process p has renamed into place.
Replaced(p) == {c.kind : c \in Candidates(package[p]) \ staged[p]}

\* What it is to write is the record of those, and of the rest what was there.
Writes(p) ==
    /\ at[p] \in {"place", "write_index"} => \A b \in Kind :
           IF b \in Replaced(p) THEN records[p][b] # None /\ records[p][b].sha256 = bin[b]
           ELSE records[p][b] = index[b]
    /\ at[p] = "read_index" => staged[p] = Candidates(package[p])
    /\ at[p] = "write_index" => staged[p] = {}

RecordsInv == InTurn => Match /\ \A p \in Proc : Writes(p)

LEMMA InstallRecords ==
    ASSUME Inv, LayoutInv, RecordsInv, InTurn', NEW p \in Proc,
           (\E j \in Jobs : Choose(p, j)) \/ (Install(p) /\ UNCHANGED content),
           UNCHANGED <<version, level, half, temps, debris, overlaps, retags>>
    PROVE  Match' /\ \A q \in Proc : Writes(q)'
<1> USE InstallAssumption
<1>1. InstallTypeOK /\ Relies(p)
  BY DEF Inv, TypeOK
<1>2. InTurn
  BY DEF InTurn
<1>3. Match /\ Writes(p)
  BY <1>2 DEF RecordsInv
<1>4. \A q \in Proc \ {p} : Writes(q)'
  BY InstallAlone DEF Writes
<1>5. ASSUME Leave(p) PROVE Writes(p)'
  BY <1>1, <1>5 DEF Leave, Writes, InstallTypeOK
<1>6. ASSUME NEW l \in Installing, Proceed(p, l) PROVE at'[p] = l
  BY <1>1, <1>6 DEF Proceed, Goto, InstallTypeOK, Installing
<1>7. UNCHANGED installed => Match'
  BY <1>3 DEF Match, installed
<1>8. ASSUME NEW j \in Jobs, Choose(p, j) PROVE Match' /\ Writes(p)'
  BY <1>5, <1>6, <1>7, <1>8 DEF Choose, Close, Writes, Installing
<1>9. ASSUME Resolve(p) \/ Verify(p) \/ Stop(p) PROVE Match' /\ Writes(p)'
  BY <1>5, <1>6, <1>7, <1>9 DEF Resolve, Verify, Stop, Close, Writes, Installing
<1>10. ASSUME Fetch(p) PROVE Match' /\ Writes(p)'
  <2>1. Match'
    BY <1>7, <1>10 DEF Fetch
  <2>2. CASE Sound(package[p], job[p].verify)
    <3>1. at'[p] = "read_index" /\ staged'[p] = Candidates(package[p]) /\ package' = package
      BY <1>1, <1>6, <1>10, <2>2 DEF Fetch, InstallTypeOK, Installing
    <3> QED
      BY <2>1, <3>1 DEF Writes
  <2>3. CASE ~Sound(package[p], job[p].verify)
    BY <1>5, <1>10, <2>1, <2>3 DEF Fetch, Close
  <2> QED
    BY <2>2, <2>3
<1>11. ASSUME ReadIndex(p) PROVE Match' /\ Writes(p)'
  <2>1. Match'
    BY <1>7, <1>11 DEF ReadIndex
  <2>2. at'[p] = "place" /\ records'[p] = index /\ UNCHANGED <<bin, index, staged, package>>
    BY <1>1, <1>6, <1>11 DEF ReadIndex, InstallTypeOK, Installing, installed
  <2>3. Replaced(p)' = {}
    BY <1>3, <1>11, <2>2 DEF ReadIndex, Writes, Replaced
  <2> QED
    BY <2>1, <2>2, <2>3 DEF Writes
<1>12. ASSUME NEW c \in staged[p], Place(p, c) PROVE Match' /\ Writes(p)'
  <2>1. /\ Sound(package[p], job[p].verify) /\ c \in Candidates(package[p])
        /\ package[p] \in Package /\ staged[p] \subseteq Candidates(package[p])
    BY <1>1, <1>12 DEF Place, Relies, Resolved, Installing
  <2>2. c.kind \in Kind /\ c.binary \in Binary
    BY <2>1 DEF Sound, Verified, Candidates, Part
  <2>3. /\ at[p] = "place" /\ UNCHANGED <<index, package>> /\ torn' = torn \cup {c.kind}
        /\ \A b \in Kind \ {c.kind} : bin'[b] = bin[b] /\ records'[p][b] = records[p][b]
        /\ bin'[c.kind] = c.binary
        /\ records'[p][c.kind] = [reference |-> job[p].ref, sha256 |-> c.binary]
        /\ staged'[p] = staged[p] \ {c}
    BY <1>1, <1>12, <2>2 DEF Place, InstallTypeOK
  <2>4. /\ at'[p] \in {"place", "write_index"}
        /\ at'[p] = "write_index" => staged'[p] = {}
    BY <1>6, <1>12, <2>3 DEF Place, Installing
  <2>5. Match'
    BY <1>3, <2>3 DEF Match
  <2>6. Replaced(p)' = Replaced(p) \cup {c.kind}
    BY <2>1, <2>3 DEF Replaced
  <2>7. [reference |-> job[p].ref, sha256 |-> c.binary] # None
    <3>1. job[p] \in Jobs
      BY <1>1, <1>12 DEF Place, Relies, Chosen, Installing
    <3>2. [reference |-> job[p].ref, sha256 |-> c.binary] \in Record
      BY <2>2, <3>1 DEF Record, JobType
    <3> QED
      BY <3>2
  <2>8. ASSUME NEW b \in Kind
        PROVE  IF b \in Replaced(p)' THEN records'[p][b] # None /\ records'[p][b].sha256 = bin'[b]
               ELSE records'[p][b] = index'[b]
    <3>1. CASE b = c.kind
      BY <2>3, <2>6, <2>7, <3>1
    <3>2. CASE b # c.kind
      BY <1>3, <2>3, <2>6, <3>2 DEF Writes
    <3> QED
      BY <3>1, <3>2
  <2>9. Writes(p)'
    BY <2>4, <2>8 DEF Writes
  <2> QED
    BY <2>5, <2>9
<1>13. ASSUME WriteIndex(p) PROVE Match' /\ Writes(p)'
  <2>1. /\ bin' = bin /\ index' = records[p]
        /\ torn' = torn \ {c.kind : c \in Candidates(package[p])}
        /\ Writes(p)'
    BY <1>5, <1>13 DEF WriteIndex, Close
  <2>2. Replaced(p) = {c.kind : c \in Candidates(package[p])}
    BY <1>3, <1>13 DEF WriteIndex, Writes, Replaced
  <2>3. \A b \in Kind :
           IF b \in Replaced(p) THEN records[p][b] # None /\ records[p][b].sha256 = bin[b]
           ELSE records[p][b] = index[b]
    BY <1>3, <1>13 DEF WriteIndex, Writes
  <2>4. Match'
    BY <1>3, <2>1, <2>2, <2>3 DEF Match
  <2> QED
    BY <2>1, <2>4
<1>14. Match' /\ Writes(p)'
  BY <1>8, <1>9, <1>10, <1>11, <1>12, <1>13 DEF Install
<1> QED
  BY <1>4, <1>14

LEMMA RecordsStep == Inv /\ LayoutInv /\ RecordsInv /\ [Next]_vars => RecordsInv'
<1> SUFFICES ASSUME Inv, LayoutInv, RecordsInv, [Next]_vars PROVE RecordsInv'
  OBVIOUS
<1>1. ASSUME NEW p \in Proc, CheckVersion(p), UNCHANGED installVars PROVE RecordsInv'
  <2> SUFFICES ASSUME InTurn' PROVE Match' /\ \A q \in Proc : Writes(q)'
    BY DEF RecordsInv
  <2>1. at'[p] \notin Installing /\ Others(p)
    BY <1>1, Checks
  <2>2. InTurn
    BY <1>1, LayoutAssumption
       DEF InTurn, CheckVersion, Open, Inv, TypeOK, LayoutTypeOK
  <2>3. Match'
    BY <1>1, <2>2 DEF RecordsInv, Match, installVars, installed
  <2>4. ASSUME NEW q \in Proc PROVE Writes(q)'
    BY <1>1, <2>1, <2>2
       DEF RecordsInv, Writes, Others, Installing, installVars, installed, mine, Replaced
  <2> QED
    BY <2>3, <2>4
<1>2. ASSUME NEW p \in Proc,
             (\E j \in Jobs : Choose(p, j)) \/ (Install(p) /\ UNCHANGED content),
             UNCHANGED <<version, level, half, temps, debris, overlaps, retags>>
      PROVE  RecordsInv'
  BY <1>2, InstallRecords DEF RecordsInv
<1>3. ASSUME UNCHANGED <<layoutVars, installed, mine>> PROVE RecordsInv'
  BY <1>3 DEF layoutVars, installed, mine, RecordsInv, InTurn, Match, Writes, Replaced
<1>4. ASSUME NEW t \in Tag, NEW k \in Package, Retag(t, k) PROVE RecordsInv'
  BY <1>3, <1>4 DEF Retag
<1>5. CASE UNCHANGED vars
  BY <1>3, <1>5 DEF vars, installVars
<1> QED
  BY <1>1, <1>2, <1>4, <1>5, Steps

\* In turn, the record tells what is in place, but for what an install replaced
\* that stopped before it could record it (Install, List).
THEOREM RecordsAlwaysTell == Spec => []RecordsTell
<1>1. RecordsInv => RecordsTell
  BY DEF RecordsInv, Match, RecordsTell, RecordsMatch, Listed
<1>2. Init => RecordsInv
  BY DEF Init, LayoutInit, RecordsInv, Match, Writes
<1> QED
  BY <1>1, <1>2, InitInv, InvStep, InitLayoutInv, LayoutInvStep, RecordsStep, PTL DEF Spec

=============================================================================

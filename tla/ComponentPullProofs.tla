------------------------- MODULE ComponentPullProofs -------------------------
(***************************************************************************)
(* What TLAPS proves of ComponentPull, for any number of workers,          *)
(* processes, files and contents.                                          *)
(***************************************************************************)
EXTENDS ComponentPull, TLAPS

(***************************************************************************)
(* Type correctness.  The steps that write a hash or a directory need a    *)
(* word each; every other step follows from its definition.                *)
(***************************************************************************)

\* The values of every variable stay of their types, in every fault mode.
THEOREM TypeCorrect == Spec => []TypeOK
<1>1. Init => TypeOK
  BY ConstantsAssumption DEF Init, TypeOK, Labels, PlanType
<1>2. TypeOK /\ [Next]_vars => TypeOK'
  <2> SUFFICES ASSUME TypeOK, [Next]_vars
               PROVE  TypeOK'
    OBVIOUS
  <2>0. plan' = plan /\ plan \in PlanType
    BY ConstantsAssumption DEF Next, vars, TypeOK
  <2> USE <2>0, ConstantsAssumption
      DEF TypeOK, Labels, Goto, disk, local, Finished, PlanType
  <2>1. ASSUME NEW w \in Worker, NEW d \in plan.declared, Call(w, d)
        PROVE  TypeOK'
    BY <2>1 DEF Call
  <2>2. ASSUME NEW w \in Worker, CheckPID(w)
        PROVE  TypeOK'
    BY <2>2 DEF CheckPID, ReadPID
  <2>3. ASSUME NEW w \in Worker, WaitForPIDFile(w) \/ ProbeOwner(w)
        PROVE  TypeOK'
    BY <2>3 DEF WaitForPIDFile, ProbeOwner
  <2>4. ASSUME NEW w \in Worker, RemoveStalePID(w)
        PROVE  TypeOK'
    BY <2>4 DEF RemoveStalePID
  <2>5. ASSUME NEW w \in Worker, CheckManifest(w)
        PROVE  TypeOK'
    <3>1. manifest # NoManifest => manifest.hash \in Hash \cup {None}
      BY DEF Manifests
    <3>2. QED
      BY <2>5, <3>1 DEF CheckManifest, Return
  <2>6. ASSUME NEW w \in Worker, ClaimPIDFile(w)
        PROVE  TypeOK'
    BY <2>6 DEF ClaimPIDFile
  <2>7. ASSUME NEW w \in Worker, WritePID(w)
        PROVE  TypeOK'
    BY <2>7 DEF WritePID
  <2>8. ASSUME NEW w \in Worker, WritePIDFails(w)
        PROVE  TypeOK'
    BY <2>8 DEF WritePIDFails, Return
  <2>9. ASSUME NEW w \in Worker, ClearDir(w)
        PROVE  TypeOK'
    BY <2>9 DEF ClearDir
  <2>10. ASSUME NEW w \in Worker, NEW c \in plan.upstream, MakeDir(w, c)
         PROVE  TypeOK'
    BY <2>10 DEF MakeDir, EmptyDir, Dirs
  <2>11. ASSUME NEW w \in Worker, NEW f \in File, FetchFile(w, f)
         PROVE  TypeOK'
    BY <2>11 DEF FetchFile, Dirs
  <2>12. ASSUME NEW w \in Worker, FetchFails(w)
         PROVE  TypeOK'
    BY <2>12 DEF FetchFails
  <2>13. ASSUME NEW w \in Worker, VerifyFetched(w)
         PROVE  TypeOK'
    BY <2>13 DEF VerifyFetched
  <2>14. ASSUME NEW w \in Worker, WriteManifest(w)
         PROVE  TypeOK'
    <3>1. ResultHash(content[w]) \in Hash \cup {None}
      BY DEF ResultHash
    <3>2. MergeHash(declared[w], ResultHash(content[w])) \in Hash \cup {None}
      BY <3>1 DEF MergeHash
    <3>3. manifest' \in Manifests
      BY <2>14, <3>2 DEF WriteManifest, Manifests
    <3>4. QED
      BY <2>14, <3>1, <3>3 DEF WriteManifest, Return
  <2>15. ASSUME NEW w \in Worker, WriteManifestFails(w)
         PROVE  TypeOK'
    BY <2>15 DEF WriteManifestFails
  <2>16. ASSUME NEW w \in Worker, RemoveDir(w)
         PROVE  TypeOK'
    BY <2>16 DEF RemoveDir, Return
  <2>17. ASSUME NEW w \in Worker, Release(w)
         PROVE  TypeOK'
    BY <2>17 DEF Release
  <2>18. ASSUME NEW p \in Proc, NEW survives \in BOOLEAN, Crash(p, survives)
         PROVE  TypeOK'
    BY <2>18 DEF Crash
  <2>19. ASSUME NEW p \in Proc, ReusePID(p)
         PROVE  TypeOK'
    BY <2>19 DEF ReusePID
  <2>20. CASE UNCHANGED vars
    BY <2>20 DEF vars
  <2>21. ASSUME NEW w \in Worker, NEW f \in File, OrphanWrites(w, f)
         PROVE  TypeOK'
    BY <2>21 DEF OrphanWrites, Dirs
  <2>22. QED
    BY <2>1, <2>2, <2>3, <2>4, <2>5, <2>6, <2>7, <2>8, <2>9, <2>10, <2>11,
       <2>12, <2>13, <2>14, <2>15, <2>16, <2>17, <2>18, <2>19, <2>20, <2>21
       DEF Next, Step, Fault
<1>3. QED
  BY <1>1, <1>2, PTL DEF Spec

-----------------------------------------------------------------------------
(***************************************************************************)
(* Without crashes: no process ends while another may have read its pid.   *)
(* No pid file is ever stale then, so nobody removes another worker's      *)
(* claim: the file a holder created is there until that holder removes it. *)
(* FetchProgress is what makes FetchedIntact inductive: the files a plugin *)
(* is done with hold what it fetched.                                      *)
(***************************************************************************)

NoCrashes == \A q \in Plans : "crash" \notin q.faults

FetchProgress ==
    \A w \in Worker : pc[w] = "fetch" =>
        /\ dir # None
        /\ \A f \in File \ todo[w] : dir[f] = content[w]

ClaimHeld == \A w \in Worker : pc[w] \in Holding => claim = w

NeverStale ==
    /\ \A p \in Proc : alive[p]
    /\ \A w \in Worker : pc[w] \notin {"crashed", "remove_stale"}
    /\ \A w \in Worker : pc[w] = "probe" => seen[w] # None
    /\ \A w \in Worker : pc[w] # "fetch" => todo[w] = {}

NoCrashInv == NeverStale /\ ClaimHeld /\ FetchProgress /\ FetchedIntact

LEMMA NoCrashInit == Init => NoCrashInv
BY ConstantsAssumption
   DEF Init, NoCrashInv, NeverStale, ClaimHeld, FetchProgress, FetchedIntact, Holding

\* What one step leaves of the three parts that speak of every worker: a step
\* of w moves only w, and only a holder of the claim touches the directory.
LEMMA NoCrashStep ==
    ASSUME NoCrashes, TypeOK, TypeOK', NoCrashInv, Next
    PROVE  NoCrashInv'
<1>0. plan' = plan /\ plan \in PlanType
  BY ConstantsAssumption DEF Next, TypeOK
<1> USE <1>0, ConstantsAssumption
    DEF TypeOK, Labels, Goto, disk, local, PlanType, NoCrashInv, NeverStale, ClaimHeld,
        FetchProgress, FetchedIntact, Holding, NoCrashes
<1>1. ASSUME NEW w \in Worker, NEW d \in plan.declared, Call(w, d)
      PROVE  NoCrashInv'
  BY <1>1 DEF Call
<1>2. ASSUME NEW w \in Worker, CheckPID(w)
      PROVE  NoCrashInv'
  BY <1>2 DEF CheckPID, ReadPID, ProcessAlive
<1>3. ASSUME NEW w \in Worker, WaitForPIDFile(w) \/ ProbeOwner(w)
      PROVE  NoCrashInv'
  BY <1>3 DEF WaitForPIDFile, ProbeOwner, ProcessAlive
<1>4. ASSUME NEW w \in Worker, RemoveStalePID(w)
      PROVE  NoCrashInv'
  BY <1>4 DEF RemoveStalePID
<1>5. ASSUME NEW w \in Worker, CheckManifest(w)
      PROVE  NoCrashInv'
  BY <1>5 DEF CheckManifest, Return
<1>6. ASSUME NEW w \in Worker, ClaimPIDFile(w)
      PROVE  NoCrashInv'
  BY <1>6 DEF ClaimPIDFile
<1>7. ASSUME NEW w \in Worker, WritePID(w)
      PROVE  NoCrashInv'
  BY <1>7 DEF WritePID
<1>8. ASSUME NEW w \in Worker, WritePIDFails(w)
      PROVE  NoCrashInv'
  BY <1>8 DEF WritePIDFails, Return
<1>9. ASSUME NEW w \in Worker, ClearDir(w)
      PROVE  NoCrashInv'
  BY <1>9 DEF ClearDir
<1>10. ASSUME NEW w \in Worker, NEW c \in plan.upstream, MakeDir(w, c)
       PROVE  NoCrashInv'
  <2>1. dir' # None
    BY <1>10 DEF MakeDir, EmptyDir
  <2>2. \A v \in Worker : pc[v] \in Holding => v = w
    BY <1>10 DEF MakeDir
  <2>3. FetchProgress'
    <3> SUFFICES ASSUME NEW v \in Worker, pc'[v] = "fetch"
                 PROVE  v = w
      BY <1>10, <2>1 DEF MakeDir
    <3>1. QED
      BY <1>10, <2>2 DEF MakeDir
  <2>4. FetchedIntact'
    BY <1>10, <2>2 DEF MakeDir
  <2>5. NeverStale' /\ ClaimHeld'
    BY <1>10 DEF MakeDir
  <2>6. QED
    BY <2>3, <2>4, <2>5
<1>11. ASSUME NEW w \in Worker, NEW f \in File, FetchFile(w, f)
       PROVE  NoCrashInv'
  <2>1. \A v \in Worker : pc[v] \in Holding => v = w
    BY <1>11 DEF FetchFile
  <2>2. \A g \in File \ (todo[w] \ {f}) : dir'[g] = content[w]
    BY <1>11 DEF FetchFile, Dirs
  <2>3. dir' \in Dirs
    BY <1>11 DEF FetchFile, Dirs
  <2>4. pc'[w] = "verify" => dir' = Whole(content'[w])
    <3> SUFFICES ASSUME pc'[w] = "verify"
                 PROVE  dir' = Whole(content'[w])
      OBVIOUS
    <3>1. todo[w] = {f} /\ content' = content
      BY <1>11 DEF FetchFile
    <3>2. \A g \in File : dir'[g] = content[w]
      BY <2>2, <3>1
    <3>3. QED
      BY <2>3, <3>1, <3>2 DEF Dirs, Whole
  <2>5. FetchProgress'
    <3> SUFFICES ASSUME NEW v \in Worker, pc'[v] = "fetch"
                 PROVE  dir' # None /\ \A g \in File \ todo'[v] : dir'[g] = content'[v]
      OBVIOUS
    <3>1. v = w
      BY <1>11, <2>1 DEF FetchFile
    <3>2. dir' # None
      BY <2>3 DEF Dirs
    <3>3. QED
      BY <1>11, <2>2, <3>1, <3>2 DEF FetchFile
  <2>6. FetchedIntact'
    <3> SUFFICES ASSUME NEW v \in Worker, pc'[v] \in {"verify", "record"}
                 PROVE  dir' = Whole(content'[v])
      OBVIOUS
    <3>1. v = w /\ pc'[w] = "verify"
      BY <1>11, <2>1 DEF FetchFile
    <3>2. QED
      BY <2>4, <3>1
  <2>7. NeverStale' /\ ClaimHeld'
    BY <1>11 DEF FetchFile
  <2>8. QED
    BY <2>5, <2>6, <2>7
<1>12. ASSUME NEW w \in Worker, FetchFails(w)
       PROVE  NoCrashInv'
  BY <1>12 DEF FetchFails
<1>13. ASSUME NEW w \in Worker, VerifyFetched(w)
       PROVE  NoCrashInv'
  BY <1>13 DEF VerifyFetched
<1>14. ASSUME NEW w \in Worker, WriteManifest(w)
       PROVE  NoCrashInv'
  BY <1>14 DEF WriteManifest, Return
<1>15. ASSUME NEW w \in Worker, WriteManifestFails(w)
       PROVE  NoCrashInv'
  BY <1>15 DEF WriteManifestFails
<1>16. ASSUME NEW w \in Worker, RemoveDir(w)
       PROVE  NoCrashInv'
  BY <1>16 DEF RemoveDir, Return
<1>17. ASSUME NEW w \in Worker, Release(w)
       PROVE  NoCrashInv'
  BY <1>17 DEF Release
<1>18. ASSUME NEW p \in Proc, NEW survives \in BOOLEAN,
              Crash(p, survives) \/ ReusePID(p)
       PROVE  NoCrashInv'
  BY <1>18 DEF Crash, ReusePID
<1>19. ASSUME NEW w \in Worker, NEW f \in File, OrphanWrites(w, f)
       PROVE  NoCrashInv'
  BY <1>19 DEF OrphanWrites
<1>20. QED
  BY <1>1, <1>2, <1>3, <1>4, <1>5, <1>6, <1>7, <1>8, <1>9, <1>10, <1>11,
     <1>12, <1>13, <1>14, <1>15, <1>16, <1>17, <1>18, <1>19
     DEF Next, Step, Fault

LEMMA NoCrashInvariant ==
    ASSUME NoCrashes
    PROVE  Spec => []NoCrashInv
<1>1. TypeOK /\ TypeOK' /\ NoCrashInv /\ [Next]_vars => NoCrashInv'
  <2>1. CASE UNCHANGED vars
    BY <2>1 DEF vars, disk, local, NoCrashInv, NeverStale, ClaimHeld,
                FetchProgress, FetchedIntact
  <2>2. QED
    BY <2>1, NoCrashStep
<1>2. QED
  BY <1>1, NoCrashInit, TypeCorrect, PTL DEF Spec

\* While no process ends, whatever else fails and however calls interleave, only one worker at a time is between claiming the pid file and removing it.
THEOREM FetchersExclude ==
    ASSUME NoCrashes
    PROVE  Spec => []SingleFetcher
<1>1. NoCrashInv => SingleFetcher
  BY DEF NoCrashInv, ClaimHeld, SingleFetcher
<1>2. QED
  BY <1>1, NoCrashInvariant, PTL

\* ... and what its plugin wrote is still all there when it is verified.
THEOREM FetchesIntact ==
    ASSUME NoCrashes
    PROVE  Spec => []FetchedIntact
<1>1. NoCrashInv => FetchedIntact
  BY DEF NoCrashInv
<1>2. QED
  BY <1>1, NoCrashInvariant, PTL

-----------------------------------------------------------------------------
(***************************************************************************)
(* Results are verified, in every fault mode: what is about to be recorded *)
(* has passed verifyHash against the component of this call.               *)
(***************************************************************************)

RecordVerified ==
    \A w \in Worker :
        pc[w] = "record" => VerifyHash(declared[w], ResultHash(content[w]))

\* Whatever crashes, fails or interleaves, the hash a successful call returns
\* agrees with the one its own component declares.
THEOREM ResultsVerified == Spec => []ResultVerified
<1> DEFINE VInv == RecordVerified /\ ResultVerified
<1>1. Init => VInv
  BY DEF Init, RecordVerified, ResultVerified, Finished
<1>2. TypeOK /\ VInv /\ [Next]_vars => VInv'
  <2> SUFFICES ASSUME TypeOK, VInv, [Next]_vars
               PROVE  VInv'
    OBVIOUS
  <2>0. plan' = plan /\ plan \in PlanType
    BY ConstantsAssumption DEF Next, vars, TypeOK
  <2> USE <2>0, ConstantsAssumption
      DEF PlanType, TypeOK, Goto, disk, local, RecordVerified, ResultVerified, Finished
  <2>1. ASSUME NEW w \in Worker, NEW d \in plan.declared, Call(w, d)
        PROVE  VInv'
    BY <2>1 DEF Call, Labels
  <2>2. ASSUME NEW w \in Worker, CheckManifest(w)
        PROVE  VInv'
    BY <2>2 DEF CheckManifest, Return, Labels
  <2>3. ASSUME NEW w \in Worker, NEW c \in plan.upstream, MakeDir(w, c)
        PROVE  VInv'
    BY <2>3 DEF MakeDir, Labels
  <2>4. ASSUME NEW w \in Worker, VerifyFetched(w)
        PROVE  VInv'
    BY <2>4 DEF VerifyFetched, Labels
  <2>5. ASSUME NEW w \in Worker, WriteManifest(w)
        PROVE  VInv'
    BY <2>5 DEF WriteManifest, Return, Labels
  <2>6. ASSUME NEW w \in Worker, WritePIDFails(w) \/ RemoveDir(w)
        PROVE  VInv'
    BY <2>6 DEF WritePIDFails, RemoveDir, Return, Labels
  <2>7. ASSUME NEW w \in Worker, NEW f \in File, FetchFile(w, f)
        PROVE  VInv'
    BY <2>7 DEF FetchFile, Labels
  <2>8. ASSUME NEW w \in Worker, CheckPID(w) \/ ClaimPIDFile(w)
        PROVE  VInv'
    BY <2>8 DEF CheckPID, ClaimPIDFile, Labels
  <2>9. ASSUME NEW w \in Worker,
               \/ ProbeOwner(w) \/ WaitForPIDFile(w) \/ RemoveStalePID(w) \/ WritePID(w)
               \/ ClearDir(w) \/ FetchFails(w) \/ WriteManifestFails(w) \/ Release(w)
               \/ \E f \in File : OrphanWrites(w, f)
        PROVE  VInv'
    BY <2>9 DEF ProbeOwner, OrphanWrites, WaitForPIDFile, RemoveStalePID, WritePID, ClearDir, FetchFails,
                WriteManifestFails, Release, Labels
  <2>10. ASSUME NEW p \in Proc, NEW survives \in BOOLEAN,
                Crash(p, survives) \/ ReusePID(p)
         PROVE  VInv'
    BY <2>10 DEF Crash, ReusePID, Labels
  <2>11. CASE UNCHANGED vars
    BY <2>11 DEF vars
  <2>12. QED
    BY <2>1, <2>2, <2>3, <2>4, <2>5, <2>6, <2>7, <2>8, <2>9, <2>10, <2>11
       DEF Next, Step, Fault
<1>3. VInv => ResultVerified
  OBVIOUS
<1>4. QED
  BY <1>1, <1>2, <1>3, TypeCorrect, PTL DEF Spec

-----------------------------------------------------------------------------
(***************************************************************************)
(* A live pid file means a pull in flight, as long as pids are not reused: *)
(* the pid in the file is its creator's, who either still holds it or died *)
(* with its process.                                                       *)
(***************************************************************************)

NoPIDReuse == "pid_reuse" \notin plan.faults

ClaimNamesHolder ==
    /\ \A w \in Worker : pc[w] = "crashed" => ~alive[ProcOf[w]]
    /\ \A w \in Worker : pc[w] = "write_pid" /\ claim = w => claimPid = None
    /\ claim # None /\ claimPid # None =>
          claimPid = ProcOf[claim] /\ pc[claim] \in Holding \cup {"crashed"}

\* Through crashes, failed claims and overlapping calls: a pid file whose pid
\* names a running process is that of a worker of it still inside pull().
THEOREM LivePIDsInFlight == Spec => []LiveMeansInFlight
<1> DEFINE NamesHolder == NoPIDReuse => ClaimNamesHolder
<1>1. Init => NamesHolder
  BY DEF Init, ClaimNamesHolder
<1>2. TypeOK /\ NamesHolder /\ [Next]_vars => NamesHolder'
  <2>0. TypeOK /\ [Next]_vars => plan' = plan /\ plan \in PlanType
    BY ConstantsAssumption DEF Next, vars, TypeOK
  <2> SUFFICES ASSUME TypeOK, NoPIDReuse, ClaimNamesHolder, [Next]_vars
               PROVE  ClaimNamesHolder'
    BY <2>0 DEF NoPIDReuse
  <2> USE <2>0, ConstantsAssumption
      DEF PlanType, TypeOK, Labels, Goto, disk, local, ClaimNamesHolder, Holding,
          NoPIDReuse
  <2>1. ASSUME NEW w \in Worker, NEW d \in plan.declared, Call(w, d)
        PROVE  ClaimNamesHolder'
    BY <2>1 DEF Call
  <2>2. ASSUME NEW w \in Worker,
               CheckPID(w) \/ ProbeOwner(w) \/ WaitForPIDFile(w) \/ CheckManifest(w)
        PROVE  ClaimNamesHolder'
    BY <2>2 DEF CheckPID, ProbeOwner, WaitForPIDFile, CheckManifest
  <2>3. ASSUME NEW w \in Worker, RemoveStalePID(w) \/ Release(w)
        PROVE  ClaimNamesHolder'
    BY <2>3 DEF RemoveStalePID, Release
  <2>4. ASSUME NEW w \in Worker, ClaimPIDFile(w)
        PROVE  ClaimNamesHolder'
    BY <2>4 DEF ClaimPIDFile
  <2>5. ASSUME NEW w \in Worker, WritePID(w)
        PROVE  ClaimNamesHolder'
    BY <2>5 DEF WritePID
  <2>6. ASSUME NEW w \in Worker, WritePIDFails(w)
        PROVE  ClaimNamesHolder'
    BY <2>6 DEF WritePIDFails, Return
  <2>7. ASSUME NEW w \in Worker, NEW c \in plan.upstream, MakeDir(w, c)
        PROVE  ClaimNamesHolder'
    BY <2>7 DEF MakeDir
  <2>8. ASSUME NEW w \in Worker, NEW f \in File, FetchFile(w, f) \/ OrphanWrites(w, f)
        PROVE  ClaimNamesHolder'
    BY <2>8 DEF FetchFile, OrphanWrites
  <2>9. ASSUME NEW w \in Worker,
               \/ ClearDir(w) \/ FetchFails(w) \/ VerifyFetched(w) \/ WriteManifest(w)
               \/ WriteManifestFails(w) \/ RemoveDir(w)
        PROVE  ClaimNamesHolder'
    BY <2>9 DEF ClearDir, FetchFails, VerifyFetched, WriteManifest,
                WriteManifestFails, RemoveDir, Return
  <2>10. ASSUME NEW p \in Proc, NEW survives \in BOOLEAN, Crash(p, survives)
         PROVE  ClaimNamesHolder'
    BY <2>10 DEF Crash
  <2>11. ASSUME NEW p \in Proc, ReusePID(p)
         PROVE  ClaimNamesHolder'
    BY <2>11 DEF ReusePID
  <2>12. CASE UNCHANGED vars
    BY <2>12 DEF vars
  <2>13. QED
    BY <2>1, <2>2, <2>3, <2>4, <2>5, <2>6, <2>7, <2>8, <2>9, <2>10, <2>11, <2>12
       DEF Next, Step, Fault
<1>3. TypeOK /\ NamesHolder => LiveMeansInFlight
  BY ConstantsAssumption
     DEF TypeOK, NoPIDReuse, ClaimNamesHolder, LiveMeansInFlight, LiveInFlight, PIDFileLive, ProcessAlive, ReadPID
<1>4. QED
  BY <1>1, <1>2, <1>3, TypeCorrect, PTL DEF Spec

-----------------------------------------------------------------------------
(***************************************************************************)
(* Refinement.  The holder of the flight is the creator of the pid file,   *)
(* the stored entry the manifest.                                          *)
(***************************************************************************)

NoFailedClaims == \A q \in Plans : "claim_write" \notin q.faults

HolderInv ==
    /\ claim # None => pc[claim] \in Holding
    /\ \A w \in Worker : pc[w] = "release" => outcome[w] # "none"

\* While no process crashes and no pid file is left half written, pull()
\* implements SingleFlight: each of its steps is a step of one flight or none.
THEOREM ImplementsSingleFlight ==
    ASSUME NoCrashes, NoFailedClaims
    PROVE  Spec => FlightSpec
<1>1. Init => HolderInv
  BY DEF Init, HolderInv
<1>2. TypeOK /\ NoCrashInv /\ HolderInv /\ [Next]_vars => HolderInv'
  <2> SUFFICES ASSUME TypeOK, NoCrashInv, HolderInv, [Next]_vars
               PROVE  HolderInv'
    OBVIOUS
  <2>0. plan' = plan /\ plan \in PlanType
    BY ConstantsAssumption DEF Next, vars, TypeOK
  <2> USE <2>0, ConstantsAssumption, NoCrashes, NoFailedClaims
      DEF PlanType, TypeOK, Labels, Goto, disk, local, HolderInv, Holding, NoCrashInv,
          NeverStale, ClaimHeld, NoCrashes, NoFailedClaims, Finished
  <2>1. ASSUME NEW w \in Worker, NEW d \in plan.declared, Call(w, d)
        PROVE  HolderInv'
    BY <2>1 DEF Call
  <2>2. ASSUME NEW w \in Worker,
               \/ CheckPID(w) \/ ProbeOwner(w) \/ WaitForPIDFile(w) \/ RemoveStalePID(w)
               \/ ClaimPIDFile(w)
               \/ WritePID(w) \/ WritePIDFails(w) \/ ClearDir(w) \/ FetchFails(w)
               \/ VerifyFetched(w) \/ WriteManifestFails(w) \/ Release(w)
        PROVE  HolderInv'
    BY <2>2 DEF CheckPID, ProbeOwner, WaitForPIDFile, RemoveStalePID, ClaimPIDFile, WritePID,
                WritePIDFails, ClearDir, FetchFails, VerifyFetched,
                WriteManifestFails, Release
  <2>3. ASSUME NEW w \in Worker,
               CheckManifest(w) \/ WriteManifest(w) \/ RemoveDir(w)
        PROVE  HolderInv'
    BY <2>3 DEF CheckManifest, WriteManifest, RemoveDir, Return
  <2>4. ASSUME NEW w \in Worker, NEW c \in plan.upstream, MakeDir(w, c)
        PROVE  HolderInv'
    BY <2>4 DEF MakeDir
  <2>5. ASSUME NEW w \in Worker, NEW f \in File, FetchFile(w, f) \/ OrphanWrites(w, f)
        PROVE  HolderInv'
    BY <2>5 DEF FetchFile, OrphanWrites
  <2>6. ASSUME NEW p \in Proc, NEW survives \in BOOLEAN,
               Crash(p, survives) \/ ReusePID(p)
        PROVE  HolderInv'
    BY <2>6 DEF Crash, ReusePID
  <2>7. CASE UNCHANGED vars
    BY <2>7 DEF vars
  <2>8. QED
    BY <2>1, <2>2, <2>3, <2>4, <2>5, <2>6, <2>7 DEF Next, Step, Fault
<1>3. Init => Flight!Init
  BY ConstantsAssumption DEF Init, Flight!Init, Manifests, NoManifest
<1>4. TypeOK /\ TypeOK' /\ NoCrashInv /\ HolderInv /\ [Next]_vars
        => [Flight!Next]_(Flight!vars)
  <2> SUFFICES ASSUME TypeOK, TypeOK', NoCrashInv, HolderInv, [Next]_vars
               PROVE  Flight!Next \/ UNCHANGED <<claim, manifest, outcome>>
    BY DEF Flight!vars
  <2>0. plan' = plan /\ plan \in PlanType
    BY ConstantsAssumption DEF Next, vars, TypeOK
  <2> USE <2>0, ConstantsAssumption, NoCrashes, NoFailedClaims
      DEF PlanType, TypeOK, Labels, Goto, disk, local, HolderInv, Holding, NoCrashInv,
          NeverStale, ClaimHeld, NoCrashes, NoFailedClaims, Finished,
          Flight!Next, Flight!Ends
  <2>1. ASSUME NEW w \in Worker, NEW d \in plan.declared, Call(w, d)
        PROVE  Flight!Call(w)
    BY <2>1 DEF Call, Flight!Call
  <2>2. ASSUME NEW w \in Worker, CheckManifest(w), manifest # NoManifest
        PROVE  Flight!Share(w)
    BY <2>2 DEF CheckManifest, Return, Flight!Share
  <2>3. ASSUME NEW w \in Worker, ClaimPIDFile(w), claim = None
        PROVE  Flight!TakeOff(w)
    BY <2>3 DEF ClaimPIDFile, Flight!TakeOff
  <2>4. ASSUME NEW w \in Worker, WriteManifest(w)
        PROVE  Flight!Store(w)
    <3>1. manifest' \in Manifests
      BY <2>4 DEF WriteManifest, Manifests, MergeHash, ResultHash
    <3>2. QED
      BY <2>4, <3>1 DEF WriteManifest, Return, Flight!Store
  <2>5. ASSUME NEW w \in Worker, RemoveDir(w)
        PROVE  Flight!Abandon(w)
    BY <2>5 DEF RemoveDir, Return, Flight!Abandon
  <2>6. ASSUME NEW w \in Worker, Release(w)
        PROVE  Flight!Land(w)
    BY <2>6 DEF Release, Flight!Land
  <2>7. ASSUME NEW w \in Worker,
               \/ CheckPID(w) \/ ProbeOwner(w) \/ WaitForPIDFile(w) \/ RemoveStalePID(w)
               \/ CheckManifest(w) /\ manifest = NoManifest
               \/ ClaimPIDFile(w) /\ claim # None
               \/ WritePID(w) \/ WritePIDFails(w) \/ ClearDir(w)
               \/ FetchFails(w) \/ VerifyFetched(w) \/ WriteManifestFails(w)
        PROVE  UNCHANGED <<claim, manifest, outcome>>
    BY <2>7 DEF CheckPID, ProbeOwner, WaitForPIDFile, RemoveStalePID, CheckManifest,
                ClaimPIDFile, WritePID, WritePIDFails, ClearDir, FetchFails,
                VerifyFetched, WriteManifestFails
  <2>8. ASSUME NEW w \in Worker,
               \/ \E c \in plan.upstream : MakeDir(w, c)
               \/ \E f \in File : FetchFile(w, f) \/ OrphanWrites(w, f)
        PROVE  UNCHANGED <<claim, manifest, outcome>>
    BY <2>8 DEF MakeDir, FetchFile, OrphanWrites
  <2>9. ASSUME NEW p \in Proc, NEW survives \in BOOLEAN,
               Crash(p, survives) \/ ReusePID(p)
        PROVE  UNCHANGED <<claim, manifest, outcome>>
    BY <2>9 DEF Crash, ReusePID
  <2>10. CASE UNCHANGED vars
    BY <2>10 DEF vars
  <2>11. QED
    BY <2>1, <2>2, <2>3, <2>4, <2>5, <2>6, <2>7, <2>8, <2>9, <2>10
       DEF Next, Step, Fault
<1>5. QED
  BY <1>1, <1>2, <1>3, <1>4, TypeCorrect, NoCrashInvariant, PTL
     DEF Spec, FlightSpec, Flight!Spec

-----------------------------------------------------------------------------
(***************************************************************************)
(* Calls one after another that crash, and nothing else.  One worker is    *)
(* busy at most; a plugin writes only while its bomify is at "fetch"; and  *)
(* what is recorded is whole unless a pid in the pid file, of a worker at  *)
(* work or of one that crashed, says that it may not be.                   *)
(***************************************************************************)

Busy(w) == pc[w] \notin {"idle", "crashed"}

\* A worker between writing its pid and removing it.
Named(w) == pc[w] \in Holding \ {"write_pid"}

WholeDir == \E c \in plan.upstream : dir = Whole(c)

Recorded == manifest # NoManifest

\* How far a busy worker is.
Stands(w) ==
    /\ Busy(w) => declared[w] \in plan.declared
    /\ pc[w] = "check_manifest" => ReadPID = None
    /\ pc[w] = "claim" /\ Recorded => claim = None
    /\ pc[w] = "write_pid" => claim = w /\ claimPid = None
    /\ Named(w) => claim = w /\ claimPid = ProcOf[w]
    /\ pc[w] = "fetch" =>
          /\ content[w] \in plan.upstream
          /\ dir # None
          /\ \A f \in File \ todo[w] : dir[f] = content[w]
    /\ pc[w] \in {"verify", "record"} =>
          content[w] \in plan.upstream /\ dir = Whole(content[w])
    /\ pc[w] = "release" => WholeDir
    /\ pc[w] # "remove_dir"

TurnInv ==
    /\ \A v, w \in Worker : Busy(v) /\ Busy(w) => v = w
    /\ \A w \in Worker : pc[w] # "fetch" => todo[w] = {}
    /\ \A w \in Worker : Stands(w)
    /\ Recorded /\ ReadPID = None /\ (\A w \in Worker : ~Taking(w)) => WholeDir

LEMMA TurnStep ==
    ASSUME TypeOK, TypeOK', OnlyInterrupted, TurnInv, Next
    PROVE  TurnInv'
<1>0. plan' = plan /\ plan \in PlanType
  BY ConstantsAssumption DEF Next, TypeOK
<1>1. /\ \A d \in plan.declared, c \in plan.upstream : VerifyHash(d, ResultHash(c))
      /\ "fetch" \notin plan.faults /\ "write" \notin plan.faults
      /\ "claim_write" \notin plan.faults /\ "pid_reuse" \notin plan.faults
      /\ "taking" \notin plan.faults /\ "orphan" \notin plan.faults
      /\ ~plan.overlap
  BY DEF OnlyInterrupted
<1> USE <1>0, <1>1, ConstantsAssumption
    DEF TypeOK, Labels, Goto, disk, local, PlanType, TurnInv, Busy, Named, Stands, Holding,
        Taking, Recorded, ReadPID, WholeDir
<1>2. ASSUME NEW w \in Worker, NEW d \in plan.declared, Call(w, d)
      PROVE  TurnInv'
  BY <1>2 DEF Call
<1>3. ASSUME NEW w \in Worker,
             CheckPID(w) \/ ProbeOwner(w) \/ WaitForPIDFile(w) \/ RemoveStalePID(w)
      PROVE  TurnInv'
  BY <1>3 DEF CheckPID, ProbeOwner, WaitForPIDFile, RemoveStalePID
<1>4. ASSUME NEW w \in Worker, CheckManifest(w)
      PROVE  TurnInv'
  BY <1>4 DEF CheckManifest, Return
<1>5. ASSUME NEW w \in Worker, ClaimPIDFile(w) \/ WritePID(w)
      PROVE  TurnInv'
  <2>1. CASE ClaimPIDFile(w)
    <3>1. \A v \in Worker : Stands(v)'
      BY <2>1 DEF ClaimPIDFile
    <3>2. QED
      BY <2>1, <3>1 DEF ClaimPIDFile
  <2>2. CASE WritePID(w)
    <3>1. \A v \in Worker : Stands(v)'
      BY <2>2 DEF WritePID
    <3>2. QED
      BY <2>2, <3>1 DEF WritePID
  <2>3. QED
    BY <1>5, <2>1, <2>2
<1>6. ASSUME NEW w \in Worker, ClearDir(w)
      PROVE  TurnInv'
  BY <1>6 DEF ClearDir
<1>7. ASSUME NEW w \in Worker, NEW c \in plan.upstream, MakeDir(w, c)
      PROVE  TurnInv'
  BY <1>7 DEF MakeDir, EmptyDir
<1>8. ASSUME NEW w \in Worker, NEW f \in File, FetchFile(w, f)
      PROVE  TurnInv'
  <2>1. /\ content[w] \in plan.upstream /\ content' = content
        /\ \A v \in Worker : Busy(v) => v = w
        /\ pc[w] = "fetch" /\ dir' \in Dirs
    BY <1>8 DEF FetchFile, Dirs
  <2>2. \A g \in File \ todo'[w] : dir'[g] = content[w]
    BY <1>8 DEF FetchFile, Dirs
  <2>3. pc'[w] = "verify" => dir' = Whole(content[w])
    <3>1. pc'[w] = "verify" => todo'[w] = {}
      BY <1>8 DEF FetchFile
    <3>2. QED
      BY <2>1, <2>2, <3>1 DEF Dirs, Whole
  <2>4. dir' # None
    BY <2>1 DEF Dirs
  <2>5. \A v \in Worker : pc'[v] # "fetch" => todo'[v] = {}
    BY <1>8 DEF FetchFile
  <2>6. \A v \in Worker : Stands(v)'
    BY <1>8, <2>1, <2>2, <2>3, <2>4 DEF FetchFile
  <2>7. ReadPID' # None
    BY <1>8, <2>1 DEF FetchFile
  <2>8. QED
    BY <1>8, <2>5, <2>6, <2>7 DEF FetchFile
<1>9. ASSUME NEW w \in Worker, VerifyFetched(w)
      PROVE  TurnInv'
  <2>1. VerifyHash(declared[w], ResultHash(content[w]))
    BY <1>9 DEF VerifyFetched
  <2>2. QED
    BY <1>9, <2>1 DEF VerifyFetched
<1>10. ASSUME NEW w \in Worker, WriteManifest(w)
       PROVE  TurnInv'
  BY <1>10 DEF WriteManifest, Return
<1>11. ASSUME NEW w \in Worker, Release(w)
       PROVE  TurnInv'
  BY <1>11 DEF Release
<1>12. ASSUME NEW w \in Worker,
              \/ WritePIDFails(w) \/ WriteManifestFails(w) \/ FetchFails(w)
              \/ RemoveDir(w)
       PROVE  TurnInv'
  BY <1>12 DEF WritePIDFails, WriteManifestFails, FetchFails, RemoveDir
<1>13. ASSUME NEW p \in Proc, NEW survives \in BOOLEAN, Crash(p, survives)
       PROVE  TurnInv'
  BY <1>13 DEF Crash
<1>14. ASSUME NEW p \in Proc, ReusePID(p)
       PROVE  TurnInv'
  BY <1>14 DEF ReusePID
<1>15. ASSUME NEW w \in Worker, NEW f \in File, OrphanWrites(w, f)
       PROVE  TurnInv'
  BY <1>15 DEF OrphanWrites
<1>16. QED
  BY <1>2, <1>3, <1>4, <1>5, <1>6, <1>7, <1>8, <1>9, <1>10, <1>11, <1>12, <1>13,
     <1>14, <1>15 DEF Next, Step, Fault

\* Calls one after another that crash, with their plugins and not in the middle
\* of a takeover, any number of times: whatever they leave, a call that returns
\* a result names a directory that holds all of one content.
THEOREM ServedAreWhole == Spec => ServedWhole
<1> DEFINE Interrupted == OnlyInterrupted => TurnInv
<1>1. Init => Interrupted
  BY ConstantsAssumption
     DEF Init, TurnInv, Busy, Named, Stands, Holding, Taking, Recorded, ReadPID
<1>2. [Next]_vars => (OnlyInterrupted' <=> OnlyInterrupted)
  BY DEF Next, vars, OnlyInterrupted, VerifyHash, ResultHash
<1>3. TypeOK /\ TypeOK' /\ Interrupted /\ [Next]_vars => Interrupted'
  <2>1. CASE UNCHANGED vars
    BY <1>2, <2>1 DEF vars, disk, local, TurnInv, Busy, Named, Stands, Taking, Recorded,
                      ReadPID, WholeDir
  <2>2. QED
    BY <1>2, <2>1, TurnStep
<1>4. TypeOK /\ Interrupted /\ [Next]_vars
        => [OnlyInterrupted => \A w \in Worker : ServesWhole(w)]_vars
  <2> SUFFICES ASSUME TypeOK, OnlyInterrupted, TurnInv, Next,
                      NEW w \in Worker, ReturnsOK(w)
               PROVE  \E c \in plan.upstream :
                         dir' = Whole(c) /\ VerifyHash(declared[w], ResultHash(c))
    BY DEF ServesWhole
  <2>1. /\ plan' = plan /\ plan \in PlanType
        /\ "claim_write" \notin plan.faults /\ "pid_reuse" \notin plan.faults
    BY ConstantsAssumption DEF Next, TypeOK, OnlyInterrupted
  <2>2. CheckManifest(w) \/ Release(w)
    <3> USE <2>1, ConstantsAssumption
        DEF TypeOK, Labels, Goto, disk, local, PlanType, ReturnsOK, Finished
    <3>1. ASSUME NEW v \in Worker, NEW d \in plan.declared, Call(v, d)
          PROVE  FALSE
      BY <3>1 DEF Call
    <3>2. ASSUME NEW v \in Worker,
                 \/ CheckPID(v) \/ ProbeOwner(v) \/ WaitForPIDFile(v) \/ RemoveStalePID(v)
                 \/ ClaimPIDFile(v) \/ WritePID(v) \/ ClearDir(v) \/ FetchFails(v)
                 \/ VerifyFetched(v)
          PROVE  FALSE
      BY <3>2 DEF CheckPID, ProbeOwner, WaitForPIDFile, RemoveStalePID, ClaimPIDFile,
                  WritePID, ClearDir, FetchFails, VerifyFetched
    <3>3. ASSUME NEW v \in Worker,
                 \/ WriteManifest(v) \/ WriteManifestFails(v) \/ RemoveDir(v)
                 \/ WritePIDFails(v)
                 \/ \E c \in plan.upstream : MakeDir(v, c)
          PROVE  FALSE
      BY <3>3 DEF WriteManifest, WriteManifestFails, RemoveDir, WritePIDFails, MakeDir
    <3>4. ASSUME NEW v \in Worker, NEW f \in File, FetchFile(v, f) \/ OrphanWrites(v, f)
          PROVE  FALSE
      BY <3>4 DEF FetchFile, OrphanWrites
    <3>5. ASSUME NEW p \in Proc,
                 ReusePID(p) \/ \E survives \in BOOLEAN : Crash(p, survives)
          PROVE  FALSE
      BY <3>5 DEF ReusePID, Crash
    <3>6. ASSUME NEW v \in Worker, CheckManifest(v) \/ Release(v)
          PROVE  v = w
      BY <3>6 DEF CheckManifest, Release
    <3>7. QED
      BY <3>1, <3>2, <3>3, <3>4, <3>5, <3>6 DEF Next, Step, Fault
  <2>3. WholeDir /\ dir' = dir
    BY <2>2 DEF CheckManifest, Release, TurnInv, Stands, Recorded, Taking, ReturnsOK,
                Busy, TypeOK, Labels, Goto, disk
  <2>4. declared[w] \in plan.declared
    BY <2>2 DEF CheckManifest, Release, TurnInv, Stands, Busy
  <2>5. QED
    BY <2>3, <2>4 DEF WholeDir, OnlyInterrupted
<1>5. QED
  BY <1>1, <1>3, <1>4, TypeCorrect, PTL DEF Spec, ServedWhole

=============================================================================

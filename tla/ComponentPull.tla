---------------------------- MODULE ComponentPull ----------------------------
(***************************************************************************)
(* How bomify fetches one SBOM component into its directory: the pid file, *)
(* the manifest and the directory that internal/plugin/cache.go keeps for  *)
(* one purl hash, and the goroutines (workers) of several bomify processes *)
(* that call pull() for it at once.                                        *)
(*                                                                         *)
(* A step is one file-system call of pull(), so every interleaving of the  *)
(* calls of two workers, and a crash between any two of them, is a         *)
(* behaviour.  Three files are shared: the pid file (claim, claimPid), the *)
(* manifest and the component's directory (dir).                           *)
(***************************************************************************)
EXTENDS Naturals, FiniteSets

CONSTANTS
    Worker,     \* goroutines that call pull() for this purl hash
    Proc,       \* bomify processes, each named by its pid
    ProcOf,     \* the process a worker runs in
    Hash,       \* SHA-256 values; a hash also stands for the content it is of
    File,       \* the files a plugin writes into the directory
    None,       \* no file, no hash, no pid
    Reports,    \* whether the plugin reports the hash of what it fetched
    Plans       \* what a behaviour may be of, of PlanType

\* "crash" is the end of a process, "taking" one while it takes over a stale
\* claim (Taking), "orphan" one that its plugin survives.
FaultKinds ==
    {"crash", "taking", "orphan", "pid_reuse", "claim_write", "fetch", "write"}

\* A behaviour is of some workers; of the contents the component's source may
\* serve and what an SBOM may declare of it, a hash or None; of what may go
\* wrong; of calls that may overlap or run one after another; and of so many
\* calls of each worker (a bound).
PlanType ==
    [workers : SUBSET Worker, upstream : SUBSET Hash, declared : SUBSET (Hash \cup {None}),
     faults : SUBSET FaultKinds, overlap : BOOLEAN, calls : Nat]

ASSUME ConstantsAssumption ==
    /\ ProcOf \in [Worker -> Proc]
    /\ None \notin Worker \cup Proc \cup Hash
    /\ "absent" \notin Hash \cup {None}
    /\ None \notin [File -> Hash \cup {None}]
    /\ File # {}
    /\ Reports \in BOOLEAN
    /\ Plans \subseteq PlanType

VARIABLES
    plan,       \* the plan this behaviour is of
    claim,      \* the pid file: the worker that created it, or None
    claimPid,   \* the pid written in it, None while it is empty
    manifest,   \* the manifest: None, or [hash] with the recorded hash
    dir,        \* the component's directory: None, or what each file holds
    alive,      \* which processes run
    pc,         \* where each worker is in pull()
    seen,       \* the owner a worker read from the pid file
    declared,   \* the hash of the component a worker was called with
    content,    \* what a worker's plugin is fetching
    todo,       \* the files that plugin has yet to write; out of "fetch" the
                \* plugin is an orphan, whose bomify is dead
    outcome,    \* how a worker's last call ended
    returned,   \* the hash its last call returned
    calls       \* the calls each worker has made

disk == <<claim, claimPid, manifest, dir>>
local == <<seen, declared, content, todo, outcome, returned, calls>>
vars == <<plan, disk, alive, pc, local>>

Labels == {"idle", "check_pid", "probe", "wait", "remove_stale",
           "check_manifest", "claim", "write_pid", "clear", "mkdir", "fetch", "verify",
           "record", "remove_dir", "release", "crashed"}

\* The part of pull() between claiming the pid file and its deferred removal.
Holding == {"write_pid", "clear", "mkdir", "fetch", "verify", "record",
            "remove_dir", "release"}

Manifests == [hash : Hash \cup {None}]

NoManifest == [hash |-> "absent"]

Dirs == [File -> Hash \cup {None}]

EmptyDir == [f \in File |-> None]

\* The directory of a component fetched in full.
Whole(c) == [f \in File |-> c]

Finished == {"fresh", "reused"}

TypeOK ==
    /\ plan \in Plans
    /\ claim \in Worker \cup {None}
    /\ claimPid \in Proc \cup {None}
    /\ manifest \in Manifests \cup {NoManifest}
    /\ dir \in Dirs \cup {None}
    /\ alive \in [Proc -> BOOLEAN]
    /\ pc \in [Worker -> Labels]
    /\ seen \in [Worker -> Proc \cup {None}]
    /\ declared \in [Worker -> Hash \cup {None}]
    /\ content \in [Worker -> Hash \cup {None}]
    /\ todo \in [Worker -> SUBSET File]
    /\ outcome \in [Worker -> Finished \cup {"none", "error"}]
    /\ returned \in [Worker -> Hash \cup {None}]
    /\ calls \in [Worker -> 0..plan.calls]

Init ==
    /\ plan \in Plans
    /\ claim = None
    /\ claimPid = None
    /\ manifest = NoManifest
    /\ dir = None
    /\ alive = [p \in Proc |-> TRUE]
    /\ pc = [w \in Worker |-> "idle"]
    /\ seen = [w \in Worker |-> None]
    /\ declared = [w \in Worker |-> None]
    /\ content = [w \in Worker |-> None]
    /\ todo = [w \in Worker |-> {}]
    /\ outcome = [w \in Worker |-> "none"]
    /\ returned = [w \in Worker |-> None]
    /\ calls = [w \in Worker |-> 0]

-----------------------------------------------------------------------------
(* The helpers of cache.go.                                                *)

\* readPID's pid, or None when it reports !ok: no file, or no pid in it yet.
ReadPID == IF claim = None THEN None ELSE claimPid

ProcessAlive(p) == p # None /\ alive[p]

PIDFileLive == ProcessAlive(ReadPID)

\* verifyHash: an SBOM hash and a computed one must agree when both exist.
VerifyHash(d, h) == d = None \/ h = None \/ d = h

\* The hash a plugin reports for what it fetched.
ResultHash(c) == IF Reports THEN c ELSE None

\* WriteManifest's mergeHash: the computed hash replaces the declared one.
MergeHash(d, h) == IF h = None THEN d ELSE h

Goto(w, label) == pc' = [pc EXCEPT ![w] = label]

Return(w, how, hash) ==
    /\ outcome' = [outcome EXCEPT ![w] = how]
    /\ returned' = [returned EXCEPT ![w] = hash]
    /\ UNCHANGED <<seen, declared, content, todo, calls>>

-----------------------------------------------------------------------------
(* What some steps of pull() would be with a plausible bug.  No behaviour  *)
(* of the specification takes these; each shows that a property would      *)
(* catch the bug, in place of the step its name starts with.               *)

\* Only the owner's death ends the wait.
WaitForPIDFile_DeathOnly(w) ==
    /\ pc[w] = "wait"
    /\ ~ProcessAlive(seen[w])
    /\ Goto(w, "check_pid")
    /\ UNCHANGED <<disk, alive, local>>

\* A recorded pull is reused whatever this SBOM declares.
CheckManifest_Unverified(w) ==
    /\ pc[w] = "check_manifest"
    /\ IF manifest = NoManifest
       THEN Goto(w, "claim") /\ UNCHANGED local
       ELSE Goto(w, "idle") /\ Return(w, "reused", manifest.hash)
    /\ UNCHANGED <<disk, alive>>

\* The create is not exclusive.
ClaimPIDFile_Shared(w) ==
    /\ pc[w] = "claim"
    /\ claim' = w
    /\ claimPid' = None
    /\ Goto(w, "write_pid")
    /\ UNCHANGED <<manifest, dir, alive, local>>

\* The caller is written into the file, and not its process.
WritePID_Caller(w) ==
    /\ pc[w] = "write_pid"
    /\ claimPid' = IF claim = w THEN w ELSE claimPid
    /\ Goto(w, "clear")
    /\ UNCHANGED <<claim, manifest, dir, alive, local>>

\* pull() goes on as soon as the plugin has written a file.
FetchFile_NotAwaited(w, f) ==
    /\ pc[w] = "fetch"
    /\ f \in todo[w]
    /\ dir # None
    /\ dir' = [dir EXCEPT ![f] = content[w]]
    /\ todo' = [todo EXCEPT ![w] = @ \ {f}]
    /\ Goto(w, "verify")
    /\ UNCHANGED <<claim, claimPid, manifest, alive, seen, declared, content,
                   outcome, returned, calls>>

\* What was fetched is not compared with what the SBOM declares.
VerifyFetched_Unverified(w) ==
    /\ pc[w] = "verify"
    /\ Goto(w, "record")
    /\ UNCHANGED <<disk, alive, local>>

\* The pid file goes once the fetch is verified, before the manifest is there.
VerifyFetched_ReleasesEarly(w) ==
    /\ pc[w] = "verify"
    /\ claim' = None
    /\ claimPid' = None
    /\ Goto(w, IF VerifyHash(declared[w], ResultHash(content[w]))
               THEN "record" ELSE "remove_dir")
    /\ UNCHANGED <<manifest, dir, alive, local>>

\* A pull that succeeds leaves its pid file.
WriteManifest_KeepsClaim(w) ==
    /\ pc[w] = "record"
    /\ manifest' = [hash |-> MergeHash(declared[w], ResultHash(content[w]))]
    /\ Goto(w, "idle")
    /\ Return(w, "fresh", ResultHash(content[w]))
    /\ UNCHANGED <<claim, claimPid, dir, alive>>

-----------------------------------------------------------------------------
(* One action per step of pull().                                          *)

\* A build reaches a component of this purl, whose SBOM entry declares d.
Call(w, d) ==
    /\ pc[w] = "idle"
    /\ w \in plan.workers
    /\ calls[w] < plan.calls
    /\ plan.overlap \/ \A v \in Worker : pc[v] \in {"idle", "crashed"}
    /\ Goto(w, "check_pid")
    /\ declared' = [declared EXCEPT ![w] = d]
    /\ outcome' = [outcome EXCEPT ![w] = "none"]
    /\ calls' = [calls EXCEPT ![w] = @ + 1]
    /\ UNCHANGED <<disk, alive, seen, content, todo, returned>>

\* The top of the loop: read the pid file.
CheckPID(w) ==
    /\ pc[w] = "check_pid"
    /\ seen' = [seen EXCEPT ![w] = ReadPID]
    /\ Goto(w, IF ReadPID = None THEN "check_manifest" ELSE "probe")
    /\ UNCHANGED <<disk, alive, declared, content, todo, outcome, returned, calls>>

\* Probe the owner it names, which may have ended since.
ProbeOwner(w) ==
    /\ pc[w] = "probe"
    /\ Goto(w, IF ProcessAlive(seen[w]) THEN "wait" ELSE "remove_stale")
    /\ UNCHANGED <<disk, alive, local>>

\* waitForPIDFile returns once the file is gone or the owner it read is dead.
WaitForPIDFile(w) ==
    /\ pc[w] = "wait"
    /\ claim = None \/ ~ProcessAlive(seen[w])
    /\ Goto(w, "check_pid")
    /\ UNCHANGED <<disk, alive, local>>

\* os.Remove(pid) of a stale file: it removes whatever is at the path by now.
RemoveStalePID(w) ==
    /\ pc[w] = "remove_stale"
    /\ claim' = None
    /\ claimPid' = None
    /\ Goto(w, "claim")
    /\ UNCHANGED <<manifest, dir, alive, local>>

\* Nothing is pulling: reuse a recorded pull, if it matches this component.
CheckManifest(w) ==
    /\ pc[w] = "check_manifest"
    /\ IF manifest = NoManifest
       THEN Goto(w, "claim") /\ UNCHANGED local
       ELSE /\ Goto(w, "idle")
            /\ IF VerifyHash(declared[w], manifest.hash)
               THEN Return(w, "reused", manifest.hash)
               ELSE Return(w, "error", None)
    /\ UNCHANGED <<disk, alive>>

\* claimPIDFile's exclusive create; a file already there restarts the loop.
ClaimPIDFile(w) ==
    /\ pc[w] = "claim"
    /\ IF claim = None
       THEN /\ claim' = w
            /\ claimPid' = None
            /\ Goto(w, "write_pid")
       ELSE Goto(w, "check_pid") /\ UNCHANGED <<claim, claimPid>>
    /\ UNCHANGED <<manifest, dir, alive, local>>

\* claimPIDFile's write goes to the file w created, linked or not.
WritePID(w) ==
    /\ pc[w] = "write_pid"
    /\ claimPid' = IF claim = w THEN ProcOf[w] ELSE claimPid
    /\ Goto(w, "clear")
    /\ UNCHANGED <<claim, manifest, dir, alive, local>>

\* The write fails: pull returns before its deferred removal is registered.
WritePIDFails(w) ==
    /\ "claim_write" \in plan.faults
    /\ pc[w] = "write_pid"
    /\ Goto(w, "idle")
    /\ Return(w, "error", None)
    /\ UNCHANGED <<disk, alive>>

ClearDir(w) ==
    /\ pc[w] = "clear"
    /\ dir' = None
    /\ Goto(w, "mkdir")
    /\ UNCHANGED <<claim, claimPid, manifest, alive, local>>

\* MkdirAll, and the call of the plugin, whose source serves c this time.
MakeDir(w, c) ==
    /\ pc[w] = "mkdir"
    /\ dir' = IF dir = None THEN EmptyDir ELSE dir
    /\ content' = [content EXCEPT ![w] = c]
    /\ todo' = [todo EXCEPT ![w] = File]
    /\ Goto(w, "fetch")
    /\ UNCHANGED <<claim, claimPid, manifest, alive, seen, declared, outcome,
                   returned, calls>>

\* The plugin writes one more of its files, and returns after the last one.
FetchFile(w, f) ==
    /\ pc[w] = "fetch"
    /\ f \in todo[w]
    /\ dir # None
    /\ dir' = [dir EXCEPT ![f] = content[w]]
    /\ todo' = [todo EXCEPT ![w] = @ \ {f}]
    /\ Goto(w, IF todo[w] = {f} THEN "verify" ELSE "fetch")
    /\ UNCHANGED <<claim, claimPid, manifest, alive, seen, declared, content,
                   outcome, returned, calls>>

\* The plugin fails, as it does when its directory is gone.
FetchFails(w) ==
    /\ pc[w] = "fetch"
    /\ "fetch" \in plan.faults \/ dir = None
    /\ todo' = [todo EXCEPT ![w] = {}]
    /\ Goto(w, "remove_dir")
    /\ UNCHANGED <<disk, alive, seen, declared, content, outcome, returned, calls>>

\* verifyHash of what was fetched.
VerifyFetched(w) ==
    /\ pc[w] = "verify"
    /\ Goto(w, IF VerifyHash(declared[w], ResultHash(content[w]))
               THEN "record" ELSE "remove_dir")
    /\ UNCHANGED <<disk, alive, local>>

\* WriteManifest: the manifest appears whole (a rename), the call succeeded.
WriteManifest(w) ==
    /\ pc[w] = "record"
    /\ manifest' = [hash |-> MergeHash(declared[w], ResultHash(content[w]))]
    /\ Goto(w, "release")
    /\ Return(w, "fresh", ResultHash(content[w]))
    /\ UNCHANGED <<claim, claimPid, dir, alive>>

WriteManifestFails(w) ==
    /\ "write" \in plan.faults
    /\ pc[w] = "record"
    /\ Goto(w, "remove_dir")
    /\ UNCHANGED <<disk, alive, local>>

\* os.RemoveAll(dir) on each error path after the fetch began.
RemoveDir(w) ==
    /\ pc[w] = "remove_dir"
    /\ dir' = None
    /\ Goto(w, "release")
    /\ Return(w, "error", None)
    /\ UNCHANGED <<claim, claimPid, manifest, alive>>

\* The deferred os.Remove(pid): again, whatever is at the path by now.
Release(w) ==
    /\ pc[w] = "release"
    /\ claim' = None
    /\ claimPid' = None
    /\ Goto(w, "idle")
    /\ UNCHANGED <<manifest, dir, alive, local>>

\* A takeover has removed the stale pid file and not yet written a pid of its
\* own: nothing says any more that what is recorded may not be whole.
Taking(w) == pc[w] \in {"claim", "write_pid"} /\ manifest # NoManifest

\* A process ends with every worker in it, killed or, if they have all returned,
\* at its exit.  What is on disk stays.  Nothing ties a plugin to it: a signal
\* sent to the whole process group, or a lost machine, ends both; otherwise the
\* plugin survives.
Crash(p, survives) ==
    /\ "crash" \in plan.faults
    /\ survives => "orphan" \in plan.faults
    /\ \E w \in plan.workers : ProcOf[w] = p
    /\ alive[p]
    /\ "taking" \in plan.faults \/ \A w \in Worker : ProcOf[w] = p => ~Taking(w)
    /\ alive' = [alive EXCEPT ![p] = FALSE]
    /\ pc' = [w \in Worker |-> IF ProcOf[w] = p THEN "crashed" ELSE pc[w]]
    /\ todo' = [w \in Worker |-> IF ProcOf[w] = p /\ ~survives THEN {} ELSE todo[w]]
    /\ UNCHANGED <<disk, seen, declared, content, outcome, returned, calls>>

\* An orphaned plugin goes on writing into the directory it was given, whoever
\* fills it now, and fails when that is gone.
OrphanWrites(w, f) ==
    /\ pc[w] # "fetch"
    /\ f \in todo[w]
    /\ dir # None
    /\ dir' = [dir EXCEPT ![f] = content[w]]
    /\ todo' = [todo EXCEPT ![w] = @ \ {f}]
    /\ UNCHANGED <<claim, claimPid, manifest, alive, pc, seen, declared, content,
                   outcome, returned, calls>>

\* A later bomify process is given the pid of one that crashed.
ReusePID(p) ==
    /\ "pid_reuse" \in plan.faults
    /\ ~alive[p]
    /\ alive' = [alive EXCEPT ![p] = TRUE]
    /\ pc' = [w \in Worker |-> IF ProcOf[w] = p THEN "idle" ELSE pc[w]]
    /\ UNCHANGED <<disk, local>>

-----------------------------------------------------------------------------
\* What a worker does by itself once it has been called.
Step(w) ==
    \/ CheckPID(w)
    \/ ProbeOwner(w)
    \/ WaitForPIDFile(w)
    \/ RemoveStalePID(w)
    \/ CheckManifest(w)
    \/ ClaimPIDFile(w)
    \/ WritePID(w)
    \/ ClearDir(w)
    \/ \E c \in plan.upstream : MakeDir(w, c)
    \/ \E f \in File : FetchFile(w, f)
    \/ FetchFails(w)
    \/ VerifyFetched(w)
    \/ WriteManifest(w)
    \/ RemoveDir(w)
    \/ Release(w)

Fault(w) == WritePIDFails(w) \/ WriteManifestFails(w)

Next ==
    /\ UNCHANGED plan
    /\ \/ \E w \in Worker : Step(w) \/ Fault(w)
       \/ \E w \in Worker, d \in plan.declared : Call(w, d)
       \/ \E p \in Proc, survives \in BOOLEAN : Crash(p, survives)
       \/ \E w \in Worker, f \in File : OrphanWrites(w, f)
       \/ \E p \in Proc : ReusePID(p)

Spec == Init /\ [][Next]_vars

\* A worker keeps running unless its process dies: Go's scheduler is fair to
\* every runnable goroutine, the kernel to every process.  No fault is fair.
FairSpec == Spec /\ \A w \in Worker : WF_vars(Step(w) /\ UNCHANGED plan)

-----------------------------------------------------------------------------
(* Properties.                                                             *)

\* At most one worker is between claiming the pid file and removing it, so no
\* two plugins ever write into the component's directory at once
\* (claimPIDFile's O_EXCL create, and who may remove the file again).
SingleFetcher ==
    \A v, w \in Worker : pc[v] \in Holding /\ pc[w] \in Holding => v = w

\* "Its existence at that path is the authoritative signal that the pull
\* succeeded": without a pid file, a manifest is backed by a directory that
\* holds every file of one fetched content.
ManifestBacked ==
    manifest # NoManifest /\ claim = None
        => \E c \in plan.upstream : dir = Whole(c)

LiveInFlight ==
    PIDFileLive => \E w \in Worker : ProcOf[w] = claimPid /\ pc[w] \in Holding

\* A pid file that counts as live is that of a pull genuinely in flight, as long
\* as pids are not reused: prune and waiting workers rely on it (PIDFileLive).
LiveMeansInFlight == "pid_reuse" \notin plan.faults => LiveInFlight

\* Both a fresh and a reused result is checked against the hash the SBOM of
\* this very call declares, whoever recorded the manifest and for whom.
ResultVerified ==
    \A w \in Worker : outcome[w] \in Finished => VerifyHash(declared[w], returned[w])

ReturnsOK(w) ==
    pc[w] \notin {"idle", "crashed"} /\ pc'[w] = "idle" /\ outcome'[w] \in Finished

ServesWhole(w) ==
    ReturnsOK(w) =>
        \E c \in plan.upstream : dir' = Whole(c) /\ VerifyHash(declared[w], ResultHash(c))

\* Calls come one at a time, and nothing but a crash keeps one from succeeding:
\* one that ends the plugin too, and does not come while a stale claim is being
\* taken over.
OnlyInterrupted ==
    /\ ~plan.overlap
    /\ plan.faults \subseteq {"crash"}
    /\ \A d \in plan.declared, c \in plan.upstream : VerifyHash(d, ResultHash(c))

\* At the moment pull() returns a result, the directory it names holds every
\* file of one content, that the declared hash agrees with, however many calls
\* before this one were interrupted in the way OnlyInterrupted allows.  It does
\* not hold if plugins survive (pull_orphan), if takeovers are interrupted
\* (pull_taken), if fetches fail or if calls overlap (pull_reuse_in_flux).
ServedWhole ==
    [][OnlyInterrupted => \A w \in Worker : ServesWhole(w)]_vars

\* The same of any plan.
ServedWholeInFlux == [][\A w \in Worker : ServesWhole(w)]_vars

\* A worker's own fetch is what it verifies: no other worker changes the
\* directory between its plugin's return and the manifest it records.
FetchedIntact ==
    \A w \in Worker : pc[w] \in {"verify", "record"} => dir = Whole(content[w])

\* Every call returns, with a result or with an error, unless its process dies.
EveryCallReturns ==
    \A w \in Worker : pc[w] = "check_pid" ~> pc[w] \in {"idle", "crashed"}

\* pull() implements one flight at a time.
Flight == INSTANCE SingleFlight WITH
    Entry <- Manifests, holder <- claim, stored <- manifest

FlightSpec == Flight!Spec

=============================================================================

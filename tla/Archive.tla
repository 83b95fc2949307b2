------------------------------ MODULE Archive ------------------------------
(***************************************************************************)
(* Packages in a tarball, with no registry (internal/oci/save, sign and    *)
(* transfer/tar.go): "bomify save" pushes packages into an OCI image       *)
(* layout and writes it out as a tar, "bomify sign --input" adds its       *)
(* signatures to each, and "bomify load" pulls each package of the layout  *)
(* it extracts, as PackagePull says.                                       *)
(*                                                                         *)
(* They share a file, which save writes in place, entry by entry, and sign *)
(* replaces; others may be reading it.  A push into a layout of one's own  *)
(* is one step.  A blob stands for itself and, of a package, all that its  *)
(* index names.                                                            *)
(***************************************************************************)
EXTENDS PackagePull, SequencesExt

CONSTANTS
    Saver,      \* processes that save,
    Cosigner,   \* and that sign archives
    Saves,      \* what is saved: packages by tag, and what push attaches to them
    KeyOf,      \* the key each cosigner signs with
    Order,      \* blobs, in the order of their file names
    Archives    \* what an archive may hold before, or None

Archivist == Saver \cup Cosigner

\* The blobs of an OCI image layout; its index.json names their tags.
Blobs(store) ==
    (Range(store.tags) \ {None}) \cup store.referrers \cup store.signatures

Store == [tags : [Tag -> Package \cup {None}], referrers : SUBSET Publishable,
          signatures : SUBSET [of : {Index(s) : s \in Package} \cup Publishable, key : Key]]

ASSUME ArchiveAssumption ==
    /\ Saver \cap Cosigner = {}
    /\ Saves \subseteq Store /\ Archives \subseteq Store \cup {None}
    /\ KeyOf \in [Cosigner -> Key]
    /\ \A store \in Saves \cup (Archives \ {None}) : Blobs(store) \subseteq Range(Order)
    /\ IsInjective(Order)
    \* What a load extracts is a repository of its own, and "load" takes no component.
    /\ Archivist # {} => \A p, q \in Puller : p = q
    /\ \A j \in Jobs : j.from = "archive" => j.only = None

VARIABLES
    files,    \* the files there have been, by inode
    path,     \* which of them has the archive's name, or 0
    reading,  \* what a load or a signer has read of which
    work      \* what each archivist does

archives == <<files, path, reading, work>>
allVars == <<vars, archives>>

BlobEntry(x) == [kind |-> "blob", what |-> x]
IndexEntry(store) == [kind |-> "index", what |-> store]
LayoutEntry == [kind |-> "layout", what |-> None]

\* The index first.  No behaviour of the specification has it.
Entries_IndexFirst(store) ==
    LET blobs == SelectSeq(Order, LAMBDA x : x \in Blobs(store))
    IN <<IndexEntry(store), LayoutEntry>> \o [i \in DOMAIN blobs |-> BlobEntry(blobs[i])]

\* WriteTar walks "blobs", "index.json" and "oci-layout", each in the order of its
\* names.
Entries(store) ==
    LET blobs == SelectSeq(Order, LAMBDA x : x \in Blobs(store))
    IN [i \in DOMAIN blobs |-> BlobEntry(blobs[i])] \o <<IndexEntry(store), LayoutEntry>>

\* An inode: torn says that its last entry is not all there, wiped how often it
\* was truncated.
Inode(entries) == [entries |-> entries, torn |-> FALSE, wiped |-> 0]

NotReading == [inode |-> 0, at |-> 1, got |-> <<>>, wiped |-> 0]

\* What an archivist does, to which inode, and the entries it has yet to write.
NotArchiving == [pc |-> "absent", inode |-> 0, left |-> <<>>]

Archiving == \E a \in Archivist : work[a].pc # "absent"

\* Either pulls from a repository, or archives.
ArchiveInit ==
    /\ Init
    /\ reading = [r \in Puller \cup Cosigner |-> NotReading]
    /\ \/ /\ \E t \in Tag : tags[t] # None
          /\ files = <<>> /\ path = 0
          /\ work = [a \in Archivist |-> NotArchiving]
       \/ /\ \A t \in Tag : tags[t] = None
          /\ \E store \in Archives :
                /\ files = IF store = None THEN <<>> ELSE <<Inode(Entries(store))>>
                /\ path = Len(files)
          /\ work = [a \in Archivist |-> [NotArchiving EXCEPT !.pc = "ready"]]

-----------------------------------------------------------------------------
(* Reading a tar: OpenArchive.                                             *)

Open(r) == reading' = [reading EXCEPT ![r] =
    [inode |-> path, at |-> 1, got |-> <<>>, wiped |-> files[path].wiped]]

Opened(r) == files[reading[r].inode]

AtEnd(r) == reading[r].at > Len(Opened(r).entries)

\* The rest of the last entry is missing, "unexpected EOF".
Torn(r) == Opened(r).torn /\ reading[r].at = Len(Opened(r).entries)

\* Of a file that was truncated and is written anew what follows may be no header,
\* or be content of something else, which its digest tells.
Rewritten(r) == Opened(r).wiped # reading[r].wiped

Unreadable(r) == Torn(r) \/ Rewritten(r)

ReadEntry(r) ==
    /\ ~AtEnd(r) /\ ~Torn(r)
    /\ reading' = [reading EXCEPT ![r].at = @ + 1,
           ![r].got = Append(@, Opened(r).entries[reading[r].at])]

Nothing == [tags |-> [t \in Tag |-> None], referrers |-> {}, signatures |-> {}]

\* The store its index.json tells of, or an empty one.
Indexed(got) ==
    LET indexes == SelectSeq(got, LAMBDA e : e.kind = "index")
    IN IF indexes = <<>> THEN Nothing ELSE indexes[Len(indexes)].what

\* The store that oci.New makes of what was extracted, which has no more than that.
Staged(got) ==
    LET there == {e.what : e \in {e \in Range(got) : e.kind = "blob"}}
        store == Indexed(got)
    IN [tags |-> [t \in Tag |-> IF store.tags[t] \in there THEN store.tags[t] ELSE None],
        referrers |-> store.referrers \cap there,
        signatures |-> store.signatures \cap there]

Tagged(store) == {t \in Tag : store.tags[t] # None}

-----------------------------------------------------------------------------
(* "bomify save".                                                          *)

\* os.Create empties the file that is there.  One save at a time writes it.
CreateOutput(a) ==
    /\ work[a].pc = "ready" /\ \A b \in Saver : work[b].pc \notin {"push", "write"}
    /\ files' = IF path = 0 THEN Append(files, Inode(<<>>))
                ELSE [files EXCEPT ![path] = [Inode(<<>>) EXCEPT !.wiped = files[path].wiped + 1]]
    /\ path' = IF path = 0 THEN Len(files') ELSE path
    /\ work' = [work EXCEPT ![a] = [@ EXCEPT !.pc = "push", !.inode = path']]
    /\ UNCHANGED reading

\* Each tag is pushed into a staging directory, and the whole of it is listed.
PushAll(a, store) ==
    /\ work[a].pc = "push"
    /\ work' = [work EXCEPT ![a] = [@ EXCEPT !.pc = "write", !.left = Entries(store)]]
    /\ UNCHANGED <<files, path, reading>>

BeginEntry(a) ==
    /\ work[a].pc = "write" /\ work[a].left # <<>> /\ ~files[work[a].inode].torn
    /\ files' = [files EXCEPT ![work[a].inode] =
           [@ EXCEPT !.entries = Append(@, Head(work[a].left)), !.torn = TRUE]]
    /\ UNCHANGED <<path, reading, work>>

EndEntry(a) ==
    /\ work[a].pc = "write" /\ files[work[a].inode].torn
    /\ files' = [files EXCEPT ![work[a].inode].torn = FALSE]
    /\ work' = [work EXCEPT ![a] = [@ EXCEPT !.left = Tail(@),
           !.pc = IF Len(work[a].left) = 1 THEN "done" ELSE "write"]]
    /\ UNCHANGED <<path, reading>>

-----------------------------------------------------------------------------
(* "bomify sign --input".                                                  *)

OpenInput(a) ==
    /\ work[a].pc = "ready" /\ path # 0
    /\ Open(a)
    /\ work' = [work EXCEPT ![a].pc = "read"]
    /\ UNCHANGED <<files, path>>

ReadInput(a) ==
    /\ work[a].pc = "read"
    /\ ReadEntry(a)
    /\ UNCHANGED <<files, path, work>>

\* Its packages, then the reports and the documents attached to each.
Cosigned(store, key) ==
    LET of == Range(store.tags) \ {None}
        what == {Index(s) : s \in of} \cup
                {r \in store.referrers : r.of \in of /\ r.kind \in {"reports", "vex"}}
    IN [store EXCEPT !.signatures = @ \cup {[of |-> n, key |-> key] : n \in what}]

\* WriteAtomic renames the signed archive into place once all of it is written.
Replace(a) ==
    LET store == Staged(reading[a].got)
    IN /\ work[a].pc = "read" /\ AtEnd(a) /\ Tagged(store) # {}
       /\ \A t \in Tagged(store) : WellFormed(store.tags[t])
       /\ files' = Append(files, Inode(Entries(Cosigned(store, KeyOf[a]))))
       /\ path' = Len(files')
       /\ work' = [work EXCEPT ![a].pc = "done"]
       /\ UNCHANGED reading

\* A save or a signer fails, or is stopped, and leaves the file as it is.
StopArchiving(a) ==
    /\ MayFail /\ work[a].pc \in {"push", "write", "read"}
    /\ work' = [work EXCEPT ![a].pc = "failed"]
    /\ UNCHANGED <<files, path, reading>>

Archive(a) ==
    \/ a \in Saver /\ CreateOutput(a)
    \/ \E store \in Saves : a \in Saver /\ PushAll(a, store)
    \/ a \in Saver /\ BeginEntry(a)
    \/ a \in Saver /\ EndEntry(a)
    \/ a \in Cosigner /\ OpenInput(a)
    \/ a \in Cosigner /\ ReadInput(a)
    \/ a \in Cosigner /\ Replace(a)
    \/ StopArchiving(a)

-----------------------------------------------------------------------------
(* "bomify load": save.Load.  What it extracts is a repository of its own. *)

OpenArchive(p) ==
    /\ At(p, "open")
    /\ \/ path # 0 /\ Open(p) /\ Goto(p, "extract")
       \/ path = 0 /\ Goto(p, "failed") /\ UNCHANGED reading
    /\ UNCHANGED <<registry, disk, files, path, work>>

Extract(p) ==
    /\ At(p, "extract")
    /\ \/ ReadEntry(p) /\ UNCHANGED pull
       \/ ~AtEnd(p) /\ Unreadable(p) /\ Goto(p, "failed") /\ UNCHANGED reading
    /\ UNCHANGED <<registry, disk, files, path, work>>

\* Everything is extracted before the first tag is pulled.
ListTags(p) ==
    LET store == Staged(reading[p].got)
    IN /\ At(p, "extract") /\ AtEnd(p)
       /\ \/ /\ Tagged(store) # {}
             /\ tags' = store.tags
             /\ referrers' = store.referrers
             /\ signatures' = store.signatures
             /\ pull' = [pull EXCEPT ![p].pc = "record", ![p].rest = SetToSeq(Tagged(store))]
          \/ Tagged(store) = {} /\ Goto(p, "failed") /\ UNCHANGED <<tags, referrers, signatures>>
       /\ UNCHANGED <<gone, changes, disk, archives>>

\* A tag whose package fails ends the load.
NextTag(p) ==
    /\ At(p, "record") /\ pull[p].rest # <<>>
    /\ pull' = [pull EXCEPT ![p] =
           [Idle EXCEPT !.pc = "resolve", !.job = [Job(p) EXCEPT !.ref = Head(pull[p].rest)],
                        !.rest = Tail(pull[p].rest), !.found = pull[p].found,
                        !.held = pull[p].held, !.pulls = pull[p].pulls]]
    /\ UNCHANGED <<registry, disk, archives>>

RecordLoaded(p) ==
    /\ At(p, "finish") /\ Job(p).from = "archive"
    /\ local' = [local EXCEPT ![Job(p).ref] = Bill(p)]
    /\ Goto(p, "record")
    /\ UNCHANGED <<registry, sboms, layers, records, reports, output, archives>>

\* restore.finish, after the last tag.
FinishLoad(p) ==
    /\ At(p, "record") /\ pull[p].rest = <<>>
    /\ Work(p, "keep", Analysed(p))
    /\ UNCHANGED <<registry, disk, archives>>

EndLoad(p) ==
    /\ At(p, "keep") /\ pull[p].todo = {} /\ Job(p).from = "archive"
    /\ Goto(p, "done")
    /\ UNCHANGED <<registry, disk, archives>>

Load(p) ==
    \/ OpenArchive(p)
    \/ Extract(p)
    \/ ListTags(p)
    \/ NextTag(p)
    \/ RecordLoaded(p)
    \/ FinishLoad(p)
    \/ EndLoad(p)

\* The archive no longer matters to a load that has read it: what else becomes of
\* it is left out.
Awaited == \E p \in Puller : pull[p].pc \in {"ready", "open", "extract"}

Next ==
    \/ ~Archiving /\ Others /\ UNCHANGED archives
    \/ \E p \in Puller, j \in Jobs :
           (Archiving <=> j.from = "archive") /\ Start(p, j) /\ UNCHANGED archives
    \/ \E p \in Puller : Pull(p) /\ UNCHANGED archives
    \/ \E p \in Puller : (CannotMove(p) \/ Fail(p)) /\ UNCHANGED archives
    \/ \E p \in Puller : Load(p)
    \/ \E a \in Archivist : Awaited /\ Archive(a) /\ UNCHANGED vars

Spec == ArchiveInit /\ [][Next]_allVars

\* A pull or a load that is started is not stopped for good.
FairSpec ==
    Spec /\ \A p \in Puller : WF_allVars((Pull(p) /\ UNCHANGED archives) \/ Load(p))

-----------------------------------------------------------------------------
(* Properties.                                                             *)

\* Every variable has its type.
ArchiveTypeOK ==
    /\ TypeOK
    /\ path \in 0 .. Len(files)
    /\ \A i \in DOMAIN files : files[i].torn \in BOOLEAN /\ files[i].wiped \in Nat
    /\ \A r \in DOMAIN reading : reading[r].inode \in 0 .. Len(files)
    /\ \A a \in Archivist : work[a].pc \in
         {"absent", "ready", "push", "write", "read", "done", "failed"}

\* What reader r extracted is all that its index tells of.
Complete(r) == Staged(reading[r].got) = Indexed(reading[r].got)

Extracts(p) == At(p, "extract") /\ pull'[p].pc = "record"

Replaces(a) == work[a].pc = "read" /\ work'[a].pc = "done"

\* A save may be stopped anywhere, and a load or a signer may read an archive that
\* is not all there: it gets nothing then, or else everything that was to be saved,
\* since the index comes after the blobs.  So no load restores a package without
\* the documents and reports it was saved with, and no signer writes one out.
ArchivesWhole ==
    [][/\ \A p \in Puller : Extracts(p) /\ ~Rewritten(p) => Complete(p)
       /\ \A a \in Cosigner : Replaces(a) /\ ~Rewritten(a) => Complete(a)]_allVars

\* The same of an archive that another save begins to overwrite meanwhile, which
\* the code does not rule out.
OverwrittenWhole ==
    [][\A p \in Puller : Extracts(p) => Complete(p)]_allVars

\* Signing an archive leaves all its signatures.  Two that sign one at once do not
\* know of each other.
CosignaturesKept ==
    [][path' # path /\ path # 0 =>
         Indexed(files[path].entries).signatures
             \subseteq Indexed(files'[path'].entries).signatures]_allVars

\* docs/architecture/security-scanning.md: "The fresh reports are written after
\* the package's own, replacing them".  A load whose second package fails has
\* tagged the first, with the reports of its publisher.
LoadedTellFresh ==
    \A p \in Puller : At(p, "failed") /\ Job(p).from = "archive" =>
        \A t \in Tag, r \in pull[p].found :
            local[t] = Content[r.of].sbom /\ r.vulns # {None} =>
                reports[r.purl][r.scanner] = None \/ reports[r.purl][r.scanner].kind = "fresh"

=============================================================================

--------------------------- MODULE LayoutVersion ---------------------------
(***************************************************************************)
(* The version of a data directory (internal/layout): what every bomify    *)
(* command does before its own work.  It records a version in a directory  *)
(* it starts, migrates an older one a version at a time, and refuses a     *)
(* newer one and one it did not start.                                     *)
(*                                                                         *)
(* Several versions of bomify may be installed.  No lock is taken: a       *)
(* command may start while another runs, and a process may stop between    *)
(* any two steps.  There is one version so far and no migration: Newest,   *)
(* and what migrating does to the data, are those of the versions to come  *)
(* (checkVersion takes both as arguments, and the tests give it others).   *)
(***************************************************************************)
EXTENDS Naturals, FiniteSets

CONSTANTS
    Proc,         \* the bomify processes that run at once
    Newest,       \* the version of the newest bomify
    MaxOverlaps   \* bound: commands that start while another one runs

ASSUME LayoutAssumption == Newest \in Nat \ {0} /\ MaxOverlaps \in Nat

VARIABLES
    version,    \* what version.json records, 0 without the file
    level,      \* the version the data is at, 0 for none, Spoilt once misapplied
    half,       \* whether a migration of the data has started and not ended
    content,    \* whether the directory holds anything but version.json
    temps,      \* the processes whose temporary version file is in it
    debris,     \* whether a stopped process left a temporary file in it
    at,         \* what each process does next
    bomify,     \* the version of the bomify it runs
    target,     \* the version it is to record
    overlaps    \* how many commands started while another one ran

directory == <<version, level, half, content, temps, debris>>
layoutVars == <<directory, at, bomify, target, overlaps>>

\* No version of bomify reads such data.
Spoilt == Newest + 1

Checking == {"read_version", "is_empty", "migrate", "migrated", "write_temp", "rename"}

\* Past the check, a command goes on as the module of its own has it.
Working(p) == at[p] \notin Checking \cup {"idle"}

LayoutTypeOK ==
    /\ version \in 0..Newest
    /\ level \in 0..Spoilt
    /\ {half, content, debris} \subseteq BOOLEAN
    /\ temps \in SUBSET Proc
    /\ bomify \in [Proc -> 1..Newest]
    /\ target \in [Proc -> 0..Newest]
    /\ overlaps \in 0..MaxOverlaps

\* Any directory: a new one, a pre-alpha bomify's, or one of some version.
LayoutInit ==
    /\ version \in 0..Newest
    /\ content \in BOOLEAN
    /\ level = version
    /\ half = FALSE
    /\ temps = {}
    /\ debris = FALSE
    /\ at = [p \in Proc |-> "idle"]
    /\ bomify = [p \in Proc |-> 1]
    /\ target = [p \in Proc |-> 0]
    /\ overlaps = 0

-----------------------------------------------------------------------------
Goto(p, label) == at' = [at EXCEPT ![p] = label] /\ UNCHANGED bomify

\* The command ends, refused or not.
Leave(p) ==
    /\ at' = [at EXCEPT ![p] = "idle"]
    /\ bomify' = [bomify EXCEPT ![p] = 1]
    /\ target' = [target EXCEPT ![p] = 0]

\* Process p, at version v, has migrations left to run.
Continue(p, v) ==
    /\ target' = [target EXCEPT ![p] = IF v < bomify[p] THEN v + 1 ELSE 0]
    /\ Goto(p, IF v < bomify[p] THEN "migrate" ELSE "using")

\* What one step would be with a plausible bug, which a property would catch;
\* no behaviour of the specification takes it: a migration starts after the
\* version it leads to was recorded.
Record_First(p) ==
    /\ at[p] = "migrate"
    /\ version' = target[p]
    /\ half' = TRUE
    /\ Goto(p, "migrated")
    /\ UNCHANGED <<level, content, temps, debris, target>>

\* A command of bomify v starts.
Open(p, v) ==
    /\ at[p] = "idle"
    /\ overlaps' = IF \A q \in Proc : at[q] = "idle" THEN overlaps ELSE overlaps + 1
    /\ overlaps' <= MaxOverlaps
    /\ bomify' = [bomify EXCEPT ![p] = v]
    /\ at' = [at EXCEPT ![p] = "read_version"]
    /\ UNCHANGED <<directory, target>>

ReadVersion(p) ==
    /\ at[p] = "read_version"
    /\ IF version = 0
       THEN Goto(p, "is_empty") /\ UNCHANGED target
       ELSE IF version > bomify[p]
       THEN Leave(p)
       ELSE Continue(p, version)
    /\ UNCHANGED directory

\* initVersion: whatever the directory holds makes it a pre-alpha one.
CheckEmpty(p) ==
    /\ at[p] = "is_empty"
    /\ IF content \/ temps # {} \/ debris
       THEN Leave(p)
       ELSE /\ target' = [target EXCEPT ![p] = bomify[p]]
            /\ Goto(p, "write_temp")
    /\ UNCHANGED directory

\* Migration target - 1 begins to change the data in place.
BeginMigration(p) ==
    /\ at[p] = "migrate"
    /\ half' = TRUE
    /\ Goto(p, "migrated")
    /\ UNCHANGED <<version, level, content, temps, debris, target>>

\* It ends.  It can be run again on what it has changed, and on nothing else.
EndMigration(p) ==
    /\ at[p] = "migrated"
    /\ half' = FALSE
    /\ level' = IF level \in {target[p] - 1, target[p]} THEN target[p] ELSE Spoilt
    /\ Goto(p, "write_temp")
    /\ UNCHANGED <<version, content, temps, debris, target>>

\* WriteAtomic: the temporary file is in the directory that is started.
WriteTemp(p) ==
    /\ at[p] = "write_temp"
    /\ temps' = temps \cup {p}
    /\ Goto(p, "rename")
    /\ UNCHANGED <<version, level, half, content, debris, target>>

RenameTemp(p) ==
    /\ at[p] = "rename"
    /\ version' = target[p]
    /\ level' = IF level = 0 THEN target[p] ELSE level
    /\ temps' = temps \ {p}
    /\ Continue(p, target[p])
    /\ UNCHANGED <<half, content, debris>>

\* A step of the check fails: the temporary file goes.
CheckFails(p) ==
    /\ at[p] \in Checking
    /\ temps' = temps \ {p}
    /\ Leave(p)
    /\ UNCHANGED <<version, level, half, content, debris>>

\* The process dies: the temporary file stays.
CrashChecking(p) ==
    /\ at[p] \in Checking
    /\ temps' = temps \ {p}
    /\ debris' = (debris \/ p \in temps)
    /\ Leave(p)
    /\ UNCHANGED <<version, level, half, content>>

\* The command does its work, of whatever kind.
Use(p) ==
    /\ at[p] = "using"
    /\ content' = TRUE
    /\ Leave(p)
    /\ UNCHANGED <<version, level, half, temps, debris>>

CheckVersion(p) ==
    \/ \E v \in 1..Newest : Open(p, v)
    \/ /\ \/ ReadVersion(p) \/ CheckEmpty(p)
          \/ BeginMigration(p) \/ EndMigration(p)
          \/ WriteTemp(p) \/ RenameTemp(p)
          \/ CheckFails(p) \/ CrashChecking(p) \/ Use(p)
       /\ UNCHANGED overlaps

-----------------------------------------------------------------------------
(* Properties.  InTurn: no command has yet started while another one ran.  *)

InTurn == overlaps = 0

\* "A crash resumes from the last completed step": wherever commands, run one
\* after another, stopped, the data is at the version recorded or at most the
\* one after it; no migration is skipped, or run on data that is past it; and
\* the newest bomify only goes to work on data that is migrated in full.
MigrationsResume ==
    InTurn =>
        /\ level \in {version, version + 1} \ {Spoilt}
        /\ half => version < Newest
        /\ \A p \in Proc : Working(p) =>
            /\ version = bomify[p]
            /\ bomify[p] = Newest => level = Newest /\ ~half

\* The same of an older bomify, which a newer one's unfinished migration
\* deceives: its version is not yet recorded.
OlderKeptOut ==
    InTurn => \A p \in Proc : Working(p) => level = bomify[p] /\ ~half

\* Only a directory that bomify did not start is refused as a pre-alpha one's.
OwnAccepted ==
    [][\A p \in Proc : CheckEmpty(p) /\ at'[p] = "idle" => content]_layoutVars

=============================================================================

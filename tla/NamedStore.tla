----------------------------- MODULE NamedStore -----------------------------
(***************************************************************************)
(* The stores of what rules refer to by name: public keys, which trust     *)
(* rules name, and VEX documents, which scan policy rules name             *)
(* (internal/namedstore, internal/rules, and internal/signature and        *)
(* internal/security on top of them), with the commands that add, remove   *)
(* and refer to entries and a pull that reads them.                        *)
(*                                                                         *)
(* A store is an index from names to contents and one copy per content; a  *)
(* rule file holds a rule per match.  Each is one file, replaced whole, so *)
(* a step is one read or one replacement of a file, or a copy stored or    *)
(* removed.  No lock is taken: a command may start while another runs, and *)
(* a process may stop between any two steps.                               *)
(***************************************************************************)
EXTENDS Naturals, FiniteSets

CONSTANTS
    Proc,         \* the bomify processes that run at once
    Name,         \* names of stored entries
    Content,      \* the contents of the files that are added
    Match,        \* the prefixes rules are for
    Signer,       \* names of a trust rule's signers
    Unnamed,      \* the signer without a name; a scan rule's VEX is kept as its
    None,         \* no content, no signer, no rule
    Sessions,     \* sets of commands: a behaviour's processes are asked those of one
    MaxOverlaps   \* bound: commands that start while another one runs

\* "key" entries are for trust rules, "vex" entries for scan policy rules.
Kind == {"key", "vex"}

\* What each signer of a rule refers to: a set of names, or None for no signer.
Parts == [Signer -> (SUBSET Name) \cup {None}]

Rule == [parts : Parts, require : Nat]

\* --require is a number, 0 for "all", or None when the flag is not given.
CommandType ==
    [op : {"add"}, kind : Kind, name : Name, content : Content]
    \cup [op : {"remove"}, kind : Kind, name : Name]
    \cup [op : {"create"}, kind : {"key"}, match : Match, signer : Signer,
          names : SUBSET Name, require : Nat \cup {None}]
    \cup [op : {"policy"}, kind : {"vex"}, match : Match, names : SUBSET Name]
    \cup [op : {"unsign"}, kind : {"key"}, match : Match, signer : Signer]
    \cup [op : {"drop"}, kind : Kind, match : Match]
    \cup [op : {"pull"}, kind : {"key"}]

ASSUME ConstantsAssumption ==
    /\ IsFiniteSet(Signer)
    /\ Unnamed \in Signer
    /\ None \notin Content \cup Rule
    /\ \A names \in SUBSET Name : names # None
    /\ \A commands \in Sessions : commands \subseteq CommandType
    /\ MaxOverlaps \in Nat

VARIABLES
    index,      \* of each kind, the content each name refers to, or None
    copies,     \* of each kind, the contents a stored copy exists of
    rules,      \* of each kind, the rule file: a rule for each match, or None
    pc,         \* what each process does next
    asked,      \* the commands processes may be asked, of Sessions
    cmd,        \* the command it runs
    entries,    \* the index it last read
    file,       \* the rule file it last read
    rule,       \* the rule it is to write, None to remove it
    todo,       \* the matches and signers whose names it has yet to resolve
    found,      \* the contents whose copies a pull is to give its plugins
    outcome,    \* how its last command ended
    overlaps    \* how many commands started while another one ran

stores == <<index, copies, rules>>
local == <<cmd, entries, file, rule, todo, found, outcome>>
vars == <<asked, stores, pc, local, overlaps>>

Labels == {"idle", "store_copy", "check_users", "read_index", "write_index",
           "discard", "read_rule", "resolve", "read_file", "write_file",
           "read_rules", "find_keys", "open_copies"}

Indexes == [Name -> Content \cup {None}]
Files == [Match -> Rule \cup {None}]

TypeOK ==
    /\ index \in [Kind -> Indexes]
    /\ copies \in [Kind -> SUBSET Content]
    /\ rules \in [Kind -> Files]
    /\ pc \in [Proc -> Labels]
    /\ asked \in Sessions
    /\ cmd \in [Proc -> asked \cup {None}]
    /\ entries \in [Proc -> Indexes]
    /\ file \in [Proc -> Files]
    /\ rule \in [Proc -> Rule \cup {None}]
    /\ todo \in [Proc -> SUBSET (Match \X Signer)]
    /\ found \in [Proc -> SUBSET Content]
    /\ outcome \in [Proc -> {"none", "done", "refused", "missing"}]
    /\ overlaps \in 0..MaxOverlaps

NoEntries == [n \in Name |-> None]
NoRules == [m \in Match |-> None]
NoParts == [s \in Signer |-> None]

Init ==
    /\ index = [k \in Kind |-> NoEntries]
    /\ copies = [k \in Kind |-> {}]
    /\ rules = [k \in Kind |-> NoRules]
    /\ asked \in Sessions
    /\ pc = [p \in Proc |-> "idle"]
    /\ cmd = [p \in Proc |-> None]
    /\ entries = [p \in Proc |-> NoEntries]
    /\ file = [p \in Proc |-> NoRules]
    /\ rule = [p \in Proc |-> None]
    /\ todo = [p \in Proc |-> {}]
    /\ found = [p \in Proc |-> {}]
    /\ outcome = [p \in Proc |-> "none"]
    /\ overlaps = 0

-----------------------------------------------------------------------------
(* Rules, and the helpers of namedstore.go and rules.go.                   *)

\* The names signer s of rule r refers to.
NamesOf(r, s) == IF r.parts[s] = None THEN {} ELSE r.parts[s]

\* rules.Users: some rule of file f refers to name n.
Used(f, n) == \E m \in Match : f[m] # None /\ \E s \in Signer : n \in NamesOf(f[m], s)

\* Store.Resolve: every name is in the index.
Resolves(entry, names) == \A n \in names : entry[n] # None

SignersOf(r) == {s \in Signer : r.parts[s] # None}

\* Rule.validate, on its own: signers there are, and enough of them.
Valid(r) == SignersOf(r) # {} /\ r.require <= Cardinality(SignersOf(r))

\* SetSigner and the flags of "trust create", on the rule there is or a new one.
Created(old, c) ==
    LET r == IF old = None THEN [parts |-> NoParts, require |-> 0] ELSE old
    IN  [parts |-> [r.parts EXCEPT ![c.signer] = c.names],
         require |-> IF c.require = None THEN r.require ELSE c.require]

WithoutSigner(r, s) == [r EXCEPT !.parts[s] = None]

\* The names of a rule for match m that SetRule has yet to find in the store.
Unresolved(m, r) == {<<m, s>> : s \in {t \in Signer : NamesOf(r, t) # {}}}

Goto(p, label) == pc' = [pc EXCEPT ![p] = label]

End(p, how) ==
    /\ Goto(p, "idle")
    /\ outcome' = [outcome EXCEPT ![p] = how]
    /\ cmd' = [cmd EXCEPT ![p] = None]
    /\ entries' = [entries EXCEPT ![p] = NoEntries]
    /\ file' = [file EXCEPT ![p] = NoRules]
    /\ rule' = [rule EXCEPT ![p] = None]
    /\ todo' = [todo EXCEPT ![p] = {}]
    /\ found' = [found EXCEPT ![p] = {}]

\* SetRule with a rule computed for p's match: it must be valid on its own.
SetRule(p, r) ==
    IF Valid(r)
    THEN /\ rule' = [rule EXCEPT ![p] = r]
         /\ todo' = [todo EXCEPT ![p] = Unresolved(cmd[p].match, r)]
         /\ Goto(p, IF Unresolved(cmd[p].match, r) = {} THEN "read_file" ELSE "resolve")
         /\ UNCHANGED <<cmd, entries, file, found, outcome>>
    ELSE End(p, "refused")

-----------------------------------------------------------------------------
(* What some steps would be with a plausible bug.  No behaviour of the     *)
(* specification takes these; each shows that a property would catch the   *)
(* bug, in place of the step its name starts with.                         *)

\* A copy is stored under the entry's name, not its content's hash.
StoreCopy_Named(p) ==
    /\ pc[p] = "store_copy"
    /\ copies' = [copies EXCEPT ![cmd[p].kind] = @ \cup {cmd[p].name}]
    /\ Goto(p, "read_index")
    /\ UNCHANGED <<index, rules, local, overlaps>>

\* An entry goes whether or not a rule uses it.
CheckUsers_Unchecked(p) ==
    /\ pc[p] = "check_users"
    /\ Goto(p, "read_index")
    /\ UNCHANGED <<stores, local, overlaps>>

\* The copy of a replaced content goes, whoever else refers to it.
DiscardCopy_Shared(p) ==
    /\ pc[p] = "discard"
    /\ copies' = [copies EXCEPT ![cmd[p].kind] = @ \ {entries[p][cmd[p].name]}]
    /\ End(p, "done")
    /\ UNCHANGED <<index, rules, overlaps>>

\* A signer goes whatever number of them the rule requires.
ReadRule_Unmet(p) ==
    /\ pc[p] = "read_rule"
    /\ LET c == cmd[p]
           old == rules["key"][c.match]
       IN  IF c.op = "create"
           THEN SetRule(p, Created(old, c))
           ELSE IF old = None \/ old.parts[c.signer] = None
           THEN End(p, "refused")
           ELSE /\ Goto(p, "read_file")
                /\ rule' = [rule EXCEPT ![p] = IF SignersOf(old) = {c.signer} THEN None
                                               ELSE WithoutSigner(old, c.signer)]
                /\ UNCHANGED <<cmd, entries, file, todo, found, outcome>>
    /\ UNCHANGED <<stores, overlaps>>

\* The rule file is written with the one rule in it.
WriteFile_Alone(p) ==
    /\ pc[p] = "write_file"
    /\ rules' = [rules EXCEPT ![cmd[p].kind] =
                     [NoRules EXCEPT ![cmd[p].match] = rule[p]]]
    /\ End(p, "done")
    /\ UNCHANGED <<index, copies, overlaps>>

-----------------------------------------------------------------------------
(* The commands.                                                           *)

FirstStep ==
    [add |-> "store_copy", remove |-> "check_users", create |-> "read_rule",
     unsign |-> "read_rule", policy |-> "resolve", drop |-> "read_file",
     pull |-> "read_rules"]

\* A process starts on command c.  "security policy create" replaces the whole
\* rule, so it has it before it reads anything.
Start(p, c) ==
    /\ pc[p] = "idle"
    /\ overlaps' = IF \A q \in Proc : pc[q] = "idle" THEN overlaps ELSE overlaps + 1
    /\ overlaps' <= MaxOverlaps
    /\ cmd' = [cmd EXCEPT ![p] = c]
    /\ outcome' = [outcome EXCEPT ![p] = "none"]
    /\ IF c.op = "policy"
       THEN LET r == [parts |-> [NoParts EXCEPT ![Unnamed] = c.names], require |-> 0]
            IN  /\ rule' = [rule EXCEPT ![p] = r]
                /\ todo' = [todo EXCEPT ![p] = Unresolved(c.match, r)]
                /\ Goto(p, IF c.names = {} THEN "read_file" ELSE "resolve")
       ELSE Goto(p, FirstStep[c.op]) /\ UNCHANGED <<rule, todo>>
    /\ UNCHANGED <<stores, entries, file, found>>

\* Add writes the copy before the index that refers to it.
StoreCopy(p) ==
    /\ pc[p] = "store_copy"
    /\ copies' = [copies EXCEPT ![cmd[p].kind] = @ \cup {cmd[p].content}]
    /\ Goto(p, "read_index")
    /\ UNCHANGED <<index, rules, local, overlaps>>

\* RemoveKey and RemoveVEX refuse while a rule uses the entry.
CheckUsers(p) ==
    /\ pc[p] = "check_users"
    /\ IF Used(rules[cmd[p].kind], cmd[p].name)
       THEN End(p, "refused")
       ELSE Goto(p, "read_index") /\ UNCHANGED local
    /\ UNCHANGED <<stores, overlaps>>

\* Add and Remove read the index they are to change; Remove needs the entry.
ReadIndex(p) ==
    /\ pc[p] = "read_index"
    /\ IF cmd[p].op = "remove" /\ index[cmd[p].kind][cmd[p].name] = None
       THEN End(p, "refused")
       ELSE /\ entries' = [entries EXCEPT ![p] = index[cmd[p].kind]]
            /\ Goto(p, "write_index")
            /\ UNCHANGED <<cmd, file, rule, todo, found, outcome>>
    /\ UNCHANGED <<stores, overlaps>>

\* The index as p means to write it.
NewIndex(p) ==
    [entries[p] EXCEPT ![cmd[p].name] = IF cmd[p].op = "add" THEN cmd[p].content ELSE None]

WriteIndex(p) ==
    /\ pc[p] = "write_index"
    /\ index' = [index EXCEPT ![cmd[p].kind] = NewIndex(p)]
    /\ IF entries[p][cmd[p].name] = None
       THEN End(p, "done")
       ELSE Goto(p, "discard") /\ UNCHANGED local
    /\ UNCHANGED <<copies, rules, overlaps>>

\* removeUnreferenced: by the index p has just written, not the one there is.
DiscardCopy(p) ==
    /\ pc[p] = "discard"
    /\ LET old == entries[p][cmd[p].name]
           referenced == \E n \in Name : NewIndex(p)[n] = old
       IN  copies' = IF referenced THEN copies
                     ELSE [copies EXCEPT ![cmd[p].kind] = @ \ {old}]
    /\ End(p, "done")
    /\ UNCHANGED <<index, rules, overlaps>>

\* UpdateRule and RemoveSigner: a rule from the one there is.  A rule's last
\* signer takes the rule with it.
ReadRule(p) ==
    /\ pc[p] = "read_rule"
    /\ LET c == cmd[p]
           old == rules["key"][c.match]
       IN  IF c.op = "create"
           THEN SetRule(p, Created(old, c))
           ELSE IF old = None \/ old.parts[c.signer] = None
           THEN End(p, "refused")
           ELSE IF SignersOf(old) = {c.signer}
           THEN Goto(p, "read_file") /\ UNCHANGED local
           ELSE SetRule(p, WithoutSigner(old, c.signer))
    /\ UNCHANGED <<stores, overlaps>>

\* SetRule looks up the names of one signer, in an index it reads for it.
Resolve(p, m, s) ==
    /\ pc[p] = "resolve"
    /\ <<m, s>> \in todo[p]
    /\ IF Resolves(index[cmd[p].kind], NamesOf(rule[p], s))
       THEN /\ todo' = [todo EXCEPT ![p] = @ \ {<<m, s>>}]
            /\ Goto(p, IF todo[p] = {<<m, s>>} THEN "read_file" ELSE "resolve")
            /\ UNCHANGED <<cmd, entries, file, rule, found, outcome>>
       ELSE End(p, "refused")
    /\ UNCHANGED <<stores, overlaps>>

\* rules.File's Set and Remove read the file again; Remove needs the rule.
ReadFile(p) ==
    /\ pc[p] = "read_file"
    /\ IF rule[p] = None /\ rules[cmd[p].kind][cmd[p].match] = None
       THEN End(p, "refused")
       ELSE /\ file' = [file EXCEPT ![p] = rules[cmd[p].kind]]
            /\ Goto(p, "write_file")
            /\ UNCHANGED <<cmd, entries, rule, todo, found, outcome>>
    /\ UNCHANGED <<stores, overlaps>>

WriteFile(p) ==
    /\ pc[p] = "write_file"
    /\ rules' = [rules EXCEPT ![cmd[p].kind] = [file[p] EXCEPT ![cmd[p].match] = rule[p]]]
    /\ End(p, "done")
    /\ UNCHANGED <<index, copies, overlaps>>

\* ReadResolved, of a pull: every rule must be valid before any key is looked up.
ReadRules(p) ==
    /\ pc[p] = "read_rules"
    /\ LET f == rules["key"]
           keyed == UNION {Unresolved(m, f[m]) : m \in {n \in Match : f[n] # None}}
       IN  IF \E m \in Match : f[m] # None /\ ~Valid(f[m])
           THEN End(p, "refused")
           ELSE IF keyed = {}
           THEN End(p, "done")
           ELSE /\ file' = [file EXCEPT ![p] = f]
                /\ todo' = [todo EXCEPT ![p] = keyed]
                /\ Goto(p, "find_keys")
                /\ UNCHANGED <<cmd, entries, rule, found, outcome>>
    /\ UNCHANGED <<stores, overlaps>>

\* ResolveKeyOptions, of one signer: a name without an entry fails the pull.
FindKeys(p, m, s) ==
    /\ pc[p] = "find_keys"
    /\ <<m, s>> \in todo[p]
    /\ LET names == NamesOf(file[p][m], s)
       IN  IF Resolves(index["key"], names)
           THEN /\ found' = [found EXCEPT ![p] = @ \cup {index["key"][n] : n \in names}]
                /\ todo' = [todo EXCEPT ![p] = @ \ {<<m, s>>}]
                /\ Goto(p, IF todo[p] = {<<m, s>>} THEN "open_copies" ELSE "find_keys")
                /\ UNCHANGED <<cmd, entries, file, rule, outcome>>
           ELSE End(p, "missing")
    /\ UNCHANGED <<stores, overlaps>>

\* The signing plugins are run with the copies' paths.
OpenCopies(p) ==
    /\ pc[p] = "open_copies"
    /\ End(p, IF found[p] \subseteq copies["key"] THEN "done" ELSE "missing")
    /\ UNCHANGED <<stores, overlaps>>

\* The process dies, or a write of its fails: the file it was to replace stays.
Stop(p) ==
    /\ pc[p] # "idle"
    /\ End(p, "none")
    /\ UNCHANGED <<stores, overlaps>>

Step(p) ==
    \/ \E c \in asked : Start(p, c)
    \/ StoreCopy(p) \/ CheckUsers(p) \/ ReadIndex(p) \/ WriteIndex(p) \/ DiscardCopy(p)
    \/ ReadRule(p) \/ ReadFile(p) \/ WriteFile(p)
    \/ \E m \in Match, s \in Signer : Resolve(p, m, s) \/ FindKeys(p, m, s)
    \/ ReadRules(p) \/ OpenCopies(p) \/ Stop(p)

Next == (\E p \in Proc : Step(p)) /\ UNCHANGED asked

Spec == Init /\ [][Next]_vars

-----------------------------------------------------------------------------
(* Properties.  InTurn: no command has yet started while another one ran.  *)

InTurn == overlaps = 0

NamesHeld ==
    \A k \in Kind, m \in Match : rules[k][m] # None =>
        \A s \in Signer : Resolves(index[k], NamesOf(rules[k][m], s))

\* "So no rule is left pointing at nothing": whatever rules were set, entries
\* replaced and removed, and processes stopped half way, every name a rule uses
\* is in its store, as long as commands ran one after another (RemoveKey,
\* RemoveVEX, SetRule).
RulesHold == InTurn => NamesHeld

\* Every entry's stored copy exists.
CopiesHeld == \A k \in Kind, n \in Name : index[k][n] # None => index[k][n] \in copies[k]

\* A pull then never finds a key of a rule, or the copy of it, gone: replacing
\* and removing entries only discards copies that no entry refers to.
PullsFindKeys == InTurn => \A p \in Proc : outcome[p] # "missing"

\* Whatever commands overlap, a trust rule can be met: it has signers, and never
\* asks for more of them than it has.
RulesMeetable == \A m \in Match : rules["key"][m] # None => Valid(rules["key"][m])

Book == INSTANCE RuleBook

\* In turn, each command takes effect in one step of the rule book, or not at
\* all when it is refused or its process stops.
CommandsAtomic == [][InTurn => Book!Next \/ UNCHANGED Book!vars]_vars

\* The same of commands that overlap: no update of an index or a rule file lost.
UpdatesKept == [][Book!Next \/ UNCHANGED Book!vars]_vars

=============================================================================

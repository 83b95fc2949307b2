-------------------------- MODULE NamedStoreProofs --------------------------
(***************************************************************************)
(* What TLAPS proves of NamedStore, for any number of processes, names,    *)
(* contents, matches and signers, and any bound on overlaps.               *)
(***************************************************************************)
EXTENDS NamedStore, TLAPS

Op == {"add", "remove", "create", "policy", "unsign", "drop", "pull"}

\* What a command of each operation carries.
LEMMA CommandFields ==
    ASSUME NEW c \in CommandType
    PROVE  /\ c.op \in Op
           /\ c.kind \in Kind
           /\ c.op \in {"add", "remove"} => c.name \in Name
           /\ c.op = "add" => c.content \in Content
           /\ c.op \in {"create", "policy", "unsign", "drop"} => c.match \in Match
           /\ c.op \in {"create", "unsign"} => c.signer \in Signer /\ c.kind = "key"
           /\ c.op \in {"create", "policy"} => c.names \in SUBSET Name
           /\ c.op = "create" => c.require \in Nat \cup {None}
           /\ c.op = "policy" => c.kind = "vex"
BY DEF CommandType, Op, Kind

\* Which operation a process is on at each label.
Labelled ==
  \A p \in Proc :
    /\ pc[p] = "idle" => rule[p] = None
    /\ pc[p] # "idle" =>
        /\ cmd[p] \in CommandType
        /\ pc[p] = "store_copy" => cmd[p].op = "add"
        /\ pc[p] = "check_users" => cmd[p].op = "remove"
        /\ pc[p] \in {"read_index", "write_index", "discard"} => cmd[p].op \in {"add", "remove"}
        /\ pc[p] = "read_rule" => cmd[p].op \in {"create", "unsign"}
        /\ pc[p] = "resolve" => cmd[p].op \in {"create", "unsign", "policy"} /\ rule[p] # None
        /\ pc[p] \in {"read_file", "write_file"} =>
               cmd[p].op \in {"create", "unsign", "policy", "drop"}
        /\ pc[p] = "read_rule" => rule[p] = None
        /\ pc[p] = "write_index" /\ cmd[p].op = "remove" => entries[p][cmd[p].name] # None
        /\ pc[p] = "write_file" /\ rule[p] = None => file[p][cmd[p].match] # None
        /\ pc[p] = "find_keys" => \A m \in Match, s \in Signer :
               <<m, s>> \in todo[p] => file[p][m] # None

TypeInv == TypeOK /\ Labelled

LEMMA NamesTyped ==
    ASSUME NEW r \in Rule, NEW s \in Signer
    PROVE  NamesOf(r, s) \in SUBSET Name
BY DEF Rule, Parts, NamesOf

LEMMA CreatedTyped ==
    ASSUME NEW old \in Rule \cup {None}, NEW c \in CommandType, c.op = "create"
    PROVE  Created(old, c) \in Rule
<1>1. c.signer \in Signer /\ c.names \in SUBSET Name /\ c.require \in Nat \cup {None}
  BY CommandFields
<1>2. CASE old = None
  BY <1>1, <1>2 DEF Created, Rule, Parts, NoParts
<1>3. CASE old # None
  <2>1. old.parts \in Parts /\ old.require \in Nat
    BY <1>3 DEF Rule
  <2>2. [old.parts EXCEPT ![c.signer] = c.names] \in Parts
    BY <1>1, <2>1 DEF Parts
  <2>3. (IF c.require = None THEN old.require ELSE c.require) \in Nat
    BY <1>1, <2>1
  <2>4. QED
    BY <1>3, <2>2, <2>3 DEF Created, Rule
<1>4. QED
  BY <1>2, <1>3

LEMMA WithoutSignerTyped ==
    ASSUME NEW r \in Rule, NEW s \in Signer
    PROVE  WithoutSigner(r, s) \in Rule
BY DEF WithoutSigner, Rule, Parts

LEMMA UnresolvedTyped ==
    ASSUME NEW m \in Match, NEW r
    PROVE  Unresolved(m, r) \in SUBSET (Match \X Signer)
BY DEF Unresolved

-----------------------------------------------------------------------------
(***************************************************************************)
(* Type correctness, together with what a process at each label is doing.  *)
(***************************************************************************)

\* A process that ends its command leaves every other process as it was.
LEMMA EndTyped ==
    ASSUME TypeInv, NEW p \in Proc, NEW how \in {"none", "done", "refused", "missing"},
           End(p, how), UNCHANGED <<stores, asked, overlaps>>
    PROVE  TypeInv'
BY DEF TypeInv, TypeOK, Labelled, End, Goto, Labels, stores, Indexes, Files,
       NoEntries, NoRules

\* What SetRule leaves for the steps after it.
LEMMA SetRuleTyped ==
    ASSUME TypeInv, NEW p \in Proc, pc[p] = "read_rule", NEW r \in Rule, r # None,
           SetRule(p, r), UNCHANGED <<stores, asked, overlaps>>
    PROVE  TypeInv'
<1>1. CASE Valid(r)
  <2>1. cmd[p].match \in Match /\ cmd[p] \in CommandType /\ cmd[p].op \in {"create", "unsign"}
    BY CommandFields DEF TypeInv, Labelled
  <2>2. Unresolved(cmd[p].match, r) \in SUBSET (Match \X Signer)
    BY <2>1, UnresolvedTyped
  <2>3. QED
    BY <1>1, <2>1, <2>2 DEF SetRule, TypeInv, TypeOK, Labelled, Goto, Labels, stores
<1>2. CASE ~Valid(r)
  BY <1>2, EndTyped DEF SetRule
<1>3. QED
  BY <1>1, <1>2

LEMMA TypeStep ==
    ASSUME TypeInv, NEW p \in Proc, Step(p), UNCHANGED asked
    PROVE  TypeInv'
<1> USE DEF Goto, stores, local
<1>0. /\ pc[p] # "idle" => cmd[p] \in CommandType
      /\ asked \subseteq CommandType
  BY ConstantsAssumption DEF TypeInv, TypeOK, Labelled
<1>1. ASSUME NEW c \in asked, Start(p, c)
      PROVE  TypeInv'
  <2>1. c \in CommandType /\ c.op \in Op
    BY <1>0, CommandFields
  <2>2. overlaps' \in 0..MaxOverlaps
    BY <1>1, ConstantsAssumption DEF Start, TypeInv, TypeOK
  <2>3. CASE c.op = "policy"
    <3> DEFINE r == [parts |-> [NoParts EXCEPT ![Unnamed] = c.names], require |-> 0]
    <3>1. r \in Rule /\ c.match \in Match
      BY <2>1, <2>3, CommandFields, ConstantsAssumption DEF Rule, Parts, NoParts
    <3>2. Unresolved(c.match, r) \in SUBSET (Match \X Signer)
      BY <3>1, UnresolvedTyped
    <3>3. r # None
      BY <3>1, ConstantsAssumption
    <3>4. /\ cmd' = [cmd EXCEPT ![p] = c]
          /\ outcome' = [outcome EXCEPT ![p] = "none"]
          /\ rule' = [rule EXCEPT ![p] = r]
          /\ todo' = [todo EXCEPT ![p] = Unresolved(c.match, r)]
          /\ UNCHANGED <<stores, entries, file, found>>
      BY <1>1, <2>3 DEF Start
    <3>5. PICK label \in {"read_file", "resolve"} : pc' = [pc EXCEPT ![p] = label]
      BY <1>1, <2>3 DEF Start
    <3> HIDE DEF r
    <3>6. TypeOK'
      BY <2>1, <2>2, <3>1, <3>2, <3>4, <3>5 DEF TypeInv, TypeOK, Labels
    <3>7. Labelled'
      BY <2>1, <2>3, <3>3, <3>4, <3>5 DEF TypeInv, TypeOK, Labelled
    <3>8. QED
      BY <3>6, <3>7 DEF TypeInv
  <2>4. CASE c.op # "policy"
    <3>1. /\ FirstStep[c.op] \in Labels \ {"resolve", "find_keys"}
          /\ FirstStep[c.op] = "store_copy" => c.op = "add"
          /\ FirstStep[c.op] = "check_users" => c.op = "remove"
          /\ FirstStep[c.op] \notin {"read_index", "write_index", "discard", "write_file"}
          /\ FirstStep[c.op] = "read_rule" => c.op \in {"create", "unsign"}
          /\ FirstStep[c.op] = "read_file" => c.op = "drop"
      BY <2>1, <2>4 DEF Op, FirstStep, Labels
    <3>2. QED
      BY <1>1, <2>1, <2>2, <2>4, <3>1 DEF Start, TypeInv, TypeOK, Labelled
  <2>5. QED
    BY <2>3, <2>4
<1>2. ASSUME StoreCopy(p)
      PROVE  TypeInv'
  <2>1. cmd[p].kind \in Kind /\ cmd[p].content \in Content
    BY <1>0, <1>2, CommandFields DEF StoreCopy, TypeInv, Labelled
  <2>2. QED
    BY <1>2, <2>1 DEF StoreCopy, TypeInv, TypeOK, Labelled, Labels
<1>3. ASSUME CheckUsers(p)
      PROVE  TypeInv'
  <2>1. CASE Used(rules[cmd[p].kind], cmd[p].name)
    BY <1>3, <2>1, EndTyped DEF CheckUsers
  <2>2. CASE ~Used(rules[cmd[p].kind], cmd[p].name)
    BY <1>3, <2>2 DEF CheckUsers, TypeInv, TypeOK, Labelled, Labels
  <2>3. QED
    BY <2>1, <2>2
<1>4. ASSUME ReadIndex(p)
      PROVE  TypeInv'
  <2>1. index[cmd[p].kind] \in Indexes
    BY <1>0, <1>4, CommandFields DEF ReadIndex, TypeInv, TypeOK
  <2>2. CASE cmd[p].op = "remove" /\ index[cmd[p].kind][cmd[p].name] = None
    BY <1>4, <2>2, EndTyped DEF ReadIndex
  <2>3. CASE ~(cmd[p].op = "remove" /\ index[cmd[p].kind][cmd[p].name] = None)
    <3>1. /\ entries' = [entries EXCEPT ![p] = index[cmd[p].kind]]
          /\ pc' = [pc EXCEPT ![p] = "write_index"] /\ pc[p] = "read_index"
          /\ UNCHANGED <<cmd, file, rule, todo, found, outcome, stores, overlaps>>
      BY <1>4, <2>3 DEF ReadIndex
    <3>2. TypeOK'
      BY <2>1, <3>1 DEF TypeInv, TypeOK, Labels
    <3>3. cmd[p].op = "remove" => entries'[p][cmd[p].name] # None
      BY <2>3, <3>1 DEF TypeInv, TypeOK
    <3>4. Labelled'
      BY <3>1, <3>3 DEF TypeInv, TypeOK, Labelled
    <3>5. QED
      BY <3>2, <3>4 DEF TypeInv
  <2>4. QED
    BY <2>2, <2>3
<1>5. ASSUME WriteIndex(p)
      PROVE  TypeInv'
  <2>1. /\ cmd[p].kind \in Kind /\ cmd[p].name \in Name
        /\ cmd[p].op = "add" => cmd[p].content \in Content
    BY <1>0, <1>5, CommandFields DEF WriteIndex, TypeInv, Labelled
  <2>2. NewIndex(p) \in Indexes
    BY <2>1 DEF NewIndex, TypeInv, TypeOK, Indexes
  <2>3. index' \in [Kind -> Indexes] /\ UNCHANGED <<copies, rules, asked, overlaps>>
    BY <1>5, <2>2 DEF WriteIndex, TypeInv, TypeOK
  <2>4. CASE entries[p][cmd[p].name] = None
    <3>1. End(p, "done")
      BY <1>5, <2>4 DEF WriteIndex
    <3>2. QED
      BY <2>3, <3>1 DEF TypeInv, TypeOK, Labelled, End, Labels, Indexes, Files,
                        NoEntries, NoRules
  <2>5. CASE entries[p][cmd[p].name] # None
    BY <1>5, <2>3, <2>5 DEF WriteIndex, TypeInv, TypeOK, Labelled, Labels
  <2>6. QED
    BY <2>4, <2>5
<1>6. ASSUME DiscardCopy(p)
      PROVE  TypeInv'
  <2>1. copies' \in [Kind -> SUBSET Content] /\ UNCHANGED <<index, rules, asked, overlaps>>
    BY <1>6 DEF DiscardCopy, TypeInv, TypeOK
  <2>2. End(p, "done")
    BY <1>6 DEF DiscardCopy
  <2>3. QED
    BY <2>1, <2>2 DEF TypeInv, TypeOK, Labelled, End, Labels, Indexes, Files,
                      NoEntries, NoRules
<1>7. ASSUME ReadRule(p)
      PROVE  TypeInv'
  <2> DEFINE old == rules["key"][cmd[p].match]
  <2>1. /\ cmd[p].op \in {"create", "unsign"} /\ cmd[p] \in CommandType
        /\ cmd[p].match \in Match /\ cmd[p].signer \in Signer
    BY <1>0, <1>7, CommandFields DEF ReadRule, TypeInv, Labelled
  <2>2. old \in Rule \cup {None}
    BY <2>1 DEF TypeInv, TypeOK, Files, Kind
  <2>3. CASE cmd[p].op = "create"
    <3>1. Created(old, cmd[p]) \in Rule /\ Created(old, cmd[p]) # None
      BY <2>1, <2>2, <2>3, CreatedTyped, ConstantsAssumption
    <3>2. QED
      BY <1>7, <2>3, <3>1, SetRuleTyped DEF ReadRule
  <2>4. CASE cmd[p].op # "create" /\ (old = None \/ old.parts[cmd[p].signer] = None)
    BY <1>7, <2>4, EndTyped DEF ReadRule
  <2>5. CASE /\ cmd[p].op # "create" /\ ~(old = None \/ old.parts[cmd[p].signer] = None)
             /\ SignersOf(old) = {cmd[p].signer}
    BY <1>7, <2>1, <2>5 DEF ReadRule, TypeInv, TypeOK, Labelled, Labels
  <2>6. CASE /\ cmd[p].op # "create" /\ ~(old = None \/ old.parts[cmd[p].signer] = None)
             /\ SignersOf(old) # {cmd[p].signer}
    <3>1. WithoutSigner(old, cmd[p].signer) \in Rule
      BY <2>1, <2>2, <2>6, WithoutSignerTyped
    <3>2. WithoutSigner(old, cmd[p].signer) # None
      BY <3>1, ConstantsAssumption
    <3>3. QED
      BY <1>7, <2>6, <3>1, <3>2, SetRuleTyped DEF ReadRule
  <2>7. QED
    BY <2>3, <2>4, <2>5, <2>6
<1>8. ASSUME NEW m \in Match, NEW s \in Signer, Resolve(p, m, s)
      PROVE  TypeInv'
  <2>1. CASE Resolves(index[cmd[p].kind], NamesOf(rule[p], s))
    BY <1>8, <2>1 DEF Resolve, TypeInv, TypeOK, Labelled, Labels
  <2>2. CASE ~Resolves(index[cmd[p].kind], NamesOf(rule[p], s))
    BY <1>8, <2>2, EndTyped DEF Resolve
  <2>3. QED
    BY <2>1, <2>2
<1>9. ASSUME ReadFile(p)
      PROVE  TypeInv'
  <2>1. rules[cmd[p].kind] \in Files
    BY <1>0, <1>9, CommandFields DEF ReadFile, TypeInv, TypeOK
  <2>2. CASE rule[p] = None /\ rules[cmd[p].kind][cmd[p].match] = None
    BY <1>9, <2>2, EndTyped DEF ReadFile
  <2>3. CASE ~(rule[p] = None /\ rules[cmd[p].kind][cmd[p].match] = None)
    BY <1>9, <2>1, <2>3 DEF ReadFile, TypeInv, TypeOK, Labelled, Labels
  <2>4. QED
    BY <2>2, <2>3
<1>10. ASSUME WriteFile(p)
       PROVE  TypeInv'
  <2>1. cmd[p].kind \in Kind /\ cmd[p].match \in Match
    BY <1>0, <1>10, CommandFields DEF WriteFile, TypeInv, Labelled
  <2>2. [file[p] EXCEPT ![cmd[p].match] = rule[p]] \in Files
    BY DEF TypeInv, TypeOK, Files
  <2>3. rules' \in [Kind -> Files] /\ UNCHANGED <<index, copies, asked, overlaps>>
    BY <1>10, <2>2 DEF WriteFile, TypeInv, TypeOK
  <2>4. End(p, "done")
    BY <1>10 DEF WriteFile
  <2>5. QED
    BY <2>3, <2>4 DEF TypeInv, TypeOK, Labelled, End, Labels, Indexes, Files,
                      NoEntries, NoRules
<1>11. ASSUME ReadRules(p)
       PROVE  TypeInv'
  <2> DEFINE f == rules["key"]
             keyed == UNION {Unresolved(m, f[m]) : m \in {n \in Match : f[n] # None}}
  <2>1. f \in Files /\ keyed \in SUBSET (Match \X Signer)
    BY DEF TypeInv, TypeOK, Kind, Unresolved
  <2>2. \A m \in Match, s \in Signer : <<m, s>> \in keyed => f[m] # None
    BY DEF Unresolved
  <2>3. CASE (\E m \in Match : f[m] # None /\ ~Valid(f[m])) \/ keyed = {}
    BY <1>11, <2>3, EndTyped DEF ReadRules
  <2>4. CASE ~((\E m \in Match : f[m] # None /\ ~Valid(f[m])) \/ keyed = {})
    <3>1. /\ file' = [file EXCEPT ![p] = f]
          /\ todo' = [todo EXCEPT ![p] = keyed]
          /\ pc' = [pc EXCEPT ![p] = "find_keys"]
          /\ UNCHANGED <<cmd, entries, rule, found, outcome, stores, overlaps>>
      BY <1>11, <2>4 DEF ReadRules
    <3>2. pc[p] = "read_rules"
      BY <1>11 DEF ReadRules
    <3> HIDE DEF f, keyed
    <3>3. QED
      BY <1>0, <2>1, <2>2, <3>1, <3>2 DEF TypeInv, TypeOK, Labelled, Labels
  <2>5. QED
    BY <2>3, <2>4
<1>12. ASSUME NEW m \in Match, NEW s \in Signer, FindKeys(p, m, s)
       PROVE  TypeInv'
  <2> DEFINE names == NamesOf(file[p][m], s)
  <2>1. CASE Resolves(index["key"], names)
    <3>1. file[p][m] \in Rule
      <4>1. pc[p] = "find_keys" /\ <<m, s>> \in todo[p]
        BY <1>12 DEF FindKeys
      <4>2. file[p][m] # None
        BY <4>1 DEF TypeInv, Labelled
      <4>3. file[p] \in Files
        BY DEF TypeInv, TypeOK
      <4>4. QED
        BY <4>2, <4>3 DEF Files
    <3>2. names \in SUBSET Name
      BY <3>1, NamesTyped
    <3>3. {index["key"][n] : n \in names} \in SUBSET Content
      BY <2>1, <3>2 DEF Resolves, TypeInv, TypeOK, Indexes, Kind
    <3>4. PICK label \in {"find_keys", "open_copies"} :
              /\ pc[p] = "find_keys" /\ pc' = [pc EXCEPT ![p] = label]
              /\ todo' = [todo EXCEPT ![p] = @ \ {<<m, s>>}]
              /\ UNCHANGED <<cmd, entries, file, rule, outcome, stores, overlaps>>
      BY <1>12, <2>1 DEF FindKeys
    <3>5. found' \in [Proc -> SUBSET Content]
      BY <1>12, <2>1, <3>3 DEF FindKeys, TypeInv, TypeOK
    <3>6. TypeOK'
      BY <3>4, <3>5 DEF TypeInv, TypeOK, Labels
    <3>7. Labelled'
      BY <3>4 DEF TypeInv, TypeOK, Labelled
    <3>8. QED
      BY <3>6, <3>7 DEF TypeInv
  <2>2. CASE ~Resolves(index["key"], names)
    BY <1>12, <2>2, EndTyped DEF FindKeys
  <2>3. QED
    BY <2>1, <2>2
<1>13. ASSUME OpenCopies(p) \/ Stop(p)
       PROVE  TypeInv'
  BY <1>13, EndTyped DEF OpenCopies, Stop
<1>14. QED
  BY <1>1, <1>2, <1>3, <1>4, <1>5, <1>6, <1>7, <1>8, <1>9, <1>10, <1>11, <1>12, <1>13
     DEF Step

LEMMA TypeInvariant == Spec => []TypeInv
<1>1. Init => TypeInv
  BY ConstantsAssumption
     DEF Init, TypeInv, TypeOK, Labelled, Labels, Indexes, Files, NoEntries, NoRules
<1>2. TypeInv /\ [Next]_vars => TypeInv'
  <2>1. CASE UNCHANGED vars
    BY <2>1 DEF vars, stores, local, TypeInv, TypeOK, Labelled
  <2>2. QED
    BY <2>1, TypeStep, ConstantsAssumption DEF Next
<1>3. QED
  BY <1>1, <1>2, PTL DEF Spec

\* The values of every variable stay of their types, however commands overlap.
THEOREM TypeCorrect == Spec => []TypeOK
BY TypeInvariant, PTL DEF TypeInv

-----------------------------------------------------------------------------
(***************************************************************************)
(* In turn.  What RulesHold needs of the command under way: an entry that  *)
(* is to go is used by no rule, the names of a rule that is to be written  *)
(* are in the store but for those yet to be resolved, and what was read of *)
(* an index or a rule file is still what is there.                         *)
(***************************************************************************)

Solo == \A p, q \in Proc : pc[p] # "idle" /\ pc[q] # "idle" => p = q

Sound(p) ==
    /\ pc[p] \in {"read_index", "write_index"} /\ cmd[p].op = "remove" =>
           ~Used(rules[cmd[p].kind], cmd[p].name)
    /\ pc[p] = "write_index" => entries[p] = index[cmd[p].kind]
    /\ pc[p] = "resolve" => \A s \in Signer :
           \/ <<cmd[p].match, s>> \in todo[p]
           \/ Resolves(index[cmd[p].kind], NamesOf(rule[p], s))
    /\ pc[p] \in {"read_file", "write_file"} /\ rule[p] # None => \A s \in Signer :
           Resolves(index[cmd[p].kind], NamesOf(rule[p], s))
    /\ pc[p] = "write_file" => file[p] = rules[cmd[p].kind]

TurnInv == InTurn => Solo /\ NamesHeld /\ \A p \in Proc : Sound(p)

\* A step moves its own process only.
LEMMA OneMoves ==
    ASSUME TypeInv, NEW p \in Proc, Step(p)
    PROVE  /\ \A q \in Proc \ {p} : pc'[q] = pc[q]
           /\ overlaps' # overlaps => overlaps' = overlaps + 1
           /\ pc[p] = "idle" /\ overlaps' = overlaps => \A q \in Proc : pc[q] = "idle"
<1> USE DEF TypeInv, TypeOK, Goto, End, SetRule, local, stores
<1>1. ASSUME NEW c \in asked, Start(p, c)
      PROVE  /\ \A q \in Proc \ {p} : pc'[q] = pc[q]
             /\ overlaps' # overlaps => overlaps' = overlaps + 1
             /\ overlaps' = overlaps => \A q \in Proc : pc[q] = "idle"
  BY <1>1 DEF Start
<1>2. CASE StoreCopy(p) \/ CheckUsers(p) \/ ReadIndex(p) \/ WriteIndex(p) \/ DiscardCopy(p)
  BY <1>2 DEF StoreCopy, CheckUsers, ReadIndex, WriteIndex, DiscardCopy
<1>3. CASE ReadRule(p) \/ ReadFile(p) \/ WriteFile(p)
  BY <1>3 DEF ReadRule, ReadFile, WriteFile
<1>4. ASSUME NEW m \in Match, NEW s \in Signer, Resolve(p, m, s) \/ FindKeys(p, m, s)
      PROVE  /\ pc[p] # "idle" /\ overlaps' = overlaps
             /\ \A q \in Proc \ {p} : pc'[q] = pc[q]
  BY <1>4 DEF Resolve, FindKeys
<1>5. CASE ReadRules(p) \/ OpenCopies(p) \/ Stop(p)
  BY <1>5 DEF ReadRules, OpenCopies, Stop
<1>6. QED
  BY <1>1, <1>2, <1>3, <1>4, <1>5 DEF Step

LEMMA TurnInit == Init => TurnInv
BY DEF Init, TurnInv, Solo, NamesHeld, Sound, NoRules

\* What is left to show of a step in turn: its own process's part.
LEMMA TurnStep ==
    ASSUME TypeInv, TypeInv', TurnInv, NEW p \in Proc, Step(p), InTurn'
    PROVE  NamesHeld' /\ Sound(p)'
<1>0. /\ InTurn /\ NamesHeld /\ Sound(p)
      /\ pc[p] # "idle" => cmd[p] \in CommandType
      /\ pc'[p] # "idle" => cmd'[p] \in CommandType
      /\ asked \subseteq CommandType
  BY OneMoves, ConstantsAssumption DEF TurnInv, InTurn, TypeInv, TypeOK, Labelled
<1> USE DEF Goto, stores, local
<1>1. ASSUME NEW c \in asked, Start(p, c)
      PROVE  NamesHeld' /\ Sound(p)'
  <2>1. c \in CommandType /\ c.op \in Op /\ UNCHANGED <<index, rules>>
    BY <1>0, <1>1, CommandFields DEF Start
  <2>2. NamesHeld'
    BY <1>0, <2>1 DEF NamesHeld
  <2>3. CASE c.op = "policy"
    <3> DEFINE r == [parts |-> [NoParts EXCEPT ![Unnamed] = c.names], require |-> 0]
    <3>1. cmd'[p] = c /\ rule'[p] = r /\ todo'[p] = Unresolved(c.match, r)
      BY <1>1, <2>3 DEF Start, TypeInv, TypeOK
    <3>2. pc'[p] = IF c.names = {} THEN "read_file" ELSE "resolve"
      BY <1>1, <2>3 DEF Start, TypeInv, TypeOK
    <3>3. \A s \in Signer : NamesOf(r, s) = IF s = Unnamed THEN c.names ELSE {}
      BY <2>1, <2>3, CommandFields, ConstantsAssumption DEF NamesOf, NoParts
    <3>4. \A s \in Signer : \/ <<c.match, s>> \in Unresolved(c.match, r)
                            \/ Resolves(index[c.kind], NamesOf(r, s))
      BY DEF Unresolved, Resolves
    <3>5. c.names = {} => \A s \in Signer : Resolves(index[c.kind], NamesOf(r, s))
      BY <3>3 DEF Resolves
    <3> HIDE DEF r
    <3>6. QED
      BY <2>1, <2>2, <3>1, <3>2, <3>4, <3>5 DEF Sound
  <2>4. CASE c.op # "policy"
    <3>1. FirstStep[c.op] \notin {"read_index", "write_index", "resolve", "write_file"}
      BY <2>1, <2>4 DEF Op, FirstStep
    <3>2. pc'[p] = FirstStep[c.op] /\ rule'[p] = rule[p]
      BY <1>1, <2>4 DEF Start, TypeInv, TypeOK
    <3>3. pc[p] = "idle"
      BY <1>1 DEF Start
    <3>4. rule[p] = None
      BY <3>3 DEF TypeInv, Labelled
    <3>5. /\ ~(pc'[p] \in {"read_index", "write_index"})
          /\ pc'[p] # "resolve" /\ pc'[p] # "write_file" /\ rule'[p] = None
      BY <3>1, <3>2, <3>4
    <3>6. QED
      BY <2>2, <3>5 DEF Sound
  <2>5. QED
    BY <2>3, <2>4
<1>2. ASSUME StoreCopy(p) \/ OpenCopies(p) \/ Stop(p) \/ DiscardCopy(p) \/ ReadRules(p)
      PROVE  NamesHeld' /\ Sound(p)'
  <2>1. UNCHANGED <<index, rules>>
    BY <1>2 DEF StoreCopy, OpenCopies, Stop, DiscardCopy, ReadRules
  <2>2. NamesHeld'
    BY <1>0, <2>1 DEF NamesHeld
  <2>3. CASE StoreCopy(p)
    <3>1. pc'[p] = "read_index" /\ cmd'[p].op = "add"
      BY <2>3 DEF StoreCopy, TypeInv, TypeOK, Labelled
    <3>2. QED
      BY <2>2, <3>1 DEF Sound
  <2>4. CASE OpenCopies(p) \/ Stop(p) \/ DiscardCopy(p)
    <3>1. pc'[p] = "idle"
      BY <2>4 DEF OpenCopies, Stop, DiscardCopy, End, TypeInv, TypeOK
    <3>2. QED
      BY <2>2, <3>1 DEF Sound
  <2>5. CASE ReadRules(p)
    <3>1. pc'[p] \in {"idle", "find_keys"}
      BY <2>5 DEF ReadRules, End, TypeInv, TypeOK
    <3>2. QED
      BY <2>2, <3>1 DEF Sound
  <2>6. QED
    BY <1>2, <2>3, <2>4, <2>5
<1>3. ASSUME CheckUsers(p)
      PROVE  NamesHeld' /\ Sound(p)'
  BY <1>0, <1>3 DEF CheckUsers, End, NamesHeld, Sound, TypeInv, TypeOK
<1>4. ASSUME ReadIndex(p)
      PROVE  NamesHeld' /\ Sound(p)'
  BY <1>0, <1>4 DEF ReadIndex, End, NamesHeld, Sound, TypeInv, TypeOK
<1>5. ASSUME WriteIndex(p)
      PROVE  NamesHeld' /\ Sound(p)'
  <2>1. /\ cmd[p].kind \in Kind /\ cmd[p].name \in Name /\ cmd[p].op \in {"add", "remove"}
        /\ cmd[p].op = "add" => cmd[p].content \in Content
    BY <1>0, <1>5, CommandFields DEF WriteIndex, TypeInv, Labelled
  <2>2. pc'[p] \in {"idle", "discard"} /\ UNCHANGED rules
    BY <1>5 DEF WriteIndex, End, TypeInv, TypeOK
  <2>3. entries[p] = index[cmd[p].kind]
    BY <1>0, <1>5 DEF WriteIndex, Sound
  <2>4. index' = [index EXCEPT ![cmd[p].kind] = NewIndex(p)]
    BY <1>5 DEF WriteIndex
  <2>5. \A n \in Name \ {cmd[p].name} : NewIndex(p)[n] = index[cmd[p].kind][n]
    BY <2>1, <2>3 DEF NewIndex, TypeInv, TypeOK, Indexes
  <2>6. cmd[p].op = "add" => NewIndex(p)[cmd[p].name] # None
    BY <2>1, <2>3, ConstantsAssumption DEF NewIndex, TypeInv, TypeOK, Indexes
  <2>7. cmd[p].op = "remove" => ~Used(rules[cmd[p].kind], cmd[p].name)
    BY <1>0, <1>5 DEF WriteIndex, Sound
  <2>8. ASSUME NEW k \in Kind, NEW m \in Match, rules[k][m] # None, NEW s \in Signer,
               NEW n \in NamesOf(rules[k][m], s)
        PROVE  index'[k][n] # None
    <3>1. rules[k][m] \in Rule
      BY <2>8 DEF TypeInv, TypeOK, Files
    <3>2. n \in Name
      BY <2>8, <3>1, NamesTyped
    <3>3. index[k][n] # None
      BY <1>0, <2>8 DEF NamesHeld, Resolves
    <3>4. CASE k # cmd[p].kind
      BY <2>4, <3>3, <3>4 DEF TypeInv, TypeOK
    <3>5. CASE k = cmd[p].kind /\ n # cmd[p].name
      BY <2>4, <2>5, <3>2, <3>3, <3>5 DEF TypeInv, TypeOK
    <3>6. CASE k = cmd[p].kind /\ n = cmd[p].name
      <4>1. cmd[p].op = "add"
        BY <2>1, <2>7, <2>8, <3>6 DEF Used
      <4>2. QED
        BY <2>4, <2>6, <3>6, <4>1 DEF TypeInv, TypeOK
    <3>7. QED
      BY <3>4, <3>5, <3>6
  <2>9. NamesHeld'
    BY <2>2, <2>8 DEF NamesHeld, Resolves
  <2>10. QED
    BY <2>2, <2>9 DEF Sound
<1>6. ASSUME ReadRule(p)
      PROVE  NamesHeld' /\ Sound(p)'
  <2>0. UNCHANGED <<index, rules>>
    BY <1>6 DEF ReadRule
  <2>1. NamesHeld'
    BY <1>0, <2>0 DEF NamesHeld
  <2>2. CASE \E r : SetRule(p, r)
    <3>1. PICK r : SetRule(p, r)
      BY <2>2
    <3>2. CASE Valid(r)
      <4>1. /\ cmd'[p] = cmd[p] /\ rule'[p] = r
            /\ todo'[p] = Unresolved(cmd[p].match, r)
            /\ pc'[p] = IF Unresolved(cmd[p].match, r) = {} THEN "read_file" ELSE "resolve"
        BY <3>1, <3>2 DEF SetRule, TypeInv, TypeOK
      <4>2. \A s \in Signer : \/ <<cmd[p].match, s>> \in Unresolved(cmd[p].match, r)
                              \/ Resolves(index[cmd[p].kind], NamesOf(r, s))
        BY DEF Unresolved, Resolves
      <4>3. QED
        BY <2>0, <2>1, <4>1, <4>2 DEF Sound
    <3>3. CASE ~Valid(r)
      <4>1. pc'[p] = "idle"
        BY <3>1, <3>3 DEF SetRule, End, TypeInv, TypeOK
      <4>2. QED
        BY <2>1, <4>1 DEF Sound
    <3>4. QED
      BY <3>2, <3>3
  <2>3. CASE ~\E r : SetRule(p, r)
    <3>1. pc[p] = "read_rule" /\ rule[p] = None
      BY <1>6 DEF ReadRule, TypeInv, Labelled
    <3> DEFINE old == rules["key"][cmd[p].match]
    <3>2. cmd[p].op # "create"
      BY <1>6, <2>3 DEF ReadRule
    <3>3. CASE old = None \/ old.parts[cmd[p].signer] = None
      <4>1. End(p, "refused")
        BY <1>6, <3>2, <3>3 DEF ReadRule
      <4>2. pc'[p] = "idle"
        BY <4>1 DEF End, TypeInv, TypeOK
      <4>3. QED
        BY <2>1, <4>2 DEF Sound
    <3>4. CASE ~(old = None \/ old.parts[cmd[p].signer] = None)
      <4>1. pc' = [pc EXCEPT ![p] = "read_file"] /\ rule' = rule
        BY <1>6, <2>3, <3>2, <3>4 DEF ReadRule
      <4>2. pc'[p] = "read_file" /\ rule'[p] = None
        BY <3>1, <4>1 DEF TypeInv, TypeOK
      <4>3. QED
        BY <2>1, <4>2 DEF Sound
    <3>5. QED
      BY <3>3, <3>4
  <2>4. QED
    BY <2>2, <2>3
<1>7. ASSUME NEW m \in Match, NEW s \in Signer, Resolve(p, m, s)
      PROVE  NamesHeld' /\ Sound(p)'
  <2>0. UNCHANGED <<index, rules>>
    BY <1>7 DEF Resolve
  <2>1. NamesHeld'
    BY <1>0, <2>0 DEF NamesHeld
  <2>2. CASE Resolves(index[cmd[p].kind], NamesOf(rule[p], s))
    <3>1. /\ pc[p] = "resolve" /\ cmd'[p] = cmd[p] /\ rule'[p] = rule[p]
          /\ todo'[p] = todo[p] \ {<<m, s>>}
          /\ pc'[p] = IF todo[p] = {<<m, s>>} THEN "read_file" ELSE "resolve"
      BY <1>7, <2>2 DEF Resolve, TypeInv, TypeOK
    <3>2. ASSUME NEW t \in Signer
          PROVE  \/ <<cmd[p].match, t>> \in todo'[p]
                 \/ Resolves(index[cmd[p].kind], NamesOf(rule[p], t))
      BY <1>0, <2>2, <3>1 DEF Sound
    <3>3. pc'[p] = "read_file" => todo'[p] = {}
      BY <3>1
    <3>4. QED
      BY <2>0, <2>1, <3>1, <3>2, <3>3 DEF Sound
  <2>3. CASE ~Resolves(index[cmd[p].kind], NamesOf(rule[p], s))
    <3>1. pc'[p] = "idle"
      BY <1>7, <2>3 DEF Resolve, End, TypeInv, TypeOK
    <3>2. QED
      BY <2>1, <3>1 DEF Sound
  <2>4. QED
    BY <2>2, <2>3
<1>8. ASSUME ReadFile(p)
      PROVE  NamesHeld' /\ Sound(p)'
  BY <1>0, <1>8 DEF ReadFile, End, NamesHeld, Sound, TypeInv, TypeOK
<1>9. ASSUME WriteFile(p)
      PROVE  NamesHeld' /\ Sound(p)'
  <2>1. cmd[p].kind \in Kind /\ cmd[p].match \in Match
    BY <1>0, <1>9, CommandFields DEF WriteFile, TypeInv, Labelled
  <2>2. /\ pc'[p] = "idle" /\ UNCHANGED index /\ file[p] = rules[cmd[p].kind]
        /\ rules' = [rules EXCEPT ![cmd[p].kind] = [file[p] EXCEPT ![cmd[p].match] = rule[p]]]
    BY <1>0, <1>9 DEF WriteFile, End, Sound, TypeInv, TypeOK
  <2>3. rule[p] # None => \A s \in Signer :
            Resolves(index[cmd[p].kind], NamesOf(rule[p], s))
    BY <1>0, <1>9 DEF WriteFile, Sound
  <2>4. ASSUME NEW k \in Kind, NEW m \in Match, rules'[k][m] # None, NEW s \in Signer
        PROVE  Resolves(index[k], NamesOf(rules'[k][m], s))
    <3>1. CASE k = cmd[p].kind /\ m = cmd[p].match
      <4>1. rules'[k][m] = rule[p]
        BY <2>1, <2>2, <3>1 DEF TypeInv, TypeOK, Files
      <4>2. QED
        BY <2>3, <2>4, <3>1, <4>1
    <3>2. CASE ~(k = cmd[p].kind /\ m = cmd[p].match)
      <4>1. rules'[k][m] = rules[k][m]
        BY <2>1, <2>2, <3>2 DEF TypeInv, TypeOK, Files
      <4>2. QED
        BY <1>0, <2>4, <4>1 DEF NamesHeld
    <3>3. QED
      BY <3>1, <3>2
  <2>5. NamesHeld'
    BY <2>2, <2>4 DEF NamesHeld, Resolves
  <2>6. QED
    BY <2>2, <2>5 DEF Sound
<1>10. ASSUME NEW m \in Match, NEW s \in Signer, FindKeys(p, m, s)
       PROVE  NamesHeld' /\ Sound(p)'
  <2>1. pc'[p] \in {"idle", "find_keys", "open_copies"} /\ UNCHANGED <<index, rules>>
    BY <1>10 DEF FindKeys, End, TypeInv, TypeOK
  <2>2. QED
    BY <1>0, <2>1 DEF NamesHeld, Sound
<1>11. QED
  BY <1>1, <1>2, <1>3, <1>4, <1>5, <1>6, <1>7, <1>8, <1>9, <1>10 DEF Step

LEMMA TurnInvariant == Spec => []TurnInv
<1>1. TypeInv /\ TypeInv' /\ TurnInv /\ [Next]_vars => TurnInv'
  <2> SUFFICES ASSUME TypeInv, TypeInv', TurnInv, [Next]_vars, InTurn'
               PROVE  Solo' /\ NamesHeld' /\ \A p \in Proc : Sound(p)'
    BY DEF TurnInv
  <2>1. CASE UNCHANGED vars
    BY <2>1 DEF vars, stores, local, TurnInv, InTurn, Solo, NamesHeld, Sound, NamesOf,
                Resolves, Used
  <2>2. ASSUME NEW p \in Proc, Step(p)
        PROVE  Solo' /\ NamesHeld' /\ \A q \in Proc : Sound(q)'
    <3>1. InTurn /\ overlaps' = overlaps
      BY <2>2, OneMoves DEF InTurn, TypeInv, TypeOK
    <3>2. \A q \in Proc \ {p} : pc[q] = "idle" /\ pc'[q] = "idle"
      BY <2>2, <3>1, OneMoves DEF TurnInv, Solo
    <3>3. NamesHeld' /\ Sound(p)'
      BY <2>2, TurnStep
    <3>4. \A q \in Proc \ {p} : Sound(q)'
      BY <3>2 DEF Sound
    <3>5. QED
      BY <3>2, <3>3, <3>4 DEF Solo
  <2>3. QED
    BY <2>1, <2>2 DEF Next
<1>2. QED
  BY <1>1, TurnInit, TypeInvariant, PTL DEF Spec

\* As long as commands run one after another, each wherever it stops, every name
\* a rule uses is in its store.
THEOREM RulesAlwaysHold == Spec => []RulesHold
<1>1. TurnInv => RulesHold
  BY DEF TurnInv, RulesHold
<1>2. QED
  BY <1>1, TurnInvariant, PTL

-----------------------------------------------------------------------------
(***************************************************************************)
(* In turn, the stores implement the rule book: what a command writes it   *)
(* computed from what is still there.                                      *)
(***************************************************************************)

\* Only two steps write an index or a rule file.
LEMMA OthersKeep ==
    ASSUME NEW p \in Proc, Step(p), ~WriteIndex(p), ~WriteFile(p)
    PROVE  UNCHANGED <<index, rules>>
<1> USE DEF stores
<1>1. ASSUME NEW c \in asked, Start(p, c)
      PROVE  UNCHANGED <<index, rules>>
  BY <1>1 DEF Start
<1>2. ASSUME NEW m \in Match, NEW s \in Signer, Resolve(p, m, s) \/ FindKeys(p, m, s)
      PROVE  UNCHANGED <<index, rules>>
  BY <1>2 DEF Resolve, FindKeys
<1>3. CASE StoreCopy(p) \/ CheckUsers(p) \/ ReadIndex(p) \/ DiscardCopy(p)
  BY <1>3 DEF StoreCopy, CheckUsers, ReadIndex, DiscardCopy
<1>4. CASE ReadRule(p) \/ ReadFile(p) \/ ReadRules(p) \/ OpenCopies(p) \/ Stop(p)
  BY <1>4 DEF ReadRule, ReadFile, ReadRules, OpenCopies, Stop
<1>5. QED
  BY <1>1, <1>2, <1>3, <1>4 DEF Step

LEMMA WriteIndexAtomic ==
    ASSUME TypeInv, NEW p \in Proc, Sound(p), WriteIndex(p)
    PROVE  Book!Next
<1> DEFINE k == cmd[p].kind
           n == cmd[p].name
<1>1. /\ cmd[p] \in CommandType /\ cmd[p].op \in {"add", "remove"}
      /\ cmd[p].op = "remove" => entries[p][n] # None
  BY DEF WriteIndex, TypeInv, Labelled
<1>2. k \in Kind /\ n \in Name /\ (cmd[p].op = "add" => cmd[p].content \in Content)
  BY <1>1, CommandFields
<1>3. entries[p] = index[k] /\ (cmd[p].op = "remove" => ~Used(rules[k], n))
  BY DEF WriteIndex, Sound
<1>4. UNCHANGED rules /\ index' = [index EXCEPT ![k] = NewIndex(p)]
  BY DEF WriteIndex
<1>5. CASE cmd[p].op = "add"
  <2>1. index' = [index EXCEPT ![k][n] = cmd[p].content]
    BY <1>2, <1>3, <1>4, <1>5 DEF NewIndex
  <2>2. Book!Put(k, n, cmd[p].content)
    BY <1>4, <2>1 DEF Book!Put
  <2>3. QED
    BY <1>2, <1>5, <2>2 DEF Book!Next
<1>6. CASE cmd[p].op = "remove"
  <2>1. index' = [index EXCEPT ![k][n] = None]
    BY <1>2, <1>3, <1>4, <1>6 DEF NewIndex
  <2>2. ~Book!Uses(k, n)
    BY <1>3, <1>6 DEF Used, NamesOf, Book!Uses
  <2>3. Book!Remove(k, n)
    BY <1>1, <1>3, <1>4, <1>6, <2>1, <2>2 DEF Book!Remove
  <2>4. QED
    BY <1>2, <2>3 DEF Book!Next
<1>7. QED
  BY <1>1, <1>5, <1>6

LEMMA WriteFileAtomic ==
    ASSUME TypeInv, NEW p \in Proc, Sound(p), WriteFile(p)
    PROVE  Book!Next
<1> DEFINE k == cmd[p].kind
           m == cmd[p].match
<1>1. cmd[p] \in CommandType /\ cmd[p].op \in {"create", "unsign", "policy", "drop"}
  BY DEF WriteFile, TypeInv, Labelled
<1>2. k \in Kind /\ m \in Match /\ rules \in [Kind -> Files]
  BY <1>1, CommandFields DEF TypeInv, TypeOK
<1>3. file[p] = rules[k]
  BY DEF WriteFile, Sound
<1>4. UNCHANGED index /\ rules' = [rules EXCEPT ![k][m] = rule[p]]
  BY <1>2, <1>3 DEF WriteFile
<1>5. rules'[k][m] = rule[p]
  BY <1>2, <1>4 DEF Files
<1>6. CASE rule[p] = None
  <2>1. rules[k][m] # None
    BY <1>3, <1>6 DEF WriteFile, TypeInv, Labelled
  <2>2. Book!Drop(k, m)
    BY <1>4, <1>6, <2>1 DEF Book!Drop
  <2>3. QED
    BY <1>2, <2>2 DEF Book!Next
<1>7. CASE rule[p] # None
  <2>1. rule[p] \in Rule
    BY <1>7 DEF TypeInv, TypeOK
  <2>2. \A s \in Signer : Resolves(index[k], NamesOf(rule[p], s))
    BY <1>7 DEF WriteFile, Sound
  <2>3. \A s \in Signer : rules'[k][m].parts[s] # None =>
            \A n \in rules'[k][m].parts[s] : index[k][n] # None
    BY <1>5, <2>2 DEF Resolves, NamesOf
  <2>4. Book!Set(k, m)
    BY <1>4, <1>5, <2>1, <2>3 DEF Book!Set
  <2>5. QED
    BY <1>2, <2>4 DEF Book!Next
<1>8. QED
  BY <1>6, <1>7

\* As long as commands run one after another, each takes effect in one step of the
\* rule book, or in none: an entry a rule uses is never removed, no rule is set
\* that names an entry that is not there, and nothing else is changed.
THEOREM CommandsAreAtomic == Spec => CommandsAtomic
<1>1. TypeInv /\ TurnInv /\ [Next]_vars => [InTurn => Book!Next \/ UNCHANGED Book!vars]_vars
  <2> SUFFICES ASSUME TypeInv, TurnInv, Next, InTurn
               PROVE  Book!Next \/ UNCHANGED Book!vars
    OBVIOUS
  <2>1. PICK p \in Proc : Step(p)
    BY DEF Next
  <2>2. Sound(p)
    BY DEF TurnInv
  <2>3. QED
    BY <2>1, <2>2, OthersKeep, WriteIndexAtomic, WriteFileAtomic DEF Book!vars
<1>2. QED
  BY <1>1, TypeInvariant, TurnInvariant, PTL DEF Spec, CommandsAtomic

-----------------------------------------------------------------------------
(***************************************************************************)
(* Trust rules that can be met, however commands overlap: SetRule checks   *)
(* the rule before it is written, and a file is written with the rules it  *)
(* was read with.                                                          *)
(***************************************************************************)

Writable(p) ==
    /\ pc[p] \in {"resolve", "read_file", "write_file"} /\ cmd[p].kind = "key"
           /\ rule[p] # None => Valid(rule[p])
    /\ pc[p] = "write_file" /\ cmd[p].kind = "key" =>
           \A m \in Match : file[p][m] # None => Valid(file[p][m])

MeetInv == RulesMeetable /\ \A p \in Proc : Writable(p)

LEMMA OthersWritable ==
    ASSUME TypeInv, NEW p \in Proc, Step(p), NEW q \in Proc \ {p}, Writable(q)
    PROVE  Writable(q)'
<1> USE DEF Goto, stores, local, End, SetRule
<1>1. ASSUME NEW c \in asked, Start(p, c)
      PROVE  Writable(q)'
  BY <1>1 DEF Start, Writable, TypeInv, TypeOK
<1>2. ASSUME NEW m \in Match, NEW s \in Signer, Resolve(p, m, s) \/ FindKeys(p, m, s)
      PROVE  Writable(q)'
  BY <1>2 DEF Resolve, FindKeys, Writable, TypeInv, TypeOK
<1>3. CASE StoreCopy(p) \/ CheckUsers(p) \/ ReadIndex(p) \/ WriteIndex(p) \/ DiscardCopy(p)
  BY <1>3 DEF StoreCopy, CheckUsers, ReadIndex, WriteIndex, DiscardCopy, Writable, TypeInv, TypeOK
<1>4. CASE ReadRule(p) \/ ReadFile(p) \/ WriteFile(p)
  BY <1>4 DEF ReadRule, ReadFile, WriteFile, Writable, TypeInv, TypeOK
<1>5. CASE ReadRules(p) \/ OpenCopies(p) \/ Stop(p)
  BY <1>5 DEF ReadRules, OpenCopies, Stop, Writable, TypeInv, TypeOK
<1>6. QED
  BY <1>1, <1>2, <1>3, <1>4, <1>5 DEF Step

LEMMA MeetStep ==
    ASSUME TypeInv, MeetInv, NEW p \in Proc, Step(p)
    PROVE  RulesMeetable' /\ Writable(p)'
<1> USE DEF Goto, stores, local
<1>0. /\ RulesMeetable /\ Writable(p)
      /\ pc[p] # "idle" => cmd[p] \in CommandType
      /\ asked \subseteq CommandType
  BY ConstantsAssumption DEF MeetInv, TypeInv, TypeOK, Labelled
<1>1. CASE ~WriteFile(p)
  <2>1. UNCHANGED rules
    BY <1>1, OthersKeep DEF WriteIndex
  <2>2. RulesMeetable'
    BY <1>0, <2>1 DEF RulesMeetable
  <2>3. ASSUME NEW c \in asked, Start(p, c)
        PROVE  Writable(p)'
    <3>1. c \in CommandType /\ c.op \in Op
      BY <1>0, CommandFields
    <3>2. CASE c.op = "policy"
      <4>1. cmd'[p].kind = "vex" /\ pc'[p] # "write_file"
        BY <2>3, <3>1, <3>2, CommandFields DEF Start, TypeInv, TypeOK
      <4>2. QED
        BY <4>1 DEF Writable
    <3>3. CASE c.op # "policy"
      <4>1. rule'[p] = None /\ pc'[p] = FirstStep[c.op]
        BY <2>3, <3>3 DEF Start, TypeInv, TypeOK, Labelled
      <4>2. FirstStep[c.op] # "write_file"
        BY <3>1, <3>3 DEF Op, FirstStep
      <4>3. QED
        BY <4>1, <4>2 DEF Writable
    <3>4. QED
      BY <3>2, <3>3
  <2>4. ASSUME NEW m \in Match, NEW s \in Signer, Resolve(p, m, s) \/ FindKeys(p, m, s)
        PROVE  Writable(p)'
    BY <1>0, <2>4 DEF Resolve, FindKeys, End, Writable, TypeInv, TypeOK
  <2>5. CASE StoreCopy(p) \/ CheckUsers(p) \/ ReadIndex(p) \/ WriteIndex(p) \/ DiscardCopy(p)
    <3>1. pc'[p] \in {"idle", "read_index", "write_index", "discard"}
      BY <2>5 DEF StoreCopy, CheckUsers, ReadIndex, WriteIndex, DiscardCopy, End, TypeInv, TypeOK
    <3>2. QED
      BY <2>2, <3>1 DEF Writable
  <2>6. CASE ReadRules(p) \/ OpenCopies(p) \/ Stop(p)
    <3>1. pc'[p] \in {"idle", "find_keys"}
      BY <2>6 DEF ReadRules, OpenCopies, Stop, End, TypeInv, TypeOK
    <3>2. QED
      BY <2>2, <3>1 DEF Writable
  <2>7. CASE ReadRule(p)
    <3>1. pc[p] = "read_rule" /\ rule[p] = None
      BY <2>7 DEF ReadRule, TypeInv, Labelled
    <3>2. \/ \E r : SetRule(p, r)
          \/ End(p, "refused")
          \/ pc' = [pc EXCEPT ![p] = "read_file"] /\ rule' = rule
      BY <2>7 DEF ReadRule
    <3>3. pc'[p] # "write_file" /\ (pc'[p] = "idle" \/ rule'[p] = None \/ Valid(rule'[p]))
      BY <3>1, <3>2 DEF SetRule, End, TypeInv, TypeOK
    <3>4. QED
      BY <2>2, <3>3 DEF Writable
  <2>8. CASE ReadFile(p)
    BY <1>0, <2>8 DEF ReadFile, End, Writable, RulesMeetable, TypeInv, TypeOK
  <2>9. QED
    BY <1>1, <2>2, <2>3, <2>4, <2>5, <2>6, <2>7, <2>8 DEF Step
<1>2. CASE WriteFile(p)
  <2>1. cmd[p].kind \in Kind /\ cmd[p].match \in Match
    BY <1>0, <1>2, CommandFields DEF WriteFile, TypeInv, Labelled
  <2>2. /\ pc[p] = "write_file" /\ pc'[p] = "idle"
        /\ rules' = [rules EXCEPT ![cmd[p].kind] = [file[p] EXCEPT ![cmd[p].match] = rule[p]]]
    BY <1>2 DEF WriteFile, End, TypeInv, TypeOK
  <2>3. ASSUME NEW m \in Match, rules'["key"][m] # None
        PROVE  Valid(rules'["key"][m])
    <3>1. CASE cmd[p].kind # "key"
      <4>1. rules'["key"] = rules["key"]
        BY <2>2, <3>1 DEF TypeInv, TypeOK, Kind
      <4>2. QED
        BY <1>0, <2>3, <4>1 DEF RulesMeetable
    <3>2. CASE cmd[p].kind = "key"
      <4>1. rules'["key"][m] = IF m = cmd[p].match THEN rule[p] ELSE file[p][m]
        BY <2>1, <2>2, <3>2 DEF TypeInv, TypeOK, Files
      <4>2. QED
        BY <1>0, <2>2, <2>3, <3>2, <4>1 DEF Writable
    <3>3. QED
      BY <3>1, <3>2
  <2>4. QED
    BY <2>2, <2>3 DEF RulesMeetable, Writable
<1>3. QED
  BY <1>1, <1>2

\* However commands overlap and wherever they stop, every trust rule has signers
\* and asks for no more of them than it has.
THEOREM RulesAlwaysMeetable == Spec => []RulesMeetable
<1>1. Init => MeetInv
  BY DEF Init, MeetInv, RulesMeetable, Writable, NoRules, Kind
<1>2. TypeInv /\ MeetInv /\ [Next]_vars => MeetInv'
  <2>1. CASE UNCHANGED vars
    BY <2>1 DEF vars, stores, local, MeetInv, RulesMeetable, Writable, Valid, SignersOf
  <2>2. ASSUME TypeInv, MeetInv, NEW p \in Proc, Step(p)
        PROVE  MeetInv'
    BY <2>2, OthersWritable, MeetStep DEF MeetInv
  <2>3. QED
    BY <2>1, <2>2 DEF Next
<1>3. MeetInv => RulesMeetable
  BY DEF MeetInv
<1>4. QED
  BY <1>1, <1>2, <1>3, TypeInvariant, PTL DEF Spec

-----------------------------------------------------------------------------
(***************************************************************************)
(* In turn, a pull finds the keys of every rule: a copy is stored before   *)
(* the index refers to it and discarded after nothing does.                *)
(***************************************************************************)

Kept(p) ==
    /\ pc[p] \in {"read_index", "write_index"} /\ cmd[p].op = "add" =>
           cmd[p].content \in copies[cmd[p].kind]
    /\ pc[p] = "discard" => index[cmd[p].kind] = NewIndex(p)
    /\ pc[p] = "find_keys" => file[p] = rules["key"]
    /\ pc[p] \in {"find_keys", "open_copies"} => found[p] \subseteq copies["key"]
    /\ pc[p] \notin {"find_keys", "open_copies"} => found[p] = {}

KeptInv == InTurn => CopiesHeld /\ \A p \in Proc : Kept(p) /\ outcome[p] # "missing"

LEMMA ReadRulesSteps ==
    ASSUME NEW p \in Proc, ReadRules(p)
    PROVE  \/ End(p, "refused") \/ End(p, "done")
           \/ /\ file' = [file EXCEPT ![p] = rules["key"]]
              /\ pc' = [pc EXCEPT ![p] = "find_keys"]
              /\ UNCHANGED <<found, outcome>>
BY DEF ReadRules, Goto

LEMMA KeptStep ==
    ASSUME TypeInv, TurnInv, KeptInv, NEW p \in Proc, Step(p), InTurn
    PROVE  CopiesHeld' /\ Kept(p)' /\ outcome'[p] # "missing"
<1> USE DEF Goto, stores, local
<1>0. /\ CopiesHeld /\ Kept(p) /\ outcome[p] # "missing" /\ NamesHeld /\ Sound(p)
      /\ pc[p] # "idle" => cmd[p] \in CommandType
      /\ asked \subseteq CommandType
  BY ConstantsAssumption DEF KeptInv, TurnInv, TypeInv, TypeOK, Labelled
<1>1. ASSUME NEW c \in asked, Start(p, c)
      PROVE  CopiesHeld' /\ Kept(p)' /\ outcome'[p] # "missing"
  <2>1. c \in CommandType /\ c.op \in Op
    BY <1>0, CommandFields
  <2>2. /\ pc[p] = "idle" /\ UNCHANGED <<index, copies, found>> /\ outcome'[p] = "none"
        /\ pc'[p] = FirstStep[c.op] \/ pc'[p] \in {"read_file", "resolve"}
    BY <1>1 DEF Start, TypeInv, TypeOK
  <2>3. FirstStep[c.op] \notin {"read_index", "write_index", "discard", "find_keys", "open_copies"}
    BY <2>1 DEF Op, FirstStep
  <2>4. found'[p] = {}
    BY <1>0, <2>2 DEF Kept
  <2>5. CopiesHeld'
    BY <1>0, <2>2 DEF CopiesHeld
  <2>6. QED
    BY <2>2, <2>3, <2>4, <2>5 DEF Kept
<1>2. CASE StoreCopy(p)
  <2>1. cmd[p].kind \in Kind /\ cmd[p].op = "add"
    BY <1>0, <1>2, CommandFields DEF StoreCopy, TypeInv, Labelled
  <2>2. /\ pc[p] = "store_copy" /\ pc'[p] = "read_index" /\ UNCHANGED <<index, cmd, outcome, found>>
        /\ cmd[p].content \in copies'[cmd[p].kind]
        /\ \A k \in Kind : copies[k] \subseteq copies'[k]
    BY <1>2, <2>1 DEF StoreCopy, TypeInv, TypeOK
  <2>3. CopiesHeld'
    BY <1>0, <2>2 DEF CopiesHeld
  <2>4. QED
    BY <1>0, <2>2, <2>3 DEF Kept
<1>3. CASE CheckUsers(p)
  <2>1. CopiesHeld'
    BY <1>0, <1>3 DEF CheckUsers, CopiesHeld
  <2>2. CASE Used(rules[cmd[p].kind], cmd[p].name)
    <3>1. pc'[p] = "idle" /\ outcome'[p] = "refused" /\ found'[p] = {}
      BY <1>3, <2>2 DEF CheckUsers, End, TypeInv, TypeOK
    <3>2. QED
      BY <2>1, <3>1 DEF Kept
  <2>3. CASE ~Used(rules[cmd[p].kind], cmd[p].name)
    <3>1. /\ pc[p] = "check_users" /\ pc'[p] = "read_index" /\ UNCHANGED <<cmd, outcome, found>>
      BY <1>3, <2>3 DEF CheckUsers, TypeInv, TypeOK
    <3>2. cmd[p].op = "remove"
      BY <3>1 DEF TypeInv, Labelled
    <3>3. QED
      BY <1>0, <2>1, <3>1, <3>2 DEF Kept
  <2>4. QED
    BY <2>2, <2>3
<1>4. CASE ReadIndex(p)
  <2>1. CopiesHeld' /\ UNCHANGED copies
    BY <1>0, <1>4 DEF ReadIndex, CopiesHeld
  <2>2. CASE cmd[p].op = "remove" /\ index[cmd[p].kind][cmd[p].name] = None
    <3>1. pc'[p] = "idle" /\ outcome'[p] = "refused" /\ found'[p] = {}
      BY <1>4, <2>2 DEF ReadIndex, End, TypeInv, TypeOK
    <3>2. QED
      BY <2>1, <3>1 DEF Kept
  <2>3. CASE ~(cmd[p].op = "remove" /\ index[cmd[p].kind][cmd[p].name] = None)
    <3>1. /\ pc[p] = "read_index" /\ pc'[p] = "write_index" /\ UNCHANGED <<cmd, outcome, found>>
      BY <1>4, <2>3 DEF ReadIndex, TypeInv, TypeOK
    <3>2. QED
      BY <1>0, <2>1, <3>1 DEF Kept
  <2>4. QED
    BY <2>2, <2>3
<1>5. CASE WriteIndex(p)
  <2> DEFINE k == cmd[p].kind
             n == cmd[p].name
  <2>1. k \in Kind /\ n \in Name /\ cmd[p].op \in {"add", "remove"}
    BY <1>0, <1>5, CommandFields DEF WriteIndex, TypeInv, Labelled
  <2>2. /\ pc[p] = "write_index" /\ UNCHANGED copies
        /\ index' = [index EXCEPT ![k] = NewIndex(p)]
    BY <1>5 DEF WriteIndex
  <2>3. entries[p] = index[k] /\ found[p] = {}
    BY <1>0, <2>2 DEF Sound, Kept
  <2>4. \A i \in Name : index'[k][i] = IF i # n THEN index[k][i]
                                      ELSE IF cmd[p].op = "add" THEN cmd[p].content ELSE None
    BY <2>1, <2>2, <2>3 DEF NewIndex, TypeInv, TypeOK, Indexes
  <2>5. \A j \in Kind \ {k} : index'[j] = index[j]
    BY <2>2 DEF TypeInv, TypeOK
  <2>6. cmd[p].op = "add" => cmd[p].content \in copies[k]
    BY <1>0, <2>2 DEF Kept
  <2>7. CopiesHeld'
    BY <1>0, <2>1, <2>2, <2>4, <2>5, <2>6 DEF CopiesHeld
  <2>8. CASE entries[p][n] = None
    <3>1. pc'[p] = "idle" /\ outcome'[p] = "done" /\ found'[p] = {}
      BY <1>5, <2>8 DEF WriteIndex, End, TypeInv, TypeOK
    <3>2. QED
      BY <2>7, <3>1 DEF Kept
  <2>9. CASE entries[p][n] # None
    <3>1. pc'[p] = "discard" /\ UNCHANGED <<cmd, entries, outcome, found>>
      BY <1>5, <2>9 DEF WriteIndex, TypeInv, TypeOK
    <3>2. index'[k] = NewIndex(p) /\ NewIndex(p)' = NewIndex(p)
      BY <2>1, <2>2, <3>1 DEF TypeInv, TypeOK, NewIndex
    <3>3. QED
      BY <1>0, <2>3, <2>7, <3>1, <3>2 DEF Kept
  <2>10. QED
    BY <2>8, <2>9
<1>6. CASE DiscardCopy(p)
  <2> DEFINE k == cmd[p].kind
             old == entries[p][cmd[p].name]
  <2>1. /\ index[k] = NewIndex(p)
        /\ index' = index
        /\ \/ copies' = copies
           \/ /\ \A n \in Name : NewIndex(p)[n] # old
              /\ copies' = [copies EXCEPT ![k] = @ \ {old}]
    BY <1>0, <1>6 DEF DiscardCopy, Kept
  <2>2. CopiesHeld'
    BY <1>0, <2>1 DEF CopiesHeld, TypeInv, TypeOK
  <2>3. pc'[p] = "idle" /\ outcome'[p] = "done" /\ found'[p] = {}
    BY <1>6 DEF DiscardCopy, End, TypeInv, TypeOK
  <2>4. QED
    BY <2>2, <2>3 DEF Kept
<1>7. CASE ReadRule(p) \/ ReadFile(p) \/ WriteFile(p) \/ Stop(p)
  <2>1. UNCHANGED <<index, copies>>
    BY <1>7 DEF ReadRule, ReadFile, WriteFile, Stop
  <2>2. CopiesHeld'
    BY <1>0, <2>1 DEF CopiesHeld
  <2>3. /\ pc'[p] \in {"idle", "read_file", "resolve", "write_file"}
        /\ found'[p] = {} /\ outcome'[p] # "missing"
    <3>1. found[p] = {} \/ Stop(p)
      BY <1>0, <1>7 DEF ReadRule, ReadFile, WriteFile, Kept
    <3>2. QED
      BY <1>0, <1>7, <3>1 DEF ReadRule, ReadFile, WriteFile, Stop, SetRule, End, TypeInv, TypeOK
  <2>4. QED
    BY <2>2, <2>3 DEF Kept
<1>8. ASSUME NEW m \in Match, NEW s \in Signer, Resolve(p, m, s)
      PROVE  CopiesHeld' /\ Kept(p)' /\ outcome'[p] # "missing"
  <2>1. CopiesHeld' /\ pc[p] = "resolve" /\ found[p] = {}
    BY <1>0, <1>8 DEF Resolve, CopiesHeld, Kept
  <2>2. /\ pc'[p] \in {"idle", "read_file", "resolve"}
        /\ found'[p] = {} /\ outcome'[p] # "missing"
    BY <1>0, <1>8, <2>1 DEF Resolve, End, TypeInv, TypeOK
  <2>3. QED
    BY <2>1, <2>2 DEF Kept
<1>9. CASE ReadRules(p)
  <2>1. CopiesHeld' /\ pc[p] = "read_rules" /\ found[p] = {} /\ UNCHANGED <<copies, rules>>
    BY <1>0, <1>9 DEF ReadRules, CopiesHeld, Kept
  <2>2. /\ pc'[p] \in {"idle", "find_keys"} /\ found'[p] = {} /\ outcome'[p] # "missing"
        /\ pc'[p] = "find_keys" => file'[p] = rules["key"]
    BY <1>0, <1>9, <2>1, ReadRulesSteps DEF End, TypeInv, TypeOK
  <2>3. QED
    BY <2>1, <2>2 DEF Kept
<1>10. ASSUME NEW m \in Match, NEW s \in Signer, FindKeys(p, m, s)
       PROVE  CopiesHeld' /\ Kept(p)' /\ outcome'[p] # "missing"
  <2> DEFINE names == NamesOf(file[p][m], s)
  <2>1. /\ pc[p] = "find_keys" /\ file[p] = rules["key"] /\ file[p][m] # None
        /\ found[p] \subseteq copies["key"]
    BY <1>0, <1>10 DEF FindKeys, Kept, TypeInv, Labelled
  <2>2. Resolves(index["key"], names)
    BY <1>0, <2>1 DEF NamesHeld, Kind
  <2>3. names \in SUBSET Name
    BY <2>1, NamesTyped DEF TypeInv, TypeOK, Files, Kind
  <2>4. {index["key"][n] : n \in names} \subseteq copies["key"]
    BY <1>0, <2>2, <2>3 DEF Resolves, CopiesHeld, Kind
  <2>5. UNCHANGED <<index, copies, rules, file, outcome>> /\ pc'[p] \in {"find_keys", "open_copies"}
    BY <1>10, <2>2 DEF FindKeys, TypeInv, TypeOK
  <2>6. found'[p] = found[p] \cup {index["key"][n] : n \in names}
    BY <1>10, <2>2 DEF FindKeys, TypeInv, TypeOK
  <2>7. CopiesHeld'
    BY <1>0, <2>5 DEF CopiesHeld
  <2>8. QED
    BY <1>0, <2>1, <2>4, <2>5, <2>6, <2>7 DEF Kept
<1>11. CASE OpenCopies(p)
  <2>1. CopiesHeld' /\ found[p] \subseteq copies["key"]
    BY <1>0, <1>11 DEF OpenCopies, CopiesHeld, Kept
  <2>2. pc'[p] = "idle" /\ found'[p] = {} /\ outcome'[p] = "done"
    BY <1>11, <2>1 DEF OpenCopies, End, TypeInv, TypeOK
  <2>3. QED
    BY <2>1, <2>2 DEF Kept
<1>12. QED
  BY <1>1, <1>2, <1>3, <1>4, <1>5, <1>6, <1>7, <1>8, <1>9, <1>10, <1>11 DEF Step

\* A step ends no other process's command.
LEMMA OthersKept ==
    ASSUME TypeInv, NEW p \in Proc, Step(p), NEW q \in Proc \ {p}
    PROVE  outcome'[q] = outcome[q] /\ found'[q] = found[q]
<1> USE DEF Goto, stores, local, End, SetRule, TypeInv, TypeOK
<1>1. ASSUME NEW c \in asked, Start(p, c)
      PROVE  outcome'[q] = outcome[q] /\ found'[q] = found[q]
  BY <1>1 DEF Start
<1>2. ASSUME NEW m \in Match, NEW s \in Signer, Resolve(p, m, s) \/ FindKeys(p, m, s)
      PROVE  outcome'[q] = outcome[q] /\ found'[q] = found[q]
  BY <1>2 DEF Resolve, FindKeys
<1>3. CASE StoreCopy(p) \/ CheckUsers(p) \/ ReadIndex(p) \/ WriteIndex(p) \/ DiscardCopy(p)
  BY <1>3 DEF StoreCopy, CheckUsers, ReadIndex, WriteIndex, DiscardCopy
<1>4. CASE ReadRule(p) \/ ReadFile(p) \/ WriteFile(p)
  BY <1>4 DEF ReadRule, ReadFile, WriteFile
<1>5. CASE ReadRules(p) \/ OpenCopies(p) \/ Stop(p)
  BY <1>5, ReadRulesSteps DEF OpenCopies, Stop
<1>6. QED
  BY <1>1, <1>2, <1>3, <1>4, <1>5 DEF Step

\* As long as commands run one after another, a pull finds the key, and the copy of
\* it, that every rule names.
THEOREM PullsAlwaysFindKeys == Spec => []PullsFindKeys
<1>1. Init => KeptInv
  BY DEF Init, KeptInv, CopiesHeld, Kept, NoEntries
<1>2. TypeInv /\ TypeInv' /\ TurnInv /\ TurnInv' /\ KeptInv /\ [Next]_vars => KeptInv'
  <2> SUFFICES ASSUME TypeInv, TurnInv, TurnInv', KeptInv, [Next]_vars, InTurn'
               PROVE  CopiesHeld' /\ \A q \in Proc : Kept(q)' /\ outcome'[q] # "missing"
    BY DEF KeptInv
  <2>1. CASE UNCHANGED vars
    BY <2>1 DEF vars, stores, local, KeptInv, InTurn, CopiesHeld, Kept, NewIndex
  <2>2. ASSUME NEW p \in Proc, Step(p)
        PROVE  CopiesHeld' /\ \A q \in Proc : Kept(q)' /\ outcome'[q] # "missing"
    <3>1. InTurn
      BY <2>2, OneMoves DEF InTurn, TypeInv, TypeOK
    <3>2. \A q \in Proc \ {p} : pc[q] = "idle" /\ pc'[q] = "idle"
      <4>1. overlaps' = overlaps
        BY <3>1 DEF InTurn
      <4>2. QED
        BY <2>2, <3>1, <4>1, OneMoves DEF TurnInv, Solo
    <3>3. CopiesHeld' /\ Kept(p)' /\ outcome'[p] # "missing"
      BY <2>2, <3>1, KeptStep
    <3>4. ASSUME NEW q \in Proc \ {p}
          PROVE  Kept(q)' /\ outcome'[q] # "missing"
      <4>1. found'[q] = {} /\ outcome'[q] # "missing"
        BY <2>2, <3>1, <3>2, OthersKept DEF KeptInv, Kept
      <4>2. QED
        BY <3>2, <4>1 DEF Kept
    <3>5. QED
      BY <3>3, <3>4
  <2>3. QED
    BY <2>1, <2>2 DEF Next
<1>3. KeptInv => PullsFindKeys
  BY DEF KeptInv, PullsFindKeys
<1>4. QED
  BY <1>1, <1>2, <1>3, TypeInvariant, TurnInvariant, PTL DEF Spec

=============================================================================

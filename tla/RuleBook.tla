------------------------------ MODULE RuleBook ------------------------------
(***************************************************************************)
(* What the named stores and the rule files promise together: entries are  *)
(* put, replaced and removed by name, rules are set and dropped by match,  *)
(* an entry a rule uses is never removed and a rule is never set that      *)
(* names an entry that is not there.  NamedStore implements it as long as  *)
(* its commands run one after another.                                     *)
(***************************************************************************)
CONSTANTS Kind, Name, Content, Match, Signer, Rule, None

VARIABLES
    index,      \* what each name of each kind stands for, or None
    rules       \* the rule each match has, or None

vars == <<index, rules>>

Uses(k, n) ==
    \E m \in Match : rules[k][m] # None /\
        \E s \in Signer : rules[k][m].parts[s] # None /\ n \in rules[k][m].parts[s]

Put(k, n, c) ==
    /\ index' = [index EXCEPT ![k][n] = c]
    /\ UNCHANGED rules

Remove(k, n) ==
    /\ index[k][n] # None
    /\ ~Uses(k, n)
    /\ index' = [index EXCEPT ![k][n] = None]
    /\ UNCHANGED rules

Set(k, m) ==
    /\ rules'[k][m] \in Rule
    /\ \A s \in Signer : rules'[k][m].parts[s] # None =>
           \A n \in rules'[k][m].parts[s] : index[k][n] # None
    /\ rules' = [rules EXCEPT ![k][m] = rules'[k][m]]
    /\ UNCHANGED index

Drop(k, m) ==
    /\ rules[k][m] # None
    /\ rules' = [rules EXCEPT ![k][m] = None]
    /\ UNCHANGED index

Next ==
    \E k \in Kind :
        \/ \E n \in Name : Remove(k, n) \/ \E c \in Content : Put(k, n, c)
        \/ \E m \in Match : Set(k, m) \/ Drop(k, m)

=============================================================================

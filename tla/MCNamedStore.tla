---------------------------- MODULE MCNamedStore ----------------------------
(* The instances of NamedStore that TLC checks, and what is asked of them.   *)
EXTENDS NamedStore, TLC

CONSTANTS a, b, x, y, m1, m2, all, alice

Add(k) == [op : {"add"}, kind : {k}, name : Name, content : Content]
Remove(k) == [op : {"remove"}, kind : {k}, name : Name]
Drop(k, matches) == [op : {"drop"}, kind : {k}, match : matches]
Create(matches, signers, names, require) ==
    [op : {"create"}, kind : {"key"}, match : matches, signer : signers,
     names : names, require : require]
Unsign == [op : {"unsign"}, kind : {"key"}, match : {m1}, signer : Signer]
Policy == [op : {"policy"}, kind : {"vex"}, match : {m1}, names : SUBSET Name]
Pull == {[op |-> "pull", kind |-> "key"]}

\* One trust rule with everything that is done to it, its keys and their store.
OneRule ==
    Add("key") \cup Remove("key") \cup Drop("key", {m1}) \cup Unsign \cup Pull
    \cup Create({m1}, Signer, {{}, {a}, {a, b}}, {0, 2, None})

\* The trust rules of two prefixes, which name one key.
TwoRules ==
    {c \in Add("key") \cup Remove("key") : c.name = a} \cup Drop("key", Match) \cup Pull
    \cup Create(Match, {all}, {{}, {a}}, {0})

\* A scan policy rule and its VEX documents.
VEXRule == Add("vex") \cup Remove("vex") \cup Drop("vex", {m1}) \cup Policy

\* named_stores: the kinds share nothing, so a behaviour is of one of them.
EachKind == {OneRule, TwoRules, VEXRule}

\* The counterexamples' commands.
KeysOnly == {TwoRules}

Symmetric == Permutations(Content) \cup Permutations(Proc)

=============================================================================

----------------------------- MODULE SingleFlight -----------------------------
(***************************************************************************)
(* What internal/plugin promises of concurrent pulls of one component:     *)
(* one flight at a time fetches it, only that flight stores what it        *)
(* fetched, and every other caller shares what some flight has stored.     *)
(* ComponentPull implements it while no process crashes.                   *)
(***************************************************************************)
CONSTANTS Worker, Entry, None

VARIABLES
    holder,     \* the caller whose flight is under way, or None
    stored,     \* what the last completed flight stored
    outcome     \* how each caller's last call ended

vars == <<holder, stored, outcome>>

Init ==
    /\ holder = None
    /\ stored \notin Entry
    /\ outcome = [w \in Worker |-> "none"]

Ends(w, how) == outcome' = [outcome EXCEPT ![w] = how]

Call(w) ==
    /\ holder # w
    /\ Ends(w, "none")
    /\ UNCHANGED <<holder, stored>>

TakeOff(w) ==
    /\ holder = None
    /\ holder' = w
    /\ UNCHANGED <<stored, outcome>>

Store(w) ==
    /\ holder = w
    /\ stored' \in Entry
    /\ Ends(w, "fresh")
    /\ UNCHANGED holder

Abandon(w) ==
    /\ holder = w
    /\ Ends(w, "error")
    /\ UNCHANGED <<holder, stored>>

Land(w) ==
    /\ holder = w
    /\ outcome[w] # "none"
    /\ holder' = None
    /\ UNCHANGED <<stored, outcome>>

Share(w) ==
    /\ holder # w
    /\ stored \in Entry
    /\ \E how \in {"reused", "error"} : Ends(w, how)
    /\ UNCHANGED <<holder, stored>>

Next ==
    \E w \in Worker :
        Call(w) \/ TakeOff(w) \/ Store(w) \/ Abandon(w) \/ Land(w) \/ Share(w)

Spec == Init /\ [][Next]_vars

=============================================================================

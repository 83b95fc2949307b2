--------------------------- MODULE MCComponentPull ---------------------------
(* The instances of ComponentPull that TLC checks: workers that share a      *)
(* process (a build's goroutines) or each have one (separate invocations).   *)
EXTENDS ComponentPull

CONSTANTS w1, w2, w3, w4, p1, p2, p3, p4, h1, h2

\* The first and third workers are goroutines of one build.
SharedProcess ==
    [w \in Worker |-> IF w = w2 THEN p2 ELSE p1]

OwnProcess ==
    [w \in Worker |-> CASE w = w1 -> p1 [] w = w2 -> p2 [] w = w3 -> p3 [] w = w4 -> p4]

Plan(ws, served, declares, fs, overlap, n) ==
    [workers |-> ws, upstream |-> served, declared |-> declares,
     faults |-> fs, overlap |-> overlap, calls |-> n]

\* pull_flight: every worker at once, over a source and a disk that fail.
FlightPlans == {Plan(Worker, {h1, h2}, {h1, None}, {"fetch", "write"}, TRUE, 1)}

\* pull_faults: four processes one after another, one call each, that crash in
\* the way OnlyInterrupted allows; and two at once with every fault.
FaultPlans == {Plan(Worker, {h1}, {h1, None}, {"crash"}, FALSE, 1),
               Plan({w1, w2}, {h1, h2}, {h1, h2, None}, FaultKinds, TRUE, 1)}

\* The counterexamples' plans.
CrashPlans == {Plan(Worker, {h1}, {h1}, {"crash"}, TRUE, 1)}
FailInTurnPlans == {Plan(Worker, {h1}, {h1}, {"crash", "fetch"}, FALSE, 1)}
ReuseInTurnPlans == {Plan(Worker, {h1}, {h1}, {"crash", "pid_reuse"}, FALSE, 1)}
OrphanPlans == {Plan(Worker, {h1, h2}, {None}, {"crash", "orphan"}, FALSE, 1)}
TakenPlans == {Plan(Worker, {h1}, {h1}, {"crash", "taking"}, FALSE, 1)}
CleanPlans == {Plan(Worker, {h1}, {h1}, {}, TRUE, 1)}

=============================================================================

------------------------------ MODULE MCBench ------------------------------
(* Instances of Bench for TLC: bench-spawn with a case of either kind of     *)
(* stdin, and bench with and without several runs and a time limit.          *)
EXTENDS Bench

Case(p, i, w, b) == [piped |-> p, iterations |-> i, warmup |-> w, batch |-> b]

SpawnProgram ==
    [spawns |-> TRUE, cases |-> <<Case(TRUE, 2, 1, 0), Case(FALSE, 1, 0, 2)>>, selected |-> {1, 2},
     multiRun |-> 0, maxRuntime |-> 0, json |-> TRUE]

PureProgram(m, t) ==
    [spawns |-> FALSE, cases |-> <<Case(FALSE, 3, 1, 2), Case(FALSE, 0, 1, 1), Case(FALSE, 2, 0, 1)>>,
     selected |-> {1, 2}, multiRun |-> m, maxRuntime |-> t, json |-> TRUE]

MCPrograms == {SpawnProgram} \cup {PureProgram(m, t) : m \in {0, 2}, t \in {0, 1}}
LimitedPrograms == {PureProgram(0, 1)}
=============================================================================

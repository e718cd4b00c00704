----------------------------- MODULE BenchProofs ----------------------------
(***************************************************************************)
(* Proofs about the benchmark: spawn_run as the harness calls it, for      *)
(* every size of the descriptor table, of the input and of the pipe, and   *)
(* what the harness holds and counts, for every set of programs.           *)
(***************************************************************************)
EXTENDS Bench, Induction, FiniteSetTheorems

\* The descriptor the kernel hands out is free; with the standard streams open
\* it is none of theirs.
LEMMA LowestFree ==
    ASSUME NEW t \in Table, Free(t) # {}
    PROVE  Lowest(t) \in Fd /\ t[Lowest(t)] = Closed
<1>1. Free(t) \in SUBSET Nat
  BY SpawnAssumption DEF Free, Fd
<1>2. \E f \in Free(t) : \A g \in Free(t) : f <= g
  BY <1>1, LeastElement
<1>3. Lowest(t) \in Free(t)
  BY <1>2 DEF Lowest
<1> QED
  BY <1>3 DEF Free

-----------------------------------------------------------------------------
(* The descriptors.                                                          *)

Locals == [read : Fd \cup {NoFd}, write : Fd \cup {NoFd}, in : Fd \cup {NoFd},
           out : Fd \cup {NoFd}]

\* The descriptors of a process with those of a call of spawn_run beside the
\* standard ones.
Layout(l) == [f \in Fd |-> IF f <= 2 THEN "std" ELSE IF f = l.read THEN "pipe read"
                           ELSE IF f = l.write THEN "pipe write" ELSE IF f = l.in THEN "null in"
                           ELSE IF f = l.out THEN "null out" ELSE Closed]

Above == 3 .. MaxFd

\* The local variables hold the descriptors of the input, and of the output.
HasInput(l) == IF piped THEN /\ l.read \in Above /\ l.write \in Above /\ l.read # l.write
                             /\ l.in = NoFd
                        ELSE l.in \in Above /\ l.read = NoFd /\ l.write = NoFd

HasOutput(l) == l.out \in Above /\ l.out \notin {l.read, l.write, l.in}

IsTable(t) == t = [f \in Fd |-> t[f]]

\* What closing descriptors, and duplicating one, make of each.
LEMMA ShutAt ==
    ASSUME NEW t, IsTable(t), NEW S
    PROVE  /\ IsTable(Shut(t, S))
           /\ \A f \in Fd : Shut(t, S)[f] = IF f \in S THEN Closed ELSE t[f]
BY DEF Shut, IsTable

\* What dup2 makes of each.
LEMMA DupAt ==
    ASSUME NEW t, IsTable(t), NEW from \in Fd, NEW to \in Fd
    PROVE  /\ IsTable(Dup2(t, from, to))
           /\ \A f \in Fd : Dup2(t, from, to)[f] = IF f = to THEN t[from] ELSE t[f]
<1>1. PICK g : t = [f \in Fd |-> g[f]]
  BY DEF IsTable
<1> QED
  BY <1>1 DEF Dup2, IsTable

\* Two tables of descriptors are the same when they agree on each.
LEMMA TableIs ==
    ASSUME NEW t, IsTable(t), NEW u, IsTable(u), \A f \in Fd : t[f] = u[f]
    PROVE  t = u
<1>1. [f \in Fd |-> t[f]] = [f \in Fd |-> u[f]]
  OBVIOUS
<1> QED
  BY <1>1 DEF IsTable

\* What a layout says of each descriptor.
LEMMA LayoutAt ==
    ASSUME NEW l, NEW f \in Fd
    PROVE  /\ f <= 2 => Layout(l)[f] = "std"
           /\ Layout(l)[f] = Closed => ~(f <= 2) /\ f \notin {l.read, l.write, l.in, l.out}
           /\ ~(f <= 2) /\ f \notin {l.read, l.write, l.in, l.out} => Layout(l)[f] = Closed
           /\ ~(f <= 2) /\ f = l.read => Layout(l)[f] = "pipe read"
           /\ ~(f <= 2) /\ f = l.write /\ f # l.read => Layout(l)[f] = "pipe write"
           /\ ~(f <= 2) /\ f = l.in /\ f \notin {l.read, l.write} => Layout(l)[f] = "null in"
           /\ ~(f <= 2) /\ f = l.out /\ f \notin {l.read, l.write, l.in} =>
                 Layout(l)[f] = "null out"
BY DEF Layout, Closed

\* Two layouts agree on a descriptor they treat alike.
LEMMA LayoutSame ==
    ASSUME NEW l, NEW m, NEW f \in Fd, f = l.read <=> f = m.read, f = l.write <=> f = m.write,
           f = l.in <=> f = m.in, f = l.out <=> f = m.out
    PROVE  Layout(l)[f] = Layout(m)[f]
BY DEF Layout

\* A layout is a table.
LEMMA LayoutTable == ASSUME NEW l PROVE IsTable(Layout(l))
BY DEF Layout, IsTable

\* The standard descriptors, those above them, and NoFd beside them.
LEMMA FdFacts == /\ \A f \in Fd : f \in Int /\ f # NoFd
                 /\ Above \subseteq Fd /\ \A f \in Above : ~(f <= 2)
                 /\ 0 \in Fd /\ 1 \in Fd /\ 2 \in Fd
                 /\ \A f \in Fd : ~(f <= 2) => f \in Above
                 /\ \A f \in Fd : f <= 2 => f \in {0, 1, 2}
BY SpawnAssumption DEF Fd, NoFd, Above

\* Without locals only the standard streams are open.
LEMMA LayoutStarted == Layout(NoLocals) = Started /\ NoLocals \in Locals
<1>1. \A f \in Fd : Layout(NoLocals)[f] = Started[f]
  <2> TAKE f \in Fd
  <2>1. f \notin {NoLocals.read, NoLocals.write, NoLocals.in, NoLocals.out}
    BY FdFacts DEF NoLocals
  <2> QED
    BY <2>1, LayoutAt DEF Started
<1>2. IsTable(Started)
  BY DEF Started, IsTable
<1>3. NoLocals \in Locals
  BY DEF NoLocals, Locals
<1> HIDE DEF Started
<1> QED
  BY <1>1, <1>2, <1>3, LayoutTable, TableIs

\* A descriptor opened beside a layout is none of the layout's.
LEMMA FreeAbove ==
    ASSUME NEW l \in Locals, Free(Layout(l)) # {}
    PROVE  /\ Lowest(Layout(l)) \in Above
           /\ Lowest(Layout(l)) \notin {l.read, l.write, l.in, l.out}
<1>1. Layout(l) \in Table
  BY DEF Layout, Table, Files, Closed
<1>2. Lowest(Layout(l)) \in Fd /\ Layout(l)[Lowest(Layout(l))] = Closed
  BY <1>1, LowestFree
<1> QED
  BY <1>2, LayoutAt, FdFacts

\* What opening a file makes of a layout.
LEMMA OpenIs ==
    ASSUME NEW l, NEW m, NEW file, Lowest(Layout(l)) \in Fd, Layout(m)[Lowest(Layout(l))] = file,
           \A g \in Fd : g # Lowest(Layout(l)) => Layout(m)[g] = Layout(l)[g]
    PROVE  Open(Layout(l), file) = Layout(m)
<1> DEFINE f == Lowest(Layout(l))
           t == Layout(l)
<1>1. PICK u : t = [g \in Fd |-> u[g]]
  BY LayoutTable DEF IsTable
<1>2. f \in Fd /\ Open(t, file) = [t EXCEPT ![f] = file] /\ Layout(m)[f] = file
  BY DEF Open
<1>3. \A g \in Fd : g # f => Layout(m)[g] = t[g]
  OBVIOUS
<1> HIDE DEF f, t
<1>4. /\ IsTable([t EXCEPT ![f] = file])
      /\ \A g \in Fd : [t EXCEPT ![f] = file][g] = IF g = f THEN file ELSE t[g]
  BY <1>1, <1>2 DEF IsTable
<1>5. [t EXCEPT ![f] = file] = Layout(m)
  <2> DEFINE v == [t EXCEPT ![f] = file]
  <2>1. IsTable(v) /\ IsTable(Layout(m))
    BY <1>4, LayoutTable
  <2>2. \A g \in Fd : v[g] = Layout(m)[g]
    BY <1>2, <1>3, <1>4
  <2> HIDE DEF v
  <2>3. v = Layout(m)
    BY <2>1, <2>2, TableIs
  <2> QED
    BY <2>3 DEF v
<1> QED
  BY <1>2, <1>5 DEF t

\* It is the layout with the new descriptor in its place.
LEMMA OpenLayout ==
    ASSUME NEW l \in Locals, Free(Layout(l)) # {}
    PROVE  LET f == Lowest(Layout(l))
           IN /\ l.read = NoFd => Open(Layout(l), "pipe read") = Layout([l EXCEPT !.read = f])
              /\ l.write = NoFd => Open(Layout(l), "pipe write") = Layout([l EXCEPT !.write = f])
              /\ l.in = NoFd => Open(Layout(l), "null in") = Layout([l EXCEPT !.in = f])
              /\ l.out = NoFd => Open(Layout(l), "null out") = Layout([l EXCEPT !.out = f])
<1> DEFINE f == Lowest(Layout(l))
<1>1. f \in Above /\ f \notin {l.read, l.write, l.in, l.out}
  BY FreeAbove
<1> HIDE DEF f
<1>2. f \in Fd /\ ~(f <= 2)
  BY <1>1, FdFacts
<1>3. l.read = NoFd => Open(Layout(l), "pipe read") = Layout([l EXCEPT !.read = f])
  <2> DEFINE m == [l EXCEPT !.read = f]
  <2> SUFFICES ASSUME l.read = NoFd
               PROVE  Open(Layout(l), "pipe read") = Layout(m)
    OBVIOUS
  <2>1. m.read = f /\ m.write = l.write /\ m.in = l.in /\ m.out = l.out
    BY DEF Locals
  <2> HIDE DEF m
  <2>2. Layout(m)[f] = "pipe read"
    BY <1>1, <1>2, <2>1, LayoutAt
  <2>3. ASSUME NEW g \in Fd, g # f
        PROVE  Layout(m)[g] = Layout(l)[g]
    <3>1. g # NoFd
      BY FdFacts
    <3> QED
      BY <2>1, <2>3, <3>1, LayoutSame
  <2> QED
    BY <1>2, <2>2, <2>3, OpenIs DEF f
<1>4. l.write = NoFd => Open(Layout(l), "pipe write") = Layout([l EXCEPT !.write = f])
  <2> DEFINE m == [l EXCEPT !.write = f]
  <2> SUFFICES ASSUME l.write = NoFd
               PROVE  Open(Layout(l), "pipe write") = Layout(m)
    OBVIOUS
  <2>1. m.read = l.read /\ m.write = f /\ m.in = l.in /\ m.out = l.out
    BY DEF Locals
  <2> HIDE DEF m
  <2>2. Layout(m)[f] = "pipe write"
    BY <1>1, <1>2, <2>1, LayoutAt
  <2>3. ASSUME NEW g \in Fd, g # f
        PROVE  Layout(m)[g] = Layout(l)[g]
    <3>1. g # NoFd
      BY FdFacts
    <3> QED
      BY <2>1, <2>3, <3>1, LayoutSame
  <2> QED
    BY <1>2, <2>2, <2>3, OpenIs DEF f
<1>5. l.in = NoFd => Open(Layout(l), "null in") = Layout([l EXCEPT !.in = f])
  <2> DEFINE m == [l EXCEPT !.in = f]
  <2> SUFFICES ASSUME l.in = NoFd
               PROVE  Open(Layout(l), "null in") = Layout(m)
    OBVIOUS
  <2>1. m.read = l.read /\ m.write = l.write /\ m.in = f /\ m.out = l.out
    BY DEF Locals
  <2> HIDE DEF m
  <2>2. Layout(m)[f] = "null in"
    BY <1>1, <1>2, <2>1, LayoutAt
  <2>3. ASSUME NEW g \in Fd, g # f
        PROVE  Layout(m)[g] = Layout(l)[g]
    <3>1. g # NoFd
      BY FdFacts
    <3> QED
      BY <2>1, <2>3, <3>1, LayoutSame
  <2> QED
    BY <1>2, <2>2, <2>3, OpenIs DEF f
<1>6. l.out = NoFd => Open(Layout(l), "null out") = Layout([l EXCEPT !.out = f])
  <2> DEFINE m == [l EXCEPT !.out = f]
  <2> SUFFICES ASSUME l.out = NoFd
               PROVE  Open(Layout(l), "null out") = Layout(m)
    OBVIOUS
  <2>1. m.read = l.read /\ m.write = l.write /\ m.in = l.in /\ m.out = f
    BY DEF Locals
  <2> HIDE DEF m
  <2>2. Layout(m)[f] = "null out"
    BY <1>1, <1>2, <2>1, LayoutAt
  <2>3. ASSUME NEW g \in Fd, g # f
        PROVE  Layout(m)[g] = Layout(l)[g]
    <3>1. g # NoFd
      BY FdFacts
    <3> QED
      BY <2>1, <2>3, <3>1, LayoutSame
  <2> QED
    BY <1>2, <2>2, <2>3, OpenIs DEF f
<1> QED
  BY <1>3, <1>4, <1>5, <1>6 DEF f

\* Closing the descriptors of the call leaves the standard ones; the descriptors
\* that a step names may be fewer when the others are not in use.
LEMMA ShutLayout ==
    ASSUME NEW l \in Locals, NEW S, S \subseteq Fd \cup {NoFd},
           \A f \in S : f \notin 0 .. 2,
           \A f \in {l.read, l.write, l.in, l.out} : f \in S \/ f = NoFd
    PROVE  Shut(Layout(l), S) = Started
<1>1. \A f \in Fd : f \in S => f > 2
  BY SpawnAssumption DEF Fd
<1>2. \A f \in Fd : (IF f \in S THEN Closed ELSE Layout(l)[f]) = Started[f]
  <2> TAKE f \in Fd
  <2>1. f # NoFd /\ f \in Int
    BY SpawnAssumption DEF Fd, NoFd
  <2>2. CASE f \in S
    BY <2>1, <2>2, <1>1 DEF Started, Closed, Fd
  <2>3. CASE f \notin S
    <3>1. f \notin {l.read, l.write, l.in, l.out}
      BY <2>1, <2>3
    <3> QED
      BY <2>3, <3>1 DEF Layout, Started, Closed
  <2> QED
    BY <2>2, <2>3
<1> QED
  BY <1>2 DEF Shut, Started

\* What dup2 and close make of the layout between fork and exec.
LEMMA ChildLayout ==
    ASSUME local \in Locals, HasInput(local), HasOutput(local), theirs = Layout(local)
    PROVE  ChildTable = [f \in Fd |-> IF f > 2 THEN Closed ELSE IF f > 0 THEN "null out"
                                      ELSE IF piped THEN "pipe read" ELSE "null in"]
<1> DEFINE Expected == [f \in Fd |-> IF f > 2 THEN Closed ELSE IF f > 0 THEN "null out"
                                      ELSE IF piped THEN "pipe read" ELSE "null in"]
           source == IF piped THEN local.read ELSE local.in
           out == local.out
           before == IF piped THEN Shut(theirs, {local.write}) ELSE theirs
           input == Dup2(before, source, 0)
           in == Shut(input, {source})
           output == Dup2(in, out, 1)
           error == Dup2(output, out, 2)
           final == Shut(error, {out})
<1>1. source \in Above /\ out \in Above /\ out # source
  BY DEF HasInput, HasOutput
<1>2. /\ IsTable(before)
      /\ before[source] = (IF piped THEN "pipe read" ELSE "null in") /\ before[out] = "null out"
      /\ \A f \in Fd : ~(f <= 2) /\ f # source /\ f # out => before[f] = Closed
  <2>1. CASE piped
    <3>1. /\ IsTable(before)
          /\ \A f \in Fd : before[f] = IF f \in {local.write} THEN Closed ELSE Layout(local)[f]
      BY <2>1, LayoutTable, ShutAt
    <3>2. /\ source = local.read /\ local.in = NoFd /\ source # local.write /\ out # local.write
          /\ source \in Fd /\ out \in Fd /\ ~(source <= 2) /\ ~(out <= 2) /\ out # NoFd
      BY <1>1, <2>1, FdFacts DEF HasInput, HasOutput
    <3> HIDE DEF before, source, out
    <3>3. Layout(local)[source] = "pipe read"
      BY <3>2, LayoutAt
    <3>4. Layout(local)[out] = "null out"
      BY <1>1, <3>2, LayoutAt DEF out
    <3>5. \A f \in Fd : ~(f <= 2) /\ f # source /\ f # out => before[f] = Closed
      BY <3>1, <3>2, LayoutAt, FdFacts DEF out
    <3> QED
      BY <2>1, <3>1, <3>2, <3>3, <3>4, <3>5
  <2>2. CASE ~piped
    <3>1. before = Layout(local) /\ IsTable(before)
      BY <2>2, LayoutTable
    <3>2. /\ source = local.in /\ local.read = NoFd /\ local.write = NoFd
          /\ source \in Fd /\ out \in Fd /\ ~(source <= 2) /\ ~(out <= 2)
          /\ source # NoFd /\ out # NoFd
      BY <1>1, <2>2, FdFacts DEF HasInput
    <3> HIDE DEF before, source, out
    <3>3. Layout(local)[source] = "null in"
      BY <3>2, LayoutAt
    <3>4. Layout(local)[out] = "null out"
      BY <1>1, <3>2, LayoutAt DEF out
    <3>5. \A f \in Fd : ~(f <= 2) /\ f # source /\ f # out => before[f] = Closed
      BY <3>1, <3>2, LayoutAt, FdFacts DEF out
    <3> QED
      BY <2>2, <3>1, <3>3, <3>4, <3>5
  <2> QED
    BY <2>1, <2>2
<1>3. source \in Fd /\ out \in Fd /\ ~(source <= 2) /\ ~(out <= 2) /\ out # source
  BY <1>1, FdFacts
<1>4. /\ 0 # source /\ 0 # out /\ 1 # source /\ 1 # out /\ 2 # source /\ 2 # out
      /\ 0 \in Fd /\ 1 \in Fd /\ 2 \in Fd
  BY <1>3, FdFacts
<1> HIDE DEF source, out, before
<1>5. /\ IsTable(input)
      /\ \A f \in Fd : input[f] = IF f = 0 THEN before[source] ELSE before[f]
  <2>1. IsTable(before) /\ source \in Fd /\ 0 \in Fd
    BY <1>2, <1>3, <1>4
  <2> QED
    BY <2>1, DupAt
<1> HIDE DEF input
<1>6. IsTable(in) /\ \A f \in Fd : in[f] = IF f \in {source} THEN Closed ELSE input[f]
  BY <1>5, ShutAt
<1> HIDE DEF in
<1>7. IsTable(output) /\ \A f \in Fd : output[f] = IF f = 1 THEN in[out] ELSE in[f]
  BY <1>3, <1>6, <1>4, DupAt
<1> HIDE DEF output
<1>8. IsTable(error) /\ \A f \in Fd : error[f] = IF f = 2 THEN output[out] ELSE output[f]
  BY <1>3, <1>7, <1>4, DupAt
<1> HIDE DEF error
<1>9. IsTable(final) /\ \A f \in Fd : final[f] = IF f \in {out} THEN Closed ELSE error[f]
  BY <1>8, ShutAt
<1> HIDE DEF final
<1>10. in[out] = "null out"
  BY <1>2, <1>3, <1>5, <1>6, <1>4
<1>11. output[out] = "null out"
  BY <1>3, <1>7, <1>4, <1>10
<1>12. final[0] = (IF piped THEN "pipe read" ELSE "null in")
  <2>1. final[0] = in[0]
    BY <1>7, <1>8, <1>9, <1>4
  <2>2. in[0] = before[source]
    BY <1>5, <1>6, <1>4
  <2> QED
    BY <1>2, <2>1, <2>2
<1>13. final[1] = "null out" /\ final[2] = "null out"
  BY <1>7, <1>8, <1>9, <1>4, <1>10, <1>11, FdFacts
<1>14. \A f \in Fd : ~(f <= 2) => final[f] = Closed
  <2> TAKE f \in Fd
  <2> SUFFICES ASSUME ~(f <= 2) PROVE final[f] = Closed
    OBVIOUS
  <2>1. f # 0 /\ f # 1 /\ f # 2
    OBVIOUS
  <2>2. CASE f = out
    BY <1>9, <2>2
  <2>3. CASE f = source
    BY <1>6, <1>7, <1>8, <1>9, <2>1, <2>3, <1>3
  <2>4. CASE f # out /\ f # source
    <3>1. final[f] = in[f]
      BY <1>7, <1>8, <1>9, <2>1, <2>4
    <3>2. in[f] = before[f]
      BY <1>5, <1>6, <2>1, <2>4
    <3> QED
      BY <1>2, <2>4, <3>1, <3>2
  <2> QED
    BY <2>2, <2>3, <2>4
<1>15. \A f \in Fd : final[f] = Expected[f]
  <2> TAKE f \in Fd
  <2>1. CASE ~(f <= 2)
    <3>1. f > 2
      BY <2>1, FdFacts
    <3> QED
      BY <1>14, <2>1, <3>1
  <2>2. CASE f = 0
    <3>1. ~(f > 0) /\ ~(f > 2)
      BY <2>2
    <3>2. Expected[f] = IF piped THEN "pipe read" ELSE "null in"
      BY <3>1
    <3> QED
      BY <1>12, <2>2, <3>2
  <2>3. CASE f = 1 \/ f = 2
    <3>1. f > 0 /\ ~(f > 2)
      BY <2>3
    <3> QED
      BY <1>13, <2>3, <3>1
  <2> QED
    BY <2>1, <2>2, <2>3, FdFacts
<1>16. IsTable(Expected)
  BY DEF IsTable
<1> HIDE DEF Expected
<1>17. final = Expected
  BY <1>9, <1>15, <1>16, TableIs
<1>18. ChildTable = final
  BY DEF ChildTable, final, error, output, in, input, before, out, source
<1> QED
  BY <1>17, <1>18 DEF Expected

-----------------------------------------------------------------------------
(* The invariant.                                                            *)

\* At each step the benchmark has open what its local variables say, the child
\* between fork and exec the same, and the child that runs its streams alone.
SpawnInv ==
    /\ step \in {"idle", "input", "output", "fork", "close", "write", "unfed", "wait",
                "returned", "killed"}
    /\ local \in Locals
    /\ step \in {"idle", "input", "returned"} => local = NoLocals
    /\ step = "output" => HasInput(local) /\ local.out = NoFd
    /\ step \notin {"idle", "input", "output", "returned"} => HasInput(local) /\ HasOutput(local)
    /\ step \in {"idle", "input", "returned", "wait", "unfed"} => parent = Started
    /\ step \in {"output", "fork", "close"} => parent = Layout(local)
    /\ step = "write" => piped /\ parent = Layout([local EXCEPT !.read = NoFd])
    /\ step \in {"idle", "input", "output", "fork", "returned"} => child = "none"
    /\ child = "forked" => theirs = Layout(local)
    /\ ChildStreams

\* The harness reaches the state of spawn_run only by a call and its return.
LEMMA SpawnFrame ==
    ASSUME [Next]_vars
    PROVE  \/ CallSpawn(Current.piped)
           \/ \E value \in {0, -1} : LeaveSpawn(value)
           \/ SpawnRun
           \/ Child
           \/ UNCHANGED spawnVars
<1>1. CASE UNCHANGED vars
  BY <1>1 DEF vars
<1>2. CASE (SpawnRun \/ Child) /\ UNCHANGED benchVars
  BY <1>2
<1>3. CASE SelectCase
  BY <1>3 DEF SelectCase
<1>4. CASE BeginRun
  BY <1>4 DEF BeginRun
<1>5. CASE CallFn
  BY <1>5 DEF CallFn
<1>6. CASE FnReturns
  BY <1>6 DEF FnReturns, FnReturned
<1>7. CASE BeginSampling
  BY <1>7 DEF BeginSampling
<1>8. CASE CheckRuntime
  BY <1>8 DEF CheckRuntime
<1>9. CASE TakeSample
  BY <1>9 DEF TakeSample
<1>10. CASE Statistics
  BY <1>10 DEF Statistics
<1>11. CASE Emit
  BY <1>11 DEF Emit
<1> QED
  BY <1>1, <1>2, <1>3, <1>4, <1>5, <1>6, <1>7, <1>8, <1>9, <1>10, <1>11 DEF Next, Harness

\* The invariant holds at the start, and each action preserves it.
LEMMA SpawnInvInit == ASSUME Init PROVE SpawnInv
BY LayoutStarted DEF Init, SpawnInit, SpawnInv, ChildStreams

\* What is opened for the input is what the local variables say.
LEMMA StepOpenInput == ASSUME SpawnInv, OpenInput PROVE SpawnInv'
<1>1. /\ step = "input" /\ local = NoLocals /\ parent = Layout(NoLocals) /\ child = "none"
      /\ UNCHANGED <<piped, child, theirs>> /\ NoLocals \in Locals
  BY LayoutStarted DEF SpawnInv, OpenInput
<1>2. CASE Return(-1) /\ UNCHANGED parent
  BY <1>1, <1>2, LayoutStarted DEF Return, SpawnInv, ChildStreams
<1>3. ASSUME piped, Cardinality(Free(parent)) >= 2,
             LET one == Open(parent, "pipe read")
             IN /\ parent' = Open(one, "pipe write")
                /\ local' = [local EXCEPT !.read = Lowest(parent), !.write = Lowest(one)],
             step' = "output"
      PROVE  SpawnInv'
  <2> DEFINE r == Lowest(Layout(NoLocals))
             l == [NoLocals EXCEPT !.read = r]
             w == Lowest(Layout(l))
             m == [l EXCEPT !.write = w]
  <2> DEFINE F == Free(Layout(NoLocals))
  <2>1. IsFiniteSet(F) /\ Cardinality(F) >= 2
    <3>1. IsFiniteSet(Fd)
      BY FS_Interval, SpawnAssumption DEF Fd
    <3>2. F \in SUBSET Fd
      BY DEF Free
    <3>3. IsFiniteSet(F)
      BY <3>1, <3>2, FS_Subset
    <3> QED
      BY <1>1, <1>3, <3>3
  <2>2. F # {}
    BY <2>1, FS_EmptySet
  <2>3. r \in Above /\ Open(Layout(NoLocals), "pipe read") = Layout(l)
    BY <1>1, <2>2, FreeAbove, OpenLayout DEF NoLocals
  <2>4. l \in Locals /\ l.read = r /\ l.write = NoFd /\ l.in = NoFd /\ l.out = NoFd
    BY <2>3, FdFacts DEF Locals, NoLocals
  <2>5. Free(Layout(l)) # {}
    <3>1. F \ {r} # {}
      <4>1. F # {r}
        BY <2>1, FS_Singleton
      <4> QED
        BY <2>2, <4>1
    <3>2. PICK f \in Fd : Layout(NoLocals)[f] = Closed /\ f # r
      BY <3>1 DEF Free
    <3>3. ~(f <= 2) /\ f # NoFd
      BY <3>2, LayoutAt, FdFacts
    <3>4. Layout(l)[f] = Closed
      BY <2>4, <3>2, <3>3, LayoutAt
    <3> QED
      BY <3>4 DEF Free
  <2> HIDE DEF r, l
  <2>6. /\ w \in Above /\ w # r /\ w # NoFd /\ r # NoFd
        /\ Open(Layout(l), "pipe write") = Layout(m)
    BY <2>3, <2>4, <2>5, FreeAbove, OpenLayout, FdFacts
  <2>7. m \in Locals /\ m.read = r /\ m.write = w /\ m.in = NoFd /\ m.out = NoFd
    BY <2>4, <2>6, FdFacts DEF Locals
  <2>8. parent' = Layout(m) /\ local' = m
    BY <1>1, <1>3, <2>3, <2>6 DEF l, r
  <2> HIDE DEF w, m
  <2> QED
    BY <1>1, <1>3, <2>3, <2>6, <2>7, <2>8 DEF SpawnInv, ChildStreams, HasInput
<1>4. ASSUME ~piped, Free(parent) # {}, parent' = Open(parent, "null in"),
             local' = [local EXCEPT !.in = Lowest(parent)], step' = "output"
      PROVE  SpawnInv'
  <2> DEFINE i == Lowest(Layout(NoLocals))
             l == [NoLocals EXCEPT !.in = i]
  <2>1. /\ i \in Above /\ Open(Layout(NoLocals), "null in") = Layout(l)
    BY <1>1, <1>4, FreeAbove, OpenLayout DEF NoLocals
  <2>2. l \in Locals /\ l.read = NoFd /\ l.write = NoFd /\ l.in = i /\ l.out = NoFd
    BY <2>1, FdFacts DEF Locals, NoLocals
  <2>3. parent' = Layout(l) /\ local' = l
    BY <1>1, <1>4, <2>1
  <2> HIDE DEF i, l
  <2> QED
    BY <1>1, <1>4, <2>1, <2>2, <2>3 DEF SpawnInv, ChildStreams, HasInput
<1> QED
  BY <1>2, <1>3, <1>4 DEF OpenInput

\* Both failures give back what was opened.
LEMMA StepOpenOutput == ASSUME SpawnInv, OpenOutput PROVE SpawnInv'
<1>1. /\ step = "output" /\ local \in Locals /\ parent = Layout(local) /\ child = "none"
      /\ HasInput(local) /\ local.out = NoFd /\ UNCHANGED <<piped, child, theirs>>
  BY DEF SpawnInv, OpenOutput
<1>2. ASSUME Return(-1), parent' = Shut(parent, {local.read, local.write, local.in})
      PROVE  SpawnInv'
  <2>1. parent' = Started
    BY <1>1, <1>2, ShutLayout, FdFacts DEF HasInput, Locals
  <2> QED
    BY <1>1, <1>2, <2>1, LayoutStarted DEF Return, SpawnInv, ChildStreams
<1>3. ASSUME Free(parent) # {}, parent' = Open(parent, "null out"),
             local' = [local EXCEPT !.out = Lowest(parent)], step' = "fork"
      PROVE  SpawnInv'
  <2> DEFINE o == Lowest(Layout(local))
             l == [local EXCEPT !.out = o]
  <2>1. /\ o \in Above /\ o \notin {local.read, local.write, local.in}
        /\ Open(Layout(local), "null out") = Layout(l)
    BY <1>1, <1>3, FreeAbove, OpenLayout
  <2>2. /\ l \in Locals /\ l.read = local.read /\ l.write = local.write /\ l.in = local.in
        /\ l.out = o
    BY <1>1, <2>1, FdFacts DEF Locals
  <2>3. parent' = Layout(l) /\ local' = l
    BY <1>1, <1>3, <2>1
  <2> HIDE DEF o, l
  <2> QED
    BY <1>1, <1>3, <2>1, <2>2, <2>3 DEF SpawnInv, ChildStreams, HasInput, HasOutput
<1> QED
  BY <1>2, <1>3 DEF OpenOutput

\* The child starts with the table of the benchmark.
LEMMA StepFork == ASSUME SpawnInv, Fork PROVE SpawnInv'
<1>1. /\ step = "fork" /\ local \in Locals /\ parent = Layout(local) /\ child = "none"
      /\ HasInput(local) /\ HasOutput(local) /\ piped' = piped
  BY DEF SpawnInv, Fork
<1>2. ASSUME Return(-1), parent' = Shut(parent, {local.read, local.write, local.in, local.out}),
             UNCHANGED <<child, theirs>>
      PROVE  SpawnInv'
  <2>1. parent' = Started
    BY <1>1, <1>2, ShutLayout, FdFacts DEF HasInput, HasOutput, Locals
  <2> QED
    BY <1>1, <1>2, <2>1, LayoutStarted DEF Return, SpawnInv, ChildStreams
<1>3. ASSUME child' = "forked", theirs' = parent, step' = "close", UNCHANGED <<parent, local>>
      PROVE  SpawnInv'
  BY <1>1, <1>3 DEF SpawnInv, ChildStreams, HasInput, HasOutput
<1> QED
  BY <1>2, <1>3 DEF Fork

\* Closing one end of the pipe leaves a layout without it.
LEMMA ShutRead ==
    ASSUME NEW l \in Locals, l.read \in Above
    PROVE  \/ Shut(Layout(l), {l.read}) = Layout([l EXCEPT !.read = NoFd])
           \/ l.read \in {l.write, l.in, l.out}
<1> DEFINE m == [l EXCEPT !.read = NoFd]
           t == Shut(Layout(l), {l.read})
<1>1. m.read = NoFd /\ m.write = l.write /\ m.in = l.in /\ m.out = l.out
  BY DEF Locals
<1>2. IsTable(t) /\ \A f \in Fd : t[f] = IF f = l.read THEN Closed ELSE Layout(l)[f]
  BY LayoutTable, ShutAt
<1> HIDE DEF m, t
<1> SUFFICES ASSUME l.read \notin {l.write, l.in, l.out}
             PROVE  t = Layout(m)
  BY DEF t, m
<1>3. \A f \in Fd : t[f] = Layout(m)[f]
  <2> TAKE f \in Fd
  <2>1. CASE f = l.read
    <3>1. ~(f <= 2) /\ f \notin {m.read, m.write, m.in, m.out}
      BY <1>1, <2>1, FdFacts
    <3> QED
      BY <1>2, <2>1, <3>1, LayoutAt
  <2>2. CASE f # l.read
    <3>1. Layout(m)[f] = Layout(l)[f]
      BY <1>1, <2>2, LayoutSame, FdFacts
    <3> QED
      BY <1>2, <2>2, <3>1
  <2> QED
    BY <2>1, <2>2
<1> QED
  BY <1>2, <1>3, LayoutTable, TableIs

\* The benchmark keeps the write end alone, or nothing.
LEMMA StepCloseInput == ASSUME SpawnInv, CloseInput PROVE SpawnInv'
<1>1. /\ step = "close" /\ local \in Locals /\ parent = Layout(local)
      /\ HasInput(local) /\ HasOutput(local) /\ UNCHANGED <<piped, local, child, theirs>>
  BY DEF SpawnInv, CloseInput
<1>2. CASE piped
  <2>1. step' = "write" /\ parent' = Shut(parent, {local.read})
    BY <1>2 DEF CloseInput
  <2>2. local.read \in Above /\ local.read \notin {local.write, local.in, local.out}
    BY <1>1, <1>2, FdFacts DEF HasInput, HasOutput
  <2>3. parent' = Layout([local EXCEPT !.read = NoFd])
    BY <1>1, <2>1, <2>2, ShutRead
  <2> QED
    BY <1>1, <1>2, <2>1, <2>3 DEF SpawnInv, ChildStreams, HasInput, HasOutput
<1>3. CASE ~piped
  <2>1. step' = "wait" /\ parent' = Shut(parent, {local.in, local.out})
    BY <1>3 DEF CloseInput
  <2>2. parent' = Started
    BY <1>1, <1>3, <2>1, ShutLayout, FdFacts DEF HasInput, HasOutput, Locals
  <2> QED
    BY <1>1, <1>3, <2>1, <2>2 DEF SpawnInv, ChildStreams, HasInput, HasOutput
<1> QED
  BY <1>2, <1>3

\* The end that is left and the output are all the benchmark still holds.
LEMMA ShutWriter ==
    ASSUME SpawnInv, step = "write"
    PROVE  Shut(parent, {local.write, local.out}) = Started
<1> DEFINE l == [local EXCEPT !.read = NoFd]
<1>1. /\ local \in Locals /\ HasInput(local) /\ HasOutput(local) /\ piped
      /\ parent = Layout(l)
  BY DEF SpawnInv
<1>2. /\ l \in Locals /\ l.read = NoFd /\ l.write = local.write /\ l.in = NoFd
      /\ l.out = local.out
  BY <1>1 DEF Locals, HasInput
<1> HIDE DEF l
<1>3. local.write \in Above /\ local.out \in Above
  BY <1>1 DEF HasInput, HasOutput
<1> QED
  BY <1>1, <1>2, <1>3, ShutLayout, FdFacts

\* After the last byte, or when nobody reads, nothing is left open.
LEMMA StepWrite == ASSUME SpawnInv, Write \/ CloseWriter PROVE SpawnInv'
<1>1. /\ step = "write" /\ UNCHANGED <<piped, local, child, theirs>>
  BY DEF Write, CloseWriter
<1>2. CASE step' = "write" /\ parent' = parent
  BY <1>1, <1>2 DEF SpawnInv, ChildStreams, HasInput, HasOutput
<1>3. CASE step' \in {"wait", "unfed"} /\ parent' = Started
  BY <1>1, <1>3 DEF SpawnInv, ChildStreams, HasInput, HasOutput
<1>4. CASE step' = "killed"
  BY <1>1, <1>4 DEF SpawnInv, ChildStreams, HasInput, HasOutput
<1> QED
  BY <1>1, <1>2, <1>3, <1>4, ShutWriter DEF Write, CloseWriter

\* The child is gone when spawn_run returns.
LEMMA StepWaitChild == ASSUME SpawnInv, WaitChild PROVE SpawnInv'
<1>1. /\ step \in {"wait", "unfed"} /\ child' = "none" /\ step' = "returned" /\ local' = NoLocals
      /\ UNCHANGED <<piped, parent, theirs>>
  BY DEF WaitChild, Return
<1>2. parent' = Started
  BY <1>1 DEF SpawnInv
<1> QED
  BY <1>1, <1>2, LayoutStarted DEF SpawnInv, ChildStreams

\* dup2 and close make the streams of salt out of what it inherited.
LEMMA StepChild == ASSUME SpawnInv, Child PROVE SpawnInv'
<1>1. UNCHANGED <<step, piped, parent, local>>
  BY DEF Child, Exec, Eat, ChildExit
<1>2. child # "none" /\ step \notin {"idle", "input", "output", "fork", "returned"}
  BY DEF SpawnInv, Child, Exec, Eat, ChildExit
<1>3. CASE Exec
  <2>1. /\ child = "forked" /\ child' = "running" /\ theirs' = ChildTable
        /\ local \in Locals /\ HasInput(local) /\ HasOutput(local) /\ theirs = Layout(local)
    BY <1>2, <1>3 DEF Exec, SpawnInv
  <2>2. theirs' = [f \in Fd |-> IF f > 2 THEN Closed ELSE IF f > 0 THEN "null out"
                                ELSE IF piped THEN "pipe read" ELSE "null in"]
    BY <2>1, ChildLayout
  <2> QED
    BY <1>1, <1>2, <2>1, <2>2 DEF SpawnInv, ChildStreams, HasInput, HasOutput
<1>4. CASE Eat
  <2>1. child = "running" /\ child' \in {"running", "fed"} /\ theirs' = theirs
    BY <1>4 DEF Eat
  <2> QED
    BY <1>1, <1>2, <2>1 DEF SpawnInv, ChildStreams, HasInput, HasOutput
<1>5. CASE ChildExit
  <2>1. child' \in {"none", "zombie"}
    BY <1>5 DEF ChildExit
  <2> QED
    BY <1>1, <1>2, <2>1 DEF SpawnInv, ChildStreams, HasInput, HasOutput
<1> QED
  BY <1>3, <1>4, <1>5 DEF Child

\* Every step of benchmark and child preserves the invariant.
LEMMA SpawnInvStep == ASSUME SpawnInv, [Next]_vars PROVE SpawnInv'
<1>1. CASE CallSpawn(Current.piped)
  BY <1>1 DEF CallSpawn, SpawnInv, ChildStreams
<1>2. ASSUME NEW value \in {0, -1}, LeaveSpawn(value)
      PROVE  SpawnInv'
  BY <1>2 DEF LeaveSpawn, SpawnInv, ChildStreams
<1>3. CASE SpawnRun
  BY <1>3, StepOpenInput, StepOpenOutput, StepFork, StepCloseInput, StepWrite, StepWaitChild
     DEF SpawnRun
<1>4. CASE Child
  BY <1>4, StepChild
<1>5. CASE UNCHANGED spawnVars
  BY <1>5 DEF spawnVars, SpawnInv, ChildStreams, HasInput, HasOutput
<1> QED
  BY <1>1, <1>2, <1>3, <1>4, <1>5, SpawnFrame

\* So it holds in every reachable state.
LEMMA SpawnInvariant == BenchSpec => []SpawnInv
BY SpawnInvInit, SpawnInvStep, PTL DEF BenchSpec

-----------------------------------------------------------------------------
(* What the child is fed.                                                    *)

\* What is written is eaten or in the pipe; a child that saw the end of a pipe
\* has eaten all of it, the benchmark having no end of the pipe left; and the
\* benchmark waits for a child only when everything is written.
FeedInv ==
    /\ buffered \in Nat /\ written \in Nat /\ eaten \in Nat /\ eaten + buffered = written
    /\ ~piped => written = 0
    /\ step \in {"idle", "input", "output", "fork", "close"} => written = 0
    /\ step = "wait" /\ piped => written = DataLen
    /\ piped /\ (child = "fed" \/ (child = "zombie" /\ exit = 0)) =>
          buffered = 0 /\ step \in {"wait", "unfed", "killed"}
    /\ SuccessIsWhole

\* While the benchmark has the end of the pipe open the child sees no end.
LEMMA WriterHeld == ASSUME SpawnInv, piped, step \in {"close", "write"} PROVE Writers
<1>1. /\ HasInput(local) /\ HasOutput(local) /\ local \in Locals
  BY DEF SpawnInv
<1>2. /\ local.write \in Fd /\ ~(local.write <= 2) /\ local.write # local.read /\ local.write # NoFd
  BY <1>1, FdFacts DEF HasInput
<1>3. Layout(local)[local.write] = "pipe write"
  BY <1>2, LayoutAt
<1> DEFINE l == [local EXCEPT !.read = NoFd]
<1>4. l.read = NoFd /\ l.write = local.write
  BY <1>1 DEF Locals
<1> HIDE DEF l
<1>5. Layout(l)[local.write] = "pipe write"
  BY <1>2, <1>4, LayoutAt
<1>6. parent[local.write] = "pipe write"
  BY <1>3, <1>5 DEF SpawnInv, l
<1> QED
  BY <1>2, <1>6 DEF Writers, Has

\* Every step of benchmark and child keeps the account of the bytes.
LEMMA FeedInvStep == ASSUME SpawnInv, FeedInv, [Next]_vars PROVE FeedInv'
<1>1. CASE CallSpawn(Current.piped)
  BY <1>1 DEF CallSpawn, SpawnInv, FeedInv, SuccessIsWhole
<1>2. ASSUME NEW value \in {0, -1}, LeaveSpawn(value)
      PROVE  FeedInv'
  BY <1>2 DEF LeaveSpawn, SpawnInv, FeedInv, SuccessIsWhole
<1>3. CASE OpenInput \/ OpenOutput \/ Fork \/ CloseInput
  <2>1. /\ step \in {"input", "output", "fork", "close"} /\ written = 0
        /\ step' \in {"output", "fork", "close", "write", "wait", "returned"}
        /\ step' = "returned" => rc' = -1
        /\ step' = "wait" => ~piped
        /\ UNCHANGED <<piped, buffered, written, eaten, exit>>
        /\ child' = child \/ child' = "forked"
    BY <1>3 DEF OpenInput, OpenOutput, Fork, CloseInput, Return, FeedInv
  <2> QED
    BY <2>1 DEF FeedInv, SuccessIsWhole
<1>4. CASE Write
  <2>1. /\ step = "write" /\ piped /\ step' \in {"write", "unfed", "killed"}
        /\ UNCHANGED <<piped, child, eaten, exit>>
    BY <1>4 DEF Write, SpawnInv
  <2>2. \/ UNCHANGED <<buffered, written>>
        \/ \E n \in 1 .. PipeSize : buffered' = buffered + n /\ written' = written + n
    BY <1>4 DEF Write
  <2>3. child # "fed" /\ ~(child = "zombie" /\ exit = 0)
    BY <2>1 DEF FeedInv
  <2> QED
    BY <2>1, <2>2, <2>3, SpawnAssumption DEF FeedInv, SuccessIsWhole
<1>5. CASE CloseWriter
  <2>1. /\ step = "write" /\ written = DataLen /\ step' = "wait"
        /\ UNCHANGED <<piped, child, buffered, written, eaten, exit, rc>>
    BY <1>5 DEF CloseWriter
  <2> QED
    BY <2>1 DEF FeedInv, SuccessIsWhole
<1>6. CASE WaitChild
  <2>1. /\ step \in {"wait", "unfed"} /\ step' = "returned" /\ child' = "none"
        /\ UNCHANGED <<piped, buffered, written, eaten, exit>>
        /\ rc' = 0 => step = "wait" /\ exit = 0 /\ child = "zombie"
    BY <1>6 DEF WaitChild, Return
  <2>2. step = "wait" /\ exit = 0 /\ child = "zombie" => eaten = IF piped THEN DataLen ELSE 0
    BY SpawnAssumption DEF FeedInv
  <2> QED
    BY <2>1, <2>2 DEF FeedInv, SuccessIsWhole
<1>7. CASE Exec
  BY <1>7 DEF Exec, FeedInv, SuccessIsWhole
<1>8. CASE Eat
  <2>1. /\ child = "running" /\ UNCHANGED <<step, piped, written, exit, rc>>
        /\ step \notin {"idle", "input", "output", "fork", "returned"}
    BY <1>8 DEF Eat, SpawnInv
  <2>2. theirs[0] = IF piped THEN "pipe read" ELSE "null in"
    <3>1. theirs = [f \in Fd |-> IF f > 2 THEN Closed ELSE IF f > 0 THEN "null out"
                                 ELSE IF piped THEN "pipe read" ELSE "null in"]
      BY <2>1 DEF SpawnInv, ChildStreams
    <3>2. 0 \in Fd /\ ~(0 > 2) /\ ~(0 > 0)
      BY FdFacts
    <3> QED
      BY <3>1, <3>2
  <2>3. CASE buffered > 0 /\ buffered' = buffered - 1 /\ eaten' = eaten + 1 /\ child' = child
    BY <2>1, <2>3 DEF FeedInv, SuccessIsWhole
  <2>4. CASE theirs[0] = "pipe read" /\ buffered = 0 /\ ~Writers /\ child' = "fed"
             /\ UNCHANGED <<buffered, eaten>>
    <3>1. piped /\ step \notin {"close", "write"}
      BY <2>2, <2>4, WriterHeld
    <3>2. step \in {"wait", "unfed", "killed"}
      BY <2>1, <3>1 DEF SpawnInv
    <3> QED
      BY <2>1, <2>4, <3>1, <3>2 DEF FeedInv, SuccessIsWhole
  <2>5. CASE theirs[0] = "null in" /\ child' = "fed" /\ UNCHANGED <<buffered, eaten>>
    BY <2>1, <2>2, <2>5 DEF FeedInv, SuccessIsWhole
  <2> QED
    BY <1>8, <2>3, <2>4, <2>5 DEF Eat
<1>9. CASE ChildExit
  <2>1. /\ UNCHANGED <<step, piped, buffered, written, eaten, rc>> /\ child' \in {"none", "zombie"}
        /\ exit' = 0 => child = "fed"
        /\ step # "returned"
    BY <1>9 DEF ChildExit, SpawnInv
  <2> QED
    BY <2>1 DEF FeedInv, SuccessIsWhole
<1>10. CASE UNCHANGED spawnVars
  BY <1>10 DEF spawnVars, FeedInv, SuccessIsWhole
<1> QED
  BY <1>1, <1>2, <1>3, <1>4, <1>5, <1>6, <1>7, <1>8, <1>9, <1>10, SpawnFrame DEF SpawnRun, Child

\* So it holds in every reachable state.
LEMMA FeedInvariant == BenchSpec => []FeedInv
<1>1. Init => FeedInv
  BY DEF Init, SpawnInit, FeedInv, SuccessIsWhole
<1> QED
  BY <1>1, FeedInvStep, SpawnInvariant, PTL DEF BenchSpec

-----------------------------------------------------------------------------
(* What the harness holds.                                                   *)

CaseBlocks == {"runs", "medians"}

\* The blocks of a case are held while it runs, those of its samples while it
\* is sampled.
HeapInv ==
    /\ at \in {"case", "run", "warmup", "check", "batch", "statistics", "emit", "exit"}
    /\ blocks \subseteq CaseBlocks \cup SampleBlocks
    /\ at \in {"run", "warmup"} => blocks \subseteq CaseBlocks
    /\ at \in {"case", "emit", "exit"} => blocks = {}

\* Every step of the harness keeps the account of the blocks.
LEMMA HeapInvStep == ASSUME HeapInv, [Next]_vars PROVE HeapInv'
<1> USE DEF CaseBlocks, SampleBlocks
<1>1. CASE UNCHANGED <<at, blocks>>
  BY <1>1 DEF HeapInv
<1>2. CASE SelectCase
  BY <1>2 DEF SelectCase, CaseFails, HeapInv
<1>3. CASE BeginRun
  BY <1>3 DEF BeginRun, CaseFails, HeapInv
<1>4. CASE FnReturns
  BY <1>4 DEF FnReturns, CaseFails, HeapInv
<1>5. CASE BeginSampling
  BY <1>5 DEF BeginSampling, CaseFails, HeapInv
<1>6. CASE CheckRuntime
  BY <1>6 DEF CheckRuntime, HeapInv
<1>7. CASE TakeSample
  BY <1>7 DEF TakeSample, HeapInv
<1>8. CASE Statistics
  BY <1>8 DEF Statistics, HeapInv
<1>9. CASE Emit
  BY <1>9 DEF Emit, HeapInv
<1> QED
  BY <1>1, <1>2, <1>3, <1>4, <1>5, <1>6, <1>7, <1>8, <1>9
     DEF Next, Harness, CallFn, benchVars, vars

-----------------------------------------------------------------------------
(* What the harness counts.                                                  *)

Done == program.selected \cap 1 .. case - 1

\* Every selected case before the current one is accounted for.
CountInv ==
    /\ program \in Programs
    /\ at \in {"case", "run", "warmup", "check", "batch", "statistics", "emit", "exit"}
    /\ case \in Nat \ {0} /\ lost \in Nat /\ failures \in Nat /\ records \in Seq(Nat)
    /\ at \notin {"case", "exit"} => case \in program.selected
    /\ at = "exit" => case > Len(program.cases)
    /\ program.json => Len(records) + lost + failures = Cardinality(Done)
    /\ \A i \in 1 .. Len(records) :
          /\ records[i] \in program.selected /\ records[i] < case
          /\ i > 1 => records[i - 1] < records[i]

\* The next case is one more if it is selected.
LEMMA DoneNext ==
    ASSUME program \in Programs, case \in Nat \ {0}, program' = program, case' = case + 1
    PROVE  /\ Cardinality(Done) \in Nat
           /\ case \in program.selected => Cardinality(Done') = Cardinality(Done) + 1
           /\ case \notin program.selected => Done' = Done
<1>1. program.selected \subseteq 1 .. Len(program.cases) /\ Len(program.cases) \in Nat
  BY BenchAssumption
<1>2. IsFiniteSet(1 .. case - 1)
  BY FS_Interval
<1>3. IsFiniteSet(Done)
  BY <1>2, FS_Intersection DEF Done
<1>4. 1 .. case' - 1 = (1 .. case - 1) \cup {case} /\ case \notin 1 .. case - 1
  OBVIOUS
<1>5. case \in program.selected => Done' = Done \cup {case} /\ case \notin Done
  BY <1>4 DEF Done
<1>6. case \notin program.selected => Done' = Done
  BY <1>4 DEF Done
<1>7. Cardinality(Done) \in Nat
  BY <1>3, FS_CardinalityType
<1> QED
  BY <1>3, <1>5, <1>6, <1>7, FS_AddElement

\* A case fails: one more failure.
LEMMA CountFails ==
    ASSUME CountInv, program' = program, case' = case + 1, at' = "case",
           case \in program.selected, failures' = failures + 1, UNCHANGED <<records, lost>>
    PROVE  CountInv'
<1>1. /\ Cardinality(Done') = Cardinality(Done) + 1 /\ Cardinality(Done) \in Nat
  BY DoneNext DEF CountInv
<1>2. Len(records) \in Nat
  BY DEF CountInv
<1> QED
  BY <1>1, <1>2 DEF CountInv

\* Every step of the harness keeps the account of the cases.
LEMMA CountInvStep == ASSUME CountInv, [Next]_vars PROVE CountInv'
<1>1. CASE UNCHANGED <<program, at, case, lost, failures, records>>
  BY <1>1 DEF CountInv, Done
<1>2. CASE SelectCase
  <2>1. at = "case" /\ UNCHANGED <<program, records, lost>>
    BY <1>2 DEF SelectCase
  <2>2. CASE case > Len(program.cases) /\ at' = "exit" /\ UNCHANGED <<case, failures>>
    BY <2>1, <2>2 DEF CountInv, Done
  <2>3. CASE case \notin program.selected /\ case' = case + 1 /\ UNCHANGED <<at, failures>>
    <3>1. Done' = Done
      BY <2>1, <2>3, DoneNext DEF CountInv
    <3> QED
      BY <2>1, <2>3, <3>1 DEF CountInv
  <2>4. CASE case \in program.selected /\ at' = "run" /\ UNCHANGED <<case, failures>>
    BY <2>1, <2>4 DEF CountInv, Done
  <2>5. CASE case \in program.selected /\ CaseFails({})
    BY <2>1, <2>5, CountFails DEF CaseFails
  <2> QED
    BY <1>2, <2>2, <2>3, <2>4, <2>5 DEF SelectCase
<1>3. CASE BeginRun \/ FnReturns \/ BeginSampling
  <2>1. /\ at \in {"run", "warmup", "batch"} /\ UNCHANGED <<program, records, lost>>
        /\ \/ at' \in {"warmup", "batch", "check"} /\ UNCHANGED <<case, failures>>
           \/ at' = "case" /\ case' = case + 1 /\ failures' = failures + 1
    BY <1>3 DEF BeginRun, FnReturns, BeginSampling, CaseFails
  <2>2. case \in program.selected
    BY <2>1 DEF CountInv
  <2>3. CASE at' \in {"warmup", "batch", "check"} /\ UNCHANGED <<case, failures>>
    BY <2>1, <2>2, <2>3 DEF CountInv, Done
  <2> QED
    BY <2>1, <2>2, <2>3, CountFails
<1>4. CASE CheckRuntime \/ TakeSample \/ Statistics
  <2>1. /\ at \in {"check", "batch", "statistics"}
        /\ at' \in {"check", "batch", "statistics", "run", "emit"}
        /\ UNCHANGED <<program, case, records, lost, failures>>
    BY <1>4 DEF CheckRuntime, TakeSample, Statistics
  <2> QED
    BY <2>1 DEF CountInv, Done
<1>5. CASE Emit
  <2>1. /\ at = "emit" /\ at' = "case" /\ case' = case + 1 /\ program' = program
        /\ case \in program.selected
    BY <1>5 DEF Emit, CountInv
  <2>2. Cardinality(Done') = Cardinality(Done) + 1 /\ Cardinality(Done) \in Nat
    BY <2>1, DoneNext DEF CountInv
  <2>3. Len(records) \in Nat
    BY DEF CountInv
  <2>4. CASE program.json /\ records' = Append(records, case) /\ UNCHANGED <<failures, lost>>
    <3>1. /\ records' \in Seq(Nat) /\ Len(records') = Len(records) + 1
          /\ records'[Len(records) + 1] = case
          /\ \A i \in 1 .. Len(records) : records'[i] = records[i]
      BY <2>4 DEF CountInv
    <3>2. program.json => Len(records') + lost' + failures' = Cardinality(Done')
      BY <2>2, <2>3, <2>4, <3>1 DEF CountInv
    <3>3. ASSUME NEW i \in 1 .. Len(records')
          PROVE  /\ records'[i] \in program.selected /\ records'[i] < case'
                 /\ i > 1 => records'[i - 1] < records'[i]
      <4>1. CASE i = Len(records) + 1
        <5>1. i > 1 => i - 1 \in 1 .. Len(records) /\ records[i - 1] < case
          BY <2>3, <3>1, <4>1 DEF CountInv
        <5> QED
          BY <2>1, <3>1, <4>1, <5>1 DEF CountInv
      <4>2. CASE i \in 1 .. Len(records)
        <5>1. /\ records[i] \in program.selected /\ records[i] < case /\ records[i] \in Nat
              /\ i > 1 => i - 1 \in 1 .. Len(records) /\ records[i - 1] < records[i]
          BY <2>3, <4>2 DEF CountInv
        <5>2. records'[i] = records[i] /\ (i > 1 => records'[i - 1] = records[i - 1])
          BY <3>1, <4>2, <5>1
        <5> QED
          BY <2>1, <5>1, <5>2 DEF CountInv
      <4> QED
        BY <2>3, <3>1, <4>1, <4>2
    <3>4. lost' \in Nat /\ failures' \in Nat /\ case' \in Nat \ {0} /\ program' \in Programs
      BY <2>1, <2>4 DEF CountInv
    <3> QED
      BY <2>1, <3>1, <3>2, <3>3, <3>4 DEF CountInv
  <2>5. CASE /\ records' = records
             /\ \/ ~program.json /\ UNCHANGED <<failures, lost>>
                \/ lost' = lost + 1 /\ UNCHANGED failures
                \/ failures' = failures + 1 /\ UNCHANGED lost
    BY <2>1, <2>2, <2>3, <2>5 DEF CountInv
  <2> QED
    BY <1>5, <2>4, <2>5 DEF Emit
<1> QED
  BY <1>1, <1>2, <1>3, <1>4, <1>5 DEF Next, Harness, CallFn, benchVars, vars

\* So it holds in every reachable state.
LEMMA CountInvariant == BenchSpec => []CountInv
<1>1. Init => CountInv
  <2> SUFFICES ASSUME Init
               PROVE  CountInv
    OBVIOUS
  <2>1. 1 .. case - 1 = {} /\ case = 1
    BY DEF Init, BenchInit
  <2>2. Cardinality(Done) = 0
    BY <2>1, FS_EmptySet DEF Done
  <2> QED
    BY <2>2 DEF Init, BenchInit, CountInv
<1> QED
  BY <1>1, CountInvStep, PTL DEF BenchSpec

-----------------------------------------------------------------------------
(* What the harness measures.                                                *)

Batch == IF Current.batch > 0 THEN Current.batch ELSE 1
PerRun == Current.warmup + Batch * Current.iterations
Untimed == program.maxRuntime = 0
Earlier == (run - 1) * PerRun

Measured == /\ result.case = case
            /\ result.iterations \in Nat /\ result.iterations <= Current.iterations
            /\ Untimed => result.iterations = Current.iterations

\* The clock does not go back.
ClockInv == /\ clock \in Nat /\ started \in Nat /\ t0 \in Nat /\ started <= clock /\ t0 <= clock

\* Without a limit, the calls are those of the earlier runs, and of this run
\* the ones its place stands for; the result is that of the first run.
TallyInv ==
    /\ case <= Len(program.cases) + 1 /\ run \in 1 .. Runs /\ left \in Nat /\ samples \in Seq(Int)
    /\ at \in {"case", "exit", "emit"} => run = 1
    /\ at \in {"run", "warmup", "check", "batch", "statistics"} /\ run > 1 => Measured
    /\ at \in {"warmup", "check", "batch"} => iterations = Current.iterations
    /\ at = "run" => (Untimed => calls = Earlier)
    /\ at = "warmup" => (Untimed => calls = Earlier + Current.warmup - left)
    /\ at = "check" => /\ Len(samples) <= iterations
                       /\ Untimed => calls = Earlier + Current.warmup + Batch * Len(samples)
    /\ at = "batch" =>
          /\ Len(samples) < iterations
          /\ Untimed => calls = Earlier + Current.warmup + Batch * (Len(samples) + 1) - left
    /\ at = "statistics" => /\ iterations \in Nat /\ iterations <= Current.iterations
                            /\ Untimed => iterations = Current.iterations /\ calls = run * PerRun
    /\ at = "emit" => Measured /\ (Untimed => calls = Runs * PerRun)

\* One factor more.
LEMMA OneMore == ASSUME NEW a \in Int, NEW b \in Int
                 PROVE  (a + 1) * b = a * b + b /\ b * (a + 1) = b * a + b /\ a * b \in Int
OBVIOUS

\* The case that runs, and what its options come to.
LEMMA CaseFacts ==
    ASSUME CountInv
    PROVE  /\ Runs \in Nat \ {0} /\ Len(program.cases) \in Nat
           /\ case \in program.selected =>
                 /\ Current.iterations \in Nat /\ Current.warmup \in Nat /\ Current.batch \in Nat
                 /\ Batch \in Nat \ {0} /\ PerRun \in Nat /\ case <= Len(program.cases)
<1>1. /\ program.cases \in Seq(CaseType) /\ program.multiRun \in Nat
      /\ program.selected \subseteq 1 .. Len(program.cases)
  BY BenchAssumption DEF CountInv
<1>2. Runs \in Nat \ {0} /\ Len(program.cases) \in Nat
  BY <1>1 DEF Runs
<1>3. CASE case \in program.selected
  <2>1. case \in 1 .. Len(program.cases) /\ case <= Len(program.cases)
    BY <1>1, <1>2, <1>3
  <2>2. Current \in CaseType
    BY <1>1, <2>1 DEF Current
  <2>3. Current.iterations \in Nat /\ Current.warmup \in Nat /\ Current.batch \in Nat
    BY <2>2 DEF CaseType
  <2>4. Batch \in Nat \ {0}
    BY <2>3 DEF Batch
  <2>5. Batch * Current.iterations \in Nat
    BY <2>3, <2>4
  <2> QED
    BY <1>2, <2>1, <2>3, <2>4, <2>5 DEF PerRun
<1> QED
  BY <1>2, <1>3

\* They are the same as long as the case is.
LEMMA SameCase ==
    ASSUME UNCHANGED <<program, case>>
    PROVE  /\ UNCHANGED <<Current, Batch, PerRun, Untimed, Runs>>
           /\ result' = result => Measured' = Measured
           /\ run' = run => Earlier' = Earlier
BY DEF Current, Batch, PerRun, Untimed, Runs, Measured, Earlier

\* Giving a case up leaves nothing to be counted.
LEMMA TallyFails ==
    ASSUME CountInv, TallyInv, case \in program.selected, program' = program, NEW S, CaseFails(S)
    PROVE  TallyInv'
<1>1. /\ at' = "case" /\ case' = case + 1 /\ left' = 0 /\ run' = 1 /\ samples' = <<>>
  BY DEF CaseFails
<1>2. case' <= Len(program'.cases) + 1
  BY <1>1, CaseFacts DEF CountInv
<1>3. Runs' = Runs
  BY DEF Runs
<1>4. run' \in 1 .. Runs' /\ left' \in Nat /\ samples' \in Seq(Int)
  BY <1>1, <1>3, CaseFacts
<1> QED
  BY <1>1, <1>2, <1>4 DEF TallyInv

\* The clock is read before what it says is kept.
LEMMA ClockInvStep == ASSUME ClockInv, [Next]_vars PROVE ClockInv'
<1>1. ASSUME ReadClock
      PROVE  clock' \in Nat /\ clock <= clock'
  BY <1>1, BenchAssumption DEF ReadClock, ClockInv
<1>2. CASE UNCHANGED <<clock, started, t0>>
  BY <1>2 DEF ClockInv
<1>3. CASE ReadClock /\ started' = clock' /\ t0' = t0
  BY <1>1, <1>3 DEF ClockInv
<1>4. CASE ReadClock /\ started' = started /\ t0' \in {t0, clock'}
  BY <1>1, <1>4 DEF ClockInv
<1>5. CASE BeginSampling
  BY <1>2, <1>3, <1>5 DEF BeginSampling
<1>6. CASE CheckRuntime
  BY <1>2, <1>4, <1>6 DEF CheckRuntime
<1>7. CASE TakeSample
  BY <1>2, <1>4, <1>7 DEF TakeSample
<1> QED
  BY <1>2, <1>5, <1>6, <1>7
     DEF Next, Harness, SelectCase, BeginRun, CallFn, FnReturns, Statistics, Emit, benchVars, vars

\* A call of the function counts for the place it was made from.
LEMMA TallyReturns ==
    ASSUME CountInv, TallyInv, FnReturns
    PROVE  TallyInv'
<1>1. at \in {"warmup", "batch"} /\ left > 0 /\ program' = program /\ UNCHANGED <<result, iterations>>
  BY DEF FnReturns
<1>2. case \in program.selected
  BY <1>1 DEF CountInv
<1>3. ASSUME NEW S, CaseFails(S)
      PROVE  TallyInv'
  BY <1>1, <1>2, <1>3, TallyFails
<1>4. CASE left' = left - 1 /\ calls' = calls + 1 /\ UNCHANGED <<at, case, run, samples>>
  <2>1. left \in Nat /\ left' \in Nat
    BY <1>1, <1>4 DEF TallyInv
  <2>2. UNCHANGED <<Current, Batch, PerRun, Untimed, Runs, Measured, Earlier>>
    BY <1>1, <1>4, SameCase
  <2>3. Earlier \in Int /\ Current.warmup \in Int /\ Batch * (Len(samples) + 1) \in Int
    <3>1. run \in Int /\ Len(samples) \in Int
      BY CaseFacts DEF TallyInv
    <3>2. PerRun \in Int /\ Batch \in Int /\ Current.warmup \in Int
      BY <1>2, CaseFacts
    <3> QED
      BY <3>1, <3>2 DEF Earlier
  <2>4. CASE at = "warmup"
    <3>1. Untimed => calls' = Earlier + Current.warmup - left'
      BY <1>4, <2>1, <2>3, <2>4 DEF TallyInv
    <3> QED
      BY <1>1, <1>4, <2>1, <2>2, <2>4, <3>1 DEF TallyInv
  <2>5. CASE at = "batch"
    <3>1. Untimed => calls' = Earlier + Current.warmup + Batch * (Len(samples) + 1) - left'
      BY <1>4, <2>1, <2>3, <2>5 DEF TallyInv
    <3> QED
      BY <1>1, <1>4, <2>1, <2>2, <2>5, <3>1 DEF TallyInv
  <2> QED
    BY <1>1, <2>4, <2>5
<1> QED
  BY <1>3, <1>4 DEF FnReturns

\* A case is selected, or passed over.
LEMMA TallySelects == ASSUME CountInv, TallyInv, SelectCase PROVE TallyInv'
<1>1. at = "case" /\ program' = program /\ run = 1
  BY DEF SelectCase, TallyInv
<1>2. Runs' = Runs /\ 1 \in 1 .. Runs
  BY <1>1, CaseFacts DEF Runs
<1>3. CASE at' = "exit" /\ UNCHANGED <<case, left, run, samples>>
  BY <1>1, <1>2, <1>3 DEF TallyInv
<1>4. CASE /\ case \in 1 .. Len(program.cases) \ program.selected /\ case' = case + 1
           /\ UNCHANGED <<at, left, run, samples>>
  <2>1. case' <= Len(program'.cases) + 1
    BY <1>1, <1>4, CaseFacts DEF CountInv
  <2> QED
    BY <1>1, <1>2, <1>4, <2>1 DEF TallyInv
<1>5. CASE /\ case \in program.selected /\ at' = "run" /\ run' = 1 /\ calls' = 0
           /\ UNCHANGED <<case, left, samples>>
  <2>1. PerRun' = PerRun /\ PerRun \in Nat
    BY <1>1, <1>5, CaseFacts, SameCase
  <2>2. Earlier' = 0
    BY <1>5, <2>1 DEF Earlier
  <2> QED
    BY <1>1, <1>2, <1>5, <2>2 DEF TallyInv
<1>6. CASE case \in program.selected /\ CaseFails({})
  BY <1>1, <1>6, TallyFails
<1> QED
  BY <1>3, <1>4, <1>5, <1>6 DEF SelectCase

\* A run begins with its warm-up, and its samples with none taken.
LEMMA TallyBegins == ASSUME CountInv, TallyInv, BeginRun \/ BeginSampling PROVE TallyInv'
<1>1. /\ at \in {"run", "warmup"} /\ program' = program /\ result' = result
      /\ case \in program.selected
  BY DEF BeginRun, BeginSampling, CountInv
<1>2. ASSUME NEW S, CaseFails(S)
      PROVE  TallyInv'
  BY <1>1, <1>2, TallyFails
<1>3. /\ Current.iterations \in Nat /\ Current.warmup \in Nat /\ Batch \in Nat /\ PerRun \in Nat
      /\ run \in Int
  BY <1>1, CaseFacts DEF TallyInv
<1>4. Earlier \in Int
  BY <1>3, OneMore DEF Earlier
<1>5. CASE /\ at = "run" /\ at' = "warmup" /\ left' = Current.warmup
           /\ iterations' = Current.iterations /\ UNCHANGED <<case, run, calls, samples>>
  <2>1. UNCHANGED <<Current, Batch, PerRun, Untimed, Runs, Measured, Earlier>>
    BY <1>1, <1>5, SameCase
  <2>2. Untimed => calls = Earlier + Current.warmup - left'
    BY <1>3, <1>4, <1>5 DEF TallyInv
  <2> QED
    BY <1>1, <1>3, <1>5, <2>1, <2>2 DEF TallyInv
<1>6. CASE /\ at = "warmup" /\ left = 0 /\ at' = "check" /\ samples' = <<>>
           /\ UNCHANGED <<case, run, left, iterations, calls>>
  <2>1. UNCHANGED <<Current, Batch, PerRun, Untimed, Runs, Measured, Earlier>>
    BY <1>1, <1>6, SameCase
  <2>2. Len(samples') = 0 /\ samples' \in Seq(Int) /\ Batch * 0 = 0
    BY <1>3, <1>6
  <2>3. Untimed => calls = Earlier + Current.warmup + Batch * Len(samples')
    BY <1>3, <1>4, <1>6, <2>2 DEF TallyInv
  <2>4. Len(samples') <= iterations'
    BY <1>3, <1>6, <2>2 DEF TallyInv
  <2> QED
    BY <1>1, <1>6, <2>1, <2>2, <2>3, <2>4 DEF TallyInv
<1> QED
  BY <1>2, <1>5, <1>6 DEF BeginRun, BeginSampling

\* At the head of the loop the samples say how many calls there were.
LEMMA TallyChecks == ASSUME CountInv, TallyInv, CheckRuntime PROVE TallyInv'
<1>1. /\ at = "check" /\ UNCHANGED <<program, case, run, samples, result, calls>>
      /\ case \in program.selected
  BY DEF CheckRuntime, CountInv
<1>2. UNCHANGED <<Current, Batch, PerRun, Untimed, Runs, Measured, Earlier>>
  BY <1>1, SameCase
<1>3. /\ Current.iterations \in Nat /\ Current.warmup \in Nat /\ Batch \in Nat /\ PerRun \in Nat
      /\ run \in Int /\ Len(samples) \in Nat
  BY <1>1, CaseFacts DEF TallyInv
<1>4. Earlier \in Int /\ Earlier + PerRun = run * PerRun
  <2>1. ((run - 1) + 1) * PerRun = (run - 1) * PerRun + PerRun /\ (run - 1) * PerRun \in Int
    BY <1>3, OneMore
  <2>2. (run - 1) + 1 = run
    BY <1>3
  <2> QED
    BY <2>1, <2>2 DEF Earlier
<1>5. /\ Untimed => calls = Earlier + Current.warmup + Batch * Len(samples)
      /\ iterations = Current.iterations /\ Batch * Len(samples) \in Int
  BY <1>1, <1>3 DEF TallyInv
<1>6. CASE Len(samples) = iterations /\ at' = "statistics" /\ UNCHANGED <<iterations, left>>
  <2>1. Untimed => calls = Earlier + PerRun
    BY <1>3, <1>4, <1>5, <1>6 DEF PerRun
  <2>2. Untimed => calls = run * PerRun
    BY <1>4, <2>1
  <2>3. Current.iterations <= Current.iterations
    BY <1>3
  <2> QED
    BY <1>1, <1>2, <1>3, <1>5, <1>6, <2>2, <2>3 DEF TallyInv
<1>7. CASE /\ Len(samples) < iterations /\ program.maxRuntime > 0 /\ iterations' = Len(samples)
           /\ at' = "statistics" /\ left' = left
  <2>1. ~Untimed
    BY <1>7 DEF Untimed
  <2>2. iterations' \in Nat /\ iterations' <= Current.iterations
    BY <1>3, <1>5, <1>7
  <2> QED
    BY <1>1, <1>2, <1>7, <2>1, <2>2 DEF TallyInv
<1>8. CASE Len(samples) < iterations /\ at' = "batch" /\ left' = Batch /\ iterations' = iterations
  <2>1. Batch * (Len(samples) + 1) = Batch * Len(samples) + Batch
    BY <1>3, OneMore
  <2>2. Untimed => calls = Earlier + Current.warmup + Batch * (Len(samples) + 1) - left'
    BY <1>3, <1>4, <1>5, <1>8, <2>1
  <2> QED
    BY <1>1, <1>2, <1>3, <1>8, <2>2 DEF TallyInv
<1> QED
  BY <1>6, <1>7, <1>8 DEF CheckRuntime, Batch

\* A batch done is a sample more.
LEMMA TallySamples == ASSUME CountInv, ClockInv, TallyInv, TakeSample PROVE TallyInv'
<1>1. /\ at = "batch" /\ left = 0 /\ at' = "check"
      /\ UNCHANGED <<program, case, run, left, iterations, result, calls>>
      /\ case \in program.selected
  BY DEF TakeSample, CountInv
<1>2. UNCHANGED <<Current, Batch, PerRun, Untimed, Runs, Measured, Earlier>>
  BY <1>1, SameCase
<1>3. /\ Current.iterations \in Nat /\ Current.warmup \in Nat /\ Batch \in Nat \ {0} /\ PerRun \in Nat
      /\ run \in Int
  BY <1>1, CaseFacts DEF TallyInv
<1>4. Earlier \in Int
  BY <1>3, OneMore DEF Earlier
<1>5. PICK x \in Int : samples' = Append(samples, x)
  <2>1. clock' - t0 \in Int
    BY BenchAssumption DEF TakeSample, ReadClock, ClockInv
  <2>2. (clock' - t0) \div Batch \in Int
    BY <1>3, <2>1
  <2> QED
    BY <2>2 DEF TakeSample, Batch
<1>6. samples' \in Seq(Int) /\ Len(samples') = Len(samples) + 1 /\ Len(samples) \in Nat
  BY <1>5 DEF TallyInv
<1>7. Batch * (Len(samples) + 1) \in Int
  BY <1>3, <1>6
<1>8. Untimed => calls = Earlier + Current.warmup + Batch * Len(samples')
  BY <1>1, <1>3, <1>4, <1>6, <1>7 DEF TallyInv
<1>9. Len(samples') <= iterations
  BY <1>1, <1>3, <1>6 DEF TallyInv
<1> QED
  BY <1>1, <1>2, <1>6, <1>8, <1>9 DEF TallyInv

\* A run is over: the result is that of the first.
LEMMA TallyStatistics == ASSUME CountInv, TallyInv, Statistics PROVE TallyInv'
<1>1. /\ at = "statistics" /\ UNCHANGED <<program, case, left, iterations, samples, calls>>
      /\ case \in program.selected /\ result' = IF run = 1 THEN Statistic ELSE result
  BY DEF Statistics, CountInv
<1>2. UNCHANGED <<Current, Batch, PerRun, Untimed, Runs>>
  BY <1>1, SameCase
<1>3. run \in Nat \ {0} /\ run <= Runs /\ Runs \in Nat \ {0} /\ PerRun \in Nat
  BY <1>1, CaseFacts DEF TallyInv
<1>4. Measured'
  <2>1. CASE run = 1
    <3>1. result'.case = case /\ result'.iterations = iterations
      BY <1>1, <2>1 DEF Statistic
    <3> QED
      BY <1>1, <1>2, <3>1 DEF Measured, TallyInv
  <2>2. CASE run # 1
    <3>1. Measured /\ result' = result
      BY <1>1, <1>3, <2>2 DEF TallyInv
    <3> QED
      BY <1>1, <1>2, <3>1, SameCase
  <2> QED
    BY <2>1, <2>2
<1>5. CASE run < Runs
  <2>1. at' = "run" /\ run' = run + 1
    BY <1>5 DEF Statistics
  <2>2. run' \in 1 .. Runs' /\ run' - 1 = run
    BY <1>2, <1>3, <1>5, <2>1
  <2>3. Earlier' = run * PerRun
    BY <1>2, <2>2 DEF Earlier
  <2> QED
    BY <1>1, <1>2, <1>4, <2>1, <2>2, <2>3 DEF TallyInv
<1>6. CASE ~(run < Runs)
  <2>1. at' = "emit" /\ run' = 1 /\ run = Runs
    BY <1>3, <1>6 DEF Statistics
  <2>2. run' \in 1 .. Runs'
    BY <1>2, <1>3, <2>1
  <2> QED
    BY <1>1, <1>2, <1>4, <2>1, <2>2 DEF TallyInv
<1> QED
  BY <1>5, <1>6

\* Every step of the harness keeps the tally.
LEMMA TallyInvStep == ASSUME CountInv, ClockInv, TallyInv, [Next]_vars PROVE TallyInv'
<1>1. CASE UNCHANGED benchVars
  <2>1. UNCHANGED <<program, case, run, at, left, iterations, samples, result, calls>>
    BY <1>1 DEF benchVars
  <2>2. UNCHANGED <<Current, Batch, PerRun, Untimed, Runs, Measured, Earlier>>
    BY <2>1, SameCase
  <2> QED
    BY <2>1, <2>2 DEF TallyInv
<1>2. CASE Emit
  <2>1. /\ at = "emit" /\ at' = "case" /\ case' = case + 1 /\ samples' = <<>> /\ program' = program
        /\ UNCHANGED <<run, left>> /\ case \in program.selected
    BY <1>2 DEF Emit, CountInv
  <2>2. case' <= Len(program'.cases) + 1 /\ Runs' = Runs
    BY <2>1, CaseFacts DEF CountInv, Runs
  <2>3. samples' \in Seq(Int)
    BY <2>1
  <2> QED
    BY <2>1, <2>2, <2>3 DEF TallyInv
<1> QED
  BY <1>1, <1>2, TallySelects, TallyBegins, TallyReturns, TallyChecks, TallySamples, TallyStatistics
     DEF Next, Harness, CallFn, vars

\* So it holds in every reachable state.
LEMMA TallyInvariant == BenchSpec => [](CountInv /\ ClockInv /\ TallyInv)
<1>1. Init => ClockInv /\ TallyInv
  <2> SUFFICES ASSUME Init
               PROVE  ClockInv /\ TallyInv
    OBVIOUS
  <2>1. program \in Programs /\ case = 1 /\ run = 1 /\ left = 0 /\ samples = <<>> /\ at = "case"
    BY DEF Init, BenchInit
  <2>2. program.cases \in Seq(CaseType) /\ program.multiRun \in Nat
    BY <2>1, BenchAssumption
  <2>3. case <= Len(program.cases) + 1 /\ run \in 1 .. Runs /\ samples \in Seq(Int)
    BY <2>1, <2>2 DEF Runs
  <2> QED
    BY <2>1, <2>3 DEF Init, BenchInit, ClockInv, TallyInv
<1> QED
  BY <1>1, ClockInvStep, TallyInvStep, CountInvariant, PTL DEF BenchSpec

-----------------------------------------------------------------------------
(* The types of spawn_run.                                                   *)

\* Two tables of descriptors, and the bounds of what is in the pipe.
SpawnTypeInv ==
    /\ parent \in Table /\ theirs \in Table
    /\ child \in {"none", "forked", "running", "fed", "zombie"}
    /\ buffered \in 0 .. PipeSize /\ written \in 0 .. DataLen /\ eaten \in 0 .. DataLen
    /\ exit \in 0 .. 2 /\ rc \in {0, -1}

\* The tables of SpawnInv are tables.
LEMMA TablesTyped ==
    /\ Started \in Table /\ Nothing \in Table
    /\ \A l : Layout(l) \in Table
    /\ \A b : [f \in Fd |-> IF f > 2 THEN Closed ELSE IF f > 0 THEN "null out"
                            ELSE IF b THEN "pipe read" ELSE "null in"] \in Table
BY DEF Started, Nothing, Layout, Table, Files, Closed

\* What a step can make of the table of the child, of how it ended, of what is
\* returned, and of the bytes on their way.
LEMMA SpawnMoves ==
    ASSUME [Next]_vars
    PROVE  /\ theirs' \in {theirs, parent, Nothing} \/ child' = "running"
           /\ parent' = Nothing \/ parent' = parent \/ step' # "killed"
           /\ child' \in {child, "none", "forked", "running", "fed", "zombie"}
           /\ exit' \in {exit, 0, 1, 2} /\ rc' \in {rc, 0, -1}
           /\ \/ UNCHANGED <<buffered, written>>
              \/ buffered' = 0 /\ written' = 0
              \/ buffered > 0 /\ buffered' = buffered - 1 /\ written' = written
              \/ \E n \in 1 .. PipeSize : /\ n <= DataLen - written /\ n <= PipeSize - buffered
                                         /\ buffered' = buffered + n /\ written' = written + n
<1>1. CASE CallSpawn(Current.piped)
  BY <1>1 DEF CallSpawn
<1>2. ASSUME NEW value \in {0, -1}, LeaveSpawn(value)
      PROVE  /\ UNCHANGED <<parent, theirs, child>> /\ exit' = 0 /\ rc' = 0
             /\ buffered' = 0 /\ written' = 0
  BY <1>2 DEF LeaveSpawn
<1>3. CASE OpenInput
  BY <1>3 DEF OpenInput, Return
<1>4. CASE OpenOutput
  BY <1>4 DEF OpenOutput, Return
<1>5. CASE Fork
  BY <1>5 DEF Fork, Return
<1>6. CASE CloseInput
  BY <1>6 DEF CloseInput
<1>7. CASE Write
  BY <1>7 DEF Write
<1>8. CASE CloseWriter
  BY <1>8 DEF CloseWriter
<1>9. CASE WaitChild
  BY <1>9 DEF WaitChild, Return
<1>10. CASE Exec
  BY <1>10 DEF Exec
<1>11. CASE Eat
  BY <1>11 DEF Eat
<1>12. CASE ChildExit
  BY <1>12 DEF ChildExit
<1>13. CASE UNCHANGED spawnVars
  BY <1>13 DEF spawnVars
<1>14. CASE \E value \in {0, -1} : LeaveSpawn(value)
  BY <1>2, <1>14
<1> QED
  BY <1>1, <1>3, <1>4, <1>5, <1>6, <1>7, <1>8, <1>9, <1>10, <1>11, <1>12, <1>13, <1>14, SpawnFrame
     DEF SpawnRun, Child

\* Every step keeps the types.
LEMMA SpawnTypeStep ==
    ASSUME SpawnInv', FeedInv', SpawnTypeInv, [Next]_vars
    PROVE  SpawnTypeInv'
<1>1. parent' \in Table
  <2>1. CASE step' # "killed"
    BY <2>1, TablesTyped DEF SpawnInv
  <2>2. CASE step' = "killed"
    BY <2>2, SpawnMoves, TablesTyped DEF SpawnTypeInv
  <2> QED
    BY <2>1, <2>2
<1>2. theirs' \in Table
  <2>1. CASE child' = "running"
    BY <2>1, TablesTyped DEF SpawnInv, ChildStreams
  <2> QED
    BY <2>1, SpawnMoves, TablesTyped DEF SpawnTypeInv
<1>3. child' \in {"none", "forked", "running", "fed", "zombie"}
  BY SpawnMoves DEF SpawnTypeInv
<1>4. exit' \in 0 .. 2 /\ rc' \in {0, -1}
  BY SpawnMoves DEF SpawnTypeInv
<1>5. buffered' \in 0 .. PipeSize /\ written' \in 0 .. DataLen
  BY SpawnMoves, SpawnAssumption DEF SpawnTypeInv
<1>6. eaten' \in 0 .. DataLen
  <2>1. eaten' \in Nat /\ buffered' \in Nat /\ eaten' + buffered' = written'
    BY DEF FeedInv
  <2>2. written' \in Nat /\ written' <= DataLen /\ DataLen \in Nat
    BY <1>5, SpawnAssumption
  <2>3. ASSUME NEW e \in Nat, NEW b \in Nat, e + b <= DataLen, DataLen \in Nat
        PROVE  e \in 0 .. DataLen
    BY <2>3
  <2> QED
    BY <2>1, <2>2, <2>3
<1> QED
  BY <1>1, <1>2, <1>3, <1>4, <1>5, <1>6 DEF SpawnTypeInv

\* The local variables of spawn_run, as the function they are.
LEMMA LocalsTyped ==
    ASSUME NEW l \in Locals
    PROVE  l \in [{"read", "write", "in", "out"} -> Fd \cup {NoFd}]
BY DEF Locals

\* So they hold in every reachable state.
LEMMA SpawnTypeInvariant == BenchSpec => []SpawnTypeInv
<1>1. Init => SpawnTypeInv
  <2>1. 0 \in 0 .. PipeSize /\ 0 \in 0 .. DataLen /\ 0 \in 0 .. 2
    BY SpawnAssumption
  <2>2. Started \in Table /\ Nothing \in Table
    BY TablesTyped
  <2> QED
    BY <2>1, <2>2 DEF Init, SpawnInit, SpawnTypeInv
<1> QED
  BY <1>1, SpawnTypeStep, SpawnInvariant, FeedInvariant, PTL DEF BenchSpec

-----------------------------------------------------------------------------
(* Theorems.                                                                 *)

\* bench_spawn.c:93-183, for every table of descriptors: whatever fails in
\* spawn_run, in whichever case, the benchmark has the descriptors it had before
\* and no child.
THEOREM NothingLeftCorrect == BenchSpec => []NothingLeftBehind
<1>1. SpawnInv => NothingLeftBehind
  BY DEF SpawnInv, NothingLeftBehind
<1> QED
  BY <1>1, SpawnInvariant, PTL

\* bench_spawn.c:131-142, for every table of descriptors: the salt that runs
\* holds its three streams and nothing else.
THEOREM ChildStreamsCorrect == BenchSpec => []ChildStreams
<1>1. SpawnInv => ChildStreams
  BY DEF SpawnInv
<1> QED
  BY <1>1, SpawnInvariant, PTL

\* A call that counts as good fed salt the whole input, for every size of input
\* and pipe.
THEOREM SuccessCorrect == BenchSpec => []SuccessIsWhole
<1>1. FeedInv => SuccessIsWhole
  BY DEF FeedInv
<1> QED
  BY <1>1, FeedInvariant, PTL

\* bench_common.c, for every set of cases and options: no block outlives a case.
THEOREM HeapCorrect == BenchSpec => []HeapBalanced
<1>1. Init => HeapInv
  BY DEF Init, BenchInit, HeapInv
<1>2. HeapInv => HeapBalanced
  BY DEF HeapInv, HeapBalanced
<1> QED
  BY <1>1, <1>2, HeapInvStep, PTL DEF BenchSpec

\* bench_common.h:77-80, for every set of cases and options: the records, the
\* failures and what stdio lost are the selected cases, each once and in order.
THEOREM FailuresCorrect == BenchSpec => []FailuresCounted
<1>1. CountInv => FailuresCounted
  <2> SUFFICES ASSUME CountInv, at = "exit"
               PROVE  Done = program.selected
    BY DEF CountInv, FailuresCounted
  <2>1. program.selected \subseteq 1 .. Len(program.cases) /\ Len(program.cases) \in Nat
    BY BenchAssumption DEF CountInv
  <2> QED
    BY <2>1 DEF CountInv, Done
<1> QED
  BY <1>1, CountInvariant, PTL

\* bench_common.c:93-320, for every set of cases and options: a result stands for
\* all the calls of all the runs of its case, unless a time limit cut one short.
THEOREM CallsCorrect == BenchSpec => []EveryCallCounted
<1>1. TallyInv => EveryCallCounted
  BY DEF TallyInv, Measured, Untimed, PerRun, Batch, EveryCallCounted
<1> QED
  BY <1>1, TallyInvariant, PTL

\* Every reachable state of harness and spawn_run is well typed.
THEOREM BenchTypeCorrect == BenchSpec => []TypeOK
<1>1. ASSUME CountInv, ClockInv, TallyInv, SpawnInv, SpawnTypeInv
      PROVE  TypeOK
  <2>1. case \in 1 .. Len(program.cases) + 1
    BY <1>1, CaseFacts DEF CountInv, TallyInv
  <2>2. local \in [{"read", "write", "in", "out"} -> Fd \cup {NoFd}]
    BY <1>1, LocalsTyped DEF SpawnInv
  <2> QED
    BY <1>1, <2>1, <2>2 DEF CountInv, ClockInv, TallyInv, SpawnInv, SpawnTypeInv, TypeOK
<1> QED
  BY <1>1, TallyInvariant, SpawnInvariant, SpawnTypeInvariant, PTL
=============================================================================

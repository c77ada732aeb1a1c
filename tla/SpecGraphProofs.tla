--------------------------- MODULE SpecGraphProofs ---------------------------
(***************************************************************************)
(* The properties of SpecGraph for any names, files and dependencies.      *)
(* First what a graph is, whatever the command does: what is below a       *)
(* wrapper, and when there is a cycle.  Then an invariant of the rendering *)
(* that relates what is printed to the calls that have not returned.       *)
(***************************************************************************)
EXTENDS SpecGraph, FiniteSetTheorems, WellFoundedInduction, TLAPS

\* The files loaded make a finite graph over the names.
Loaded ==
    /\ registry = [wrappers |-> registry.wrappers, policies |-> registry.policies]
    /\ IsFiniteSet(Wrappers) /\ Wrappers \subseteq Names
    /\ \A n \in Wrappers : Deps(n) \in Seq(Names)

Calls == [name : Names, done : Nat]
Lines == IF format = "text" THEN [depth : Nat, name : Names] ELSE [from : Names, name : Names]

\* Nothing is rendered before the check, nothing but what has passed it, and all
\* calls have returned at the end.
Checked ==
    /\ root \in Names /\ format \in {"text", "dot"}
    /\ pc \in {"load", "check", "render", "done"}
    /\ stack \in Seq(Calls) /\ printed \in Seq(Lines)
    /\ pc \in {"load", "check"} => stack = <<>> /\ printed = <<>> /\ visited = {}
    /\ pc = "render" => root \in Wrappers /\ ~Circular
    /\ pc = "done" => stack = <<>>

\* The calls follow the edges of the graph.
Path ==
    /\ \A i \in DOMAIN stack :
          stack[i].name \in Wrappers /\ stack[i].done <= Len(Deps(stack[i].name))
    /\ \A i \in DOMAIN stack : i < Len(stack) => Edge(stack[i].name, stack[i + 1].name)

Seen == {root} \cup {printed[i].name : i \in DOMAIN printed}
OnStack(n) == \E i \in DOMAIN stack : stack[i].name = n

\* What is printed is below the root; below what is printed and not on the stack,
\* all is printed.
Explored ==
    /\ Seen \subseteq Below(root)
    /\ \A i \in DOMAIN stack :
          /\ stack[i].name \in Seen
          /\ \A k \in 1 .. stack[i].done : Deps(stack[i].name)[k] \in Seen
    /\ \A n \in Seen \cap Wrappers : OnStack(n) \/ DepSet(n) \subseteq Seen

\* The lines from n are the first d of deps.
From(lines, n) == {k \in DOMAIN lines : lines[k].from = n}
Ordered(lines, n, deps, d) ==
    /\ Cardinality(From(lines, n)) = d
    /\ \A k \in From(lines, n) :
          lines[k].name = deps[Cardinality({j \in From(lines, n) : j <= k})]

\* The edges from a wrapper are printed while it is on the stack, in their order.
Edges ==
    /\ visited = Seen
    /\ \A k \in DOMAIN printed : printed[k].from \in Seen \cap Wrappers
    /\ \A i \in DOMAIN stack :
          Ordered(printed, stack[i].name, Deps(stack[i].name), stack[i].done)
    /\ \A n \in Seen \cap Wrappers :
          OnStack(n) \/ Ordered(printed, n, Deps(n), Len(Deps(n)))

Rendering == pc = "render" => Path /\ Explored /\ (format = "dot" => Edges)

Inv == Loaded /\ Checked /\ Rendering /\ AnswerTrue

-----------------------------------------------------------------------------
(* Graphs.                                                                  *)

\* Dependencies are names.
LEMMA EdgeType ==
    ASSUME Loaded, NEW m, NEW n, Edge(m, n)
    PROVE  m \in Wrappers /\ m \in Names /\ n \in Names
  BY DEF Loaded, Edge, DepSet, ToSet

\* A name is below itself.
LEMMA BelowItself ==
    ASSUME NEW n \in Names
    PROVE  n \in Below(n)
  BY DEF Below

\* What is below a wrapper is closed.
LEMMA BelowClosed ==
    ASSUME NEW n
    PROVE  Closed(Below(n))
  BY DEF Below, Closed

\* It is the least such set.
LEMMA BelowLeast ==
    ASSUME NEW n \in Names, NEW S, n \in S, Closed(S)
    PROVE  Below(n) \subseteq S
  <1> DEFINE T == S \cap Names
  <1>1. T \in SUBSET Names /\ n \in T /\ Closed(T)
    BY DEF Closed
  <1> QED BY <1>1 DEF Below

\* What is below a dependency is below the wrapper.
LEMMA BelowEdge ==
    ASSUME Loaded, NEW m, NEW n, Edge(m, n)
    PROVE  Below(n) \subseteq Below(m)
  <1>1. m \in Names /\ n \in Names /\ m \in Below(m)
    BY EdgeType, BelowItself
  <1>2. n \in Below(m)
    BY <1>1, BelowClosed DEF Closed
  <1> QED BY <1>1, <1>2, BelowClosed, BelowLeast

\* What is below a wrapper and is not the wrapper is below a dependency.
LEMMA BelowFirstEdge ==
    ASSUME Loaded, NEW x \in Names, NEW m \in Below(x), m # x
    PROVE  \E y \in Names : Edge(x, y) /\ m \in Below(y)
  <1> DEFINE S == {x} \cup {z \in Names : \E y \in Names : Edge(x, y) /\ z \in Below(y)}
  <1>1. ASSUME NEW u \in S, NEW v \in Names, Edge(u, v)
        PROVE  v \in S
    <2>1. CASE u = x
      BY <1>1, <2>1, BelowItself
    <2>2. CASE u # x
      <3>1. PICK y \in Names : Edge(x, y) /\ u \in Below(y)
        BY <1>1, <2>2
      <3>2. v \in Below(y)
        BY <1>1, <3>1, BelowClosed DEF Closed
      <3> QED BY <1>1, <3>1, <3>2
    <2> QED BY <2>1, <2>2
  <1>2. Closed(S)
    BY <1>1 DEF Closed
  <1>3. m \in S
    BY <1>2, BelowLeast
  <1> QED BY <1>3

\* Of finitely many wrappers, some have the least below them.
LEMMA Lowest ==
    ASSUME NEW S, IsFiniteSet(S), S # {}
    PROVE  \E m \in S : \A n \in S : Below(n) \subseteq Below(m) /\ m \in Below(m) => m \in Below(n)
  <1> DEFINE U == {Below(m) \cap S : m \in S}
             R == StrictSubsetOrdering(S)
  <1>1. U \subseteq SUBSET S /\ U # {}
    OBVIOUS
  <1>2. IsWellFoundedOn(R, SUBSET S)
    BY FS_StrictSubsetOrderingWellFounded, FS_FiniteSubsetsOfFinite
  <1>3. \A x, y \in SUBSET S : <<y, x>> \in R <=> y \subseteq x /\ x # y
    BY DEF StrictSubsetOrdering
  <1> HIDE DEF R, U
  <1>4. PICK x \in U : \A y \in U : ~ (<<y, x>> \in R)
    BY <1>1, <1>2, WFMin
  <1>5. \A y \in U : y \subseteq x => y = x
    BY <1>1, <1>3, <1>4
  <1>6. PICK m \in S : x = Below(m) \cap S
    BY DEF U
  <1>7. ASSUME NEW n \in S, Below(n) \subseteq Below(m), m \in Below(m)
        PROVE  m \in Below(n)
    <2>1. Below(n) \cap S \in U
      BY DEF U
    <2>2. Below(n) \cap S = Below(m) \cap S
      BY <1>5, <1>6, <1>7, <2>1
    <2> QED BY <1>7, <2>2
  <1> QED BY <1>7

\* Wrappers each of which waits for one of them are there just when one of them
\* is below its own dependency: what the topological sort cannot order is a
\* cycle, and it can order everything else.
LEMMA CircularIsCycle ==
    ASSUME Loaded
    PROVE  Circular <=> \E m, n \in Names : Edge(m, n) /\ m \in Below(n)
  <1>1. ASSUME Circular
        PROVE  \E m, n \in Names : Edge(m, n) /\ m \in Below(n)
    <2>1. PICK S \in SUBSET Wrappers : S # {} /\ \A m \in S : \E n \in S : Edge(m, n)
      BY <1>1 DEF Circular
    <2>2. IsFiniteSet(S)
      BY FS_Subset DEF Loaded
    <2>3. PICK m \in S : \A n \in S :
              Below(n) \subseteq Below(m) /\ m \in Below(m) => m \in Below(n)
      BY <2>1, <2>2, Lowest
    <2>4. PICK n \in S : Edge(m, n)
      BY <2>1
    <2> QED BY <2>3, <2>4, BelowEdge, EdgeType, BelowItself
  <1>2. ASSUME NEW m \in Names, NEW n \in Names, Edge(m, n), m \in Below(n)
        PROVE  Circular
    <2> DEFINE S == {x \in Wrappers : x \in Below(n) /\ m \in Below(x)}
    <2>1. m \in S
      BY <1>2, EdgeType, BelowItself
    <2>2. ASSUME NEW y \in Names, m \in Below(y), y \in Below(n)
          PROVE  y \in S
      <3>1. y \in Wrappers
        BY <1>2, <2>2, BelowFirstEdge, EdgeType
      <3> QED BY <2>2, <3>1
    <2>3. ASSUME NEW x \in S
          PROVE  \E y \in S : Edge(x, y)
      <3>1. CASE x = m
        BY <1>2, <2>2, <3>1, BelowItself
      <3>2. CASE x # m
        <4>1. x \in Names
          BY DEF Loaded
        <4>2. PICK y \in Names : Edge(x, y) /\ m \in Below(y)
          BY <3>2, <4>1, BelowFirstEdge
        <4>3. y \in Below(n)
          BY <4>2, BelowClosed DEF Closed
        <4> QED BY <2>2, <4>2, <4>3
      <3> QED BY <3>1, <3>2
    <2>4. S \in SUBSET Wrappers
      OBVIOUS
    <2> HIDE DEF S
    <2> QED BY <2>1, <2>3, <2>4 DEF Circular
  <1> QED BY <1>1, <1>2

-----------------------------------------------------------------------------
(* Loading, and what it leaves as it is.                                    *)

LEMMA LoadedInit == Init => Loaded
  <1> SUFFICES ASSUME Init
               PROVE  Loaded
    OBVIOUS
  <1>1. Wrappers = {}
    BY DEF Init, Wrappers
  <1> QED BY <1>1, FS_EmptySet DEF Init, Loaded

\* The graph is that of the registry.
LEMMA SameGraph ==
    ASSUME registry' = registry
    PROVE  /\ Wrappers' = Wrappers
           /\ \A n : Deps(n)' = Deps(n) /\ DepSet(n)' = DepSet(n) /\ Below(n)' = Below(n)
           /\ \A m, n : Edge(m, n)' <=> Edge(m, n)
           /\ Circular' <=> Circular
           /\ RefErrors' <=> RefErrors
           /\ Loaded' <=> Loaded
  <1>1. Wrappers' = Wrappers /\ \A n : Deps(n)' = Deps(n) /\ DepSet(n)' = DepSet(n)
    BY DEF Wrappers, Deps, DepSet
  <1>2. \A m, n : Edge(m, n)' <=> Edge(m, n)
    BY <1>1 DEF Edge
  <1>3. \A n : Below(n)' = Below(n)
    BY <1>2 DEF Below, Closed
  <1>4. Circular' <=> Circular
    BY <1>1, <1>2 DEF Circular
  <1>5. RefErrors' <=> RefErrors
    BY <1>1 DEF RefErrors
  <1>6. Loaded' <=> Loaded
    BY <1>1 DEF Loaded
  <1> QED BY <1>1, <1>2, <1>3, <1>4, <1>5, <1>6

\* A wrapper more, or another one in its place, leaves the graph finite.
LEMMA LoadWrapperLoaded ==
    ASSUME Loaded, LoadWrapper
    PROVE  Loaded'
  <1>1. PICK w \in Wrapper :
            registry' = [registry EXCEPT !.wrappers =
                [n \in Wrappers \cup {w.name} |->
                    IF n = w.name THEN [deps |-> w.deps, policies |-> w.policies] ELSE @[n]]]
    BY DEF LoadWrapper
  <1>2. w.name \in Names /\ w.deps \in Seq(Names)
    <2>1. \A xs \in SeqOf(Names, MaxDeps) : xs \in Seq(Names)
      BY FilesAssumption DEF SeqOf
    <2> QED BY <2>1 DEF Wrapper
  <1> DEFINE W == [n \in Wrappers \cup {w.name} |->
                      IF n = w.name THEN [deps |-> w.deps, policies |-> w.policies]
                      ELSE registry.wrappers[n]]
  <1>3. registry' = [wrappers |-> W, policies |-> registry.policies]
    BY <1>1 DEF Loaded
  <1>4. DOMAIN W = Wrappers \cup {w.name}
    OBVIOUS
  <1>5. \A n \in Wrappers \cup {w.name} : W[n].deps = IF n = w.name THEN w.deps ELSE Deps(n)
    BY DEF Deps
  <1> HIDE DEF W
  <1>6. Wrappers' = Wrappers \cup {w.name}
    BY <1>3, <1>4 DEF Wrappers
  <1>7. \A n \in Wrappers' : Deps(n)' = IF n = w.name THEN w.deps ELSE Deps(n)
    BY <1>3, <1>5, <1>6 DEF Deps
  <1>8. IsFiniteSet(Wrappers')
    BY <1>6, FS_AddElement DEF Loaded
  <1>9. \A n \in Wrappers' : Deps(n)' \in Seq(Names)
    BY <1>2, <1>6, <1>7 DEF Loaded
  <1> QED BY <1>2, <1>3, <1>6, <1>8, <1>9 DEF Loaded

LEMMA LoadedNext ==
    ASSUME Loaded, [Next]_vars
    PROVE  Loaded'
  <1>1. CASE LoadPolicy
    <2>1. PICK p \in Policies : registry' = [registry EXCEPT !.policies = @ \cup {p}]
      BY <1>1 DEF LoadPolicy
    <2>2. registry' = [wrappers |-> registry.wrappers, policies |-> registry.policies \cup {p}]
      BY <2>1 DEF Loaded
    <2>3. Wrappers' = Wrappers /\ \A n : Deps(n)' = Deps(n)
      BY <2>2 DEF Wrappers, Deps
    <2> QED BY <2>2, <2>3 DEF Loaded
  <1>2. CASE LoadWrapper
    BY <1>2, LoadWrapperLoaded
  <1>3. LoadPolicy \/ LoadWrapper \/ registry' = registry
    BY DEF Next, vars, LoadError, NextDirectory, CheckGraph, RenderText, RenderDot, Return, Exit
  <1> QED BY <1>1, <1>2, <1>3, SameGraph

-----------------------------------------------------------------------------
(* A line more, and a call into the dependency it names or past it.         *)

Descend(dep, line) ==
    /\ pc = "render" /\ stack # <<>> /\ Top.done < Len(Deps(Top.name))
    /\ dep = Deps(Top.name)[Top.done + 1]
    /\ line \in Lines /\ line.name = dep /\ printed' = Append(printed, line)
    /\ \/ dep \in Wrappers /\ stack' = Append(Passed, Frame(dep))
       \/ (dep \in Wrappers => dep \in Seen) /\ stack' = Passed
    /\ UNCHANGED <<registry, root, format, pc>>

\* The call on top is one dependency further.
LEMMA ReplacedIs ==
    ASSUME NEW xs \in Seq(Calls), NEW t \in DOMAIN xs, NEW x \in Calls,
           NEW ys, ys = [xs EXCEPT ![t] = x]
    PROVE  /\ ys \in Seq(Calls) /\ Len(ys) = Len(xs)
           /\ ys[t] = x /\ \A i \in DOMAIN xs : i # t => ys[i] = xs[i]
OBVIOUS

LEMMA PassedIs ==
    ASSUME stack \in Seq(Calls), stack # <<>>
    PROVE  /\ Passed \in Seq(Calls) /\ Len(Passed) = Len(stack)
           /\ \A i \in 1 .. Len(stack) - 1 : Passed[i] = stack[i]
           /\ Passed[Len(stack)] = [name |-> Top.name, done |-> Top.done + 1]
  <1> DEFINE t == Len(stack)
             top == [name |-> Top.name, done |-> Top.done + 1]
  <1>1. t \in Nat /\ t > 0 /\ DOMAIN stack = 1 .. t /\ t \in DOMAIN stack /\ stack[t] \in Calls
    OBVIOUS
  <1>2. Top = stack[t] /\ Top \in Calls
    BY <1>1 DEF Top
  <1>3. top \in Calls
    BY <1>2 DEF Calls
  <1>4. [Top EXCEPT !.done = @ + 1] = top
    BY <1>2 DEF Calls
  <1>5. Passed = [stack EXCEPT ![t] = top]
    BY <1>2, <1>4 DEF Passed
  <1> HIDE DEF top, t
  <1>6. /\ Passed \in Seq(Calls) /\ Len(Passed) = Len(stack) /\ Passed[t] = top
        /\ \A i \in DOMAIN stack : i # t => Passed[i] = stack[i]
    BY <1>1, <1>3, <1>5, ReplacedIs
  <1>7. \A i \in 1 .. t - 1 : i \in DOMAIN stack /\ i # t
    BY <1>1
  <1> QED BY <1>6, <1>7 DEF top, t

\* And a call below it.
LEMMA EnteredIs ==
    ASSUME NEW xs \in Seq(Calls), NEW dep \in Names, NEW ys, ys = Append(xs, Frame(dep))
    PROVE  /\ ys \in Seq(Calls) /\ Len(ys) = Len(xs) + 1
           /\ ys[Len(xs) + 1] = Frame(dep) /\ \A i \in 1 .. Len(xs) : ys[i] = xs[i]
  <1>1. Frame(dep) \in Calls
    BY DEF Frame, Calls
  <1> QED BY <1>1

\* What a line more does to the stack.
LEMMA DescendStack ==
    ASSUME Loaded, Checked, Path, NEW dep, NEW line, Descend(dep, line)
    PROVE  LET t == Len(stack)
           IN  /\ stack' \in Seq(Calls) /\ t \in DOMAIN stack
               /\ \A i \in 1 .. t - 1 : stack'[i] = stack[i]
               /\ stack'[t] = [name |-> stack[t].name, done |-> stack[t].done + 1]
               /\ \/ Len(stack') = t /\ (dep \in Wrappers => dep \in Seen)
                  \/ Len(stack') = t + 1 /\ stack'[t + 1] = Frame(dep) /\ dep \in Wrappers
               /\ dep \in Names /\ Edge(stack[t].name, dep)
               /\ stack[t].done + 1 \in 1 .. Len(Deps(stack[t].name))
               /\ Deps(stack[t].name)[stack[t].done + 1] = dep
  <1> DEFINE t == Len(stack)
  <1>1. stack \in Seq(Calls) /\ stack # <<>> /\ t \in DOMAIN stack /\ Top = stack[t]
    BY DEF Checked, Descend, Top
  <1>2. stack[t].name \in Wrappers /\ stack[t].done \in Nat
    <2>1. stack[t] \in Calls
      BY <1>1
    <2> QED BY <1>1, <2>1 DEF Path, Calls
  <1>3. Deps(stack[t].name) \in Seq(Names)
    BY <1>2 DEF Loaded
  <1>4. /\ stack[t].done + 1 \in 1 .. Len(Deps(stack[t].name))
        /\ Deps(stack[t].name)[stack[t].done + 1] = dep
    BY <1>1, <1>2, <1>3 DEF Descend
  <1>5. dep \in Names
    BY <1>3, <1>4
  <1>6. Edge(stack[t].name, dep)
    BY <1>2, <1>3, <1>4 DEF Edge, DepSet, ToSet
  <1>7. t \in Nat /\ t > 0
    BY <1>1
  <1> HIDE DEF t
  <1>8. /\ Passed \in Seq(Calls) /\ Len(Passed) = t
        /\ \A i \in 1 .. t - 1 : Passed[i] = stack[i]
        /\ Passed[t] = [name |-> stack[t].name, done |-> stack[t].done + 1]
    BY <1>1, PassedIs DEF t
  <1>9. CASE stack' = Passed /\ (dep \in Wrappers => dep \in Seen)
    BY <1>1, <1>4, <1>5, <1>6, <1>8, <1>9 DEF t
  <1>10. CASE stack' = Append(Passed, Frame(dep)) /\ dep \in Wrappers
    <2>1. /\ stack' \in Seq(Calls) /\ Len(stack') = t + 1 /\ stack'[t + 1] = Frame(dep)
          /\ \A i \in 1 .. t : stack'[i] = Passed[i]
      BY <1>5, <1>8, <1>10, EnteredIs
    <2>2. /\ \A i \in 1 .. t - 1 : stack'[i] = stack[i]
          /\ stack'[t] = [name |-> stack[t].name, done |-> stack[t].done + 1]
      BY <1>7, <1>8, <2>1
    <2> QED BY <1>1, <1>4, <1>5, <1>6, <1>10, <2>1, <2>2 DEF t
  <1> QED BY <1>9, <1>10 DEF Descend

LEMMA DescendPath ==
    ASSUME Loaded, Checked, Path, NEW dep, NEW line, Descend(dep, line)
    PROVE  Path'
  <1> DEFINE t == Len(stack)
  <1>1. registry' = registry
    BY DEF Descend
  <1>2. /\ stack' \in Seq(Calls) /\ stack \in Seq(Calls) /\ t \in Nat /\ t > 0
        /\ \A i \in 1 .. t - 1 : stack'[i] = stack[i]
        /\ stack'[t] = [name |-> stack[t].name, done |-> stack[t].done + 1]
        /\ \/ Len(stack') = t
           \/ Len(stack') = t + 1 /\ stack'[t + 1] = Frame(dep) /\ dep \in Wrappers
        /\ Edge(stack[t].name, dep) /\ dep \in Names
        /\ stack[t].done + 1 <= Len(Deps(stack[t].name))
    BY DescendStack DEF Checked
  <1>3. \A i \in 1 .. t : stack[i].name \in Wrappers /\ stack[i].done <= Len(Deps(stack[i].name))
    BY <1>2 DEF Path
  <1>4. \A i \in 1 .. t - 1 : Edge(stack[i].name, stack[i + 1].name)
    <2>1. \A i \in 1 .. t - 1 : i \in DOMAIN stack /\ i < t
      BY <1>2
    <2> QED BY <2>1 DEF Path
  <1>5. \A i \in 1 .. t : stack'[i].name = stack[i].name
    BY <1>2
  <1>6. \A n \in Wrappers : Len(Deps(n)) \in Nat
    BY DEF Loaded
  <1>7. ASSUME NEW i \in DOMAIN stack'
        PROVE  stack'[i].name \in Wrappers /\ stack'[i].done <= Len(Deps(stack'[i].name))
    <2>1. CASE i <= t
      BY <1>2, <1>3, <1>5, <2>1
    <2>2. CASE i = t + 1
      BY <1>2, <1>6, <2>2 DEF Frame
    <2> QED BY <1>2, <2>1, <2>2
  <1>8. ASSUME NEW i \in DOMAIN stack', i < Len(stack')
        PROVE  Edge(stack'[i].name, stack'[i + 1].name)
    <2>1. CASE i < t
      BY <1>2, <1>4, <1>5, <2>1
    <2>2. CASE i = t
      <3>1. stack'[t + 1].name = dep
        BY <1>2, <1>8, <2>2 DEF Frame
      <3> QED BY <1>2, <2>2, <3>1
    <2> QED BY <1>2, <1>8, <2>1, <2>2
  <1> HIDE DEF t
  <1> QED BY <1>1, <1>7, <1>8, SameGraph DEF Path

\* What a line more does to the lines.
LEMMA AppendIs ==
    ASSUME NEW S, NEW xs \in Seq(S), NEW x \in S, NEW ys, ys = Append(xs, x)
    PROVE  /\ ys \in Seq(S) /\ DOMAIN ys = DOMAIN xs \cup {Len(xs) + 1}
           /\ Len(ys) = Len(xs) + 1 /\ ys[Len(xs) + 1] = x /\ \A k \in DOMAIN xs : ys[k] = xs[k]
OBVIOUS

LEMMA DescendPrinted ==
    ASSUME Checked, NEW dep, NEW line, Descend(dep, line)
    PROVE  /\ printed' \in Seq(Lines)
           /\ DOMAIN printed' = DOMAIN printed \cup {Len(printed) + 1}
           /\ printed'[Len(printed) + 1] = line
           /\ \A k \in DOMAIN printed : printed'[k] = printed[k]
           /\ Seen' = Seen \cup {dep}
  <1>1. /\ printed' \in Seq(Lines)
        /\ DOMAIN printed' = DOMAIN printed \cup {Len(printed) + 1}
        /\ printed'[Len(printed) + 1] = line
        /\ \A k \in DOMAIN printed : printed'[k] = printed[k]
    BY AppendIs DEF Checked, Descend
  <1>2. line.name = dep /\ root' = root
    BY DEF Descend
  <1> QED BY <1>1, <1>2 DEF Seen

LEMMA DescendExplored ==
    ASSUME Loaded, Checked, Path, Explored, NEW dep, NEW line, Descend(dep, line)
    PROVE  Explored'
  <1> DEFINE t == Len(stack)
  <1>1. registry' = registry /\ root' = root
    BY DEF Descend
  <1>2. /\ t \in Nat /\ t > 0 /\ DOMAIN stack = 1 .. t
        /\ \A i \in 1 .. t : stack[i] \in Calls
    BY DescendStack DEF Checked
  <1>3. /\ \A i \in 1 .. t - 1 : stack'[i] = stack[i]
        /\ stack'[t].name = stack[t].name /\ stack'[t].done = stack[t].done + 1
    BY DescendStack
  <1>4. \/ Len(stack') = t /\ (dep \in Wrappers => dep \in Seen)
        \/ Len(stack') = t + 1 /\ stack'[t + 1] = Frame(dep)
    BY DescendStack
  <1> DEFINE top == Len(stack')
  <1>5. /\ DOMAIN stack' = 1 .. top
        /\ top = t \/ (top = t + 1 /\ stack'[t + 1] = Frame(dep))
    BY <1>4, DescendStack
  <1>6. /\ Edge(stack[t].name, dep) /\ dep \in Names
        /\ Deps(stack[t].name)[stack[t].done + 1] = dep
    BY DescendStack
  <1> HIDE DEF t, top
  <1>7. Seen' = Seen \cup {dep}
    BY DescendPrinted
  <1>8. \A i \in 1 .. t : stack[i].done \in Nat
    BY <1>2 DEF Calls
  <1>9. \A i \in 1 .. t : /\ stack[i].name \in Seen
                           /\ \A k \in 1 .. stack[i].done : Deps(stack[i].name)[k] \in Seen
    BY <1>2 DEF Explored
  <1>10. \A i \in 1 .. t : stack'[i].name = stack[i].name
    BY <1>2, <1>3
  <1>11. dep \in Below(root)
    <2>1. stack[t].name \in Below(root)
      BY <1>2, <1>9 DEF Explored
    <2> QED BY <1>6, <2>1, BelowClosed DEF Closed
  <1>12. ASSUME NEW i \in DOMAIN stack'
         PROVE  /\ stack'[i].name \in Seen'
                /\ \A k \in 1 .. stack'[i].done : Deps(stack'[i].name)[k] \in Seen'
    <2>1. CASE i \in 1 .. t - 1
      BY <1>2, <1>3, <1>7, <1>9, <2>1
    <2>2. CASE i = t
      <3>1. stack[t].done \in Nat /\ t \in 1 .. t
        BY <1>2, <1>8
      <3>2. ASSUME NEW k \in 1 .. stack[t].done + 1
            PROVE  Deps(stack[t].name)[k] \in Seen'
        <4>1. k \in 1 .. stack[t].done \/ k = stack[t].done + 1
          BY <3>1
        <4> QED BY <1>6, <1>7, <1>9, <3>1, <4>1
      <3> QED BY <1>3, <1>7, <1>9, <2>2, <3>1, <3>2
    <2>3. CASE i = t + 1 /\ stack'[t + 1] = Frame(dep)
      BY <1>7, <2>3 DEF Frame
    <2>4. i \in 1 .. t - 1 \/ i = t \/ (i = t + 1 /\ stack'[t + 1] = Frame(dep))
      <3>1. CASE top = t
        BY <1>2, <1>5, <3>1
      <3>2. CASE top = t + 1 /\ stack'[t + 1] = Frame(dep)
        BY <1>2, <1>5, <3>2
      <3> QED BY <1>5, <3>1, <3>2
    <2> QED BY <2>1, <2>2, <2>3, <2>4
  <1>13. ASSUME NEW n \in Seen' \cap Wrappers
         PROVE  (\E i \in DOMAIN stack' : stack'[i].name = n) \/ DepSet(n) \subseteq Seen'
    <2>1. CASE n \in Seen /\ OnStack(n)
      <3>1. PICK i \in 1 .. t : stack[i].name = n
        BY <1>2, <2>1 DEF OnStack
      <3>2. i \in DOMAIN stack'
        BY <1>2, <1>5, <3>1
      <3>3. stack'[i].name = n
        BY <1>10, <3>1
      <3> QED BY <3>2, <3>3
    <2>2. CASE n \in Seen /\ DepSet(n) \subseteq Seen
      BY <1>7, <2>2
    <2>3. CASE n \notin Seen
      <3>1. n = dep /\ Len(stack') = t + 1 /\ stack'[t + 1] = Frame(dep)
        BY <1>4, <1>7, <1>13, <2>3
      <3>2. t + 1 \in DOMAIN stack'
        BY <1>2, <3>1
      <3> QED BY <3>1, <3>2 DEF Frame
    <2> QED BY <2>1, <2>2, <2>3 DEF Explored
  <1>14. Seen' \subseteq Below(root)
    BY <1>7, <1>11 DEF Explored
  <1> QED BY <1>1, <1>12, <1>13, <1>14, SameGraph DEF Explored, OnStack

-----------------------------------------------------------------------------
(* The edges of the dot graph, in their order.                              *)

LEMMA LinesFinite ==
    ASSUME NEW S, NEW lines \in Seq(S), NEW n
    PROVE  /\ From(lines, n) \subseteq 1 .. Len(lines) /\ Len(lines) \in Nat
           /\ IsFiniteSet(From(lines, n))
  <1>1. Len(lines) \in Nat /\ From(lines, n) \subseteq 1 .. Len(lines)
    BY DEF From
  <1>2. IsFiniteSet(1 .. Len(lines))
    BY <1>1, FS_Interval
  <1> QED BY <1>1, <1>2, FS_Subset

\* A line from another wrapper changes nothing in the lines from n.
LEMMA OrderedKept ==
    ASSUME NEW S, NEW xs \in Seq(S), NEW line \in S, NEW ys, ys = Append(xs, line),
           NEW n, n # line.from
    PROVE  \A deps, d : Ordered(xs, n, deps, d) => Ordered(ys, n, deps, d)
  <1>1. /\ DOMAIN ys = DOMAIN xs \cup {Len(xs) + 1} /\ ys[Len(xs) + 1] = line
        /\ \A k \in DOMAIN xs : ys[k] = xs[k]
    BY AppendIs
  <1>2. From(ys, n) = From(xs, n)
    BY <1>1 DEF From
  <1>3. \A k \in From(xs, n) : ys[k] = xs[k]
    BY <1>1 DEF From
  <1> QED BY <1>2, <1>3 DEF Ordered

\* A line for the next dependency of n goes behind all the lines from n.
LEMMA OrderedMore ==
    ASSUME NEW S, NEW xs \in Seq(S), NEW line \in S, NEW ys, ys = Append(xs, line),
           NEW n, n = line.from, NEW deps, NEW d \in Nat, Ordered(xs, n, deps, d),
           line.name = deps[d + 1]
    PROVE  Ordered(ys, n, deps, d + 1)
  <1> DEFINE new == Len(xs) + 1
             L == From(xs, n)
             M == From(ys, n)
             Upto(T, k) == {j \in T : j <= k}
  <1>1. /\ DOMAIN ys = DOMAIN xs \cup {new} /\ ys[new] = line
        /\ \A k \in DOMAIN xs : ys[k] = xs[k]
    BY AppendIs
  <1>2. L \subseteq 1 .. Len(xs) /\ Len(xs) \in Nat /\ IsFiniteSet(L)
    BY LinesFinite
  <1>3. M = L \cup {new}
    BY <1>1 DEF From
  <1>4. new \notin L
    BY <1>2
  <1>5. Cardinality(L) = d /\ \A k \in L : xs[k].name = deps[Cardinality(Upto(L, k))]
    BY DEF Ordered
  <1>6. \A k \in L : k \in DOMAIN xs
    BY DEF From
  <1>7. \A k \in L : Upto(M, k) = Upto(L, k)
    BY <1>2, <1>3
  <1>8. Upto(M, new) = M
    BY <1>2, <1>3
  <1> HIDE DEF L, M, new, Upto
  <1>9. Cardinality(M) = d + 1
    BY <1>2, <1>3, <1>4, <1>5, FS_AddElement
  <1>10. ASSUME NEW k \in M
         PROVE  ys[k].name = deps[Cardinality(Upto(M, k))]
    <2>1. CASE k = new
      BY <1>1, <1>8, <1>9, <2>1
    <2>2. CASE k \in L
      BY <1>1, <1>5, <1>6, <1>7, <2>2
    <2> QED BY <1>3, <1>10, <2>1, <2>2
  <1> QED BY <1>9, <1>10 DEF Ordered, M, Upto

\* Calls that follow the edges of a graph without cycles meet no wrapper twice.
LEMMA PathIsSimple ==
    ASSUME Checked, Path, ~Circular
    PROVE  StackBounded
  <1>1. Len(stack) \in Nat /\ DOMAIN stack = 1 .. Len(stack)
    BY DEF Checked
  <1>2. ASSUME NEW i \in DOMAIN stack, NEW j \in DOMAIN stack, i < j,
               stack[i].name = stack[j].name
        PROVE  FALSE
    <2> DEFINE S == {stack[k].name : k \in i .. j - 1}
    <2>1. \A k \in i .. j - 1 : k \in DOMAIN stack /\ k < Len(stack)
      BY <1>1, <1>2
    <2>2. S \in SUBSET Wrappers
      BY <2>1 DEF Path
    <2>3. stack[i].name \in S
      BY <1>1, <1>2
    <2>4. ASSUME NEW m \in S
          PROVE  \E n \in S : Edge(m, n)
      <3>1. PICK k \in i .. j - 1 : m = stack[k].name
        OBVIOUS
      <3>2. Edge(m, stack[k + 1].name)
        BY <2>1, <3>1 DEF Path
      <3>3. k + 1 \in i .. j - 1 \/ k + 1 = j
        BY <1>1, <3>1
      <3>4. stack[k + 1].name \in S
        BY <1>2, <2>3, <3>3
      <3> QED BY <3>2, <3>4
    <2> HIDE DEF S
    <2> QED BY <2>2, <2>3, <2>4 DEF Circular
  <1> SUFFICES ASSUME NEW i \in DOMAIN stack, NEW j \in DOMAIN stack,
                      stack[i].name = stack[j].name, i # j
               PROVE  FALSE
    BY DEF StackBounded
  <1>3. i < j \/ j < i
    BY <1>1
  <1> QED BY <1>2, <1>3

LEMMA DescendEdges ==
    ASSUME Loaded, Checked, Path, Explored, Edges, ~Circular, format = "dot",
           NEW dep, NEW line, Descend(dep, line), line.from = Top.name,
           visited' = visited \cup {dep}, dep \in Seen => stack' = Passed
    PROVE  Edges'
  <1> DEFINE t == Len(stack)
             top == Len(stack')
             n == stack[t].name
  <1>1. /\ t \in Nat /\ t > 0 /\ DOMAIN stack = 1 .. t
        /\ \A i \in 1 .. t : stack[i] \in Calls
    BY DescendStack DEF Checked
  <1>2. /\ \A i \in 1 .. t - 1 : stack'[i] = stack[i]
        /\ stack'[t].name = n /\ stack'[t].done = stack[t].done + 1
    BY DescendStack
  <1>3. DOMAIN stack' = 1 .. top
    BY DescendStack
  <1>4. \/ top = t /\ (dep \in Wrappers => dep \in Seen)
        \/ top = t + 1 /\ stack'[t + 1] = Frame(dep) /\ dep \notin Seen
    <2>1. stack' = Passed => top = t
      BY PassedIs DEF Checked, Descend
    <2> QED BY <1>1, <2>1, DescendStack
  <1>5. Deps(n)[stack[t].done + 1] = dep
    BY DescendStack
  <1>6. line.from = n /\ line.name = dep /\ line \in Lines
    BY DEF Descend, Top
  <1>7. /\ registry' = registry /\ printed' = Append(printed, line)
        /\ printed \in Seq(Lines)
    BY DEF Descend, Checked
  <1> HIDE DEF t, top
  <1>8. Seen' = Seen \cup {dep}
    BY DescendPrinted
  <1>9. n \in Seen \cap Wrappers /\ stack[t].done \in Nat
    BY <1>1 DEF Path, Explored, Calls
  <1>10. \A m : m # n => \A deps, d :
             Ordered(printed, m, deps, d) => Ordered(printed', m, deps, d)
    BY <1>6, <1>7, OrderedKept
  <1>11. Ordered(printed', n, Deps(n), stack[t].done + 1)
    <2>1. Ordered(printed, n, Deps(n), stack[t].done)
      BY <1>1 DEF Edges
    <2> QED BY <1>5, <1>6, <1>7, <1>9, <2>1, OrderedMore
  <1>12. ASSUME NEW k \in DOMAIN printed'
         PROVE  printed'[k].from \in Seen' \cap Wrappers
    <2>1. (k \in DOMAIN printed /\ printed'[k] = printed[k]) \/ printed'[k] = line
      BY DescendPrinted
    <2> QED BY <1>6, <1>8, <1>9, <2>1 DEF Edges
  <1>13. ASSUME dep \notin Seen
         PROVE  Ordered(printed, dep, Deps(dep), 0)
    <2>1. From(printed, dep) = {}
      BY <1>13 DEF Edges, From
    <2> QED BY <2>1, FS_EmptySet DEF Ordered
  <1>14. \A i \in 1 .. t - 1 : stack[i].name # n
    <2>1. StackBounded
      BY PathIsSimple
    <2> QED BY <1>1, <2>1 DEF StackBounded
  <1>15. ASSUME NEW i \in DOMAIN stack'
         PROVE  Ordered(printed', stack'[i].name, Deps(stack'[i].name), stack'[i].done)
    <2>1. CASE i \in 1 .. t - 1
      <3>1. Ordered(printed, stack[i].name, Deps(stack[i].name), stack[i].done)
        BY <1>1, <2>1 DEF Edges
      <3> QED BY <1>2, <1>10, <1>14, <2>1, <3>1
    <2>2. CASE i = t
      BY <1>2, <1>11, <2>2
    <2>3. CASE i = t + 1 /\ stack'[t + 1] = Frame(dep) /\ dep \notin Seen
      BY <1>9, <1>10, <1>13, <2>3 DEF Frame
    <2> QED BY <1>1, <1>3, <1>4, <2>1, <2>2, <2>3
  <1>16. ASSUME NEW m \in Seen' \cap Wrappers, ~OnStack(m)'
         PROVE  Ordered(printed', m, Deps(m), Len(Deps(m)))
    <2>1. m # n
      <3>1. t \in DOMAIN stack'
        BY <1>1, <1>3, <1>4
      <3> QED BY <1>2, <1>16, <3>1 DEF OnStack
    <2>2. m \in Seen
      <3>1. ASSUME m = dep, dep \notin Seen
            PROVE  FALSE
        <4>1. top = t + 1 /\ stack'[t + 1] = Frame(dep)
          BY <1>4, <1>16, <3>1
        <4>2. t + 1 \in DOMAIN stack'
          BY <1>1, <1>3, <4>1
        <4> QED BY <1>16, <3>1, <4>1, <4>2 DEF OnStack, Frame
      <3> QED BY <1>8, <3>1
    <2>3. ~OnStack(m)
      <3>1. ASSUME NEW i \in 1 .. t, stack[i].name = m
            PROVE  FALSE
        <4>1. i \in DOMAIN stack' /\ stack'[i].name = m
          BY <1>1, <1>2, <1>3, <1>4, <2>1, <3>1
        <4> QED BY <1>16, <4>1 DEF OnStack
      <3> QED BY <1>1, <3>1 DEF OnStack
    <2>4. Ordered(printed, m, Deps(m), Len(Deps(m)))
      BY <1>16, <2>2, <2>3 DEF Edges
    <2> QED BY <1>10, <2>1, <2>4
  <1>17. visited' = Seen'
    BY <1>8 DEF Edges
  <1>18. Wrappers' = Wrappers
    BY <1>7, SameGraph
  <1>19. \A i : Deps(stack[i].name)' = Deps(stack'[i].name)
    BY <1>7 DEF Deps
  <1>20. \A m : Deps(m)' = Deps(m)
    BY <1>7, SameGraph
  <1> HIDE DEF n
  <1> QED BY <1>12, <1>15, <1>16, <1>17, <1>18, <1>19, <1>20 DEF Edges

-----------------------------------------------------------------------------
(* The steps.                                                               *)

\* One call less: its wrapper is done with.
LEMMA FrontIs ==
    ASSUME NEW S, NEW xs \in Seq(S), xs # <<>>, NEW ys, ys = Front(xs)
    PROVE  /\ ys \in Seq(S) /\ Len(xs) \in Nat /\ Len(xs) > 0 /\ Len(ys) = Len(xs) - 1
           /\ DOMAIN ys = 1 .. Len(xs) - 1 /\ \A i \in 1 .. Len(xs) - 1 : ys[i] = xs[i]
  <1>1. Len(xs) \in Nat /\ Len(xs) > 0 /\ \A i \in 1 .. Len(xs) : xs[i] \in S
    OBVIOUS
  <1>2. ys = [i \in 1 .. Len(xs) - 1 |-> xs[i]]
    BY <1>1 DEF Front
  <1> QED BY <1>1, <1>2

LEMMA ReturnRenders ==
    ASSUME Loaded, Checked, Rendering, Return
    PROVE  Checked' /\ Rendering'
  <1> DEFINE t == Len(stack)
             top == stack[t]
  <1>1. /\ stack' \in Seq(Calls) /\ t \in Nat /\ t > 0 /\ Len(stack') = t - 1
        /\ DOMAIN stack' = 1 .. t - 1 /\ \A i \in 1 .. t - 1 : stack'[i] = stack[i]
    BY FrontIs DEF Checked, Return
  <1>2. /\ registry' = registry /\ root' = root /\ format' = format /\ pc' = pc
        /\ visited' = visited /\ printed' = printed /\ pc = "render"
    BY DEF Return
  <1>3. Path /\ Explored /\ (format = "dot" => Edges)
    BY <1>2 DEF Rendering
  <1>4. DOMAIN stack = 1 .. t
    BY DEF Checked
  <1>5. Wrappers' = Wrappers /\ \A m : Deps(m)' = Deps(m) /\ DepSet(m)' = DepSet(m)
    BY <1>2, SameGraph
  <1>6. \A i : Deps(stack[i].name)' = Deps(stack'[i].name)
    BY <1>2 DEF Deps
  <1>7. Checked'
    BY <1>1, <1>2, <1>5, SameGraph DEF Checked, Lines
  <1>8. Seen' = Seen
    BY <1>2 DEF Seen
  <1>9. top.done = Len(Deps(top.name)) /\ top.name \in Wrappers
    BY <1>1, <1>3, <1>4 DEF Return, Top, Path
  <1>10. \A n : OnStack(n) => OnStack(n)' \/ n = top.name
    BY <1>1, <1>4 DEF OnStack
  <1> HIDE DEF t
  <1>11. Path'
    <2>1. \A i \in 1 .. t - 1 : Edge(stack'[i].name, stack'[i + 1].name) \/ i = t - 1
      <3>1. ASSUME NEW i \in 1 .. t - 1, i # t - 1
            PROVE  Edge(stack'[i].name, stack'[i + 1].name)
        <4>1. i \in DOMAIN stack /\ i < t /\ stack'[i] = stack[i] /\ stack'[i + 1] = stack[i + 1]
          BY <1>1, <1>4, <3>1
        <4>2. Edge(stack[i].name, stack[i + 1].name)
          BY <1>3, <4>1 DEF Path, t
        <4> QED BY <4>1, <4>2
      <3> QED BY <3>1
    <2>2. \A i \in 1 .. t - 1 :
             stack'[i].name \in Wrappers /\ stack'[i].done <= Len(Deps(stack'[i].name))
      BY <1>1, <1>3, <1>4 DEF Path
    <2>3. \A i : Edge(stack[i].name, stack[i + 1].name)' <=> Edge(stack'[i].name, stack'[i + 1].name)
      BY <1>2 DEF Edge, DepSet, Deps, Wrappers
    <2> QED BY <1>1, <1>5, <1>6, <2>1, <2>2, <2>3 DEF Path
  <1>12. Explored'
    <2>1. \A i \in 1 .. t - 1 :
             /\ stack'[i].name \in Seen
             /\ \A k \in 1 .. stack'[i].done : Deps(stack'[i].name)[k] \in Seen
      BY <1>1, <1>3, <1>4 DEF Explored
    <2>2. DepSet(top.name) \subseteq Seen
      <3>1. \A k \in 1 .. Len(Deps(top.name)) : Deps(top.name)[k] \in Seen
        BY <1>1, <1>3, <1>4, <1>9 DEF Explored
      <3>2. Deps(top.name) \in Seq(Names)
        BY <1>9 DEF Loaded
      <3> QED BY <3>1, <3>2 DEF DepSet, ToSet
    <2>3. \A n \in Seen \cap Wrappers : OnStack(n)' \/ DepSet(n) \subseteq Seen
      BY <1>3, <1>10, <2>2 DEF Explored
    <2>4. Below(root)' = Below(root)
      BY <1>2 DEF Below, Closed, Edge, Wrappers, DepSet, Deps
    <2>5. Seen \subseteq Below(root)
      BY <1>3 DEF Explored
    <2> HIDE DEF top
    <2> QED BY <1>1, <1>5, <1>6, <1>8, <2>1, <2>3, <2>4, <2>5 DEF Explored
  <1>13. ASSUME format = "dot"
         PROVE  Edges'
    <2>1. Edges
      BY <1>3, <1>13
    <2>2. \A i \in 1 .. t - 1 :
             Ordered(printed, stack'[i].name, Deps(stack'[i].name), stack'[i].done)
      BY <1>1, <1>4, <2>1 DEF Edges
    <2>3. Ordered(printed, top.name, Deps(top.name), Len(Deps(top.name)))
      BY <1>1, <1>4, <1>9, <2>1 DEF Edges
    <2>4. \A n \in Seen \cap Wrappers :
             OnStack(n)' \/ Ordered(printed, n, Deps(n), Len(Deps(n)))
      BY <1>10, <2>1, <2>3 DEF Edges
    <2>5. visited = Seen /\ \A k \in DOMAIN printed : printed[k].from \in Seen \cap Wrappers
      BY <2>1 DEF Edges
    <2> HIDE DEF top
    <2> QED BY <1>1, <1>2, <1>5, <1>6, <1>8, <2>2, <2>4, <2>5 DEF Edges
  <1> QED BY <1>2, <1>7, <1>11, <1>12, <1>13 DEF Rendering

\* The next dependency is a name, and the wrapper on top has it.
LEMMA NextDependency ==
    ASSUME Loaded, Checked, Path, stack # <<>>, Top.done < Len(Deps(Top.name))
    PROVE  Deps(Top.name)[Top.done + 1] \in Names /\ Top.name \in Names /\ Len(stack) \in Nat
  <1>1. Len(stack) \in DOMAIN stack /\ Top = stack[Len(stack)] /\ Top \in Calls
    BY DEF Checked, Top
  <1>2. Top.name \in Wrappers /\ Top.done \in Nat
    BY <1>1 DEF Path, Calls
  <1>3. Deps(Top.name) \in Seq(Names) /\ Top.name \in Names
    BY <1>2 DEF Loaded
  <1> QED BY <1>1, <1>2, <1>3

LEMMA DescendRenders ==
    ASSUME Loaded, Checked, Rendering, NEW dep, NEW line, Descend(dep, line),
           format = "dot" => /\ line.from = Top.name /\ visited' = visited \cup {dep}
                             /\ dep \in Seen => stack' = Passed
    PROVE  Checked' /\ Rendering'
  <1>1. /\ registry' = registry /\ root' = root /\ format' = format /\ pc' = pc
        /\ pc = "render"
    BY DEF Descend
  <1>2. Path /\ Explored /\ (format = "dot" => Edges) /\ ~Circular
    BY <1>1 DEF Rendering, Checked
  <1>3. Path' /\ Explored' /\ (format = "dot" => Edges')
    BY <1>2, DescendPath, DescendExplored, DescendEdges
  <1>4. stack' \in Seq(Calls) /\ printed' \in Seq(Lines)
    BY <1>2, DescendStack, DescendPrinted
  <1>5. Checked'
    BY <1>1, <1>4, SameGraph DEF Checked, Lines
  <1> QED BY <1>1, <1>3, <1>5 DEF Rendering

LEMMA RenderTextRenders ==
    ASSUME Loaded, Checked, Rendering, RenderText
    PROVE  Checked' /\ Rendering'
  <1> DEFINE dep == Deps(Top.name)[Top.done + 1]
             line == [depth |-> Len(stack), name |-> dep]
  <1>1. Path /\ format = "text" /\ stack # <<>> /\ Top.done < Len(Deps(Top.name))
    BY DEF RenderText, Rendering
  <1>2. line \in Lines
    BY <1>1, NextDependency DEF Lines
  <1>3. PICK d, l : d = dep /\ l = line
    OBVIOUS
  <1>4. Descend(d, l)
    BY <1>1, <1>2, <1>3 DEF RenderText, Enter, Descend
  <1> QED BY <1>1, <1>4, DescendRenders

LEMMA RenderDotRenders ==
    ASSUME Loaded, Checked, Rendering, RenderDot
    PROVE  Checked' /\ Rendering'
  <1> DEFINE dep == Deps(Top.name)[Top.done + 1]
             line == [from |-> Top.name, name |-> dep]
  <1>1. /\ Path /\ Edges /\ format = "dot" /\ stack # <<>>
        /\ Top.done < Len(Deps(Top.name))
    BY DEF RenderDot, Rendering
  <1>2. line \in Lines
    BY <1>1, NextDependency DEF Lines
  <1>3. PICK d, l : d = dep /\ l = line
    OBVIOUS
  <1>4. visited = Seen
    BY <1>1 DEF Edges
  <1>5. Descend(d, l)
    BY <1>1, <1>2, <1>3, <1>4 DEF RenderDot, Enter, Descend
  <1>6. /\ l.from = Top.name /\ visited' = visited \cup {d}
        /\ d \in Seen => stack' = Passed
    BY <1>3, <1>4 DEF RenderDot
  <1> QED BY <1>5, <1>6, DescendRenders

\* What has passed the check starts with the root.
LEMMA CheckGraphRenders ==
    ASSUME Loaded, Checked, CheckGraph
    PROVE  Checked' /\ Rendering'
  <1>1. /\ registry' = registry /\ root' = root /\ format' = format
        /\ stack = <<>> /\ printed = <<>> /\ visited = {} /\ root \in Names
        /\ format \in {"text", "dot"}
    BY DEF CheckGraph, Checked
  <1>2. CASE pc' = "done"
    <2>1. stack' = stack /\ printed' = printed /\ visited' = visited
      BY <1>2 DEF CheckGraph
    <2> QED BY <1>1, <1>2, <2>1 DEF Checked, Rendering
  <1>3. CASE pc' # "done"
    <2>1. /\ pc' = "render" /\ root \in Wrappers /\ ~Circular
          /\ stack' = <<Frame(root)>>
          /\ visited' = IF format = "dot" THEN {root} ELSE {}
          /\ printed' = IF format = "text" THEN <<[depth |-> 0, name |-> root]>> ELSE <<>>
      BY <1>3 DEF CheckGraph, Finish
    <2>2. Frame(root) = [name |-> root, done |-> 0] /\ Frame(root) \in Calls
      BY <1>1 DEF Frame, Calls
    <2> DEFINE f == Frame(root)
    <2>3. /\ DOMAIN stack' = {1} /\ Len(stack') = 1 /\ stack'[1] = f /\ stack' \in Seq(Calls)
      BY <2>1, <2>2
    <2>4. printed' \in Seq(Lines)
      <3>1. CASE format = "text"
        BY <1>1, <2>1, <3>1 DEF Lines
      <3>2. CASE format = "dot"
        BY <2>1, <3>2
      <3> QED BY <1>1, <3>1, <3>2
    <2>5. Checked'
      BY <1>1, <2>1, <2>3, <2>4, SameGraph DEF Checked, Lines
    <2>6. /\ f.name = root /\ f.done = 0 /\ Wrappers' = Wrappers
          /\ \A n : Deps(n)' = Deps(n) /\ Below(n)' = Below(n)
      BY <1>1, <2>2, SameGraph
    <2>7. Deps(root) \in Seq(Names)
      BY <2>1 DEF Loaded
    <2>8. Seen' = {root}
      BY <1>1, <2>1 DEF Seen
    <2>9. \A i : Deps(stack[i].name)' = Deps(stack'[i].name)
      BY <1>1 DEF Deps
    <2> HIDE DEF f
    <2>10. Path'
      BY <2>1, <2>3, <2>6, <2>7, <2>9 DEF Path
    <2>11. root \in Below(root) /\ Below(root)' = Below(root)
      BY <1>1, <2>6, BelowItself DEF Below, Closed, Edge, Wrappers, DepSet, Deps
    <2>12. \A n \in Seen' : OnStack(n)'
      BY <2>3, <2>6, <2>8 DEF OnStack
    <2>13. Explored'
      BY <2>3, <2>6, <2>8, <2>11, <2>12 DEF Explored
    <2>14. ASSUME format = "dot"
           PROVE  Edges'
      <3>1. printed' = <<>> /\ visited' = {root}
        BY <1>1, <2>1, <2>14
      <3>2. \A n, deps : Ordered(printed', n, deps, 0)
        <4>1. \A n : From(printed', n) = {}
          BY <3>1 DEF From
        <4> QED BY <4>1, FS_EmptySet DEF Ordered
      <3> QED BY <2>3, <2>6, <2>8, <2>9, <2>12, <3>1, <3>2 DEF Edges
    <2> QED BY <1>1, <2>5, <2>10, <2>13, <2>14 DEF Rendering
  <1> QED BY <1>2, <1>3

-----------------------------------------------------------------------------
(* The answers.                                                             *)

\* When all calls have returned, what is printed is closed.
LEMMA AllExplored ==
    ASSUME Loaded, Checked, Explored, stack = <<>>
    PROVE  Seen = Below(root)
  <1>1. \A n \in Seen \cap Wrappers : DepSet(n) \subseteq Seen
    BY DEF Explored, OnStack
  <1>2. Closed(Seen)
    BY <1>1 DEF Closed, Edge
  <1>3. root \in Names /\ root \in Seen
    BY DEF Checked, Seen
  <1> QED BY <1>2, <1>3, BelowLeast DEF Explored

\* Without a dangling reference all of it is registered.
LEMMA BelowRegistered ==
    ASSUME root \in Names, root \in Wrappers, ~RefErrors
    PROVE  \A n \in Below(root) :
              n \in Wrappers /\ registry.wrappers[n].policies \subseteq registry.policies
  <1>1. Closed(Wrappers)
    BY DEF RefErrors, Closed, Edge
  <1>2. Below(root) \subseteq Wrappers
    BY <1>1, BelowLeast
  <1> QED BY <1>2 DEF RefErrors

LEMMA ExitAnswers ==
    ASSUME Loaded, Checked, Rendering, Exit
    PROVE  Checked' /\ Rendering' /\ AnswerTrue'
  <1>1. /\ registry' = registry /\ root' = root /\ format' = format
        /\ stack' = <<>> /\ stack = <<>> /\ printed' = printed
        /\ pc = "render" /\ pc' = "done" /\ exit' = IF RefErrors THEN 1 ELSE 0
    BY DEF Exit, Finish
  <1>2. Path /\ Explored /\ (format = "dot" => Edges) /\ root \in Wrappers /\ ~Circular
    BY <1>1 DEF Rendering, Checked
  <1>3. Checked' /\ Rendering'
    BY <1>1 DEF Checked, Lines, Rendering
  <1>4. Seen = Below(root) /\ root \in Names
    BY <1>1, <1>2, AllExplored DEF Checked
  <1>5. ASSUME exit' = 0
        PROVE  \A n \in Below(root) :
                  n \in Wrappers /\ registry.wrappers[n].policies \subseteq registry.policies
    BY <1>1, <1>2, <1>4, <1>5, BelowRegistered
  <1>6. Below(root)' = Below(root) /\ Wrappers' = Wrappers /\ \A n : Deps(n)' = Deps(n)
    BY <1>1, SameGraph DEF Below, Closed, Edge, Wrappers, DepSet, Deps
  <1>7. AnswerComplete'
    BY <1>1, <1>4, <1>5, <1>6 DEF AnswerComplete, Seen
  <1>8. ASSUME format = "dot"
        PROVE  /\ \A k \in DOMAIN printed : printed[k].from \in Below(root) \cap Wrappers
               /\ \A n \in Below(root) \cap Wrappers :
                     Ordered(printed, n, Deps(n), Len(Deps(n)))
    <2>1. \A n : ~OnStack(n)
      BY <1>1 DEF OnStack
    <2> QED BY <1>2, <1>4, <1>8, <2>1 DEF Edges
  <1>9. EdgesOnce'
    <2>1. \A n : LinesFrom(n)' = From(printed, n)
      BY <1>1 DEF LinesFrom, From
    <2> QED BY <1>1, <1>6, <1>8, <2>1 DEF EdgesOnce, Ordered
  <1>10. CycleReported'
    <2>1. exit' # 3
      BY <1>1
    <2>2. ~ \E m, n \in Names : Edge(m, n) /\ m \in Below(n)
      BY <1>2, CircularIsCycle
    <2>3. \A m, n : (Edge(m, n)' <=> Edge(m, n)) /\ Below(n)' = Below(n)
      BY <1>1, SameGraph
    <2> QED BY <2>1, <2>2, <2>3 DEF CycleReported
  <1> QED BY <1>3, <1>7, <1>9, <1>10 DEF AnswerTrue

LEMMA CheckGraphAnswers ==
    ASSUME Loaded, Checked, CheckGraph
    PROVE  AnswerTrue'
  <1>1. registry' = registry /\ root' = root
    BY DEF CheckGraph
  <1>2. Wrappers' = Wrappers /\ \A m, n : (Edge(m, n)' <=> Edge(m, n)) /\ Below(n)' = Below(n)
    BY <1>1, SameGraph
  <1>3. CASE root \notin Wrappers
    <2>1. exit' = 1
      BY <1>3 DEF CheckGraph, Finish
    <2> QED BY <1>1, <1>2, <1>3, <2>1 DEF AnswerTrue, AnswerComplete, EdgesOnce, CycleReported
  <1>4. CASE root \in Wrappers /\ Circular
    <2>1. exit' = 3
      BY <1>4 DEF CheckGraph, Finish
    <2>2. \E m, n \in Names : Edge(m, n) /\ m \in Below(n)
      BY <1>4, CircularIsCycle
    <2> QED BY <1>1, <1>2, <1>4, <2>1, <2>2 DEF AnswerTrue, AnswerComplete, EdgesOnce, CycleReported
  <1>5. CASE root \in Wrappers /\ ~Circular
    <2>1. pc' = "render"
      BY <1>5 DEF CheckGraph
    <2> QED BY <2>1 DEF AnswerTrue, AnswerComplete, EdgesOnce, CycleReported
  <1> QED BY <1>3, <1>4, <1>5

LEMMA InvInit == Init => Inv
  <1> SUFFICES ASSUME Init
               PROVE  Inv
    OBVIOUS
  <1>1. Loaded
    BY LoadedInit
  <1>2. pc = "load"
    BY DEF Init
  <1>3. Checked
    BY <1>2 DEF Init, Checked
  <1> QED BY <1>1, <1>2, <1>3 DEF Inv, Rendering, AnswerTrue, AnswerComplete, EdgesOnce, CycleReported

LEMMA InvNext == Inv /\ [Next]_vars => Inv'
  <1> SUFFICES ASSUME Inv, [Next]_vars
               PROVE  Inv'
    OBVIOUS
  <1>1. Loaded /\ Checked /\ Rendering /\ AnswerTrue
    BY DEF Inv
  <1>2. Loaded'
    BY <1>1, LoadedNext
  <1>3. CASE LoadWrapper \/ LoadPolicy \/ LoadError \/ NextDirectory
    <2>1. /\ pc = "load" /\ pc' \in {"load", "check"} /\ root' = root /\ format' = format
          /\ stack' = stack /\ printed' = printed /\ visited' = visited
      BY <1>3 DEF LoadWrapper, LoadPolicy, LoadError, NextDirectory, ReadFile
    <2>2. Checked'
      BY <1>1, <2>1 DEF Checked, Lines
    <2>3. Rendering' /\ AnswerTrue'
      BY <2>1 DEF Rendering, AnswerTrue, AnswerComplete, EdgesOnce, CycleReported
    <2> QED BY <1>2, <2>2, <2>3 DEF Inv
  <1>4. CASE CheckGraph
    BY <1>1, <1>2, <1>4, CheckGraphRenders, CheckGraphAnswers DEF Inv
  <1>5. CASE RenderText \/ RenderDot \/ Return
    <2>1. Checked' /\ Rendering'
      BY <1>1, <1>5, RenderTextRenders, RenderDotRenders, ReturnRenders
    <2>2. pc' = "render"
      BY <1>5 DEF RenderText, RenderDot, Return
    <2>3. AnswerTrue'
      BY <2>2 DEF AnswerTrue, AnswerComplete, EdgesOnce, CycleReported
    <2> QED BY <1>2, <2>1, <2>3 DEF Inv
  <1>6. CASE Exit
    BY <1>1, <1>2, <1>6, ExitAnswers DEF Inv
  <1>7. CASE UNCHANGED vars
    <2>1. registry' = registry /\ root' = root /\ format' = format /\ pc' = pc /\ stack' = stack
          /\ visited' = visited /\ printed' = printed /\ exit' = exit
      BY <1>7 DEF vars
    <2>2. Checked'
      BY <1>1, <2>1, SameGraph DEF Checked, Lines
    <2>3. Rendering'
      <3>1. Path' <=> Path
        BY <2>1 DEF Path, Edge, Wrappers, DepSet, Deps
      <3>2. Explored' <=> Explored
        BY <2>1 DEF Explored, Seen, OnStack, Below, Closed, Edge, Wrappers, DepSet, Deps
      <3>3. Edges' <=> Edges
        BY <2>1 DEF Edges, Seen, OnStack, Wrappers, Deps
      <3> QED BY <1>1, <2>1, <3>1, <3>2, <3>3 DEF Rendering
    <2>4. AnswerTrue'
      BY <1>1, <2>1 DEF AnswerTrue, AnswerComplete, EdgesOnce, CycleReported, LinesFrom, Below,
         Closed, Edge, Wrappers, DepSet, Deps
    <2> QED BY <1>2, <2>2, <2>3, <2>4 DEF Inv
  <1> QED BY <1>3, <1>4, <1>5, <1>6, <1>7 DEF Next

LEMMA InvAlways == Spec => []Inv
  BY InvInit, InvNext, PTL DEF Spec

-----------------------------------------------------------------------------
\* The recursion never enters a wrapper below itself: the check of the whole
\* registry leaves no way to, however many files there are and whatever they
\* say (cli/validate.py _render_text_tree, engine/dag.py).
THEOREM RecursionEnds == Spec => []StackBounded
  <1>1. Inv => StackBounded
    <2> SUFFICES ASSUME Inv
                 PROVE  StackBounded
      OBVIOUS
    <2>1. CASE pc = "render"
      BY <2>1, PathIsSimple DEF Inv, Rendering, Checked
    <2>2. CASE pc # "render"
      BY <2>2 DEF Inv, Checked, StackBounded
    <2> QED BY <2>1, <2>2
  <1> QED BY <1>1, InvAlways, PTL

\* What is printed and the exit code are true of the graph: an exit with 0 means
\* that just what is below the root is printed and that all of it is registered;
\* the dot graph has each dependency once and in its order, over however many
\* paths a wrapper is reached; the exit code is 3 just when a registered wrapper
\* depends on itself (cli/validate.py handle_graph, engine/dag.py).
THEOREM AnswersTrue == Spec => []AnswerTrue
  BY InvAlways, PTL DEF Inv

=============================================================================

----------------------------- MODULE SpecGraph -----------------------------
(***************************************************************************)
(* clawwrap graph: load_specs reads the spec files one after another into  *)
(* a registry, build_dependency_graph checks the wrappers of the registry, *)
(* and the wrappers below the root are rendered, as a tree of text by a    *)
(* recursion that relies on the check for its end, or as a dot graph by    *)
(* one that remembers where it was.  Files may be broken, missing, lie in  *)
(* the wrong directory, share a name or refer to what does not exist.      *)
(***************************************************************************)
EXTENDS Naturals, Sequences, FiniteSets, SequencesExt

CONSTANTS
    Names,      \* of wrappers
    Policies,   \* names of policies
    NumFiles,   \* how many files are in specs/wrappers and in specs/policies
    MaxDeps     \* bound on the dependencies of a wrapper

ASSUME FilesAssumption == MaxDeps \in Nat /\ NumFiles \in [{"wrappers", "policies"} -> Nat]

VARIABLES
    registry,   \* the wrappers and policies loaded so far
    file,       \* which file is next in which directory
    root,       \* the wrapper asked for
    format,
    pc,
    stack,      \* the calls of the recursion: a name and the dependencies done
    visited,    \* of _collect_edges
    printed,    \* the lines of the tree or the edges of the graph, in order
    exit        \* the exit code, once the command is over

vars == <<registry, file, root, format, pc, stack, visited, printed, exit>>

\* What _wrapper_from_dict makes of a wrapper's file.
Wrapper == [name : Names, deps : SeqOf(Names, MaxDeps), policies : SUBSET Policies]

Init ==
    /\ registry = [wrappers |-> <<>>, policies |-> {}]
    /\ file = [dir |-> "wrappers", number |-> 1]
    /\ root \in Names
    /\ format \in {"text", "dot"}
    /\ pc = "load"
    /\ stack = <<>> /\ visited = {} /\ printed = <<>>
    /\ exit = 0

-----------------------------------------------------------------------------
Wrappers == DOMAIN registry.wrappers
Deps(n) == registry.wrappers[n].deps
DepSet(n) == ToSet(Deps(n))
Edge(m, n) == m \in Wrappers /\ n \in DepSet(m)

ReadFile(dir) ==
    /\ pc = "load" /\ file.dir = dir /\ file.number <= NumFiles[dir]
    /\ file' = [file EXCEPT !.number = @ + 1]
    /\ UNCHANGED <<root, format, pc, stack, visited, printed, exit>>

\* load_specs and _add_to_registry: of two wrappers with one name the later
\* file counts.
LoadWrapper ==
    /\ ReadFile("wrappers")
    /\ \E w \in Wrapper :
          registry' = [registry EXCEPT !.wrappers =
              [n \in Wrappers \cup {w.name} |->
                  IF n = w.name THEN [deps |-> w.deps, policies |-> w.policies] ELSE @[n]]]

LoadPolicy ==
    /\ ReadFile("policies")
    /\ \E p \in Policies : registry' = [registry EXCEPT !.policies = @ \cup {p}]

\* validate_spec finds the file invalid, whatever the reason, or a valid spec of
\* another type than its directory holds: a warning, and the next file.
LoadError ==
    /\ \E dir \in DOMAIN NumFiles : ReadFile(dir)
    /\ UNCHANGED registry

NextDirectory ==
    /\ pc = "load" /\ file.number > NumFiles[file.dir]
    /\ IF file.dir = "wrappers"
       THEN file' = [dir |-> "policies", number |-> 1] /\ UNCHANGED pc
       ELSE pc' = "check" /\ UNCHANGED file
    /\ UNCHANGED <<registry, root, format, stack, visited, printed, exit>>

-----------------------------------------------------------------------------
(* build_dependency_graph, on all wrappers of the registry.                *)

\* Mutant of RefErrors: the references of the root only.
RefErrorsOfRoot ==
    \/ \E d \in DepSet(root) : d \notin Wrappers
    \/ ~(registry.wrappers[root].policies \subseteq registry.policies)

RefErrors ==
    \E n \in Wrappers : \/ \E d \in DepSet(n) : d \notin Wrappers
                        \/ ~(registry.wrappers[n].policies \subseteq registry.policies)

\* Mutant of Circular: a wrapper that depends on itself is no cycle.
CircularBetweenTwo ==
    \E S \in SUBSET Wrappers : S # {} /\ \A m \in S : \E n \in S \ {m} : Edge(m, n)

\* TopologicalSorter.static_order raises a CycleError: there are wrappers each of
\* which waits for one of them, so that none can ever come first.
Circular == \E S \in SUBSET Wrappers : S # {} /\ \A m \in S : \E n \in S : Edge(m, n)

-----------------------------------------------------------------------------
(* Rendering.                                                              *)

Frame(n) == [name |-> n, done |-> 0]
Top == stack[Len(stack)]
Finish(code) == pc' = "done" /\ exit' = code

\* Mutant of CheckGraph: unresolved references are reported before a cycle.
CheckGraphRefsFirst ==
    /\ pc = "check"
    /\ IF root \notin Wrappers \/ RefErrors
       THEN Finish(1) /\ UNCHANGED <<stack, visited, printed>>
       ELSE IF Circular
       THEN Finish(3) /\ UNCHANGED <<stack, visited, printed>>
       ELSE /\ pc' = "render"
            /\ stack' = <<Frame(root)>>
            /\ visited' = IF format = "dot" THEN {root} ELSE {}
            /\ printed' = IF format = "text" THEN <<[depth |-> 0, name |-> root]>> ELSE <<>>
            /\ UNCHANGED exit
    /\ UNCHANGED <<registry, file, root, format>>

\* _build_dag_for_wrapper and the checks of handle_graph.  The root is entered.
CheckGraph ==
    /\ pc = "check"
    /\ IF root \notin Wrappers
       THEN Finish(1) /\ UNCHANGED <<stack, visited, printed>>
       ELSE IF Circular
       THEN Finish(3) /\ UNCHANGED <<stack, visited, printed>>
       ELSE /\ pc' = "render"
            /\ stack' = <<Frame(root)>>
            /\ visited' = IF format = "dot" THEN {root} ELSE {}
            /\ printed' = IF format = "text" THEN <<[depth |-> 0, name |-> root]>> ELSE <<>>
            /\ UNCHANGED exit
    /\ UNCHANGED <<registry, file, root, format>>

\* The next dependency of the wrapper on top is entered if it is registered.
Passed == [stack EXCEPT ![Len(stack)].done = @ + 1]
Enter(dep) == stack' = IF dep \in Wrappers THEN Append(Passed, Frame(dep)) ELSE Passed

\* _render_text_tree.
RenderText ==
    /\ pc = "render" /\ format = "text" /\ stack # <<>> /\ Top.done < Len(Deps(Top.name))
    /\ LET dep == Deps(Top.name)[Top.done + 1]
       IN /\ printed' = Append(printed, [depth |-> Len(stack), name |-> dep])
          /\ Enter(dep)
    /\ UNCHANGED <<registry, file, root, format, pc, visited, exit>>

\* Mutant of RenderDot: nothing is remembered.
RenderDotAgain ==
    /\ pc = "render" /\ format = "dot" /\ stack # <<>> /\ Top.done < Len(Deps(Top.name))
    /\ LET dep == Deps(Top.name)[Top.done + 1]
       IN /\ printed' = Append(printed, [from |-> Top.name, name |-> dep])
          /\ visited' = visited \cup {dep}
          /\ Enter(dep)
    /\ UNCHANGED <<registry, file, root, format, pc, exit>>

\* _collect_edges.
RenderDot ==
    /\ pc = "render" /\ format = "dot" /\ stack # <<>> /\ Top.done < Len(Deps(Top.name))
    /\ LET dep == Deps(Top.name)[Top.done + 1]
       IN /\ printed' = Append(printed, [from |-> Top.name, name |-> dep])
          /\ visited' = visited \cup {dep}
          /\ IF dep \in visited THEN stack' = Passed ELSE Enter(dep)
    /\ UNCHANGED <<registry, file, root, format, pc, exit>>

Return ==
    /\ pc = "render" /\ stack # <<>> /\ Top.done = Len(Deps(Top.name))
    /\ stack' = Front(stack)
    /\ UNCHANGED <<registry, file, root, format, pc, visited, printed, exit>>

Exit ==
    /\ pc = "render" /\ stack = <<>>
    /\ Finish(IF RefErrors THEN 1 ELSE 0)
    /\ UNCHANGED <<registry, file, root, format, stack, visited, printed>>

Next ==
    \/ LoadWrapper \/ LoadPolicy \/ LoadError \/ NextDirectory
    \/ CheckGraph
    \/ RenderText \/ RenderDot \/ Return
    \/ Exit

Spec == Init /\ [][Next]_vars

-----------------------------------------------------------------------------
\* The recursion never enters a wrapper below itself, so that it ends, however
\* the files refer to each other: the tree has no guard of its own and relies
\* on the check of the whole registry (cli/validate.py _render_text_tree).
StackBounded ==
    \A i, j \in DOMAIN stack : stack[i].name = stack[j].name => i = j

\* The wrapper n and all it depends on: what every set has that contains n and,
\* with a wrapper, its dependencies.
Closed(S) == \A m \in S : \A n \in Names : Edge(m, n) => n \in S
Below(n) == {m \in Names : \A S \in SUBSET Names : n \in S /\ Closed(S) => m \in S}

\* An exit with 0 means that the graph is complete: just what is below the root
\* is printed, all of it registered and with known policies
\* (cli/validate.py handle_graph).
AnswerComplete ==
    pc = "done" /\ exit = 0 =>
        /\ {root} \cup {printed[i].name : i \in DOMAIN printed} = Below(root)
        /\ \A n \in Below(root) :
              n \in Wrappers /\ registry.wrappers[n].policies \subseteq registry.policies

LinesFrom(n) == {k \in DOMAIN printed : printed[k].from = n}

\* The dot graph has the dependencies of each wrapper below the root once and in
\* their order, over however many paths the wrapper is reached, and no others
\* (cli/validate.py _render_dot_graph).
EdgesOnce ==
    pc = "done" /\ exit # 3 /\ root \in Wrappers /\ format = "dot" =>
        /\ \A k \in DOMAIN printed : printed[k].from \in Below(root) \cap Wrappers
        /\ \A n \in Below(root) \cap Wrappers :
              /\ Cardinality(LinesFrom(n)) = Len(Deps(n))
              /\ \A k \in LinesFrom(n) :
                    printed[k].name = Deps(n)[Cardinality({j \in LinesFrom(n) : j <= k})]

\* The exit code is 3 if and only if some registered wrapper, below the root or
\* not, depends on itself over others or at once, whatever else is wrong
\* (engine/dag.py _try_topological_sort, cli/validate.py handle_graph).
CycleReported ==
    pc = "done" =>
        (exit = 3 <=> root \in Wrappers /\ \E m, n \in Names : Edge(m, n) /\ m \in Below(n))

\* What clawwrap graph prints and the code it exits with are true of the graph of
\* the files that could be loaded, whatever else is wrong with them.
AnswerTrue == AnswerComplete /\ EdgesOnce /\ CycleReported

=============================================================================

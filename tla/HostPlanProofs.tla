--------------------------- MODULE HostPlanProofs ---------------------------
(***************************************************************************)
(* The properties of HostPlan for any surfaces, contents, plans and legacy *)
(* inventories.  They follow from an invariant that relates what a check   *)
(* has read to what the surfaces have held meanwhile, and what the host    *)
(* holds to the plan that it has written.                                  *)
(***************************************************************************)
EXTENDS HostPlan, WellFoundedInduction, TLAPS

Held == Contents \cup {Absent}
Item == [surface : AllSurfaces, content : Held]
Complete(items) == \A i \in DOMAIN items : items[i].content # Absent

\* h holds the last content that each surface has among the first n items.
Written(items, n, h) ==
    \A i \in 1 .. n :
        (\A j \in i + 1 .. n : items[j].surface # items[i].surface)
            => h[items[i].surface] = items[i].content

\* All plans saved are owned.
Planned ==
    /\ plans \in Seq(Seq(Item)) /\ \A k \in DOMAIN plans : AllOwned(plans[k])
    /\ host \in [AllSurfaces -> Held] /\ held \in [AllSurfaces -> SUBSET Held] /\ edits \in Nat

\* A host that writes a plan undisturbed has written its items so far.
InOrder ==
    /\ writer \in [plan : 0 .. Len(plans), next : Nat, clean : BOOLEAN]
    /\ writer.plan # 0 =>
          LET items == plans[writer.plan] IN
          /\ writer.next \in DOMAIN items
          /\ writer.clean /\ Complete(items) => Written(items, writer.next - 1, host)
    /\ settled \in 0 .. Len(plans)
    /\ settled # 0 /\ Complete(plans[settled]) =>
          Written(plans[settled], Len(plans[settled]), host)

IsCheck(c) ==
    /\ c = [pc |-> c.pc, items |-> c.items, config |-> c.config, observed |-> c.observed,
            undisturbed |-> c.undisturbed, sources |-> c.sources, verified |-> c.verified,
            verdict |-> c.verdict]
    /\ c.pc \in {"idle", "config", "surfaces", "sources", "done"}
    /\ c.items \in Seq(Item) /\ c.sources \in Seq(Source) /\ c.verified \in Seq(BOOLEAN)
    /\ c.undisturbed \in BOOLEAN

\* The source was gone, as it should be, at some moment.
Gone(source, hd) ==
    /\ source.expect # "shadowed_unreachable"
    /\ source.surface \notin ConfigKeys =>
          \/ Absent \in hd[source.surface]
          \/ source.expect = "disabled" /\ Disabled \in hd[source.surface]

\* What a check that is running has read was there, or was not to be read, and a
\* check that nobody disturbs reads what the host has.
Reads(c, h, hd) ==
    /\ c.pc \in {"config", "surfaces", "sources"} => \A s \in AllSurfaces : h[s] \in hd[s]
    /\ c.pc \in {"config", "surfaces"} =>
          /\ c.sources = <<>>
          /\ c.pc = "config" => DOMAIN c.observed = {}
          /\ c.undisturbed /\ Complete(c.items) => Written(c.items, Len(c.items), h)
    /\ c.pc = "surfaces" =>
          /\ \A s \in ConfigKeys : c.config[s] \in hd[s] \cup {Absent}
          /\ DOMAIN c.observed \subseteq Paths(c.items)
          /\ \A s \in DOMAIN c.observed : c.observed[s] \in hd[s] \cup {Absent}
          /\ c.undisturbed =>
                /\ \A s \in ConfigKeys : c.config[s] = h[s]
                /\ \A s \in DOMAIN c.observed : c.observed[s] = h[s]
    /\ c.pc = "sources" =>
          /\ c.items = <<>> /\ ~c.undisturbed
          /\ Len(c.verified) <= Len(c.sources)
          /\ \A i \in DOMAIN c.verified : c.verified[i] => Gone(c.sources[i], hd)
    /\ c.pc # "done" => c.verdict = "none"

Inv == Planned /\ InOrder /\ IsCheck(check) /\ Reads(check, host, held)
          /\ MatchingWasTrue /\ NoFalseDrift

-----------------------------------------------------------------------------
\* A set of numbers up to n that is not empty has a greatest one: the distances
\* to n have a least one.
LEMMA Greatest ==
    ASSUME NEW n \in Nat, NEW S \in SUBSET (1 .. n), S # {}
    PROVE  \E x \in S : \A y \in S : x >= y
  <1> DEFINE T == {n - x : x \in S}
  <1>1. T \subseteq Nat /\ T # {}
    <2>1. \A x \in S : n - x \in Nat
      OBVIOUS
    <2>2. PICK x : x \in S
      OBVIOUS
    <2>3. n - x \in T
      BY <2>2
    <2>4. \A m \in T : m \in Nat
      BY <2>1
    <2> HIDE DEF T
    <2> QED BY <2>3, <2>4
  <1> DEFINE R == OpToRel(<, Nat)
  <1>2. IsWellFoundedOn(R, Nat)
    BY NatLessThanWellFounded
  <1>3. \A x, y \in Nat : <<y, x>> \in R <=> y < x
    BY Zenon DEF OpToRel
  <1> HIDE DEF R, T
  <1>4. PICK m \in T : \A y \in T : ~ (<<y, m>> \in R)
    BY <1>1, <1>2, WFMin
  <1>5. \A y \in T : ~ (y < m)
    BY <1>1, <1>3, <1>4
  <1>6. PICK x \in S : m = n - x
    BY DEF T
  <1>7. \A y \in S : ~ (n - y < n - x)
    BY <1>5, <1>6 DEF T
  <1> QED BY <1>7

\* The last item for a surface is one, and there is none for it behind it.
LEMMA LastIs ==
    ASSUME NEW items \in Seq(Item), NEW s \in Paths(items)
    PROVE  /\ Last(items, s) \in DOMAIN items
           /\ items[Last(items, s)].surface = s
           /\ \A j \in Last(items, s) + 1 .. Len(items) : items[j].surface # s
  <1> DEFINE S == Indices(items, s)
  <1>1. Len(items) \in Nat /\ S \in SUBSET (1 .. Len(items)) /\ S # {}
    BY DEF Indices, Paths
  <1>2. PICK x \in S : \A y \in S : x >= y
    BY <1>1, Greatest
  <1>3. Last(items, s) \in S /\ \A y \in S : Last(items, s) >= y
    BY <1>2 DEF Last
  <1>4. Last(items, s) \in DOMAIN items /\ items[Last(items, s)].surface = s
    BY <1>3 DEF Indices
  <1>5. Last(items, s) \in Nat /\ DOMAIN items = 1 .. Len(items)
    BY <1>1, <1>3
  <1>6. ASSUME NEW j \in Last(items, s) + 1 .. Len(items), items[j].surface = s
        PROVE  FALSE
    <2>1. j \in S /\ j \in Nat /\ j > Last(items, s)
      BY <1>1, <1>5, <1>6 DEF Indices
    <2> QED BY <1>3, <1>5, <2>1
  <1> HIDE DEF S
  <1> QED BY <1>4, <1>6

\* Items are for surfaces.
LEMMA PathsAreSurfaces ==
    ASSUME NEW items \in Seq(Item)
    PROVE  Paths(items) \subseteq AllSurfaces
  <1> SUFFICES ASSUME NEW i \in DOMAIN items
               PROVE  items[i].surface \in AllSurfaces
    BY DEF Paths
  <1>1. items[i] \in Item
    OBVIOUS
  <1> QED BY <1>1 DEF Item

\* What was written in order is, for each surface, its last content.
LEMMA WrittenLast ==
    ASSUME NEW items \in Seq(Item), NEW h, Written(items, Len(items), h),
           NEW s \in Paths(items)
    PROVE  h[s] = items[Last(items, s)].content
  <1>1. Last(items, s) \in 1 .. Len(items)
    BY LastIs
  <1> QED BY <1>1, LastIs DEF Written

\* _derive_patch_items: each artifact becomes an item with a path.
LEMMA PatchItemsAreItems ==
    ASSUME NEW artifacts \in ArtifactLists
    PROVE  PatchItems(artifacts) \in Seq(Item)
  <1>1. PICK n \in 0 .. MaxArtifacts : artifacts \in [1 .. n -> Artifact]
    BY ListsAssumption
  <1>2. n \in Nat /\ n <= MaxArtifacts /\ MaxArtifacts \in Nat
    BY BoundsAssumption
  <1>3. ASSUME NEW i \in 1 .. n
        PROVE  PatchItems(artifacts)[i] \in Item
    <2>1. artifacts[i] \in Artifact /\ i \in DOMAIN artifacts
      BY <1>1
    <2>2. CASE artifacts[i].surface = Absent
      <3>1. PatchItems(artifacts)[i] = [artifacts[i] EXCEPT !.surface = Synthesised(i)]
        BY <2>1, <2>2 DEF PatchItems
      <3>2. Synthesised(i) \in AllSurfaces
        BY <1>2 DEF AllSurfaces
      <3> HIDE DEF Synthesised
      <3> QED BY <2>1, <3>1, <3>2 DEF Artifact, Item, Held
    <2>3. CASE artifacts[i].surface # Absent
      <3>1. PatchItems(artifacts)[i] = artifacts[i]
        BY <2>1, <2>3 DEF PatchItems
      <3> QED BY <2>1, <2>3, <3>1 DEF Artifact, Item, Held, AllSurfaces
    <2> QED BY <2>2, <2>3
  <1>4. PatchItems(artifacts) = [i \in 1 .. n |-> PatchItems(artifacts)[i]]
    BY <1>1 DEF PatchItems
  <1>5. PatchItems(artifacts) \in [1 .. n -> Item]
    BY <1>3, <1>4
  <1> QED BY <1>2, <1>5

\* Plan: the new plan is the latest; what the host does or has done stays.
LEMMA PlanInv ==
    ASSUME Inv, Plan
    PROVE  Inv'
  <1>1. PICK artifacts \in ArtifactLists :
          /\ AllOwned(PatchItems(artifacts)) /\ plans' = Append(plans, PatchItems(artifacts))
    BY DEF Plan
  <1> DEFINE items == PatchItems(artifacts)
  <1>2. items \in Seq(Item) /\ AllOwned(items) /\ plans' = Append(plans, items)
    BY <1>1, PatchItemsAreItems
  <1>3. UNCHANGED <<host, writer, settled, check, held, edits>>
    BY DEF Plan
  <1> HIDE DEF items
  <1>4. /\ plans \in Seq(Seq(Item)) /\ plans' \in Seq(Seq(Item))
        /\ Len(plans) \in Nat /\ Len(plans') = Len(plans) + 1
        /\ \A k \in 1 .. Len(plans) : plans'[k] = plans[k]
        /\ plans'[Len(plans) + 1] = items
        /\ DOMAIN plans' = 1 .. Len(plans) + 1 /\ DOMAIN plans = 1 .. Len(plans)
    BY <1>2 DEF Inv, Planned
  <1>5. Planned'
    <2>1. \A k \in DOMAIN plans' : AllOwned(plans'[k])
      BY <1>2, <1>4 DEF Inv, Planned
    <2> QED BY <1>3, <1>4, <2>1 DEF Inv, Planned
  <1>6. InOrder'
    <2>1. /\ writer.plan # 0 => plans'[writer.plan] = plans[writer.plan]
          /\ settled # 0 => plans'[settled] = plans[settled]
      BY <1>4 DEF Inv, InOrder
    <2>2. /\ writer \in [plan : 0 .. Len(plans'), next : Nat, clean : BOOLEAN]
          /\ settled \in 0 .. Len(plans')
      BY <1>4 DEF Inv, InOrder
    <2> QED BY <1>3, <2>1, <2>2 DEF Inv, InOrder
  <1>7. IsCheck(check') /\ Reads(check', host', held')
    BY <1>3 DEF Inv
  <1>8. MatchingWasTrue' /\ NoFalseDrift'
    BY <1>3 DEF Inv, MatchingWasTrue, NoFalseDrift
  <1> QED BY <1>5, <1>6, <1>7, <1>8 DEF Inv

\* StartWriting: of the new plan nothing is written yet.
LEMMA StartWritingInv ==
    ASSUME Inv, StartWriting
    PROVE  Inv'
  <1>1. PICK k \in DOMAIN plans :
          plans[k] # <<>> /\ writer' = [plan |-> k, next |-> 1, clean |-> TRUE]
    BY DEF StartWriting
  <1>2. UNCHANGED <<plans, host, settled, check, held, edits>>
    BY DEF StartWriting
  <1>3. /\ plans[k] \in Seq(Item) /\ k \in 1 .. Len(plans) /\ Len(plans) \in Nat
        /\ 1 \in DOMAIN plans[k]
    BY <1>1 DEF Inv, Planned
  <1>4. Written(plans[k], 0, host)
    BY DEF Written
  <1>5. InOrder'
    <2>1. writer' \in [plan : 0 .. Len(plans), next : Nat, clean : BOOLEAN]
      BY <1>1, <1>3
    <2> QED BY <1>1, <1>2, <1>3, <1>4, <2>1 DEF Inv, InOrder
  <1>6. Planned' /\ MatchingWasTrue' /\ NoFalseDrift'
    BY <1>2 DEF Inv, Planned, MatchingWasTrue, NoFalseDrift
  <1>7. IsCheck(check') /\ Reads(check', host', held')
    BY <1>2 DEF Inv
  <1> QED BY <1>5, <1>6, <1>7 DEF Inv

\* The record of no check is one of a check that has read nothing.
LEMMA NoCheckIs ==
    /\ IsCheck(NoCheck) /\ NoCheck.pc = "idle" /\ NoCheck.items = <<>>
    /\ NoCheck.sources = <<>> /\ NoCheck.undisturbed = FALSE /\ NoCheck.verdict = "none"
    /\ NoCheck.verified = <<>> /\ NoCheck.observed = <<>> /\ NoCheck.config = <<>>
  BY DEF NoCheck, IsCheck

\* Without a check there is nothing to say of one.
LEMMA NoCheckInv ==
    ASSUME check' = NoCheck
    PROVE  /\ IsCheck(check') /\ Reads(check', host', held')
           /\ MatchingWasTrue' /\ NoFalseDrift'
  <1>1. IsCheck(NoCheck) /\ NoCheck.pc = "idle" /\ NoCheck.verdict = "none"
    BY NoCheckIs
  <1>2. Reads(NoCheck, host', held')
    BY <1>1 DEF Reads
  <1> HIDE DEF NoCheck
  <1>3. IsCheck(check') /\ Reads(check', host', held')
    BY <1>1, <1>2
  <1> QED BY <1>1, <1>3 DEF MatchingWasTrue, NoFalseDrift

\* A surface changes under a check: what it has read was there, and the check
\* knows no more that it is undisturbed.
LEMMA WriteKeeps ==
    ASSUME Inv, NEW s \in AllSurfaces, NEW content \in Held, Write(s, content)
    PROVE  /\ host' = [host EXCEPT ![s] = content] /\ host' \in [AllSurfaces -> Held]
           /\ held' \in [AllSurfaces -> SUBSET Held]
           /\ IsCheck(check') /\ Reads(check', host', held')
           /\ MatchingWasTrue' /\ NoFalseDrift'
  <1>1. /\ host \in [AllSurfaces -> Held] /\ held \in [AllSurfaces -> SUBSET Held]
        /\ IsCheck(check) /\ Reads(check, host, held)
    BY DEF Inv, Planned
  <1>2. host' = [host EXCEPT ![s] = content] /\ host' \in [AllSurfaces -> Held]
    BY <1>1 DEF Write
  <1>3. CASE check.pc \in {"idle", "done"}
    <2>1. check' = NoCheck /\ held' = NothingHeld
      BY <1>3 DEF Write
    <2>2. held' \in [AllSurfaces -> SUBSET Held]
      BY <2>1 DEF NothingHeld
    <2> QED BY <1>2, <2>1, <2>2, NoCheckInv
  <1>4. CASE check.pc \notin {"idle", "done"}
    <2>1. /\ check' = [check EXCEPT !.undisturbed = FALSE]
          /\ held' = [held EXCEPT ![s] = @ \cup {content}]
      BY <1>4 DEF Write
    <2>2. /\ IsCheck(check') /\ check'.undisturbed = FALSE
          /\ check'.pc = check.pc /\ check'.items = check.items
          /\ check'.config = check.config /\ check'.observed = check.observed
          /\ check'.sources = check.sources /\ check'.verified = check.verified
          /\ check'.verdict = check.verdict
      BY <1>1, <2>1 DEF IsCheck
    <2>3. /\ held' \in [AllSurfaces -> SUBSET Held]
          /\ \A t \in AllSurfaces : held[t] \subseteq held'[t]
          /\ content \in held'[s]
      BY <1>1, <2>1
    <2>4. check.pc \in {"config", "surfaces", "sources"} =>
             \A t \in AllSurfaces : host'[t] \in held'[t]
      BY <1>1, <1>2, <2>3 DEF Reads
    <2>5. check.pc = "surfaces" =>
            /\ \A t \in ConfigKeys : check.config[t] \in held'[t] \cup {Absent}
            /\ \A t \in DOMAIN check.observed : check.observed[t] \in held'[t] \cup {Absent}
      <3> SUFFICES ASSUME check.pc = "surfaces"
                   PROVE  /\ \A t \in ConfigKeys : check.config[t] \in held'[t] \cup {Absent}
                          /\ \A t \in DOMAIN check.observed :
                                check.observed[t] \in held'[t] \cup {Absent}
        OBVIOUS
      <3>1. ConfigKeys \subseteq AllSurfaces
        BY SurfacesAssumption DEF AllSurfaces
      <3>2. DOMAIN check.observed \subseteq AllSurfaces
        <4>1. check.items \in Seq(Item)
          BY <1>1 DEF IsCheck
        <4>2. Paths(check.items) \subseteq AllSurfaces
          BY <4>1, PathsAreSurfaces
        <4> QED BY <1>1, <4>2 DEF Reads
      <3> QED BY <1>1, <2>3, <3>1, <3>2 DEF Reads
    <2>6. check.pc = "sources" =>
            \A i \in DOMAIN check.verified :
                check.verified[i] => Gone(check.sources[i], held')
      <3> SUFFICES ASSUME check.pc = "sources", NEW i \in DOMAIN check.verified,
                          check.verified[i]
                   PROVE  Gone(check.sources[i], held')
        OBVIOUS
      <3>1. Gone(check.sources[i], held) /\ Len(check.verified) <= Len(check.sources)
        BY <1>1 DEF Reads
      <3>2. check.sources \in Seq(Source) /\ check.verified \in Seq(BOOLEAN)
        BY <1>1 DEF IsCheck
      <3>3. check.sources[i] \in Source
        BY <3>1, <3>2
      <3>4. check.sources[i].surface \in AllSurfaces
        BY <3>3 DEF Source, AllSurfaces
      <3> QED BY <2>3, <3>1, <3>4 DEF Gone
    <2>7. Reads(check', host', held')
      BY <1>1, <1>4, <2>2, <2>4, <2>5, <2>6 DEF Reads
    <2>8. MatchingWasTrue' /\ NoFalseDrift'
      BY <1>1, <1>4, <2>2 DEF Reads, MatchingWasTrue, NoFalseDrift
    <2> QED BY <1>2, <2>2, <2>3, <2>7, <2>8
  <1> QED BY <1>3, <1>4

\* WriteItem: the host has then written one item more.
LEMMA WriteItemInv ==
    ASSUME Inv, WriteItem
    PROVE  Inv'
  <1> DEFINE items == plans[writer.plan]
             n == writer.next
             item == items[n]
             last == n = Len(items)
  <1>1. /\ writer.plan # 0 /\ UNCHANGED <<plans, edits>>
        /\ IF item.content = Absent THEN UNCHANGED <<host, held, check>>
           ELSE Write(item.surface, item.content)
        /\ writer' = IF last THEN [plan |-> 0, next |-> 1, clean |-> FALSE]
                     ELSE [writer EXCEPT !.next = @ + 1]
        /\ settled' = IF last /\ writer.clean THEN writer.plan ELSE 0
    BY DEF WriteItem
  <1>2. /\ writer \in [plan : 0 .. Len(plans), next : Nat, clean : BOOLEAN]
        /\ writer.plan \in 1 .. Len(plans) /\ Len(plans) \in Nat
        /\ items \in Seq(Item) /\ n \in DOMAIN items
        /\ writer.clean /\ Complete(items) => Written(items, n - 1, host)
        /\ plans \in Seq(Seq(Item)) /\ host \in [AllSurfaces -> Held]
    BY <1>1 DEF Inv, Planned, InOrder
  <1> HIDE DEF items
  <1>3. /\ item \in Item /\ n \in 1 .. Len(items) /\ Len(items) \in Nat /\ n \in Nat
    BY <1>2
  <1>4. item.surface \in AllSurfaces /\ item.content \in Held
    BY <1>3 DEF Item
  <1>5. /\ host' \in [AllSurfaces -> Held] /\ held' \in [AllSurfaces -> SUBSET Held]
        /\ IsCheck(check') /\ Reads(check', host', held')
        /\ MatchingWasTrue' /\ NoFalseDrift'
        /\ item.content # Absent => host' = [host EXCEPT ![item.surface] = item.content]
    <2>1. CASE item.content = Absent
      <3>1. UNCHANGED <<host, held, check>>
        BY <1>1, <2>1
      <3>2. MatchingWasTrue' /\ NoFalseDrift'
        BY <3>1 DEF Inv, MatchingWasTrue, NoFalseDrift
      <3> QED BY <2>1, <3>1, <3>2 DEF Inv, Planned
    <2>2. CASE item.content # Absent
      <3>1. Write(item.surface, item.content)
        BY <1>1, <2>2
      <3> HIDE DEF item
      <3> QED BY <1>4, <3>1, WriteKeeps
    <2> QED BY <2>1, <2>2
  <1>6. Planned'
    BY <1>1, <1>5 DEF Inv, Planned
  <1>7. writer.clean /\ Complete(items) => Written(items, n, host')
    <2> SUFFICES ASSUME writer.clean, Complete(items), NEW i \in 1 .. n,
                        \A j \in i + 1 .. n : items[j].surface # items[i].surface
                 PROVE  host'[items[i].surface] = items[i].content
      BY DEF Written
    <2>1. item.content # Absent
      BY <1>2 DEF Complete
    <2>2. host' = [host EXCEPT ![item.surface] = item.content]
      BY <1>5, <2>1
    <2>3. CASE i = n
      BY <1>2, <1>4, <2>2, <2>3
    <2>4. CASE i # n
      <3>1. i \in 1 .. n - 1 /\ n \in i + 1 .. n /\ i \in Nat
        BY <1>3, <2>4
      <3>2. item.surface # items[i].surface
        BY <3>1
      <3>3. \A j \in i + 1 .. n - 1 : items[j].surface # items[i].surface
        BY <1>3, <3>1
      <3>4. host[items[i].surface] = items[i].content
        BY <1>2, <3>1, <3>3 DEF Written
      <3>5. items[i] \in Item
        BY <1>2, <1>3, <3>1
      <3>6. items[i].surface \in AllSurfaces
        BY <3>5 DEF Item
      <3> QED BY <1>2, <2>2, <3>2, <3>4, <3>6
    <2> QED BY <2>3, <2>4
  <1>8. CASE last
    <2>1. /\ writer' = [plan |-> 0, next |-> 1, clean |-> FALSE]
          /\ settled' = IF writer.clean THEN writer.plan ELSE 0
          /\ plans' = plans
      BY <1>1, <1>8
    <2>2. settled' # 0 => settled' = writer.plan /\ writer.clean
      BY <2>1
    <2>3. settled' # 0 /\ Complete(plans[settled']) =>
             Written(plans[settled'], Len(plans[settled']), host')
      BY <1>7, <1>8, <2>2 DEF items
    <2>4. writer' \in [plan : 0 .. Len(plans), next : Nat, clean : BOOLEAN]
      BY <1>2, <2>1
    <2>5. settled' \in 0 .. Len(plans)
      BY <1>2, <2>1
    <2>6. InOrder'
      BY <2>1, <2>3, <2>4, <2>5 DEF InOrder
    <2> QED BY <1>5, <1>6, <2>6 DEF Inv
  <1>9. CASE ~last
    <2>1. /\ writer' = [writer EXCEPT !.next = @ + 1] /\ settled' = 0 /\ plans' = plans
      BY <1>1, <1>9
    <2>2. /\ writer' \in [plan : 0 .. Len(plans), next : Nat, clean : BOOLEAN]
          /\ writer'.plan = writer.plan /\ writer'.clean = writer.clean
          /\ writer'.next = n + 1
      <3> DEFINE plan == 0 .. Len(plans)
      <3>1. writer \in [plan : plan, next : Nat, clean : BOOLEAN] /\ n + 1 \in Nat
        BY <1>2, <1>3
      <3> HIDE DEF plan
      <3>2. /\ writer' \in [plan : plan, next : Nat, clean : BOOLEAN]
            /\ writer'.plan = writer.plan /\ writer'.clean = writer.clean
            /\ writer'.next = n + 1
        BY <2>1, <3>1
      <3> QED BY <3>2 DEF plan
    <2>3. n + 1 \in DOMAIN items /\ n + 1 - 1 = n
      BY <1>2, <1>3, <1>9
    <2>4. InOrder'
      BY <1>2, <1>7, <2>1, <2>2, <2>3 DEF InOrder, items
    <2> QED BY <1>5, <1>6, <2>4 DEF Inv
  <1> QED BY <1>8, <1>9

\* Edit: nothing is settled or in order any more.
LEMMA EditInv ==
    ASSUME Inv, Edit
    PROVE  Inv'
  <1>1. PICK s \in AllSurfaces, content \in Held : Write(s, content)
    BY DEF Edit, Held
  <1>2. /\ settled' = 0 /\ writer' = [writer EXCEPT !.clean = FALSE] /\ plans' = plans
        /\ edits' = edits + 1
    BY DEF Edit
  <1>3. /\ host' \in [AllSurfaces -> Held] /\ held' \in [AllSurfaces -> SUBSET Held]
        /\ IsCheck(check') /\ Reads(check', host', held')
        /\ MatchingWasTrue' /\ NoFalseDrift'
    BY <1>1, WriteKeeps
  <1>4. Planned'
    BY <1>2, <1>3 DEF Inv, Planned
  <1>5. InOrder'
    <2>1. /\ writer' \in [plan : 0 .. Len(plans), next : Nat, clean : BOOLEAN]
          /\ writer'.plan = writer.plan /\ writer'.next = writer.next
          /\ writer'.clean = FALSE
      <3> DEFINE plan == 0 .. Len(plans)
      <3>1. writer \in [plan : plan, next : Nat, clean : BOOLEAN]
        BY DEF Inv, InOrder
      <3> HIDE DEF plan
      <3>2. /\ writer' \in [plan : plan, next : Nat, clean : BOOLEAN]
            /\ writer'.plan = writer.plan /\ writer'.next = writer.next
            /\ writer'.clean = FALSE
        BY <1>2, <3>1
      <3> QED BY <3>2 DEF plan
    <2> QED BY <1>2, <2>1 DEF Inv, InOrder
  <1> QED BY <1>3, <1>4, <1>5 DEF Inv

\* A step of the check alone keeps the invariant when its new record fits.
LEMMA CheckStep ==
    ASSUME Inv, UNCHANGED <<plans, host, writer, settled, edits>>,
           held' \in [AllSurfaces -> SUBSET Held],
           IsCheck(check'), Reads(check', host', held'), MatchingWasTrue', NoFalseDrift'
    PROVE  Inv'
  BY DEF Inv, Planned, InOrder

\* A check that has not come to a verdict has no wrong one.
LEMMA NoVerdict ==
    ASSUME check'.pc # "done", Reads(check', host', held')
    PROVE  MatchingWasTrue' /\ NoFalseDrift'
  BY DEF Reads, MatchingWasTrue, NoFalseDrift

\* A history that begins with what the surfaces hold.
LEMMA HeldBegins ==
    ASSUME Inv, held' = [s \in AllSurfaces |-> {host[s]}]
    PROVE  /\ held' \in [AllSurfaces -> SUBSET Held]
           /\ \A s \in AllSurfaces : host[s] \in held'[s]
  BY DEF Inv, Planned

\* LoadPlan: the host holds the plan that it has settled.
LEMMA LoadPlanInv ==
    ASSUME Inv, LoadPlan
    PROVE  Inv'
  <1> DEFINE undisturbed == settled = Len(plans) /\ LatestPlan # <<>>
  <1>1. /\ check' = [NoCheck EXCEPT !.pc = "config", !.items = LatestPlan,
                                    !.undisturbed = undisturbed]
        /\ held' = [s \in AllSurfaces |-> {host[s]}]
        /\ UNCHANGED <<plans, host, writer, settled, edits>>
    BY DEF LoadPlan
  <1>2. /\ LatestPlan \in Seq(Item) /\ undisturbed \in BOOLEAN
        /\ undisturbed => settled # 0 /\ LatestPlan = plans[settled]
    <2>1. plans \in Seq(Seq(Item)) /\ Len(plans) \in Nat
      BY DEF Inv, Planned
    <2>2. CASE plans = <<>>
      BY <2>2 DEF LatestPlan
    <2>3. CASE plans # <<>>
      <3>1. Len(plans) \in DOMAIN plans /\ Len(plans) # 0
        BY <2>1, <2>3
      <3>2. LatestPlan = plans[Len(plans)]
        BY <2>3 DEF LatestPlan
      <3> QED BY <2>1, <3>1, <3>2
    <2> QED BY <2>2, <2>3
  <1>3. undisturbed /\ Complete(LatestPlan) => Written(LatestPlan, Len(LatestPlan), host)
    BY <1>2 DEF Inv, InOrder
  <1> HIDE DEF undisturbed
  <1>4. /\ IsCheck(check') /\ check'.pc = "config" /\ check'.items = LatestPlan
        /\ check'.undisturbed = undisturbed /\ check'.sources = <<>> /\ check'.verdict = "none"
        /\ check'.observed = <<>>
    BY <1>1, <1>2, NoCheckIs DEF IsCheck
  <1>5. Reads(check', host', held')
    <2>1. DOMAIN check'.observed = {}
      BY <1>4
    <2> QED BY <1>1, <1>3, <1>4, <2>1, HeldBegins DEF Reads
  <1> QED BY <1>1, <1>4, <1>5, HeldBegins, NoVerdict, CheckStep

\* ReadConfig: the keys have the values that the host holds, or count as missing.
LEMMA ReadConfigInv ==
    ASSUME Inv, ReadConfig
    PROVE  Inv'
  <1>p. PICK readable \in BOOLEAN :
          check' = [check EXCEPT
              !.pc = "surfaces",
              !.config = [s \in ConfigKeys |-> IF readable THEN host[s] ELSE Absent],
              !.undisturbed = @ /\ readable]
    BY DEF ReadConfig
  <1> DEFINE config == [s \in ConfigKeys |-> IF readable THEN host[s] ELSE Absent]
             undisturbed == check.undisturbed /\ readable
  <1>1. /\ check' = [check EXCEPT !.pc = "surfaces", !.config = config,
                                  !.undisturbed = undisturbed]
        /\ UNCHANGED <<plans, host, writer, settled, held, edits>> /\ check.pc = "config"
    BY <1>p DEF ReadConfig
  <1>2. IsCheck(check) /\ Reads(check, host, held)
    BY DEF Inv
  <1>3. /\ undisturbed \in BOOLEAN /\ (undisturbed => check.undisturbed)
        /\ undisturbed => \A s \in ConfigKeys : config[s] = host[s]
    OBVIOUS
  <1>4. \A s \in ConfigKeys : config[s] \in held[s] \cup {Absent}
    <2>1. \A s \in ConfigKeys : host[s] \in held[s]
      BY <1>1, <1>2, SurfacesAssumption DEF Reads, AllSurfaces
    <2> QED BY <2>1
  <1> HIDE DEF config, undisturbed
  <1>5. /\ IsCheck(check') /\ check'.pc = "surfaces" /\ check'.config = config
        /\ check'.undisturbed = undisturbed /\ check'.items = check.items
        /\ check'.observed = check.observed /\ check'.sources = check.sources
        /\ check'.verdict = check.verdict
    BY <1>1, <1>2, <1>3 DEF IsCheck
  <1>6. DOMAIN check.observed = {}
    BY <1>1, <1>2 DEF Reads
  <1>7. Reads(check', host', held')
    BY <1>1, <1>2, <1>3, <1>4, <1>5, <1>6 DEF Reads
  <1>8. held' \in [AllSurfaces -> SUBSET Held]
    BY <1>1 DEF Inv, Planned
  <1> QED BY <1>1, <1>5, <1>7, <1>8, NoVerdict, CheckStep

\* ReadSurface: a value that the surface holds, or was read for the key before.
LEMMA ReadSurfaceInv ==
    ASSUME Inv, ReadSurface
    PROVE  Inv'
  <1>p. PICK s \in Paths(check.items) \ DOMAIN check.observed, readable \in BOOLEAN :
          /\ s \in ConfigKeys => readable
          /\ LET value == IF s \in ConfigKeys THEN check.config[s]
                          ELSE IF readable THEN host[s] ELSE Absent
             IN check' = [check EXCEPT
                   !.observed = [t \in DOMAIN @ \cup {s} |-> IF t = s THEN value ELSE @[t]],
                   !.undisturbed = @ /\ readable]
    BY DEF ReadSurface
  <1> DEFINE value == IF s \in ConfigKeys THEN check.config[s]
                      ELSE IF readable THEN host[s] ELSE Absent
             observed == [t \in DOMAIN check.observed \cup {s} |->
                             IF t = s THEN value ELSE check.observed[t]]
             undisturbed == check.undisturbed /\ readable
  <1>1. /\ check' = [check EXCEPT !.observed = observed, !.undisturbed = undisturbed]
        /\ UNCHANGED <<plans, host, writer, settled, held, edits>> /\ check.pc = "surfaces"
    BY <1>p DEF ReadSurface
  <1>2. IsCheck(check) /\ Reads(check, host, held) /\ check.items \in Seq(Item)
    BY DEF Inv, IsCheck
  <1>3. s \in Paths(check.items) /\ s \in AllSurfaces
    BY <1>p, <1>2, PathsAreSurfaces
  <1>4. /\ undisturbed \in BOOLEAN /\ (undisturbed => check.undisturbed /\ readable)
    OBVIOUS
  <1>5. value \in held[s] \cup {Absent} /\ (undisturbed => value = host[s])
    BY <1>1, <1>2, <1>3 DEF Reads
  <1> HIDE DEF value
  <1>6. /\ DOMAIN observed \subseteq Paths(check.items)
        /\ \A t \in DOMAIN observed : observed[t] \in held[t] \cup {Absent}
    BY <1>1, <1>2, <1>3, <1>5 DEF Reads
  <1>7. undisturbed => \A t \in DOMAIN observed : observed[t] = host[t]
    BY <1>1, <1>2, <1>4, <1>5 DEF Reads
  <1> HIDE DEF observed, undisturbed
  <1>8. /\ IsCheck(check') /\ check'.pc = "surfaces" /\ check'.config = check.config
        /\ check'.undisturbed = undisturbed /\ check'.items = check.items
        /\ check'.observed = observed /\ check'.sources = check.sources
        /\ check'.verdict = check.verdict
    BY <1>1, <1>2, <1>4 DEF IsCheck
  <1>9. Reads(check', host', held')
    BY <1>1, <1>2, <1>4, <1>6, <1>7, <1>8 DEF Reads
  <1>10. held' \in [AllSurfaces -> SUBSET Held]
    BY <1>1 DEF Inv, Planned
  <1> QED BY <1>1, <1>8, <1>9, <1>10, NoVerdict, CheckStep

\* Compare: what matches was there, and what is as the plan left it matches.
LEMMA CompareInv ==
    ASSUME Inv, Compare
    PROVE  Inv'
  <1> DEFINE items == check.items
             all == \A s \in Paths(items) : Matches(check.observed[s], Expected(items)[s])
             verdict == IF all THEN "matching" ELSE "drifted"
  <1>1. /\ check' = [check EXCEPT !.pc = "done", !.verdict = verdict]
        /\ UNCHANGED <<plans, host, writer, settled, held, edits>>
        /\ check.pc = "surfaces" /\ DOMAIN check.observed = Paths(items)
    BY DEF Compare
  <1>2. /\ IsCheck(check) /\ Reads(check, host, held) /\ items \in Seq(Item)
        /\ check.sources = <<>>
    BY <1>1 DEF Inv, IsCheck, Reads
  <1>3. \A s \in Paths(items) : Expected(items)[s] = items[Last(items, s)].content
    BY DEF Expected
  <1> HIDE DEF items, verdict
  <1>4. /\ IsCheck(check') /\ check'.pc = "done" /\ check'.verdict = verdict
        /\ check'.undisturbed = check.undisturbed /\ check'.items = items
        /\ check'.sources = <<>>
    BY <1>1, <1>2 DEF IsCheck, items
  <1>5. Reads(check', host', held')
    BY <1>4 DEF Reads
  <1>6. ASSUME verdict = "matching", NEW s \in Paths(items)
        PROVE  items[Last(items, s)].content \in held[s] \ {Absent}
    <2>1. Matches(check.observed[s], Expected(items)[s])
      BY <1>6 DEF verdict
    <2>2. check.observed[s] # Absent /\ check.observed[s] = items[Last(items, s)].content
      BY <1>3, <2>1 DEF Matches
    <2>3. check.observed[s] \in held[s] \cup {Absent}
      BY <1>1, <1>2 DEF Reads
    <2> QED BY <2>2, <2>3
  <1>7. MatchingWasTrue'
    BY <1>1, <1>4, <1>6 DEF MatchingWasTrue
  <1>8. ASSUME check.undisturbed, Complete(items)
        PROVE  verdict = "matching"
    <2>1. ASSUME NEW s \in Paths(items)
          PROVE  Matches(check.observed[s], Expected(items)[s])
      <3>1. Written(items, Len(items), host) /\ check.observed[s] = host[s]
        BY <1>1, <1>2, <1>8 DEF Reads, items
      <3>2. host[s] = items[Last(items, s)].content
        BY <1>2, <3>1, WrittenLast
      <3>3. items[Last(items, s)].content # Absent
        BY <1>2, <1>8, LastIs DEF Complete
      <3> QED BY <1>3, <3>1, <3>2, <3>3 DEF Matches
    <2> QED BY <2>1 DEF verdict
  <1>9. NoFalseDrift'
    BY <1>4, <1>8 DEF NoFalseDrift, Complete
  <1>10. held' \in [AllSurfaces -> SUBSET Held]
    BY <1>1 DEF Inv, Planned
  <1> QED BY <1>1, <1>4, <1>5, <1>7, <1>9, <1>10, CheckStep

\* LoadInventory: no source is verified yet.
LEMMA LoadInventoryInv ==
    ASSUME Inv, LoadInventory
    PROVE  Inv'
  <1>p. PICK sources \in Inventories :
          check' = [NoCheck EXCEPT !.pc = "sources", !.sources = sources]
    BY DEF LoadInventory
  <1>1. /\ held' = [s \in AllSurfaces |-> {host[s]}]
        /\ UNCHANGED <<plans, host, writer, settled, edits>>
        /\ sources \in Seq(Source)
    BY InventoriesAssumption DEF LoadInventory
  <1>2. /\ IsCheck(check') /\ check'.pc = "sources" /\ check'.items = <<>>
        /\ check'.undisturbed = FALSE /\ check'.sources = sources /\ check'.verified = <<>>
        /\ check'.verdict = "none"
    BY <1>p, <1>1, NoCheckIs DEF IsCheck
  <1>3. Reads(check', host', held')
    BY <1>1, <1>2, HeldBegins DEF Reads
  <1> QED BY <1>1, <1>2, <1>3, HeldBegins, NoVerdict, CheckStep

\* VerifySource: what is verified is gone.
LEMMA VerifySourceInv ==
    ASSUME Inv, VerifySource
    PROVE  Inv'
  <1> DEFINE source == check.sources[Len(check.verified) + 1]
             verified == Append(check.verified, Verified(source))
  <1>1. /\ UNCHANGED <<plans, host, writer, settled, edits>>
        /\ check.pc = "sources" /\ Len(check.verified) < Len(check.sources)
    BY DEF VerifySource
  <1>2. IsCheck(check) /\ Reads(check, host, held) /\ held \in [AllSurfaces -> SUBSET Held]
    BY DEF Inv, Planned
  <1>3. CASE check' = [check EXCEPT !.verified = verified] /\ held' = held
    <2>1. /\ check.verified \in Seq(BOOLEAN) /\ check.sources \in Seq(Source)
          /\ Len(check.verified) \in Nat /\ Len(check.sources) \in Nat
      BY <1>2 DEF IsCheck
    <2>2. source \in Source
      BY <1>1, <2>1
    <2>3. Verified(source) \in BOOLEAN
      BY DEF Verified
    <2>4. Verified(source) => Gone(source, held)
      <3>1. source.surface \in AllSurfaces
        BY <2>2 DEF Source, AllSurfaces
      <3>2. host[source.surface] \in held[source.surface]
        BY <1>1, <1>2, <3>1 DEF Reads
      <3> HIDE DEF source
      <3> QED BY <3>2 DEF Verified, Gone, ReadLocal
    <2>5. /\ verified \in Seq(BOOLEAN) /\ Len(verified) = Len(check.verified) + 1
          /\ \A i \in 1 .. Len(check.verified) : verified[i] = check.verified[i]
          /\ verified[Len(check.verified) + 1] = Verified(source)
          /\ DOMAIN verified = 1 .. Len(check.verified) + 1
          /\ DOMAIN check.verified = 1 .. Len(check.verified)
      <3> DEFINE v == Verified(source)
      <3>1. v \in BOOLEAN
        BY <2>3
      <3> HIDE DEF v
      <3>2. /\ Append(check.verified, v) \in Seq(BOOLEAN)
            /\ Len(Append(check.verified, v)) = Len(check.verified) + 1
            /\ \A i \in 1 .. Len(check.verified) :
                  Append(check.verified, v)[i] = check.verified[i]
            /\ Append(check.verified, v)[Len(check.verified) + 1] = v
            /\ DOMAIN Append(check.verified, v) = 1 .. Len(check.verified) + 1
            /\ DOMAIN check.verified = 1 .. Len(check.verified)
        BY <2>1, <3>1
      <3> QED BY <3>2 DEF v
    <2> HIDE DEF verified
    <2>6. /\ IsCheck(check') /\ check'.pc = "sources" /\ check'.items = check.items
          /\ check'.undisturbed = check.undisturbed /\ check'.sources = check.sources
          /\ check'.verified = verified /\ check'.verdict = check.verdict
      BY <1>1, <1>2, <1>3, <2>5 DEF IsCheck
    <2>7. \A i \in DOMAIN verified : verified[i] => Gone(check.sources[i], held)
      <3>1. \A i \in DOMAIN check.verified :
               check.verified[i] => Gone(check.sources[i], held)
        BY <1>1, <1>2 DEF Reads
      <3> QED BY <2>1, <2>4, <2>5, <3>1
    <2>8. Reads(check', host', held')
      BY <1>1, <1>2, <1>3, <2>1, <2>5, <2>6, <2>7 DEF Reads
    <2> QED BY <1>1, <1>2, <1>3, <2>6, <2>8, NoVerdict, CheckStep
  <1>4. CASE check' = NoCheck /\ held' = NothingHeld
    <2>1. held' \in [AllSurfaces -> SUBSET Held]
      BY <1>4 DEF NothingHeld
    <2> QED BY <1>1, <1>4, <2>1, NoCheckInv, CheckStep
  <1> HIDE DEF verified
  <1> QED BY <1>3, <1>4 DEF VerifySource, verified

\* Conclude: the cutover matches when every source was verified.
LEMMA ConcludeInv ==
    ASSUME Inv, Conclude
    PROVE  Inv'
  <1> DEFINE all == \A i \in DOMAIN check.verified : check.verified[i]
             verdict == IF all THEN "matching" ELSE "drifted"
  <1>1. /\ check' = [check EXCEPT !.pc = "done", !.verdict = verdict]
        /\ UNCHANGED <<plans, host, writer, settled, held, edits>>
        /\ check.pc = "sources" /\ Len(check.verified) = Len(check.sources)
    BY DEF Conclude
  <1>2. IsCheck(check) /\ Reads(check, host, held)
    BY DEF Inv
  <1> HIDE DEF verdict
  <1>3. /\ IsCheck(check') /\ check'.pc = "done" /\ check'.verdict = verdict
        /\ check'.undisturbed = check.undisturbed /\ check'.items = check.items
        /\ check'.sources = check.sources
    BY <1>1, <1>2 DEF IsCheck
  <1>4. Reads(check', host', held')
    BY <1>3 DEF Reads
  <1>5. check.items = <<>> /\ ~check.undisturbed
    BY <1>1, <1>2 DEF Reads
  <1>6. ASSUME verdict = "matching", NEW i \in DOMAIN check.sources
        PROVE  Gone(check.sources[i], held)
    <2>1. DOMAIN check.sources = DOMAIN check.verified
      BY <1>1, <1>2 DEF IsCheck
    <2> QED BY <1>1, <1>2, <1>6, <2>1 DEF Reads, verdict
  <1>7. MatchingWasTrue'
    <2>1. Paths(check.items) = {}
      BY <1>5 DEF Paths
    <2> QED BY <1>1, <1>3, <1>6, <2>1 DEF MatchingWasTrue, Gone
  <1>8. NoFalseDrift'
    BY <1>3, <1>5 DEF NoFalseDrift
  <1>9. held' \in [AllSurfaces -> SUBSET Held]
    BY <1>1 DEF Inv, Planned
  <1> QED BY <1>1, <1>3, <1>4, <1>7, <1>8, <1>9, CheckStep

-----------------------------------------------------------------------------
\* At first there is no plan, nothing on the host, and no check.
LEMMA InitInv ==
    Init => Inv
  <1> SUFFICES ASSUME Init
               PROVE  Inv
    OBVIOUS
  <1>1. /\ plans = <<>> /\ host \in [AllSurfaces -> {Absent}]
        /\ writer = [plan |-> 0, next |-> 1, clean |-> FALSE] /\ settled = 0
        /\ check = NoCheck /\ held = NothingHeld /\ edits = 0
    BY DEF Init
  <1>2. Planned
    <2>1. plans \in Seq(Seq(Item)) /\ DOMAIN plans = {}
      BY <1>1
    <2>2. held \in [AllSurfaces -> SUBSET Held]
      BY <1>1 DEF NothingHeld
    <2>3. host \in [AllSurfaces -> Held]
      BY <1>1 DEF Held
    <2> QED BY <1>1, <2>1, <2>2, <2>3 DEF Planned
  <1>3. InOrder
    <2>1. Len(plans) = 0
      BY <1>1
    <2> QED BY <1>1, <2>1 DEF InOrder
  <1>4. IsCheck(check) /\ check.pc = "idle" /\ check.verdict = "none"
    BY <1>1, NoCheckIs
  <1>5. Reads(check, host, held) /\ MatchingWasTrue /\ NoFalseDrift
    BY <1>4 DEF Reads, MatchingWasTrue, NoFalseDrift
  <1> QED BY <1>2, <1>3, <1>4, <1>5 DEF Inv

\* Every step keeps the invariant.
LEMMA StepInv ==
    Inv /\ [Next]_vars => Inv'
  <1> SUFFICES ASSUME Inv, [Next]_vars
               PROVE  Inv'
    OBVIOUS
  <1>1. CASE UNCHANGED vars
    <2>1. UNCHANGED <<plans, host, writer, settled, check, held, edits>>
      BY <1>1 DEF vars
    <2>2. Planned' /\ InOrder' /\ MatchingWasTrue' /\ NoFalseDrift'
      BY <2>1 DEF Inv, Planned, InOrder, MatchingWasTrue, NoFalseDrift
    <2>3. IsCheck(check') /\ Reads(check', host', held')
      BY <2>1 DEF Inv
    <2> QED BY <2>2, <2>3 DEF Inv
  <1>2. CASE Next
    BY <1>2, PlanInv, StartWritingInv, WriteItemInv, EditInv, LoadPlanInv, ReadConfigInv,
       ReadSurfaceInv, CompareInv, LoadInventoryInv, VerifySourceInv, ConcludeInv DEF Next
  <1> QED BY <1>1, <1>2

\* So it always holds.
LEMMA SpecInv ==
    Spec => []Inv
  BY InitInv, StepInv, PTL DEF Spec

\* "matching" is never made up: of each surface of the plan, and of each legacy
\* source that is a file, it was true at some moment of the check; configuration
\* keys are exempt, and a path that is not expanded counts as a file that is gone
\* (engine/conformance.py check_conformance, engine/legacy.py verify_cutover).
THEOREM MatchingHolds ==
    Spec => []MatchingWasTrue
  <1>1. Inv => MatchingWasTrue
    BY DEF Inv
  <1> QED BY <1>1, SpecInv, PTL

\* A plan that the host wrote in order and nobody disturbed never shows a drift,
\* whichever surfaces it names twice (engine/conformance.py
\* _extract_expected_surfaces, _compare_surfaces).
THEOREM DriftHasCause ==
    Spec => []NoFalseDrift
  <1>1. Inv => NoFalseDrift
    BY DEF Inv
  <1> QED BY <1>1, SpecInv, PTL

\* What the host writes for a plan lies in the owned surfaces, as a plan with one
\* item that does not is never saved (engine/planner.py _validate_all_patches).
THEOREM WritesOwned ==
    Spec => OwnedWrites
  <1> DEFINE Owns == writer' # writer =>
                \A s \in AllSurfaces \ Owned : host'[s] = host[s] \/ edits' # edits
  <1>1. ASSUME Inv, [Next]_vars
        PROVE  [Owns]_vars
    <2> SUFFICES ASSUME Next, writer' # writer, NEW s \in AllSurfaces \ Owned
                 PROVE  host'[s] = host[s] \/ edits' # edits
      BY <1>1
    <2>1. CASE StartWriting
      BY <2>1 DEF StartWriting
    <2>2. CASE WriteItem
      <3> DEFINE items == plans[writer.plan]
                 item == items[writer.next]
      <3>1. /\ writer.plan # 0
            /\ IF item.content = Absent THEN UNCHANGED <<host, held, check>>
               ELSE Write(item.surface, item.content)
        BY <2>2 DEF WriteItem
      <3>2. /\ writer.plan \in DOMAIN plans /\ writer.next \in DOMAIN items
            /\ host \in [AllSurfaces -> Held]
        BY <1>1, <3>1 DEF Inv, Planned, InOrder
      <3>3. item.surface \in Owned
        <4>1. AllOwned(items)
          BY <1>1, <3>2 DEF Inv, Planned
        <4> QED BY <3>2, <4>1 DEF AllOwned, ValidTarget
      <3> HIDE DEF item
      <3> QED BY <3>1, <3>2, <3>3 DEF Write
    <2>3. CASE Edit
      <3>1. edits \in Nat /\ edits' = edits + 1
        BY <1>1, <2>3 DEF Inv, Planned, Edit
      <3> QED BY <3>1
    <2>4. CASE ~(StartWriting \/ WriteItem \/ Edit)
      BY <2>4 DEF Next, Plan, LoadPlan, ReadConfig, ReadSurface, Compare, LoadInventory,
                  VerifySource, Conclude
    <2> QED BY <2>1, <2>2, <2>3, <2>4
  <1> QED BY <1>1, SpecInv, PTL DEF Spec, OwnedWrites


=============================================================================

------------------------------ MODULE HostPlan ------------------------------
(***************************************************************************)
(* What RunLifecycle leaves to an arbitrary outcome: the contents of apply *)
(* plans and of the host's surfaces.  "apply plan" turns the artifacts of  *)
(* an adapter into patch items, validates them against the ownership       *)
(* manifest and saves them; the host writes the items of a plan in order;  *)
(* "conformance check" reads the latest plan, then the surfaces one after  *)
(* another, and compares; "legacy verify" reads the sources of a migrated  *)
(* flow one after another and asks whether they are gone.  Nothing locks   *)
(* the host against its operator, who edits surfaces meanwhile, or the     *)
(* store against a further plan.                                           *)
(***************************************************************************)
EXTENDS Naturals, Sequences

CONSTANTS
    Surfaces,       \* the surface paths that artifacts name
    ConfigKeys,     \* those of them that are keys of openclaw.json
    Owned,          \* surfaces that match a pattern of owned_surfaces
    Ambiguous,      \* empty selectors and bare wildcards
    Contents,
    Absent,         \* None: no content, no such surface
    Disabled,       \* the content "__disabled__"
    Inventories,    \* lists of legacy sources, with the status each should have
    ArtifactLists,  \* what generate_artifacts may return, one list each time
    MaxArtifacts,   \* the length of the longest of them
    MaxPlans,       \* bound on the plans of a run
    MaxEdits        \* bound on the operator's edits

\* The path of an artifact that names none: runs/<id>/artifact_<i>.
Synthesised(i) == <<"runs", i>>
AllSurfaces == Surfaces \cup {Synthesised(i) : i \in 1 .. MaxArtifacts}

ASSUME SurfacesAssumption == ConfigKeys \cup Ambiguous \subseteq Surfaces
ASSUME OwnedAssumption == Owned \subseteq AllSurfaces
ASSUME ContentsAssumption == Absent \notin Contents \cup Surfaces
ASSUME BoundsAssumption == MaxArtifacts \in Nat /\ MaxPlans \in Nat /\ MaxEdits \in Nat

\* Absent stands for a key that the artifact does not have: no surface_path, or
\* neither content nor value.
Artifact == [surface : Surfaces \cup {Absent}, content : Contents \cup {Absent}]

\* A source of a legacy inventory, known by its config_key or its path.
Source == [surface : Surfaces, expect : {"removed", "disabled", "shadowed_unreachable"}]

ASSUME InventoriesAssumption == Inventories \subseteq Seq(Source)
ASSUME ListsAssumption ==
    \A list \in ArtifactLists : \E n \in 0 .. MaxArtifacts : list \in [1 .. n -> Artifact]

VARIABLES
    plans,      \* the patch items of the plans saved, oldest first
    host,       \* the content of each surface
    writer,     \* the host: which item of which plan it writes next, and whether
                \* it has written that plan from the start and undisturbed
    settled,    \* history: the plan the host holds exactly as written, 0: none
    check,      \* the check or the verification: its local variables
    held,       \* history: what each surface has held during the check
    edits

vars == <<plans, host, writer, settled, check, held, edits>>

NoCheck == [pc |-> "idle", items |-> <<>>, config |-> <<>>, observed |-> <<>>,
            undisturbed |-> FALSE, sources |-> <<>>, verified |-> <<>>, verdict |-> "none"]
NothingHeld == [s \in AllSurfaces |-> {}]

Init ==
    /\ plans = <<>>
    /\ host \in [AllSurfaces -> {Absent}]
    /\ writer = [plan |-> 0, next |-> 1, clean |-> FALSE]
    /\ settled = 0
    /\ check = NoCheck
    /\ held = NothingHeld
    /\ edits = 0

-----------------------------------------------------------------------------
(* apply plan.                                                             *)

\* _derive_patch_items.
PatchItems(artifacts) ==
    [i \in DOMAIN artifacts |->
        IF artifacts[i].surface = Absent
        THEN [artifacts[i] EXCEPT !.surface = Synthesised(i)] ELSE artifacts[i]]

\* validate_patch_target.
ValidTarget(s) == s \notin Ambiguous /\ s \in Owned

\* Mutant of AllOwned: only the first item is validated.
FirstOwned(items) == \A i \in DOMAIN items : i = 1 => ValidTarget(items[i].surface)

\* _validate_all_patches.
AllOwned(items) == \A i \in DOMAIN items : ValidTarget(items[i].surface)

\* generate_apply_plan and save_apply_plan.  One item that is not owned, or
\* ambiguous, refuses the plan, and nothing is saved.
Plan ==
    /\ Len(plans) < MaxPlans
    /\ \E artifacts \in ArtifactLists :
          LET items == PatchItems(artifacts)
          IN AllOwned(items) /\ plans' = Append(plans, items)
    /\ UNCHANGED <<host, writer, settled, check, held, edits>>

-----------------------------------------------------------------------------
(* The host, outside this repository.                                      *)

\* A surface changes under a check that may be running; one that is over, and
\* its history, are forgotten.
Write(s, content) ==
    /\ host' = [host EXCEPT ![s] = content]
    /\ IF check.pc \in {"idle", "done"}
       THEN check' = NoCheck /\ held' = NothingHeld
       ELSE /\ check' = [check EXCEPT !.undisturbed = FALSE]
            /\ held' = [held EXCEPT ![s] = @ \cup {content}]

\* The host takes up a plan, the latest or an older one that it was given
\* before, from its first item.
StartWriting ==
    /\ \E k \in DOMAIN plans :
          /\ plans[k] # <<>>
          /\ writer' = [plan |-> k, next |-> 1, clean |-> TRUE]
    /\ UNCHANGED <<plans, host, settled, check, held, edits>>

\* An item without content leaves nothing to write.
WriteItem ==
    /\ writer.plan # 0
    /\ LET items == plans[writer.plan]
           item  == items[writer.next]
           last  == writer.next = Len(items)
       IN /\ IF item.content = Absent THEN UNCHANGED <<host, held, check>>
             ELSE Write(item.surface, item.content)
          /\ writer' = IF last THEN [plan |-> 0, next |-> 1, clean |-> FALSE]
                       ELSE [writer EXCEPT !.next = @ + 1]
          /\ settled' = IF last /\ writer.clean THEN writer.plan ELSE 0
    /\ UNCHANGED <<plans, edits>>

\* The operator edits or removes a surface.
Edit ==
    /\ edits < MaxEdits /\ edits' = edits + 1
    /\ \E s \in AllSurfaces, content \in Contents \cup {Absent} :
          content # host[s] /\ Write(s, content)
    /\ settled' = 0
    /\ writer' = [writer EXCEPT !.clean = FALSE]
    /\ UNCHANGED plans

-----------------------------------------------------------------------------
(* conformance check.                                                      *)

Paths(items) == {items[i].surface : i \in DOMAIN items}
Indices(items, s) == {i \in DOMAIN items : items[i].surface = s}
First(items, s) == CHOOSE i \in Indices(items, s) : \A j \in Indices(items, s) : i <= j
Last(items, s) == CHOOSE i \in Indices(items, s) : \A j \in Indices(items, s) : i >= j

\* Mutant of Expected: of two items for one surface the first counts.
ExpectedFirst(items) == [s \in Paths(items) |-> items[First(items, s)].content]

\* _extract_expected_surfaces: of two items for one surface the last counts.
Expected(items) == [s \in Paths(items) |-> items[Last(items, s)].content]

\* get_apply_plan: the plan saved last.
LatestPlan == IF plans = <<>> THEN <<>> ELSE plans[Len(plans)]

\* check_conformance loads the latest plan, or an empty one.
LoadPlan ==
    /\ check.pc \in {"idle", "done"}
    /\ check' = [NoCheck EXCEPT !.pc = "config", !.items = LatestPlan,
                    !.undisturbed = settled = Len(plans) /\ LatestPlan # <<>>]
    /\ held' = [s \in AllSurfaces |-> {host[s]}]
    /\ UNCHANGED <<plans, host, writer, settled, edits>>

\* read_host_state reads openclaw.json once; if that fails, or the file is not
\* an object, every key counts as missing.
ReadConfig ==
    /\ check.pc = "config"
    /\ \E readable \in BOOLEAN :
          check' = [check EXCEPT
              !.pc = "surfaces",
              !.config = [s \in ConfigKeys |-> IF readable THEN host[s] ELSE Absent],
              !.undisturbed = @ /\ readable]
    /\ UNCHANGED <<plans, host, writer, settled, held, edits>>

\* The next surface of the expected ones, in the order in which they came.
\* A key is looked up in what was read before; a file is read now, and one that
\* cannot be read counts as missing.
ReadSurface ==
    /\ check.pc = "surfaces"
    /\ \E s \in Paths(check.items) \ DOMAIN check.observed :
          /\ \A t \in Paths(check.items) \ DOMAIN check.observed :
                First(check.items, s) <= First(check.items, t)
          /\ \E readable \in BOOLEAN :
                /\ s \in ConfigKeys => readable
                /\ LET value == IF s \in ConfigKeys THEN check.config[s]
                                ELSE IF readable THEN host[s] ELSE Absent
                   IN check' = [check EXCEPT
                         !.observed = [t \in DOMAIN @ \cup {s} |-> IF t = s THEN value ELSE @[t]],
                         !.undisturbed = @ /\ readable]
    /\ UNCHANGED <<plans, host, writer, settled, held, edits>>

\* Mutant of Matches: a surface that is not there is passed over.
MatchesIfThere(observed, expected) == observed \in {Absent, expected}

\* _compare_surfaces for one surface: one that is not there has drifted, also
\* where nothing was expected.
Matches(observed, expected) == observed # Absent /\ observed = expected

\* _aggregate_status; an empty plan matches.
Compare ==
    /\ check.pc = "surfaces" /\ DOMAIN check.observed = Paths(check.items)
    /\ check' = [check EXCEPT !.pc = "done", !.verdict =
          IF \A s \in Paths(check.items) :
                Matches(check.observed[s], Expected(check.items)[s])
          THEN "matching" ELSE "drifted"]
    /\ UNCHANGED <<plans, host, writer, settled, held, edits>>

-----------------------------------------------------------------------------
(* legacy verify, which reads the host with LocalCliAdapter.               *)

\* build_inventory.
LoadInventory ==
    /\ check.pc \in {"idle", "done"}
    /\ \E sources \in Inventories :
          check' = [NoCheck EXCEPT !.pc = "sources", !.sources = sources]
    /\ held' = [s \in AllSurfaces |-> {host[s]}]
    /\ UNCHANGED <<plans, host, writer, settled, edits>>

\* LocalCliAdapter.read_host_state takes a configuration key for a file name,
\* too, and finds no such file.
ReadLocal(s) == IF s \in ConfigKeys THEN Absent ELSE host[s]

\* Mutant of Verified: a shadowed source is taken for one that is removed.
VerifiedGone(source) ==
    IF source.expect = "disabled" THEN ReadLocal(source.surface) \in {Absent, Disabled}
    ELSE ReadLocal(source.surface) = Absent

\* _verify_source.  No adapter has the reachability tests that a shadowed source
\* needs, so it is never verified.
Verified(source) ==
    \/ source.expect = "removed" /\ ReadLocal(source.surface) = Absent
    \/ source.expect = "disabled" /\ ReadLocal(source.surface) \in {Absent, Disabled}

\* verify_cutover for the next source.  A file that is there but cannot be read
\* raises, and there is no verdict.
VerifySource ==
    /\ check.pc = "sources" /\ Len(check.verified) < Len(check.sources)
    /\ LET source == check.sources[Len(check.verified) + 1]
       IN \/ /\ check' = [check EXCEPT !.verified = Append(@, Verified(source))]
             /\ held' = held
          \/ /\ source.expect # "shadowed_unreachable" /\ ReadLocal(source.surface) # Absent
             /\ check' = NoCheck /\ held' = NothingHeld
    /\ UNCHANGED <<plans, host, writer, settled, edits>>

\* The cutover matches when no source failed.
Conclude ==
    /\ check.pc = "sources" /\ Len(check.verified) = Len(check.sources)
    /\ check' = [check EXCEPT !.pc = "done", !.verdict =
          IF \A i \in DOMAIN check.verified : check.verified[i] THEN "matching" ELSE "drifted"]
    /\ UNCHANGED <<plans, host, writer, settled, held, edits>>

Next ==
    \/ Plan
    \/ StartWriting \/ WriteItem \/ Edit
    \/ LoadPlan \/ ReadConfig \/ ReadSurface \/ Compare
    \/ LoadInventory \/ VerifySource \/ Conclude

Spec == Init /\ [][Next]_vars

-----------------------------------------------------------------------------
\* A verdict "matching" is never made up.  Of a check: each surface of the plan
\* that was the latest held its last planned content at some moment of the check,
\* not all at one moment, as they are read one by one (engine/conformance.py
\* check_conformance over read_host_state).  Of a verification: each legacy file
\* was gone, or disabled where that will do, at some moment of it, and none was
\* only said to be shadowed (engine/legacy.py verify_cutover).  It says nothing of
\* configuration keys, which LocalCliAdapter does not look at.
MatchingWasTrue ==
    check.verdict = "matching" =>
        /\ \A s \in Paths(check.items) :
              LET item == check.items[Last(check.items, s)]
              IN item.content \in held[s] \ {Absent}
        /\ \A i \in DOMAIN check.sources :
              LET source == check.sources[i]
              IN /\ source.expect # "shadowed_unreachable"
                 /\ source.surface \notin ConfigKeys =>
                       \/ Absent \in held[source.surface]
                       \/ source.expect = "disabled" /\ Disabled \in held[source.surface]

\* No drift without a cause: when the host has written the latest plan in order,
\* every item with a content, and nobody touched the surfaces then or during the
\* check, and they could be read, the verdict is not "drifted", whichever
\* surfaces the plan names twice (engine/conformance.py _extract_expected_surfaces).
NoFalseDrift ==
    /\ check.pc = "done" /\ check.undisturbed
    /\ \A i \in DOMAIN check.items : check.items[i].content # Absent
    => check.verdict = "matching"

\* The host, doing what the plans say, changes owned surfaces only, also with a
\* plan of which a later item is not owned (engine/planner.py
\* _validate_all_patches).
OwnedWrites ==
    [][writer' # writer => \A s \in AllSurfaces \ Owned : host'[s] = host[s] \/ edits' # edits]_vars

=============================================================================

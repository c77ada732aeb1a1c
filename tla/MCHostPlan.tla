----------------------------- MODULE MCHostPlan -----------------------------
(* An instance of HostPlan for TLC: an owned file, an owned key and a file   *)
(* that is not owned; an artifact without a path is owned in second place.   *)
(* Legacy sources are the same surfaces; x disables one.                     *)
EXTENDS HostPlan

CONSTANTS file, key, foreign, star, x, y

Item(s, c) == [surface |-> s, content |-> c]

OwnedHere == {file, key, star, Synthesised(2)}
Lists == {<<>>,
          <<Item(file, x), Item(key, y)>>,
          <<Item(key, x), Item(file, Absent)>>,
          <<Item(file, x), Item(file, y), Item(key, x)>>,
          <<Item(key, y), Item(Absent, x)>>,
          <<Item(Absent, x)>>,
          <<Item(file, y), Item(foreign, y)>>,
          <<Item(star, x)>>}

Legacy(s, e) == [surface |-> s, expect |-> e]
Flows == {<<Legacy(file, "removed"), Legacy(foreign, "disabled")>>,
          <<Legacy(key, "disabled"), Legacy(file, "shadowed_unreachable")>>}

=============================================================================

---------------------------- MODULE MCSpecGraph ----------------------------
(* An instance of SpecGraph for TLC: three files of wrappers and one of a   *)
(* policy; the wrappers may depend on two others and on a policy.           *)
EXTENDS SpecGraph, TLC

ThreeAndOne == [wrappers |-> 3, policies |-> 1]
Symmetric == Permutations(Names)

=============================================================================

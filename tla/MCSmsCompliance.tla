-------------------------- MODULE MCSmsCompliance --------------------------
(* An instance of SmsCompliance for TLC: two workers, and two tenants       *)
(* with one phone.                                                          *)
EXTENDS SmsCompliance, TLC

CONSTANTS v, w

TwoWorkers == {v, w}
Alike == Permutations(TwoWorkers)

=============================================================================

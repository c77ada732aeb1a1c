--------------------------- MODULE MCOutboundGate ---------------------------
(* An instance of OutboundGate for TLC: a key for a group or for a list of  *)
(* the group and a phone, a recipient_ref, a limited channel with a guarded *)
(* handler and another one for groups, one that answers its errors, one     *)
(* without a handler, and files that allow all or cannot be read.           *)
EXTENDS OutboundGate

CONSTANTS k, ref, a, b

Found == [key \in {ref} |-> {b}]

Good == [targets |-> [key \in {k, ref} |-> IF key = k THEN <<a, b>> ELSE <<>>],
         policy |-> {k, ref} \X Channels, gateway |-> Channels \X {a, b}]

GoodOrBroken ==
    {Good,
     [Good EXCEPT !.targets[k] = <<a>>],
     [Good EXCEPT !.targets = Unreadable],
     [Good EXCEPT !.policy = Unreadable],
     [Good EXCEPT !.gateway = {}]}

=============================================================================

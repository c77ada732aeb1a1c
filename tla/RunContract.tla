---------------------------- MODULE RunContract ----------------------------
(* What clawwrap promises to whoever reads the run store: the rows of a run *)
(* are facts, and a fact or a status is committed only on top of the facts  *)
(* it rests on.  Some facts may be withdrawn again, an approval when the    *)
(* inputs change; what was built on one stays, but nothing more is built on *)
(* it until it is committed anew.  The contract does not promise that the   *)
(* status moves forward: two operations that overlap may put it back.       *)

CONSTANTS
    Runs,
    Statuses,
    Facts,
    Revocable,  \* the facts that may be withdrawn
    Basis,      \* facts that a fact or a status rests on
    First       \* the status of a run that does not exist yet

VARIABLES
    status,
    facts,
    withdrawn   \* facts that were withdrawn and not committed anew

vars == <<status, facts, withdrawn>>

Init ==
    /\ status = [r \in Runs |-> First]
    /\ facts = [r \in Runs |-> {}]
    /\ withdrawn = [r \in Runs |-> {}]

Commit(r, f) ==
    /\ Basis[f] \subseteq facts[r]
    /\ facts' = [facts EXCEPT ![r] = @ \cup {f}]
    /\ withdrawn' = [withdrawn EXCEPT ![r] = @ \ {f}]
    /\ UNCHANGED status

Withdraw(r, f) ==
    /\ f \in facts[r]
    /\ facts' = [facts EXCEPT ![r] = @ \ {f}]
    /\ withdrawn' = [withdrawn EXCEPT ![r] = @ \cup {f}]
    /\ UNCHANGED status

Move(r, s) ==
    /\ Basis[s] \subseteq facts[r]
    /\ status' = [status EXCEPT ![r] = s]
    /\ UNCHANGED <<facts, withdrawn>>

Next == \E r \in Runs :
    \/ \E f \in Facts : Commit(r, f)
    \/ \E f \in Revocable : Withdraw(r, f)
    \/ \E s \in Statuses : Move(r, s)

Spec == Init /\ [][Next]_vars

\* The whole chain is on record: whatever a fact or the status of a run rests
\* on is there, or was there and has been withdrawn (store/postgres.py).
Grounded == \A r \in Runs : \A x \in facts[r] \cup {status[r]} :
    Basis[x] \subseteq facts[r] \cup withdrawn[r]

=============================================================================

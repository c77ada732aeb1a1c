---------------------------- MODULE MCRateLimit ----------------------------
(* An instance of RateLimit for TLC.  Two kinds of send share a lockfile    *)
(* under limits of their own (imessage and bluebubbles do, and so do sends  *)
(* before and after an edit of org.yaml); one of them is a group send,      *)
(* which meets the guard of dm.send_text behind that of outbound.submit;    *)
(* and dm.send_text is called directly as well.                             *)
EXTENDS RateLimit, TLC

Limits(f, limit, interval, jitterMin, jitterMax) ==
    [file |-> f, limit |-> limit, interval |-> interval,
     jitterMin |-> jitterMin, jitterMax |-> jitterMax]

SharedGuards ==
    [dm |-> <<Limits("whatsapp", 1, 2, 0, 1)>>,
     group |-> <<Limits("whatsapp", 2, 1, 0, 0), Limits("wa", 1, 2, 0, 0)>>,
     direct |-> <<Limits("wa", 1, 2, 0, 0)>>]

ProcSymmetry == Permutations(Procs)

=============================================================================

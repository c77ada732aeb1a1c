-------------------------- MODULE MCRateLimitSends --------------------------
(* An instance of RateLimitSends for TLC: one channel with one guard, two   *)
(* sends a day, an interval of two ticks, and a delay that varies by one.   *)
EXTENDS RateLimitSends

Jittered == [dm |-> <<[file |-> "whatsapp", limit |-> 2, interval |-> 2,
                       jitterMin |-> 0, jitterMax |-> 1]>>]

=============================================================================

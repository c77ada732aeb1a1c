--------------------------- MODULE RateLimitSends ---------------------------
(***************************************************************************)
(* RateLimit with the messages that really go out.  The head of            *)
(* engine/rate_limit.py speaks of sends, where check_and_record knows only *)
(* the records that it has written some time before; here what the file    *)
(* says of sends can be compared with what the guards let happen.          *)
(***************************************************************************)
EXTENDS RateLimit

CONSTANT MaxSends   \* bound on the messages that go out

VARIABLE sends      \* history: the guard and the moment of each message, in order

\* The message of a dry run does not go out.  Where several guards were passed,
\* the last of them is the one the send is counted for.
SendNow(p) ==
    /\ Len(sends) < MaxSends
    /\ Dispatch(p)
    /\ sends' = IF job[p].dry THEN sends ELSE Append(sends, [guard |-> Guard(p), at |-> now])

InitSends == Init /\ sends = <<>>

NextSends ==
    \/ Tick /\ UNCHANGED sends
    \/ \E p \in Procs : (CheckStep(p) /\ UNCHANGED sends) \/ SendNow(p)

SpecSends == InitSends /\ [][NextSends]_<<vars, sends>>

-----------------------------------------------------------------------------
(* What the source says and the code does not do.                          *)

\* Two messages that pass guards of one lockfile are the interval apart.
SendSpacing == \A i, k \in DOMAIN sends :
    i < k /\ sends[i].guard.file = sends[k].guard.file =>
        sends[k].at - sends[i].at >= sends[k].guard.interval

\* No more messages go out in a day than the guard allows that let the last of
\* them pass.
DailySends == \A i \in DOMAIN sends :
    Cardinality({k \in 1 .. i : /\ sends[k].guard.file = sends[i].guard.file
                                /\ Day(sends[k].at) = Day(sends[i].at)})
        <= sends[i].guard.limit

\* "Enforces safe sending behaviour [...]: Minimum 60-second interval between
\* sends (to same or any recipient), Daily send limit, [...] Persistent lockfile
\* tracks state across process restarts" (engine/rate_limit.py:3): what goes out
\* keeps the interval and the daily limit, whichever processes send, die and
\* come back.
SafeSending == SendSpacing /\ DailySends

=============================================================================

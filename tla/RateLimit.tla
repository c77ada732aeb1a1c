----------------------------- MODULE RateLimit -----------------------------
(***************************************************************************)
(* The rate-limit guard of the outbound gate: RateLimitGuard and the       *)
(* lockfiles it keeps under ~/.clawwrap.  A send passes the guards of its  *)
(* channel one after the other: outbound.submit has one for whatsapp,      *)
(* bluebubbles and imessage (the last two share a lockfile), and           *)
(* dm.send_text, which sends to whatsapp groups, one of its own.           *)
(*                                                                         *)
(* check_and_record reads the lockfile, then the date, then the clock,     *)
(* decides, and writes the lockfile with write_text, which truncates the   *)
(* file before it fills it.  There is no lock around it, so other          *)
(* processes run, and the clock ticks, between any two of these steps, and *)
(* a process can die after each.  A missing, empty or half-written file is *)
(* read as {}.                                                             *)
(***************************************************************************)
EXTENDS Integers, Sequences, FiniteSets

CONSTANTS
    Procs,          \* processes of the host that send
    Channels,       \* kinds of send, by the guards they pass
    Guards,         \* [Channels -> Seq of guards], in the order they are passed
    DryRuns,        \* channels whose sender may only try the guard (dry_run)
    DayLength,      \* ticks of the clock in a calendar day
    MaxTime,        \* bound on the clock
    Lateness,       \* ticks by which a write or the end of a sleep may be late
    MaxAdmissions   \* bound on the sends recorded in a lockfile

\* A guard: its lockfile, max_per_day, min_interval, jitter_min and jitter_max.
GuardType == [file : STRING, limit : Nat, interval : Nat, jitterMin : Nat, jitterMax : Nat]

ASSUME ChannelsAssumption == Channels # {}
ASSUME GuardsAssumption ==
    /\ Guards \in [Channels -> Seq(GuardType)]
    /\ \A c \in Channels :
        /\ Guards[c] # <<>>
        /\ \A i \in DOMAIN Guards[c] : Guards[c][i].jitterMin <= Guards[c][i].jitterMax
ASSUME DryRunsAssumption == DryRuns \subseteq Channels
ASSUME ClockAssumption ==
    {DayLength, MaxTime} \subseteq Nat \ {0} /\ {Lateness, MaxAdmissions} \subseteq Nat

GuardSet == UNION {{Guards[c][i] : i \in DOMAIN Guards[c]} : c \in Channels}
Files == {g.file : g \in GuardSet}

VARIABLES
    now,        \* the clock, time.time()
    lockfile,   \* what _load makes of each lockfile
    job,        \* what each process is doing, its local variables
    lost,       \* history: lockfiles of which a record was lost
    admitted    \* history: the sends recorded in each lockfile, in order, as
                \*   long as none of its records was lost

vars == <<now, lockfile, job, lost, admitted>>

Day(t) == t \div DayLength
Days == 0 .. Day(MaxTime)
Times == 0 .. MaxTime

\* {"last_send_ts", "count_today", "date"} of a lockfile; Blank is {}.
State == [last : Times, count : Nat, date : Days \cup {-1}]
Blank == [last |-> 0, count |-> 0, date |-> -1]

Steps == {"idle", "load", "date", "clock", "truncate", "write", "sleep", "refused"}

Job == [pc : Steps,             \* the next step
        channel : Channels,
        dry : BOOLEAN,
        stage : Nat,            \* which guard of the channel it is at
        loaded : State,         \* state
        today : Days,
        at : Times,             \* its own reading of now
        wake : Nat]             \* when its sleep ends

IdleJob == [pc |-> "idle", channel |-> CHOOSE c \in Channels : TRUE, dry |-> FALSE,
            stage |-> 1, loaded |-> Blank, today |-> 0, at |-> 0, wake |-> 0]

Init ==
    /\ now = 1
    /\ lockfile = [f \in Files |-> Blank]
    /\ job = [p \in Procs |-> IdleJob]
    /\ lost = [f \in Files |-> FALSE]
    /\ admitted = [f \in Files |-> <<>>]

-----------------------------------------------------------------------------
At(p, step) == job[p].pc = step
Guard(p) == Guards[job[p].channel][job[p].stage]
File(p) == Guard(p).file

Become(p, j) == job' = [job EXCEPT ![p] = j]
Return(p) == Become(p, IdleJob)

\* What p does to the lockfile takes a record away: it holds something else
\* than p has left or found in it, or another process is about to fill it.
Loses(p, expected) ==
    \/ lost[File(p)]
    \/ lockfile[File(p)] # expected
    \/ \E q \in Procs \ {p} : At(q, "write") /\ File(q) = File(p)

\* The history of lockfile f goes on with rows, or ends with a loss.
Record(f, rows, loses) ==
    /\ lost' = [lost EXCEPT ![f] = loses]
    /\ admitted' = [admitted EXCEPT ![f] = IF loses THEN <<>> ELSE rows]

\* When p should have taken the step it is at.
Due(p) == CASE job[p].pc \in {"truncate", "write"} -> job[p].at
            [] job[p].pc = "sleep" -> job[p].wake
            [] OTHER -> MaxTime

Tick ==
    /\ now < MaxTime
    /\ \A p \in Procs : now < Due(p) + Lateness
    /\ now' = now + 1
    /\ UNCHANGED <<lockfile, job, lost, admitted>>

\* A sender reaches the first guard of its channel.
Begin(p, c) ==
    /\ At(p, "idle")
    /\ \E dry \in {FALSE} \cup {c \in DryRuns} :
        Become(p, [IdleJob EXCEPT !.pc = "load", !.channel = c, !.dry = dry])
    /\ UNCHANGED <<now, lockfile, lost, admitted>>

\* _load, date.today(), time.time(): three readings.
Load(p) ==
    /\ At(p, "load")
    /\ Become(p, [job[p] EXCEPT !.pc = "date", !.loaded = lockfile[File(p)]])
    /\ UNCHANGED <<now, lockfile, lost, admitted>>

ReadDate(p) ==
    /\ At(p, "date")
    /\ Become(p, [job[p] EXCEPT !.pc = "clock", !.today = Day(now)])
    /\ UNCHANGED <<now, lockfile, lost, admitted>>

\* Mutant of CountToday: the count is not reset on a new day.
CountForever(j) == j.loaded.count

\* count_today: the count of another day is no count.
CountToday(j) == IF j.loaded.date = j.today THEN j.loaded.count ELSE 0

\* Mutant of LastSend: the whole state is reset on a new day.
LastSendToday(j) == IF j.loaded.date = j.today THEN j.loaded.last ELSE 0

\* last_send_ts, 0 when nothing was sent.
LastSend(j) == j.loaded.last

\* Mutant of WithinQuota: off by one.
WithinQuotaAndOne(j, g) == CountToday(j) <= g.limit

WithinQuota(j, g) == CountToday(j) < g.limit

LongEnough(j, g) == LastSend(j) > 0 => now - LastSend(j) >= g.interval

\* time.sleep for the jitter; the locals of the check are gone.
Sleep(p) == \E jitter \in Guard(p).jitterMin .. Guard(p).jitterMax :
    Become(p, [IdleJob EXCEPT !.pc = "sleep", !.channel = job[p].channel, !.dry = job[p].dry,
                              !.stage = job[p].stage, !.wake = now + jitter])

\* Both limits leave room.  A dry run goes to sleep without recording.
Admit(p) ==
    /\ At(p, "clock")
    /\ WithinQuota(job[p], Guard(p)) /\ LongEnough(job[p], Guard(p))
    /\ IF job[p].dry THEN Sleep(p)
       ELSE Become(p, [job[p] EXCEPT !.pc = "truncate", !.at = now])
    /\ UNCHANGED <<now, lockfile, lost, admitted>>

\* RateLimitError; the sender then answers with a verdict or an error.
Refuse(p) ==
    /\ At(p, "clock")
    /\ ~(WithinQuota(job[p], Guard(p)) /\ LongEnough(job[p], Guard(p)))
    /\ Become(p, [job[p] EXCEPT !.pc = "refused", !.at = now, !.loaded = Blank])
    /\ UNCHANGED <<now, lockfile, lost, admitted>>

\* write_text opens the file for writing, which empties it ...
Truncate(p) ==
    LET f == File(p) IN
    /\ At(p, "truncate")
    /\ lockfile' = [lockfile EXCEPT ![f] = Blank]
    /\ Record(f, admitted[f], Loses(p, job[p].loaded))
    /\ Become(p, [job[p] EXCEPT !.pc = "write"])
    /\ UNCHANGED now

\* ... and fills it.  The send is admitted; its jitter delay starts.
Write(p) ==
    LET j == job[p]  f == File(p) IN
    /\ At(p, "write")
    /\ Len(admitted[f]) < MaxAdmissions
    /\ lockfile' = [lockfile EXCEPT ![f] =
                      [last |-> j.at, count |-> CountToday(j) + 1, date |-> j.today]]
    /\ Record(f, Append(admitted[f], [guard |-> Guard(p), at |-> j.at, date |-> j.today]),
              Loses(p, Blank))
    /\ Sleep(p)
    /\ UNCHANGED now

Awake(p) == At(p, "sleep") /\ now >= job[p].wake

\* Mutant of NextGuard: it goes on past the last guard.
NextGuardAlways(p) ==
    /\ Awake(p)
    /\ Become(p, [IdleJob EXCEPT !.pc = "load", !.channel = job[p].channel,
                                 !.stage = job[p].stage + 1])
    /\ UNCHANGED <<now, lockfile, lost, admitted>>

\* The sender has another guard to pass: dm.send_text behind outbound.submit.
NextGuard(p) ==
    /\ Awake(p)
    /\ job[p].stage < Len(Guards[job[p].channel])
    /\ Become(p, [IdleJob EXCEPT !.pc = "load", !.channel = job[p].channel,
                                 !.stage = job[p].stage + 1])
    /\ UNCHANGED <<now, lockfile, lost, admitted>>

\* The last delay is over: the message goes out, or would in a dry run.
Dispatch(p) ==
    /\ Awake(p)
    /\ job[p].stage = Len(Guards[job[p].channel])
    /\ Return(p)
    /\ UNCHANGED <<now, lockfile, lost, admitted>>

\* A refused sender gives up, and a sender may die or fail anywhere.  Between
\* the two halves of write_text this leaves an empty lockfile.
Abort(p) ==
    /\ ~At(p, "idle")
    /\ IF At(p, "write") THEN Record(File(p), <<>>, TRUE) ELSE UNCHANGED <<lost, admitted>>
    /\ Return(p)
    /\ UNCHANGED <<now, lockfile>>

CheckStep(p) ==
    \/ \E c \in Channels : Begin(p, c)
    \/ Load(p)
    \/ ReadDate(p)
    \/ Admit(p)
    \/ Refuse(p)
    \/ Truncate(p)
    \/ Write(p)
    \/ NextGuard(p)
    \/ Abort(p)

Next == Tick \/ \E p \in Procs : CheckStep(p) \/ Dispatch(p)

Spec == Init /\ [][Next]_vars

-----------------------------------------------------------------------------
Admission == [guard : GuardSet, at : Times, date : Days]

\* Every variable has its type, and a process at work is at a guard of its
\* channel.
TypeOK ==
    /\ now \in Times
    /\ lockfile \in [Files -> State]
    /\ job \in [Procs -> Job]
    /\ \A p \in Procs : job[p].stage \in DOMAIN Guards[job[p].channel]
    /\ lost \in [Files -> BOOLEAN]
    /\ admitted \in [Files -> Seq(Admission)]

SameDate(f, i) == {k \in 1 .. i : admitted[f][k].date = admitted[f][i].date}

\* No day sees more sends recorded in a lockfile than the limit of the guard
\* that let the last of them pass, also when the channels of the lockfile have
\* different limits, when checks interleave without losing a record, when
\* processes die before or after the write, and when midnight falls between
\* the readings of a check (engine/rate_limit.py check_and_record).
DailyQuota == \A f \in Files :
    \A i \in DOMAIN admitted[f] : Cardinality(SameDate(f, i)) <= admitted[f][i].guard.limit

\* Recorded sends of a lockfile are min_interval apart, across midnight too
\* (engine/rate_limit.py check_and_record).
RecordSpacing == \A f \in Files :
    \A i \in 2 .. Len(admitted[f]) :
        admitted[f][i].at - admitted[f][i - 1].at >= admitted[f][i].guard.interval

\* A refused sender met recorded sends that really used up the quota of the
\* day, or one that really was too recent: a dry run costs nothing, and
\* yesterday's count is forgotten (engine/rate_limit.py check_and_record).
RefusalJustified == \A p \in Procs : At(p, "refused") /\ ~lost[File(p)] =>
    LET j == job[p]  rows == admitted[File(p)] IN
    \/ Cardinality({i \in DOMAIN rows : rows[i].date = j.today}) >= Guard(p).limit
    \/ \E i \in DOMAIN rows : rows[i].at <= j.at /\ j.at - rows[i].at < Guard(p).interval

=============================================================================

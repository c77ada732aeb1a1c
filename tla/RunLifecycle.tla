---------------------------- MODULE RunLifecycle ----------------------------
(***************************************************************************)
(* The run lifecycle of clawwrap: the tables of the run store and the      *)
(* processes that work on them.  A process is one invocation of the CLI    *)
(* (run start, run approve, apply plan, apply approve, apply mark-applied, *)
(* conformance check, conformance exception) or a library caller of        *)
(* Runner (start_run, advance, mark_host_apply_started/_done).             *)
(*                                                                         *)
(* Every method of the store commits a transaction of its own and no       *)
(* operation holds a lock from one to the next, so an operation is a       *)
(* sequence of atomic steps between which other processes run, and what it *)
(* read earlier may be stale.  A process can stop between any two of its   *)
(* steps: a crash, a store error, a failing adapter, an unavailable        *)
(* secret.                                                                 *)
(***************************************************************************)
EXTENDS Integers, Sequences

CONSTANTS
    Procs,          \* invocations that may be in flight at once
    Runs,           \* run ids
    Inputs,         \* resolved inputs a run may be started with
    EmptyInputs,    \* the inputs {}
    Null,           \* SQL NULL, a missing row
    RequiredRole,   \* wrapper.approval_role
    AdapterRenders, \* generated plans list surfaces (FALSE: local-cli)
    ReadsMayFail,   \* the swallowed reads of record_exception may fail
    MaxLog,         \* bounds on the rows one run may have:
    MaxPlans,       \*   stage_transitions, apply_plans,
    MaxResults,     \*   conformance_results,
    MaxExceptions   \*   drift_exceptions

Roles == 0 .. 2     \* operator < approver < admin

ASSUME InputsAssumption == EmptyInputs \in Inputs /\ Null \notin Inputs
ASSUME NullAssumption == Null \notin Runs /\ Null \notin [hash : Inputs, role : 0 .. 2]
ASSUME RoleAssumption == RequiredRole \in Roles
ASSUME FlagAssumption == AdapterRenders \in BOOLEAN /\ ReadsMayFail \in BOOLEAN
ASSUME BoundAssumption == {MaxLog, MaxPlans, MaxResults, MaxExceptions} \subseteq Nat

VARIABLES
    runs,           \* [status, inputs] of each run
    log,            \* stage_transitions, oldest first
    approval,       \* the one approval_records row of a run, or Null
    plans,          \* approval_hash column of apply_plans, oldest first
    results,        \* status column of conformance_results, oldest first
    exceptions,     \* drift_exceptions, oldest first
    job             \* what each process is doing, its local variables

tables == <<runs, log, approval, plans, results, exceptions>>
vars == <<runs, log, approval, plans, results, exceptions, job>>

-----------------------------------------------------------------------------
(* Statuses and phases.  "absent" is a run with no row.  The statuses      *)
(* failed, cancelled and not_checked are declared but never written.       *)

Statuses == {"absent", "pending", "resolving", "verifying", "awaiting_approval",
             "approved", "executing", "auditing", "planned",
             "host_apply_in_progress", "conformance_pending",
             "applied", "drifted", "exception_recorded"}

Phases == {"resolve", "verify", "approve", "execute", "audit"}

\* The current_phase column is always written together with status.
PhaseOf(s) == CASE s \in {"pending", "resolving"} -> "resolve"
                [] s = "verifying" -> "verify"
                [] s \in {"awaiting_approval", "approved"} -> "approve"
                [] s = "executing" -> "execute"
                [] OTHER -> "audit"

\* Mutant of NextStatus: the execute phase is left out.
NextStatusSkipping(s) == CASE s = "pending" -> "resolving"
                           [] s = "resolving" -> "verifying"
                           [] s = "verifying" -> "awaiting_approval"
                           [] s \in {"approved", "executing"} -> "auditing"
                           [] s = "auditing" -> "planned"

\* Statuses advance() may leave, and where it goes from there.
Advanceable == {"pending", "resolving", "verifying", "approved", "executing", "auditing"}

NextStatus(s) == CASE s = "pending" -> "resolving"
                   [] s = "resolving" -> "verifying"
                   [] s = "verifying" -> "awaiting_approval"
                   [] s = "approved" -> "executing"
                   [] s = "executing" -> "auditing"
                   [] s = "auditing" -> "planned"

\* Statuses in which "apply plan" may generate a plan.
Plannable == {"planned", "host_apply_in_progress", "conformance_pending",
              "applied", "drifted", "exception_recorded"}

Steps == {"idle", "log", "update", "record_inputs", "mark_started", "mark_done",
          "submit", "save_approval", "save_plan", "load_plan", "read_host",
          "save_result", "fetch_role", "fetch_result", "save_exception"}

\* Mutant of HashOf: "resolved_inputs or {}" without the "or {}".
HashOfNull(in) == in

\* SHA-256 over the canonical JSON, taken to be injective; NULL hashes as {}.
HashOf(in) == IF in = Null THEN EmptyInputs ELSE in

\* The hash a plan carries: none when there are no inputs.
PlanHash(in) == IF in \in {Null, EmptyInputs} THEN Null ELSE in

Job == [pc : Steps,                 \* the next step
        then : Steps,               \* the step after "update" or "save_approval"
        run : Runs \cup {Null},
        seen : Statuses,            \* status of the run object it holds
        target : Statuses,          \* status it will write
        inputs : Inputs \cup {Null},
        role : Roles,               \* resolved role of the approver
        original : Roles,           \* role it fetched for the apply approval
        surfaces : BOOLEAN,         \* the plan it loaded lists surfaces
        cite : Nat]                 \* conformance result it will cite, 0: none

IdleJob == [pc |-> "idle", then |-> "idle", run |-> Null, seen |-> "absent",
            target |-> "absent", inputs |-> Null, role |-> 0, original |-> 0,
            surfaces |-> FALSE, cite |-> 0]

Init ==
    /\ runs = [r \in Runs |-> [status |-> "absent", inputs |-> Null]]
    /\ log = [r \in Runs |-> <<>>]
    /\ approval = [r \in Runs |-> Null]
    /\ plans = [r \in Runs |-> <<>>]
    /\ results = [r \in Runs |-> <<>>]
    /\ exceptions = [r \in Runs |-> <<>>]
    /\ job = [p \in Procs |-> IdleJob]

-----------------------------------------------------------------------------
(* Control of a process.                                                   *)

Idle(p) == job[p].pc = "idle"
At(p, step) == job[p].pc = step
StatusSeenBy(p) == runs[job[p].run].status

\* Nobody's operation starts without reading a run in one of the statuses S.
Reads(p, r, S) == Idle(p) /\ runs[r].status \in S

\* The process goes on with job j; Goto keeps its locals, Return drops them,
\* Continue falls through to the continuation.
Become(p, j) == job' = [job EXCEPT ![p] = j]
Goto(p, step) == Become(p, [job[p] EXCEPT !.pc = step])
Return(p) == Become(p, IdleJob)
Continue(p) == IF job[p].then = "idle" THEN Return(p)
               ELSE Become(p, [job[p] EXCEPT !.pc = job[p].then, !.then = "idle"])

-----------------------------------------------------------------------------
(* Runner.start_run, Runner.advance, Runner._transition.                   *)

\* start_run: the store answers, the secret references are valid, and the
\* run is inserted in "pending" with resolved_inputs NULL.
StartRun(p, r, in) ==
    /\ Reads(p, r, {"absent"})
    /\ runs' = [runs EXCEPT ![r] = [status |-> "pending", inputs |-> Null]]
    /\ Become(p, [IdleJob EXCEPT !.pc = "log", !.then = "record_inputs", !.run = r,
                                 !.seen = "pending", !.target = "resolving",
                                 !.inputs = in])
    /\ UNCHANGED <<log, approval, plans, results, exceptions>>

\* Mutant of Advance: update_run_status is called without _transition.
AdvanceUnlogged(p, r) ==
    /\ Reads(p, r, Advanceable)
    /\ LET s == runs[r].status IN
       Become(p, [IdleJob EXCEPT !.pc = "update", !.run = r,
                                 !.seen = s, !.target = NextStatus(s)])
    /\ UNCHANGED tables

\* advance: read the run; the phase logic that follows changes no table and
\* may fail (secrets, adapter), which is Abort.
Advance(p, r) ==
    /\ Reads(p, r, Advanceable)
    /\ LET s == runs[r].status IN
       Become(p, [IdleJob EXCEPT !.pc = "log", !.run = r,
                                 !.seen = s, !.target = NextStatus(s)])
    /\ UNCHANGED tables

\* Mutant of LogTransition: the two phases in the wrong order.
LogTransitionSwapped(p) ==
    LET j == job[p] IN
    /\ At(p, "log")
    /\ Len(log[j.run]) < MaxLog
    /\ log' = [log EXCEPT ![j.run] =
                 Append(@, [from |-> PhaseOf(j.target), to |-> PhaseOf(j.seen)])]
    /\ Goto(p, "update")
    /\ UNCHANGED <<runs, approval, plans, results, exceptions>>

\* _transition, first half: append to the transition log.
LogTransition(p) ==
    LET j == job[p] IN
    /\ At(p, "log")
    /\ Len(log[j.run]) < MaxLog
    /\ log' = [log EXCEPT ![j.run] =
                 Append(@, [from |-> PhaseOf(j.seen), to |-> PhaseOf(j.target)])]
    /\ Goto(p, "update")
    /\ UNCHANGED <<runs, approval, plans, results, exceptions>>

\* store.update_run_status: whatever the status is by now, overwrite it.
UpdateStatus(p) ==
    /\ At(p, "update")
    /\ runs' = [runs EXCEPT ![job[p].run].status = job[p].target]
    /\ Continue(p)
    /\ UNCHANGED <<log, approval, plans, results, exceptions>>

\* start_run, last call: "resolving" once more, now with the inputs.
RecordInputs(p) ==
    /\ At(p, "record_inputs")
    /\ runs' = [runs EXCEPT ![job[p].run] =
                  [status |-> "resolving", inputs |-> job[p].inputs]]
    /\ Return(p)
    /\ UNCHANGED <<log, approval, plans, results, exceptions>>

-----------------------------------------------------------------------------
(* Approvals: "run approve" and "apply approve" share submit_approval.     *)

\* run approve: only a run awaiting approval.
ApproveRun(p, r) ==
    /\ Reads(p, r, {"awaiting_approval"})
    /\ Become(p, [IdleJob EXCEPT !.pc = "submit", !.then = "update", !.run = r,
                                 !.target = "approved"])
    /\ UNCHANGED tables

\* apply approve: only a planned run; its status will not change.
ApproveApply(p, r) ==
    /\ Reads(p, r, {"planned"})
    /\ Become(p, [IdleJob EXCEPT !.pc = "submit", !.run = r, !.target = "planned"])
    /\ UNCHANGED tables

\* Mutant of SubmitApproval: the role is not compared.
SubmitAnyRole(p) ==
    /\ At(p, "submit")
    /\ \E role \in Roles :
        Become(p, [job[p] EXCEPT !.pc = "save_approval", !.role = role,
                             !.inputs = runs[job[p].run].inputs])
    /\ UNCHANGED tables

\* Mutant of SubmitApproval: the hash is taken before the run is read.
SubmitUnread(p) ==
    /\ At(p, "submit")
    /\ \E role \in Roles :
        /\ role >= RequiredRole
        /\ Become(p, [job[p] EXCEPT !.pc = "save_approval", !.role = role])
    /\ UNCHANGED tables

\* submit_approval: read the run again, without looking at its status, and
\* compare the approver's role with the wrapper's.
SubmitApproval(p) ==
    /\ At(p, "submit")
    /\ \E role \in Roles :
        /\ role >= RequiredRole
        /\ Become(p, [job[p] EXCEPT !.pc = "save_approval", !.role = role,
                                !.inputs = runs[job[p].run].inputs])
    /\ UNCHANGED tables

\* store.save_approval: one row per run, a second approval replaces the first.
SaveApproval(p) ==
    LET j == job[p] IN
    /\ At(p, "save_approval")
    /\ approval' = [approval EXCEPT ![j.run] =
                      [hash |-> HashOf(j.inputs), role |-> j.role]]
    /\ Continue(p)
    /\ UNCHANGED <<runs, log, plans, results, exceptions>>

-----------------------------------------------------------------------------
(* apply plan and apply mark-applied.                                      *)

\* Mutant of PlanApply: a plan for a run in any status.
PlanApplyAnytime(p, r) ==
    /\ Reads(p, r, Statuses \ {"absent"})
    /\ Become(p, [IdleJob EXCEPT !.pc = "save_plan", !.run = r,
                                 !.inputs = runs[r].inputs])
    /\ UNCHANGED tables

PlanApply(p, r) ==
    /\ Reads(p, r, Plannable)
    /\ Become(p, [IdleJob EXCEPT !.pc = "save_plan", !.run = r,
                                 !.inputs = runs[r].inputs])
    /\ UNCHANGED tables

SavePlan(p) ==
    LET j == job[p] IN
    /\ At(p, "save_plan")
    /\ Len(plans[j.run]) < MaxPlans
    /\ plans' = [plans EXCEPT ![j.run] = Append(@, PlanHash(j.inputs))]
    /\ Return(p)
    /\ UNCHANGED <<runs, log, approval, results, exceptions>>

\* mark-applied: the handler's own check, before the runner's.
MarkApplied(p, r) ==
    /\ Reads(p, r, {"planned"})
    /\ Become(p, [IdleJob EXCEPT !.pc = "mark_started", !.then = "mark_done", !.run = r])
    /\ UNCHANGED tables

\* Where mark_host_apply_started and mark_host_apply_done lead from.
ApplyTarget(s) == IF s = "planned" THEN "host_apply_in_progress"
                  ELSE "conformance_pending"

\* A library caller may call either runner method alone.
CallHostApply(p, r) ==
    /\ Reads(p, r, {"planned", "host_apply_in_progress"})
    /\ LET s == runs[r].status IN
       Become(p, [IdleJob EXCEPT !.pc = "log", !.run = r,
                                 !.seen = s, !.target = ApplyTarget(s)])
    /\ UNCHANGED tables

\* The runner methods as mark-applied calls them: each reads the run again.
MarkHostApplyStarted(p) ==
    /\ At(p, "mark_started") /\ StatusSeenBy(p) = "planned"
    /\ Become(p, [job[p] EXCEPT !.pc = "log", !.seen = "planned",
                            !.target = ApplyTarget("planned")])
    /\ UNCHANGED tables

MarkHostApplyDone(p) ==
    /\ At(p, "mark_done") /\ StatusSeenBy(p) = "host_apply_in_progress"
    /\ Become(p, [job[p] EXCEPT !.pc = "log", !.seen = "host_apply_in_progress",
                            !.target = ApplyTarget("host_apply_in_progress")])
    /\ UNCHANGED tables

-----------------------------------------------------------------------------
(* conformance check.                                                      *)

\* Mutant of CheckConformance: a judged run is checked again.
CheckAgain(p, r) ==
    /\ Reads(p, r, {"conformance_pending", "applied", "drifted", "exception_recorded"})
    /\ Become(p, [IdleJob EXCEPT !.pc = "load_plan", !.run = r])
    /\ UNCHANGED tables

CheckConformance(p, r) ==
    /\ Reads(p, r, {"conformance_pending"})
    /\ Become(p, [IdleJob EXCEPT !.pc = "load_plan", !.run = r])
    /\ UNCHANGED tables

\* _load_apply_plan, _extract_expected_surfaces: no plan expects nothing.
LoadPlan(p) ==
    /\ At(p, "load_plan")
    /\ Become(p, [job[p] EXCEPT !.pc = "read_host",
                            !.surfaces = AdapterRenders /\ plans[job[p].run] # <<>>])
    /\ UNCHANGED tables

\* Mutant of ReadHost: the status is written before the result row.
ReadHostStatusFirst(p) ==
    /\ At(p, "read_host")
    /\ \E outcome \in {"applied", "drifted"} :
        /\ outcome = "drifted" => job[p].surfaces
        /\ Become(p, [job[p] EXCEPT !.pc = "update", !.then = "save_result",
                                !.target = outcome])
    /\ UNCHANGED tables

\* adapter.read_host_state, _compare_surfaces, _aggregate_status.  The host
\* is not clawwrap's: its surfaces may hold anything at the time of the read.
\* With no surface to compare the outcome is "matching".
ReadHost(p) ==
    /\ At(p, "read_host")
    /\ \E outcome \in {"applied", "drifted"} :
        /\ outcome = "drifted" => job[p].surfaces
        /\ Become(p, [job[p] EXCEPT !.pc = "save_result", !.target = outcome])
    /\ UNCHANGED tables

\* Mutant of SaveResult: one row per run, as for the approvals.
SaveResultReplacing(p) ==
    LET j == job[p] IN
    /\ At(p, "save_result")
    /\ results' = [results EXCEPT ![j.run] =
                     <<IF j.target = "applied" THEN "matching" ELSE "drifted">>]
    /\ Goto(p, "update")
    /\ UNCHANGED <<runs, log, approval, plans, exceptions>>

\* store.save_conformance; the row says matching or drifted.
SaveResult(p) ==
    LET j == job[p] IN
    /\ At(p, "save_result")
    /\ Len(results[j.run]) < MaxResults
    /\ results' = [results EXCEPT ![j.run] =
                     Append(@, IF j.target = "applied" THEN "matching" ELSE "drifted")]
    /\ Goto(p, "update")
    /\ UNCHANGED <<runs, log, approval, plans, exceptions>>

-----------------------------------------------------------------------------
(* conformance exception.                                                  *)

RecordException(p, r) ==
    /\ Reads(p, r, {"drifted"})
    /\ \E role \in Roles :
        Become(p, [IdleJob EXCEPT !.pc = "fetch_role", !.run = r, !.role = role,
                                  !.target = "exception_recorded"])
    /\ UNCHANGED tables

\* Mutant of FetchRole: the role the wrapper requires, not the approver's.
FetchRoleRequired(p) ==
    /\ At(p, "fetch_role")
    /\ Become(p, [job[p] EXCEPT !.pc = "fetch_result", !.original = RequiredRole])
    /\ UNCHANGED tables

\* _fetch_original_apply_role: the role of the approval row; operator when
\* there is none, and operator when the read raises.
FetchRole(p) ==
    /\ At(p, "fetch_role")
    /\ \E original \in Roles :
        /\ \/ original = IF approval[job[p].run] = Null THEN 0
                         ELSE approval[job[p].run].role
           \/ ReadsMayFail /\ original = 0
        /\ Become(p, [job[p] EXCEPT !.pc = "fetch_result", !.original = original])
    /\ UNCHANGED tables

\* _fetch_latest_conformance_id: a fresh UUID (0) when there is no row or the
\* read raises.
FetchResult(p) ==
    /\ At(p, "fetch_result")
    /\ \E cite \in {Len(results[job[p].run])} \cup (IF ReadsMayFail THEN {0} ELSE {}) :
        Become(p, [job[p] EXCEPT !.pc = "save_exception", !.cite = cite])
    /\ UNCHANGED tables

\* Mutant of SaveException: the approver's role is not compared.
SaveExceptionAnyRole(p) ==
    LET j == job[p] IN
    /\ At(p, "save_exception")
    /\ j.cite \in 1 .. Len(results[j.run])
    /\ Len(exceptions[j.run]) < MaxExceptions
    /\ exceptions' = [exceptions EXCEPT ![j.run] =
                        Append(@, [cites |-> j.cite, role |-> j.role,
                                   original |-> j.original])]
    /\ Goto(p, "update")
    /\ UNCHANGED <<runs, log, approval, plans, results>>

\* Mutant of SaveException: no foreign key on the cited result.
SaveExceptionUnreferenced(p) ==
    LET j == job[p] IN
    /\ At(p, "save_exception")
    /\ j.role >= j.original
    /\ Len(exceptions[j.run]) < MaxExceptions
    /\ exceptions' = [exceptions EXCEPT ![j.run] =
                        Append(@, [cites |-> j.cite, role |-> j.role,
                                   original |-> j.original])]
    /\ Goto(p, "update")
    /\ UNCHANGED <<runs, log, approval, plans, results>>

\* DriftExceptionRecord.new wants role >= original, and the foreign key wants
\* the cited result to exist.
SaveException(p) ==
    LET j == job[p] IN
    /\ At(p, "save_exception")
    /\ j.role >= j.original
    /\ j.cite \in 1 .. Len(results[j.run])
    /\ Len(exceptions[j.run]) < MaxExceptions
    /\ exceptions' = [exceptions EXCEPT ![j.run] =
                        Append(@, [cites |-> j.cite, role |-> j.role,
                                   original |-> j.original])]
    /\ Goto(p, "update")
    /\ UNCHANGED <<runs, log, approval, plans, results>>

-----------------------------------------------------------------------------
(* Operations that end early.                                              *)

\* A check inside an operation fails: InvalidTransitionError,
\* InsufficientRoleError, InsufficientExceptionRoleError, foreign key.
Refuse(p) ==
    /\ \/ At(p, "mark_started") /\ StatusSeenBy(p) # "planned"
       \/ At(p, "mark_done") /\ StatusSeenBy(p) # "host_apply_in_progress"
       \/ At(p, "submit") /\ RequiredRole > 0
       \/ At(p, "save_exception") /\ job[p].role < job[p].original
       \/ At(p, "save_exception") /\ job[p].cite \notin 1 .. Len(results[job[p].run])
    /\ Return(p)
    /\ UNCHANGED tables

\* A crash of the process, or an exception from the store, the adapter or the
\* secret manager: what was committed stays, the rest is never done.
Abort(p) ==
    /\ ~Idle(p)
    /\ Return(p)
    /\ UNCHANGED tables

Start(p, r) ==
    \/ \E in \in Inputs : StartRun(p, r, in)
    \/ Advance(p, r)
    \/ ApproveRun(p, r)
    \/ ApproveApply(p, r)
    \/ PlanApply(p, r)
    \/ MarkApplied(p, r)
    \/ CallHostApply(p, r)
    \/ CheckConformance(p, r)
    \/ RecordException(p, r)

Step(p) ==
    \/ LogTransition(p)
    \/ UpdateStatus(p)
    \/ RecordInputs(p)
    \/ SubmitApproval(p)
    \/ SaveApproval(p)
    \/ SavePlan(p)
    \/ MarkHostApplyStarted(p)
    \/ MarkHostApplyDone(p)
    \/ LoadPlan(p)
    \/ ReadHost(p)
    \/ SaveResult(p)
    \/ FetchRole(p)
    \/ FetchResult(p)
    \/ SaveException(p)
    \/ Refuse(p)

Next == \E p \in Procs :
    \/ \E r \in Runs : Start(p, r)
    \/ Step(p)
    \/ Abort(p)

Spec == Init /\ [][Next]_vars

-----------------------------------------------------------------------------
(* Properties of every interleaving and every crash.                       *)

TablesTypeOK ==
    /\ runs \in [Runs -> [status : Statuses, inputs : Inputs \cup {Null}]]
    /\ log \in [Runs -> Seq([from : Phases, to : Phases])]
    /\ approval \in [Runs -> [hash : Inputs, role : Roles] \cup {Null}]
    /\ plans \in [Runs -> Seq(Inputs \cup {Null})]
    /\ results \in [Runs -> Seq({"matching", "drifted"})]
    /\ exceptions \in [Runs -> Seq([cites : Nat, role : Roles, original : Roles])]

JobTypeOK ==
    /\ job \in [Procs -> Job]
    /\ \A p \in Procs : ~Idle(p) => job[p].run \in Runs

\* Every variable has its type: the rows hold values of their columns, and
\* a process that is doing something is doing it to a run.
TypeOK == TablesTypeOK /\ JobTypeOK

\* Statuses that lie behind the approval.
Gated == {"approved", "executing", "auditing"} \cup Plannable

Sufficient(row) == row # Null /\ row.role >= RequiredRole
Contains(rows, outcome) == \E i \in DOMAIN rows : rows[i] = outcome
Enters(entries, phase) == \E i \in DOMAIN entries : entries[i].to = phase

\* No run is approved, executed, planned, applied or judged without an
\* approval row of a sufficient role, although "run approve" writes the row
\* and the status in two transactions and checks neither when it writes
\* (cli/run.py _handle_approve, engine/approval.py submit_approval).
ApprovalGate == \A r \in Runs : runs[r].status \in Gated => Sufficient(approval[r])

\* A run called applied or drifted has a conformance result that says so, and
\* a run whose exception is recorded has a drift and an exception row: the
\* evidence is committed before the status (engine/conformance.py).
OutcomeEvidence == \A r \in Runs :
    /\ runs[r].status = "applied" => Contains(results[r], "matching")
    /\ runs[r].status \in {"drifted", "exception_recorded"} => Contains(results[r], "drifted")
    /\ runs[r].status = "exception_recorded" => exceptions[r] # <<>>

\* The phase a run is in was entered in its transition log before, also for
\* the statuses that are written without a log entry (engine/runner.py
\* _transition writes the log first).
LogCoversStatus == \A r \in Runs :
    runs[r].status \notin {"absent", "pending"} => Enters(log[r], PhaseOf(runs[r].status))

\* Phase changes are logged in order: an entry leaves a phase that an earlier
\* entry has entered, or the first phase (engine/runner.py _transition).
LogOrdered == \A r \in Runs : \A i \in DOMAIN log[r] :
    \/ log[r][i].from = "resolve"
    \/ \E k \in 1 .. i - 1 : log[r][k].to = log[r][i].from

-----------------------------------------------------------------------------
(* The inductive invariant behind them: a status is written only by a       *)
(* process that holds everything the status claims, and rows never go away. *)

\* An approval row, a log, conformance results and exceptions that are
\* together the evidence for status s.
Backs(row, entries, outcomes, accepted, s) ==
    /\ s \in Gated => Sufficient(row)
    /\ s = "applied" => Contains(outcomes, "matching")
    /\ s \in {"drifted", "exception_recorded"} => Contains(outcomes, "drifted")
    /\ s = "exception_recorded" => accepted # <<>>
    /\ s \notin {"absent", "pending"} => Enters(entries, PhaseOf(s))

\* The tables hold the evidence for status s of run r.
Entitled(r, s) == Backs(approval[r], log[r], results[r], exceptions[r], s)

\* Where a process can still go from the step it is at.
Continuations(step) ==
    CASE step \in {"submit", "save_approval"} -> {"idle", "update"}
      [] step \in {"log", "update"} -> {"idle", "record_inputs", "mark_done"}
      [] step = "mark_started" -> {"mark_done"}
      [] OTHER -> {"idle"}

\* Transitions that are logged.
Logged(from, to) ==
    \/ from \in Advanceable /\ to = NextStatus(from)
    \/ from \in {"planned", "host_apply_in_progress"} /\ to = ApplyTarget(from)

\* What a process with job j knows of its run at the step it is at.
JobEntitled(j) ==
    /\ j.then \in Continuations(j.pc)
    /\ j.pc = "log" => Entitled(j.run, j.seen) /\ Logged(j.seen, j.target)
    /\ j.pc = "update" => Entitled(j.run, j.target)
    /\ j.pc \in {"log", "update"} /\ j.then = "record_inputs" => j.target = "resolving"
    /\ j.pc = "record_inputs" => Entitled(j.run, "resolving")
    /\ j.pc \in {"submit", "save_approval"} =>
        /\ j.then = "update" => j.target = "approved"
        /\ Entitled(j.run, IF j.then = "update" THEN "awaiting_approval" ELSE "planned")
    /\ j.pc = "save_approval" => j.role >= RequiredRole
    /\ j.pc \in {"load_plan", "read_host", "save_result"} =>
        Entitled(j.run, "conformance_pending")
    /\ j.pc = "save_result" => j.target \in {"applied", "drifted"}
    /\ j.pc \in {"fetch_role", "fetch_result", "save_exception"} =>
        j.target = "exception_recorded" /\ Entitled(j.run, "drifted")

\* Every status in the table and every status on its way to the table is
\* backed by rows that were committed before (store/postgres.py).
EvidenceInv ==
    /\ \A r \in Runs : Entitled(r, runs[r].status)
    /\ \A p \in Procs : ~Idle(p) => JobEntitled(job[p])

-----------------------------------------------------------------------------
(* The lifecycle implements RunContract: the rows of a run are its facts.  *)

Facts == Phases \cup {"approval", "match", "drift", "exception"}

\* The rows of run r: phases it entered, an approval of a sufficient role, the
\* outcomes it was judged by, an exception.
FactsOf(r) ==
    {f \in Phases : Enters(log[r], f)}
    \cup {f \in {"approval"} : Sufficient(approval[r])}
    \cup {f \in {"match"} : Contains(results[r], "matching")}
    \cup {f \in {"drift"} : Contains(results[r], "drifted")}
    \cup {f \in {"exception"} : exceptions[r] # <<>>}

BasisOfFact(f) ==
    CASE f = "resolve" -> {}
      [] f = "verify" -> {"resolve"}
      [] f = "approve" -> {"verify"}
      [] f = "approval" -> {"approve"}
      [] f = "execute" -> {"approve", "approval"}
      [] f = "audit" -> {"execute", "approval"}
      [] f \in {"match", "drift"} -> {"audit", "approval"}
      [] f = "exception" -> {"drift"}

BasisOfStatus(s) ==
    {f \in Facts :
        \/ f = PhaseOf(s) /\ s \notin {"absent", "pending"}
        \/ f = "approval" /\ s \in Gated
        \/ f = "match" /\ s = "applied"
        \/ f = "drift" /\ s \in {"drifted", "exception_recorded"}
        \/ f = "exception" /\ s = "exception_recorded"}

Basis == [x \in Facts \cup Statuses |->
            IF x \in Facts THEN BasisOfFact(x) ELSE BasisOfStatus(x)]

\* store.invalidate_approval would withdraw an approval: it marks the row and
\* keeps it.  Nothing in clawwrap calls it, so all rows are valid ones.
Contract == INSTANCE RunContract WITH
    First <- "absent",
    Revocable <- {"approval"},
    status <- [r \in Runs |-> runs[r].status],
    facts <- [r \in Runs |-> FactsOf(r)],
    withdrawn <- [r \in Runs |-> {}]

\* Every history of overlapping and interrupted operations is one of the
\* contract: a row is added after those it rests on, also when the process
\* that adds it read the run long ago, and no row goes by the way, none but an
\* approval ever; no step writes a status and a row, or two runs; and no status
\* is ahead of its rows (store/postgres.py, engine/runner.py,
\* engine/conformance.py).
ImplementsContract == Contract!Spec

\* No gap in the record: whatever the status of a run or one of its rows rests
\* on is there, back to the first phase, however the operations that wrote it
\* overlapped or broke off (store/postgres.py, engine/runner.py).
RecordHasNoGap == Contract!Grounded

-----------------------------------------------------------------------------
(* Properties of operations that do not overlap (one process, crashes).    *)

\* The order in which a run goes through its statuses.
Lifecycle == <<"absent", "pending", "resolving", "verifying", "awaiting_approval",
               "approved", "executing", "auditing", "planned",
               "host_apply_in_progress", "conformance_pending">>

Rank(s) ==
    CASE s \in {"applied", "drifted"} -> Len(Lifecycle) + 1
      [] s = "exception_recorded" -> Len(Lifecycle) + 2
      [] OTHER -> CHOOSE i \in DOMAIN Lifecycle : Lifecycle[i] = s

\* The status of a run never goes back, and never skips a status on its way:
\* no crash between the transactions of an operation lets a later operation
\* repeat or leave out a phase (engine/runner.py, cli/*.py).
StatusForward ==
    [][\A r \in Runs : Rank(runs'[r].status) - Rank(runs[r].status) \in {0, 1}]_runs

\* The log is the history of the run: an entry starts where the last one
\* ended, or repeats it, after a crash between log and status; and the run is
\* where the last entry led or still where it started
\* (engine/runner.py _transition).
LogIsHistory == \A r \in Runs :
    /\ \A i \in 1 .. Len(log[r]) - 1 :
        log[r][i + 1].from = log[r][i].to \/ log[r][i + 1] = log[r][i]
    /\ log[r] # <<>> =>
        LET last == log[r][Len(log[r])] IN PhaseOf(runs[r].status) \in {last.from, last.to}

\* A judged run carries the outcome of its latest conformance result, also
\* when an earlier check was cut off between the result and the status, and
\* an exception cites a result that is there and did say drifted, although the
\* read of the result may fail and yield an id of nothing
\* (engine/conformance.py check_conformance, record_exception).
OutcomeIsLatest == \A r \in Runs :
    /\ LET n == Len(results[r]) IN
        /\ runs[r].status = "applied" => results[r][n] = "matching"
        /\ runs[r].status \in {"drifted", "exception_recorded"} => results[r][n] = "drifted"
    /\ \A i \in DOMAIN exceptions[r] :
        LET cited == exceptions[r][i].cites IN
        cited \in DOMAIN results[r] /\ results[r][cited] = "drifted"

\* The stored approval is for the inputs the run has
\* (engine/approval.py submit_approval, check_approval_validity).
ApprovalBindsInputs == \A r \in Runs :
    approval[r] # Null => approval[r].hash = HashOf(runs[r].inputs)

\* Every plan carries the hash of the inputs that were approved, or none when
\* they are empty (engine/planner.py _compute_plan_approval_hash).
PlanCarriesApproval == \A r \in Runs : \A i \in DOMAIN plans[r] :
    approval[r] # Null /\ plans[r][i] = PlanHash(approval[r].hash)

\* A drift exception says what it was held against: its role is not below the
\* one it names, and that one is the approver's, or the lowest when the read of
\* the approval failed, and never one in between or that of another time
\* (engine/conformance.py record_exception, model/approval.py).
ExceptionNamesRole == \A r \in Runs : \A i \in DOMAIN exceptions[r] :
    LET row == exceptions[r][i] IN
    /\ approval[r] # Null /\ row.role >= row.original
    /\ row.original = approval[r].role \/ (ReadsMayFail /\ row.original = 0)

-----------------------------------------------------------------------------
(* What the sources say and the code does not do.                          *)

\* "Changing resolved_inputs after approval must invalidate the approval"
\* (tests/integration/test_run_lifecycle.py): when the inputs of a run with an
\* approval become others, that approval does not stay as it is.
InputChangeInvalidates ==
    [][\A r \in Runs :
        approval[r] # Null /\ HashOf(runs'[r].inputs) # HashOf(runs[r].inputs)
            => approval'[r] # approval[r]]_vars

\* "The exception approver must hold a role >= the role of the original apply
\* approver" (engine/conformance.py record_exception): no drift is accepted by a
\* role below that of the approval.
ExceptionOutranksApproval == \A r \in Runs : \A i \in DOMAIN exceptions[r] :
    exceptions[r][i].role >= approval[r].role

=============================================================================

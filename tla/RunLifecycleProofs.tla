------------------------- MODULE RunLifecycleProofs -------------------------
(* What TLAPS proves about RunLifecycle, for every set of processes, runs   *)
(* and inputs, every required role and every bound.                         *)
EXTENDS RunLifecycle, TLAPS

-----------------------------------------------------------------------------
(* What a step does to the jobs.                                            *)

LEMMA IdleJobType == IdleJob \in Job
BY DEF IdleJob, Job, Steps, Statuses, Roles

\* The step of a process changes its own job and no other.
LEMMA BecomeJob ==
  ASSUME JobTypeOK, NEW p \in Procs, NEW j, Become(p, j)
  PROVE  job'[p] = j /\ \A q \in Procs : q # p => job'[q] = job[q]
BY DEF JobTypeOK, Become

LEMMA BecomeType ==
  ASSUME JobTypeOK, NEW p \in Procs, NEW j \in Job,
         j.pc # "idle" => j.run \in Runs, Become(p, j)
  PROVE  JobTypeOK'
BY DEF JobTypeOK, Become, Idle

LEMMA ReturnType ==
  ASSUME JobTypeOK, NEW p \in Procs, Return(p) PROVE JobTypeOK'
BY IdleJobType, BecomeType DEF Return, IdleJob

LEMMA GotoType ==
  ASSUME JobTypeOK, NEW p \in Procs, ~Idle(p), NEW step \in Steps, Goto(p, step)
  PROVE  JobTypeOK'
<1> DEFINE j == [job[p] EXCEPT !.pc = step]
<1>1. j \in Job /\ j.run \in Runs
  BY DEF JobTypeOK, Job
<1>2. QED BY <1>1, BecomeType DEF Goto

LEMMA ContinueType ==
  ASSUME JobTypeOK, NEW p \in Procs, ~Idle(p), Continue(p)
  PROVE  JobTypeOK'
<1>1. CASE job[p].then = "idle"
  BY <1>1, ReturnType DEF Continue
<1>2. CASE job[p].then # "idle"
  <2> DEFINE j == [job[p] EXCEPT !.pc = job[p].then, !.then = "idle"]
  <2>1. j \in Job /\ j.run \in Runs
    BY DEF JobTypeOK, Job, Steps
  <2>2. QED BY <1>2, <2>1, BecomeType DEF Continue
<1>3. QED BY <1>1, <1>2

-----------------------------------------------------------------------------
(* Type correctness.                                                        *)

LEMMA PhaseType == \A s \in Statuses : PhaseOf(s) \in Phases
BY DEF PhaseOf, Phases, Statuses

LEMMA NextStatusType == \A s \in Advanceable : s \in Statuses /\ NextStatus(s) \in Statuses
BY DEF NextStatus, Advanceable, Statuses

\* A transition that is logged does not start a run, enters the gated statuses
\* from a gated one only, and judges no run.
LEMMA LoggedMoves ==
  ASSUME NEW a, NEW b, Logged(a, b)
  PROVE  /\ a # "absent" /\ a \in Statuses
         /\ b \in Gated => a \in Gated
         /\ b \notin {"applied", "drifted", "exception_recorded"}
BY DEF Logged, Advanceable, NextStatus, ApplyTarget, Statuses, Gated, Plannable

LEMMA TypeInit == Init => TypeOK
<1> SUFFICES ASSUME Init PROVE TypeOK
  OBVIOUS
<1>1. /\ runs \in [Runs -> [status : Statuses, inputs : Inputs \cup {Null}]]
      /\ log \in [Runs -> Seq([from : Phases, to : Phases])]
      /\ approval \in [Runs -> [hash : Inputs, role : Roles] \cup {Null}]
  BY DEF Init, Statuses
<1>2. /\ plans \in [Runs -> Seq(Inputs \cup {Null})]
      /\ results \in [Runs -> Seq({"matching", "drifted"})]
      /\ exceptions \in [Runs -> Seq([cites : Nat, role : Roles, original : Roles])]
  BY DEF Init
<1>3. JobTypeOK
  BY IdleJobType DEF Init, JobTypeOK, Idle, IdleJob
<1>4. QED BY <1>1, <1>2, <1>3 DEF TypeOK, TablesTypeOK

\* Names of steps and statuses, so that no proof below expands the two sets.
LEMMA Names ==
  /\ {"idle", "log", "update", "record_inputs", "mark_started", "mark_done",
      "submit", "save_approval", "save_plan", "load_plan", "read_host",
      "save_result", "fetch_role", "fetch_result", "save_exception"} \subseteq Steps
  /\ {"absent", "pending", "resolving", "planned", "approved",
      "host_apply_in_progress", "conformance_pending", "applied", "drifted",
      "exception_recorded"} \subseteq Statuses
  /\ \A s : ApplyTarget(s) \in Statuses
BY DEF Steps, Statuses, ApplyTarget

\* An operation's first step.
LEMMA TypeStart ==
  ASSUME TypeOK, NEW p \in Procs, NEW r \in Runs, Start(p, r) PROVE TypeOK'
<1> USE Names, IdleJobType DEF TypeOK
<1> DEFINE s == runs[r].status
<1>1. s \in Statuses /\ runs[r].inputs \in Inputs \cup {Null}
  BY DEF TablesTypeOK
<1>2. ASSUME NEW in \in Inputs, StartRun(p, r, in) PROVE TypeOK'
  <2>1. TablesTypeOK'
    BY <1>2 DEF StartRun, TablesTypeOK
  <2>2. JobTypeOK'
    <3> DEFINE j == [IdleJob EXCEPT !.pc = "log", !.then = "record_inputs", !.run = r,
                                    !.seen = "pending", !.target = "resolving",
                                    !.inputs = in]
    <3>1. j \in Job /\ j.run = r
      BY DEF Job
    <3>2. QED BY <1>2, <3>1, BecomeType DEF StartRun
  <2>3. QED BY <2>1, <2>2
<1>3. ASSUME UNCHANGED tables, NEW j \in Job, j.run = r, Become(p, j)
      PROVE  TypeOK'
  BY <1>3, BecomeType DEF tables, TablesTypeOK
<1>4. CASE Advance(p, r)
  <2> DEFINE j == [IdleJob EXCEPT !.pc = "log", !.run = r,
                                  !.seen = s, !.target = NextStatus(s)]
  <2>1. NextStatus(s) \in Statuses
    BY <1>4, NextStatusType DEF Advance, Reads
  <2>2. j \in Job /\ j.run = r
    BY <1>1, <2>1 DEF Job
  <2>3. QED BY <1>3, <1>4, <2>2 DEF Advance
<1>5. CASE ApproveRun(p, r)
  <2> DEFINE j == [IdleJob EXCEPT !.pc = "submit", !.then = "update", !.run = r,
                                  !.target = "approved"]
  <2>1. j \in Job /\ j.run = r
    BY DEF Job
  <2>2. QED BY <1>3, <1>5, <2>1 DEF ApproveRun
<1>6. CASE ApproveApply(p, r)
  <2> DEFINE j == [IdleJob EXCEPT !.pc = "submit", !.run = r, !.target = "planned"]
  <2>1. j \in Job /\ j.run = r
    BY DEF Job
  <2>2. QED BY <1>3, <1>6, <2>1 DEF ApproveApply
<1>7. CASE PlanApply(p, r)
  <2> DEFINE j == [IdleJob EXCEPT !.pc = "save_plan", !.run = r,
                                  !.inputs = runs[r].inputs]
  <2>1. j \in Job /\ j.run = r
    BY <1>1 DEF Job
  <2>2. QED BY <1>3, <1>7, <2>1 DEF PlanApply
<1>8. CASE MarkApplied(p, r)
  <2> DEFINE j == [IdleJob EXCEPT !.pc = "mark_started", !.then = "mark_done", !.run = r]
  <2>1. j \in Job /\ j.run = r
    BY DEF Job
  <2>2. QED BY <1>3, <1>8, <2>1 DEF MarkApplied
<1>9. CASE CallHostApply(p, r)
  <2> DEFINE j == [IdleJob EXCEPT !.pc = "log", !.run = r,
                                  !.seen = s, !.target = ApplyTarget(s)]
  <2>1. j \in Job /\ j.run = r
    BY <1>1 DEF Job
  <2>2. QED BY <1>3, <1>9, <2>1 DEF CallHostApply
<1>10. CASE CheckConformance(p, r)
  <2> DEFINE j == [IdleJob EXCEPT !.pc = "load_plan", !.run = r]
  <2>1. j \in Job /\ j.run = r
    BY DEF Job
  <2>2. QED BY <1>3, <1>10, <2>1 DEF CheckConformance
<1>11. ASSUME RecordException(p, r) PROVE TypeOK'
  <2> DEFINE j(role) == [IdleJob EXCEPT !.pc = "fetch_role", !.run = r, !.role = role,
                                        !.target = "exception_recorded"]
  <2>1. PICK role \in Roles : Become(p, j(role))
    BY <1>11 DEF RecordException
  <2>2. j(role) \in Job /\ j(role).run = r
    BY DEF Job
  <2>3. QED BY <1>3, <1>11, <2>1, <2>2 DEF RecordException
<1>12. QED BY <1>2, <1>4, <1>5, <1>6, <1>7, <1>8, <1>9, <1>10, <1>11 DEF Start

\* A later step of an operation.
LEMMA TypeStep ==
  ASSUME TypeOK, NEW p \in Procs, Step(p) PROVE TypeOK'
<1> USE Names, IdleJobType DEF TypeOK
<1> DEFINE k == job[p]
           r == job[p].run
<1>1. k \in Job
  BY DEF JobTypeOK
<1>2. \A step : At(p, step) /\ step # "idle" => ~Idle(p) /\ r \in Runs
  BY DEF JobTypeOK, At, Idle
<1>3. ASSUME UNCHANGED tables, NEW j \in Job, j.run \in Runs, Become(p, j)
      PROVE  TypeOK'
  BY <1>3, BecomeType DEF tables, TablesTypeOK
<1>4. ASSUME UNCHANGED tables, Return(p) PROVE TypeOK'
  BY <1>4, ReturnType DEF tables, TablesTypeOK
<1>5. CASE LogTransition(p)
  <2>1. r \in Runs /\ JobTypeOK'
    BY <1>2, <1>5, GotoType DEF LogTransition
  <2> DEFINE entry == [from |-> PhaseOf(k.seen), to |-> PhaseOf(k.target)]
             Entries == [from : Phases, to : Phases]
  <2>2. entry \in Entries
    BY <1>1, PhaseType DEF Job
  <2>3. log \in [Runs -> Seq(Entries)] /\ log' = [log EXCEPT ![r] = Append(@, entry)]
    BY <1>5 DEF LogTransition, TablesTypeOK
  <2> HIDE DEF entry, Entries
  <2>4. log' \in [Runs -> Seq(Entries)]
    BY <2>1, <2>2, <2>3
  <2>5. QED BY <1>5, <2>1, <2>4 DEF LogTransition, TablesTypeOK, Entries
<1>6. CASE UpdateStatus(p)
  <2>1. r \in Runs /\ JobTypeOK'
    BY <1>2, <1>6, ContinueType DEF UpdateStatus
  <2>2. k.target \in Statuses
    BY <1>1 DEF Job
  <2>3. runs' \in [Runs -> [status : Statuses, inputs : Inputs \cup {Null}]]
    BY <1>6, <2>1, <2>2 DEF UpdateStatus, TablesTypeOK
  <2>4. QED BY <1>6, <2>1, <2>3 DEF UpdateStatus, TablesTypeOK
<1>7. CASE RecordInputs(p)
  <2>1. r \in Runs /\ JobTypeOK'
    BY <1>2, <1>7, ReturnType DEF RecordInputs
  <2>2. k.inputs \in Inputs \cup {Null}
    BY <1>1 DEF Job
  <2>3. runs' \in [Runs -> [status : Statuses, inputs : Inputs \cup {Null}]]
    BY <1>7, <2>1, <2>2 DEF RecordInputs, TablesTypeOK
  <2>4. QED BY <1>7, <2>1, <2>3 DEF RecordInputs, TablesTypeOK
<1>8. CASE SubmitApproval(p)
  <2> DEFINE j(role) == [k EXCEPT !.pc = "save_approval", !.role = role,
                                  !.inputs = runs[r].inputs]
  <2>1. PICK role \in Roles : Become(p, j(role))
    BY <1>8 DEF SubmitApproval
  <2>2. r \in Runs /\ runs[r].inputs \in Inputs \cup {Null}
    BY <1>2, <1>8 DEF SubmitApproval, TablesTypeOK
  <2>3. j(role) \in Job /\ j(role).run \in Runs
    BY <1>1, <2>2 DEF Job
  <2>4. QED BY <1>3, <1>8, <2>1, <2>3 DEF SubmitApproval
<1>9. CASE SaveApproval(p)
  <2>1. r \in Runs /\ JobTypeOK'
    BY <1>2, <1>9, ContinueType DEF SaveApproval
  <2>2. [hash |-> HashOf(k.inputs), role |-> k.role] \in [hash : Inputs, role : Roles]
    BY <1>1, InputsAssumption DEF Job, HashOf
  <2>3. approval' \in [Runs -> [hash : Inputs, role : Roles] \cup {Null}]
    BY <1>9, <2>1, <2>2 DEF SaveApproval, TablesTypeOK
  <2>4. QED BY <1>9, <2>1, <2>3 DEF SaveApproval, TablesTypeOK
<1>10. CASE SavePlan(p)
  <2>1. r \in Runs /\ JobTypeOK'
    BY <1>2, <1>10, ReturnType DEF SavePlan
  <2>2. PlanHash(k.inputs) \in Inputs \cup {Null}
    BY <1>1 DEF Job, PlanHash
  <2>3. plans' \in [Runs -> Seq(Inputs \cup {Null})]
    BY <1>10, <2>1, <2>2 DEF SavePlan, TablesTypeOK
  <2>4. QED BY <1>10, <2>1, <2>3 DEF SavePlan, TablesTypeOK
<1>11. CASE MarkHostApplyStarted(p)
  <2> DEFINE j == [k EXCEPT !.pc = "log", !.seen = "planned",
                            !.target = ApplyTarget("planned")]
  <2>1. r \in Runs
    BY <1>2, <1>11 DEF MarkHostApplyStarted
  <2>2. j \in Job /\ j.run \in Runs
    BY <1>1, <2>1 DEF Job
  <2>3. QED BY <1>3, <1>11, <2>2 DEF MarkHostApplyStarted
<1>12. CASE MarkHostApplyDone(p)
  <2> DEFINE j == [k EXCEPT !.pc = "log", !.seen = "host_apply_in_progress",
                            !.target = ApplyTarget("host_apply_in_progress")]
  <2>1. r \in Runs
    BY <1>2, <1>12 DEF MarkHostApplyDone
  <2>2. j \in Job /\ j.run \in Runs
    BY <1>1, <2>1 DEF Job
  <2>3. QED BY <1>3, <1>12, <2>2 DEF MarkHostApplyDone
<1>13. CASE LoadPlan(p)
  <2> DEFINE listed == AdapterRenders /\ plans[r] # <<>>
             j == [k EXCEPT !.pc = "read_host", !.surfaces = listed]
  <2>1. r \in Runs /\ listed \in BOOLEAN
    BY <1>2, <1>13 DEF LoadPlan
  <2> HIDE DEF listed
  <2>2. j \in Job /\ j.run \in Runs
    BY <1>1, <2>1 DEF Job
  <2>3. QED BY <1>3, <1>13, <2>2 DEF LoadPlan, listed
<1>14. CASE ReadHost(p)
  <2> DEFINE j(outcome) == [k EXCEPT !.pc = "save_result", !.target = outcome]
  <2>1. PICK outcome \in {"applied", "drifted"} : Become(p, j(outcome))
    BY <1>14 DEF ReadHost
  <2>2. r \in Runs
    BY <1>2, <1>14 DEF ReadHost
  <2>3. j(outcome) \in Job /\ j(outcome).run \in Runs
    BY <1>1, <2>2 DEF Job
  <2>4. QED BY <1>3, <1>14, <2>1, <2>3 DEF ReadHost
<1>15. CASE SaveResult(p)
  <2>1. r \in Runs /\ JobTypeOK'
    BY <1>2, <1>15, GotoType DEF SaveResult
  <2>2. results' \in [Runs -> Seq({"matching", "drifted"})]
    BY <1>15, <2>1 DEF SaveResult, TablesTypeOK
  <2>3. QED BY <1>15, <2>1, <2>2 DEF SaveResult, TablesTypeOK
<1>16. CASE FetchRole(p)
  <2> DEFINE j(original) == [k EXCEPT !.pc = "fetch_result", !.original = original]
  <2>1. PICK original \in Roles : Become(p, j(original))
    BY <1>16 DEF FetchRole
  <2>2. r \in Runs
    BY <1>2, <1>16 DEF FetchRole
  <2>3. j(original) \in Job /\ j(original).run \in Runs
    BY <1>1, <2>2 DEF Job
  <2>4. QED BY <1>3, <1>16, <2>1, <2>3 DEF FetchRole
<1>17. CASE FetchResult(p)
  <2> DEFINE j(cite) == [k EXCEPT !.pc = "save_exception", !.cite = cite]
  <2>1. r \in Runs /\ Len(results[r]) \in Nat
    BY <1>2, <1>17 DEF FetchResult, TablesTypeOK
  <2>2. PICK cite \in Nat : Become(p, j(cite))
    BY <1>17, <2>1 DEF FetchResult
  <2>3. j(cite) \in Job /\ j(cite).run \in Runs
    BY <1>1, <2>1 DEF Job
  <2>4. QED BY <1>3, <1>17, <2>2, <2>3 DEF FetchResult
<1>18. CASE SaveException(p)
  <2>1. r \in Runs /\ JobTypeOK'
    BY <1>2, <1>18, GotoType DEF SaveException
  <2> DEFINE row == [cites |-> k.cite, role |-> k.role, original |-> k.original]
             Rows == [cites : Nat, role : Roles, original : Roles]
  <2>2. row \in Rows
    BY <1>1 DEF Job
  <2>3. /\ exceptions \in [Runs -> Seq(Rows)]
        /\ exceptions' = [exceptions EXCEPT ![r] = Append(@, row)]
    BY <1>18 DEF SaveException, TablesTypeOK
  <2> HIDE DEF row, Rows
  <2>4. exceptions' \in [Runs -> Seq(Rows)]
    BY <2>1, <2>2, <2>3
  <2>5. QED BY <1>18, <2>1, <2>4 DEF SaveException, TablesTypeOK, Rows
<1>19. CASE Refuse(p)
  BY <1>4, <1>19 DEF Refuse
<1>20. QED
  BY <1>5, <1>6, <1>7, <1>8, <1>9, <1>10, <1>11, <1>12, <1>13, <1>14, <1>15,
     <1>16, <1>17, <1>18, <1>19 DEF Step

LEMMA TypeNext == TypeOK /\ [Next]_vars => TypeOK'
<1> SUFFICES ASSUME TypeOK, [Next]_vars PROVE TypeOK'
  OBVIOUS
<1>1. ASSUME NEW p \in Procs, Abort(p) PROVE TypeOK'
  BY <1>1, ReturnType DEF Abort, TypeOK, tables, TablesTypeOK
<1>2. CASE UNCHANGED vars
  BY <1>2 DEF vars, TypeOK, TablesTypeOK, JobTypeOK, Idle
<1>3. QED BY <1>1, <1>2, TypeStart, TypeStep DEF Next

\* The columns and the local variables of the processes keep their types
\* whatever interleaves and whatever is cut off: in particular a process
\* always knows the run it works on (store/postgres.py, engine/*.py).
THEOREM TypeCorrect == Spec => []TypeOK
BY TypeInit, TypeNext, PTL DEF Spec

-----------------------------------------------------------------------------
(* Evidence precedes status.                                                *)

\* The operations that begin write at most the runs table.
LEMMA StartEffect ==
  ASSUME NEW p \in Procs, NEW r \in Runs, Start(p, r)
  PROVE  UNCHANGED <<log, approval, plans, results, exceptions>>
<1>1. CASE \E in \in Inputs : StartRun(p, r, in)
  BY <1>1 DEF StartRun
<1>2. ASSUME UNCHANGED tables
      PROVE  UNCHANGED <<log, approval, plans, results, exceptions>>
  BY <1>2 DEF tables
<1>3. Start(p, r) => UNCHANGED tables \/ \E in \in Inputs : StartRun(p, r, in)
  BY Zenon DEF Start, Advance, ApproveRun, ApproveApply, PlanApply, MarkApplied,
     CallHostApply, CheckConformance, RecordException
<1>4. QED BY <1>1, <1>2, <1>3

\* Four steps write one evidence table each, the others none.
LEMMA StepEffect ==
  ASSUME NEW p \in Procs, Step(p)
  PROVE  \/ UNCHANGED <<log, approval, results, exceptions>>
         \/ LogTransition(p) /\ UNCHANGED <<approval, results, exceptions>>
         \/ SaveApproval(p) /\ UNCHANGED <<log, results, exceptions>>
         \/ SaveResult(p) /\ UNCHANGED <<log, approval, exceptions>>
         \/ SaveException(p) /\ UNCHANGED <<log, approval, results>>
<1>1. CASE UpdateStatus(p) \/ RecordInputs(p) \/ SavePlan(p)
  BY <1>1 DEF UpdateStatus, RecordInputs, SavePlan
<1>2. CASE LogTransition(p) \/ SaveApproval(p) \/ SaveResult(p) \/ SaveException(p)
  BY <1>2 DEF LogTransition, SaveApproval, SaveResult, SaveException
<1>3. CASE UNCHANGED tables
  BY <1>3 DEF tables
<1>4. \/ UNCHANGED tables
      \/ UpdateStatus(p) \/ RecordInputs(p) \/ SavePlan(p)
      \/ LogTransition(p) \/ SaveApproval(p) \/ SaveResult(p) \/ SaveException(p)
  BY Zenon DEF Step, SubmitApproval, MarkHostApplyStarted, MarkHostApplyDone, LoadPlan,
     ReadHost, FetchRole, FetchResult, Refuse
<1>5. QED BY <1>1, <1>2, <1>3, <1>4

\* A step replaces an approval by a sufficient one only, and the other
\* tables only grow: what was evidence stays evidence.
LEMMA RowsStay ==
  ASSUME TypeOK, EvidenceInv, [Next]_vars, NEW r \in Runs
  PROVE  /\ Sufficient(approval[r]) => Sufficient(approval'[r])
         /\ \A outcome : Contains(results[r], outcome) => Contains(results'[r], outcome)
         /\ \A phase : Enters(log[r], phase) => Enters(log'[r], phase)
         /\ exceptions[r] # <<>> => exceptions'[r] # <<>>
<1> USE DEF TypeOK, TablesTypeOK
<1>1. ASSUME NEW p \in Procs, LogTransition(p)
      PROVE  \A phase : Enters(log[r], phase) => Enters(log'[r], phase)
  <2>1. CASE job[p].run = r
    <3> DEFINE entry == [from |-> PhaseOf(job[p].seen), to |-> PhaseOf(job[p].target)]
    <3>1. log'[r] = Append(log[r], entry) /\ log[r] \in Seq([from : Phases, to : Phases])
      BY <1>1, <2>1 DEF LogTransition
    <3>2. \A i \in DOMAIN log[r] : i \in DOMAIN log'[r] /\ log'[r][i] = log[r][i]
      BY <3>1
    <3>3. QED BY <3>2 DEF Enters
  <2>2. CASE job[p].run # r
    BY <1>1, <2>2 DEF LogTransition, Enters
  <2>3. QED BY <2>1, <2>2
<1>2. ASSUME NEW p \in Procs, SaveApproval(p)
      PROVE  Sufficient(approval[r]) => Sufficient(approval'[r])
  <2>1. job[p].role >= RequiredRole
    BY <1>2 DEF SaveApproval, EvidenceInv, JobEntitled, At, Idle
  <2>2. HashOf(job[p].inputs) \in Inputs /\ job[p].role \in Roles
    BY InputsAssumption DEF JobTypeOK, Job, HashOf
  <2>3. QED BY <1>2, <2>1, <2>2, NullAssumption DEF SaveApproval, Sufficient, Roles
<1>3. ASSUME NEW p \in Procs, SaveResult(p)
      PROVE  \A outcome : Contains(results[r], outcome) => Contains(results'[r], outcome)
  <2>1. CASE job[p].run = r
    <3> DEFINE row == IF job[p].target = "applied" THEN "matching" ELSE "drifted"
    <3>1. results'[r] = Append(results[r], row) /\ results[r] \in Seq({"matching", "drifted"})
      BY <1>3, <2>1 DEF SaveResult
    <3>2. \A i \in DOMAIN results[r] : i \in DOMAIN results'[r] /\ results'[r][i] = results[r][i]
      BY <3>1
    <3>3. QED BY <3>2 DEF Contains
  <2>2. CASE job[p].run # r
    BY <1>3, <2>2 DEF SaveResult, Contains
  <2>3. QED BY <2>1, <2>2
<1>4. ASSUME NEW p \in Procs, SaveException(p)
      PROVE  exceptions[r] # <<>> => exceptions'[r] # <<>>
  <2>1. CASE job[p].run = r
    <3> DEFINE
           row == [cites |-> job[p].cite, role |-> job[p].role,
                   original |-> job[p].original]
           rows == [cites : Nat, role : Roles, original : Roles]
    <3>1. exceptions'[r] = Append(exceptions[r], row)
      BY <1>4, <2>1 DEF SaveException
    <3>2. row \in rows
      BY DEF JobTypeOK, Job
    <3>3. exceptions[r] \in Seq(rows)
      OBVIOUS
    <3> HIDE DEF row, rows
    <3>4. Len(exceptions'[r]) = Len(exceptions[r]) + 1 /\ Len(exceptions[r]) \in Nat
      BY <3>1, <3>2, <3>3
    <3>5. QED BY <3>4
  <2>2. CASE job[p].run # r
    BY <1>4, <2>2 DEF SaveException
  <2>3. QED BY <2>1, <2>2
<1>5. \/ UNCHANGED <<log, approval, results, exceptions>>
      \/ \E p \in Procs : LogTransition(p) /\ UNCHANGED <<approval, results, exceptions>>
      \/ \E p \in Procs : SaveApproval(p) /\ UNCHANGED <<log, results, exceptions>>
      \/ \E p \in Procs : SaveResult(p) /\ UNCHANGED <<log, approval, exceptions>>
      \/ \E p \in Procs : SaveException(p) /\ UNCHANGED <<log, approval, results>>
  BY StartEffect, StepEffect DEF Next, vars, tables, Abort
<1>6. QED BY <1>1, <1>2, <1>3, <1>4, <1>5

LEMMA EntitledStays ==
  ASSUME TypeOK, EvidenceInv, [Next]_vars, NEW r \in Runs, NEW s, Entitled(r, s)
  PROVE  Backs(approval'[r], log'[r], results'[r], exceptions'[r], s)
BY RowsStay DEF Entitled, Backs

LEMMA EvidenceInit == Init => EvidenceInv
<1> SUFFICES ASSUME Init PROVE EvidenceInv
  OBVIOUS
<1>1. ASSUME NEW r \in Runs PROVE Entitled(r, runs[r].status)
  BY <1>1 DEF Init, Entitled, Backs, Gated, Plannable
<1>2. \A p \in Procs : Idle(p)
  BY DEF Init, Idle, IdleJob
<1>3. QED BY <1>1, <1>2 DEF EvidenceInv

\* A step of p keeps the invariant when the statuses it writes are backed and
\* p, if it goes on, knows what it has to know: the others lose nothing.
LEMMA Keeps ==
  ASSUME TypeOK, EvidenceInv, [Next]_vars, NEW p \in Procs,
         \A q \in Procs \ {p} : job'[q] = job[q],
         \A r \in Runs : runs'[r].status # runs[r].status =>
            Backs(approval'[r], log'[r], results'[r], exceptions'[r], runs'[r].status),
         job'[p].pc # "idle" => JobEntitled(job[p])'
  PROVE  EvidenceInv'
<1>1. ASSUME NEW r \in Runs PROVE Entitled(r, runs[r].status)'
  BY <1>1, EntitledStays DEF Entitled, EvidenceInv
<1>2. ASSUME NEW q \in Procs, job'[q] = job[q], job[q].pc # "idle"
      PROVE  JobEntitled(job[q])'
  <2>1. job[q].run \in Runs /\ JobEntitled(job[q])
    BY <1>2 DEF EvidenceInv, TypeOK, JobTypeOK, Idle
  <2>2. \A s : Entitled(job[q].run, s) =>
          Backs(approval'[job[q].run], log'[job[q].run], results'[job[q].run],
                exceptions'[job[q].run], s)
    BY <2>1, EntitledStays
  <2>3. QED BY <1>2, <2>1, <2>2 DEF JobEntitled, Entitled
<1>3. \A q \in Procs : ~Idle(q)' => JobEntitled(job[q])'
  BY <1>2 DEF Idle
<1>4. QED BY <1>1, <1>3 DEF EvidenceInv

\* When p goes on with job j and knew before what j has to know, it still does.
LEMMA Goes ==
  ASSUME TypeOK, EvidenceInv, [Next]_vars, NEW p \in Procs, NEW j, Become(p, j),
         \A r \in Runs : runs'[r].status # runs[r].status =>
            Backs(approval'[r], log'[r], results'[r], exceptions'[r], runs'[r].status),
         j.pc # "idle" => j.run \in Runs /\ JobEntitled(j)
  PROVE  EvidenceInv'
<1>1. job'[p] = j /\ \A q \in Procs \ {p} : job'[q] = job[q]
  BY BecomeJob DEF TypeOK
<1>2. ASSUME j.pc # "idle" PROVE JobEntitled(job[p])'
  <2>1. \A s : Entitled(j.run, s) =>
          Backs(approval'[j.run], log'[j.run], results'[j.run], exceptions'[j.run], s)
    BY <1>2, EntitledStays
  <2>2. QED BY <1>1, <1>2, <2>1 DEF JobEntitled, Entitled
<1>3. QED BY <1>1, <1>2, Keeps

\* The first step of an operation: it has just read the status.
LEMMA EvidenceStart ==
  ASSUME TypeOK, EvidenceInv, [Next]_vars, NEW p \in Procs, NEW r \in Runs, Start(p, r)
  PROVE  EvidenceInv'
<1> DEFINE s == runs[r].status
<1>1. s \in Statuses /\ Entitled(r, s)
  BY DEF TypeOK, TablesTypeOK, EvidenceInv
<1>2. ASSUME UNCHANGED tables, NEW j, Become(p, j), j.run = r, JobEntitled(j)
      PROVE  EvidenceInv'
  BY <1>2, Goes DEF tables
<1>3. ASSUME NEW in \in Inputs, StartRun(p, r, in) PROVE EvidenceInv'
  <2> DEFINE j == [IdleJob EXCEPT !.pc = "log", !.then = "record_inputs", !.run = r,
                                  !.seen = "pending", !.target = "resolving",
                                  !.inputs = in]
  <2>1. Entitled(r, "pending") /\ runs'[r].status = "pending"
        /\ \A q \in Runs \ {r} : runs'[q] = runs[q]
    BY <1>3 DEF StartRun, TypeOK, TablesTypeOK, Entitled, Backs, Gated, Plannable
  <2>2. JobEntitled(j) /\ j.run = r
    BY <2>1 DEF JobEntitled, IdleJob, Continuations, Logged, Advanceable, NextStatus
  <2>3. \A q \in Runs : runs'[q].status # runs[q].status =>
          Backs(approval'[q], log'[q], results'[q], exceptions'[q], runs'[q].status)
    BY <2>1, EntitledStays
  <2>4. QED BY <1>3, <2>2, <2>3, Goes DEF StartRun
<1>4. CASE Advance(p, r)
  <2> DEFINE j == [IdleJob EXCEPT !.pc = "log", !.run = r,
                                  !.seen = s, !.target = NextStatus(s)]
  <2>1. Logged(s, NextStatus(s))
    BY <1>4 DEF Advance, Reads, Logged
  <2> HIDE DEF s
  <2>2. JobEntitled(j) /\ j.run = r
    BY <1>1, <2>1 DEF JobEntitled, IdleJob, Continuations
  <2>3. QED BY <1>2, <1>4, <2>2 DEF Advance, s
<1>5. CASE ApproveRun(p, r)
  <2> DEFINE j == [IdleJob EXCEPT !.pc = "submit", !.then = "update", !.run = r,
                                  !.target = "approved"]
  <2>1. JobEntitled(j) /\ j.run = r
    BY <1>1, <1>5 DEF ApproveRun, Reads, JobEntitled, IdleJob, Continuations
  <2>2. QED BY <1>2, <1>5, <2>1 DEF ApproveRun
<1>6. CASE ApproveApply(p, r)
  <2> DEFINE j == [IdleJob EXCEPT !.pc = "submit", !.run = r, !.target = "planned"]
  <2>1. JobEntitled(j) /\ j.run = r
    BY <1>1, <1>6 DEF ApproveApply, Reads, JobEntitled, IdleJob, Continuations
  <2>2. QED BY <1>2, <1>6, <2>1 DEF ApproveApply
<1>7. CASE PlanApply(p, r)
  <2> DEFINE j == [IdleJob EXCEPT !.pc = "save_plan", !.run = r,
                                  !.inputs = runs[r].inputs]
  <2>1. JobEntitled(j) /\ j.run = r
    BY DEF JobEntitled, IdleJob, Continuations
  <2>2. QED BY <1>2, <1>7, <2>1 DEF PlanApply
<1>8. CASE MarkApplied(p, r)
  <2> DEFINE j == [IdleJob EXCEPT !.pc = "mark_started", !.then = "mark_done", !.run = r]
  <2>1. JobEntitled(j) /\ j.run = r
    BY DEF JobEntitled, IdleJob, Continuations
  <2>2. QED BY <1>2, <1>8, <2>1 DEF MarkApplied
<1>9. CASE CallHostApply(p, r)
  <2> DEFINE j == [IdleJob EXCEPT !.pc = "log", !.run = r,
                                  !.seen = s, !.target = ApplyTarget(s)]
  <2>1. Logged(s, ApplyTarget(s))
    BY <1>9 DEF CallHostApply, Reads, Logged
  <2> HIDE DEF s
  <2>2. JobEntitled(j) /\ j.run = r
    BY <1>1, <2>1 DEF JobEntitled, IdleJob, Continuations
  <2>3. QED BY <1>2, <1>9, <2>2 DEF CallHostApply, s
<1>10. CASE CheckConformance(p, r)
  <2> DEFINE j == [IdleJob EXCEPT !.pc = "load_plan", !.run = r]
  <2>1. JobEntitled(j) /\ j.run = r
    BY <1>1, <1>10 DEF CheckConformance, Reads, JobEntitled, IdleJob, Continuations
  <2>2. QED BY <1>2, <1>10, <2>1 DEF CheckConformance
<1>11. ASSUME RecordException(p, r) PROVE EvidenceInv'
  <2> DEFINE j(role) == [IdleJob EXCEPT !.pc = "fetch_role", !.run = r, !.role = role,
                                        !.target = "exception_recorded"]
  <2>1. PICK role \in Roles : Become(p, j(role))
    BY <1>11 DEF RecordException
  <2>2. JobEntitled(j(role)) /\ j(role).run = r
    BY <1>1, <1>11 DEF RecordException, Reads, JobEntitled, IdleJob, Continuations
  <2>3. QED BY <1>2, <1>11, <2>1, <2>2 DEF RecordException
<1>12. QED BY <1>3, <1>4, <1>5, <1>6, <1>7, <1>8, <1>9, <1>10, <1>11 DEF Start

\* Appending x to a sequence keeps its members and adds x.
LEMMA Appended ==
  ASSUME NEW S, NEW xs \in Seq(S), NEW x \in S
  PROVE  Append(xs, x) # <<>> /\ \E i \in DOMAIN Append(xs, x) : Append(xs, x)[i] = x
<1>1. /\ Len(xs) \in Nat /\ Len(Append(xs, x)) = Len(xs) + 1
      /\ Append(xs, x)[Len(xs) + 1] = x
      /\ Append(xs, x) \in Seq(S)
  OBVIOUS
<1>2. Len(xs) + 1 \in DOMAIN Append(xs, x)
  BY <1>1
<1>3. QED BY <1>1, <1>2

\* The steps that add the evidence for the status that is written next.
LEMMA EvidenceRows ==
  ASSUME TypeOK, EvidenceInv, [Next]_vars, NEW p \in Procs,
         \/ LogTransition(p) \/ SaveApproval(p) \/ SaveResult(p) \/ SaveException(p)
  PROVE  EvidenceInv'
<1> DEFINE k == job[p]
           r == k.run
<1>1. /\ k \in Job /\ r \in Runs /\ JobEntitled(k) /\ k.pc # "idle"
      /\ RequiredRole \in Roles /\ "idle" \in Continuations("update")
  BY RoleAssumption
     DEF LogTransition, SaveApproval, SaveResult, SaveException, TypeOK, JobTypeOK,
         EvidenceInv, Idle, At, Continuations
<1>2. /\ Sufficient(approval[r]) => Sufficient(approval'[r])
      /\ \A outcome : Contains(results[r], outcome) => Contains(results'[r], outcome)
      /\ \A phase : Enters(log[r], phase) => Enters(log'[r], phase)
      /\ exceptions[r] # <<>> => exceptions'[r] # <<>>
      /\ \A s : Entitled(r, s) => Backs(approval'[r], log'[r], results'[r], exceptions'[r], s)
  BY <1>1, RowsStay, EntitledStays
<1>3. ASSUME runs' = runs, Return(p) PROVE EvidenceInv'
  BY <1>3, Goes DEF Return, IdleJob
<1>4. ASSUME runs' = runs, NEW j, Become(p, j), j.pc = "update", j.run = r,
             j.target = k.target, j.then \in Continuations("update"),
             j.then = "record_inputs" => j.target = "resolving",
             Backs(approval'[r], log'[r], results'[r], exceptions'[r], k.target)
      PROVE  EvidenceInv'
  <2>1. job'[p] = j /\ \A q \in Procs \ {p} : job'[q] = job[q]
    BY <1>4, BecomeJob DEF TypeOK
  <2>2. JobEntitled(job[p])'
    BY <1>4, <2>1 DEF JobEntitled, Entitled
  <2>3. QED BY <1>4, <2>1, <2>2, Keeps
<1>5. CASE LogTransition(p)
  <2> DEFINE j == [k EXCEPT !.pc = "update"]
             entry == [from |-> PhaseOf(k.seen), to |-> PhaseOf(k.target)]
             Entries == [from : Phases, to : Phases]
  <2>1. /\ k.pc = "log" /\ runs' = runs /\ log'[r] = Append(log[r], entry) /\ Become(p, j)
        /\ log[r] \in Seq(Entries)
    BY <1>1, <1>5 DEF LogTransition, At, Goto, TypeOK, TablesTypeOK
  <2>2. entry \in Entries /\ entry.to = PhaseOf(k.target)
    BY <1>1, PhaseType DEF Job
  <2> HIDE DEF entry, Entries
  <2>3. Enters(log'[r], PhaseOf(k.target))
    <3>1. PICK i \in DOMAIN Append(log[r], entry) : Append(log[r], entry)[i] = entry
      BY <2>1, <2>2, Appended
    <3>2. QED BY <2>1, <2>2, <3>1 DEF Enters
  <2>4. Backs(approval'[r], log'[r], results'[r], exceptions'[r], k.target)
    <3>1. Entitled(r, k.seen) /\ Logged(k.seen, k.target)
      BY <1>1, <2>1 DEF JobEntitled
    <3>2. QED BY <1>2, <2>3, <3>1, LoggedMoves DEF Backs
  <2>5. /\ j.pc = "update" /\ j.run = r /\ j.target = k.target
        /\ j.then \in Continuations("update")
        /\ j.then = "record_inputs" => j.target = "resolving"
    BY <1>1, <2>1 DEF JobEntitled, Continuations, Job
  <2> HIDE DEF j
  <2>6. QED BY <1>1, <1>4, <2>1, <2>4, <2>5
<1>6. CASE SaveApproval(p)
  <2> DEFINE j == [k EXCEPT !.pc = k.then, !.then = "idle"]
             row == [hash |-> HashOf(k.inputs), role |-> k.role]
  <2>1. k.pc = "save_approval" /\ runs' = runs /\ approval'[r] = row /\ Continue(p)
    BY <1>1, <1>6 DEF SaveApproval, At, TypeOK, TablesTypeOK
  <2>2. k.then \in {"idle", "update"}
    BY <1>1, <2>1 DEF JobEntitled, Continuations
  <2>3. CASE k.then = "idle"
    BY <1>3, <2>1, <2>3 DEF Continue
  <2>4. CASE k.then = "update"
    <3>1. k.target = "approved" /\ Entitled(r, "awaiting_approval") /\ k.role >= RequiredRole
      BY <1>1, <2>1, <2>4 DEF JobEntitled
    <3>2. row \in [hash : Inputs, role : 0 .. 2]
      BY <1>1, InputsAssumption DEF Job, HashOf, Roles
    <3>3. Sufficient(row)
      BY <3>1, <3>2, NullAssumption DEF Sufficient
    <3>4. Enters(log'[r], PhaseOf("approved"))
      BY <1>2, <3>1 DEF Backs, PhaseOf
    <3>5. Backs(approval'[r], log'[r], results'[r], exceptions'[r], "approved")
      BY <2>1, <3>3, <3>4 DEF Backs
    <3>6. /\ j.pc = "update" /\ j.run = r /\ j.target = k.target
          /\ j.then = "idle" /\ Become(p, j)
      BY <1>1, <2>1, <2>4 DEF Continue, Job
    <3> HIDE DEF j
    <3>7. QED BY <1>1, <1>4, <2>1, <3>1, <3>5, <3>6
  <2>5. QED BY <2>2, <2>3, <2>4
<1>7. CASE SaveResult(p)
  <2> DEFINE j == [k EXCEPT !.pc = "update"]
             outcome == IF k.target = "applied" THEN "matching" ELSE "drifted"
  <2>1. /\ k.pc = "save_result" /\ runs' = runs /\ Become(p, j)
        /\ results'[r] = Append(results[r], outcome)
        /\ results[r] \in Seq({"matching", "drifted"})
    BY <1>1, <1>7 DEF SaveResult, At, Goto, TypeOK, TablesTypeOK
  <2>2. Contains(results'[r], outcome)
    <3>1. outcome \in {"matching", "drifted"}
      OBVIOUS
    <3> HIDE DEF outcome
    <3>2. \E i \in DOMAIN Append(results[r], outcome) : Append(results[r], outcome)[i] = outcome
      BY <2>1, <3>1, Appended
    <3>3. QED BY <2>1, <3>2 DEF Contains
  <2>3. k.target \in {"applied", "drifted"} /\ Entitled(r, "conformance_pending")
    BY <1>1, <2>1 DEF JobEntitled
  <2>4. Backs(approval'[r], log'[r], results'[r], exceptions'[r], k.target)
    BY <1>2, <2>2, <2>3 DEF Backs, Gated, Plannable, PhaseOf
  <2>5. /\ j.pc = "update" /\ j.run = r /\ j.target = k.target /\ j.then = "idle"
    BY <1>1, <2>1 DEF JobEntitled, Continuations, Job
  <2> HIDE DEF j
  <2>6. QED BY <1>1, <1>4, <2>1, <2>4, <2>5
<1>8. CASE SaveException(p)
  <2> DEFINE j == [k EXCEPT !.pc = "update"]
             row == [cites |-> k.cite, role |-> k.role, original |-> k.original]
             Rows == [cites : Nat, role : Roles, original : Roles]
  <2>1. /\ k.pc = "save_exception" /\ runs' = runs /\ Become(p, j)
        /\ exceptions'[r] = Append(exceptions[r], row)
        /\ exceptions[r] \in Seq(Rows) /\ row \in Rows
    BY <1>1, <1>8 DEF SaveException, At, Goto, TypeOK, TablesTypeOK, Job
  <2> HIDE DEF row, Rows
  <2>2. exceptions'[r] # <<>>
    BY <2>1, Appended
  <2>3. k.target = "exception_recorded" /\ Entitled(r, "drifted")
    BY <1>1, <2>1 DEF JobEntitled
  <2>4. Backs(approval'[r], log'[r], results'[r], exceptions'[r], k.target)
    BY <1>2, <2>2, <2>3 DEF Backs, Gated, Plannable, PhaseOf
  <2>5. /\ j.pc = "update" /\ j.run = r /\ j.target = k.target /\ j.then = "idle"
    BY <1>1, <2>1 DEF JobEntitled, Continuations, Job
  <2> HIDE DEF j
  <2>6. QED BY <1>1, <1>4, <2>1, <2>4, <2>5
<1>9. QED BY <1>5, <1>6, <1>7, <1>8

\* The other later steps only pass on what the process knows.
LEMMA EvidenceStep ==
  ASSUME TypeOK, EvidenceInv, [Next]_vars, NEW p \in Procs, Step(p)
  PROVE  EvidenceInv'
<1> DEFINE k == job[p]
           r == k.run
<1>1. ASSUME k.pc # "idle" PROVE k \in Job /\ r \in Runs /\ JobEntitled(k)
  BY <1>1 DEF TypeOK, JobTypeOK, EvidenceInv, Idle
<1>2. ASSUME runs' = runs, NEW j, Become(p, j), j.run = r, r \in Runs, JobEntitled(j)
      PROVE  EvidenceInv'
  BY <1>2, Goes
<1>3. ASSUME runs' = runs, Return(p) PROVE EvidenceInv'
  BY <1>3, Goes DEF Return, IdleJob
<1>4. CASE UpdateStatus(p)
  <2>1. /\ k.pc = "update" /\ k \in Job /\ r \in Runs /\ JobEntitled(k)
        /\ runs' = [runs EXCEPT ![r].status = k.target]
        /\ Continue(p)
    BY <1>1, <1>4 DEF UpdateStatus, At
  <2>2. Entitled(r, k.target) /\ k.then \in {"idle", "record_inputs", "mark_done"}
    BY <2>1 DEF JobEntitled, Continuations
  <2>3. \A q \in Runs : runs'[q].status # runs[q].status =>
          Backs(approval'[q], log'[q], results'[q], exceptions'[q], runs'[q].status)
    <3>1. runs'[r].status = k.target /\ \A q \in Runs \ {r} : runs'[q] = runs[q]
      BY <2>1 DEF TypeOK, TablesTypeOK
    <3>2. QED BY <2>1, <2>2, <3>1, EntitledStays
  <2>4. CASE k.then = "idle"
    BY <2>1, <2>3, <2>4, Goes DEF Continue, Return, IdleJob
  <2>5. CASE k.then # "idle"
    <3> DEFINE j == [k EXCEPT !.pc = k.then, !.then = "idle"]
    <3>1. j.run = r /\ JobEntitled(j)
      BY <2>1, <2>2, <2>5 DEF JobEntitled, Continuations, Job
    <3>2. QED BY <2>1, <2>3, <2>5, <3>1, Goes DEF Continue
  <2>6. QED BY <2>4, <2>5
<1>5. CASE RecordInputs(p)
  <2>1. k.pc = "record_inputs" /\ r \in Runs /\ Entitled(r, "resolving")
    BY <1>1, <1>5 DEF RecordInputs, At, JobEntitled
  <2>2. runs'[r].status = "resolving" /\ \A q \in Runs \ {r} : runs'[q] = runs[q]
    BY <2>1, <1>5 DEF RecordInputs, TypeOK, TablesTypeOK
  <2>3. \A q \in Runs : runs'[q].status # runs[q].status =>
          Backs(approval'[q], log'[q], results'[q], exceptions'[q], runs'[q].status)
    BY <2>1, <2>2, EntitledStays
  <2>4. QED BY <1>5, <2>3, Goes DEF RecordInputs, Return, IdleJob
<1>6. CASE SubmitApproval(p)
  <2> DEFINE j(role) == [k EXCEPT !.pc = "save_approval", !.role = role,
                                  !.inputs = runs[r].inputs]
  <2>1. k.pc = "submit" /\ runs' = runs /\ k \in Job /\ r \in Runs /\ JobEntitled(k)
    BY <1>1, <1>6 DEF SubmitApproval, At, tables
  <2>2. PICK role \in Roles : role >= RequiredRole /\ Become(p, j(role))
    BY <1>6 DEF SubmitApproval
  <2>3. j(role).run = r /\ JobEntitled(j(role))
    BY <2>1, <2>2 DEF JobEntitled, Continuations, Job
  <2>4. QED BY <1>2, <2>1, <2>2, <2>3
<1>7. CASE SavePlan(p)
  BY <1>3, <1>7 DEF SavePlan
<1>8. CASE MarkHostApplyStarted(p)
  <2> DEFINE j == [k EXCEPT !.pc = "log", !.seen = "planned",
                            !.target = ApplyTarget("planned")]
  <2>1. /\ k.pc = "mark_started" /\ runs' = runs /\ k \in Job /\ r \in Runs
        /\ JobEntitled(k) /\ runs[r].status = "planned" /\ Become(p, j)
    BY <1>1, <1>8 DEF MarkHostApplyStarted, At, StatusSeenBy, tables
  <2>2. k.then = "mark_done" /\ Entitled(r, "planned")
    BY <2>1 DEF JobEntitled, Continuations, EvidenceInv
  <2>3. j.run = r /\ JobEntitled(j)
    BY <2>1, <2>2 DEF JobEntitled, Continuations, Job, Logged
  <2>4. QED BY <1>2, <2>1, <2>3
<1>9. CASE MarkHostApplyDone(p)
  <2> DEFINE j == [k EXCEPT !.pc = "log", !.seen = "host_apply_in_progress",
                            !.target = ApplyTarget("host_apply_in_progress")]
  <2>1. /\ k.pc = "mark_done" /\ runs' = runs /\ k \in Job /\ r \in Runs
        /\ JobEntitled(k) /\ runs[r].status = "host_apply_in_progress" /\ Become(p, j)
    BY <1>1, <1>9 DEF MarkHostApplyDone, At, StatusSeenBy, tables
  <2>2. k.then = "idle" /\ Entitled(r, "host_apply_in_progress")
    BY <2>1 DEF JobEntitled, Continuations, EvidenceInv
  <2>3. j.run = r /\ JobEntitled(j)
    BY <2>1, <2>2 DEF JobEntitled, Continuations, Job, Logged
  <2>4. QED BY <1>2, <2>1, <2>3
<1>10. CASE LoadPlan(p)
  <2> DEFINE j == [k EXCEPT !.pc = "read_host",
                            !.surfaces = AdapterRenders /\ plans[r] # <<>>]
  <2>1. /\ k.pc = "load_plan" /\ runs' = runs /\ k \in Job /\ r \in Runs
        /\ JobEntitled(k) /\ Become(p, j)
    BY <1>1, <1>10 DEF LoadPlan, At, tables
  <2>2. j.run = r /\ JobEntitled(j)
    BY <2>1 DEF JobEntitled, Continuations, Job
  <2>3. QED BY <1>2, <2>1, <2>2
<1>11. CASE ReadHost(p)
  <2> DEFINE j(outcome) == [k EXCEPT !.pc = "save_result", !.target = outcome]
  <2>1. k.pc = "read_host" /\ runs' = runs /\ k \in Job /\ r \in Runs /\ JobEntitled(k)
    BY <1>1, <1>11 DEF ReadHost, At, tables
  <2>2. PICK outcome \in {"applied", "drifted"} : Become(p, j(outcome))
    BY <1>11 DEF ReadHost
  <2>3. j(outcome).run = r /\ JobEntitled(j(outcome))
    BY <2>1, <2>2 DEF JobEntitled, Continuations, Job
  <2>4. QED BY <1>2, <2>1, <2>2, <2>3
<1>12. CASE FetchRole(p)
  <2> DEFINE j(original) == [k EXCEPT !.pc = "fetch_result", !.original = original]
  <2>1. k.pc = "fetch_role" /\ runs' = runs /\ k \in Job /\ r \in Runs /\ JobEntitled(k)
    BY <1>1, <1>12 DEF FetchRole, At, tables
  <2>2. PICK original \in Roles : Become(p, j(original))
    BY <1>12 DEF FetchRole
  <2>3. j(original).run = r /\ JobEntitled(j(original))
    BY <2>1 DEF JobEntitled, Continuations, Job
  <2>4. QED BY <1>2, <2>1, <2>2, <2>3
<1>13. CASE FetchResult(p)
  <2> DEFINE j(cite) == [k EXCEPT !.pc = "save_exception", !.cite = cite]
  <2>1. k.pc = "fetch_result" /\ runs' = runs /\ k \in Job /\ r \in Runs /\ JobEntitled(k)
    BY <1>1, <1>13 DEF FetchResult, At, tables
  <2>2. PICK cite : Become(p, j(cite))
    BY <1>13 DEF FetchResult
  <2>3. j(cite).run = r /\ JobEntitled(j(cite))
    BY <2>1 DEF JobEntitled, Continuations, Job
  <2>4. QED BY <1>2, <2>1, <2>2, <2>3
<1>14. CASE Refuse(p)
  BY <1>3, <1>14 DEF Refuse, tables
<1>15. CASE LogTransition(p) \/ SaveApproval(p) \/ SaveResult(p) \/ SaveException(p)
  BY <1>15, EvidenceRows
<1>16. QED
  BY <1>4, <1>5, <1>6, <1>7, <1>8, <1>9, <1>10, <1>11, <1>12, <1>13, <1>14, <1>15
  DEF Step

LEMMA EvidenceNext == TypeOK /\ EvidenceInv /\ [Next]_vars => EvidenceInv'
<1> SUFFICES ASSUME TypeOK, EvidenceInv, [Next]_vars PROVE EvidenceInv'
  OBVIOUS
<1>1. ASSUME NEW p \in Procs, Abort(p) PROVE EvidenceInv'
  BY <1>1, Goes DEF Abort, Return, IdleJob, tables
<1>2. CASE UNCHANGED vars
  BY <1>2 DEF vars, EvidenceInv, Entitled, JobEntitled, Idle
<1>3. QED BY <1>1, <1>2, EvidenceStart, EvidenceStep DEF Next

\* Whatever interleaves or is cut off, every status in the table and every
\* status on its way to the table is backed by committed rows
\* (store/postgres.py, engine/runner.py, engine/conformance.py).
THEOREM EvidenceFirst == Spec => []EvidenceInv
BY TypeCorrect, EvidenceInit, EvidenceNext, PTL DEF Spec

\* The gate holds for any number of processes, runs and crashes: no run is
\* behind the approval without an approval row of a sufficient role
\* (cli/run.py _handle_approve, engine/approval.py submit_approval).
THEOREM GateHolds == Spec => []ApprovalGate
<1>1. EvidenceInv => ApprovalGate
  BY DEF EvidenceInv, ApprovalGate, Entitled, Backs
<1>2. QED BY <1>1, EvidenceFirst, PTL

\* A judgement is never in the table before its conformance result, nor a
\* recorded exception before its row (engine/conformance.py).
THEOREM OutcomeHolds == Spec => []OutcomeEvidence
<1>1. EvidenceInv => OutcomeEvidence
  BY DEF EvidenceInv, OutcomeEvidence, Entitled, Backs
<1>2. QED BY <1>1, EvidenceFirst, PTL

\* The transition log is never behind the status (engine/runner.py
\* _transition).
THEOREM LogHolds == Spec => []LogCoversStatus
<1>1. EvidenceInv => LogCoversStatus
  BY DEF EvidenceInv, LogCoversStatus, Entitled, Backs
<1>2. QED BY <1>1, EvidenceFirst, PTL

-----------------------------------------------------------------------------
(* The order of the transition log.                                         *)

LEMMA LogOrderedNext == TypeOK /\ EvidenceInv /\ LogOrdered /\ [Next]_vars => LogOrdered'
<1> SUFFICES ASSUME TypeOK, EvidenceInv, LogOrdered, [Next]_vars PROVE LogOrdered'
  OBVIOUS
<1>1. ASSUME NEW p \in Procs, LogTransition(p) PROVE LogOrdered'
  <2> DEFINE k == job[p]
             r == k.run
             entry == [from |-> PhaseOf(k.seen), to |-> PhaseOf(k.target)]
             Entries == [from : Phases, to : Phases]
  <2>1. /\ r \in Runs /\ k \in Job /\ log[r] \in Seq(Entries)
        /\ log' = [log EXCEPT ![r] = Append(log[r], entry)]
        /\ Logged(k.seen, k.target) /\ Entitled(r, k.seen)
    BY <1>1 DEF LogTransition, TypeOK, TablesTypeOK, JobTypeOK, EvidenceInv, JobEntitled,
       At, Idle
  <2>2. entry \in Entries /\ entry.from = PhaseOf(k.seen)
    BY <2>1, PhaseType DEF Job
  <2>3. \/ entry.from = "resolve"
        \/ \E i \in DOMAIN log[r] : log[r][i].to = entry.from
    BY <2>1, <2>2, LoggedMoves DEF Entitled, Backs, Enters, PhaseOf
  <2> HIDE DEF entry, Entries
  <2>4. /\ Len(log[r]) \in Nat /\ DOMAIN log[r] = 1 .. Len(log[r])
        /\ DOMAIN log'[r] = 1 .. Len(log[r]) + 1
        /\ log'[r][Len(log[r]) + 1] = entry
        /\ \A i \in DOMAIN log[r] : log'[r][i] = log[r][i]
    BY <2>1, <2>2 DEF TypeOK, TablesTypeOK
  <2>5. ASSUME NEW i \in DOMAIN log'[r]
        PROVE  \/ log'[r][i].from = "resolve"
               \/ \E n \in 1 .. i - 1 : log'[r][n].to = log'[r][i].from
    <3>1. CASE i = Len(log[r]) + 1
      BY <2>3, <2>4, <3>1
    <3>2. CASE i # Len(log[r]) + 1
      <4>1. i \in DOMAIN log[r] /\ \A n \in 1 .. i - 1 : n \in DOMAIN log[r]
        BY <2>4, <3>2
      <4>2. QED BY <2>1, <2>4, <4>1 DEF LogOrdered
    <3>3. QED BY <3>1, <3>2
  <2>6. \A q \in Runs \ {r} : log'[q] = log[q]
    BY <2>1 DEF TypeOK, TablesTypeOK
  <2>7. QED BY <2>5, <2>6 DEF LogOrdered
<1>2. CASE UNCHANGED log
  BY <1>2 DEF LogOrdered
<1>3. \/ UNCHANGED log
      \/ \E p \in Procs : LogTransition(p)
  BY StartEffect, StepEffect DEF Next, vars, tables, Abort
<1>4. QED BY <1>1, <1>2, <1>3

\* Phase changes are logged in order, also when operations on the same run
\* overlap: an entry never leaves a phase nobody has entered
\* (engine/runner.py _transition, store/postgres.py add_transition).
THEOREM LogOrderHolds == Spec => []LogOrdered
<1>1. Init => LogOrdered
  BY DEF Init, LogOrdered
<1>2. QED BY <1>1, TypeCorrect, EvidenceFirst, LogOrderedNext, PTL DEF Spec


-----------------------------------------------------------------------------
(* One process at a time: invocations follow one another, each may be cut   *)
(* off anywhere.                                                            *)

OneProcess == \A p, q \in Procs : p = q

\* The entry that the transition from a to b leaves in the log.
Entry(a, b) == [from |-> PhaseOf(a), to |-> PhaseOf(b)]
Newest(rows) == rows[Len(rows)]

\* How the log es of a run in status s grows: its last entry is a transition
\* that is still to be made, or has led to the phase the run is in.
Logs(s, es) ==
    /\ s = "absent" => es = <<>>
    /\ s \notin {"absent", "pending"} => es # <<>>
    /\ \A i \in 1 .. Len(es) - 1 : es[i + 1].from = es[i].to \/ es[i + 1] = es[i]
    /\ es # <<>> => \E a, b \in Statuses :
          /\ Logged(a, b) /\ Newest(es) = Entry(a, b)
          /\ s = a \/ PhaseOf(s) = PhaseOf(b)

\* The approval is for the inputs, and so are the plans that came after it.
Binds(run, row, hashes) ==
    /\ row # Null => /\ run.status \in Gated \cup {"awaiting_approval"}
                     /\ row.hash = HashOf(run.inputs)
    /\ \A i \in DOMAIN hashes : row # Null /\ hashes[i] = PlanHash(row.hash)

\* The judgement is that of the last result; only a drift is accepted, when it
\* is the judgement.
Judges(s, outcomes, accepted) ==
    /\ s = "applied" => outcomes # <<>> /\ Newest(outcomes) = "matching"
    /\ s \in {"drifted", "exception_recorded"} =>
          outcomes # <<>> /\ Newest(outcomes) = "drifted"
    /\ \A i \in DOMAIN accepted : /\ accepted[i].cites \in DOMAIN outcomes
                                  /\ outcomes[accepted[i].cites] = "drifted"
    /\ accepted # <<>> => s \in {"drifted", "exception_recorded"}

\* A role that record_exception may take for that of the approval row.
ReadFrom(original, row) == original = row.role \/ (ReadsMayFail /\ original = 0)

\* Exceptions are held against the role that was read from the approval.
HeldTo(row, accepted) ==
    \A i \in DOMAIN accepted :
        /\ row # Null
        /\ accepted[i].role >= accepted[i].original
        /\ ReadFrom(accepted[i].original, row)

\* The steps of a run's status.
Follows(s, t) ==
    \/ Logged(s, t)
    \/ s = "awaiting_approval" /\ t = "approved"
    \/ s = "conformance_pending" /\ t \in {"applied", "drifted"}
    \/ s = "drifted" /\ t = "exception_recorded"

\* What a process with job j has read is as it was: nobody else wrote.
Current(j, run, es, row, outcomes) ==
    /\ j.pc = "log" => run.status = j.seen
    /\ j.pc = "update" =>
          /\ Follows(run.status, j.target)
          /\ es # <<>> /\ Newest(es).to = PhaseOf(j.target)
          /\ j.target = "applied" => outcomes # <<>> /\ Newest(outcomes) = "matching"
          /\ j.target = "drifted" => outcomes # <<>> /\ Newest(outcomes) = "drifted"
    /\ j.pc = "record_inputs" => run.status = "resolving"
    /\ j.pc \in {"submit", "save_approval"} =>
          run.status = IF j.then = "update" THEN "awaiting_approval" ELSE "planned"
    /\ j.pc = "save_plan" => run.status \in Plannable
    /\ j.pc \in {"save_approval", "save_plan"} => j.inputs = run.inputs
    /\ j.pc \in {"load_plan", "read_host", "save_result"} => run.status = "conformance_pending"
    /\ j.pc \in {"fetch_role", "fetch_result", "save_exception"} => run.status = "drifted"
    /\ j.pc \in {"fetch_result", "save_exception"} => ReadFrom(j.original, row)
    /\ j.pc = "save_exception" => j.cite \in {0, Len(outcomes)}

SerialInv ==
    /\ \A r \in Runs : /\ Logs(runs[r].status, log[r])
                       /\ Binds(runs[r], approval[r], plans[r])
                       /\ Judges(runs[r].status, results[r], exceptions[r])
                       /\ HeldTo(approval[r], exceptions[r])
    /\ \A p \in Procs : ~Idle(p) =>
          LET r == job[p].run IN
          Current(job[p], runs[r], log[r], approval[r], results[r])

\* A status goes on: never back to the first ones, never off an approval, and
\* to a judgement or its acceptance only from the status before it.
LEMMA FollowsMoves ==
  ASSUME NEW s, NEW t, Follows(s, t)
  PROVE  /\ s \in Statuses \ {"absent"} /\ t \in Statuses \ {"absent", "pending"}
         /\ s \in Gated \cup {"awaiting_approval"} => t \in Gated
         /\ t \in {"applied", "drifted"} => s = "conformance_pending"
         /\ t = "exception_recorded" <=> s = "drifted"
         /\ s # "exception_recorded"
BY DEF Follows, Logged, Advanceable, NextStatus, ApplyTarget, Statuses, Gated, Plannable

\* A status that is left by a logged transition is left by one only.
LEMMA LoggedOnce ==
  ASSUME NEW s, NEW t, NEW u, Logged(s, t), Logged(s, u)
  PROVE  t = u /\ t \in Statuses /\ s \in Statuses \ {"absent"}
BY DEF Logged, Advanceable, NextStatus, ApplyTarget, Statuses

\* The members of a sequence after an append.
LEMMA Lengthened ==
  ASSUME NEW S, NEW xs \in Seq(S), NEW x \in S
  PROVE  /\ Len(xs) \in Nat /\ Append(xs, x) # <<>>
         /\ Len(Append(xs, x)) = Len(xs) + 1 /\ Newest(Append(xs, x)) = x
         /\ DOMAIN xs = 1 .. Len(xs) /\ DOMAIN Append(xs, x) = 1 .. Len(xs) + 1
         /\ \A i \in 1 .. Len(xs) : Append(xs, x)[i] = xs[i]
BY DEF Newest

\* A member is the one appended or was there before.
LEMMA LengthenedMembers ==
  ASSUME NEW S, NEW xs \in Seq(S), NEW x \in S, NEW ys, ys = Append(xs, x)
  PROVE  \A i \in DOMAIN ys : ys[i] = x \/ (i \in DOMAIN xs /\ ys[i] = xs[i])
<1>1. /\ Len(xs) \in Nat /\ DOMAIN xs = 1 .. Len(xs) /\ DOMAIN ys = 1 .. Len(xs) + 1
      /\ ys[Len(xs) + 1] = x /\ \A i \in 1 .. Len(xs) : ys[i] = xs[i]
  OBVIOUS
<1>2. PICK n \in Nat : n = Len(xs)
  BY <1>1
<1>3. ASSUME NEW i \in DOMAIN ys, i # n + 1
      PROVE  i \in DOMAIN xs /\ ys[i] = xs[i]
  <2>1. DOMAIN xs = 1 .. n /\ i \in 1 .. n + 1 /\ \A m \in 1 .. n : ys[m] = xs[m]
    BY <1>1, <1>2
  <2>2. i \in 1 .. n
    BY <1>3, <2>1
  <2>3. QED BY <2>1, <2>2
<1>4. ys[n + 1] = x
  BY <1>1, <1>2
<1>5. QED BY <1>3, <1>4

\* The entry of a transition.
LEMMA EntryType ==
  ASSUME NEW a \in Statuses, NEW b \in Statuses
  PROVE  /\ Entry(a, b) \in [from : Phases, to : Phases]
         /\ Entry(a, b).from = PhaseOf(a) /\ Entry(a, b).to = PhaseOf(b)
BY PhaseType DEF Entry

\* The log goes on with the next transition, or repeats one that was cut off.
LEMMA LogsEntry ==
  ASSUME NEW s, NEW t, Logged(s, t), NEW es \in Seq([from : Phases, to : Phases]),
         Logs(s, es)
  PROVE  /\ Logs(s, Append(es, Entry(s, t)))
         /\ Append(es, Entry(s, t)) # <<>>
         /\ Newest(Append(es, Entry(s, t))).to = PhaseOf(t)
<1>1. s \in Statuses \ {"absent"} /\ t \in Statuses
  BY LoggedOnce
<1> DEFINE x == Entry(s, t)
           S == [from : Phases, to : Phases]
<1>2. x \in S /\ x.from = PhaseOf(s) /\ x.to = PhaseOf(t)
  BY <1>1, EntryType
<1>3. es # <<>> => x.from = Newest(es).to \/ x = Newest(es)
  <2> SUFFICES ASSUME es # <<>> PROVE x.from = Newest(es).to \/ x = Newest(es)
    OBVIOUS
  <2>1. PICK a, b \in Statuses : /\ Logged(a, b) /\ Newest(es) = Entry(a, b)
                                 /\ s = a \/ PhaseOf(s) = PhaseOf(b)
    BY DEF Logs
  <2>2. CASE s = a
    BY <2>1, <2>2, LoggedOnce
  <2>3. CASE PhaseOf(s) = PhaseOf(b)
    BY <1>2, <2>1, <2>3, EntryType
  <2>4. QED BY <2>1, <2>2, <2>3
<1>4. es \in Seq(S)
  OBVIOUS
<1>5. s \in Statuses /\ t \in Statuses /\ Logged(s, t) /\ x = Entry(s, t)
  BY <1>1
<1> HIDE DEF x, S
<1> DEFINE new == Append(es, x)
<1>6. /\ Len(es) \in Nat /\ new # <<>>
      /\ Len(new) = Len(es) + 1 /\ Newest(new) = x /\ new[Len(es) + 1] = x
      /\ \A i \in 1 .. Len(es) : new[i] = es[i]
  BY <1>2, <1>4, Lengthened DEF Newest
<1> HIDE DEF new
<1>7. ASSUME NEW i \in 1 .. Len(new) - 1
      PROVE  new[i + 1].from = new[i].to \/ new[i + 1] = new[i]
  <2>1. CASE i = Len(es)
    <3>1. es # <<>> /\ new[i] = Newest(es) /\ new[i + 1] = x
      BY <1>4, <1>6, <2>1 DEF Newest
    <3>2. QED BY <1>3, <3>1
  <2>2. CASE i # Len(es)
    <3>1. i \in 1 .. Len(es) - 1 /\ new[i] = es[i] /\ new[i + 1] = es[i + 1]
      BY <1>6, <2>2
    <3>2. QED BY <3>1 DEF Logs
  <2>3. QED BY <2>1, <2>2
<1>8. Logs(s, new)
  BY <1>1, <1>5, <1>6, <1>7 DEF Logs
<1>9. QED BY <1>2, <1>6, <1>8 DEF new, x

\* The log needs no entry for a status in the phase that was entered last.
LEMMA LogsMove ==
  ASSUME NEW s, NEW t, t # "absent", NEW es, Logs(s, es), es # <<>>,
         Newest(es).to = PhaseOf(t)
  PROVE  Logs(t, es)
<1>1. PICK a, b \in Statuses : Logged(a, b) /\ Newest(es) = Entry(a, b)
  BY DEF Logs
<1>2. PhaseOf(t) = PhaseOf(b)
  BY <1>1, EntryType
<1>3. QED BY <1>1, <1>2 DEF Logs

\* A status that no logged transition leaves is in the phase entered last.
LEMMA LogsPhase ==
  ASSUME NEW s \in {"awaiting_approval", "conformance_pending", "drifted"},
         NEW es, Logs(s, es)
  PROVE  es # <<>> /\ Newest(es).to = PhaseOf(s)
<1>1. es # <<>> /\ \A b : ~Logged(s, b)
  BY DEF Logs, Logged, Advanceable
<1>2. PICK a, b \in Statuses : /\ Logged(a, b) /\ Newest(es) = Entry(a, b)
                               /\ s = a \/ PhaseOf(s) = PhaseOf(b)
  BY <1>1 DEF Logs
<1>3. QED BY <1>1, <1>2, EntryType

\* One process: what its step does to run r is all that happens.
LEMMA SerialKeeps ==
  ASSUME OneProcess, TypeOK, SerialInv, NEW p \in Procs, NEW r \in Runs,
         NEW j, Become(p, j),
         \A q \in Runs \ {r} :
            /\ runs'[q] = runs[q] /\ log'[q] = log[q] /\ approval'[q] = approval[q]
            /\ plans'[q] = plans[q] /\ results'[q] = results[q]
            /\ exceptions'[q] = exceptions[q],
         Logs(runs'[r].status, log'[r]),
         Binds(runs'[r], approval'[r], plans'[r]),
         Judges(runs'[r].status, results'[r], exceptions'[r]),
         HeldTo(approval'[r], exceptions'[r]),
         j.pc # "idle" =>
            j.run = r /\ Current(j, runs'[r], log'[r], approval'[r], results'[r])
  PROVE  SerialInv'
<1>1. job'[p] = j /\ \A q \in Procs : q = p
  BY BecomeJob DEF TypeOK, OneProcess
<1>2. ASSUME NEW q \in Runs
      PROVE  /\ Logs(runs'[q].status, log'[q])
             /\ Binds(runs'[q], approval'[q], plans'[q])
             /\ Judges(runs'[q].status, results'[q], exceptions'[q])
             /\ HeldTo(approval'[q], exceptions'[q])
  <2>1. CASE q = r
    BY <2>1
  <2>2. CASE q # r
    BY <2>2 DEF SerialInv
  <2>3. QED BY <2>1, <2>2
<1>3. ASSUME NEW q \in Procs, job'[q].pc # "idle"
      PROVE  LET n == job'[q].run IN
             Current(job'[q], runs'[n], log'[n], approval'[n], results'[n])
  BY <1>1, <1>3
<1>4. QED BY <1>2, <1>3 DEF SerialInv, Idle, Logs, Binds, Judges, HeldTo, Current

\* A step that changes no table but that of the plans or of the flags.
LEMMA SerialPasses ==
  ASSUME OneProcess, TypeOK, SerialInv, NEW p \in Procs, NEW r \in Runs,
         NEW j, Become(p, j), UNCHANGED tables,
         j.pc # "idle" =>
            j.run = r /\ Current(j, runs[r], log[r], approval[r], results[r])
  PROVE  SerialInv'
<1>1. /\ runs' = runs /\ log' = log /\ approval' = approval /\ plans' = plans
      /\ results' = results /\ exceptions' = exceptions
  BY DEF tables
<1>2. /\ Logs(runs[r].status, log[r]) /\ Binds(runs[r], approval[r], plans[r])
      /\ Judges(runs[r].status, results[r], exceptions[r])
      /\ HeldTo(approval[r], exceptions[r])
  BY DEF SerialInv
<1>3. QED BY <1>1, <1>2, SerialKeeps

\* No run has begun and no process is at work.
LEMMA SerialInit == Init => SerialInv
<1> SUFFICES ASSUME Init PROVE SerialInv
  OBVIOUS
<1>1. ASSUME NEW r \in Runs
      PROVE  /\ Logs(runs[r].status, log[r]) /\ Binds(runs[r], approval[r], plans[r])
             /\ Judges(runs[r].status, results[r], exceptions[r])
             /\ HeldTo(approval[r], exceptions[r])
  BY DEF Init, Logs, Binds, Judges, HeldTo
<1>2. \A p \in Procs : Idle(p)
  BY DEF Init, Idle, IdleJob
<1>3. QED BY <1>1, <1>2 DEF SerialInv

\* An operation begins with what it has just read.
LEMMA SerialStart ==
  ASSUME OneProcess, TypeOK, SerialInv, NEW p \in Procs, NEW r \in Runs, Start(p, r)
  PROVE  SerialInv'
<1> DEFINE s == runs[r].status
<1>1. /\ Logs(s, log[r]) /\ Binds(runs[r], approval[r], plans[r])
      /\ Judges(s, results[r], exceptions[r])
  BY DEF SerialInv
<1>2. ASSUME UNCHANGED tables, NEW j, Become(p, j), j.run = r,
             Current(j, runs[r], log[r], approval[r], results[r])
      PROVE  SerialInv'
  BY <1>2, SerialPasses
<1>3. ASSUME NEW in \in Inputs, StartRun(p, r, in) PROVE SerialInv'
  <2> DEFINE j == [IdleJob EXCEPT !.pc = "log", !.then = "record_inputs", !.run = r,
                                  !.seen = "pending", !.target = "resolving",
                                  !.inputs = in]
             run == [status |-> "pending", inputs |-> Null]
  <2>1. /\ s = "absent" /\ Become(p, j) /\ runs'[r] = run
        /\ \A q \in Runs \ {r} : runs'[q] = runs[q]
        /\ UNCHANGED <<log, approval, plans, results, exceptions>>
    BY <1>3 DEF StartRun, Reads, TypeOK, TablesTypeOK
  <2>2. log[r] = <<>> /\ approval[r] = Null
    BY <1>1, <2>1 DEF Logs, Binds, Gated, Plannable
  <2>3. Logs("pending", log[r]) /\ Binds(run, approval[r], plans[r])
    BY <1>1, <2>2 DEF Logs, Binds
  <2>4. Judges("pending", results[r], exceptions[r])
    BY <1>1, <2>1 DEF Judges
  <2>5. j.run = r /\ Current(j, run, log[r], approval[r], results[r])
    BY DEF Current, IdleJob
  <2>6. HeldTo(approval[r], exceptions[r])
    BY DEF SerialInv
  <2> HIDE DEF j
  <2>7. run.status = "pending"
    OBVIOUS
  <2> HIDE DEF run
  <2>8. QED BY <2>1, <2>3, <2>4, <2>5, <2>6, <2>7, SerialKeeps
<1>4. CASE Advance(p, r)
  <2> DEFINE j == [IdleJob EXCEPT !.pc = "log", !.run = r,
                                  !.seen = s, !.target = NextStatus(s)]
  <2>1. j.run = r /\ Current(j, runs[r], log[r], approval[r], results[r])
    BY DEF Current, IdleJob
  <2>2. QED BY <1>2, <1>4, <2>1 DEF Advance
<1>5. CASE ApproveRun(p, r)
  <2> DEFINE j == [IdleJob EXCEPT !.pc = "submit", !.then = "update", !.run = r,
                                  !.target = "approved"]
  <2>1. j.run = r /\ Current(j, runs[r], log[r], approval[r], results[r])
    BY <1>5 DEF ApproveRun, Reads, Current, IdleJob
  <2>2. QED BY <1>2, <1>5, <2>1 DEF ApproveRun
<1>6. CASE ApproveApply(p, r)
  <2> DEFINE j == [IdleJob EXCEPT !.pc = "submit", !.run = r, !.target = "planned"]
  <2>1. j.run = r /\ Current(j, runs[r], log[r], approval[r], results[r])
    BY <1>6 DEF ApproveApply, Reads, Current, IdleJob
  <2>2. QED BY <1>2, <1>6, <2>1 DEF ApproveApply
<1>7. CASE PlanApply(p, r)
  <2> DEFINE j == [IdleJob EXCEPT !.pc = "save_plan", !.run = r,
                                  !.inputs = runs[r].inputs]
  <2>1. j.run = r /\ Current(j, runs[r], log[r], approval[r], results[r])
    BY <1>7 DEF PlanApply, Reads, Current, IdleJob
  <2>2. QED BY <1>2, <1>7, <2>1 DEF PlanApply
<1>8. CASE MarkApplied(p, r)
  <2> DEFINE j == [IdleJob EXCEPT !.pc = "mark_started", !.then = "mark_done", !.run = r]
  <2>1. j.run = r /\ Current(j, runs[r], log[r], approval[r], results[r])
    BY DEF Current, IdleJob
  <2>2. QED BY <1>2, <1>8, <2>1 DEF MarkApplied
<1>9. CASE CallHostApply(p, r)
  <2> DEFINE j == [IdleJob EXCEPT !.pc = "log", !.run = r,
                                  !.seen = s, !.target = ApplyTarget(s)]
  <2>1. j.run = r /\ Current(j, runs[r], log[r], approval[r], results[r])
    BY DEF Current, IdleJob
  <2>2. QED BY <1>2, <1>9, <2>1 DEF CallHostApply
<1>10. CASE CheckConformance(p, r)
  <2> DEFINE j == [IdleJob EXCEPT !.pc = "load_plan", !.run = r]
  <2>1. j.run = r /\ Current(j, runs[r], log[r], approval[r], results[r])
    BY <1>10 DEF CheckConformance, Reads, Current, IdleJob
  <2>2. QED BY <1>2, <1>10, <2>1 DEF CheckConformance
<1>11. ASSUME RecordException(p, r) PROVE SerialInv'
  <2> DEFINE j(role) == [IdleJob EXCEPT !.pc = "fetch_role", !.run = r, !.role = role,
                                        !.target = "exception_recorded"]
  <2>1. PICK role \in Roles : Become(p, j(role))
    BY <1>11 DEF RecordException
  <2>2. j(role).run = r /\ Current(j(role), runs[r], log[r], approval[r], results[r])
    BY <1>11 DEF RecordException, Reads, Current, IdleJob
  <2>3. QED BY <1>2, <1>11, <2>1, <2>2 DEF RecordException
<1>12. QED BY <1>3, <1>4, <1>5, <1>6, <1>7, <1>8, <1>9, <1>10, <1>11 DEF Start

\* The steps of an operation that write no table.
LEMMA SerialReads ==
  ASSUME OneProcess, TypeOK, EvidenceInv, SerialInv, NEW p \in Procs,
         \/ SubmitApproval(p) \/ MarkHostApplyStarted(p) \/ MarkHostApplyDone(p)
         \/ LoadPlan(p) \/ ReadHost(p) \/ FetchRole(p) \/ FetchResult(p) \/ Refuse(p)
         \/ Abort(p)
  PROVE  SerialInv'
<1> DEFINE k == job[p]
           r == k.run
           Known(j) == Current(j, runs[r], log[r], approval[r], results[r])
<1>1. /\ k.pc # "idle" /\ k \in Job /\ r \in Runs /\ JobEntitled(k)
      /\ UNCHANGED tables
  <2>1. k.pc # "idle" /\ UNCHANGED tables
    BY DEF SubmitApproval, MarkHostApplyStarted, MarkHostApplyDone, LoadPlan, ReadHost,
       FetchRole, FetchResult, Refuse, Abort, At, Idle
  <2>2. QED BY <2>1 DEF TypeOK, JobTypeOK, EvidenceInv, Idle
<1>2. Known(k)
  BY <1>1 DEF SerialInv, Idle
<1>3. ASSUME NEW j, Become(p, j), j.run = r, Known(j) PROVE SerialInv'
  BY <1>1, <1>3, SerialPasses
<1>4. ASSUME Return(p) PROVE SerialInv'
  BY <1>1, <1>4, SerialPasses DEF Return, IdleJob
<1>5. CASE SubmitApproval(p)
  <2> DEFINE j(role) == [k EXCEPT !.pc = "save_approval", !.role = role,
                                  !.inputs = runs[r].inputs]
  <2>1. PICK role \in Roles : Become(p, j(role))
    BY <1>5 DEF SubmitApproval
  <2>2. j(role).run = r /\ Known(j(role))
    BY <1>1, <1>2, <1>5 DEF SubmitApproval, At, Current, Job
  <2>3. QED BY <1>3, <2>1, <2>2
<1>6. CASE MarkHostApplyStarted(p)
  <2> DEFINE j == [k EXCEPT !.pc = "log", !.seen = "planned",
                            !.target = ApplyTarget("planned")]
  <2>1. Become(p, j) /\ j.run = r /\ Known(j)
    BY <1>1, <1>6 DEF MarkHostApplyStarted, StatusSeenBy, Current, Job
  <2>2. QED BY <1>3, <2>1
<1>7. CASE MarkHostApplyDone(p)
  <2> DEFINE j == [k EXCEPT !.pc = "log", !.seen = "host_apply_in_progress",
                            !.target = ApplyTarget("host_apply_in_progress")]
  <2>1. Become(p, j) /\ j.run = r /\ Known(j)
    BY <1>1, <1>7 DEF MarkHostApplyDone, StatusSeenBy, Current, Job
  <2>2. QED BY <1>3, <2>1
<1>8. CASE LoadPlan(p)
  <2> DEFINE j == [k EXCEPT !.pc = "read_host",
                            !.surfaces = AdapterRenders /\ plans[r] # <<>>]
  <2>1. Become(p, j) /\ j.run = r /\ Known(j)
    BY <1>1, <1>2, <1>8 DEF LoadPlan, At, Current, Job
  <2>2. QED BY <1>3, <2>1
<1>9. CASE ReadHost(p)
  <2> DEFINE j(outcome) == [k EXCEPT !.pc = "save_result", !.target = outcome]
  <2>1. PICK outcome \in {"applied", "drifted"} : Become(p, j(outcome))
    BY <1>9 DEF ReadHost
  <2>2. j(outcome).run = r /\ Known(j(outcome))
    BY <1>1, <1>2, <1>9 DEF ReadHost, At, Current, Job
  <2>3. QED BY <1>3, <2>1, <2>2
<1>10. CASE FetchRole(p)
  <2> DEFINE j(original) == [k EXCEPT !.pc = "fetch_result", !.original = original]
  <2>1. PICK original \in Roles :
          /\ Become(p, j(original))
          /\ \/ original = IF approval[r] = Null THEN 0 ELSE approval[r].role
             \/ ReadsMayFail /\ original = 0
    BY <1>10 DEF FetchRole
  <2>2. runs[r].status = "drifted"
    BY <1>2, <1>10 DEF FetchRole, At, Current
  <2>3. approval[r] # Null
    BY <1>1, <2>2 DEF EvidenceInv, Entitled, Backs, Gated, Plannable, Sufficient
  <2>4. j(original).run = r /\ Known(j(original))
    BY <1>1, <2>1, <2>2, <2>3 DEF Current, ReadFrom, Job
  <2>5. QED BY <1>3, <2>1, <2>4
<1>11. CASE FetchResult(p)
  <2> DEFINE j(cite) == [k EXCEPT !.pc = "save_exception", !.cite = cite]
  <2>1. PICK cite \in {0, Len(results[r])} : Become(p, j(cite))
    BY <1>11 DEF FetchResult
  <2>2. j(cite).run = r /\ Known(j(cite))
    BY <1>1, <1>2, <1>11, <2>1 DEF FetchResult, At, Current, Job
  <2>3. QED BY <1>3, <2>1, <2>2
<1>12. CASE Refuse(p) \/ Abort(p)
  BY <1>4, <1>12 DEF Refuse, Abort
<1>13. QED BY <1>5, <1>6, <1>7, <1>8, <1>9, <1>10, <1>11, <1>12

\* The hash of an approval and that of a plan agree on the inputs.
LEMMA PlanOfApproval == \A in : PlanHash(HashOf(in)) = PlanHash(in)
BY DEF PlanHash, HashOf

\* The log and the status that follows it.
LEMMA SerialMoves ==
  ASSUME OneProcess, TypeOK, EvidenceInv, SerialInv, NEW p \in Procs,
         LogTransition(p) \/ UpdateStatus(p) \/ RecordInputs(p)
  PROVE  SerialInv'
<1> DEFINE k == job[p]
           r == k.run
           s == runs[r].status
           t == k.target
<1>1. /\ k.pc # "idle" /\ k \in Job /\ r \in Runs /\ JobEntitled(k)
      /\ Current(k, runs[r], log[r], approval[r], results[r])
  <2>1. k.pc # "idle"
    BY DEF LogTransition, UpdateStatus, RecordInputs, At
  <2>2. QED BY <2>1 DEF TypeOK, JobTypeOK, EvidenceInv, SerialInv, Idle
<1>2. /\ Logs(s, log[r]) /\ Binds(runs[r], approval[r], plans[r])
      /\ Judges(s, results[r], exceptions[r])
      /\ HeldTo(approval[r], exceptions[r])
  BY <1>1 DEF SerialInv
<1>3. CASE LogTransition(p)
  <2> DEFINE j == [k EXCEPT !.pc = "update"]
             es == Append(log[r], Entry(k.seen, t))
  <2>1. /\ k.pc = "log" /\ Become(p, j) /\ log'[r] = es
        /\ \A q \in Runs \ {r} : log'[q] = log[q]
        /\ UNCHANGED <<runs, approval, plans, results, exceptions>>
    BY <1>1, <1>3 DEF LogTransition, At, Goto, Entry, TypeOK, TablesTypeOK
  <2>2. s = k.seen /\ Logged(s, t)
    BY <1>1, <2>1 DEF Current, JobEntitled
  <2>3. log[r] \in Seq([from : Phases, to : Phases])
    BY <1>1 DEF TypeOK, TablesTypeOK
  <2>4. Logs(s, es) /\ es # <<>> /\ Newest(es).to = PhaseOf(t)
    BY <1>2, <2>2, <2>3, LogsEntry
  <2> HIDE DEF es
  <2>5. t \notin {"applied", "drifted"} /\ Follows(s, t)
    BY <2>2, LoggedMoves DEF Follows
  <2>6. j.run = r /\ Current(j, runs[r], es, approval[r], results[r])
    BY <1>1, <2>4, <2>5 DEF Current, Job
  <2> HIDE DEF j
  <2>7. QED BY <1>1, <1>2, <2>1, <2>4, <2>6, SerialKeeps
<1>4. CASE UpdateStatus(p)
  <2>1. /\ k.pc = "update" /\ Continue(p)
        /\ runs'[r].status = t /\ runs'[r].inputs = runs[r].inputs
        /\ \A q \in Runs \ {r} : runs'[q] = runs[q]
        /\ UNCHANGED <<log, approval, plans, results, exceptions>>
    BY <1>1, <1>4 DEF UpdateStatus, At, TypeOK, TablesTypeOK
  <2>2. /\ Follows(s, t) /\ log[r] # <<>> /\ Newest(log[r]).to = PhaseOf(t)
        /\ t = "applied" => results[r] # <<>> /\ Newest(results[r]) = "matching"
        /\ t = "drifted" => results[r] # <<>> /\ Newest(results[r]) = "drifted"
    BY <1>1, <2>1 DEF Current
  <2>3. Logs(t, log[r])
    BY <1>2, <2>2, FollowsMoves, LogsMove
  <2>4. Binds(runs'[r], approval[r], plans[r])
    BY <1>2, <2>1, <2>2, FollowsMoves DEF Binds
  <2>5. Judges(t, results[r], exceptions[r])
    BY <1>2, <2>2, FollowsMoves DEF Judges
  <2>6. CASE k.then = "idle"
    BY <1>1, <1>2, <2>1, <2>3, <2>4, <2>5, <2>6, SerialKeeps DEF Continue, Return, IdleJob
  <2>7. CASE k.then # "idle"
    <3> DEFINE j == [k EXCEPT !.pc = k.then, !.then = "idle"]
    <3>1. Become(p, j) /\ k.then \in {"record_inputs", "mark_done"}
      BY <1>1, <2>1, <2>7 DEF Continue, JobEntitled, Continuations
    <3>2. k.then = "record_inputs" => runs'[r].status = "resolving"
      BY <1>1, <2>1 DEF JobEntitled
    <3>3. j.run = r /\ Current(j, runs'[r], log[r], approval[r], results[r])
      BY <1>1, <3>1, <3>2 DEF Current, Job
    <3> HIDE DEF j
    <3>4. QED BY <1>1, <1>2, <2>1, <2>3, <2>4, <2>5, <3>1, <3>3, SerialKeeps
  <2>8. QED BY <2>6, <2>7
<1>5. CASE RecordInputs(p)
  <2>1. /\ k.pc = "record_inputs" /\ Return(p)
        /\ runs'[r].status = "resolving"
        /\ \A q \in Runs \ {r} : runs'[q] = runs[q]
        /\ UNCHANGED <<log, approval, plans, results, exceptions>>
    BY <1>1, <1>5 DEF RecordInputs, At, TypeOK, TablesTypeOK
  <2>2. s = "resolving"
    BY <1>1, <2>1 DEF Current
  <2>3. Binds(runs'[r], approval[r], plans[r])
    BY <1>2, <2>2 DEF Binds, Gated, Plannable
  <2>4. QED BY <1>1, <1>2, <2>1, <2>2, <2>3, SerialKeeps DEF Return, IdleJob
<1>6. QED BY <1>3, <1>4, <1>5

\* The rows of approvals and plans.
LEMMA SerialApprovals ==
  ASSUME OneProcess, TypeOK, EvidenceInv, SerialInv, NEW p \in Procs,
         SaveApproval(p) \/ SavePlan(p)
  PROVE  SerialInv'
<1> DEFINE k == job[p]
           r == k.run
           s == runs[r].status
<1>1. /\ k.pc # "idle" /\ k \in Job /\ r \in Runs /\ JobEntitled(k)
      /\ Current(k, runs[r], log[r], approval[r], results[r])
  <2>1. k.pc # "idle"
    BY DEF SaveApproval, SavePlan, At
  <2>2. QED BY <2>1 DEF TypeOK, JobTypeOK, EvidenceInv, SerialInv, Idle
<1>2. /\ Logs(s, log[r]) /\ Binds(runs[r], approval[r], plans[r])
      /\ Judges(s, results[r], exceptions[r])
      /\ HeldTo(approval[r], exceptions[r])
  BY <1>1 DEF SerialInv
<1>3. CASE SaveApproval(p)
  <2> DEFINE row == [hash |-> HashOf(k.inputs), role |-> k.role]
  <2>1. /\ k.pc = "save_approval" /\ Continue(p) /\ approval'[r] = row
        /\ \A q \in Runs \ {r} : approval'[q] = approval[q]
        /\ UNCHANGED <<runs, log, plans, results, exceptions>>
    BY <1>1, <1>3 DEF SaveApproval, At, TypeOK, TablesTypeOK
  <2>2. /\ k.inputs = runs[r].inputs
        /\ s = IF k.then = "update" THEN "awaiting_approval" ELSE "planned"
    BY <1>1, <2>1 DEF Current
  <2>3. row # Null
    <3>1. row \in [hash : Inputs, role : 0 .. 2]
      BY <1>1, InputsAssumption DEF Job, HashOf, Roles
    <3>2. QED BY <3>1, NullAssumption
  <2>4. row.hash = HashOf(runs[r].inputs)
    BY <2>2
  <2> HIDE DEF row
  <2>5. Binds(runs[r], row, plans[r])
    BY <1>2, <2>2, <2>3, <2>4 DEF Binds, Gated, Plannable
  <2>6. exceptions[r] = <<>>
    BY <1>2, <2>2 DEF Judges
  <2>7. HeldTo(row, exceptions[r])
    BY <2>6 DEF HeldTo
  <2>8. CASE k.then = "idle"
    BY <1>1, <1>2, <2>1, <2>5, <2>7, <2>8, SerialKeeps DEF Continue, Return, IdleJob
  <2>9. CASE k.then # "idle"
    <3> DEFINE j == [k EXCEPT !.pc = k.then, !.then = "idle"]
    <3>1. Become(p, j) /\ k.then = "update" /\ k.target = "approved"
      BY <1>1, <2>1, <2>9 DEF Continue, JobEntitled, Continuations
    <3>2. s = "awaiting_approval"
      BY <2>2, <3>1
    <3>3. /\ Follows(s, "approved")
          /\ log[r] # <<>> /\ Newest(log[r]).to = PhaseOf("approved")
      BY <1>2, <3>2, LogsPhase DEF Follows, PhaseOf
    <3>4. j.run = r /\ Current(j, runs[r], log[r], row, results[r])
      BY <1>1, <3>1, <3>3 DEF Current, Job
    <3> HIDE DEF j
    <3>5. QED BY <1>1, <1>2, <2>1, <2>5, <2>7, <3>1, <3>4, SerialKeeps
  <2>10. QED BY <2>8, <2>9
<1>4. CASE SavePlan(p)
  <2> DEFINE h == PlanHash(k.inputs)
             hashes == Append(plans[r], h)
  <2>1. /\ k.pc = "save_plan" /\ Return(p) /\ plans'[r] = hashes
        /\ \A q \in Runs \ {r} : plans'[q] = plans[q]
        /\ UNCHANGED <<runs, log, approval, results, exceptions>>
    BY <1>1, <1>4 DEF SavePlan, At, TypeOK, TablesTypeOK
  <2>2. k.inputs = runs[r].inputs /\ s \in Plannable
    BY <1>1, <2>1 DEF Current
  <2>3. approval[r] # Null
    BY <1>1, <2>2 DEF EvidenceInv, Entitled, Backs, Gated, Sufficient
  <2>4. h = PlanHash(approval[r].hash)
    BY <1>2, <2>2, <2>3, PlanOfApproval DEF Binds
  <2>5. /\ plans[r] \in Seq(Inputs \cup {Null}) /\ h \in Inputs \cup {Null}
        /\ hashes = Append(plans[r], h)
    BY <1>1 DEF TypeOK, TablesTypeOK, Job, PlanHash
  <2> HIDE DEF h, hashes
  <2>6. \A i \in DOMAIN hashes :
           hashes[i] = h \/ (i \in DOMAIN plans[r] /\ hashes[i] = plans[r][i])
    BY <2>5, LengthenedMembers
  <2>7. Binds(runs[r], approval[r], hashes)
    BY <1>2, <2>3, <2>4, <2>6 DEF Binds
  <2>8. QED BY <1>1, <1>2, <2>1, <2>7, SerialKeeps DEF Return, IdleJob
<1>5. QED BY <1>3, <1>4

\* The rows of judgements and exceptions.
LEMMA SerialJudgements ==
  ASSUME OneProcess, TypeOK, EvidenceInv, SerialInv, NEW p \in Procs,
         SaveResult(p) \/ SaveException(p)
  PROVE  SerialInv'
<1> DEFINE k == job[p]
           r == k.run
           s == runs[r].status
           j == [k EXCEPT !.pc = "update"]
<1>1. /\ k.pc # "idle" /\ k \in Job /\ r \in Runs /\ JobEntitled(k)
      /\ Current(k, runs[r], log[r], approval[r], results[r])
  <2>1. k.pc # "idle"
    BY DEF SaveResult, SaveException, At
  <2>2. QED BY <2>1 DEF TypeOK, JobTypeOK, EvidenceInv, SerialInv, Idle
<1>2. /\ Logs(s, log[r]) /\ Binds(runs[r], approval[r], plans[r])
      /\ Judges(s, results[r], exceptions[r])
      /\ HeldTo(approval[r], exceptions[r])
  BY <1>1 DEF SerialInv
<1>3. j.pc = "update" /\ j.run = r /\ j.target = k.target
  BY <1>1 DEF Job
<1> HIDE DEF j
<1>4. CASE SaveResult(p)
  <2> DEFINE x == IF k.target = "applied" THEN "matching" ELSE "drifted"
             outcomes == Append(results[r], x)
  <2>1. /\ k.pc = "save_result" /\ Become(p, j) /\ results'[r] = outcomes
        /\ \A q \in Runs \ {r} : results'[q] = results[q]
        /\ UNCHANGED <<runs, log, approval, plans, exceptions>>
    BY <1>1, <1>4 DEF SaveResult, At, Goto, TypeOK, TablesTypeOK, j
  <2>2. s = "conformance_pending" /\ k.target \in {"applied", "drifted"}
    BY <1>1, <2>1 DEF Current, JobEntitled
  <2>3. results[r] \in Seq({"matching", "drifted"}) /\ x \in {"matching", "drifted"}
    BY <1>1 DEF TypeOK, TablesTypeOK
  <2>4. /\ k.target = "applied" => x = "matching"
        /\ k.target = "drifted" => x = "drifted"
    OBVIOUS
  <2> HIDE DEF x
  <2>5. outcomes # <<>> /\ Newest(outcomes) = x
    BY <2>3, Lengthened
  <2> HIDE DEF outcomes
  <2>6. Judges(s, outcomes, exceptions[r])
    <3>1. exceptions[r] = <<>>
      BY <1>2, <2>2 DEF Judges
    <3>2. QED BY <2>2, <3>1 DEF Judges
  <2>7. /\ Follows(s, k.target)
        /\ log[r] # <<>> /\ Newest(log[r]).to = PhaseOf(k.target)
    BY <1>2, <2>2, LogsPhase DEF Follows, PhaseOf
  <2>8. Current(j, runs[r], log[r], approval[r], outcomes)
    BY <1>3, <2>4, <2>5, <2>7 DEF Current
  <2>9. QED BY <1>1, <1>2, <1>3, <2>1, <2>6, <2>8, SerialKeeps
<1>5. CASE SaveException(p)
  <2> DEFINE x == [cites |-> k.cite, role |-> k.role, original |-> k.original]
             Rows == [cites : Nat, role : Roles, original : Roles]
             accepted == Append(exceptions[r], x)
  <2>1. /\ k.pc = "save_exception" /\ Become(p, j) /\ exceptions'[r] = accepted
        /\ k.role >= k.original /\ k.cite \in 1 .. Len(results[r])
        /\ \A q \in Runs \ {r} : exceptions'[q] = exceptions[q]
        /\ UNCHANGED <<runs, log, approval, plans, results>>
    BY <1>1, <1>5 DEF SaveException, At, Goto, TypeOK, TablesTypeOK, j
  <2>2. /\ s = "drifted" /\ k.target = "exception_recorded"
        /\ k.cite \in {0, Len(results[r])}
        /\ ReadFrom(k.original, approval[r])
    BY <1>1, <2>1 DEF Current, JobEntitled
  <2>3. /\ x.cites \in DOMAIN results[r] /\ results[r][x.cites] = "drifted"
    <3>1. /\ results[r] \in Seq({"matching", "drifted"})
          /\ Newest(results[r]) = "drifted"
      BY <1>1, <1>2, <2>2 DEF TypeOK, TablesTypeOK, Judges
    <3>2. Len(results[r]) \in Nat /\ DOMAIN results[r] = 1 .. Len(results[r])
      BY <3>1
    <3>3. k.cite = Len(results[r])
      BY <2>1, <2>2, <3>2
    <3>4. QED BY <2>1, <3>1, <3>2, <3>3 DEF Newest
  <2>4. /\ approval[r] # Null /\ x.role >= x.original
        /\ ReadFrom(x.original, approval[r])
    BY <1>1, <2>1, <2>2 DEF EvidenceInv, Entitled, Backs, Gated, Plannable, Sufficient
  <2>5. /\ exceptions[r] \in Seq(Rows) /\ x \in Rows
        /\ accepted = Append(exceptions[r], x)
    BY <1>1 DEF TypeOK, TablesTypeOK, Job
  <2> HIDE DEF x, Rows, accepted
  <2>6. \A i \in DOMAIN accepted :
           accepted[i] = x \/ (i \in DOMAIN exceptions[r] /\ accepted[i] = exceptions[r][i])
    BY <2>5, LengthenedMembers
  <2>7. Judges(s, results[r], accepted)
    BY <1>2, <2>2, <2>3, <2>6 DEF Judges
  <2>8. HeldTo(approval[r], accepted)
    BY <1>2, <2>4, <2>6 DEF HeldTo
  <2>9. /\ Follows(s, k.target)
        /\ log[r] # <<>> /\ Newest(log[r]).to = PhaseOf(k.target)
    BY <1>2, <2>2, LogsPhase DEF Follows, PhaseOf
  <2>10. Current(j, runs[r], log[r], approval[r], results[r])
    BY <1>3, <2>2, <2>9 DEF Current
  <2>11. QED BY <1>1, <1>2, <1>3, <2>1, <2>7, <2>8, <2>10, SerialKeeps
<1>6. QED BY <1>4, <1>5

\* Every step of the one process keeps the invariant.
LEMMA SerialNext ==
  ASSUME OneProcess, TypeOK, EvidenceInv, SerialInv, [Next]_vars PROVE SerialInv'
<1>1. ASSUME NEW p \in Procs, NEW r \in Runs, Start(p, r) PROVE SerialInv'
  BY <1>1, SerialStart
<1>2. ASSUME NEW p \in Procs, Step(p) PROVE SerialInv'
  BY <1>2, SerialReads, SerialMoves, SerialApprovals, SerialJudgements DEF Step
<1>3. ASSUME NEW p \in Procs, Abort(p) PROVE SerialInv'
  BY <1>3, SerialReads
<1>4. CASE UNCHANGED vars
  BY <1>4 DEF vars, SerialInv, Idle, Logs, Binds, Judges, HeldTo, Current
<1>5. QED BY <1>1, <1>2, <1>3, <1>4 DEF Next

\* When invocations follow one another, a table is as the last one left it,
\* wherever that one was cut off, and what an operation read stays true while it
\* lasts (store/postgres.py, engine/*.py, cli/*.py).
THEOREM SerialHolds == ASSUME OneProcess PROVE Spec => []SerialInv
<1>1. TypeOK /\ EvidenceInv /\ SerialInv /\ [Next]_vars => SerialInv'
  BY SerialNext
<1>2. QED BY <1>1, TypeCorrect, EvidenceFirst, SerialInit, PTL DEF Spec

\* The transition log of a run that is worked on by one invocation at a time is
\* its history, with the entries of interrupted transitions repeated
\* (engine/runner.py _transition).
THEOREM HistoryHolds == ASSUME OneProcess PROVE Spec => []LogIsHistory
<1>1. SerialInv => LogIsHistory
  <2> SUFFICES ASSUME SerialInv, NEW r \in Runs
               PROVE  /\ \A i \in 1 .. Len(log[r]) - 1 :
                           \/ log[r][i + 1].from = log[r][i].to
                           \/ log[r][i + 1] = log[r][i]
                      /\ log[r] # <<>> =>
                           PhaseOf(runs[r].status)
                             \in {Newest(log[r]).from, Newest(log[r]).to}
    BY DEF LogIsHistory, Newest
  <2>1. Logs(runs[r].status, log[r])
    BY DEF SerialInv
  <2>2. QED BY <2>1, EntryType DEF Logs
<1>2. QED BY <1>1, SerialHolds, PTL

\* The judgement of a run is that of its latest conformance result, and only a
\* drift is accepted (engine/conformance.py check_conformance, record_exception).
THEOREM LatestOutcomeHolds == ASSUME OneProcess PROVE Spec => []OutcomeIsLatest
<1>1. SerialInv => OutcomeIsLatest
  BY DEF SerialInv, OutcomeIsLatest, Judges, Newest
<1>2. QED BY <1>1, SerialHolds, PTL

\* An approval is for the inputs that the run has, however start_run was cut off
\* (engine/approval.py submit_approval, engine/runner.py start_run).
THEOREM BindingHolds == ASSUME OneProcess PROVE Spec => []ApprovalBindsInputs
<1>1. SerialInv => ApprovalBindsInputs
  BY DEF SerialInv, ApprovalBindsInputs, Binds
<1>2. QED BY <1>1, SerialHolds, PTL

\* Plans carry the hash that was approved (engine/planner.py
\* _compute_plan_approval_hash).
THEOREM PlanHashHolds == ASSUME OneProcess PROVE Spec => []PlanCarriesApproval
<1>1. SerialInv => PlanCarriesApproval
  BY DEF SerialInv, PlanCarriesApproval, Binds
<1>2. QED BY <1>1, SerialHolds, PTL

\* A drift exception names the role it was held against: that of the approval,
\* or the lowest after a read that failed (engine/conformance.py
\* _fetch_original_apply_role, model/approval.py DriftExceptionRecord.new).
THEOREM ExceptionRoleHolds == ASSUME OneProcess PROVE Spec => []ExceptionNamesRole
<1>1. SerialInv => ExceptionNamesRole
  BY DEF SerialInv, ExceptionNamesRole, HeldTo, ReadFrom
<1>2. QED BY <1>1, SerialHolds, PTL

-----------------------------------------------------------------------------
(* The order of the statuses.                                               *)

\* Where each status stands in the order.
LEMMA Ranks ==
  /\ Rank("absent") = 1 /\ Rank("pending") = 2 /\ Rank("resolving") = 3
  /\ Rank("verifying") = 4 /\ Rank("awaiting_approval") = 5 /\ Rank("approved") = 6
  /\ Rank("executing") = 7 /\ Rank("auditing") = 8 /\ Rank("planned") = 9
  /\ Rank("host_apply_in_progress") = 10 /\ Rank("conformance_pending") = 11
  /\ Rank("applied") = 12 /\ Rank("drifted") = 12 /\ Rank("exception_recorded") = 13
<1>1. Len(Lifecycle) = 11 /\ DOMAIN Lifecycle = 1 .. 11
  BY DEF Lifecycle
<1>2. /\ Lifecycle[1] = "absent" /\ Lifecycle[2] = "pending"
      /\ Lifecycle[3] = "resolving" /\ Lifecycle[4] = "verifying"
      /\ Lifecycle[5] = "awaiting_approval" /\ Lifecycle[6] = "approved"
      /\ Lifecycle[7] = "executing" /\ Lifecycle[8] = "auditing"
      /\ Lifecycle[9] = "planned" /\ Lifecycle[10] = "host_apply_in_progress"
      /\ Lifecycle[11] = "conformance_pending"
  BY DEF Lifecycle
<1>3. \A i, k \in 1 .. 11 : Lifecycle[i] = Lifecycle[k] => i = k
  BY <1>2
<1>4. ASSUME NEW k \in 1 .. 11,
             Lifecycle[k] \notin {"applied", "drifted", "exception_recorded"}
      PROVE  Rank(Lifecycle[k]) = k
  <2>1. (CHOOSE i \in DOMAIN Lifecycle : Lifecycle[i] = Lifecycle[k]) = k
    BY <1>1, <1>3
  <2>2. QED BY <1>4, <2>1 DEF Rank
<1>5. Rank("applied") = 12 /\ Rank("drifted") = 12 /\ Rank("exception_recorded") = 13
  BY <1>1 DEF Rank
<1>6. QED BY <1>2, <1>4, <1>5

\* A status is followed by one of the same rank or the next.
LEMMA FollowsRank ==
  ASSUME NEW s, NEW t, Follows(s, t) PROVE Rank(t) - Rank(s) \in {0, 1}
BY Ranks DEF Follows, Logged, Advanceable, NextStatus, ApplyTarget

\* Three actions write a status.
LEMMA ForwardNext ==
  ASSUME OneProcess, TypeOK, SerialInv, [Next]_vars, NEW r \in Runs
  PROVE  Rank(runs'[r].status) - Rank(runs[r].status) \in {0, 1}
<1> DEFINE Forward == Rank(runs'[r].status) - Rank(runs[r].status) \in {0, 1}
<1>1. CASE runs'[r].status = runs[r].status
  <2>1. runs[r].status \in Statuses
    BY DEF TypeOK, TablesTypeOK
  <2>2. \A s \in Statuses : Rank(s) \in Nat
    BY Ranks DEF Statuses
  <2>3. QED BY <1>1, <2>1, <2>2
<1>2. ASSUME NEW p \in Procs, NEW q \in Runs, NEW in \in Inputs, StartRun(p, q, in)
      PROVE  Forward
  <2>1. CASE q = r
    <3>1. runs[r].status = "absent" /\ runs'[r].status = "pending"
      BY <1>2, <2>1 DEF StartRun, Reads, TypeOK, TablesTypeOK
    <3>2. QED BY <3>1, Ranks
  <2>2. CASE q # r
    BY <1>1, <1>2, <2>2 DEF StartRun, TypeOK, TablesTypeOK
  <2>3. QED BY <2>1, <2>2
<1>3. ASSUME NEW p \in Procs, UpdateStatus(p) \/ RecordInputs(p)
      PROVE  Forward
  <2> DEFINE k == job[p]
  <2>1. k.pc \in {"update", "record_inputs"} /\ k.run \in Runs
        /\ Current(k, runs[k.run], log[k.run], approval[k.run], results[k.run])
    BY <1>3 DEF UpdateStatus, RecordInputs, At, Idle, TypeOK, JobTypeOK, SerialInv
  <2>2. CASE k.run # r
    BY <1>1, <1>3, <2>1, <2>2 DEF UpdateStatus, RecordInputs, TypeOK, TablesTypeOK
  <2>3. CASE k.run = r /\ UpdateStatus(p)
    <3>1. Follows(runs[r].status, k.target) /\ runs'[r].status = k.target
      BY <2>1, <2>3 DEF UpdateStatus, At, Current, TypeOK, TablesTypeOK
    <3>2. QED BY <3>1, FollowsRank
  <2>4. CASE k.run = r /\ RecordInputs(p)
    BY <1>1, <2>1, <2>4 DEF RecordInputs, At, Current, TypeOK, TablesTypeOK
  <2>5. QED BY <1>3, <2>2, <2>3, <2>4
<1>4. \/ runs' = runs
      \/ \E p \in Procs, q \in Runs, in \in Inputs : StartRun(p, q, in)
      \/ \E p \in Procs : UpdateStatus(p) \/ RecordInputs(p)
  <2>1. ASSUME NEW p \in Procs, NEW q \in Runs, Start(p, q)
        PROVE  UNCHANGED tables \/ \E in \in Inputs : StartRun(p, q, in)
    BY <2>1, Zenon DEF Start, Advance, ApproveRun, ApproveApply, PlanApply, MarkApplied,
       CallHostApply, CheckConformance, RecordException
  <2>2. ASSUME NEW p \in Procs, Step(p)
        PROVE  \/ UNCHANGED tables \/ UpdateStatus(p) \/ RecordInputs(p) \/ SavePlan(p)
               \/ LogTransition(p) \/ SaveApproval(p) \/ SaveResult(p) \/ SaveException(p)
    BY <2>2, Zenon DEF Step, SubmitApproval, MarkHostApplyStarted, MarkHostApplyDone,
       LoadPlan, ReadHost, FetchRole, FetchResult, Refuse
  <2>3. ASSUME NEW p \in Procs, \/ SavePlan(p) \/ LogTransition(p) \/ SaveApproval(p)
                                \/ SaveResult(p) \/ SaveException(p)
        PROVE  runs' = runs
    BY <2>3 DEF SavePlan, LogTransition, SaveApproval, SaveResult, SaveException
  <2>4. ASSUME NEW p \in Procs, Abort(p) PROVE UNCHANGED tables
    BY <2>4 DEF Abort
  <2>5. QED BY <2>1, <2>2, <2>3, <2>4 DEF Next, vars, tables
<1>5. QED BY <1>1, <1>2, <1>3, <1>4

\* A run goes through its statuses in order, one at a time, and back to none,
\* wherever the invocations before were cut off (engine/runner.py, cli/*.py).
THEOREM ForwardHolds == ASSUME OneProcess PROVE Spec => StatusForward
<1>1. TypeOK /\ SerialInv /\ [Next]_vars =>
        [\A r \in Runs : Rank(runs'[r].status) - Rank(runs[r].status) \in {0, 1}]_runs
  BY ForwardNext
<1>2. QED BY <1>1, TypeCorrect, SerialHolds, PTL DEF Spec, StatusForward

-----------------------------------------------------------------------------
(***************************************************************************)
(* The run lifecycle implements RunContract, for every set of processes,   *)
(* runs and inputs, every required role and every bound.                   *)
(***************************************************************************)

(* Statuses and the facts they rest on.                                     *)

\* What it means that a fact is on record.
LEMMA FactIsRow ==
  ASSUME NEW r
  PROVE  /\ \A f \in Phases : f \in FactsOf(r) <=> Enters(log[r], f)
         /\ "approval" \in FactsOf(r) <=> Sufficient(approval[r])
         /\ "match" \in FactsOf(r) <=> Contains(results[r], "matching")
         /\ "drift" \in FactsOf(r) <=> Contains(results[r], "drifted")
         /\ "exception" \in FactsOf(r) <=> exceptions[r] # <<>>
BY DEF FactsOf, Phases

LEMMA FactIsRowNext ==
  ASSUME NEW r
  PROVE  /\ \A f \in Phases : f \in FactsOf(r)' <=> Enters(log'[r], f)
         /\ "approval" \in FactsOf(r)' <=> Sufficient(approval'[r])
         /\ "match" \in FactsOf(r)' <=> Contains(results'[r], "matching")
         /\ "drift" \in FactsOf(r)' <=> Contains(results'[r], "drifted")
         /\ "exception" \in FactsOf(r)' <=> exceptions'[r] # <<>>
BY DEF FactsOf, Phases, Enters, Sufficient, Contains

LEMMA FactsAreFacts ==
  ASSUME NEW r PROVE FactsOf(r) \subseteq Facts /\ FactsOf(r)' \subseteq Facts
BY DEF FactsOf, Facts

LEMMA BasisType ==
  /\ \A f \in Facts : Basis[f] = BasisOfFact(f)
  /\ \A s \in Statuses : Basis[s] = BasisOfStatus(s)
<1>1. Facts \cap Statuses = {}
  BY DEF Facts, Phases, Statuses
<1>2. QED BY <1>1 DEF Basis

\* Evidence for a status is what the contract wants for it.
LEMMA Supported ==
  ASSUME NEW r, NEW s \in Statuses, Entitled(r, s)
  PROVE  Basis[s] \subseteq FactsOf(r)
<1>1. ASSUME NEW f \in BasisOfStatus(s) PROVE f \in FactsOf(r)
  <2>1. PhaseOf(s) \in Phases
    BY PhaseType
  <2>2. QED BY <1>1, <2>1, FactIsRow DEF BasisOfStatus, Entitled, Backs
<1>2. QED BY <1>1, BasisType

-----------------------------------------------------------------------------
(* The two kinds of step.                                                   *)

\* One run changes and no row does: the status moves.
LEMMA Moves ==
  ASSUME TypeOK, TypeOK', EvidenceInv', UNCHANGED <<log, approval, results, exceptions>>,
         NEW r \in Runs, \A q \in Runs \ {r} : runs'[q] = runs[q]
  PROVE  Contract!Next
<1>1. PICK s \in Statuses : s = runs'[r].status
  BY DEF TypeOK, TablesTypeOK
<1>2. \A q : FactsOf(q)' = FactsOf(q)
  BY DEF FactsOf, Enters, Sufficient, Contains
<1>3. Entitled(r, s)
  BY <1>1 DEF EvidenceInv, Entitled
<1>4. Contract!Move(r, s)
  BY <1>1, <1>2, <1>3, Supported DEF Contract!Move
<1>5. QED BY <1>4 DEF Contract!Next

\* One fact joins the others of its run: it is committed, or was there before.
LEMMA Commits ==
  ASSUME UNCHANGED runs, NEW r \in Runs, NEW f \in Facts,
         FactsOf(r)' = FactsOf(r) \cup {f},
         \A q \in Runs \ {r} : FactsOf(q)' = FactsOf(q),
         f \in FactsOf(r) \/ BasisOfFact(f) \subseteq FactsOf(r)
  PROVE  [Contract!Next]_(Contract!vars)
<1>1. CASE f \in FactsOf(r)
  BY <1>1 DEF Contract!vars
<1>2. CASE BasisOfFact(f) \subseteq FactsOf(r)
  <2>1. Contract!Commit(r, f)
    BY <1>2, BasisType DEF Contract!Commit
  <2>2. QED BY <2>1 DEF Contract!Next
<1>3. QED BY <1>1, <1>2

-----------------------------------------------------------------------------
(* Which kind each step is.                                                 *)

\* A step writes the runs table for one run at most, and then no evidence.
LEMMA RunsEffect ==
  ASSUME TypeOK, [Next]_vars
  PROVE  \/ UNCHANGED runs
         \/ /\ UNCHANGED <<log, approval, results, exceptions>>
            /\ \E r \in Runs : \A q \in Runs \ {r} : runs'[q] = runs[q]
<1>1. ASSUME NEW p \in Procs, NEW r \in Runs, NEW in, StartRun(p, r, in)
      PROVE  /\ UNCHANGED <<log, approval, results, exceptions>>
             /\ \A q \in Runs \ {r} : runs'[q] = runs[q]
  BY <1>1 DEF StartRun, TypeOK, TablesTypeOK
<1>2. ASSUME NEW p \in Procs, UpdateStatus(p) \/ RecordInputs(p)
      PROVE  /\ UNCHANGED <<log, approval, results, exceptions>>
             /\ \A q \in Runs \ {job[p].run} : runs'[q] = runs[q]
             /\ job[p].run \in Runs
  BY <1>2 DEF UpdateStatus, RecordInputs, At, Idle, TypeOK, TablesTypeOK, JobTypeOK
<1>3. ASSUME NEW p \in Procs, NEW r \in Runs, Start(p, r)
      PROVE  UNCHANGED runs \/ \E in \in Inputs : StartRun(p, r, in)
  BY <1>3 DEF Start, Advance, ApproveRun, ApproveApply, PlanApply, MarkApplied,
     CallHostApply, CheckConformance, RecordException, tables
<1>4. ASSUME NEW p \in Procs, Step(p)
      PROVE  UNCHANGED runs \/ UpdateStatus(p) \/ RecordInputs(p)
  BY <1>4 DEF Step, LogTransition, SubmitApproval, SaveApproval, SavePlan,
     MarkHostApplyStarted, MarkHostApplyDone, LoadPlan, ReadHost, SaveResult,
     FetchRole, FetchResult, SaveException, Refuse, tables
<1>5. QED BY <1>1, <1>2, <1>3, <1>4 DEF Next, Abort, vars, tables

\* Appending adds one member.
LEMMA AppendAdds ==
  ASSUME NEW S, NEW xs \in Seq(S), NEW x \in S
  PROVE  /\ DOMAIN Append(xs, x) = DOMAIN xs \cup {Len(xs) + 1}
         /\ Append(xs, x)[Len(xs) + 1] = x
         /\ \A i \in DOMAIN xs : Append(xs, x)[i] = xs[i]
OBVIOUS

\* What the process of a step knows.
LEMMA Knows ==
  ASSUME TypeOK, EvidenceInv, NEW p \in Procs, job[p].pc # "idle"
  PROVE  job[p] \in Job /\ job[p].run \in Runs /\ JobEntitled(job[p])
BY DEF TypeOK, JobTypeOK, EvidenceInv, Idle

LEMMA LogCommits ==
  ASSUME TypeOK, EvidenceInv, NEW p \in Procs, LogTransition(p),
         UNCHANGED <<approval, results, exceptions>>
  PROVE  [Contract!Next]_(Contract!vars)
<1> DEFINE k == job[p]
           f == PhaseOf(k.target)
           entry == [from |-> PhaseOf(k.seen), to |-> f]
           Entries == [from : Phases, to : Phases]
<1>1. PICK r \in Runs :
      /\ r = k.run /\ k \in Job /\ runs' = runs /\ log[r] \in Seq(Entries)
      /\ log' = [log EXCEPT ![r] = Append(log[r], entry)]
      /\ Entitled(r, k.seen) /\ Logged(k.seen, k.target)
  BY Knows DEF LogTransition, At, TypeOK, TablesTypeOK, JobEntitled
<1>2. f \in Phases /\ f \in Facts /\ entry \in Entries /\ entry.to = f
  BY <1>1, PhaseType DEF Job, Facts
<1>3. \A q \in Runs \ {r} : log'[q] = log[q]
  BY <1>1 DEF TypeOK, TablesTypeOK
<1>4. log'[r] = Append(log[r], entry)
  BY <1>1 DEF TypeOK, TablesTypeOK
<1> HIDE DEF entry, Entries
<1>5. \A phase : Enters(log'[r], phase) <=> Enters(log[r], phase) \/ phase = f
  BY <1>1, <1>2, <1>4, AppendAdds DEF Enters
<1>6. FactsOf(r)' = FactsOf(r) \cup {f} /\ \A q \in Runs \ {r} : FactsOf(q)' = FactsOf(q)
  BY <1>2, <1>3, <1>5 DEF FactsOf, Sufficient, Contains
<1>7. f \in FactsOf(r) \/ BasisOfFact(f) \subseteq FactsOf(r)
  <2>1. CASE k.seen = "pending"
    BY <1>1, <2>1 DEF Logged, NextStatus, PhaseOf, BasisOfFact
  <2>2. CASE k.seen \in {"resolving", "verifying"}
    <3>1. Enters(log[r], PhaseOf(k.seen))
      BY <1>1, <2>2 DEF Entitled, Backs
    <3>2. PhaseOf(k.seen) \in FactsOf(r)
      BY <1>1, <3>1, PhaseType, FactIsRow DEF Job
    <3>3. QED BY <1>1, <2>2, <3>2 DEF Logged, NextStatus, PhaseOf, BasisOfFact
  <2>3. CASE k.seen \in {"approved", "executing", "auditing", "planned",
                         "host_apply_in_progress"}
    <3>1. Enters(log[r], PhaseOf(k.seen)) /\ Sufficient(approval[r])
      BY <1>1, <2>3 DEF Entitled, Backs, Gated, Plannable
    <3>2. PhaseOf(k.seen) \in FactsOf(r) /\ "approval" \in FactsOf(r)
      BY <1>1, <3>1, PhaseType, FactIsRow DEF Job
    <3>3. QED
      BY <1>1, <2>3, <3>2
      DEF Logged, Advanceable, NextStatus, ApplyTarget, PhaseOf, BasisOfFact
  <2>4. QED BY <1>1, <2>1, <2>2, <2>3 DEF Logged, Advanceable
<1>8. QED BY <1>1, <1>2, <1>6, <1>7, Commits

LEMMA ApprovalCommits ==
  ASSUME TypeOK, EvidenceInv, NEW p \in Procs, SaveApproval(p),
         UNCHANGED <<log, results, exceptions>>
  PROVE  [Contract!Next]_(Contract!vars)
<1> DEFINE k == job[p]
           row == [hash |-> HashOf(k.inputs), role |-> k.role]
<1>1. PICK r \in Runs :
      /\ r = k.run /\ k \in Job /\ runs' = runs /\ approval'[r] = row
      /\ \A q \in Runs \ {r} : approval'[q] = approval[q]
      /\ k.pc = "save_approval" /\ JobEntitled(k)
  BY Knows DEF SaveApproval, At, TypeOK, TablesTypeOK
<1>2. row \in [hash : Inputs, role : 0 .. 2]
  BY <1>1, InputsAssumption DEF Job, HashOf, Roles
<1>3. Sufficient(approval'[r])
  BY <1>1, <1>2, NullAssumption DEF JobEntitled, Sufficient
<1> HIDE DEF row
<1>4. FactsOf(r)' = FactsOf(r) \cup {"approval"}
  BY <1>3 DEF FactsOf, Enters, Contains, Sufficient
<1>5. \A q \in Runs \ {r} : FactsOf(q)' = FactsOf(q)
  BY <1>1 DEF FactsOf, Enters, Contains, Sufficient
<1>6. "approval" \in FactsOf(r) \/ "approve" \in FactsOf(r)
  <2>1. Entitled(r, "awaiting_approval") \/ Entitled(r, "planned")
    BY <1>1 DEF JobEntitled
  <2>2. CASE Entitled(r, "awaiting_approval")
    <3>1. Enters(log[r], "approve")
      BY <2>2 DEF Entitled, Backs, PhaseOf
    <3>2. QED BY <3>1, FactIsRow DEF Phases
  <2>3. CASE Entitled(r, "planned")
    BY <2>3, FactIsRow DEF Entitled, Backs, Gated, Plannable
  <2>4. QED BY <2>1, <2>2, <2>3
<1>7. "approval" \in Facts /\ BasisOfFact("approval") = {"approve"}
  BY DEF Facts, BasisOfFact
<1>8. QED BY <1>1, <1>4, <1>5, <1>6, <1>7, Commits

LEMMA ResultCommits ==
  ASSUME TypeOK, EvidenceInv, NEW p \in Procs, SaveResult(p),
         UNCHANGED <<log, approval, exceptions>>
  PROVE  [Contract!Next]_(Contract!vars)
<1> DEFINE k == job[p]
           Outcomes == {"matching", "drifted"}
           outcome == IF k.target = "applied" THEN "matching" ELSE "drifted"
           f == IF k.target = "applied" THEN "match" ELSE "drift"
<1>1. PICK r \in Runs :
      /\ r = k.run /\ runs' = runs /\ results[r] \in Seq(Outcomes)
      /\ results'[r] = Append(results[r], outcome)
      /\ \A q \in Runs \ {r} : results'[q] = results[q]
      /\ Entitled(r, "conformance_pending")
  BY Knows DEF SaveResult, At, TypeOK, TablesTypeOK, JobEntitled
<1>2. \A o : Contains(results'[r], o) <=> Contains(results[r], o) \/ o = outcome
  <2>1. outcome \in Outcomes
    OBVIOUS
  <2> HIDE DEF outcome, Outcomes
  <2>2. QED BY <1>1, <2>1, AppendAdds DEF Contains
<1>3. FactsOf(r)' = FactsOf(r) \cup {f}
  BY <1>2 DEF FactsOf, Enters, Sufficient
<1>4. \A q \in Runs \ {r} : FactsOf(q)' = FactsOf(q)
  BY <1>1 DEF FactsOf, Enters, Sufficient, Contains
<1>5. Enters(log[r], "audit") /\ Sufficient(approval[r])
  BY <1>1 DEF Entitled, Backs, Gated, Plannable, PhaseOf
<1>6. {"audit", "approval"} \subseteq FactsOf(r)
  BY <1>5, FactIsRow DEF Phases
<1>7. f \in Facts /\ BasisOfFact(f) = {"audit", "approval"}
  BY DEF Facts, BasisOfFact
<1> HIDE DEF f
<1>8. QED BY <1>1, <1>3, <1>4, <1>6, <1>7, Commits

LEMMA ExceptionCommits ==
  ASSUME TypeOK, EvidenceInv, NEW p \in Procs, SaveException(p),
         UNCHANGED <<log, approval, results>>
  PROVE  [Contract!Next]_(Contract!vars)
<1> DEFINE k == job[p]
           row == [cites |-> k.cite, role |-> k.role, original |-> k.original]
           Rows == [cites : Nat, role : Roles, original : Roles]
<1>1. PICK r \in Runs :
      /\ r = k.run /\ runs' = runs /\ exceptions[r] \in Seq(Rows) /\ row \in Rows
      /\ exceptions'[r] = Append(exceptions[r], row)
      /\ \A q \in Runs \ {r} : exceptions'[q] = exceptions[q]
      /\ Entitled(r, "drifted")
  BY Knows DEF SaveException, At, TypeOK, TablesTypeOK, JobEntitled, Job
<1> HIDE DEF row, Rows
<1>2. exceptions'[r] # <<>>
  BY <1>1, Appended
<1>3. FactsOf(r)' = FactsOf(r) \cup {"exception"}
  BY <1>2 DEF FactsOf, Enters, Sufficient, Contains
<1>4. \A q \in Runs \ {r} : FactsOf(q)' = FactsOf(q)
  BY <1>1 DEF FactsOf, Enters, Sufficient, Contains
<1>5. "drift" \in FactsOf(r)
  BY <1>1, FactIsRow DEF Entitled, Backs
<1>6. "exception" \in Facts /\ BasisOfFact("exception") = {"drift"}
  BY DEF Facts, BasisOfFact
<1>7. QED BY <1>1, <1>3, <1>4, <1>5, <1>6, Commits

-----------------------------------------------------------------------------
(* The refinement.                                                          *)

LEMMA ContractInit == Init => Contract!Init
BY DEF Init, Contract!Init, FactsOf, Enters, Sufficient, Contains

LEMMA ContractNext ==
  TypeOK /\ EvidenceInv /\ TypeOK' /\ EvidenceInv' /\ [Next]_vars
    => [Contract!Next]_(Contract!vars)
<1> SUFFICES ASSUME TypeOK, EvidenceInv, TypeOK', EvidenceInv', [Next]_vars
             PROVE  [Contract!Next]_(Contract!vars)
  OBVIOUS
<1>1. CASE UNCHANGED <<log, approval, results, exceptions>>
  <2>1. CASE UNCHANGED runs
    BY <1>1, <2>1 DEF Contract!vars, FactsOf, Enters, Sufficient, Contains
  <2>2. CASE \E r \in Runs : \A q \in Runs \ {r} : runs'[q] = runs[q]
    BY <1>1, <2>2, Moves
  <2>3. QED BY <2>1, <2>2, RunsEffect
<1>2. \/ UNCHANGED <<log, approval, results, exceptions>>
      \/ \E p \in Procs : LogTransition(p) /\ UNCHANGED <<approval, results, exceptions>>
      \/ \E p \in Procs : SaveApproval(p) /\ UNCHANGED <<log, results, exceptions>>
      \/ \E p \in Procs : SaveResult(p) /\ UNCHANGED <<log, approval, exceptions>>
      \/ \E p \in Procs : SaveException(p) /\ UNCHANGED <<log, approval, results>>
  BY StartEffect, StepEffect DEF Next, vars, tables, Abort
<1>3. QED
  BY <1>1, <1>2, LogCommits, ApprovalCommits, ResultCommits, ExceptionCommits

\* Whatever interleaves or is cut off, what happens to the tables is a history
\* of the contract: a fact is added on top of those it rests on, none is lost,
\* and no status runs ahead of them (store/postgres.py, engine/runner.py,
\* engine/approval.py, engine/conformance.py).
THEOREM Refines == Spec => ImplementsContract
<1>1. QED
  BY TypeCorrect, EvidenceFirst, ContractInit, ContractNext, PTL
  DEF Spec, ImplementsContract, Contract!Spec

\* What the contract is for.
LEMMA GroundedInit == Contract!Init => RecordHasNoGap
<1>1. Basis["absent"] = {}
  BY BasisType DEF BasisOfStatus, Gated, Plannable, Statuses
<1>2. QED BY <1>1 DEF Contract!Init, RecordHasNoGap, Contract!Grounded

LEMMA GroundedNext == RecordHasNoGap /\ [Contract!Next]_(Contract!vars) => RecordHasNoGap'
<1> DEFINE st == [r \in Runs |-> runs[r].status]
           fs == [r \in Runs |-> FactsOf(r)]
           ws == [r \in Runs |-> {}]
<1> SUFFICES ASSUME RecordHasNoGap, [Contract!Next]_(Contract!vars), NEW q \in Runs,
                    NEW x \in fs'[q] \cup {st'[q]}
             PROVE  Basis[x] \subseteq fs'[q] \cup ws'[q]
  BY DEF RecordHasNoGap, Contract!Grounded
<1>1. \A y \in fs[q] \cup {st[q]} : Basis[y] \subseteq fs[q] \cup ws[q]
  BY DEF RecordHasNoGap, Contract!Grounded
<1>d. q \in DOMAIN st /\ q \in DOMAIN fs /\ q \in DOMAIN ws
  OBVIOUS
<1> HIDE DEF st, fs, ws
<1>2. ASSUME NEW r \in Runs, NEW f \in Facts, Contract!Commit(r, f)
      PROVE  Basis[x] \subseteq fs'[q] \cup ws'[q]
  <2>1. /\ st' = st /\ Basis[f] \subseteq fs[r]
        /\ fs' = [fs EXCEPT ![r] = fs[r] \cup {f}]
        /\ ws' = [ws EXCEPT ![r] = ws[r] \ {f}]
    BY <1>2 DEF Contract!Commit, st, fs, ws
  <2>2. /\ q # r => fs'[q] = fs[q] /\ ws'[q] = ws[q]
        /\ q = r => fs'[q] = fs[q] \cup {f} /\ ws'[q] = ws[q] \ {f}
    BY <2>1, <1>d
  <2>3. QED BY <1>1, <2>1, <2>2
<1>3. ASSUME NEW r \in Runs, NEW f \in {"approval"}, Contract!Withdraw(r, f)
      PROVE  Basis[x] \subseteq fs'[q] \cup ws'[q]
  <2>1. /\ st' = st
        /\ fs' = [fs EXCEPT ![r] = fs[r] \ {f}]
        /\ ws' = [ws EXCEPT ![r] = ws[r] \cup {f}]
    BY <1>3 DEF Contract!Withdraw, st, fs, ws
  <2>2. /\ q # r => fs'[q] = fs[q] /\ ws'[q] = ws[q]
        /\ q = r => fs'[q] = fs[q] \ {f} /\ ws'[q] = ws[q] \cup {f}
    BY <2>1, <1>d
  <2>3. QED BY <1>1, <2>1, <2>2
<1>4. ASSUME NEW r \in Runs, NEW s \in Statuses, Contract!Move(r, s)
      PROVE  Basis[x] \subseteq fs'[q] \cup ws'[q]
  <2>1. /\ Basis[s] \subseteq fs[r] /\ fs' = fs /\ ws' = ws
        /\ st' = [st EXCEPT ![r] = s]
    BY <1>4 DEF Contract!Move, st, fs, ws
  <2>2. st'[q] = st[q] \/ (q = r /\ st'[q] = s)
    BY <2>1, <1>d
  <2>3. QED BY <1>1, <2>1, <2>2
<1>5. CASE UNCHANGED Contract!vars
  <2>1. st' = st /\ fs' = fs /\ ws' = ws
    BY <1>5 DEF Contract!vars, st, fs, ws
  <2>2. QED BY <1>1, <2>1
<1>6. QED BY <1>2, <1>3, <1>4, <1>5 DEF Contract!Next

\* The record of a run has no gap: every row and the status have all they rest
\* on, back to the first phase (store/postgres.py, engine/runner.py).
THEOREM NoGap == Spec => []RecordHasNoGap
<1>1. Contract!Spec => []RecordHasNoGap
  BY GroundedInit, GroundedNext, PTL DEF Contract!Spec
<1>2. QED BY <1>1, Refines, PTL DEF ImplementsContract

=============================================================================

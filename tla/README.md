# A verification project for clawwrap

clawwrap is a control plane for what agents send and change: a *run* of a wrapper
goes through phases, is approved, planned, applied by a host and checked for
conformance; every message goes through an *outbound gate*. This directory holds
TLA+ modules of the parts that carry state, TLC configurations that check them on
small instances, and theorems that TLAPS proves for every instance.

`PROJECT.json` lists the components, runs, mutants, hazards, findings and theorems,
and maps each definition to the lines it models. Paths below are relative to
`src/src/clawwrap/`.

    tlc -workers 2 -config RunLifecycle_overlap.cfg MCRunLifecycle.tla
    tlapm RunLifecycleProofs.tla

## 1. Inventory

### Components, their state and operations

| Component | State | Operations | Modelled in |
|---|---|---|---|
| Run lifecycle (`engine/runner.py`, `cli/run.py`, `cli/apply.py`, `cli/conformance.py`) | none of its own; locals of an invocation | `start_run`, `advance`, `mark_host_apply_started/_done`; `run start/approve/resume`, `apply plan/approve/mark-applied`, `conformance check/exception` | `RunLifecycle` |
| Run store (`store/postgres.py`) | PostgreSQL rows: `runs`, `stage_transitions`, `approval_records` (one per run, upserted), `apply_plans`, `conformance_results`, `drift_exceptions` | one committed transaction per method, without a condition on what is overwritten | `RunLifecycle`, promises in `RunContract` |
| Approval engine (`engine/approval.py`, `model/approval.py`) | none | `submit_approval`, hash of the inputs, role lattice | `RunLifecycle` |
| Apply planner (`engine/planner.py`, `engine/ownership.py`) | none | plan from the artifacts of an adapter; validation against the ownership manifest | `HostPlan` (items), `RunLifecycle` (the plan row) |
| Conformance engine (`engine/conformance.py`) | none | `check_conformance`, `record_exception` | `RunLifecycle` (rows), `HostPlan` (surfaces) |
| Legacy authority (`engine/legacy.py`, `cli/legacy.py`) | none | `legacy verify`: is each source of a migrated flow gone | `HostPlan` |
| Outbound gate (`adapters/openclaw/handlers/outbound_submit.py`, `gate/*.py`, `engine/gate.py`) | the thread-local `_gate_context.active`; reads `targets.yaml`, `outbound-policy.yaml`, `openclaw.json`, `org.yaml` | `outbound.submit`: resolve, verify, rate limit, dispatch, audit | `OutboundGate` |
| Channel handlers (`adapters/openclaw/handlers/*`, `handlers/contracts/*`) | none; `CLAWWRAP_EMERGENCY` | `send`; the native transports refuse outside the gate | `OutboundGate` (their answers) |
| Rate limit (`engine/rate_limit.py`) | a JSON lockfile per lockfile channel | `check_and_record`, `for_channel` | `RateLimit`, with the messages that go out `RateLimitSends` |
| Audit log (`gate/audit.py`) | one YAML file a day | `log_verdict` | `SharedFiles` |
| Write-back of targets (`gate/resolve.py`) | `targets.yaml` | `fill_empty_target` | `SharedFiles` |
| Identity file (`adapters/local_cli/identity.py`) | one YAML file | `create_identity`, the role of an approver | `SharedFiles` |
| SMS compliance (`gate/dispatch.py`) | the table `sms_compliance_events` | `dispatch_sms_relay`: STOP, HELP, START, and whether a phone is suppressed | `SmsCompliance` |
| Connection pool (`store/connection.py`) | the singleton pool, a lock | `get_pool`, `close_pool`, `get_connection` | `ConnectionPool` |
| Specs (`engine/loader.py`, `dag.py`, `validation.py`, `cli/validate.py`) | a registry, for one command | `clawwrap graph`: load, check references and cycles, render | `SpecGraph` |
| Secrets, host plugin, generators, schemas, output | none | reads, calls of services, text | not modelled (section 6) |

### How they interact

The CLI commands are separate processes that meet only in the database. An
operation reads the run, decides, and writes row after row, each in its own
transaction: between two of them other processes run, and the process may die.
`outbound.submit` runs in a host process on any thread; what two calls share is the
thread-local flag (per thread), the configuration files (edited by people), the
lockfiles (shared by all processes of the user) and the audit log. A group send of
whatsapp goes through two rate limits: that of `submit`, and that of `dm.send_text`,
with a lockfile of its own, inside the dispatch. The host writes the surfaces of a
plan outside the repository, its operator edits them, and a check reads them
without stopping either.

### What is hard here, and what makes each part correct

* **Stale reads.** A status is compared when an operation begins and overwritten
  unconditionally at its end. What survives: a status is never in the table before
  the rows that justify it (`ApprovalGate`, `OutcomeEvidence`, `LogCoversStatus`), and
  those rows not before the ones they rest on (`RecordHasNoGap`).
* **Crashes between transactions.** With one invocation at a time a run must never
  go back or skip a phase (`StatusForward`), and log, results, approval and plans
  agree with the status (`LogIsHistory`, `OutcomeIsLatest`, `ApprovalBindsInputs`,
  `PlanCarriesApproval`); an exception names the role it was held against, also after a
  read that failed (`ExceptionNamesRole`).
* **Unlocked files.** The check of the rate limit is read, decide, truncate, write.
  As long as no record is lost, quota and interval hold (`DailyQuota`,
  `RecordSpacing`) and a refusal is justified (`RefusalJustified`). Audit log and
  targets are rewritten through temporary files: one writer at a time loses nothing
  (`AuditComplete`, `FillsStand`), and `targets.yaml` can be read whatever overlaps
  (`TargetsWhole`). The identity file is written in place and read twice; no approver
  gets a role from that (`RoleNeverRaised`).
* **A flag around a call.** It must open the guarded handlers to the calls of the
  gate, and to nothing else, however a dispatch ends (`NoBypass`).
* **Partial failure.** Unreadable files deny (`Authorised`), a denied call costs
  nothing (`NoCharge`), a verdict never claims a delivery that was not (`VerdictTrue`),
  a call that raises has delivered nothing (`RaisedUnsent`), and every call comes to an
  end (`SubmitAnswers`).
* **Double-checked creation.** Threads that find no pool create one between them
  (`OneOpenPool`), a published pool gets its schema (`PublishedHasSchema`), and an
  exception or a full pool does not leave the lock taken (`CallsEnd`).
* **Statements of overlapping transactions.** A STOP that was committed must not be
  taken back by a START that did not see it, nor outlive one that did (`StopStands`,
  `StartLifts`).
* **Several reads of a moving host.** The surfaces are read one by one: what can a
  verdict still claim (`MatchingWasTrue`, `NoFalseDrift`); a plan touches nothing the
  manifest does not own (`OwnedWrites`).
* **A recursion without a guard of its own** that relies on a check made elsewhere
  (`StackBounded`), and errors that are warnings until the end: what the exit code and
  the output of `clawwrap graph` still say (`AnswerTrue`).

## 2. Modules

### RunLifecycle

`runs`, `log`, `approval`, `plans`, `results`, `exceptions` are the tables, reduced to
the columns that decide something; rows are in the order of insertion. `job[p]` holds
the locals of the invocation that process `p` executes, `pc` its next transaction and
`then` the one after a shared step (`_transition` is the pair `LogTransition`,
`UpdateStatus`, used by five operations). Each action is one method of the store with
the code that leads to it; a guard on the status is a check the code makes at that
point and nowhere else. `Refuse` is a rejected exception; `Abort` is a crash, a store
error or any other exception, at each step.

Abstractions: SHA-256 is injective; a role is its rank; the observed host is a
nondeterministic outcome of `ReadHost`, which `HostPlan` details; early returns that
write nothing are stutters; `failed`, `cancelled` and `not_checked` are never written by
any caller; the phase is a function of the status, as both are written together.

`RunLifecycleProofs` proves it, `MCRunLifecycle` instantiates it.

### RunContract

What the run store promises to its readers, without processes, columns or order of
operations: a run has a status and a set of facts; `Commit` adds a fact whose `Basis` is
on record, `Move` writes a status whose `Basis` is on record, and `Withdraw` takes a fact
back that is `Revocable`: the approval, which `invalidate_approval` of the store is for
and `tests/integration/test_run_lifecycle.py:45` demands after a change of the inputs.
What was built on it stays, and `Grounded` allows for it; nothing more is built on it
until it is given again. The code never withdraws one, as nothing calls
`invalidate_approval`. The contract does not promise that the status moves forward: two
overlapping operations may put it back. `RunLifecycle` implements it
(`ImplementsContract`) under the mapping `status <- runs[r].status`, `facts <-
FactsOf(r)`: the phases its log has entered, an approval of a sufficient role, the
outcomes among its conformance results, an exception. No other fact may disappear. `Basis`
is read off the code: the phase before (`_NEXT_STATUS`), the approval for everything
behind it, the drift for an exception. A second row of the same kind, a repeated log entry
or a new approval is a stutter of the contract. The mapping has no history variables; each
step of `RunLifecycle` is one step of the contract or none.

### HostPlan

Details what `RunLifecycle` leaves to an outcome. `plans` are the patch items saved for a
run, `host` the content of each surface, `writer` the host at an item of a plan, `check`
the locals of `check_conformance` or of `legacy verify`. `Plan` derives and validates the
items (all of them, or nothing is saved). `LoadPlan`, `ReadConfig`, `ReadSurface` and
`Compare` are the reads of a check in their order: openclaw.json once for all keys, the
files one by one. `LoadInventory`, `VerifySource` and `Conclude` are those of a cutover.
The host (`StartWriting`, `WriteItem`) and its operator (`Edit`) are external. History:
`held`, what each surface has held during the check; `settled`, the plan the host holds
undisturbed. Pattern matching of the manifest and of ambiguous selectors is abstracted to
the sets `Owned` and `Ambiguous`, contents to model values.

### OutboundGate

`call[c]` is one call with the locals of `submit`; `active[t]` is the thread-local flag;
`config` is what the operator's files say *now*. The stages read it one after the other.
`ResolveShared` finds the targets of a key in `targets.yaml`, `ResolveDirect` asks the
resolver of a `recipient_ref` instead. `window`, `sent` and `charged` are history: the
configurations that were current during the call, the addresses that got the message, the
record in the rate limit. `Routed` is `dispatch_to_channel`: `SelectHandler` picks the id,
an id that is not in `Bound` raises, and each handler has the outcomes of its own code
(`SlackPost`, `SendEmail`, `SendText`, `GuardedSend`): answered as sent, answered with an
error, raised, the last two with or without a delivery. `CallHandler` and `Handle` are a
direct call of a guarded handler. Every exception that `submit` does not catch ends a
call in `failed`: the `OSError` of the lockfile, a policy of the wrong shape. `killed` is
the death of the process.

`RateLimit` details the step `CheckRate` of this module, `SharedFiles` the step `Audit`.
They are checked apart: the gate needs only that the check records, refuses or raises,
and that the log takes the verdict or does not.

### RateLimit

`lockfile[f]` is what `_load` makes of the file (an absent, empty or torn file is
`Blank`), `job[p]` a process inside `check_and_record` or in its sleep, `now` the clock.
Reading the file, the date and the clock are three steps; `write_text` is `Truncate` and
`Write`. `Guards` gives each kind of send the chain of guards it passes. `lost` and
`admitted` are history: a record is *lost* when a process writes over something other
than it read, or dies halfway through the write. The code has no lock, so nothing can
be claimed after that; `admitted` is then emptied and the properties speak of histories
without loss. That is not an empty claim: the instances contain such histories with
overlapping checks, midnight inside a check, shared lockfiles and crashes, and each
property has a mutant that breaks it there.

`RateLimitSends` adds one history variable, `sends`, to which `SendNow` appends the message
that goes out at the end of the last delay. With it, what the head of `rate_limit.py` says
of sends can be compared with what the records let happen; its one run refutes it.

### SharedFiles

Files down to names (`entry`) and inodes (`inode`), because that is where a rename over a
file that another process still has open makes a difference. A write empties the file
(`OpenFile`), may leave a part of it (`WritePart`) and completes it (`CloseFile`); two
writers of one inode may leave a mixture. `log_verdict` writes through the one name
`<day>.yaml.tmp`, `fill_empty_target` through a name of its own (`mkstemp`),
`create_identity` in place. `overlap` is history: after two calls of the same kind have
overlapped, log and fills promise nothing, as nothing locks them; what still holds then
is `TargetsWhole`.

### SmsCompliance

`rows` is the committed table; `job[w]` a worker with its message and its open transaction
(`ins`, `del`). `_delete_suppression_row` is two steps, as in PostgreSQL's READ COMMITTED:
`FindRows` takes the rows of the snapshot, `DeleteRows` waits for each that another
transaction has deleted. `InsertEvent` and `LookUp` are the rest; a look-up whose row
cannot be fetched answers "not suppressed" (`LookupAnswers`); `Commit` and `Abort` belong
to the caller, and with `auto` every statement commits at once. `standing` is history: the
STOPs in force, defined by the messages and not by the rows. Who calls the function is not
in the repository: the workers are external, and so is whoever sends on its answer:
`_dispatch_relay` does not ask for it.

### ConnectionPool

One action for each access to `_pool`, to `_pool_lock` and to the pool: the look without
the lock, the second look, the creation, the connection for the schema (borrowed with the
lock held), the reading of the variable by `return`, and the three steps of `close_pool`.
`EnsureFails` covers a timeout, an error and the lost answer to a commit.

### SpecGraph

`LoadWrapper`, `LoadPolicy`, `LoadError` are the files in their order (a later file of the
same name wins, an error is a warning), `CheckGraph` the checks, `RenderText` and
`RenderDot` one iteration of each recursion on an explicit `stack`. `Circular` says what
the topological sorter of the library refuses: wrappers each of which waits for one of
them. The answers are compared with another definition, what is `Below` a wrapper, as the
least set closed under dependencies; that a graph is `Circular` just when some wrapper is
below its own dependency is proved.

## 3. Runs

| Run | Instance | Shows |
|---|---|---|
| `lifecycle_overlap` | two processes, one run, 8 log entries, one plan, result and exception, reads may fail | the six invariants of overlapping invocations, and that every history of theirs is one of `RunContract` |
| `lifecycle_serial` | one process that may die, reads may fail, 10 log entries, 2 plans, 3 results, 2 exceptions, two inputs | the properties of invocations one after another |
| `ratelimit_shared` | two processes; limits 1 and 2 a day on one lockfile, a second lockfile behind it; days of 2 ticks, 4 moments, writes late by up to 3 | quota, spacing, justified refusals |
| `gate` | two calls, two threads, one edit among five configurations; whatsapp (limited, guarded or group), slack, a channel without handler; a key and a `recipient_ref` | safety of the gate, and that every call ends |
| `files` | three processes, three calls of any kinds, two slots, two addresses, two roles | what the three files promise |
| `sms` | two workers, four messages, two pairs | a STOP stands until a START, and a START lifts what it found |
| `pool` | three threads, pools of one connection, one closing | one pool, its schema, and that every call ends |
| `graph` | three wrapper files, one policy file, two dependencies each | the rendering ends; output and exit code are true of the graph |
| `host` | an owned file, an owned key, a file not owned, an ambiguous selector; two plans of eight lists of artifacts, one edit, two inventories | verdicts and ownership |
| `exception_role` | one process, one run | a violation, see section 5 |
| `late_start` | two processes, one run | a violation |
| `safe_sending` | two processes with one guard of two sends a day, no midnight | a violation |

Why the bounds suffice. A lifecycle needs six log entries to be planned and eight to be
applied, so 8 covers all statuses under overlap and 10 leaves room for two repeated
entries after crashes; a third process adds no new kind of overlap, as every overlap is
between one write and one stale read. In the rate limit two records on a limit of 1, or
three on a limit of 2, break the quota; three ticks from time 1 on contain midnight and
an interval that spans it. In the gate a call shares something with at most the other
call on its thread or on the other one, and one edit is enough to make two readings
disagree; whatsapp, slack and telegram reach a handler that raises, one that answers its
errors, one with a guard of its own and none, which are the cases `Dispatch` tells apart.
Three processes and three calls contain a reader between two writers. Four messages
contain two STOPs, a START that overlaps the second, and a look-up. One close is enough to
create a second pool, and three threads are a creator, a closer and a reader. Three
wrappers contain every cycle, diamond and missing dependency up to names. Two plans and
one edit contain a check between the two and a surface that changes while it is read.
`CHECK_DEADLOCK FALSE` stands where all calls of the instance may have been made: there
the system just rests. Symmetry is used for processes and names, in runs without liveness.

Fairness. `gate`: weak fairness of *some* step of a running call. Every wait in a call has
a bound in the code (`time.sleep` of the jitter, request and subprocess timeouts), and
nothing waits for another call, so a call does not stop inside; no fairness is given to
`Edit`, `Crash` or to a new call. `pool`: weak fairness of the steps of each thread, as
threads are scheduled, a wait for a connection has a timeout, and the database answers or
breaks the connection; no fairness of the lock is assumed. A thread cannot be passed over
for ever, because whoever gets the lock leaves a pool behind, which all others then find
without it, or uses up a close. No other property needs fairness.

## 4. Proofs

`RunLifecycleProofs` proves, for any processes, runs, inputs, required role and bounds,
under the named assumptions on the constants only:

* `TypeCorrect`: `Spec => []TypeOK`;
* `EvidenceFirst`: `Spec => []EvidenceInv`;
* `GateHolds`, `OutcomeHolds`, `LogHolds`: `ApprovalGate`, `OutcomeEvidence`,
  `LogCoversStatus`; and `LogOrderHolds`: `LogOrdered`.

and, of the refinement:

* `Refines`: `Spec => ImplementsContract`;
* `NoGap`: `Spec => []RecordHasNoGap`, proved of the contract alone and carried over.

The properties of invocations one after another are theorems under `OneProcess`, that all
steps are those of one process, which may die anywhere: `SerialHolds` (the invariant
`SerialInv`), `HistoryHolds` (`LogIsHistory`), `LatestOutcomeHolds` (`OutcomeIsLatest`),
`BindingHolds` (`ApprovalBindsInputs`), `PlanHashHolds` (`PlanCarriesApproval`),
`ExceptionRoleHolds` (`ExceptionNamesRole`) and `ForwardHolds` (`StatusForward`), whether
or not reads may fail. `OneProcess` cannot be dropped: overlapping invocations violate the
properties. `ExceptionNamesRole` is what the code keeps of the promise that an exception
needs the rank of the approver, which a failing read breaks (section 5).

The other proof modules prove, for any numbers of processes, calls, names, values and
bounds:

| Module | Theorems (property) |
|---|---|
| `ConnectionPoolProofs` | `TypeCorrect` (`TypeOK`), `OnePool` (`OneOpenPool`), `SchemaBehindPool` (`PublishedHasSchema`) |
| `SmsComplianceProofs` | `TypeCorrect` (`TypeOK`), `StopStandsAlways` (`StopStands`), `StartLiftsAlways` (`StartLifts`) |
| `OutboundGateProofs` | `TypeCorrect` (`TypeOK`), `DeliveriesAuthorised` (`Authorised`), `NoDirectDelivery` (`NoBypass`), `ChargesMatch` (`NoCharge`), `RaisingSendsNothing` (`RaisedUnsent`), `VerdictsTrue` (`VerdictTrue`) |
| `RateLimitProofs` | `TypeCorrect` (`TypeOK`), `QuotaKept` (`DailyQuota`), `SpacingKept` (`RecordSpacing`), `RefusalsJustified` (`RefusalJustified`) |
| `HostPlanProofs` | `MatchingHolds` (`MatchingWasTrue`), `DriftHasCause` (`NoFalseDrift`), `WritesOwned` (the action property `OwnedWrites`) |
| `SpecGraphProofs` | `RecursionEnds` (`StackBounded`), `AnswersTrue` (`AnswerTrue`: `AnswerComplete`, `EdgesOnce`, `CycleReported`) |
| `SharedFilesProofs` | `TypeCorrect` (`TypeOK`), `AuditKept` (`AuditComplete`), `TargetsReadable` (`TargetsWhole`), `FillsKept` (`FillsStand`), `RolesSeen` (`RoleNeverRaised`) |

Each rests on the named assumptions of its model only, and each inductive invariant was
checked with TLC on the instance of its run before it was proved.

**Lifecycle.** `ApprovalGate` is not inductive: a process that is about to write
`executing` on the strength of what it read long ago could break it. `EvidenceInv` says
what such a process knows: the status it has seen or will write is backed by rows
(`JobEntitled`), whatever the table says by now. It is inductive because rows of the log,
the results and the exceptions are never deleted, and an approval row is overwritten only
by another one of a sufficient role (`RowsStay`, `EntitledStays`): what entitled a process
once still does. Hence the lemmas: one says which tables a step changes (`StartEffect`,
`StepEffect`), one that evidence stays, one each for the first steps, the steps that add
rows and the others. `LogOrdered` is then preserved by the one action that appends to the
log, because the phase it leaves was entered.

For the refinement a process must also know that what it commits has its basis: a logged
transition is one of those the code logs (`Logged`), and a process that approves has seen
a run awaiting approval or planned. Both are conjuncts of `JobEntitled`. A step that
writes no evidence moves one run, to a status it is entitled to (`Moves`); a step that
writes evidence adds one fact, which was there before or has its basis (`Commits`, with
one lemma for each of the four tables).

For the serial properties the invariant says that nothing a process has read has become
false meanwhile, since nobody else writes (`Current`): the status it has seen is the one
of the run, the inputs and roles it carries are those of the tables. With this the log
ends in the phase of the status or, after a death between two writes, one phase further
(`Logs`), the approval and the plan are bound to the inputs of the run (`Binds`), the
latest result is that of the status (`Judges`) and every exception was held against the
approval, or against the lowest role (`HeldTo`). `StatusForward` is then a fact about one
step from such a state (`Follows`).

**Pool.** That exactly the thread between taking and giving back the lock holds it is part
of `TypeOK`. `OneOpenPool` needs one more fact: between the closing of the pool and its
forgetting nothing is open (`ClosedBeforeForgotten`). `PublishedHasSchema` is inductive
with these: a pool comes into being only under the lock, and whoever made it is in
`ensure` or `commit` until the schema is there or `failed` is set.

**SMS.** `StopStands` and `StartLifts` compare a table with a history that ignores it. The
invariant says they always agree row by row (`Matched`), which is inductive only with what
the transactions under way know: the STOPs a START saw are those of the rows it found
(`Answered`), of these the table has, past the DELETE, just what this transaction has
deleted itself and holds locked (`Answered`, `Locked`), and the number of a row to come is
in no table and no snapshot (`Fresh`). `EffectMatched` is the centre: whatever takes
effect, at a statement or at the commit, keeps rows and STOPs in step. The invariant was
checked with TLC on the instance of the run before it was proved.

**Gate.** A call reads the files one after the other, so its verdict is a fact about a
window, not about a moment. The invariant says, stage by stage, what the call has in its
hands and which configuration of its window that came from (`Backed`), which checks are
behind it (`Ordered`) and how its results and its deliveries belong to its targets
(`Told`). Configurations are only added to a window, so this knowledge does not go stale;
`Watching`, that the window of a call that is reading has the configuration of now, is
what makes the next thing it reads one of them. `NoBypass` is inductive with the typing,
by which a thread works on one call at a time and its flag is up only while that call is
being dispatched.

**Rate limit.** The lockfile and the history of what it admitted are two accounts of the
same sends. The invariant says that the one sums up the other (`Sums`), or is empty while
the only process that writes it has the sum (`Sound`); that whoever has read the file
found the sum of some first sends (`Found`), and of all of them when about to write; and
that nothing is dated later than now (`Past`). All this is claimed of files without a
lost record (`Kept`). The quota follows since days only grow with the clock
(`DayMonotone`): a count that is reset belongs to a day that does not come back. The
assumptions say that there is a channel, that every channel has guards of their type, and
that a day has a positive length.

**Host.** Three facts carry `MatchingWasTrue` and `NoFalseDrift`. A host that writes a
plan undisturbed has written its items so far, the last content of each surface standing
(`Written`, `InOrder`); what a check has read was held by the surface while it ran, and is
what stands there as long as nobody disturbs it (`Reads`); saved plans are owned
(`Planned`), and this alone makes `OwnedWrites`, a property of every step, true. That a
surface planned at all has a last item in the list is taken from a smallest distance to
the end, as the natural numbers are well-founded (`Greatest`).

**Files.** The proofs are about who can still write into which inode. A process between
opening and renaming has open what its kind of call writes (`Opened`): its own temporary
file, which is under no other name; the identity file; or what is or was the one temporary
file of the log, which may be the log itself by now when calls have overlapped. No two
names lead to one inode (`Directory`). What is about to be renamed is whole (`Ready`), and
says what was read plus the new entry (`Meant`), except, for log and fills, after an
overlap of their kind; without one there is one call of the kind (`Alone`). `PutInv` is
the centre: a write into an open file changes nothing that another call counts on.
`RoleNeverRaised` follows from what an approval has seen: the roles the file has had since
it began (`Seen`).

**Graph.** First come lemmas about any finite graph: what is below a wrapper is closed
and least (`BelowClosed`, `BelowLeast`), and among finitely many wrappers one has the
least below it (`Lowest`, as strict subsets of a finite set are well-founded), so that
wrappers that all wait for each other contain a cycle (`CircularIsCycle`). The invariant
of the rendering says that the calls follow the edges (`Path`), that of every printed
wrapper that is not on the stack all dependencies are printed (`Explored`), and that the
edges printed from a wrapper are its first dependencies, as many as its call has done
(`Edges`). `StackBounded` follows from `Path` alone: two calls for one wrapper would have
a cycle between them (`PathIsSimple`). `Descend` is the common shape of the two
renderings, and `OrderedMore` counts: a line for the next dependency goes behind all the
lines of its wrapper.

All invariants and action properties that the passing runs check are proved. Only
model-checked is what holds under fairness (`SubmitAnswers`, `CallsEnd`), as liveness is
beyond the prover, and what the violating runs refute.

## 5. Where the code and its documents differ, and what it leaves open

Shown by a run:

* `tests/integration/test_run_lifecycle.py:45` says a change of the inputs invalidates
  the approval; the late last write of `start_run` does not (`InputChangeInvalidates`).
* `engine/conformance.py:157` says the exception approver must not rank below the apply
  approver; when the read of that role fails (`:372`), any role does
  (`ExceptionOutranksApproval`). The row then names operator as the original role.
* `engine/rate_limit.py:4` says 60 seconds between sends, `:5` a daily limit. Two processes
  that check at the same time both send (`SafeSending`). One process alone violates the
  property too: the random delay comes after the record (`:238`), so sends may be closer
  together than records, and a process that dies in `write_text` leaves an empty lockfile
  (`:242`), which does not count the sends of today, although `:7` says that it tracks
  them across restarts.

Met while modelling, by reading:

* `cli/apply.py:247` says mark-applied checks for an apply approval; it compares the
  status only, and the store keeps no trace of which command approved.
* `engine/approval.py:103` says the highest role that wrapper or policies require wins;
  nothing calls that function, and both approve commands take the role of the wrapper.
* The README of the repository says verdicts are logged before dispatch; they are
  logged after it (`outbound_submit.py:252`), so a crash in between leaves no entry.
* `gate/dispatch.py:374` says the flag of an answer is the stored state; when the row
  cannot be fetched it is `False` (`LookupAnswers`).
* `gate/audit.py:50` calls its write atomic; overlapping calls share one temporary name,
  and one may rename what the other has just emptied. In `SharedFiles` this can happen;
  `AuditComplete` claims nothing then.
* `gate/resolve.py:218` says no value is overwritten; of two overlapping fills of a slot
  the second overwrites the first. `FillsStand` claims nothing then.
* `store/connection.py:32` says `get_pool` is thread-safe; the pool is published before
  its schema is there, and the fast path does not take the lock.
* `errors.py` says handlers must raise `DispatchError`; `slack_post`, `email_send` and
  `dm_send` return dictionaries with an error.
* `handlers/contracts/bluebubbles.py` and `whatsapp_gateway.py` register when they are
  imported, and no module under `src/src` imports them. In a process where nothing else
  does, a direct whatsapp or an imessage send is allowed, charged, and ends as a dispatch
  error. The constant `Bound` says which handlers are there. The ids of the relay, of
  mailchimp, resend and sms are bound in the same way.
* The SMS branch of `dispatch_to_channel` (`gate/dispatch.py:119`) does not go through
  `dispatch_sms_relay`, and no handler is registered for it.
* An answer to HELP says `suppressed: False` also for a phone with a STOP
  (`tests/gate/test_sms_dispatch.py:29` expects that).
* A call of `submit` that meets a policy of the wrong shape, or a lockfile that cannot be
  written, raises: its docstring names a verdict as the only output (`:63`), and nothing is
  logged. It has sent nothing (`RaisedUnsent`). A second guard that refuses a group send
  has the first one charged for it.
* `clawwrap graph` tells a cycle by the word "Circular" in an error message
  (`cli/validate.py:247`), which a name in another message might contain; names are
  abstract here, so the model does not say what happens then.
* Groups are sent through `dm.send_text`, which has no escape hatch.
* `legacy verify` always reads through `LocalCliAdapter`, which takes a configuration key
  and an unexpanded `~` path for a file name: such a source counts as removed. No adapter
  has the reachability tests that `shadowed_unreachable` needs, so such a source never
  verifies (`ReadLocal`, `Verified`).
* The local adapter produces no artifacts, so its plans are empty and always match. A
  plan of `OpenClawAdapter` whose artifact names no surface gets a synthesised path, which
  the built-in manifest does not own, and is refused. A surface of a prompt fragment
  (`file#section`) is never found and always drifts.
* In `clawwrap graph` files that fail to load are warnings; the format `json` of the
  handler cannot be chosen on the command line.

No function under `src/src` calls `invalidate_approval`, `check_approval_validity`,
`collapse_approval_requirements`, `create_identity`, `fill_empty_target`,
`dispatch_sms_relay`, `generate_patches`, `check_collision`, `check_compatibility`,
`save_legacy_entry`, `get_legacy_inventory` or the module `reachability`. The three among
them that keep shared state (`create_identity`, `fill_empty_target`,
`dispatch_sms_relay`) are modelled for callers that may do anything; the others are not.

## 6. Not modelled

* *Secrets* (`secrets/doppler.py`, `gate/sms_credentials.py`): one call of a CLI or a read
  of the environment; its failure is part of `Abort`.
* *Host plugin* (`extensions/clawwrap/index.ts`): registers the tool and starts the CLI.
* *Generators, schemas, output* (`generators/`, `schemas/`, `cli/handler.py`): text from
  their arguments; no state that a step could get wrong.
* *Look-ups of services* (`jid_verify`, `dm_receive_verify`, `email_verify_receipt`,
  `dm_resolve`, `target_resolve`): their outcome enters the gate as a choice.
* *The SQL of the store*: each method is one atomic step; constraints of the schema enter
  where they decide something (one approval per run).
* *Regular expressions and globs* of policies and manifests: abstracted to what matches.

## 7. Plan

Done: the modules above, and proofs of every invariant, action property and refinement
that the passing runs check. What is left, in this order:

1. An abstract specification of `OutboundGate` (a submission is denied, or authorised,
   charged, delivered and audited once) and a refinement to it, as for the lifecycle.
2. One of `RateLimit` as a ledger of sends, refined by histories without loss.
3. One of `ConnectionPool` as an atomic pool.

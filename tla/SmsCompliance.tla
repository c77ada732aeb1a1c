--------------------------- MODULE SmsCompliance ---------------------------
(***************************************************************************)
(* The keyword gate of the SMS relay, dispatch_sms_relay, on the table     *)
(* sms_compliance_events.  Messages of a phone may be handled by several   *)
(* workers at the same time, each with a connection of its own, which      *)
(* commits every statement (autocommit) or is committed or rolled back by  *)
(* the caller: dispatch_sms_relay itself does neither.  PostgreSQL runs at *)
(* its default level, READ COMMITTED.                                      *)
(*                                                                         *)
(* The workers and their calls of the function are outside the repository, *)
(* and so is what they do with its answer: nothing in clawwrap asks for    *)
(* the suppression before it sends.                                        *)
(***************************************************************************)
EXTENDS Integers, FiniteSets

CONSTANTS
    Workers,
    Pairs,      \* (tenant_id, phone_e164)
    MaxCalls    \* bound on the messages that come in

ASSUME PairsAssumption == Pairs # {}
ASSUME MaxCallsAssumption == MaxCalls \in Nat

VARIABLES
    rows,       \* sms_compliance_events, as committed
    calls,      \* messages that have come in, which number the rows as well
    job,        \* the message each worker is at, and its transaction
    standing    \* history: the STOPs in force, by number

vars == <<rows, calls, job, standing>>

\* _classify_tcpa_keyword: what is left of a body after strip and upper has to
\* be the keyword; "STOP NOW" is none.
Keywords == {"STOP", "HELP", "START"}
Bodies == Keywords \cup {"STOP NOW"}

Event(id, pair, action) == [id |-> id, pair |-> pair, action |-> action]

Idle == [pc |-> "idle", id |-> 0, pair |-> CHOOSE p \in Pairs : TRUE, body |-> "HELP",
         auto |-> FALSE,        \* the connection commits each statement
         ins |-> {},            \* inserted by this transaction
         del |-> {},            \* deleted by it, and locked until it ends
         found |-> {},          \* the rows that the DELETE has to delete
         sees |-> {},           \* history: the STOPs in force when it began
         suppressed |-> FALSE]  \* the flag in the answer to other messages

Init ==
    /\ rows = {} /\ calls = 0
    /\ job = [w \in Workers |-> Idle]
    /\ standing = {}

-----------------------------------------------------------------------------
At(w, pc) == job[w].pc = pc
Become(w, j) == job' = [job EXCEPT ![w] = j]

Suppressing(pair) == {r \in rows : r.pair = pair /\ r.action = "suppress"}
StandingFor(pair) == {s \in standing : s.pair = pair}

\* A message arrives, and a worker calls dispatch_sms_relay with it.
Receive(w) ==
    /\ At(w, "idle") /\ calls < MaxCalls
    /\ calls' = calls + 1
    /\ \E p \in Pairs, b \in Bodies, auto \in BOOLEAN :
          Become(w, [Idle EXCEPT !.pc = IF b \in {"STOP", "HELP"} THEN "insert"
                                        ELSE IF b = "START" THEN "delete" ELSE "lookup",
                                 !.id = calls + 1, !.pair = p, !.body = b, !.auto = auto])
    /\ UNCHANGED <<rows, standing>>

\* The rows del leave the table and the rows ins come in, for good.  A STOP is
\* in force from then on; a START ends those that were in force when it began.
TakeEffect(w, del, ins) ==
    /\ rows' = (rows \ del) \cup ins
    /\ standing' = (IF job[w].body = "START" THEN standing \ job[w].sees ELSE standing)
                   \cup {[id |-> r.id, pair |-> r.pair] :
                            r \in {s \in ins : job[w].body = "STOP"}}

-----------------------------------------------------------------------------
(* The statements of dispatch_sms_relay.                                   *)

\* Mutant of FindRows: only the last of the rows is deleted.
FindLastRow(w) ==
    /\ At(w, "delete")
    /\ Become(w, [job[w] EXCEPT !.pc = "lock", !.sees = StandingFor(job[w].pair),
                    !.found = {r \in Suppressing(job[w].pair) :
                                 \A s \in Suppressing(job[w].pair) : s.id <= r.id}])
    /\ UNCHANGED <<rows, calls, standing>>

\* START, the DELETE: the rows of its snapshot, ...
FindRows(w) ==
    /\ At(w, "delete")
    /\ Become(w, [job[w] EXCEPT !.pc = "lock", !.found = Suppressing(job[w].pair),
                                !.sees = StandingFor(job[w].pair)])
    /\ UNCHANGED <<rows, calls, standing>>

\* ... each of which waits for a transaction that has deleted it already.
DeleteRows(w) ==
    LET j == job[w]
        del == j.found \cap rows
    IN
    /\ At(w, "lock")
    /\ \A v \in Workers \ {w} : job[v].del \cap j.found = {}
    /\ IF j.auto
       THEN TakeEffect(w, del, {}) /\ Become(w, [j EXCEPT !.pc = "insert"])
       ELSE /\ Become(w, [j EXCEPT !.pc = "insert", !.del = del])
            /\ UNCHANGED <<rows, standing>>
    /\ UNCHANGED calls

Action == [STOP |-> "suppress", HELP |-> "respond_help", START |-> "unsuppress"]

\* Mutant of InsertEvent: a phone that has a STOP row gets no second one.
InsertOneStop(w) ==
    LET j == job[w]
        ins == IF j.body = "STOP" /\ Suppressing(j.pair) # {} THEN {}
               ELSE {Event(j.id, j.pair, Action[j.body])}
    IN
    /\ At(w, "insert")
    /\ IF j.auto
       THEN /\ rows' = rows \cup ins
            /\ standing' = IF j.body = "STOP"
                           THEN standing \cup {[id |-> j.id, pair |-> j.pair]} ELSE standing
            /\ Become(w, [j EXCEPT !.pc = "end"])
       ELSE Become(w, [j EXCEPT !.pc = "end", !.ins = ins]) /\ UNCHANGED <<rows, standing>>
    /\ UNCHANGED calls

\* The INSERT; dispatch_sms_relay returns.
InsertEvent(w) ==
    LET j == job[w]
        ins == {Event(j.id, j.pair, Action[j.body])}
    IN
    /\ At(w, "insert")
    /\ IF j.auto
       THEN TakeEffect(w, {}, ins) /\ Become(w, [j EXCEPT !.pc = "end"])
       ELSE /\ Become(w, [j EXCEPT !.pc = "end", !.ins = ins])
            /\ UNCHANGED <<rows, standing>>
    /\ UNCHANGED calls

\* Mutant of IsSuppressed: the last event of the pair decides.
IsSuppressedByLast(pair) ==
    \E r \in Suppressing(pair) : \A s \in {s \in rows : s.pair = pair} : s.id <= r.id

\* Any STOP row counts.
IsSuppressed(pair) == Suppressing(pair) # {}

\* What _lookup_suppression answers: when the row cannot be fetched, that the
\* pair is not suppressed.
LookupAnswers(pair) == {IsSuppressed(pair), FALSE}

\* No keyword: the answer says whether the pair is suppressed.
LookUp(w) ==
    /\ At(w, "lookup")
    /\ \E suppressed \in LookupAnswers(job[w].pair) :
          Become(w, [job[w] EXCEPT !.pc = "end", !.suppressed = suppressed])
    /\ UNCHANGED <<rows, calls, standing>>

-----------------------------------------------------------------------------
(* The worker ends its transaction, and forgets the message.               *)

Commit(w) ==
    /\ At(w, "end")
    /\ IF job[w].auto
       THEN UNCHANGED <<rows, standing>>
       ELSE TakeEffect(w, job[w].del, job[w].ins)
    /\ Become(w, Idle)
    /\ UNCHANGED calls

\* The caller rolls back, a statement fails, the connection breaks or the
\* worker dies: what the open transaction did is undone.
Abort(w) ==
    /\ ~At(w, "idle")
    /\ Become(w, Idle)
    /\ UNCHANGED <<rows, calls, standing>>

Next ==
    \E w \in Workers :
        \/ Receive(w)
        \/ FindRows(w) \/ DeleteRows(w) \/ InsertEvent(w)
        \/ LookUp(w)
        \/ Commit(w) \/ Abort(w)

Spec == Init /\ [][Next]_vars

-----------------------------------------------------------------------------
\* Every variable has its type; no row is deleted by two open transactions,
\* and what one has deleted is still there for the others.
TypeOK ==
    /\ \A r \in rows : /\ r.id \in 1 .. calls /\ r.pair \in Pairs
                       /\ \E k \in Keywords : r.action = Action[k]
    /\ calls \in 0 .. MaxCalls
    /\ \A w \in Workers :
          /\ job[w].pc \in {"idle", "delete", "lock", "insert", "lookup", "end"}
          /\ job[w].del \subseteq rows
          /\ \A v \in Workers : v # w => job[v].del \cap job[w].del = {}
    /\ \A s \in standing : s.id \in 1 .. calls /\ s.pair \in Pairs

\* A STOP that was committed stays in force until a START of the same pair that
\* began after it: a START that was under way, a second STOP, other pairs and
\* failures take nothing from it (gate/dispatch.py dispatch_sms_relay).
StopStands == \A p \in Pairs : StandingFor(p) # {} => IsSuppressed(p)

\* A START that was committed lifts every STOP that it found: a pair is
\* suppressed only by a STOP that no START has answered yet, however many STOPs
\* had come in (gate/dispatch.py _delete_suppression_row).
StartLifts == \A p \in Pairs : Suppressing(p) # {} => StandingFor(p) # {}

=============================================================================

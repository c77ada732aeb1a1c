------------------------ MODULE SmsComplianceProofs ------------------------
(***************************************************************************)
(* The properties of SmsCompliance for any number of workers, pairs and    *)
(* messages.  They follow from an invariant that ties the STOPs in force   *)
(* to the rows of the table, also through the transactions under way.      *)
(***************************************************************************)
EXTENDS SmsCompliance, TLAPS

Row == [id : Nat, pair : Pairs, action : {"suppress", "respond_help", "unsuppress"}]
Stop == [id : Nat, pair : Pairs]
Job == [pc : {"idle", "delete", "lock", "insert", "lookup", "end"},
        id : Nat, pair : Pairs, body : Bodies, auto : BOOLEAN,
        ins : SUBSET Row, del : SUBSET Row, found : SUBSET Row, sees : SUBSET Stop,
        suppressed : BOOLEAN]

\* All numbers have been given out.
Types ==
    /\ rows \in SUBSET Row /\ standing \in SUBSET Stop /\ calls \in 0 .. MaxCalls
    /\ job \in [Workers -> Job]
    /\ \A r \in rows : r.id \in 1 .. calls
    /\ \A w \in Workers : \A r \in job[w].found : r.id \in 1 .. calls
    /\ \A w \in Workers : ~At(w, "idle") => job[w].id \in 1 .. calls

\* What a message inserts at the end, in a transaction of its caller.
Inserts ==
    \A w \in Workers :
        job[w].ins # {} =>
            /\ At(w, "end") /\ ~job[w].auto /\ job[w].body \in Keywords
            /\ job[w].ins = {Event(job[w].id, job[w].pair, Action[job[w].body])}

\* The row of a message is not in the table yet, nor in what a START found.
Pending(w) == job[w].pc \in {"delete", "lock", "insert"} \/ job[w].ins # {}
Fresh ==
    /\ \A w \in Workers : Pending(w) =>
          /\ \A r \in rows : r.id # job[w].id
          /\ \A v \in Workers : \A r \in job[v].found : r.id # job[w].id
    /\ \A v, w \in Workers :
          v # w /\ ~At(v, "idle") /\ ~At(w, "idle") => job[v].id # job[w].id

\* Keywords are handled by the DELETE and the INSERT, other messages by neither.
Bodied ==
    \A w \in Workers :
        /\ job[w].pc \in {"delete", "lock"} => job[w].body = "START"
        /\ job[w].pc = "insert" => job[w].body \in Keywords
        /\ job[w].pc = "lookup" => job[w].body = "STOP NOW"

\* Deleted rows stay, locked, until their transaction ends.
Locked ==
    /\ \A w \in Workers : job[w].del \subseteq rows
    /\ \A v, w \in Workers : v # w => job[v].del \cap job[w].del = {}

\* A START knows the STOPs of the rows it found, and once it has passed the
\* DELETE the table has none of these rows but those it has deleted itself.
Answered ==
    \A w \in Workers :
        /\ \A i \in Nat, p \in Pairs :
              [id |-> i, pair |-> p] \in job[w].sees <=> Event(i, p, "suppress") \in job[w].found
        /\ job[w].body # "START" => job[w].found = {}
        /\ job[w].pc \notin {"insert", "end"} => job[w].del = {}
        /\ job[w].auto => job[w].del = {}
        /\ job[w].pc \in {"insert", "end"} => job[w].found \cap rows = job[w].del

\* The STOPs in force are those that have a row.
Matched ==
    \A i \in Nat, p \in Pairs :
        Event(i, p, "suppress") \in rows <=> [id |-> i, pair |-> p] \in standing

Inv == Types /\ Inserts /\ Bodied /\ Fresh /\ Locked /\ Answered /\ Matched

-----------------------------------------------------------------------------
\* What a worker becomes is all that changes in job.
LEMMA Became ==
    ASSUME job \in [Workers -> Job], NEW w \in Workers, NEW j \in Job, Become(w, j)
    PROVE  /\ job' \in [Workers -> Job]
           /\ job'[w] = j
           /\ \A v \in Workers \ {w} : job'[v] = job[v]
  BY DEF Become

\* The record of a worker without a message is one of Job.
LEMMA IdleIsJob ==
    /\ Idle \in Job /\ Idle.pc = "idle" /\ Idle.id = 0 /\ Idle.body = "HELP"
    /\ Idle.ins = {} /\ Idle.del = {} /\ Idle.found = {} /\ Idle.sees = {}
    /\ Idle.pair \in Pairs
  BY PairsAssumption DEF Idle, Job, Bodies, Keywords

\* TakeEffect: the rows that a START takes away are those of the STOPs that it
\* answers, and a STOP comes into force with its row.
LEMMA EffectMatched ==
    ASSUME Inv, NEW w \in Workers, NEW del, NEW ins, TakeEffect(w, del, ins),
           del = job[w].found \cap rows,
           \/ ins = {}
           \/ /\ ins = {Event(job[w].id, job[w].pair, Action[job[w].body])}
              /\ job[w].body \in Keywords
    PROVE  Matched'
  <1> SUFFICES ASSUME NEW i \in Nat, NEW p \in Pairs
               PROVE  Event(i, p, "suppress") \in rows' <=> [id |-> i, pair |-> p] \in standing'
    BY DEF Matched
  <1> DEFINE s == [id |-> i, pair |-> p]
             e == Event(i, p, "suppress")
             new == {[id |-> r.id, pair |-> r.pair] : r \in {q \in ins : job[w].body = "STOP"}}
  <1>1. e \in rows <=> s \in standing
    BY DEF Inv, Matched
  <1>2. s \in job[w].sees <=> e \in job[w].found
    BY DEF Inv, Answered
  <1>3. job[w].body # "START" => job[w].found = {}
    BY DEF Inv, Answered
  <1>4. e \in ins <=> s \in new
    <2>1. CASE ins = {}
      BY <2>1
    <2>2. CASE /\ ins = {Event(job[w].id, job[w].pair, Action[job[w].body])}
               /\ job[w].body \in Keywords
      <3>1. e \in ins <=> i = job[w].id /\ p = job[w].pair /\ job[w].body = "STOP"
        BY <2>2 DEF Event, Action, Keywords
      <3>2. CASE job[w].body = "STOP"
        <4>1. {q \in ins : job[w].body = "STOP"}
                 = {Event(job[w].id, job[w].pair, Action[job[w].body])}
          BY <2>2, <3>2
        <4>2. new = {[id |-> job[w].id, pair |-> job[w].pair]}
          <5>1. Event(job[w].id, job[w].pair, Action[job[w].body]).id = job[w].id
            BY DEF Event
          <5>2. Event(job[w].id, job[w].pair, Action[job[w].body]).pair = job[w].pair
            BY DEF Event
          <5> QED BY <4>1, <5>1, <5>2
        <4> QED BY <3>1, <3>2, <4>2
      <3>3. CASE job[w].body # "STOP"
        <4>1. new = {}
          BY <3>3
        <4> QED BY <3>1, <3>3, <4>1
      <3> QED BY <3>2, <3>3
    <2> QED BY <2>1, <2>2
  <1>5. rows' = (rows \ del) \cup ins
    BY DEF TakeEffect
  <1>6. standing' = (IF job[w].body = "START" THEN standing \ job[w].sees ELSE standing)
                     \cup new
    BY DEF TakeEffect
  <1> HIDE DEF s, e, new
  <1>7. e \in rows' <=> s \in standing'
    BY <1>1, <1>2, <1>3, <1>4, <1>5, <1>6
  <1> QED BY <1>7 DEF s, e

\* TakeEffect: rows and standing keep their types.
LEMMA EffectTypes ==
    ASSUME Inv, NEW w \in Workers, NEW del, NEW ins, TakeEffect(w, del, ins),
           job[w].id \in 1 .. calls,
           \/ ins = {}
           \/ /\ ins = {Event(job[w].id, job[w].pair, Action[job[w].body])}
              /\ job[w].body \in Keywords
    PROVE  /\ rows' \in SUBSET Row /\ standing' \in SUBSET Stop
           /\ \A r \in rows' : r.id \in 1 .. calls
           /\ \A r \in rows' : r \in rows \/ r.id = job[w].id
  <1>1. job[w] \in Job
    BY DEF Inv, Types
  <1>2. job[w].id \in Nat /\ job[w].pair \in Pairs
    BY <1>1 DEF Job
  <1>3. ins \subseteq Row /\ \A r \in ins : r.id = job[w].id
    BY <1>2 DEF Event, Action, Keywords, Row
  <1>4. /\ rows' = (rows \ del) \cup ins
        /\ standing' \subseteq standing \cup {[id |-> r.id, pair |-> r.pair] : r \in ins}
    BY DEF TakeEffect
  <1>5. \A r \in ins : [id |-> r.id, pair |-> r.pair] \in Stop
    BY <1>3 DEF Row, Stop
  <1> QED BY <1>3, <1>4, <1>5 DEF Inv, Types

\* Receive: a number that is in no row yet.
LEMMA ReceiveInv ==
    ASSUME Inv, NEW w \in Workers, Receive(w)
    PROVE  Inv'
  <1>p. PICK p \in Pairs, b \in Bodies, auto \in BOOLEAN :
          Become(w, [Idle EXCEPT !.pc = IF b \in {"STOP", "HELP"} THEN "insert"
                                        ELSE IF b = "START" THEN "delete" ELSE "lookup",
                                 !.id = calls + 1, !.pair = p, !.body = b, !.auto = auto])
    BY DEF Receive
  <1> DEFINE j == [Idle EXCEPT !.pc = IF b \in {"STOP", "HELP"} THEN "insert"
                                      ELSE IF b = "START" THEN "delete" ELSE "lookup",
                               !.id = calls + 1, !.pair = p, !.body = b, !.auto = auto]
  <1>0. calls \in Nat /\ p \in Pairs /\ b \in Bodies /\ auto \in BOOLEAN
    BY <1>p DEF Inv, Types
  <1>1. /\ j \in Job /\ j.pc \in {"insert", "delete", "lookup"} /\ j.body = b
        /\ j.id = calls + 1
        /\ j.ins = {} /\ j.del = {} /\ j.found = {} /\ j.sees = {}
        /\ j.pc = "delete" => b = "START"
        /\ j.pc = "insert" => b \in {"STOP", "HELP"}
        /\ j.pc = "lookup" => b = "STOP NOW"
    <2> DEFINE a == IF b \in {"STOP", "HELP"} THEN "insert"
                    ELSE IF b = "START" THEN "delete" ELSE "lookup"
    <2>0. a \in {"insert", "delete", "lookup"}
      OBVIOUS
    <2> HIDE DEF a
    <2>1. [Idle EXCEPT !.pc = a, !.id = calls + 1, !.pair = p, !.body = b, !.auto = auto] \in Job
      <3>1. Idle \in Job
        BY IdleIsJob
      <3>2. calls + 1 \in Nat
        BY <1>0
      <3> QED BY <1>0, <2>0, <3>1, <3>2 DEF Job
    <2>2. /\ j.ins = {} /\ j.del = {} /\ j.found = {} /\ j.sees = {}
          /\ j.body = b /\ j.id = calls + 1
          /\ j.pc = a
      BY IdleIsJob DEF Job, a
    <2>3. b \in {"STOP", "HELP", "START", "STOP NOW"}
      BY <1>0 DEF Bodies, Keywords
    <2> QED BY <1>0, <2>0, <2>1, <2>2, <2>3, IdleIsJob DEF a
  <1>2. /\ Become(w, j) /\ UNCHANGED <<rows, standing>> /\ calls' = calls + 1
        /\ calls < MaxCalls /\ job[w].pc = "idle"
    BY <1>p DEF Receive, At
  <1> HIDE DEF j
  <1>3. /\ job' \in [Workers -> Job] /\ job'[w] = j
        /\ \A v \in Workers \ {w} : job'[v] = job[v]
    BY <1>1, <1>2, Became DEF Inv, Types
  <1> USE DEF Inv
  <1>4. Types'
    <2>1. calls' \in 0 .. MaxCalls /\ j.id \in 1 .. calls'
      <3>1. j.id = calls + 1
        BY <1>1
      <3>2. calls' = calls + 1 /\ calls < MaxCalls
        BY <1>2
      <3> QED BY <3>1, <3>2, <1>0, MaxCallsAssumption
    <2>2. \A i \in 1 .. calls : i \in 1 .. calls'
      BY <1>0, <1>2
    <2>3. ASSUME NEW v \in Workers
          PROVE  /\ \A r \in job'[v].found : r.id \in 1 .. calls'
                 /\ ~At(v, "idle")' => job'[v].id \in 1 .. calls'
      <3>1. CASE v = w
        BY <2>1, <3>1, <1>1, <1>3
      <3>2. CASE v # w
        BY <2>2, <3>2, <1>3 DEF Types, At
      <3> QED BY <3>1, <3>2
    <2> QED BY <2>1, <2>2, <2>3, <1>2, <1>3 DEF Types
  <1>5. Inserts' /\ Bodied'
    <2>1. j.ins = {}
      BY <1>1, <1>2 DEF Inserts, At
    <2>2. Inserts'
      BY <2>1, <1>3 DEF Inserts, At
    <2>3. Bodied'
      BY <1>1, <1>2, <1>3 DEF Bodied, Keywords
    <2> QED BY <2>2, <2>3
  <1>6. Fresh'
    <2>1. \A v \in Workers : \A r \in job[v].found : r.id # calls + 1
      BY <1>0 DEF Types
    <2>2. \A r \in rows : r.id # calls + 1
      BY <1>0 DEF Types
    <2>3. \A v \in Workers : ~At(v, "idle") => job[v].id # calls + 1
      BY <1>0 DEF Types
    <2>4. ASSUME NEW v \in Workers, Pending(v)'
          PROVE  /\ \A r \in rows' : r.id # job'[v].id
                 /\ \A u \in Workers : \A r \in job'[u].found : r.id # job'[v].id
      <3>1. \A u \in Workers : job'[u].found \subseteq job[u].found
        BY <1>1, <1>3
      <3>2. CASE v = w
        BY <2>1, <2>2, <3>1, <3>2, <1>1, <1>2, <1>3
      <3>3. CASE v # w
        <4>1. Pending(v) /\ job'[v] = job[v]
          BY <2>4, <3>3, <1>3 DEF Pending
        <4> QED BY <4>1, <3>1, <1>2 DEF Fresh
      <3> QED BY <3>2, <3>3
    <2>5. ASSUME NEW u \in Workers, NEW v \in Workers, u # v, ~At(u, "idle")', ~At(v, "idle")'
          PROVE  job'[u].id # job'[v].id
      <3>1. CASE u = w
        BY <3>1, <2>3, <2>5, <1>1, <1>3 DEF At
      <3>2. CASE v = w
        BY <3>2, <2>3, <2>5, <1>1, <1>3 DEF At
      <3>3. CASE u # w /\ v # w
        BY <3>3, <2>5, <1>3 DEF Fresh, At
      <3> QED BY <3>1, <3>2, <3>3
    <2> QED BY <2>4, <2>5 DEF Fresh
  <1>7. Locked'
    BY <1>1, <1>2, <1>3 DEF Locked
  <1>8. Answered'
    BY <1>1, <1>2, <1>3 DEF Answered
  <1>9. Matched'
    BY <1>1, <1>2, <1>3 DEF Matched
  <1> QED BY <1>4, <1>5, <1>6, <1>7, <1>8, <1>9


\* FindRows: the START knows the rows that it has to delete, and their STOPs.
LEMMA FindRowsInv ==
    ASSUME Inv, NEW w \in Workers, FindRows(w)
    PROVE  Inv'
  <1> DEFINE j == [job[w] EXCEPT !.pc = "lock", !.found = Suppressing(job[w].pair),
                                 !.sees = StandingFor(job[w].pair)]
  <1>1. /\ j \in Job /\ j.pc = "lock" /\ j.body = job[w].body /\ j.id = job[w].id
        /\ j.ins = job[w].ins /\ j.del = job[w].del /\ j.auto = job[w].auto
        /\ j.found = Suppressing(job[w].pair) /\ j.sees = StandingFor(job[w].pair)
    BY DEF Inv, Types, Job, Suppressing, StandingFor
  <1>2. Become(w, j) /\ UNCHANGED <<rows, calls, standing>> /\ job[w].pc = "delete"
    BY DEF FindRows, At
  <1> HIDE DEF j
  <1>3. /\ job' \in [Workers -> Job] /\ job'[w] = j
        /\ \A v \in Workers \ {w} : job'[v] = job[v]
    BY <1>1, <1>2, Became DEF Inv, Types
  <1> USE DEF Inv
  <1>4. Types'
    BY <1>1, <1>2, <1>3 DEF Types, At, Suppressing
  <1>5. Inserts' /\ Bodied'
    BY <1>1, <1>2, <1>3 DEF Inserts, Bodied, At
  <1>6. Fresh'
    BY <1>1, <1>2, <1>3 DEF Fresh, Pending, At, Suppressing
  <1>7. Locked'
    BY <1>1, <1>2, <1>3 DEF Locked
  <1>8. Answered'
    <2>1. \A i \in Nat, p \in Pairs :
              [id |-> i, pair |-> p] \in j.sees <=> Event(i, p, "suppress") \in j.found
      BY <1>1 DEF Matched, Suppressing, StandingFor, Event
    <2>2. j.body = "START" /\ j.del = {}
      BY <1>1, <1>2 DEF Bodied, Answered
    <2> QED BY <2>1, <2>2, <1>1, <1>2, <1>3 DEF Answered
  <1>9. Matched'
    BY <1>1, <1>2, <1>3 DEF Matched
  <1> QED BY <1>4, <1>5, <1>6, <1>7, <1>8, <1>9

\* DeleteRows: what other transactions have deleted is not touched.
LEMMA DeleteRowsInv ==
    ASSUME Inv, NEW w \in Workers, DeleteRows(w)
    PROVE  Inv'
  <1> DEFINE del == job[w].found \cap rows
             j == IF job[w].auto THEN [job[w] EXCEPT !.pc = "insert"]
                                 ELSE [job[w] EXCEPT !.pc = "insert", !.del = del]
  <1>1. /\ j \in Job /\ j.pc = "insert" /\ j.body = job[w].body /\ j.id = job[w].id
        /\ j.ins = job[w].ins /\ j.auto = job[w].auto
        /\ j.del = IF job[w].auto THEN job[w].del ELSE del
        /\ j.found = job[w].found /\ j.sees = job[w].sees
    BY DEF Inv, Types, Job
  <1>2. /\ Become(w, j) /\ UNCHANGED calls /\ job[w].pc = "lock"
        /\ \A v \in Workers \ {w} : job[v].del \cap job[w].found = {}
        /\ IF job[w].auto THEN TakeEffect(w, del, {}) ELSE UNCHANGED <<rows, standing>>
    BY DEF DeleteRows, At
  <1> HIDE DEF j
  <1>3. /\ job' \in [Workers -> Job] /\ job'[w] = j
        /\ \A v \in Workers \ {w} : job'[v] = job[v]
    BY <1>1, <1>2, Became DEF Inv, Types
  <1>a. /\ rows' \subseteq rows /\ standing' \subseteq standing
        /\ rows' = IF job[w].auto THEN rows \ del ELSE rows
    BY <1>2 DEF TakeEffect
  <1>b. Matched'
    <2>1. CASE job[w].auto
      BY <2>1, <1>2, EffectMatched
    <2>2. CASE ~job[w].auto
      BY <2>2, <1>2 DEF Inv, Matched
    <2> QED BY <2>1, <2>2
  <1> USE DEF Inv
  <1>4. Types'
    BY <1>1, <1>2, <1>3, <1>a DEF Types, At
  <1>5. Inserts' /\ Bodied'
    <2>1. j.ins = {}
      BY <1>1, <1>2 DEF Inserts, At
    <2>2. Inserts'
      BY <2>1, <1>3 DEF Inserts, At
    <2>3. Bodied'
      BY <1>1, <1>2, <1>3 DEF Bodied, Keywords
    <2> QED BY <2>2, <2>3
  <1>6. Fresh'
    BY <1>1, <1>2, <1>3, <1>a DEF Fresh, Pending, At
  <1>7. Locked'
    BY <1>1, <1>2, <1>3, <1>a DEF Locked, Answered
  <1>8. Answered'
    <2>1. job[w].body = "START" /\ job[w].del = {}
      BY <1>2 DEF Bodied, Answered
    <2>2. j.found \cap rows' = j.del
      <3>1. CASE job[w].auto
        BY <2>1, <3>1, <1>1, <1>a
      <3>2. CASE ~job[w].auto
        BY <3>2, <1>1, <1>a
      <3> QED BY <3>1, <3>2
    <2>3. j.auto => j.del = {}
      BY <2>1, <1>1
    <2>4. \A v \in Workers \ {w} :
              job[v].pc \in {"insert", "end"} => job[v].found \cap rows' = job[v].del
      <3> SUFFICES ASSUME NEW v \in Workers \ {w}, job[v].pc \in {"insert", "end"}
                   PROVE  job[v].found \cap rows' = job[v].del
        OBVIOUS
      <3>1. job[v].found \cap rows = job[v].del /\ job[v].del \cap del = {}
        BY <1>2 DEF Answered
      <3> QED BY <3>1, <1>a
    <2>5. \A i \in Nat, p \in Pairs :
              [id |-> i, pair |-> p] \in j.sees <=> Event(i, p, "suppress") \in j.found
      BY <1>1 DEF Answered
    <2> QED BY <2>1, <2>2, <2>3, <2>4, <2>5, <1>1, <1>3 DEF Answered
  <1>9. Matched'
    BY <1>1, <1>2, <1>3, <1>b
  <1> QED BY <1>4, <1>5, <1>6, <1>7, <1>8, <1>9

\* InsertEvent: at once, or with the transaction of the caller.
LEMMA InsertEventInv ==
    ASSUME Inv, NEW w \in Workers, InsertEvent(w)
    PROVE  Inv'
  <1> DEFINE ins == {Event(job[w].id, job[w].pair, Action[job[w].body])}
             j == IF job[w].auto THEN [job[w] EXCEPT !.pc = "end"]
                                 ELSE [job[w] EXCEPT !.pc = "end", !.ins = ins]
  <1>0. /\ job[w].pc = "insert" /\ job[w].id \in 1 .. calls /\ job[w].body \in Keywords
        /\ job[w].ins = {}
        /\ job[w].pair \in Pairs /\ job[w].id \in Nat
    BY DEF InsertEvent, At, Inv, Types, Job, Bodied, Inserts
  <1>c. ins \in SUBSET Row
    BY <1>0 DEF Event, Action, Keywords, Row
  <1>2. /\ Become(w, j) /\ UNCHANGED calls
        /\ IF job[w].auto THEN TakeEffect(w, {}, ins) ELSE UNCHANGED <<rows, standing>>
    BY DEF InsertEvent
  <1> HIDE DEF ins
  <1>1. /\ j \in Job /\ j.pc = "end" /\ j.body = job[w].body /\ j.id = job[w].id
        /\ j.pair = job[w].pair
        /\ j.ins = (IF job[w].auto THEN {} ELSE ins) /\ j.auto = job[w].auto
        /\ j.del = job[w].del
        /\ j.found = job[w].found /\ j.sees = job[w].sees
    BY <1>0, <1>c DEF Inv, Types, Job
  <1> HIDE DEF j
  <1>3. /\ job' \in [Workers -> Job] /\ job'[w] = j
        /\ \A v \in Workers \ {w} : job'[v] = job[v]
    BY <1>1, <1>2, Became DEF Inv, Types
  <1>d. job[w].auto => {} = job[w].found \cap rows
    BY <1>0 DEF Inv, Answered
  <1>a. /\ rows' \in SUBSET Row /\ standing' \in SUBSET Stop
        /\ \A r \in rows' : r.id \in 1 .. calls
        /\ \A r \in rows' : r \in rows \/ r.id = job[w].id
        /\ rows \subseteq rows'
    <2>1. CASE job[w].auto
      <3>1. TakeEffect(w, {}, ins)
        BY <2>1, <1>2
      <3>2. rows \subseteq rows'
        BY <3>1 DEF TakeEffect
      <3> QED BY <3>1, <3>2, <1>0, EffectTypes DEF ins
    <2>2. CASE ~job[w].auto
      BY <2>2, <1>2 DEF Inv, Types
    <2> QED BY <2>1, <2>2
  <1>b. Matched'
    <2>1. CASE job[w].auto
      BY <2>1, <1>0, <1>2, <1>d, EffectMatched DEF ins
    <2>2. CASE ~job[w].auto
      BY <2>2, <1>2 DEF Inv, Matched
    <2> QED BY <2>1, <2>2
  <1> USE DEF Inv
  <1>4. Types'
    BY <1>0, <1>1, <1>2, <1>3, <1>a DEF Types, At
  <1>5. Inserts' /\ Bodied'
    <2>1. j.ins # {} => ~j.auto /\ j.ins = ins
      BY <1>1
    <2>2. Inserts'
      BY <2>1, <1>0, <1>1, <1>3 DEF Inserts, At, ins
    <2>3. Bodied'
      BY <1>1, <1>3 DEF Bodied
    <2> QED BY <2>2, <2>3
  <1>6. Fresh'
    <2>1. \A v \in Workers : \A r \in job[v].found : r.id # job[w].id
      BY <1>0 DEF Fresh, Pending
    <2>2. \A v \in Workers \ {w} : ~At(v, "idle") => job[v].id # job[w].id
      BY <1>0 DEF Fresh, At
    <2>3. \A v \in Workers \ {w} : Pending(v) => ~At(v, "idle")
      BY DEF Pending, Inserts, At
    <2>4. \A v \in Workers : Pending(v)' => Pending(v)
      BY <1>0, <1>1, <1>3 DEF Pending
    <2>5. \A r \in rows : r.id # job[w].id
      BY <1>0 DEF Fresh, Pending
    <2>6. \A v \in Workers : job'[v].id = job[v].id /\ job'[v].found = job[v].found
      BY <1>1, <1>3
    <2>7. \A v \in Workers : ~At(v, "idle")' => ~At(v, "idle")
      BY <1>0, <1>3 DEF At
    <2>8. job[w].auto \/ rows' = rows
      BY <1>2
    <2>9. job[w].auto => ~Pending(w)'
      BY <1>1, <1>3 DEF Pending
    <2>10. ASSUME NEW v \in Workers, Pending(v)'
           PROVE  /\ \A r \in rows' : r.id # job'[v].id
                  /\ \A u \in Workers : \A r \in job'[u].found : r.id # job'[v].id
      <3>1. Pending(v)
        BY <2>4, <2>10
      <3>2. CASE v = w
        BY <3>1, <3>2, <2>1, <2>5, <2>6, <2>8, <2>9, <2>10
      <3>3. CASE v # w
        BY <3>1, <3>3, <2>2, <2>3, <2>6, <1>a DEF Fresh
      <3> QED BY <3>2, <3>3
    <2> QED BY <2>6, <2>7, <2>10 DEF Fresh
  <1>7. Locked'
    BY <1>1, <1>2, <1>3, <1>a DEF Locked
  <1>8. Answered'
    <2>1. \A v \in Workers : \A r \in job[v].found : r \in rows' => r \in rows
      BY <1>0, <1>a DEF Fresh, Pending
    <2>2. \A v \in Workers : job[v].found \cap rows' = job[v].found \cap rows
      BY <2>1, <1>a
    <2> QED BY <1>0, <1>1, <1>3, <2>2 DEF Answered
  <1>9. Matched'
    BY <1>0, <1>1, <1>2, <1>3, <1>b
  <1> QED BY <1>4, <1>5, <1>6, <1>7, <1>8, <1>9

\* LookUp: an answer, and no change of the table.
LEMMA LookUpInv ==
    ASSUME Inv, NEW w \in Workers, LookUp(w)
    PROVE  Inv'
  <1>p. PICK suppressed \in BOOLEAN :
          Become(w, [job[w] EXCEPT !.pc = "end", !.suppressed = suppressed])
    BY DEF LookUp, LookupAnswers, IsSuppressed
  <1> DEFINE j == [job[w] EXCEPT !.pc = "end", !.suppressed = suppressed]
  <1>2. /\ Become(w, j) /\ UNCHANGED <<rows, calls, standing>> /\ job[w].pc = "lookup"
    BY <1>p DEF LookUp, At
  <1>1. /\ j \in Job /\ j.pc = "end" /\ j.body = job[w].body /\ j.id = job[w].id
        /\ j.ins = job[w].ins /\ j.del = job[w].del /\ j.auto = job[w].auto
        /\ j.found = job[w].found /\ j.sees = job[w].sees
    BY DEF Inv, Types, Job
  <1> HIDE DEF j
  <1>3. /\ job' \in [Workers -> Job] /\ job'[w] = j
        /\ \A v \in Workers \ {w} : job'[v] = job[v]
    BY <1>1, <1>2, Became DEF Inv, Types
  <1> USE DEF Inv
  <1>4. Types'
    BY <1>1, <1>2, <1>3 DEF Types, At
  <1>5. Inserts' /\ Bodied'
    <2>1. j.ins = {}
      BY <1>1, <1>2 DEF Inserts, At
    <2>2. Inserts'
      BY <2>1, <1>3 DEF Inserts, At
    <2>3. Bodied'
      BY <1>1, <1>2, <1>3 DEF Bodied
    <2> QED BY <2>2, <2>3
  <1>6. Fresh'
    BY <1>1, <1>2, <1>3 DEF Fresh, Types, Pending, At
  <1>7. Locked'
    BY <1>1, <1>2, <1>3 DEF Locked
  <1>8. Answered'
    <2>1. j.found = {} /\ j.del = {}
      BY <1>1, <1>2 DEF Answered, Bodied
    <2>2. \A i \in Nat, p \in Pairs :
              [id |-> i, pair |-> p] \in j.sees <=> Event(i, p, "suppress") \in j.found
      BY <1>1 DEF Answered
    <2>3. ASSUME NEW v \in Workers
          PROVE  /\ \A i \in Nat, p \in Pairs :
                       [id |-> i, pair |-> p] \in job'[v].sees
                          <=> Event(i, p, "suppress") \in job'[v].found
                 /\ job'[v].body # "START" => job'[v].found = {}
                 /\ job'[v].pc \notin {"insert", "end"} => job'[v].del = {}
                 /\ job'[v].auto => job'[v].del = {}
                 /\ job'[v].pc \in {"insert", "end"} => job'[v].found \cap rows' = job'[v].del
      <3>1. CASE v = w
        BY <2>1, <2>2, <3>1, <1>3
      <3>2. CASE v # w
        BY <3>2, <1>2, <1>3 DEF Answered
      <3> QED BY <3>1, <3>2
    <2> QED BY <2>3 DEF Answered
  <1>9. Matched'
    BY <1>1, <1>2, <1>3 DEF Matched
  <1> QED BY <1>4, <1>5, <1>6, <1>7, <1>8, <1>9

\* Commit: the transaction of the caller takes effect as a whole.
LEMMA CommitInv ==
    ASSUME Inv, NEW w \in Workers, Commit(w)
    PROVE  Inv'
  <1>1. /\ Become(w, Idle) /\ UNCHANGED calls /\ job[w].pc = "end"
        /\ IF job[w].auto THEN UNCHANGED <<rows, standing>>
                          ELSE TakeEffect(w, job[w].del, job[w].ins)
    BY DEF Commit, At
  <1>2. /\ job' \in [Workers -> Job] /\ job'[w] = Idle
        /\ \A v \in Workers \ {w} : job'[v] = job[v]
    BY <1>1, IdleIsJob, Became DEF Inv, Types
  <1>3. /\ job[w].id \in 1 .. calls
        /\ job[w].del = job[w].found \cap rows
        /\ \/ job[w].ins = {}
           \/ /\ job[w].ins = {Event(job[w].id, job[w].pair, Action[job[w].body])}
              /\ job[w].body \in Keywords
    BY <1>1 DEF Inv, Types, At, Answered, Inserts
  <1>a. /\ rows' \in SUBSET Row /\ standing' \in SUBSET Stop
        /\ \A r \in rows' : r.id \in 1 .. calls
        /\ \A r \in rows' : r \in rows \/ (r.id = job[w].id /\ Pending(w))
        /\ \A r \in rows : r \in rows' \/ r \in job[w].del
    <2>1. CASE job[w].auto
      BY <2>1, <1>1 DEF Inv, Types
    <2>2. CASE ~job[w].auto
      <3>1. TakeEffect(w, job[w].del, job[w].ins)
        BY <2>2, <1>1
      <3>2. rows' = (rows \ job[w].del) \cup job[w].ins
        BY <3>1 DEF TakeEffect
      <3> QED BY <3>1, <3>2, <1>3, EffectTypes DEF Pending
    <2> QED BY <2>1, <2>2
  <1>b. Matched'
    <2>1. CASE job[w].auto
      BY <2>1, <1>1 DEF Inv, Matched
    <2>2. CASE ~job[w].auto
      BY <2>2, <1>1, <1>3, EffectMatched
    <2> QED BY <2>1, <2>2
  <1> USE DEF Inv
  <1>4. Types'
    BY <1>1, <1>2, <1>a, IdleIsJob DEF Types, At
  <1>5. Inserts' /\ Bodied'
    BY <1>2, IdleIsJob DEF Inserts, Bodied, At
  <1>c. \A v \in Workers : \A r \in job[v].found : r \in rows' => r \in rows
    BY <1>a DEF Fresh
  <1>6. Fresh'
    <2>1. ASSUME NEW v \in Workers, Pending(v)'
          PROVE  /\ \A r \in rows' : r.id # job'[v].id
                 /\ \A u \in Workers : \A r \in job'[u].found : r.id # job'[v].id
      <3>1. v # w
        BY <2>1, <1>2, IdleIsJob DEF Pending
      <3>2. Pending(v) /\ job'[v] = job[v]
        BY <2>1, <3>1, <1>2 DEF Pending
      <3>3. ~At(v, "idle") /\ ~At(w, "idle")
        BY <3>2, <1>1 DEF Pending, At, Inserts
      <3>4. job[v].id # job[w].id
        BY <3>1, <3>3 DEF Fresh
      <3>5. \A r \in rows : r.id # job[v].id
        BY <3>2 DEF Fresh
      <3>6. \A u \in Workers : \A r \in job[u].found : r.id # job[v].id
        BY <3>2 DEF Fresh
      <3>7. \A u \in Workers : job'[u].found \subseteq job[u].found
        BY <1>2, IdleIsJob
      <3> QED BY <3>2, <3>4, <3>5, <3>6, <3>7, <1>a
    <2>2. ASSUME NEW u \in Workers, NEW v \in Workers, u # v, ~At(u, "idle")', ~At(v, "idle")'
          PROVE  job'[u].id # job'[v].id
      <3>1. u # w /\ v # w
        BY <2>2, <1>2, IdleIsJob DEF At
      <3> QED BY <3>1, <2>2, <1>2 DEF Fresh, At
    <2> QED BY <2>1, <2>2 DEF Fresh
  <1>7. Locked'
    BY <1>2, <1>a, IdleIsJob DEF Locked
  <1>8. Answered'
    <2>1. \A v \in Workers \ {w} :
              job[v].pc \in {"insert", "end"} => job[v].found \cap rows' = job[v].del
      BY <1>a, <1>c DEF Answered, Locked
    <2> QED BY <1>2, <2>1, IdleIsJob DEF Answered
  <1>9. Matched'
    BY <1>2, <1>b, IdleIsJob
  <1> QED BY <1>4, <1>5, <1>6, <1>7, <1>8, <1>9

\* Abort: the table loses nothing, and the locks go.
LEMMA AbortInv ==
    ASSUME Inv, NEW w \in Workers, Abort(w)
    PROVE  Inv'
  <1>1. Become(w, Idle) /\ UNCHANGED <<rows, calls, standing>>
    BY DEF Abort
  <1>2. /\ job' \in [Workers -> Job] /\ job'[w] = Idle
        /\ \A v \in Workers \ {w} : job'[v] = job[v]
    BY <1>1, IdleIsJob, Became DEF Inv, Types
  <1> USE DEF Inv
  <1>4. Types'
    BY <1>1, <1>2, IdleIsJob DEF Types, At
  <1>5. Inserts' /\ Bodied'
    BY <1>2, IdleIsJob DEF Inserts, Bodied, At
  <1>6. Fresh'
    BY <1>1, <1>2, IdleIsJob DEF Fresh, Pending, At
  <1>7. Locked'
    BY <1>1, <1>2, IdleIsJob DEF Locked
  <1>8. Answered'
    BY <1>1, <1>2, IdleIsJob DEF Answered
  <1>9. Matched'
    BY <1>1, <1>2, IdleIsJob DEF Matched
  <1> QED BY <1>4, <1>5, <1>6, <1>7, <1>8, <1>9

-----------------------------------------------------------------------------
\* The empty table, and idle workers.
LEMMA InitInv == Init => Inv
  <1> SUFFICES ASSUME Init PROVE Inv
    OBVIOUS
  <1>1. job = [w \in Workers |-> Idle] /\ rows = {} /\ standing = {} /\ calls = 0
    BY DEF Init
  <1>2. Types
    BY <1>1, IdleIsJob, MaxCallsAssumption DEF Types, At
  <1>3. Inserts /\ Bodied /\ Fresh /\ Locked
    BY <1>1, IdleIsJob DEF Inserts, Bodied, Fresh, Locked, Pending, At
  <1>4. Answered /\ Matched
    BY <1>1, IdleIsJob DEF Answered, Matched, At
  <1> QED BY <1>2, <1>3, <1>4 DEF Inv

\* Every statement of every worker preserves the invariant.
LEMMA StepInv == Inv /\ [Next]_vars => Inv'
  <1> SUFFICES ASSUME Inv, [Next]_vars PROVE Inv'
    OBVIOUS
  <1>1. CASE UNCHANGED vars
    <2>1. rows' = rows /\ calls' = calls /\ job' = job /\ standing' = standing
      BY <1>1 DEF vars
    <2>2. Types' /\ Inserts' /\ Bodied'
      BY <2>1 DEF Inv, Types, Inserts, Bodied, At
    <2>3. Fresh' /\ Locked'
      BY <2>1 DEF Inv, Fresh, Locked, Pending, At
    <2>4. Answered' /\ Matched'
      BY <2>1 DEF Inv, Answered, Matched
    <2> QED BY <2>2, <2>3, <2>4 DEF Inv
  <1>2. CASE Next
    <2> PICK w \in Workers : \/ Receive(w) \/ FindRows(w) \/ DeleteRows(w) \/ InsertEvent(w)
                             \/ LookUp(w) \/ Commit(w) \/ Abort(w)
      BY <1>2 DEF Next
    <2> QED BY ReceiveInv, FindRowsInv, DeleteRowsInv, InsertEventInv, LookUpInv,
               CommitInv, AbortInv
  <1> QED BY <1>1, <1>2

\* A STOP in force has its row, and a row that suppresses its STOP.
LEMMA InvMeans ==
    ASSUME Inv
    PROVE  StopStands /\ StartLifts
  <1>1. ASSUME NEW p \in Pairs, NEW s \in StandingFor(p)
        PROVE  IsSuppressed(p)
    <2>1. s \in standing /\ s \in Stop /\ s.pair = p
      BY DEF StandingFor, Inv, Types
    <2>2. s = [id |-> s.id, pair |-> s.pair] /\ s.id \in Nat
      BY <2>1 DEF Stop
    <2>3. Event(s.id, p, "suppress") \in rows
      BY <2>1, <2>2 DEF Inv, Matched
    <2>4. Event(s.id, p, "suppress") \in Suppressing(p)
      BY <2>3 DEF Suppressing, Event
    <2> QED BY <2>4 DEF IsSuppressed
  <1>2. ASSUME NEW p \in Pairs, NEW r \in Suppressing(p)
        PROVE  StandingFor(p) # {}
    <2>1. r \in rows /\ r \in Row /\ r.pair = p /\ r.action = "suppress"
      BY DEF Suppressing, Inv, Types
    <2>2. r = Event(r.id, p, "suppress") /\ r.id \in Nat
      BY <2>1 DEF Row, Event
    <2>3. [id |-> r.id, pair |-> p] \in standing
      BY <2>1, <2>2 DEF Inv, Matched
    <2>4. [id |-> r.id, pair |-> p] \in StandingFor(p)
      BY <2>3 DEF StandingFor
    <2> QED BY <2>4
  <1> QED BY <1>1, <1>2 DEF StopStands, StartLifts

\* TypeOK is part of the invariant.
LEMMA InvTypeOK ==
    ASSUME Inv
    PROVE  TypeOK
  <1>1. ASSUME NEW r \in rows
        PROVE  r.pair \in Pairs /\ \E k \in Keywords : r.action = Action[k]
    <2>1. r \in Row
      BY DEF Inv, Types
    <2>2. r.pair \in Pairs /\ r.action \in {"suppress", "respond_help", "unsuppress"}
      BY <2>1 DEF Row
    <2> QED BY <2>2 DEF Keywords, Action
  <1>2. ASSUME NEW w \in Workers
        PROVE  job[w].pc \in {"idle", "delete", "lock", "insert", "lookup", "end"}
    <2>1. job[w] \in Job
      BY DEF Inv, Types
    <2> QED BY <2>1 DEF Job
  <1>3. ASSUME NEW s \in standing
        PROVE  s.id \in 1 .. calls /\ s.pair \in Pairs
    <2>1. s \in Stop
      BY DEF Inv, Types
    <2>2. s = [id |-> s.id, pair |-> s.pair] /\ s.id \in Nat /\ s.pair \in Pairs
      BY <2>1 DEF Stop
    <2>3. Event(s.id, s.pair, "suppress") \in rows
      BY <2>2 DEF Inv, Matched
    <2>4. Event(s.id, s.pair, "suppress").id \in 1 .. calls
      BY <2>3 DEF Inv, Types
    <2> QED BY <2>2, <2>4 DEF Event
  <1> QED BY <1>1, <1>2, <1>3 DEF Inv, Types, Locked, TypeOK

-----------------------------------------------------------------------------
\* The invariant holds in every state.
LEMMA AlwaysInv == Spec => []Inv
  BY InitInv, StepInv, PTL DEF Spec

\* Every variable of the keyword gate keeps its type, and rows that two open
\* transactions have deleted are different ones.
THEOREM TypeCorrect == Spec => []TypeOK
  BY AlwaysInv, InvTypeOK, PTL

\* A committed STOP suppresses its pair until a START that began after it is
\* committed, whatever other workers do meanwhile.
THEOREM StopStandsAlways == Spec => []StopStands
  BY AlwaysInv, InvMeans, PTL

\* A committed START lifts every STOP it found: no pair stays suppressed by one.
THEOREM StartLiftsAlways == Spec => []StartLifts
  BY AlwaysInv, InvMeans, PTL

=============================================================================

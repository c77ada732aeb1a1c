---------------------------- MODULE SharedFiles ----------------------------
(***************************************************************************)
(* The files that processes of clawwrap share without a lock, down to the  *)
(* directory entry and the inode behind it:                                *)
(*   - the audit log of a day: log_verdict reads it, writes all of it to   *)
(*     the one name "<day>.yaml.tmp" and renames that over the log;        *)
(*   - targets.yaml: fill_empty_target does the same through a temporary   *)
(*     file of its own (mkstemp);                                          *)
(*   - the identity file of the local adapter: create_identity writes it   *)
(*     in place, an approval reads it once for the evidence and once more  *)
(*     for the role.                                                       *)
(* A process may die, and a call of the system may fail, at any step.      *)
(***************************************************************************)
EXTENDS Integers, Sequences, FiniteSets

CONSTANTS
    Processes,
    Slots,      \* the (context, audience, channel) entries of targets.yaml
    Addresses,
    Roles,      \* ApprovalRole, as numbers
    Inodes,
    NoInode,
    MaxOps      \* bound on the calls made

ASSUME RoleOrder == Roles \subseteq Nat /\ 0 \in Roles
ASSUME InodeAssumption == NoInode \notin Inodes /\ \E t, i \in Inodes : t # i
ASSUME BoundAssumption == MaxOps \in Nat
ASSUME AddressAssumption == 0 \notin Addresses     \* Vacant is no address

VARIABLES
    entry,      \* the directory: the inode of a name, or NoInode
    inode,      \* what is in an inode
    job,        \* the call each process is in
    ops,        \* calls made so far
    logged,     \* history: the entries that were answered with logged: True
    filled,     \* history: the slots as the answered fills left them
    overlap     \* history: the kinds of calls that have overlapped

vars == <<entry, inode, job, ops, logged, filled, overlap>>

-----------------------------------------------------------------------------
(* Contents, as sequences: the entries of a log, the targets by slot, the  *)
(* role of an identity.  A file that is opened for writing is empty, and   *)
(* in part while its new content is on the way; the end of the write makes *)
(* it whole.                                                               *)

Empty == [state |-> "empty", data |-> <<>>]
Part(d) == [state |-> "part", data |-> d]
Whole(d) == [state |-> "whole", data |-> d]

Vacant == 0     \* a slot whose target is null
Operator == 0   \* ApprovalRole.operator, the lowest role

Kinds == {"log", "fill", "identity"}
File == [log |-> "audit", fill |-> "targets", identity |-> "identity"]
SharedNames == {"audit", "audit.tmp", "targets", "identity"}
Names == SharedNames \cup Processes     \* mkstemp's names are those of the processes

ASSUME NamesAssumption == SharedNames \cap Processes = {}

\* Mutant of WriteName: one fixed name for all temporary files.
WriteNameShared(p, kind) == IF kind = "identity" THEN "identity" ELSE "audit.tmp"

\* The name a call writes to: a name that all share, one of mkstemp's, which
\* nobody else has, or the file itself.
WriteName(p, kind) ==
    CASE kind = "log" -> "audit.tmp"
      [] kind = "fill" -> p
      [] OTHER -> "identity"

Idle == [pc |-> "idle", kind |-> "log", arg |-> 0, data |-> <<>>,
         fd |-> NoInode, mixed |-> FALSE, seen |-> {}]

Init ==
    LET t == CHOOSE x \in Inodes : TRUE
        i == CHOOSE x \in Inodes \ {t} : TRUE
    IN /\ entry = [n \in Names |-> IF n = "targets" THEN t
                                   ELSE IF n = "identity" THEN i ELSE NoInode]
       /\ \E r \in Roles :
             inode = [x \in Inodes |-> IF x = t THEN Whole([s \in Slots |-> Vacant])
                                      ELSE IF x = i THEN Whole(<<r>>) ELSE Empty]
       /\ job = [p \in Processes |-> Idle]
       /\ ops = 0
       /\ logged = <<>> /\ filled = [s \in Slots |-> Vacant]
       /\ overlap = {}

-----------------------------------------------------------------------------
At(p, pc) == job[p].pc = pc
Goto(p, pc) == job' = [job EXCEPT ![p].pc = pc]
Leave(p) == job' = [job EXCEPT ![p] = Idle]

Content(n) == inode[entry[n]]

\* The inodes that neither a name nor an open file refers to.
FreeInodes == {i \in Inodes : /\ \A n \in Names : entry[n] # i
                              /\ \A p \in Processes : job[p].fd # i}

\* The role in the identity file; what an unfinished write left may lack it.
RolesOf(c) == {Operator} \cup {c.data[i] : i \in DOMAIN c.data}

\* p puts content c into the inode i that it has open and goes on to pc: the
\* other processes that have it open will write over that, and approvals on
\* their way may read it.
Put(p, i, c, pc, fd) ==
    /\ inode' = [inode EXCEPT ![i] = c]
    /\ job' = [q \in Processes |->
                 IF q = p
                 THEN [job[p] EXCEPT !.pc = pc, !.fd = fd,
                                     !.mixed = IF pc = "write" THEN FALSE ELSE @]
                 ELSE [job[q] EXCEPT
                        !.mixed = @ \/ job[q].fd = i,
                        !.seen = IF job[q].kind = "role" /\ job[p].kind = "identity"
                                 THEN @ \cup RolesOf(c) ELSE @]]

Calls(p, kind, arg, pc, seen) ==
    /\ At(p, "idle") /\ ops < MaxOps
    /\ ops' = ops + 1
    /\ job' = [job EXCEPT ![p] = [Idle EXCEPT !.pc = pc, !.kind = kind, !.arg = arg,
                                              !.seen = seen,
                                              !.data = IF kind = "identity" THEN <<arg>> ELSE @]]
    /\ overlap' = IF \E q \in Processes \ {p} : ~At(q, "idle") /\ job[q].kind = kind
                  THEN overlap \cup {kind} ELSE overlap
    /\ UNCHANGED <<entry, inode, logged, filled>>

\* log_verdict; the entries are numbered.
CallLog(p) == Calls(p, "log", ops + 1, "read", {})
CallFill(p) == \E s \in Slots, a \in Addresses : Calls(p, "fill", <<s, a>>, "read", {})
CallCreateIdentity(p) == \E r \in Roles : Calls(p, "identity", r, "open", {})
CallResolveRole(p) == Calls(p, "role", 0, "evidence", RolesOf(Content("identity")))

Histories == <<ops, logged, filled, overlap>>

-----------------------------------------------------------------------------
(* log_verdict and fill_empty_target read the file.                        *)

\* The lists a file may parse to: a piece of YAML is a shorter list, no list
\* at all, which counts as empty, or no YAML (then ReadFails).
Parses(c) == IF c.state = "whole" THEN {c.data}
             ELSE {SubSeq(c.data, 1, n) : n \in 0 .. Len(c.data)}

\* Mutant of ReadLog: the log is not read again.
ReadLogNot(p) ==
    /\ At(p, "read") /\ job[p].kind = "log"
    /\ job' = [job EXCEPT ![p].pc = "open", ![p].data = <<job[p].arg>>]
    /\ UNCHANGED <<entry, inode, Histories>>

ReadLog(p) ==
    /\ At(p, "read") /\ job[p].kind = "log"
    /\ \E entries \in IF entry["audit"] = NoInode THEN {<<>>}
                      ELSE Parses(Content("audit")) :
          job' = [job EXCEPT ![p].pc = "open", ![p].data = Append(entries, job[p].arg)]
    /\ UNCHANGED <<entry, inode, Histories>>

\* Mutant of ReadTargets: an entry in place is overwritten.
ReadTargetsUnchecked(p) ==
    /\ At(p, "read") /\ job[p].kind = "fill" /\ Content("targets").state = "whole"
    /\ job' = [job EXCEPT ![p].pc = "open",
                 ![p].data = [s \in Slots |-> IF s = job[p].arg[1] THEN job[p].arg[2]
                                              ELSE Vacant]]
    /\ UNCHANGED <<entry, inode, Histories>>

\* A slot that is taken raises a ValueError.
ReadTargets(p) ==
    /\ At(p, "read") /\ job[p].kind = "fill" /\ Content("targets").state = "whole"
    /\ LET slots == Content("targets").data
           slot == job[p].arg[1]
       IN IF slots[slot] # Vacant
          THEN Leave(p)
          ELSE job' = [job EXCEPT ![p].pc = "open",
                                  ![p].data = [slots EXCEPT ![slot] = job[p].arg[2]]]
    /\ UNCHANGED <<entry, inode, Histories>>

-----------------------------------------------------------------------------
(* Writing.                                                                *)

\* open(name, "w"), and mkstemp: an inode that exists is emptied; when none is
\* free the call fails.
OpenFile(p) ==
    /\ At(p, "open")
    /\ LET name == WriteName(p, job[p].kind)
           i == IF entry[name] = NoInode THEN CHOOSE x \in FreeInodes : TRUE ELSE entry[name]
       IN /\ entry[name] # NoInode \/ FreeInodes # {}
          /\ Put(p, i, Empty, "write", i)
          /\ entry' = [entry EXCEPT ![name] = i]
    /\ UNCHANGED Histories

\* A buffer is full: part of the content is in the file.
WritePart(p) ==
    /\ At(p, "write")
    /\ Put(p, job[p].fd, Part(job[p].data), "rest", job[p].fd)
    /\ UNCHANGED <<entry, Histories>>

\* The file is closed.  Where another process wrote to the same inode in the
\* meantime, the content is whole only if it covers all the other wrote.
CloseFile(p) ==
    /\ job[p].pc \in {"write", "rest"}
    /\ LET new == job[p].data
           old == inode[job[p].fd].data
           next == IF job[p].kind = "identity" THEN "idle" ELSE "rename"
       IN \E c \in {Whole(new)} \cup (IF job[p].mixed THEN {Part(new), Part(old)} ELSE {}) :
             Put(p, job[p].fd, c, next, NoInode)
    /\ UNCHANGED <<entry, Histories>>

\* Mutant of Rename: the temporary name stays, a second link to the file.
RenameLinking(p) ==
    /\ At(p, "rename") /\ entry[WriteName(p, job[p].kind)] # NoInode
    /\ entry' = [entry EXCEPT ![File[job[p].kind]] = entry[WriteName(p, job[p].kind)]]
    /\ logged' = IF job[p].kind = "log" THEN Append(logged, job[p].arg) ELSE logged
    /\ Leave(p)
    /\ UNCHANGED <<inode, ops, filled, overlap>>

\* os.replace: whoever has the temporary file open writes into the file from
\* now on.  logged: True, and True, are the answers.
Rename(p) ==
    /\ At(p, "rename")
    /\ LET kind == job[p].kind
           tmp == WriteName(p, kind)
       IN /\ entry[tmp] # NoInode
          /\ entry' = [entry EXCEPT ![File[kind]] = entry[tmp], ![tmp] = NoInode]
          /\ logged' = IF kind = "log" THEN Append(logged, job[p].arg) ELSE logged
          /\ filled' = IF kind = "fill" THEN [filled EXCEPT ![job[p].arg[1]] = job[p].arg[2]]
                       ELSE filled
    /\ Leave(p)
    /\ UNCHANGED <<inode, ops, overlap>>

-----------------------------------------------------------------------------
(* resolve_approval_identity of the local adapter.                         *)

\* load_identity: the file has to parse and to have all the fields but role.
ReadEvidence(p) ==
    /\ At(p, "evidence")
    /\ Content("identity").state # "empty"
    /\ Goto(p, "role")
    /\ UNCHANGED <<entry, inode, Histories>>

\* Mutant of RolesRead: who has no role in the file is given the highest.
RolesReadHigh(c) ==
    IF c.state = "whole" THEN {c.data[1]} ELSE {CHOOSE r \in Roles : \A s \in Roles : s <= r}

\* What the second read finds; without a role it is the lowest.
RolesRead(c) == IF c.state = "whole" THEN {c.data[1]} ELSE RolesOf(c)

ReadRole(p) ==
    /\ At(p, "role")
    /\ \E r \in RolesRead(Content("identity")) :
          job' = [job EXCEPT ![p].pc = "answer", ![p].arg = r]
    /\ UNCHANGED <<entry, inode, Histories>>

AnswerRole(p) ==
    /\ At(p, "answer")
    /\ Leave(p)
    /\ UNCHANGED <<entry, inode, Histories>>

-----------------------------------------------------------------------------
(* Failures.                                                               *)

\* An exception: the file does not parse, a verdict has no YAML form, the
\* disk is full, the temporary file is gone.  log_verdict answers logged:
\* False; fill_empty_target removes its temporary file and raises.
Fail(p) ==
    /\ ~At(p, "idle") /\ ~At(p, "answer")
    /\ entry' = IF job[p].kind = "fill" THEN [entry EXCEPT ![p] = NoInode] ELSE entry
    /\ Leave(p)
    /\ UNCHANGED <<inode, Histories>>

\* The process dies and another takes its place.  A temporary file of mkstemp
\* is left behind under a name that will never be used again.
Crash(p) ==
    /\ ~At(p, "idle")
    /\ entry' = [entry EXCEPT ![p] = NoInode]
    /\ Leave(p)
    /\ UNCHANGED <<inode, Histories>>

Next ==
    \E p \in Processes :
        \/ CallLog(p) \/ CallFill(p) \/ CallCreateIdentity(p) \/ CallResolveRole(p)
        \/ ReadLog(p) \/ ReadTargets(p)
        \/ OpenFile(p) \/ WritePart(p) \/ CloseFile(p) \/ Rename(p)
        \/ ReadEvidence(p) \/ ReadRole(p) \/ AnswerRole(p)
        \/ Fail(p) \/ Crash(p)

Spec == Init /\ [][Next]_vars

-----------------------------------------------------------------------------
Pcs == {"idle", "read", "open", "write", "rest", "rename", "evidence", "role", "answer"}

\* Names refer to inodes, no two to the same, targets.yaml and the identity file
\* are never missing, and who is writing, and nobody else, has an inode open.
TypeOK ==
    /\ entry \in [Names -> Inodes \cup {NoInode}]
    /\ entry["targets"] # NoInode /\ entry["identity"] # NoInode
    /\ \A m, n \in Names : entry[m] = entry[n] => m = n \/ entry[m] = NoInode
    /\ \A i \in Inodes : inode[i].state \in {"empty", "part", "whole"}
    /\ \A p \in Processes :
          /\ job[p].pc \in Pcs /\ job[p].kind \in Kinds \cup {"role"}
          /\ job[p].fd # NoInode <=> job[p].pc \in {"write", "rest"}
    /\ ops \in 0 .. MaxOps /\ overlap \subseteq Kinds \cup {"role"}

\* As long as no two calls of log_verdict overlapped, the audit log can be
\* read and holds just the entries that were answered with logged: True, in
\* their order, whatever failed or died in between (gate/audit.py log_verdict).
AuditComplete ==
    "log" \notin overlap =>
        IF entry["audit"] = NoInode THEN logged = <<>> ELSE Content("audit") = Whole(logged)

\* targets.yaml can always be read, even when fills overlap, fail or die
\* (gate/resolve.py fill_empty_target, "atomic file replacement").
TargetsWhole == Content("targets").state = "whole"

\* As long as no two fills overlapped, every fill that was answered stands: no
\* later one overwrites or loses it (gate/resolve.py fill_empty_target).
FillsStand ==
    "fill" \notin overlap => Content("targets") = Whole(filled)

\* The role that an approval is given was in the identity file at some moment
\* of the call, or is the lowest, although the file is written in place and is
\* read twice (adapters/local_cli/adapter.py resolve_approval_identity).
RoleNeverRaised ==
    \A p \in Processes : At(p, "answer") => job[p].arg \in job[p].seen \cup {Operator}

=============================================================================

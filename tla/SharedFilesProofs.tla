-------------------------- MODULE SharedFilesProofs --------------------------
(***************************************************************************)
(* The properties of SharedFiles for any number of processes, slots and    *)
(* inodes.  The invariant says whose inodes are open for writing, which of *)
(* them only their writer can reach, and, while calls of one kind have not *)
(* overlapped, what the writer is about to put in the place of the file.   *)
(***************************************************************************)
EXTENDS SharedFiles, TLAPS

IsFile(c) ==
    c = [state |-> c.state, data |-> c.data] /\ c.state \in {"empty", "part", "whole"}

IsJob(j) ==
    /\ j = [pc |-> j.pc, kind |-> j.kind, arg |-> j.arg, data |-> j.data,
            fd |-> j.fd, mixed |-> j.mixed, seen |-> j.seen]
    /\ j.pc \in Pcs /\ j.kind \in Kinds \cup {"role"}
    /\ j.fd \in Inodes \cup {NoInode} /\ j.mixed \in BOOLEAN
    /\ j.fd # NoInode <=> j.pc \in {"write", "rest"}
    /\ j.pc \in {"read", "rename"} => j.kind \in {"log", "fill"}
    /\ j.pc \in {"open", "write", "rest"} => j.kind # "role"
    /\ j.pc \in {"evidence", "role", "answer"} => j.kind = "role"
    /\ j.kind = "identity" => j.data = <<j.arg>>

Directory ==
    /\ entry \in [Names -> Inodes \cup {NoInode}]
    /\ entry["targets"] # NoInode /\ entry["identity"] # NoInode
    /\ \A m, n \in Names : entry[m] = entry[n] => m = n \/ entry[m] = NoInode

Typed ==
    /\ inode = [i \in Inodes |-> inode[i]] /\ \A i \in Inodes : IsFile(inode[i])
    /\ job = [p \in Processes |-> job[p]] /\ \A p \in Processes : IsJob(job[p])
    /\ ops \in 0 .. MaxOps /\ overlap \subseteq Kinds \cup {"role"}

\* Calls of a kind that has not overlapped come one at a time.
Alone ==
    \A p, q \in Processes :
        p # q /\ job[p].pc # "idle" /\ job[q].pc # "idle" /\ job[p].kind = job[q].kind
            => job[p].kind \in overlap

\* What process p, in call j, has open: its own temporary file, which nobody
\* else writes to; the identity file; or what is or was the log's temporary file,
\* which may be the log by now when calls overlap.
Opened(p, j) ==
    /\ j.kind = "fill" => j.fd = entry[p] /\ ~j.mixed
    /\ j.kind = "identity" => j.fd = entry["identity"]
    /\ j.kind = "log" =>
          /\ \A n \in Names \ {"audit", "audit.tmp"} : entry[n] # j.fd
          /\ "log" \notin overlap => j.fd = entry["audit.tmp"] /\ ~j.mixed

\* What is ready to be renamed is whole.
Ready(p, j) ==
    /\ j.kind = "fill" => entry[p] # NoInode /\ Content(p) = Whole(j.data)
    /\ j.kind = "log" /\ "log" \notin overlap =>
          entry["audit.tmp"] # NoInode /\ Content("audit.tmp") = Whole(j.data)

\* What is written is what was read, with the new entry or the new target.
Meant(j) ==
    /\ j.kind = "log" /\ "log" \notin overlap => j.data = Append(logged, j.arg)
    /\ j.kind = "fill" /\ "fill" \notin overlap =>
          j.data = [filled EXCEPT ![j.arg[1]] = j.arg[2]]

\* An approval on its way has seen the roles that it may still find.
Seen(j) ==
    /\ j.pc \in {"evidence", "role"} => RolesOf(Content("identity")) \subseteq j.seen
    /\ j.pc = "answer" => j.arg \in j.seen \cup {Operator}

Works(p, j) ==
    /\ j.pc \in {"write", "rest"} => Opened(p, j)
    /\ j.pc = "rename" => Ready(p, j)
    /\ j.pc \in {"open", "write", "rest", "rename"} => Meant(j)
    /\ Seen(j)

\* A whole identity file has a role.
HasRole ==
    Content("identity").state = "whole" => 1 \in DOMAIN Content("identity").data

Inv ==
    /\ Directory /\ Typed /\ Alone /\ HasRole
    /\ \A p \in Processes : Works(p, job[p])
    /\ AuditComplete /\ TargetsWhole /\ FillsStand

-----------------------------------------------------------------------------
\* The names that calls write to.
LEMMA NamesAre ==
    /\ \A p \in Processes : p \in Names /\ p \notin SharedNames
    /\ SharedNames \subseteq Names
    /\ \A p \in Processes :
          /\ WriteName(p, "log") = "audit.tmp" /\ WriteName(p, "fill") = p
          /\ WriteName(p, "identity") = "identity"
    /\ File["log"] = "audit" /\ File["fill"] = "targets"
  BY NamesAssumption DEF Names, WriteName, File, SharedNames

\* The record of a process that is in no call.
LEMMA IdleIs ==
    /\ IsJob(Idle) /\ Idle.pc = "idle" /\ Idle.fd = NoInode /\ \A p \in Processes : Works(p, Idle)
  BY DEF Idle, IsJob, Works, Seen, Pcs, Kinds

\* A process that has a file open has an inode, and each process is in some call.
LEMMA JobIs ==
    ASSUME Inv, NEW p \in Processes
    PROVE  IsJob(job[p]) /\ Works(p, job[p])
  BY DEF Inv, Typed

\* One process goes on, or leaves its call, without touching a file.
LEMMA JobStep ==
    ASSUME Inv, NEW p \in Processes, NEW j, job' = [job EXCEPT ![p] = j],
           UNCHANGED <<entry, inode, Histories>>, IsJob(j), Works(p, j),
           j.pc # "idle" => job[p].pc # "idle" /\ j.kind = job[p].kind
    PROVE  Inv'
  <1>1. UNCHANGED <<entry, inode, ops, logged, filled, overlap>>
    BY DEF Histories
  <1>2. /\ job' = [q \in Processes |-> job'[q]] /\ job'[p] = j
        /\ \A q \in Processes : q # p => job'[q] = job[q]
    BY DEF Inv, Typed
  <1>3. Directory' /\ HasRole' /\ AuditComplete' /\ TargetsWhole' /\ FillsStand'
    BY <1>1 DEF Inv, Directory, HasRole, AuditComplete, TargetsWhole, FillsStand, Content
  <1>4. Typed'
    BY <1>1, <1>2 DEF Inv, Typed
  <1>5. Alone'
    BY <1>1, <1>2 DEF Inv, Alone
  <1>6. ASSUME NEW q \in Processes
        PROVE  Works(q, job[q])'
    <2>1. ASSUME NEW k, Works(q, k)
          PROVE  Works(q, k)'
      BY <1>1, <2>1 DEF Works, Opened, Ready, Meant, Seen, Content
    <2>2. Works(q, job'[q])
      BY <1>2, JobIs
    <2> QED BY <2>1, <2>2 DEF Works, Opened, Ready, Meant, Seen, Content
  <1> QED BY <1>3, <1>4, <1>5, <1>6 DEF Inv

\* Process p, in a call of kind kind, can reach inode i under no name but one that
\* it writes to.
Reaches(p, kind, i) ==
    /\ kind = "fill" => entry[p] = i
    /\ kind = "identity" => entry["identity"] = i
    /\ kind = "log" =>
          /\ \A n \in Names \ {"audit", "audit.tmp"} : entry[n] # i
          /\ "log" \notin overlap => entry["audit.tmp"] = i

\* The name that a call writes to is new, or stays what it was.
Named(p, kind, i) ==
    \/ entry' = entry
    \/ /\ i \in FreeInodes /\ entry[WriteName(p, kind)] = NoInode
       /\ entry' = [entry EXCEPT ![WriteName(p, kind)] = i]

\* What a write leaves as it is: the directory but for that name, and the files
\* that other calls have open or are about to rename.
LEMMA NamedKeeps ==
    ASSUME Inv, NEW p \in Processes, NEW kind \in Kinds, NEW i \in Inodes,
           Named(p, kind, i), Reaches(p, kind, i)', overlap' = overlap
    PROVE  /\ Directory'
           /\ \A n \in Names : entry[n] # NoInode => entry'[n] = entry[n]
           /\ entry'["audit"] = entry["audit"] /\ entry'["targets"] = entry["targets"]
           /\ entry'["identity"] = entry["identity"]
           /\ \A q \in Processes : q # p => entry'[q] = entry[q] /\ entry'[q] # i
           /\ entry'["targets"] # i /\ (kind # "identity" => entry'["identity"] # i)
           /\ "log" \notin overlap =>
                 /\ entry'["audit"] # i
                 /\ kind # "log" =>
                       entry'["audit.tmp"] = entry["audit.tmp"] /\ entry'["audit.tmp"] # i
           /\ \A q \in Processes, n \in Names :
                 job[q].fd # NoInode /\ entry[n] # job[q].fd => entry'[n] # job[q].fd
  <1> DEFINE name == WriteName(p, kind)
  <1>1. /\ name \in Names /\ name # "targets" /\ name # "audit"
        /\ kind = "fill" => name = p
        /\ kind = "log" => name = "audit.tmp"
        /\ kind = "identity" => name = "identity"
        /\ \A q \in Processes : q # p => q # name
        /\ \A q \in Processes : q \in Names /\ q \notin SharedNames
        /\ {"audit", "audit.tmp", "targets", "identity"} \subseteq Names
    BY NamesAre DEF Kinds, SharedNames
  <1>2. /\ entry \in [Names -> Inodes \cup {NoInode}]
        /\ entry["targets"] # NoInode /\ entry["identity"] # NoInode
        /\ \A m, n \in Names : entry[m] = entry[n] => m = n \/ entry[m] = NoInode
        /\ i # NoInode
    BY InodeAssumption DEF Inv, Directory
  <1>3. \/ entry' = entry
        \/ /\ entry[name] = NoInode /\ entry' = [entry EXCEPT ![name] = i]
           /\ \A n \in Names : entry[n] # i
           /\ \A q \in Processes : job[q].fd # i
    BY DEF Named, FreeInodes
  <1> HIDE DEF name
  <1>4. \A n \in Names :
           entry'[n] # entry[n] => entry[n] = NoInode /\ n = name /\ entry'[n] = i
    <2>1. CASE entry' = [entry EXCEPT ![name] = i] /\ entry[name] = NoInode
      <3>1. entry'[name] = i /\ \A n \in Names : n # name => entry'[n] = entry[n]
        BY <1>1, <1>2, <2>1
      <3> QED BY <2>1, <3>1
    <2> QED BY <1>3, <2>1
  <1>5. Directory'
    <2>1. entry' \in [Names -> Inodes \cup {NoInode}]
      BY <1>1, <1>2, <1>3
    <2>2. \A m, n \in Names : entry'[m] = entry'[n] => m = n \/ entry'[m] = NoInode
      BY <1>1, <1>2, <1>3
    <2> QED BY <1>1, <1>2, <1>4, <2>1, <2>2 DEF Directory
  <1>6. /\ \A n \in Names : entry[n] # NoInode => entry'[n] = entry[n]
        /\ entry'["audit"] = entry["audit"] /\ entry'["targets"] = entry["targets"]
        /\ entry'["identity"] = entry["identity"]
        /\ \A q \in Processes : q # p => entry'[q] = entry[q]
        /\ kind # "log" => entry'["audit.tmp"] = entry["audit.tmp"]
    BY <1>1, <1>2, <1>4 DEF Kinds, SharedNames
  <1>7. /\ kind = "fill" => entry'[p] = i
        /\ kind = "identity" => entry'["identity"] = i
        /\ kind = "log" =>
             /\ \A n \in Names \ {"audit", "audit.tmp"} : entry'[n] # i
             /\ "log" \notin overlap => entry'["audit.tmp"] = i
    BY DEF Reaches
  <1>8. \A m, n \in Names : entry'[m] = i /\ m # n => entry'[n] # i
    BY <1>2, <1>5 DEF Directory
  <1>9. /\ \A q \in Processes : q # p => entry'[q] # i
        /\ entry'["targets"] # i /\ (kind # "identity" => entry'["identity"] # i)
        /\ "log" \notin overlap => entry'["audit"] # i
        /\ "log" \notin overlap /\ kind # "log" => entry'["audit.tmp"] # i
    BY <1>1, <1>7, <1>8 DEF Kinds, SharedNames
  <1>10. \A q \in Processes, n \in Names :
            job[q].fd # NoInode /\ entry[n] # job[q].fd => entry'[n] # job[q].fd
    BY <1>1, <1>2, <1>3
  <1> QED BY <1>5, <1>6, <1>9, <1>10

\* A process writes to a file: no other call finds anything else in the files that
\* it may count on, and an approval learns what it may read.
LEMMA PutInv ==
    ASSUME Inv, NEW p \in Processes, NEW i \in Inodes, NEW c, IsFile(c), NEW pc, NEW fd,
           Put(p, i, c, pc, fd), UNCHANGED Histories, job[p].pc # "idle",
           NEW kind \in Kinds, kind = job[p].kind, Named(p, kind, i), Reaches(p, kind, i)',
           kind = "identity" /\ c.state = "whole" => 1 \in DOMAIN c.data,
           IsJob(job'[p]), job'[p].kind = kind, Works(p, job[p])'
    PROVE  Inv'
  <1>1. UNCHANGED <<ops, logged, filled, overlap>> /\ i # NoInode
    BY InodeAssumption DEF Histories
  <1>2. /\ inode' = [inode EXCEPT ![i] = c]
        /\ job' = [q \in Processes |->
                 IF q = p
                 THEN [job[p] EXCEPT !.pc = pc, !.fd = fd,
                                     !.mixed = IF pc = "write" THEN FALSE ELSE @]
                 ELSE [job[q] EXCEPT
                        !.mixed = @ \/ job[q].fd = i,
                        !.seen = IF job[q].kind = "role" /\ kind = "identity"
                                 THEN @ \cup RolesOf(c) ELSE @]]
    BY DEF Put
  <1>3. /\ inode' = [x \in Inodes |-> inode'[x]] /\ inode'[i] = c
        /\ \A x \in Inodes : x # i => inode'[x] = inode[x]
        /\ \A x \in Inodes : IsFile(inode'[x])
    BY <1>2 DEF Inv, Typed
  <1>4. ASSUME NEW q \in Processes, q # p
        PROVE  /\ IsJob(job'[q])
               /\ job'[q].pc = job[q].pc /\ job'[q].kind = job[q].kind
               /\ job'[q].arg = job[q].arg /\ job'[q].data = job[q].data
               /\ job'[q].fd = job[q].fd
               /\ job'[q].mixed => job[q].mixed \/ job[q].fd = i
               /\ job[q].seen \subseteq job'[q].seen
               /\ job[q].kind = "role" /\ kind = "identity" => RolesOf(c) \subseteq job'[q].seen
    <2> DEFINE mixed == job[q].mixed \/ job[q].fd = i
               seen == IF job[q].kind = "role" /\ kind = "identity"
                       THEN job[q].seen \cup RolesOf(c) ELSE job[q].seen
    <2>1. job'[q] = [job[q] EXCEPT !.mixed = mixed, !.seen = seen]
      BY <1>2, <1>4
    <2>2. /\ mixed \in BOOLEAN /\ (mixed => job[q].mixed \/ job[q].fd = i)
          /\ job[q].seen \subseteq seen
          /\ job[q].kind = "role" /\ kind = "identity" => RolesOf(c) \subseteq seen
      OBVIOUS
    <2>3. IsJob(job[q])
      BY JobIs
    <2> HIDE DEF mixed, seen
    <2>4. /\ job'[q].pc = job[q].pc /\ job'[q].kind = job[q].kind
          /\ job'[q].arg = job[q].arg /\ job'[q].data = job[q].data
          /\ job'[q].fd = job[q].fd /\ job'[q].mixed = mixed /\ job'[q].seen = seen
          /\ IsJob(job'[q])
      BY <2>1, <2>2, <2>3 DEF IsJob
    <2> QED BY <2>2, <2>4
  <1>5. /\ Directory'
        /\ \A n \in Names : entry[n] # NoInode => entry'[n] = entry[n]
        /\ entry'["audit"] = entry["audit"] /\ entry'["targets"] = entry["targets"]
        /\ entry'["identity"] = entry["identity"]
        /\ \A q \in Processes : q # p => entry'[q] = entry[q] /\ entry'[q] # i
        /\ entry'["targets"] # i /\ (kind # "identity" => entry'["identity"] # i)
        /\ "log" \notin overlap =>
              /\ entry'["audit"] # i
              /\ kind # "log" =>
                    entry'["audit.tmp"] = entry["audit.tmp"] /\ entry'["audit.tmp"] # i
        /\ \A q \in Processes, n \in Names :
              job[q].fd # NoInode /\ entry[n] # job[q].fd => entry'[n] # job[q].fd
    BY <1>1, NamedKeeps
  <1>6. kind = "identity" => entry'["identity"] = i
    BY DEF Reaches
  <1>7. Typed'
    BY <1>1, <1>2, <1>3, <1>4 DEF Inv, Typed
  <1>8. Alone'
    <2>1. ASSUME NEW q \in Processes
          PROVE  job'[q].kind = job[q].kind /\ (job'[q].pc # "idle" => job[q].pc # "idle")
      BY <1>4
    <2> QED BY <1>1, <2>1 DEF Inv, Alone
  <1>9. /\ \A n \in Names : entry[n] \in Inodes \cup {NoInode}
        /\ {"audit", "audit.tmp", "targets", "identity"} \subseteq Names
        /\ \A q \in Processes : q \in Names /\ q \notin SharedNames
        /\ entry["targets"] # NoInode /\ entry["identity"] # NoInode
    BY NamesAre DEF Inv, Directory, SharedNames
  <1>10. TargetsWhole' /\ FillsStand'
    BY <1>1, <1>3, <1>5, <1>9 DEF Inv, TargetsWhole, FillsStand, Content
  <1>11. AuditComplete'
    BY <1>1, <1>3, <1>5, <1>9 DEF Inv, AuditComplete, Content
  <1>12. HasRole'
    BY <1>3, <1>5, <1>6, <1>9 DEF Inv, HasRole, Content
  <1>13. ASSUME NEW q \in Processes, q # p, NEW k, k = job'[q]
         PROVE  Works(q, k)'
    <2>1. /\ IsJob(k) /\ IsJob(job[q]) /\ Works(q, job[q])
          /\ k.pc = job[q].pc /\ k.kind = job[q].kind /\ k.arg = job[q].arg
          /\ k.data = job[q].data /\ k.fd = job[q].fd
          /\ k.mixed => job[q].mixed \/ job[q].fd = i
          /\ job[q].seen \subseteq k.seen
          /\ job[q].kind = "role" /\ kind = "identity" => RolesOf(c) \subseteq k.seen
      BY <1>4, <1>13, JobIs
    <2>2. k.pc # "idle" /\ "log" \notin overlap /\ k.kind = "log" => kind # "log"
      BY <1>13, <2>1 DEF Inv, Alone
    <2>3. k.fd = NoInode <=> k.pc \notin {"write", "rest"}
      BY <2>1 DEF IsJob
    <2>4. k.pc \in {"write", "rest"} => Opened(q, k)'
      <3> SUFFICES ASSUME k.pc \in {"write", "rest"}
                   PROVE  Opened(q, k)'
        OBVIOUS
      <3>1. Opened(q, job[q]) /\ k.fd # NoInode
        BY <2>1, <2>3 DEF Works
      <3>2. k.kind = "fill" => k.fd = entry'[q] /\ ~k.mixed
        BY <1>5, <1>13, <2>1, <3>1 DEF Opened
      <3>3. k.kind = "identity" => k.fd = entry'["identity"]
        BY <1>5, <2>1, <3>1 DEF Opened
      <3>4. k.kind = "log" => \A n \in Names \ {"audit", "audit.tmp"} : entry'[n] # k.fd
        BY <1>5, <2>1, <3>1 DEF Opened
      <3>5. k.kind = "log" /\ "log" \notin overlap => k.fd = entry'["audit.tmp"] /\ ~k.mixed
        BY <1>5, <2>1, <2>2, <3>1 DEF Opened
      <3> QED BY <1>1, <3>2, <3>3, <3>4, <3>5 DEF Opened
    <2>5. k.pc = "rename" => Ready(q, k)'
      <3> SUFFICES ASSUME k.pc = "rename"
                   PROVE  Ready(q, k)'
        OBVIOUS
      <3>1. Ready(q, job[q])
        BY <2>1 DEF Works
      <3>2. k.kind = "fill" =>
              entry'[q] # NoInode /\ inode'[entry'[q]] = Whole(k.data)
        BY <1>3, <1>5, <1>9, <1>13, <2>1, <3>1 DEF Ready, Content
      <3>3. k.kind = "log" /\ "log" \notin overlap =>
              entry'["audit.tmp"] # NoInode /\ inode'[entry'["audit.tmp"]] = Whole(k.data)
        BY <1>3, <1>5, <1>9, <2>1, <2>2, <3>1 DEF Ready, Content
      <3> QED BY <1>1, <3>2, <3>3 DEF Ready, Content
    <2>6. k.pc \in {"open", "write", "rest", "rename"} => Meant(k)'
      BY <1>1, <2>1 DEF Works, Meant
    <2>7. Seen(k)'
      <3>1. k.pc \in {"evidence", "role"} => RolesOf(Content("identity")') \subseteq k.seen
        <4>1. CASE kind = "identity"
          <5>1. Content("identity")' = c
            BY <1>3, <1>6, <4>1 DEF Content
          <5>2. k.pc \in {"evidence", "role"} => job[q].kind = "role"
            BY <2>1 DEF IsJob
          <5> QED BY <2>1, <4>1, <5>1, <5>2
        <4>2. CASE kind # "identity"
          <5>1. Content("identity")' = Content("identity")
            BY <1>3, <1>5, <1>9, <4>2 DEF Content
          <5> QED BY <2>1, <5>1 DEF Works, Seen
        <4> QED BY <4>1, <4>2
      <3>2. k.pc = "answer" => k.arg \in k.seen \cup {Operator}
        BY <2>1 DEF Works, Seen
      <3> QED BY <3>1, <3>2 DEF Seen, RolesOf
    <2> QED BY <2>4, <2>5, <2>6, <2>7 DEF Works
  <1>14. ASSUME NEW q \in Processes, q # p
         PROVE  Works(q, job[q])'
    <2>1. \A k : k = job'[q] => Works(q, k)'
      BY <1>13, <1>14
    <2> QED BY <2>1 DEF Works, Opened, Ready, Meant, Seen, Content, RolesOf
  <1> QED BY <1>5, <1>7, <1>8, <1>10, <1>11, <1>12, <1>14 DEF Inv

\* The invariant asks of a call's next record what it asks of a record, next.
LEMMA WorksNext ==
    ASSUME NEW p \in Processes, \A k : k = job'[p] => Works(p, k)'
    PROVE  Works(p, job[p])'
  BY DEF Works, Opened, Ready, Meant, Seen, Content, RolesOf

\* A call begins: it has read and opened nothing, and if it overlaps another of
\* its kind, this is on record.
LEMMA CallsInv ==
    ASSUME Inv, NEW p \in Processes, NEW kind, NEW arg, NEW pc, NEW seen,
           Calls(p, kind, arg, pc, seen),
           \/ kind \in {"log", "fill"} /\ pc = "read"
           \/ kind = "identity" /\ pc = "open"
           \/ kind = "role" /\ pc = "evidence" /\ RolesOf(Content("identity")) \subseteq seen
    PROVE  Inv'
  <1> DEFINE data == IF kind = "identity" THEN <<arg>> ELSE Idle.data
             j == [Idle EXCEPT !.pc = pc, !.kind = kind, !.arg = arg, !.seen = seen,
                               !.data = data]
  <1>1. /\ job[p].pc = "idle" /\ ops < MaxOps /\ ops' = ops + 1
        /\ job' = [job EXCEPT ![p] = j]
        /\ overlap' = IF \E q \in Processes \ {p} : ~At(q, "idle") /\ job[q].kind = kind
                      THEN overlap \cup {kind} ELSE overlap
        /\ UNCHANGED <<entry, inode, logged, filled>>
    BY DEF Calls, At
  <1>2. kind = "identity" => data = <<arg>>
    OBVIOUS
  <1> HIDE DEF data
  <1>3. /\ j.pc = pc /\ j.kind = kind /\ j.arg = arg /\ j.seen = seen /\ j.data = data
        /\ IsJob(j)
    <2>1. j = [Idle EXCEPT !.pc = pc, !.kind = kind, !.arg = arg, !.seen = seen,
                           !.data = data]
      OBVIOUS
    <2> HIDE DEF j
    <2>2. /\ j.pc = pc /\ j.kind = kind /\ j.arg = arg /\ j.seen = seen /\ j.data = data
          /\ j.fd = NoInode /\ j.mixed = FALSE
          /\ j = [pc |-> j.pc, kind |-> j.kind, arg |-> j.arg, data |-> j.data,
                  fd |-> j.fd, mixed |-> j.mixed, seen |-> j.seen]
      BY <2>1 DEF Idle
    <2>3. j.pc \in Pcs /\ j.kind \in Kinds \cup {"role"}
      BY <2>2 DEF Pcs, Kinds
    <2> QED BY <1>2, <2>2, <2>3 DEF IsJob
  <1> HIDE DEF j
  <1>4. /\ job' = [q \in Processes |-> job'[q]] /\ job'[p] = j
        /\ \A q \in Processes : q # p => job'[q] = job[q]
    BY <1>1 DEF Inv, Typed
  <1>5. overlap \subseteq overlap' /\ overlap' \subseteq Kinds \cup {"role"}
    BY <1>1 DEF Inv, Typed, Kinds
  <1>6. Directory' /\ HasRole' /\ AuditComplete' /\ TargetsWhole' /\ FillsStand'
    BY <1>1, <1>5
       DEF Inv, Directory, HasRole, AuditComplete, TargetsWhole, FillsStand, Content
  <1>7. Typed'
    <2>1. ops' \in 0 .. MaxOps
      BY <1>1, BoundAssumption DEF Inv, Typed
    <2> QED BY <1>1, <1>3, <1>4, <1>5, <2>1 DEF Inv, Typed
  <1>8. Alone'
    <2> SUFFICES ASSUME NEW q \in Processes, NEW r \in Processes, q # r,
                        job'[q].pc # "idle", job'[r].pc # "idle", job'[q].kind = job'[r].kind
                 PROVE  job'[q].kind \in overlap'
      BY DEF Alone
    <2>1. CASE q # p /\ r # p
      BY <1>4, <1>5, <2>1 DEF Inv, Alone
    <2>2. CASE q = p \/ r = p
      <3>1. \E x \in Processes \ {p} : ~At(x, "idle") /\ job[x].kind = kind
        BY <1>3, <1>4, <2>2 DEF At
      <3> QED BY <1>1, <1>3, <1>4, <2>2, <3>1
    <2> QED BY <2>1, <2>2
  <1>9. ASSUME NEW q \in Processes
        PROVE  Works(q, job[q])'
    <2>1. ASSUME NEW k, Works(q, k)
          PROVE  Works(q, k)'
      BY <1>1, <1>5, <2>1 DEF Works, Opened, Ready, Meant, Seen, Content
    <2>2. Works(p, j)
      BY <1>3 DEF Works, Meant, Seen
    <2>3. Works(q, job'[q])
      BY <1>4, <2>2, JobIs
    <2> QED BY <2>1, <2>3, WorksNext
  <1> QED BY <1>6, <1>7, <1>8, <1>9 DEF Inv

\* Calls begin with nothing read, but for the roles of an approval.
LEMMA CallInv ==
    ASSUME Inv, NEW p \in Processes,
           CallLog(p) \/ CallFill(p) \/ CallCreateIdentity(p) \/ CallResolveRole(p)
    PROVE  Inv'
  <1>1. CASE CallLog(p)
    BY <1>1, CallsInv DEF CallLog
  <1>2. CASE CallFill(p)
    BY <1>2, CallsInv DEF CallFill
  <1>3. CASE CallCreateIdentity(p)
    BY <1>3, CallsInv DEF CallCreateIdentity
  <1>4. CASE CallResolveRole(p)
    BY <1>4, CallsInv DEF CallResolveRole
  <1> QED BY <1>1, <1>2, <1>3, <1>4

\* ReadLog: a log that nobody else writes to is whole, and an entry is added to it.
LEMMA ReadLogInv ==
    ASSUME Inv, NEW p \in Processes, ReadLog(p)
    PROVE  Inv'
  <1>1. PICK entries \in IF entry["audit"] = NoInode THEN {<<>>} ELSE Parses(Content("audit")) :
           job' = [job EXCEPT ![p].pc = "open", ![p].data = Append(entries, job[p].arg)]
    BY DEF ReadLog
  <1> DEFINE data == Append(entries, job[p].arg)
             j == [job[p] EXCEPT !.pc = "open", !.data = data]
  <1>2. /\ job[p].pc = "read" /\ job[p].kind = "log" /\ UNCHANGED <<entry, inode, Histories>>
    BY DEF ReadLog, At
  <1>3. job' = [job EXCEPT ![p] = j]
    BY <1>1 DEF Inv, Typed
  <1>4. IsJob(job[p])
    BY JobIs
  <1>5. "log" \notin overlap => entries = logged
    <2>1. CASE entry["audit"] = NoInode
      BY <1>1, <2>1 DEF Inv, AuditComplete
    <2>2. CASE entry["audit"] # NoInode
      <3>1. "log" \notin overlap => Content("audit") = Whole(logged)
        BY <2>2 DEF Inv, AuditComplete
      <3> QED BY <1>1, <2>2, <3>1 DEF Parses, Whole
    <2> QED BY <2>1, <2>2
  <1>6. "log" \notin overlap => data = Append(logged, job[p].arg)
    BY <1>5
  <1> HIDE DEF data
  <1>7. /\ j.pc = "open" /\ j.kind = "log" /\ j.arg = job[p].arg /\ j.data = data
        /\ IsJob(j)
    <2>1. j = [job[p] EXCEPT !.pc = "open", !.data = data]
      OBVIOUS
    <2> HIDE DEF j
    <2> QED BY <1>2, <1>4, <2>1 DEF IsJob, Pcs
  <1> HIDE DEF j
  <1>8. Works(p, j)
    BY <1>6, <1>7 DEF Works, Meant, Seen
  <1> QED BY <1>2, <1>3, <1>7, <1>8, JobStep

\* ReadTargets: a slot that is vacant is given its target.
LEMMA ReadTargetsInv ==
    ASSUME Inv, NEW p \in Processes, ReadTargets(p)
    PROVE  Inv'
  <1> DEFINE slots == Content("targets").data
             slot == job[p].arg[1]
             data == [slots EXCEPT ![slot] = job[p].arg[2]]
             j == [job[p] EXCEPT !.pc = "open", !.data = data]
  <1>1. /\ job[p].pc = "read" /\ job[p].kind = "fill" /\ UNCHANGED <<entry, inode, Histories>>
        /\ IF slots[slot] # Vacant THEN Leave(p)
           ELSE job' = [job EXCEPT ![p].pc = "open", ![p].data = data]
    BY DEF ReadTargets, At
  <1>2. CASE Leave(p)
    BY <1>1, <1>2, IdleIs, JobStep DEF Leave
  <1>3. CASE job' = [job EXCEPT ![p].pc = "open", ![p].data = data]
    <2>1. job' = [job EXCEPT ![p] = j]
      BY <1>3 DEF Inv, Typed
    <2>2. IsJob(job[p])
      BY JobIs
    <2>3. "fill" \notin overlap => data = [filled EXCEPT ![job[p].arg[1]] = job[p].arg[2]]
      <3>1. "fill" \notin overlap => slots = filled
        BY DEF Inv, FillsStand, Whole
      <3> QED BY <3>1
    <2> HIDE DEF data
    <2>4. /\ j.pc = "open" /\ j.kind = "fill" /\ j.arg = job[p].arg /\ j.data = data
          /\ IsJob(j)
      <3>1. j = [job[p] EXCEPT !.pc = "open", !.data = data]
        OBVIOUS
      <3> HIDE DEF j
      <3> QED BY <1>1, <2>2, <3>1 DEF IsJob, Pcs
    <2> HIDE DEF j
    <2>5. Works(p, j)
      BY <2>3, <2>4 DEF Works, Meant, Seen
    <2> QED BY <1>1, <2>1, <2>4, <2>5, JobStep
  <1> HIDE DEF data
  <1> QED BY <1>1, <1>2, <1>3

\* ReadEvidence, ReadRole and AnswerRole: the role is one of those seen.
LEMMA ResolveRoleInv ==
    ASSUME Inv, NEW p \in Processes, ReadEvidence(p) \/ ReadRole(p) \/ AnswerRole(p)
    PROVE  Inv'
  <1>1. UNCHANGED <<entry, inode, Histories>>
    BY DEF ReadEvidence, ReadRole, AnswerRole
  <1>2. IsJob(job[p]) /\ Works(p, job[p]) /\ job = [q \in Processes |-> job[q]]
    BY JobIs DEF Inv, Typed
  <1>3. CASE ReadEvidence(p)
    <2> DEFINE j == [job[p] EXCEPT !.pc = "role"]
    <2>1. job' = [job EXCEPT ![p] = j] /\ job[p].pc = "evidence"
      BY <1>2, <1>3 DEF ReadEvidence, Goto, At
    <2>2. j.pc = "role" /\ j.kind = job[p].kind /\ j.seen = job[p].seen /\ IsJob(j)
      BY <1>2, <2>1 DEF IsJob, Pcs
    <2> HIDE DEF j
    <2>3. Works(p, j)
      BY <1>2, <2>1, <2>2 DEF Works, Seen
    <2> QED BY <1>1, <2>1, <2>2, <2>3, JobStep
  <1>4. CASE ReadRole(p)
    <2>1. job[p].pc = "role"
      BY <1>4 DEF ReadRole, At
    <2>2. PICK r \in RolesRead(Content("identity")) :
             job' = [job EXCEPT ![p].pc = "answer", ![p].arg = r]
      BY <1>4 DEF ReadRole
    <2> DEFINE j == [job[p] EXCEPT !.pc = "answer", !.arg = r]
    <2>3. job' = [job EXCEPT ![p] = j]
      BY <1>2, <2>2
    <2>4. /\ j.pc = "answer" /\ j.kind = job[p].kind /\ j.seen = job[p].seen /\ j.arg = r
          /\ IsJob(j)
      <3>1. j = [job[p] EXCEPT !.pc = "answer", !.arg = r]
        OBVIOUS
      <3> HIDE DEF j
      <3> QED BY <1>2, <2>1, <3>1 DEF IsJob, Pcs
    <2>5. r \in job[p].seen
      <3>1. RolesOf(Content("identity")) \subseteq job[p].seen
        BY <1>2, <2>1 DEF Works, Seen
      <3>2. r \in RolesOf(Content("identity"))
        BY DEF Inv, HasRole, RolesRead, RolesOf
      <3> QED BY <3>1, <3>2
    <2> HIDE DEF j
    <2>6. Works(p, j)
      BY <2>4, <2>5 DEF Works, Seen
    <2> QED BY <1>1, <2>1, <2>3, <2>4, <2>6, JobStep
  <1>5. CASE AnswerRole(p)
    BY <1>1, <1>5, IdleIs, JobStep DEF AnswerRole, Leave
  <1> QED BY <1>3, <1>4, <1>5

\* OpenFile: the inode is new, or that of the name it writes to.
LEMMA OpenFileInv ==
    ASSUME Inv, NEW p \in Processes, OpenFile(p)
    PROVE  Inv'
  <1>k. PICK kind : kind = job[p].kind
    OBVIOUS
  <1>n. PICK name : name = WriteName(p, kind)
    OBVIOUS
  <1>i. PICK i : i = IF entry[name] = NoInode THEN CHOOSE x \in FreeInodes : TRUE ELSE entry[name]
    OBVIOUS
  <1>1. /\ job[p].pc = "open" /\ (entry[name] # NoInode \/ FreeInodes # {})
        /\ Put(p, i, Empty, "write", i) /\ entry' = [entry EXCEPT ![name] = i]
        /\ UNCHANGED Histories
    BY <1>k, <1>n, <1>i DEF OpenFile, At
  <1>2. IsJob(job[p]) /\ Works(p, job[p]) /\ job = [q \in Processes |-> job[q]] /\ Directory
    BY JobIs DEF Inv, Typed
  <1>3. /\ kind \in Kinds
        /\ kind = "fill" => name = p
        /\ kind = "identity" => name = "identity"
        /\ kind = "log" => name = "audit.tmp"
        /\ name \in Names
        /\ \A q \in Processes : q \in Names /\ q \notin SharedNames
        /\ "identity" \in Names
    <2>1. kind \in Kinds
      <3>1. job[p].pc = "open"
        BY <1>1
      <3> QED BY <1>k, <1>2, <3>1 DEF IsJob
    <2> QED BY <1>n, <2>1, NamesAre DEF Kinds, SharedNames
  <1>4. i \in Inodes /\ (entry[name] = NoInode => i \in FreeInodes)
    BY <1>i, <1>1, <1>2, <1>3 DEF Directory, FreeInodes
  <1>5. Named(p, kind, i) /\ (entry[name] # NoInode => i = entry[name])
    <2>1. CASE entry[name] = NoInode
      BY <1>n, <1>1, <1>4, <2>1 DEF Named
    <2>2. CASE entry[name] # NoInode
      BY <1>i, <1>1, <1>2, <1>3, <2>2 DEF Named, Directory
    <2> QED BY <2>1, <2>2
  <1>6. i # NoInode /\ \A n \in Names : n # name => entry[n] # i
    BY <1>2, <1>3, <1>4, <1>5, InodeAssumption DEF Directory, FreeInodes
  <1>7. entry'[name] = i /\ \A n \in Names : n # name => entry'[n] = entry[n]
    BY <1>1, <1>2, <1>3 DEF Directory
  <1>8. Reaches(p, kind, i)'
    <2>1. kind = "fill" => entry'[p] = i
      BY <1>3, <1>7
    <2>2. kind = "identity" => entry'["identity"] = i
      BY <1>3, <1>7
    <2>3. kind = "log" => entry'["audit.tmp"] = i /\
                          \A n \in Names \ {"audit", "audit.tmp"} : entry'[n] # i
      BY <1>3, <1>6, <1>7
    <2> QED BY <1>1, <2>1, <2>2, <2>3 DEF Reaches, Histories
  <1>9. /\ IsJob(job'[p]) /\ job'[p].kind = kind /\ job'[p].pc = "write" /\ job'[p].fd = i
        /\ job'[p].data = job[p].data /\ job'[p].arg = job[p].arg /\ ~job'[p].mixed
    <2> DEFINE j == job'[p]
    <2>1. j = [job[p] EXCEPT !.pc = "write", !.fd = i, !.mixed = FALSE]
      BY <1>1 DEF Put
    <2> HIDE DEF j
    <2>2. /\ j.kind = kind /\ j.pc = "write" /\ j.fd = i
          /\ j.data = job[p].data /\ j.arg = job[p].arg /\ j.mixed = FALSE
          /\ IsJob(j)
      BY <1>k, <1>2, <1>3, <1>4, <1>6, <2>1 DEF IsJob, Pcs, Kinds
    <2> QED BY <2>2 DEF j
  <1>10. Works(p, job[p])'
    <2> SUFFICES ASSUME NEW k, k = job'[p]
                 PROVE  Works(p, k)'
      BY WorksNext
    <2>0. k = job'[p]
      OBVIOUS
    <2>1. Opened(p, k)'
      BY <1>1, <1>3, <1>6, <1>7, <1>9, <2>0 DEF Opened, Histories
    <2>2. Meant(k)'
      <3>1. UNCHANGED <<logged, filled, overlap>> /\ Meant(job[p])
        BY <1>1, <1>2 DEF Works, Histories
      <3>2. k.kind = job[p].kind /\ k.data = job[p].data /\ k.arg = job[p].arg
        BY <1>k, <1>9, <2>0
      <3> QED BY <3>1, <3>2 DEF Meant
    <2> QED BY <1>9, <2>0, <2>1, <2>2 DEF Works, Seen
  <1>11. IsFile(Empty) /\ Empty.state # "whole"
    BY DEF IsFile, Empty
  <1>12. Put(p, i, Empty, "write", i) /\ job[p].pc # "idle" /\ UNCHANGED Histories
    BY <1>1
  <1> QED BY <1>k, <1>3, <1>4, <1>5, <1>8, <1>9, <1>10, <1>11, <1>12, PutInv

\* WritePart and CloseFile: who has an inode open can still reach it.
LEMMA StillReaches ==
    ASSUME Inv, NEW p \in Processes, job[p].pc \in {"write", "rest"},
           UNCHANGED <<entry, Histories>>, NEW kind, kind = job[p].kind, NEW i, i = job[p].fd
    PROVE  /\ i \in Inodes /\ kind \in Kinds
           /\ Named(p, kind, i) /\ Reaches(p, kind, i)'
  <1>1. IsJob(job[p]) /\ Opened(p, job[p])
    BY JobIs DEF Works
  <1>2. i \in Inodes /\ kind \in Kinds
    BY <1>1 DEF IsJob
  <1>3. Named(p, kind, i)
    BY DEF Named
  <1>4. Reaches(p, kind, i)
    BY <1>1 DEF Opened, Reaches
  <1>5. Reaches(p, kind, i)'
    BY <1>4 DEF Reaches, Histories
  <1> QED BY <1>2, <1>3, <1>5

\* WritePart: part of what is meant is in the file.
LEMMA WritePartInv ==
    ASSUME Inv, NEW p \in Processes, WritePart(p)
    PROVE  Inv'
  <1>k. PICK kind : kind = job[p].kind
    OBVIOUS
  <1>i. PICK i : i = job[p].fd
    OBVIOUS
  <1>d. PICK d : d = job[p].data
    OBVIOUS
  <1>1. /\ job[p].pc = "write" /\ UNCHANGED <<entry, Histories>>
        /\ Put(p, i, Part(d), "rest", i)
    BY <1>i, <1>d DEF WritePart, At
  <1>2. IsJob(job[p]) /\ Works(p, job[p])
    BY JobIs
  <1>3. i \in Inodes /\ kind \in Kinds /\ Named(p, kind, i) /\ Reaches(p, kind, i)'
    BY <1>k, <1>i, <1>1, StillReaches
  <1>4. /\ IsJob(job'[p]) /\ job'[p].kind = kind /\ job'[p].pc = "rest" /\ job'[p].fd = i
        /\ job'[p].data = job[p].data /\ job'[p].arg = job[p].arg
        /\ job'[p].mixed = job[p].mixed
    <2> DEFINE j == job'[p]
    <2>1. j = [job[p] EXCEPT !.pc = "rest", !.fd = i, !.mixed = @]
      BY <1>1 DEF Put
    <2> HIDE DEF j
    <2>2. /\ j.kind = kind /\ j.pc = "rest" /\ j.fd = i
          /\ j.data = job[p].data /\ j.arg = job[p].arg /\ j.mixed = job[p].mixed
          /\ IsJob(j)
      BY <1>k, <1>i, <1>1, <1>2, <1>3, <2>1 DEF IsJob, Pcs, Kinds
    <2> QED BY <2>2 DEF j
  <1>5. Works(p, job[p])'
    <2> SUFFICES ASSUME NEW k, k = job'[p]
                 PROVE  Works(p, k)'
      BY WorksNext
    <2>1. /\ k.pc = "rest" /\ k.kind = job[p].kind /\ k.data = job[p].data
          /\ k.arg = job[p].arg /\ k.fd = job[p].fd /\ k.mixed = job[p].mixed
      BY <1>k, <1>i, <1>4
    <2>2. /\ UNCHANGED <<entry, logged, filled, overlap>>
          /\ Meant(job[p]) /\ Opened(p, job[p])
      BY <1>1, <1>2 DEF Works, Histories
    <2>3. Opened(p, k)'
      BY <2>1, <2>2 DEF Opened
    <2>4. Meant(k)'
      BY <2>1, <2>2 DEF Meant
    <2> QED BY <2>1, <2>3, <2>4 DEF Works, Seen
  <1>6. IsFile(Part(d)) /\ Part(d).state # "whole"
    BY DEF IsFile, Part
  <1>7. Put(p, i, Part(d), "rest", i) /\ job[p].pc # "idle" /\ UNCHANGED Histories
    BY <1>1
  <1> HIDE DEF Part
  <1> QED BY <1>k, <1>3, <1>4, <1>5, <1>6, <1>7, PutInv

\* CloseFile: what a fill, or a log that does not overlap, has written is whole.
LEMMA CloseFileInv ==
    ASSUME Inv, NEW p \in Processes, CloseFile(p)
    PROVE  Inv'
  <1>k. PICK kind : kind = job[p].kind
    OBVIOUS
  <1>i. PICK i : i = job[p].fd
    OBVIOUS
  <1>d. PICK d : d = job[p].data
    OBVIOUS
  <1>o. PICK old : old = inode[i].data
    OBVIOUS
  <1>n. PICK next : next = IF kind = "identity" THEN "idle" ELSE "rename"
    OBVIOUS
  <1>1. job[p].pc \in {"write", "rest"} /\ UNCHANGED <<entry, Histories>>
    BY DEF CloseFile
  <1>c. PICK c \in {Whole(d)} \cup (IF job[p].mixed THEN {Part(d), Part(old)} ELSE {}) :
           Put(p, i, c, next, NoInode)
    BY <1>k, <1>i, <1>d, <1>o, <1>n DEF CloseFile
  <1>2. IsJob(job[p]) /\ Works(p, job[p]) /\ Opened(p, job[p])
    BY <1>1, JobIs DEF Works
  <1>3. i \in Inodes /\ kind \in Kinds /\ Named(p, kind, i) /\ Reaches(p, kind, i)'
    BY <1>k, <1>i, <1>1, StillReaches
  <1>4. /\ IsFile(c) /\ (~job[p].mixed => c = Whole(d))
        /\ c.state = "whole" => c = Whole(d)
    BY DEF IsFile, Part, Whole
  <1>5. kind = "identity" /\ c.state = "whole" => 1 \in DOMAIN c.data
    <2>1. kind = "identity" => d = <<job[p].arg>>
      BY <1>k, <1>d, <1>2 DEF IsJob
    <2>2. Whole(d).data = d
      BY DEF Whole
    <2> QED BY <1>4, <2>1, <2>2
  <1>6. next \in {"idle", "rename"} /\ (next = "rename" <=> kind # "identity")
    BY <1>n
  <1>7. /\ IsJob(job'[p]) /\ job'[p].kind = kind /\ job'[p].pc = next
        /\ job'[p].data = job[p].data /\ job'[p].arg = job[p].arg
    <2> DEFINE j == job'[p]
    <2>1. j = [job[p] EXCEPT !.pc = next, !.fd = NoInode, !.mixed = @]
      BY <1>c, <1>6 DEF Put
    <2> HIDE DEF j
    <2>2. kind \in {"log", "fill", "identity"}
      BY <1>3 DEF Kinds
    <2>3. /\ j.kind = kind /\ j.pc = next
          /\ j.data = job[p].data /\ j.arg = job[p].arg
          /\ IsJob(j)
      BY <1>k, <1>2, <1>6, <2>1, <2>2 DEF IsJob, Pcs
    <2> QED BY <2>3 DEF j
  <1>8. inode'[i] = c
    BY <1>c, <1>3 DEF Put, Inv, Typed
  <1>9. Works(p, job[p])'
    <2> SUFFICES ASSUME NEW k, k = job'[p]
                 PROVE  Works(p, k)'
      BY WorksNext
    <2>1. /\ k.pc = next /\ k.kind = job[p].kind /\ k.kind = kind
          /\ k.data = job[p].data /\ k.data = d /\ k.arg = job[p].arg
      BY <1>k, <1>d, <1>7
    <2>2. /\ UNCHANGED <<entry, logged, filled, overlap>>
          /\ Meant(job[p])
      BY <1>1, <1>2 DEF Works, Histories
    <2>3. Meant(k)'
      BY <2>1, <2>2 DEF Meant
    <2>4. Ready(p, k)'
      <3>1. i # NoInode
        BY <1>3, InodeAssumption
      <3>2. k.kind = "fill" => entry'[p] # NoInode /\ inode'[entry'[p]] = Whole(k.data)
        BY <1>i, <1>2, <1>4, <1>8, <2>1, <2>2, <3>1 DEF Opened
      <3>3. k.kind = "log" /\ "log" \notin overlap =>
               entry'["audit.tmp"] # NoInode /\ inode'[entry'["audit.tmp"]] = Whole(k.data)
        BY <1>i, <1>2, <1>4, <1>8, <2>1, <2>2, <3>1 DEF Opened
      <3> QED BY <2>2, <3>2, <3>3 DEF Ready, Content
    <2> QED BY <1>6, <2>1, <2>3, <2>4 DEF Works, Seen
  <1> QED BY <1>k, <1>c, <1>1, <1>3, <1>4, <1>5, <1>7, <1>9, PutInv

\* Rename: what was ready takes the place of the file.  Only a name of the call
\* itself, or of calls of its kind, goes away.
LEMMA RenameInv ==
    ASSUME Inv, NEW p \in Processes, Rename(p)
    PROVE  Inv'
  <1>k. PICK kind : kind = job[p].kind
    OBVIOUS
  <1>t. PICK tmp : tmp = WriteName(p, kind)
    OBVIOUS
  <1>f. PICK file : file = File[kind]
    OBVIOUS
  <1>1. /\ job[p].pc = "rename" /\ entry[tmp] # NoInode
        /\ entry' = [entry EXCEPT ![file] = entry[tmp], ![tmp] = NoInode]
        /\ logged' = IF kind = "log" THEN Append(logged, job[p].arg) ELSE logged
        /\ filled' = IF kind = "fill" THEN [filled EXCEPT ![job[p].arg[1]] = job[p].arg[2]]
                     ELSE filled
        /\ job' = [job EXCEPT ![p] = Idle] /\ UNCHANGED <<inode, ops, overlap>>
    BY <1>k, <1>t, <1>f DEF Rename, At, Leave
  <1>2. /\ IsJob(job[p]) /\ Ready(p, job[p]) /\ Meant(job[p])
        /\ entry \in [Names -> Inodes \cup {NoInode}]
        /\ entry["targets"] # NoInode /\ entry["identity"] # NoInode
        /\ \A m, n \in Names : entry[m] = entry[n] => m = n \/ entry[m] = NoInode
    BY <1>1, JobIs DEF Works, Inv, Directory
  <1>3. kind \in {"log", "fill"}
    BY <1>k, <1>1, <1>2 DEF IsJob
  <1>4. /\ kind = "log" => tmp = "audit.tmp" /\ file = "audit"
        /\ kind = "fill" => tmp = p /\ file = "targets"
        /\ {"audit", "audit.tmp", "targets", "identity"} \subseteq Names /\ p \in Names
        /\ \A q \in Processes : q \in Names /\ q \notin SharedNames
    BY <1>k, <1>t, <1>f, <1>3, NamesAre DEF SharedNames
  <1>5. /\ tmp \in Names /\ file \in Names /\ tmp # file
        /\ tmp \notin {"identity", "targets", "audit"} /\ file # "identity"
    BY <1>3, <1>4 DEF SharedNames
  <1>6. /\ entry'[file] = entry[tmp] /\ entry'[tmp] = NoInode
        /\ \A n \in Names \ {file, tmp} : entry'[n] = entry[n]
        /\ entry' \in [Names -> Inodes \cup {NoInode}]
    BY <1>1, <1>2, <1>5
  <1>7. Directory'
    <2>1. entry'["targets"] # NoInode
      BY <1>1, <1>2, <1>4, <1>5, <1>6
    <2>2. entry'["identity"] # NoInode
      BY <1>2, <1>4, <1>5, <1>6
    <2>3. \A m, n \in Names : entry'[m] = entry'[n] => m = n \/ entry'[m] = NoInode
      BY <1>1, <1>2, <1>5, <1>6
    <2> QED BY <1>6, <2>1, <2>2, <2>3 DEF Directory
  <1>8. /\ job' = [q \in Processes |-> job'[q]] /\ job'[p] = Idle
        /\ \A q \in Processes : q # p => job'[q] = job[q]
    BY <1>1 DEF Inv, Typed
  <1>9. Typed' /\ Alone'
    BY <1>1, <1>8, IdleIs DEF Inv, Typed, Alone
  <1>10. HasRole'
    BY <1>1, <1>4, <1>5, <1>6 DEF Inv, HasRole, Content
  <1>11. CASE kind = "log"
    <2>1. /\ tmp = "audit.tmp" /\ file = "audit"
          /\ logged' = Append(logged, job[p].arg) /\ filled' = filled
      BY <1>1, <1>4, <1>11
    <2>2. TargetsWhole' /\ FillsStand'
      BY <1>1, <1>4, <1>6, <2>1 DEF Inv, TargetsWhole, FillsStand, Content
    <2>3. AuditComplete'
      <3> SUFFICES ASSUME "log" \notin overlap
                   PROVE  entry'["audit"] # NoInode /\ inode'[entry'["audit"]] = Whole(logged')
        BY <1>1 DEF AuditComplete, Content
      <3>1. Content("audit.tmp") = Whole(job[p].data) /\ job[p].data = Append(logged, job[p].arg)
        BY <1>k, <1>2, <1>11 DEF Ready, Meant
      <3> QED BY <1>1, <1>6, <2>1, <3>1 DEF Content
    <2>4. ASSUME NEW q \in Processes
          PROVE  Works(q, job[q])'
      <3> SUFFICES ASSUME NEW k, k = job'[q]
                   PROVE  Works(q, k)'
        BY WorksNext
      <3>1. CASE q = p
        BY <1>8, <3>1, IdleIs DEF Works, Seen
      <3>2. CASE q # p
        <4>1. k = job[q] /\ IsJob(k) /\ Works(q, k)
          BY <1>8, <3>2, JobIs
        <4>2. "log" \notin overlap /\ k.pc # "idle" => k.kind # "log"
          BY <1>k, <1>1, <1>11, <3>2, <4>1 DEF Inv, Alone
        <4>3. /\ entry'[q] = entry[q] /\ entry'["identity"] = entry["identity"]
              /\ \A n \in Names \ {"audit", "audit.tmp"} : entry'[n] = entry[n]
          BY <1>4, <1>6, <2>1 DEF SharedNames
        <4>4. k.pc \in {"write", "rest"} => Opened(q, k)'
          BY <1>1, <4>1, <4>2, <4>3 DEF Works, Opened
        <4>5. k.pc = "rename" => Ready(q, k)'
          BY <1>1, <4>1, <4>2, <4>3 DEF Works, Ready, Content
        <4>6. k.pc \in {"open", "write", "rest", "rename"} => Meant(k)'
          BY <1>1, <2>1, <4>1, <4>2 DEF Works, Meant
        <4>7. Seen(k)'
          BY <1>1, <4>1, <4>3 DEF Works, Seen, Content
        <4> QED BY <4>4, <4>5, <4>6, <4>7 DEF Works
      <3> QED BY <3>1, <3>2
    <2> QED BY <1>7, <1>9, <1>10, <2>2, <2>3, <2>4 DEF Inv
  <1>12. CASE kind = "fill"
    <2>1. /\ tmp = p /\ file = "targets" /\ logged' = logged
          /\ filled' = [filled EXCEPT ![job[p].arg[1]] = job[p].arg[2]]
      BY <1>1, <1>4, <1>12
    <2>2. AuditComplete'
      BY <1>1, <1>4, <1>5, <1>6, <2>1 DEF Inv, AuditComplete, Content
    <2>3. TargetsWhole' /\ FillsStand'
      <3>1. Content(p) = Whole(job[p].data)
        BY <1>k, <1>2, <1>12 DEF Ready
      <3>2. "fill" \notin overlap => job[p].data = filled'
        BY <1>k, <1>2, <1>12, <2>1 DEF Meant
      <3>3. inode'[entry'["targets"]] = Whole(job[p].data)
        BY <1>1, <1>6, <2>1, <3>1 DEF Content
      <3> QED BY <1>1, <3>2, <3>3 DEF TargetsWhole, FillsStand, Content, Whole
    <2>4. ASSUME NEW q \in Processes
          PROVE  Works(q, job[q])'
      <3> SUFFICES ASSUME NEW k, k = job'[q]
                   PROVE  Works(q, k)'
        BY WorksNext
      <3>1. CASE q = p
        BY <1>8, <3>1, IdleIs DEF Works, Seen
      <3>2. CASE q # p
        <4>1. k = job[q] /\ IsJob(k) /\ Works(q, k)
          BY <1>8, <3>2, JobIs
        <4>2. "fill" \notin overlap /\ k.pc # "idle" => k.kind # "fill"
          BY <1>k, <1>1, <1>12, <3>2, <4>1 DEF Inv, Alone
        <4>3. /\ entry'[q] = entry[q] /\ entry'["identity"] = entry["identity"]
              /\ entry'["audit.tmp"] = entry["audit.tmp"]
              /\ \A n \in Names \ {"targets", p} : entry'[n] = entry[n]
              /\ entry'["targets"] = entry[p] /\ entry'[p] = NoInode
          BY <1>4, <1>6, <2>1, <3>2 DEF SharedNames
        <4>4. k.pc \in {"write", "rest"} => Opened(q, k)'
          <5> SUFFICES ASSUME k.pc \in {"write", "rest"}
                       PROVE  Opened(q, k)'
            OBVIOUS
          <5>1. Opened(q, k) /\ k.fd # NoInode
            BY <4>1 DEF Works, IsJob
          <5>2. p \in Names \ {"audit", "audit.tmp"}
            BY <1>4 DEF SharedNames
          <5>3. k.kind = "log" => \A n \in Names \ {"audit", "audit.tmp"} : entry'[n] # k.fd
            BY <4>3, <5>1, <5>2 DEF Opened
          <5> QED BY <1>1, <4>3, <5>1, <5>3 DEF Opened
        <4>5. k.pc = "rename" => Ready(q, k)'
          BY <1>1, <4>1, <4>2, <4>3 DEF Works, Ready, Content
        <4>6. k.pc \in {"open", "write", "rest", "rename"} => Meant(k)'
          BY <1>1, <2>1, <4>1, <4>2 DEF Works, Meant
        <4>7. Seen(k)'
          BY <1>1, <4>1, <4>3 DEF Works, Seen, Content
        <4> QED BY <4>4, <4>5, <4>6, <4>7 DEF Works
      <3> QED BY <3>1, <3>2
    <2> QED BY <1>7, <1>9, <1>10, <2>2, <2>3, <2>4 DEF Inv
  <1> QED BY <1>3, <1>11, <1>12

\* Fail and Crash: at most the call's own temporary file goes away.
LEMMA LeaveInv ==
    ASSUME Inv, NEW p \in Processes, Fail(p) \/ Crash(p)
    PROVE  Inv'
  <1>1. /\ entry' = entry \/ entry' = [entry EXCEPT ![p] = NoInode]
        /\ job' = [job EXCEPT ![p] = Idle]
        /\ UNCHANGED <<inode, ops, logged, filled, overlap>>
    BY DEF Fail, Crash, Leave, Histories
  <1>2. /\ entry \in [Names -> Inodes \cup {NoInode}]
        /\ entry["targets"] # NoInode /\ entry["identity"] # NoInode
        /\ \A m, n \in Names : entry[m] = entry[n] => m = n \/ entry[m] = NoInode
    BY DEF Inv, Directory
  <1>3. /\ {"audit", "audit.tmp", "targets", "identity"} \subseteq Names
        /\ \A q \in Processes : q \in Names /\ q \notin SharedNames
    BY NamesAre DEF SharedNames
  <1>4. /\ entry' \in [Names -> Inodes \cup {NoInode}]
        /\ \A n \in Names : n # p => entry'[n] = entry[n]
        /\ entry'[p] = entry[p] \/ entry'[p] = NoInode
    BY <1>1, <1>2, <1>3
  <1>5. \A n \in {"audit", "audit.tmp", "targets", "identity"} : entry'[n] = entry[n]
    BY <1>3, <1>4 DEF SharedNames
  <1>6. Directory'
    BY <1>2, <1>4, <1>5 DEF Directory
  <1>7. /\ job' = [q \in Processes |-> job'[q]] /\ job'[p] = Idle
        /\ \A q \in Processes : q # p => job'[q] = job[q]
    BY <1>1 DEF Inv, Typed
  <1>8. Typed' /\ Alone'
    BY <1>1, <1>7, IdleIs DEF Inv, Typed, Alone
  <1>9. HasRole' /\ AuditComplete' /\ TargetsWhole' /\ FillsStand'
    BY <1>1, <1>5 DEF Inv, HasRole, AuditComplete, TargetsWhole, FillsStand, Content
  <1>10. ASSUME NEW q \in Processes
         PROVE  Works(q, job[q])'
    <2> SUFFICES ASSUME NEW k, k = job'[q]
                 PROVE  Works(q, k)'
      BY WorksNext
    <2>1. CASE q = p
      BY <1>7, <2>1, IdleIs DEF Works, Seen
    <2>2. CASE q # p
      <3>1. k = job[q] /\ IsJob(k) /\ Works(q, k) /\ entry'[q] = entry[q]
        BY <1>3, <1>4, <1>7, <2>2, JobIs
      <3>2. k.pc \in {"write", "rest"} => Opened(q, k)'
        <4> SUFFICES ASSUME k.pc \in {"write", "rest"}
                     PROVE  Opened(q, k)'
          OBVIOUS
        <4>1. Opened(q, k) /\ k.fd # NoInode
          BY <3>1 DEF Works, IsJob
        <4>2. k.kind = "log" => \A n \in Names \ {"audit", "audit.tmp"} : entry'[n] # k.fd
          BY <1>4, <4>1 DEF Opened
        <4> QED BY <1>1, <1>5, <3>1, <4>1, <4>2 DEF Opened
      <3>3. k.pc = "rename" => Ready(q, k)'
        BY <1>1, <1>5, <3>1 DEF Works, Ready, Content
      <3>4. k.pc \in {"open", "write", "rest", "rename"} => Meant(k)'
        BY <1>1, <3>1 DEF Works, Meant
      <3>5. Seen(k)'
        BY <1>1, <1>5, <3>1 DEF Works, Seen, Content
      <3> QED BY <3>2, <3>3, <3>4, <3>5 DEF Works
    <2> QED BY <2>1, <2>2
  <1> QED BY <1>6, <1>8, <1>9, <1>10 DEF Inv

-----------------------------------------------------------------------------
\* At first targets.yaml has no target, the identity file one role, and there is
\* no log.
LEMMA InitInv ==
    Init => Inv
  <1> SUFFICES ASSUME Init
               PROVE  Inv
    OBVIOUS
  <1>t. PICK t : t = CHOOSE x \in Inodes : TRUE
    OBVIOUS
  <1>i. PICK i : i = CHOOSE x \in Inodes \ {t} : TRUE
    OBVIOUS
  <1>r. PICK r \in Roles :
          inode = [x \in Inodes |-> IF x = t THEN Whole([s \in Slots |-> Vacant])
                                   ELSE IF x = i THEN Whole(<<r>>) ELSE Empty]
    BY <1>t, <1>i DEF Init
  <1>1. /\ entry = [n \in Names |-> IF n = "targets" THEN t
                                    ELSE IF n = "identity" THEN i ELSE NoInode]
        /\ job = [p \in Processes |-> Idle] /\ ops = 0
        /\ logged = <<>> /\ filled = [s \in Slots |-> Vacant] /\ overlap = {}
    BY <1>t, <1>i DEF Init
  <1>2. t \in Inodes /\ i \in Inodes /\ t # i /\ t # NoInode /\ i # NoInode
    <2>1. \E x \in Inodes : TRUE
      BY InodeAssumption
    <2>2. t \in Inodes
      BY <1>t, <2>1
    <2>3. \E x \in Inodes \ {t} : TRUE
      BY InodeAssumption
    <2>4. i \in Inodes \ {t}
      BY <1>i, <2>3
    <2> QED BY <2>2, <2>4, InodeAssumption
  <1>3. {"audit", "audit.tmp", "targets", "identity"} \subseteq Names
    BY NamesAre DEF SharedNames
  <1>4. entry["targets"] = t /\ entry["identity"] = i /\ entry["audit"] = NoInode
    BY <1>1, <1>3
  <1>5. Directory
    <2>1. entry \in [Names -> Inodes \cup {NoInode}]
      BY <1>1, <1>2
    <2>2. \A m, n \in Names : entry[m] = entry[n] => m = n \/ entry[m] = NoInode
      BY <1>1, <1>2
    <2> QED BY <1>2, <1>4, <2>1, <2>2 DEF Directory
  <1>6. inode[t] = Whole([s \in Slots |-> Vacant]) /\ inode[i] = Whole(<<r>>)
    BY <1>r, <1>2
  <1>7. Typed
    <2>1. ops \in 0 .. MaxOps /\ overlap \subseteq Kinds \cup {"role"}
      BY <1>1, BoundAssumption
    <2>2. \A d : IsFile(Whole(d)) /\ IsFile(Empty)
      BY DEF IsFile, Whole, Empty
    <2>3. inode = [x \in Inodes |-> inode[x]] /\ \A x \in Inodes : IsFile(inode[x])
      BY <1>r, <2>2
    <2>4. job = [p \in Processes |-> job[p]] /\ \A p \in Processes : IsJob(job[p])
      BY <1>1, IdleIs
    <2> QED BY <2>1, <2>3, <2>4 DEF Typed
  <1>8. Alone /\ \A p \in Processes : Works(p, job[p])
    BY <1>1, IdleIs DEF Alone
  <1>9. HasRole
    <2>1. Content("identity").data = <<r>>
      BY <1>4, <1>6 DEF Content, Whole
    <2> QED BY <2>1 DEF HasRole
  <1>10. AuditComplete /\ TargetsWhole /\ FillsStand
    BY <1>1, <1>4, <1>6 DEF AuditComplete, TargetsWhole, FillsStand, Content, Whole
  <1> QED BY <1>5, <1>7, <1>8, <1>9, <1>10 DEF Inv

\* Every step keeps the invariant.
LEMMA StepInv ==
    Inv /\ [Next]_vars => Inv'
  <1> SUFFICES ASSUME Inv, [Next]_vars
               PROVE  Inv'
    OBVIOUS
  <1>1. CASE UNCHANGED vars
    <2>1. UNCHANGED <<entry, inode, job, ops, logged, filled, overlap>>
      BY <1>1 DEF vars
    <2>2. /\ Directory' /\ Typed' /\ Alone' /\ HasRole' /\ AuditComplete' /\ TargetsWhole'
          /\ FillsStand'
      BY <2>1 DEF Inv, Directory, Typed, Alone, HasRole, AuditComplete, TargetsWhole,
                  FillsStand, Content
    <2>3. ASSUME NEW p \in Processes
          PROVE  Works(p, job[p])'
      <3>1. Works(p, job[p])
        BY DEF Inv
      <3> QED BY <2>1, <3>1 DEF Works, Opened, Ready, Meant, Seen, Content
    <2> QED BY <2>2, <2>3 DEF Inv
  <1>2. ASSUME NEW p \in Processes,
               \/ CallLog(p) \/ CallFill(p) \/ CallCreateIdentity(p) \/ CallResolveRole(p)
               \/ ReadLog(p) \/ ReadTargets(p)
               \/ OpenFile(p) \/ WritePart(p) \/ CloseFile(p) \/ Rename(p)
               \/ ReadEvidence(p) \/ ReadRole(p) \/ AnswerRole(p)
               \/ Fail(p) \/ Crash(p)
        PROVE  Inv'
    BY <1>2, CallInv, ReadLogInv, ReadTargetsInv, OpenFileInv, WritePartInv, CloseFileInv,
       RenameInv, ResolveRoleInv, LeaveInv
  <1> QED BY <1>1, <1>2 DEF Next

\* So it always holds.
LEMMA SpecInv ==
    Spec => []Inv
  BY InitInv, StepInv, PTL DEF Spec

\* Names refer to inodes, no two to the same, and inodes are open to writers only.
THEOREM TypeCorrect ==
    Spec => []TypeOK
  <1>1. Inv => TypeOK
    <2> SUFFICES ASSUME Inv
                 PROVE  TypeOK
      OBVIOUS
    <2>1. \A i \in Inodes : inode[i].state \in {"empty", "part", "whole"}
      BY DEF Inv, Typed, IsFile
    <2>2. \A p \in Processes :
            /\ job[p].pc \in Pcs /\ job[p].kind \in Kinds \cup {"role"}
            /\ job[p].fd # NoInode <=> job[p].pc \in {"write", "rest"}
      BY JobIs DEF IsJob
    <2> QED BY <2>1, <2>2 DEF Inv, Directory, Typed, TypeOK
  <1> QED BY <1>1, SpecInv, PTL

\* The log holds just the entries that were answered, in their order, as long as
\* no two calls overlapped, whatever failed or died (gate/audit.py log_verdict).
THEOREM AuditKept ==
    Spec => []AuditComplete
  <1>1. Inv => AuditComplete
    BY DEF Inv
  <1> QED BY <1>1, SpecInv, PTL

\* targets.yaml can always be read, however many fills overlap, fail or die
\* (gate/resolve.py fill_empty_target).
THEOREM TargetsReadable ==
    Spec => []TargetsWhole
  <1>1. Inv => TargetsWhole
    BY DEF Inv
  <1> QED BY <1>1, SpecInv, PTL

\* No fill overwrites or loses another that was answered, as long as no two
\* overlapped (gate/resolve.py fill_empty_target).
THEOREM FillsKept ==
    Spec => []FillsStand
  <1>1. Inv => FillsStand
    BY DEF Inv
  <1> QED BY <1>1, SpecInv, PTL

\* An approval is given a role that the identity file had during the call, or the
\* lowest, whoever rewrites the file between its two reads
\* (adapters/local_cli/adapter.py resolve_approval_identity).
THEOREM RolesSeen ==
    Spec => []RoleNeverRaised
  <1>1. Inv => RoleNeverRaised
    BY DEF Inv, Works, Seen, RoleNeverRaised, At
  <1> QED BY <1>1, SpecInv, PTL


=============================================================================

--------------------------- MODULE RateLimitProofs ---------------------------
(***************************************************************************)
(* The properties of RateLimit for any number of processes, any guards and *)
(* any length of the day.  They follow from an invariant that relates what *)
(* is in a lockfile, and what a check has read from it, to the history of  *)
(* the sends that the lockfile recorded.                                   *)
(***************************************************************************)
EXTENDS RateLimit, FiniteSetTheorems, TLAPS

GuardOf(j) == Guards[j.channel][j.stage]

\* The sends of a day among the first n.
OnDay(rows, n, d) == {k \in 1 .. n : rows[k].date = d}

\* State s is what the first n sends leave in a lockfile.
Sums(s, rows, n) ==
    /\ s.last = (IF n = 0 THEN 0 ELSE rows[n].at)
    /\ s.count = Cardinality(OnDay(rows, n, s.date))
    /\ \A k \in 1 .. n : rows[k].date <= s.date

\* A check has found the state after some of the recorded sends.
Found(s, rows) == \E n \in 0 .. Len(rows) : Sums(s, rows, n)

\* The recorded sends are why a check at guard g is refused.
Refused(j, g, rows) ==
    \/ Cardinality(OnDay(rows, Len(rows), j.today)) >= g.limit
    \/ \E i \in DOMAIN rows : rows[i].at <= j.at /\ j.at - rows[i].at < g.interval

\* What a check knows of the sends that its lockfile has recorded.
Knows(j, rows) ==
    /\ j.pc = "write" => Sums(j.loaded, rows, Len(rows))
    /\ j.pc \in {"date", "clock", "truncate"} => Found(j.loaded, rows)
    /\ j.pc = "refused" => Refused(j, GuardOf(j), rows)

\* A check has read nothing that the clock has not reached yet.
InPast(j, t) ==
    /\ j.pc \in {"date", "clock", "truncate", "write"} => j.loaded.date <= Day(t)
    /\ j.pc \in {"clock", "truncate", "write"} => j.loaded.date <= j.today /\ j.today <= Day(t)
    /\ j.pc \in {"truncate", "write"} => j.at \in 1 .. t

\* A check that lets the send pass has found room under both limits.
Room(j) == j.pc \in {"truncate", "write"} =>
    /\ CountToday(j) < GuardOf(j).limit
    /\ j.loaded.last > 0 => j.at - j.loaded.last >= GuardOf(j).interval

Past ==
    /\ now >= 1
    /\ \A f \in Files : lockfile[f].date <= Day(now)
    /\ \A f \in Files : \A k \in DOMAIN admitted[f] : admitted[f][k].at \in 1 .. now
    /\ \A p \in Procs : InPast(job[p], now)

Passed == \A p \in Procs : Room(job[p])

Writes(p, f) == At(p, "write") /\ File(p) = f

\* As long as no record was lost: a lockfile sums up its sends, or is empty
\* while the only process that writes it has the sum; who has read the file has
\* found such a sum, of the sends then.
Sound(f) ==
    /\ \A p \in Procs : Writes(p, f) => lockfile[f] = Blank
    /\ (\A p \in Procs : ~Writes(p, f)) => Sums(lockfile[f], admitted[f], Len(admitted[f]))
    /\ \A p, q \in Procs : Writes(p, f) /\ Writes(q, f) => p = q
    /\ \A p \in Procs : File(p) = f => Knows(job[p], admitted[f])

Kept == \A f \in Files : ~lost[f] => Sound(f)

Inv == TypeOK /\ Past /\ Passed /\ Kept /\ DailyQuota /\ RecordSpacing

-----------------------------------------------------------------------------
\* The calendar goes with the clock.
LEMMA DayMonotone ==
    ASSUME NEW s \in Nat, NEW t \in Nat, s <= t
    PROVE  Day(s) \in Nat /\ Day(t) \in Nat /\ Day(s) <= Day(t)
  <1> DEFINE D == DayLength
  <1>1. D \in Nat /\ D > 0
    BY ClockAssumption
  <1>2. /\ s \div D \in Int /\ D * (s \div D) <= s /\ s < D * (s \div D) + D
    BY <1>1, SMTT(30)
  <1>3. /\ t \div D \in Int /\ D * (t \div D) <= t /\ t < D * (t \div D) + D
    BY <1>1, SMTT(30)
  <1> DEFINE a == s \div D  b == t \div D
  <1>4. a \in Int /\ b \in Int /\ D * a < D * b + D
    BY <1>1, <1>2, <1>3
  <1> HIDE DEF a, b
  <1>5. a <= b
    <2>1. D * a < D * (b + 1)
      BY <1>1, <1>4
    <2> QED BY <1>1, <1>4, <2>1, SMTT(30)
  <1>6. a >= 0 /\ b >= 0
    <2>1. 0 < D * (a + 1) /\ 0 < D * (b + 1)
      BY <1>1, <1>2, <1>3, SMTT(30) DEF a, b
    <2> HIDE DEF D
    <2> QED BY <1>1, <1>4, <2>1, SMTT(30)
  <1> QED BY <1>4, <1>5, <1>6 DEF Day, a, b

\* Days are numbers.
LEMMA DaysAreNat == \A d \in Days : d \in Nat
  <1>1. MaxTime \in Nat
    BY ClockAssumption
  <1>2. Day(MaxTime) \in Nat
    BY <1>1, DayMonotone
  <1> QED BY <1>2 DEF Days

\* A guard of a channel is a guard, and its lockfile is one of the lockfiles.
LEMMA GuardKnown ==
    ASSUME NEW c \in Channels, NEW i \in DOMAIN Guards[c]
    PROVE  /\ Guards[c][i] \in GuardSet /\ Guards[c][i] \in GuardType
           /\ Guards[c][i].file \in Files
           /\ Guards[c][i].limit \in Nat /\ Guards[c][i].interval \in Nat
           /\ Guards[c][i].jitterMin \in Nat
  <1>1. Guards[c] \in Seq(GuardType)
    BY GuardsAssumption
  <1>2. Guards[c][i] \in GuardType
    BY <1>1
  <1>3. Guards[c][i] \in GuardSet
    BY DEF GuardSet
  <1> QED BY <1>2, <1>3 DEF Files, GuardType

\* The record of a process without a send is one of Job.
LEMMA IdleIsJob ==
    /\ IdleJob \in Job /\ IdleJob.pc = "idle" /\ IdleJob.stage = 1
    /\ IdleJob.channel \in Channels /\ IdleJob.loaded = Blank
    /\ IdleJob.today = 0 /\ IdleJob.at = 0 /\ IdleJob.dry = FALSE /\ IdleJob.wake = 0
  <1>1. (CHOOSE c \in Channels : TRUE) \in Channels
    BY ChannelsAssumption
  <1>2. 0 \in Days /\ 0 \in Times
    BY DayMonotone, ClockAssumption DEF Days, Times
  <1>3. Blank \in State /\ 1 \in Nat
    BY <1>2 DEF Blank, State
  <1> QED BY <1>1, <1>2, <1>3 DEF IdleJob, Job, Steps

\* Every channel has a first guard.
LEMMA FirstGuard ==
    ASSUME NEW c \in Channels
    PROVE  1 \in DOMAIN Guards[c]
  <1>1. Guards[c] \in Seq(GuardType) /\ Guards[c] # <<>>
    BY GuardsAssumption
  <1> QED BY <1>1

\* What a process becomes is all that changes in job.
LEMMA Became ==
    ASSUME job \in [Procs -> Job], NEW p \in Procs, NEW j \in Job, Become(p, j)
    PROVE  /\ job' \in [Procs -> Job]
           /\ job'[p] = j
           /\ \A q \in Procs \ {p} : job'[q] = job[q]
  BY DEF Become

\* What the invariant says of a process and of its lockfile.
LEMMA Known ==
    ASSUME Inv, NEW p \in Procs
    PROVE  /\ job[p] \in Job /\ job[p].stage \in DOMAIN Guards[job[p].channel]
           /\ Guard(p) = GuardOf(job[p]) /\ Guard(p) \in GuardSet /\ Guard(p) \in GuardType
           /\ File(p) = GuardOf(job[p]).file /\ File(p) \in Files
           /\ InPast(job[p], now) /\ Room(job[p])
           /\ ~lost[File(p)] => Knows(job[p], admitted[File(p)])
           /\ now \in Nat /\ now >= 1 /\ now \in Times /\ Day(now) \in Days
  <1>1. job[p] \in Job /\ job[p].stage \in DOMAIN Guards[job[p].channel] /\ now \in Times
    BY DEF Inv, TypeOK
  <1>2. job[p].channel \in Channels
    BY <1>1 DEF Job
  <1>3. /\ Guard(p) \in GuardSet /\ Guard(p) \in GuardType /\ File(p) \in Files
        /\ Guard(p) = GuardOf(job[p]) /\ File(p) = GuardOf(job[p]).file
    BY <1>1, <1>2, GuardKnown DEF Guard, File, GuardOf
  <1>4. now \in Nat /\ MaxTime \in Nat /\ now <= MaxTime
    BY <1>1, ClockAssumption DEF Times
  <1>5. Day(now) \in Nat /\ Day(MaxTime) \in Nat /\ Day(now) <= Day(MaxTime)
    BY <1>4, DayMonotone
  <1>6. Day(now) \in Days
    BY <1>5 DEF Days
  <1> QED BY <1>1, <1>3, <1>4, <1>6 DEF Inv, Past, Passed, Kept, Sound

\* The sends of a day are finitely many.
LEMMA OnDayFinite ==
    ASSUME NEW rows, NEW n \in Nat, NEW d
    PROVE  IsFiniteSet(OnDay(rows, n, d)) /\ Cardinality(OnDay(rows, n, d)) \in Nat
  <1>1. IsFiniteSet(1 .. n)
    BY FS_Interval
  <1>2. OnDay(rows, n, d) \in SUBSET (1 .. n)
    BY DEF OnDay
  <1>3. IsFiniteSet(OnDay(rows, n, d))
    BY <1>1, <1>2, FS_Subset
  <1> QED BY <1>3, FS_CardinalityType

\* Later sends change nothing in the sums of the earlier ones.
LEMMA SumsStay ==
    ASSUME NEW rows \in Seq(Admission), NEW row \in Admission, NEW s,
           NEW n \in 0 .. Len(rows), Sums(s, rows, n)
    PROVE  Sums(s, Append(rows, row), n)
  <1>1. \A k \in 1 .. n : Append(rows, row)[k] = rows[k]
    OBVIOUS
  <1>2. \A d : OnDay(Append(rows, row), n, d) = OnDay(rows, n, d)
    BY <1>1 DEF OnDay
  <1>3. n # 0 => n \in 1 .. n
    OBVIOUS
  <1> QED BY <1>1, <1>2, <1>3 DEF Sums

\* The state that a check writes sums up the sends with its own.
LEMMA SumsNext ==
    ASSUME NEW rows \in Seq(Admission), NEW row \in Admission, NEW s \in State,
           Sums(s, rows, Len(rows)), s.date <= row.date
    PROVE  LET count == (IF s.date = row.date THEN s.count ELSE 0) + 1 IN
           /\ Sums([last |-> row.at, count |-> count, date |-> row.date],
                   Append(rows, row), Len(rows) + 1)
           /\ Cardinality(OnDay(Append(rows, row), Len(rows) + 1, row.date)) = count
  <1> DEFINE n == Len(rows)
             all == Append(rows, row)
             count == (IF s.date = row.date THEN s.count ELSE 0) + 1
             before == OnDay(rows, n, row.date)
             new == [last |-> row.at, count |-> count, date |-> row.date]
  <1>1. n \in Nat /\ \A k \in 1 .. n : rows[k] \in Admission
    OBVIOUS
  <1>2. \A k \in 1 .. n : rows[k].date \in Int
    <2>1. \A k \in 1 .. n : rows[k].date \in Days
      BY <1>1 DEF Admission
    <2> QED BY <2>1, DaysAreNat
  <1>3. row.date \in Int /\ s.date \in Int /\ s.count \in Nat
    <2>1. row.date \in Days /\ s.date \in Days \cup {-1} /\ s.count \in Nat
      BY DEF Admission, State
    <2> QED BY <2>1, DaysAreNat
  <1>4. Cardinality(before) = (IF s.date = row.date THEN s.count ELSE 0)
    <2>1. CASE s.date = row.date
      BY <2>1 DEF Sums
    <2>2. CASE s.date # row.date
      <3>1. \A k \in 1 .. n : rows[k].date # row.date
        BY <1>2, <1>3, <2>2 DEF Sums
      <3>2. before = {}
        BY <3>1 DEF OnDay
      <3> QED BY <2>2, <3>2, FS_EmptySet
    <2> QED BY <2>1, <2>2
  <1>5. OnDay(all, n + 1, row.date) = before \cup {n + 1}
    <2>1. \A k \in 1 .. n : all[k] = rows[k]
      OBVIOUS
    <2>2. all[n + 1] = row
      OBVIOUS
    <2>3. 1 .. n + 1 = (1 .. n) \cup {n + 1}
      BY <1>1
    <2> HIDE DEF all, n
    <2> QED BY <2>1, <2>2, <2>3 DEF OnDay
  <1>6. n + 1 \notin before /\ IsFiniteSet(before) /\ Cardinality(before) \in Nat
    <2>1. n + 1 \notin before
      BY <1>1 DEF OnDay
    <2> HIDE DEF n
    <2> QED BY <1>1, <2>1, OnDayFinite
  <1>7. Cardinality(OnDay(all, n + 1, row.date)) = count
    BY <1>4, <1>5, <1>6, FS_AddElement
  <1>8. /\ all[n + 1] = row /\ n + 1 # 0
        /\ \A k \in 1 .. n + 1 : all[k].date <= row.date
    <2>1. \A k \in 1 .. n : all[k] = rows[k] /\ rows[k].date <= row.date
      BY <1>1, <1>2, <1>3 DEF Sums
    <2>2. all[n + 1] = row /\ row.date <= row.date
      BY <1>3
    <2> QED BY <1>1, <2>1, <2>2
  <1>9. new.last = row.at /\ new.count = count /\ new.date = row.date
    OBVIOUS
  <1> HIDE DEF n, all, count, new
  <1>10. Sums(new, all, n + 1)
    BY <1>7, <1>8, <1>9 DEF Sums
  <1> QED BY <1>7, <1>10 DEF n, all, count, new

\* The reason of a refusal does not go away with a further send.
LEMMA RefusedStays ==
    ASSUME NEW rows \in Seq(Admission), NEW row \in Admission, NEW j, NEW g \in GuardType,
           Refused(j, g, rows)
    PROVE  Refused(j, g, Append(rows, row))
  <1> DEFINE all == Append(rows, row)
  <1>1. /\ Len(rows) \in Nat /\ Len(all) = Len(rows) + 1
        /\ \A k \in 1 .. Len(rows) : all[k] = rows[k]
        /\ DOMAIN rows = 1 .. Len(rows) /\ DOMAIN all = 1 .. Len(all)
    OBVIOUS
  <1> HIDE DEF all
  <1>2. CASE Cardinality(OnDay(rows, Len(rows), j.today)) >= g.limit
    <2>1. OnDay(rows, Len(rows), j.today) \in SUBSET OnDay(all, Len(all), j.today)
      BY <1>1 DEF OnDay
    <2>2. /\ IsFiniteSet(OnDay(all, Len(all), j.today))
          /\ Cardinality(OnDay(all, Len(all), j.today)) \in Nat
          /\ Cardinality(OnDay(rows, Len(rows), j.today)) \in Nat
      BY <1>1, OnDayFinite
    <2>3. Cardinality(OnDay(rows, Len(rows), j.today))
            <= Cardinality(OnDay(all, Len(all), j.today))
      BY <2>1, <2>2, FS_Subset
    <2>4. g.limit \in Nat
      BY DEF GuardType
    <2>5. Cardinality(OnDay(all, Len(all), j.today)) >= g.limit
      BY <1>2, <2>2, <2>3, <2>4
    <2> QED BY <2>5 DEF Refused, all
  <1>3. CASE \E i \in DOMAIN rows : rows[i].at <= j.at /\ j.at - rows[i].at < g.interval
    <2>1. \E i \in DOMAIN all : all[i].at <= j.at /\ j.at - all[i].at < g.interval
      BY <1>1, <1>3
    <2> QED BY <2>1 DEF Refused, all
  <1> QED BY <1>2, <1>3 DEF Refused

\* A step of one process that touches neither the clock nor a lockfile keeps the
\* invariant when its new record fits.
LEMMA Quiet ==
    ASSUME Inv, NEW p \in Procs, NEW j \in Job, Become(p, j),
           UNCHANGED <<now, lockfile, lost, admitted>>,
           ~At(p, "write"), j.pc # "write",
           j.stage \in DOMAIN Guards[j.channel],
           InPast(j, now), Room(j),
           ~lost[GuardOf(j).file] => Knows(j, admitted[GuardOf(j).file])
    PROVE  Inv'
  <1>1. job \in [Procs -> Job]
    BY DEF Inv, TypeOK
  <1>2. /\ job' \in [Procs -> Job] /\ job'[p] = j
        /\ \A q \in Procs \ {p} : job'[q] = job[q]
    BY <1>1, Became
  <1>3. /\ now' = now /\ lockfile' = lockfile /\ lost' = lost /\ admitted' = admitted
    OBVIOUS
  <1>4. TypeOK'
    BY <1>2, <1>3 DEF Inv, TypeOK
  <1>5. Past' /\ Passed'
    BY <1>2, <1>3 DEF Inv, Past, Passed
  <1>6. ASSUME NEW f \in Files, ~lost[f]
        PROVE  Sound(f)'
    <2>1. Sound(f)
      BY <1>6 DEF Inv, Kept
    <2>2. \A q \in Procs : Writes(q, f)' <=> Writes(q, f)
      BY <1>2 DEF Writes, At, File, Guard
    <2>3. \A q \in Procs : File(q)' = f => Knows(job'[q], admitted[f])
      BY <1>2, <1>6, <2>1 DEF Sound, File, Guard, GuardOf
    <2> QED BY <1>3, <2>1, <2>2, <2>3 DEF Sound
  <1>7. Kept'
    BY <1>3, <1>6 DEF Kept
  <1>8. DailyQuota' /\ RecordSpacing'
    BY <1>3 DEF Inv, DailyQuota, RecordSpacing, SameDate
  <1> QED BY <1>4, <1>5, <1>7, <1>8 DEF Inv

\* A record that fits wherever it is used: a process that is idle, asleep or
\* about to read the lockfile.
LEMMA RestInv ==
    ASSUME Inv, NEW p \in Procs, NEW j \in Job, Become(p, j),
           UNCHANGED <<now, lockfile, lost, admitted>>,
           ~At(p, "write"), j.pc \in {"idle", "load", "sleep"},
           j.stage \in DOMAIN Guards[j.channel]
    PROVE  Inv'
  <1>1. InPast(j, now) /\ Room(j) /\ \A rows : Knows(j, rows)
    BY DEF InPast, Room, Knows
  <1> QED BY <1>1, Quiet

\* Begin: a sender reaches the first guard of its channel.
LEMMA BeginInv ==
    ASSUME Inv, NEW p \in Procs, NEW c \in Channels, Begin(p, c)
    PROVE  Inv'
  <1>p. PICK dry \in BOOLEAN :
          Become(p, [IdleJob EXCEPT !.pc = "load", !.channel = c, !.dry = dry])
    BY DEF Begin
  <1> DEFINE j == [IdleJob EXCEPT !.pc = "load", !.channel = c, !.dry = dry]
  <1>1. j \in Job /\ j.pc = "load" /\ j.channel = c /\ j.stage = 1
    <2> HIDE DEF IdleJob
    <2> QED BY IdleIsJob DEF Job, Steps
  <1>2. Become(p, j) /\ ~At(p, "write") /\ UNCHANGED <<now, lockfile, lost, admitted>>
    BY <1>p DEF Begin, At
  <1> HIDE DEF j
  <1>3. j.stage \in DOMAIN Guards[j.channel]
    BY <1>1, FirstGuard
  <1> QED BY <1>1, <1>2, <1>3, RestInv

\* Load: what is read sums up the sends so far, or none while another process
\* has the file empty.
LEMMA LoadInv ==
    ASSUME Inv, NEW p \in Procs, Load(p)
    PROVE  Inv'
  <1> DEFINE f == File(p)
             j == [job[p] EXCEPT !.pc = "date", !.loaded = lockfile[f]]
  <1>1. /\ job[p] \in Job /\ job[p].stage \in DOMAIN Guards[job[p].channel]
        /\ f \in Files /\ f = GuardOf(job[p]).file
    BY Known
  <1>2. /\ Become(p, j) /\ ~At(p, "write") /\ UNCHANGED <<now, lockfile, lost, admitted>>
    BY DEF Load, At
  <1>3. lockfile[f] \in State /\ lockfile[f].date <= Day(now) /\ admitted[f] \in Seq(Admission)
    BY <1>1 DEF Inv, TypeOK, Past
  <1>4. /\ j \in Job /\ j.pc = "date" /\ j.loaded = lockfile[f]
        /\ j.channel = job[p].channel /\ j.stage = job[p].stage
    BY <1>1, <1>3 DEF Job, Steps
  <1>5. ~lost[f] => Found(lockfile[f], admitted[f])
    <2> SUFFICES ASSUME ~lost[f]
                 PROVE  Found(lockfile[f], admitted[f])
      OBVIOUS
    <2>1. Sound(f) /\ Len(admitted[f]) \in Nat
      BY <1>1, <1>3 DEF Inv, Kept
    <2>2. CASE lockfile[f] = Blank
      <3>1. OnDay(admitted[f], 0, -1) = {}
        BY DEF OnDay
      <3>2. Sums(Blank, admitted[f], 0)
        BY <3>1, FS_EmptySet DEF Sums, Blank
      <3> QED BY <2>1, <2>2, <3>2 DEF Found
    <2>3. CASE lockfile[f] # Blank
      BY <2>1, <2>3 DEF Sound, Found
    <2> QED BY <2>2, <2>3
  <1>6. GuardOf(j).file = f
    BY <1>1, <1>4 DEF GuardOf
  <1> HIDE DEF j, f
  <1>7. InPast(j, now) /\ Room(j) /\ (~lost[f] => Knows(j, admitted[f]))
    BY <1>3, <1>4, <1>5 DEF InPast, Room, Knows
  <1> QED BY <1>1, <1>2, <1>4, <1>6, <1>7, Quiet

\* ReadDate: the date is not before that of the state read before.
LEMMA ReadDateInv ==
    ASSUME Inv, NEW p \in Procs, ReadDate(p)
    PROVE  Inv'
  <1> DEFINE j == [job[p] EXCEPT !.pc = "clock", !.today = Day(now)]
  <1>1. /\ job[p] \in Job /\ job[p].stage \in DOMAIN Guards[job[p].channel]
        /\ File(p) = GuardOf(job[p]).file /\ InPast(job[p], now)
        /\ ~lost[File(p)] => Knows(job[p], admitted[File(p)])
        /\ Day(now) \in Days
    BY Known
  <1>2. /\ Become(p, j) /\ ~At(p, "write") /\ UNCHANGED <<now, lockfile, lost, admitted>>
        /\ job[p].pc = "date"
    BY DEF ReadDate, At
  <1>3. /\ j \in Job /\ j.pc = "clock" /\ j.loaded = job[p].loaded /\ j.today = Day(now)
        /\ j.channel = job[p].channel /\ j.stage = job[p].stage
    BY <1>1 DEF Job, Steps
  <1>4. GuardOf(j).file = File(p)
    BY <1>1, <1>3 DEF GuardOf
  <1>5. Day(now) <= Day(now)
    BY <1>1, DaysAreNat
  <1> HIDE DEF j
  <1>6. InPast(j, now) /\ Room(j) /\ (~lost[File(p)] => Knows(j, admitted[File(p)]))
    BY <1>1, <1>2, <1>3, <1>5 DEF InPast, Room, Knows
  <1> QED BY <1>1, <1>2, <1>3, <1>4, <1>6, Quiet

\* time.sleep: the process keeps nothing of the check.
LEMMA SleepRecord ==
    ASSUME Inv, NEW p \in Procs, Sleep(p)
    PROVE  \E j \in Job : /\ Become(p, j) /\ j.pc = "sleep"
                          /\ j.channel = job[p].channel /\ j.stage = job[p].stage
  <1>1. /\ job[p] \in Job /\ Guard(p) \in GuardType /\ now \in Nat
    BY Known
  <1>p. PICK jitter \in Guard(p).jitterMin .. Guard(p).jitterMax :
    Become(p, [IdleJob EXCEPT !.pc = "sleep", !.channel = job[p].channel, !.dry = job[p].dry,
                              !.stage = job[p].stage, !.wake = now + jitter])
    BY DEF Sleep
  <1> DEFINE wake == now + jitter
             j == [IdleJob EXCEPT !.pc = "sleep", !.channel = job[p].channel,
                                  !.dry = job[p].dry, !.stage = job[p].stage, !.wake = wake]
  <1>2. wake \in Nat
    BY <1>1 DEF GuardType
  <1>3. Become(p, j)
    BY <1>p
  <1> HIDE DEF wake, IdleJob
  <1>4. j \in Job
    BY <1>1, <1>2, IdleIsJob DEF Job, Steps
  <1>5. j.pc = "sleep" /\ j.channel = job[p].channel /\ j.stage = job[p].stage
    BY IdleIsJob DEF Job
  <1> HIDE DEF j
  <1> QED BY <1>3, <1>4, <1>5

\* Admit: a dry run goes to sleep, any other send goes on to the lockfile.
LEMMA AdmitInv ==
    ASSUME Inv, NEW p \in Procs, Admit(p)
    PROVE  Inv'
  <1>1. /\ job[p] \in Job /\ job[p].stage \in DOMAIN Guards[job[p].channel]
        /\ Guard(p) = GuardOf(job[p]) /\ File(p) = GuardOf(job[p]).file
        /\ InPast(job[p], now) /\ now \in Nat /\ now >= 1 /\ now \in Times
        /\ ~lost[File(p)] => Knows(job[p], admitted[File(p)])
    BY Known
  <1>2. /\ ~At(p, "write") /\ UNCHANGED <<now, lockfile, lost, admitted>>
        /\ job[p].pc = "clock" /\ WithinQuota(job[p], Guard(p)) /\ LongEnough(job[p], Guard(p))
    BY DEF Admit, At
  <1>3. CASE Sleep(p)
    <2>1. PICK j \in Job : /\ Become(p, j) /\ j.pc = "sleep"
                           /\ j.channel = job[p].channel /\ j.stage = job[p].stage
      BY <1>3, SleepRecord
    <2> QED BY <1>1, <1>2, <2>1, RestInv
  <1> DEFINE j == [job[p] EXCEPT !.pc = "truncate", !.at = now]
  <1>4. CASE Become(p, j)
    <2>1. /\ j \in Job /\ j.pc = "truncate" /\ j.loaded = job[p].loaded
          /\ j.today = job[p].today /\ j.at = now
          /\ j.channel = job[p].channel /\ j.stage = job[p].stage
      BY <1>1 DEF Job, Steps
    <2>2. GuardOf(j) = Guard(p) /\ CountToday(j) = CountToday(job[p])
      BY <1>1, <2>1 DEF GuardOf, CountToday
    <2>3. Become(p, j)
      BY <1>4
    <2> HIDE DEF j
    <2>4. InPast(j, now)
      BY <1>1, <1>2, <2>1 DEF InPast
    <2>5. Room(j)
      BY <1>2, <2>1, <2>2 DEF Room, WithinQuota, LongEnough, LastSend
    <2>6. ~lost[File(p)] => Knows(j, admitted[File(p)])
      BY <1>1, <1>2, <2>1 DEF Knows
    <2>7. j.stage \in DOMAIN Guards[j.channel] /\ GuardOf(j).file = File(p)
      BY <1>1, <2>1, <2>2
    <2> QED BY <1>2, <2>1, <2>3, <2>4, <2>5, <2>6, <2>7, Quiet
  <1> QED BY <1>3, <1>4 DEF Admit

\* Refuse: the recorded sends are the reason.
LEMMA RefuseInv ==
    ASSUME Inv, NEW p \in Procs, Refuse(p)
    PROVE  Inv'
  <1> DEFINE old == job[p]
             g == Guard(p)
             rows == admitted[File(p)]
             j == [job[p] EXCEPT !.pc = "refused", !.at = now, !.loaded = Blank]
  <1>1. /\ old \in Job /\ old.stage \in DOMAIN Guards[old.channel]
        /\ g = GuardOf(old) /\ File(p) = GuardOf(old).file /\ File(p) \in Files
        /\ g \in GuardType /\ now \in Nat /\ now \in Times
        /\ ~lost[File(p)] => Knows(old, rows)
    BY Known
  <1>2. /\ Become(p, j) /\ ~At(p, "write") /\ UNCHANGED <<now, lockfile, lost, admitted>>
        /\ old.pc = "clock" /\ ~(WithinQuota(old, g) /\ LongEnough(old, g))
    BY DEF Refuse, At
  <1>3. rows \in Seq(Admission) /\ \A k \in DOMAIN rows : rows[k].at \in 1 .. now
    BY <1>1 DEF Inv, TypeOK, Past
  <1>4. /\ j \in Job /\ j.pc = "refused" /\ j.today = old.today /\ j.at = now
        /\ j.channel = old.channel /\ j.stage = old.stage
    <2>1. Blank \in State
      BY IdleIsJob DEF Job
    <2> QED BY <1>1, <2>1 DEF Job, Steps
  <1>5. GuardOf(j) = g
    BY <1>1, <1>4 DEF GuardOf
  <1>6. old.loaded \in State /\ old.today \in Days /\ old.loaded.last \in Nat
        /\ old.loaded.count \in Nat
    BY <1>1 DEF Job, State, Times
  <1> HIDE DEF j, old, rows, g
  <1>7. ASSUME ~lost[File(p)]
        PROVE  Refused(j, g, rows)
    <2>1. PICK n \in 0 .. Len(rows) : Sums(old.loaded, rows, n)
      BY <1>1, <1>2, <1>7 DEF Knows, Found
    <2>2. Len(rows) \in Nat /\ n \in Nat /\ n <= Len(rows) /\ DOMAIN rows = 1 .. Len(rows)
      BY <1>3, <2>1
    <2>3. g.limit \in Nat /\ g.interval \in Nat
      BY <1>1 DEF GuardType
    <2>4. CASE ~WithinQuota(old, g)
      <3>1. CountToday(old) >= g.limit
        BY <1>6, <2>3, <2>4 DEF WithinQuota, CountToday
      <3>2. Cardinality(OnDay(rows, Len(rows), old.today)) >= CountToday(old)
        <4>1. /\ IsFiniteSet(OnDay(rows, Len(rows), old.today))
              /\ Cardinality(OnDay(rows, Len(rows), old.today)) \in Nat
          BY <2>2, OnDayFinite
        <4>2. OnDay(rows, n, old.today) \in SUBSET OnDay(rows, Len(rows), old.today)
          BY <2>2 DEF OnDay
        <4>3. Cardinality(OnDay(rows, n, old.today))
                <= Cardinality(OnDay(rows, Len(rows), old.today))
          BY <4>1, <4>2, FS_Subset
        <4>4. CASE old.loaded.date = old.today
          <5>1. CountToday(old) = Cardinality(OnDay(rows, n, old.today))
            BY <2>1, <4>4 DEF Sums, CountToday
          <5>2. CountToday(old) \in Nat
            BY <1>6 DEF CountToday
          <5> QED BY <4>1, <4>3, <5>1, <5>2
        <4>5. CASE old.loaded.date # old.today
          <5>1. CountToday(old) = 0
            BY <4>5 DEF CountToday
          <5> QED BY <4>1, <5>1
        <4> QED BY <4>4, <4>5
      <3>3. Cardinality(OnDay(rows, Len(rows), old.today)) >= g.limit
        <4>1. /\ Cardinality(OnDay(rows, Len(rows), old.today)) \in Nat
              /\ CountToday(old) \in Nat
          BY <1>6, <2>2, OnDayFinite DEF CountToday
        <4> QED BY <2>3, <3>1, <3>2, <4>1
      <3> QED BY <1>4, <3>3 DEF Refused
    <2>5. CASE ~LongEnough(old, g)
      <3>1. old.loaded.last > 0 /\ now - old.loaded.last < g.interval
        BY <1>1, <1>6, <2>3, <2>5 DEF LongEnough, LastSend
      <3>2. n # 0 /\ old.loaded.last = rows[n].at
        BY <2>1, <3>1 DEF Sums
      <3>3. n \in DOMAIN rows
        BY <2>2, <3>2
      <3>4. rows[n].at <= j.at /\ j.at - rows[n].at < g.interval
        BY <1>1, <1>3, <1>4, <3>1, <3>2, <3>3
      <3> QED BY <3>3, <3>4 DEF Refused
    <2> QED BY <1>2, <2>4, <2>5
  <1>8. InPast(j, now) /\ Room(j)
    BY <1>4 DEF InPast, Room
  <1>9. ~lost[File(p)] => Knows(j, rows)
    BY <1>4, <1>5, <1>7 DEF Knows
  <1>10. j.pc # "write" /\ j.stage \in DOMAIN Guards[j.channel] /\ GuardOf(j).file = File(p)
    BY <1>1, <1>4, <1>5
  <1> QED BY <1>2, <1>4, <1>8, <1>9, <1>10, Quiet DEF rows

\* NextGuard: the sender begins with the next guard.
LEMMA NextGuardInv ==
    ASSUME Inv, NEW p \in Procs, NextGuard(p)
    PROVE  Inv'
  <1> DEFINE next == job[p].stage + 1
             j == [IdleJob EXCEPT !.pc = "load", !.channel = job[p].channel, !.stage = next]
  <1>1. /\ job[p] \in Job /\ job[p].stage \in DOMAIN Guards[job[p].channel]
        /\ job[p].channel \in Channels /\ job[p].stage \in Nat
    BY Known DEF Job
  <1>2. Guards[job[p].channel] \in Seq(GuardType)
    BY <1>1, GuardsAssumption
  <1>3. /\ Become(p, j) /\ ~At(p, "write") /\ UNCHANGED <<now, lockfile, lost, admitted>>
        /\ job[p].stage < Len(Guards[job[p].channel])
    BY DEF NextGuard, Awake, At
  <1>4. next \in Nat /\ next \in DOMAIN Guards[job[p].channel]
    BY <1>1, <1>2, <1>3
  <1> HIDE DEF next
  <1>5. j \in Job /\ j.pc = "load" /\ j.channel = job[p].channel /\ j.stage = next
    <2> HIDE DEF IdleJob
    <2> QED BY <1>1, <1>4, IdleIsJob DEF Job, Steps
  <1> HIDE DEF j
  <1> QED BY <1>3, <1>4, <1>5, RestInv

\* Dispatch and Abort outside the write: the process is idle again.
LEMMA ReturnInv ==
    ASSUME Inv, NEW p \in Procs, Return(p), ~At(p, "write"),
           UNCHANGED <<now, lockfile, lost, admitted>>
    PROVE  Inv'
  <1>1. Become(p, IdleJob) /\ IdleJob.stage \in DOMAIN Guards[IdleJob.channel]
    BY IdleIsJob, FirstGuard DEF Return
  <1> QED BY <1>1, IdleIsJob, RestInv

\* A step of one process at its lockfile keeps the invariant when the process,
\* the lockfile and the history fit afterwards, and a loss ends the history.
LEMMA FileStep ==
    ASSUME Inv, NEW p \in Procs, NEW j \in Job, NEW s \in State, NEW rows \in Seq(Admission),
           NEW loses \in BOOLEAN,
           Become(p, j), lockfile' = [lockfile EXCEPT ![File(p)] = s],
           Record(File(p), rows, loses), UNCHANGED now,
           lost[File(p)] => loses,
           j.stage \in DOMAIN Guards[j.channel],
           GuardOf(j) = Guard(p) \/ (j.pc = "idle" /\ loses),
           InPast(j, now), Room(j), s.date <= Day(now),
           ~loses =>
              /\ \A k \in DOMAIN rows : rows[k].at \in 1 .. now
              /\ \A i \in DOMAIN rows :
                    Cardinality(OnDay(rows, i, rows[i].date)) <= rows[i].guard.limit
              /\ \A i \in 2 .. Len(rows) : rows[i].at - rows[i - 1].at >= rows[i].guard.interval
              /\ \A q \in Procs \ {p} : ~Writes(q, File(p))
              /\ \A q \in Procs \ {p} : File(q) = File(p) => Knows(job[q], rows)
              /\ Knows(j, rows)
              /\ j.pc = "write" => s = Blank
              /\ j.pc # "write" => Sums(s, rows, Len(rows))
    PROVE  Inv'
  <1> DEFINE f == File(p)
             all == IF loses THEN <<>> ELSE rows
  <1>1. /\ job \in [Procs -> Job] /\ lockfile \in [Files -> State] /\ f \in Files
        /\ lost \in [Files -> BOOLEAN] /\ admitted \in [Files -> Seq(Admission)]
        /\ f = Guard(p).file
    BY Known DEF Inv, TypeOK, File
  <1>2. /\ job' \in [Procs -> Job] /\ job'[p] = j
        /\ \A q \in Procs \ {p} : job'[q] = job[q]
    BY <1>1, Became
  <1>3. /\ lockfile' \in [Files -> State] /\ lockfile'[f] = s
        /\ \A e \in Files \ {f} : lockfile'[e] = lockfile[e]
    BY <1>1
  <1>4. /\ lost' \in [Files -> BOOLEAN] /\ lost'[f] = loses
        /\ \A e \in Files \ {f} : lost'[e] = lost[e]
    BY <1>1 DEF Record
  <1>5. /\ admitted' \in [Files -> Seq(Admission)] /\ admitted'[f] = all
        /\ \A e \in Files \ {f} : admitted'[e] = admitted[e]
    <2>1. all \in Seq(Admission)
      OBVIOUS
    <2>2. admitted' = [admitted EXCEPT ![f] = all]
      BY DEF Record
    <2> HIDE DEF all, f
    <2> QED BY <1>1, <2>1, <2>2
  <1>6. loses => all = <<>>
    OBVIOUS
  <1>7. ~loses => all = rows
    OBVIOUS
  <1>8. /\ File(p)' = f \/ (j.pc = "idle" /\ loses)
        /\ \A q \in Procs \ {p} : File(q)' = File(q)
    BY <1>1, <1>2 DEF File, Guard, GuardOf
  <1>9. now' = now /\ now \in Nat
    BY Known
  <1>c. /\ ~loses => \A k \in DOMAIN rows : rows[k].at \in 1 .. now
        /\ ~loses => \A i \in DOMAIN rows :
                    Cardinality(OnDay(rows, i, rows[i].date)) <= rows[i].guard.limit
        /\ ~loses => \A i \in 2 .. Len(rows) :
                    rows[i].at - rows[i - 1].at >= rows[i].guard.interval
        /\ ~loses => \A q \in Procs \ {p} : ~Writes(q, f)
        /\ ~loses => \A q \in Procs \ {p} : File(q) = f => Knows(job[q], rows)
        /\ ~loses => Knows(j, rows)
        /\ ~loses => (j.pc = "write" => s = Blank)
        /\ ~loses => (j.pc # "write" => Sums(s, rows, Len(rows)))
    OBVIOUS
  <1> HIDE DEF f, all
  <1>10. TypeOK'
    BY <1>2, <1>3, <1>4, <1>5, <1>9 DEF Inv, TypeOK
  <1>11. Past'
    <2>1. \A k \in DOMAIN all : all[k].at \in 1 .. now
      BY <1>6, <1>7, <1>c
    <2> QED BY <1>2, <1>3, <1>5, <1>9, <2>1 DEF Inv, Past
  <1>12. Passed'
    BY <1>2 DEF Inv, Passed
  <1>13. DailyQuota'
    <2>1. \A i \in DOMAIN all : Cardinality(OnDay(all, i, all[i].date)) <= all[i].guard.limit
      BY <1>6, <1>7, <1>c
    <2>2. ASSUME NEW e \in Files, NEW i \in DOMAIN admitted'[e]
          PROVE  Cardinality(OnDay(admitted'[e], i, admitted'[e][i].date))
                    <= admitted'[e][i].guard.limit
      <3>1. CASE e = f
        BY <1>5, <2>1, <3>1
      <3>2. CASE e # f
        BY <1>5, <3>2 DEF Inv, DailyQuota, SameDate, OnDay
      <3> QED BY <3>1, <3>2
    <2> QED BY <2>2 DEF DailyQuota, SameDate, OnDay
  <1>14. RecordSpacing'
    <2>1. \A i \in 2 .. Len(all) : all[i].at - all[i - 1].at >= all[i].guard.interval
      BY <1>6, <1>7, <1>c
    <2> QED BY <1>5, <2>1 DEF Inv, RecordSpacing
  <1>15. Kept'
    <2> SUFFICES ASSUME NEW e \in Files, ~lost'[e]
                 PROVE  Sound(e)'
      BY DEF Kept
    <2>1. CASE e = f
      <3>1. ~loses /\ ~lost[f] /\ all = rows
        BY <1>4, <1>7, <2>1 DEF f
      <3>2. \A q \in Procs \ {p} : ~Writes(q, e)'
        BY <1>2, <1>8, <1>c, <2>1, <3>1 DEF Writes, At
      <3>3. Writes(p, e)' <=> j.pc = "write"
        BY <1>2, <1>8, <2>1, <3>1 DEF Writes, At
      <3>4. \A q \in Procs : File(q)' = e => Knows(job'[q], all)
        BY <1>2, <1>8, <1>c, <2>1, <3>1
      <3>5. /\ \A q \in Procs : Writes(q, e)' => lockfile'[e] = Blank
            /\ (\A q \in Procs : ~Writes(q, e)') => Sums(lockfile'[e], all, Len(all))
            /\ \A q, r \in Procs : Writes(q, e)' /\ Writes(r, e)' => q = r
        BY <1>3, <1>c, <2>1, <3>1, <3>2, <3>3
      <3> QED BY <1>5, <2>1, <3>4, <3>5 DEF Sound
    <2>2. CASE e # f
      <3>1. ~lost[e] /\ Sound(e)
        BY <1>4, <2>2 DEF Inv, Kept
      <3>2. /\ \A q \in Procs : Writes(q, e)' <=> Writes(q, e)
            /\ \A q \in Procs \ {p} : File(q)' = e => File(q) = e /\ job'[q] = job[q]
        BY <1>2, <1>8, <2>2 DEF Writes, At, f
      <3>3. File(p)' = e => Knows(job'[p], admitted[e])
        BY <1>2, <1>8, <2>2 DEF Knows
      <3>4. \A q \in Procs : File(q)' = e => Knows(job'[q], admitted[e])
        BY <3>1, <3>2, <3>3 DEF Sound
      <3> QED BY <1>3, <1>5, <2>2, <3>1, <3>2, <3>4 DEF Sound
    <2> QED BY <2>1, <2>2
  <1> QED BY <1>10, <1>11, <1>12, <1>13, <1>14, <1>15 DEF Inv

\* Sums are those of the recorded sends, in the past, within the limits.
LEMMA RowsKnown ==
    ASSUME Inv, NEW f \in Files
    PROVE  /\ admitted[f] \in Seq(Admission)
           /\ \A k \in DOMAIN admitted[f] : admitted[f][k].at \in 1 .. now
           /\ \A i \in DOMAIN admitted[f] :
                Cardinality(OnDay(admitted[f], i, admitted[f][i].date))
                    <= admitted[f][i].guard.limit
           /\ \A i \in 2 .. Len(admitted[f]) :
                admitted[f][i].at - admitted[f][i - 1].at >= admitted[f][i].guard.interval
           /\ ~lost[f] => Sound(f)
  BY DEF Inv, TypeOK, Past, DailyQuota, SameDate, OnDay, RecordSpacing, Kept

\* Truncate: the check that empties the file has the sum of what was in it,
\* unless a record is lost with it.
LEMMA TruncateInv ==
    ASSUME Inv, NEW p \in Procs, Truncate(p)
    PROVE  Inv'
  <1> DEFINE f == File(p)
             rows == admitted[f]
             loses == Loses(p, job[p].loaded)
             j == [job[p] EXCEPT !.pc = "write"]
  <1>1. /\ job[p] \in Job /\ job[p].stage \in DOMAIN Guards[job[p].channel]
        /\ Guard(p) = GuardOf(job[p]) /\ f \in Files
        /\ InPast(job[p], now) /\ Room(job[p]) /\ Day(now) \in Days
    BY Known
  <1>2. /\ Become(p, j) /\ UNCHANGED now /\ job[p].pc = "truncate"
        /\ lockfile' = [lockfile EXCEPT ![f] = Blank] /\ Record(f, rows, loses)
    BY DEF Truncate, At
  <1>3. /\ j \in Job /\ j.pc = "write" /\ j.loaded = job[p].loaded /\ j.at = job[p].at
        /\ j.today = job[p].today /\ j.channel = job[p].channel /\ j.stage = job[p].stage
    BY <1>1 DEF Job, Steps
  <1>4. GuardOf(j) = Guard(p) /\ CountToday(j) = CountToday(job[p])
    BY <1>1, <1>3 DEF GuardOf, CountToday
  <1>5. loses \in BOOLEAN
    BY DEF Loses
  <1>6. /\ lost[f] => loses
        /\ ~loses => /\ lockfile[f] = job[p].loaded
                     /\ \A q \in Procs \ {p} : ~Writes(q, f)
    BY DEF Loses, Writes
  <1>7. ~Writes(p, f)
    BY <1>2 DEF Writes, At
  <1> HIDE DEF loses, j, f
  <1>8. rows \in Seq(Admission) /\ (~lost[f] => Sound(f))
    BY <1>1, RowsKnown
  <1>9. ~loses => Sums(j.loaded, rows, Len(rows))
    BY <1>3, <1>6, <1>7, <1>8 DEF Sound
  <1>10. ~loses => Knows(j, rows)
    BY <1>3, <1>9 DEF Knows
  <1>11. ~loses => \A q \in Procs \ {p} : File(q) = f => Knows(job[q], rows)
    BY <1>6, <1>8 DEF Sound
  <1>12. InPast(j, now) /\ Room(j)
    BY <1>1, <1>2, <1>3, <1>4 DEF InPast, Room
  <1>13. Blank \in State /\ Blank.date <= Day(now)
    <2>1. Blank \in State /\ Day(now) \in Nat
      BY <1>1, IdleIsJob, DaysAreNat DEF Job
    <2> QED BY <2>1 DEF Blank
  <1>14. j.stage \in DOMAIN Guards[j.channel]
    BY <1>1, <1>3
  <1>15. /\ \A k \in DOMAIN rows : rows[k].at \in 1 .. now
         /\ \A i \in DOMAIN rows :
               Cardinality(OnDay(rows, i, rows[i].date)) <= rows[i].guard.limit
         /\ \A i \in 2 .. Len(rows) : rows[i].at - rows[i - 1].at >= rows[i].guard.interval
    BY <1>1, RowsKnown
  <1> HIDE DEF rows
  <1> QED BY <1>2, <1>3, <1>4, <1>5, <1>6, <1>8, <1>10, <1>11, <1>12, <1>13, <1>14, <1>15,
             FileStep DEF f

\* Write: the send is within both limits of the sends before, and the file
\* then sums up all of them, unless a record was lost.
LEMMA WriteInv ==
    ASSUME Inv, NEW p \in Procs, Write(p)
    PROVE  Inv'
  <1> DEFINE f == File(p)
             old == job[p]
             before == admitted[f]
             row == [guard |-> Guard(p), at |-> old.at, date |-> old.today]
             rows == Append(before, row)
             loses == Loses(p, Blank)
             s == [last |-> old.at, count |-> CountToday(old) + 1, date |-> old.today]
  <1>1. /\ old \in Job /\ old.stage \in DOMAIN Guards[old.channel]
        /\ Guard(p) = GuardOf(old) /\ Guard(p) \in GuardSet /\ Guard(p) \in GuardType
        /\ f \in Files /\ InPast(old, now) /\ Room(old) /\ now \in Nat
        /\ ~lost[f] => Knows(old, before)
    BY Known
  <1>2. /\ UNCHANGED now /\ old.pc = "write"
        /\ lockfile' = [lockfile EXCEPT ![f] = s] /\ Record(f, rows, loses)
    BY DEF Write, At
  <1>3. PICK j \in Job : /\ Become(p, j) /\ j.pc = "sleep"
                         /\ j.channel = old.channel /\ j.stage = old.stage
    BY SleepRecord DEF Write
  <1>4. /\ loses \in BOOLEAN /\ (lost[f] => loses)
        /\ ~loses => \A q \in Procs \ {p} : ~Writes(q, f)
    BY DEF Loses, Writes
  <1>5. /\ old.at \in Times /\ old.today \in Days /\ old.loaded \in State
        /\ old.loaded.count \in Nat /\ old.at \in Nat /\ old.loaded.last \in Nat
    BY <1>1 DEF Job, State, Times
  <1>6. row \in Admission
    BY <1>1, <1>5 DEF Admission
  <1>7. /\ before \in Seq(Admission)
        /\ \A k \in DOMAIN before : before[k].at \in 1 .. now
        /\ \A i \in DOMAIN before :
              Cardinality(OnDay(before, i, before[i].date)) <= before[i].guard.limit
        /\ \A i \in 2 .. Len(before) :
              before[i].at - before[i - 1].at >= before[i].guard.interval
        /\ ~lost[f] => Sound(f)
    BY <1>1, RowsKnown
  <1>8. CountToday(old) \in Nat
    BY <1>5 DEF CountToday
  <1>9. s \in State /\ s.date <= Day(now) /\ s.last = old.at /\ s.date = old.today
        /\ s.count = CountToday(old) + 1
    BY <1>1, <1>2, <1>5, <1>8 DEF State, InPast
  <1>10. /\ old.loaded.date <= old.today /\ old.at \in 1 .. now
         /\ CountToday(old) < Guard(p).limit
         /\ old.loaded.last > 0 => old.at - old.loaded.last >= Guard(p).interval
    BY <1>1, <1>2 DEF InPast, Room
  <1>11. row.guard = Guard(p) /\ row.at = old.at /\ row.date = old.today
    OBVIOUS
  <1> HIDE DEF loses, f, before, old, row, s
  <1>12. /\ Len(before) \in Nat /\ Len(rows) = Len(before) + 1 /\ rows[Len(before) + 1] = row
         /\ \A k \in 1 .. Len(before) : rows[k] = before[k]
         /\ DOMAIN rows = 1 .. Len(before) + 1 /\ DOMAIN before = 1 .. Len(before)
         /\ rows \in Seq(Admission)
    BY <1>6, <1>7
  <1> HIDE DEF rows
  <1>13. \A k \in DOMAIN rows : rows[k].at \in 1 .. now
    BY <1>7, <1>10, <1>11, <1>12
  <1>14. ASSUME ~loses
         PROVE  /\ Sums(old.loaded, before, Len(before))
                /\ Sums(s, rows, Len(rows))
                /\ Cardinality(OnDay(rows, Len(rows), row.date)) = CountToday(old) + 1
    <2>1. Sums(old.loaded, before, Len(before))
      BY <1>1, <1>2, <1>4, <1>14 DEF Knows
    <2>2. CountToday(old) = IF old.loaded.date = row.date THEN old.loaded.count ELSE 0
      BY <1>11 DEF CountToday
    <2>3. s = [last |-> row.at, count |-> CountToday(old) + 1, date |-> row.date]
      BY <1>11 DEF s
    <2> HIDE DEF CountToday
    <2>4. /\ Sums([last |-> row.at, count |-> CountToday(old) + 1, date |-> row.date],
                  Append(before, row), Len(before) + 1)
          /\ Cardinality(OnDay(Append(before, row), Len(before) + 1, row.date))
                = CountToday(old) + 1
      BY <1>5, <1>6, <1>7, <1>10, <1>11, <2>1, <2>2, SumsNext
    <2> QED BY <1>12, <2>1, <2>3, <2>4 DEF rows
  <1>15. ASSUME ~loses, NEW i \in DOMAIN rows
         PROVE  Cardinality(OnDay(rows, i, rows[i].date)) <= rows[i].guard.limit
    <2>1. CASE i = Len(rows)
      <3>1. Guard(p).limit \in Nat
        BY <1>1 DEF GuardType
      <3> QED BY <1>8, <1>10, <1>11, <1>12, <1>14, <1>15, <2>1, <3>1
    <2>2. CASE i # Len(rows)
      <3>1. i \in DOMAIN before /\ rows[i] = before[i] /\ i \in 1 .. Len(before)
        BY <1>12, <2>2
      <3>2. \A k \in 1 .. i : rows[k] = before[k]
        BY <1>12, <3>1
      <3>3. OnDay(rows, i, rows[i].date) = OnDay(before, i, before[i].date)
        BY <3>1, <3>2 DEF OnDay
      <3> QED BY <1>7, <3>1, <3>3
    <2> QED BY <2>1, <2>2
  <1>16. ASSUME ~loses, NEW i \in 2 .. Len(rows)
         PROVE  rows[i].at - rows[i - 1].at >= rows[i].guard.interval
    <2>1. CASE i = Len(rows)
      <3>1. Len(before) # 0 /\ i - 1 = Len(before) /\ Len(before) \in DOMAIN before
        BY <1>12, <2>1
      <3>2. old.loaded.last = before[Len(before)].at
        BY <1>14, <1>16, <3>1 DEF Sums
      <3>3. old.loaded.last > 0
        BY <1>1, <1>7, <3>1, <3>2
      <3>4. rows[i - 1] = before[Len(before)] /\ rows[i] = row
        BY <1>12, <2>1, <3>1
      <3> QED BY <1>10, <1>11, <3>2, <3>3, <3>4
    <2>2. CASE i # Len(rows)
      <3>1. i \in 2 .. Len(before) /\ rows[i] = before[i] /\ rows[i - 1] = before[i - 1]
        BY <1>12, <2>2
      <3> QED BY <1>7, <3>1
    <2> QED BY <2>1, <2>2
  <1>17. ASSUME ~loses, NEW q \in Procs \ {p}, File(q) = f
         PROVE  Knows(job[q], rows)
    <2>1. Knows(job[q], before)
      BY <1>4, <1>7, <1>17 DEF Sound, before
    <2>2. job[q].pc # "write"
      BY <1>4, <1>17 DEF Writes, At
    <2>3. job[q].pc = "refused" => Refused(job[q], GuardOf(job[q]), rows)
      <3>1. GuardOf(job[q]) \in GuardType
        BY Known
      <3> QED BY <1>6, <1>7, <2>1, <3>1, RefusedStays DEF Knows, rows
    <2>4. job[q].pc \in {"date", "clock", "truncate"} => Found(job[q].loaded, rows)
      <3> SUFFICES ASSUME job[q].pc \in {"date", "clock", "truncate"}
                   PROVE  Found(job[q].loaded, rows)
        OBVIOUS
      <3>1. PICK n \in 0 .. Len(before) : Sums(job[q].loaded, before, n)
        BY <2>1 DEF Knows, Found
      <3>2. Sums(job[q].loaded, rows, n)
        BY <1>6, <1>7, <3>1, SumsStay DEF rows
      <3>3. n \in 0 .. Len(rows)
        BY <1>12, <3>1
      <3> QED BY <3>2, <3>3 DEF Found
    <2> QED BY <2>2, <2>3, <2>4 DEF Knows
  <1>18. /\ InPast(j, now) /\ Room(j) /\ Knows(j, rows) /\ j.pc # "write"
         /\ j.stage \in DOMAIN Guards[j.channel] /\ GuardOf(j) = Guard(p)
    BY <1>1, <1>3 DEF InPast, Room, Knows, GuardOf
  <1> QED BY <1>2, <1>3, <1>4, <1>9, <1>12, <1>13, <1>14, <1>15, <1>16, <1>17, <1>18,
             FileStep DEF f

\* Abort: a process that dies between the two halves of the write takes the
\* history with it, elsewhere it leaves all as it was.
LEMMA AbortInv ==
    ASSUME Inv, NEW p \in Procs, Abort(p)
    PROVE  Inv'
  <1>1. CASE ~At(p, "write")
    BY <1>1, ReturnInv DEF Abort
  <1>2. CASE At(p, "write")
    <2> DEFINE f == File(p)
    <2>1. /\ f \in Files /\ now \in Nat
          /\ lockfile \in [Files -> State] /\ lockfile[f] \in State
          /\ lockfile[f].date <= Day(now)
      <3>1. f \in Files /\ now \in Nat
        BY Known
      <3> HIDE DEF f
      <3> QED BY <3>1 DEF Inv, TypeOK, Past
    <2>2. /\ Become(p, IdleJob) /\ UNCHANGED now /\ lockfile' = lockfile
          /\ Record(f, <<>>, TRUE)
      BY <1>2 DEF Abort, Return
    <2>3. lockfile' = [lockfile EXCEPT ![f] = lockfile[f]]
      <3> HIDE DEF f
      <3> QED BY <2>1, <2>2
    <2>4. InPast(IdleJob, now) /\ Room(IdleJob)
      BY IdleIsJob DEF InPast, Room
    <2>5. IdleJob.stage \in DOMAIN Guards[IdleJob.channel]
      BY IdleIsJob, FirstGuard
    <2>6. <<>> \in Seq(Admission) /\ TRUE \in BOOLEAN
      OBVIOUS
    <2> DEFINE s == lockfile[f]
               loses == TRUE
    <2>7. /\ s \in State /\ s.date <= Day(now) /\ loses \in BOOLEAN /\ loses
          /\ lockfile' = [lockfile EXCEPT ![f] = s] /\ Record(f, <<>>, loses)
      BY <2>1, <2>2, <2>3
    <2> HIDE DEF s, loses
    <2> QED BY <2>2, <2>4, <2>5, <2>6, <2>7, IdleIsJob, FileStep DEF f
  <1> QED BY <1>1, <1>2

\* Tick: what was in the past stays there.
LEMMA TickInv ==
    ASSUME Inv, Tick
    PROVE  Inv'
  <1>1. /\ now' = now + 1 /\ now < MaxTime /\ now \in Nat /\ MaxTime \in Nat /\ now >= 1
        /\ UNCHANGED <<lockfile, job, lost, admitted>>
    BY ClockAssumption DEF Tick, Inv, TypeOK, Times, Past
  <1>2. TypeOK'
    BY <1>1 DEF Inv, TypeOK, Times
  <1>3. /\ Day(now) \in Nat /\ Day(now') \in Nat /\ Day(now) <= Day(now')
        /\ \A d \in Days \cup {-1} : d <= Day(now) => d <= Day(now')
    <2>1. now' \in Nat /\ now <= now'
      BY <1>1
    <2>2. Day(now) \in Nat /\ Day(now') \in Nat /\ Day(now) <= Day(now')
      BY <1>1, <2>1, DayMonotone
    <2> QED BY <2>2, DaysAreNat
  <1>4. Past'
    <2>1. ASSUME NEW f \in Files
          PROVE  lockfile[f].date <= Day(now')
      <3>1. lockfile[f].date \in Days \cup {-1} /\ lockfile[f].date <= Day(now)
        BY DEF Inv, TypeOK, State, Past
      <3> QED BY <1>3, <3>1
    <2>2. \A f \in Files : \A k \in DOMAIN admitted[f] : admitted[f][k].at \in 1 .. now'
      BY <1>1 DEF Inv, Past
    <2>3. ASSUME NEW p \in Procs
          PROVE  InPast(job[p], now')
      <3>1. InPast(job[p], now) /\ job[p] \in Job
        BY Known
      <3>2. job[p].loaded.date \in Days \cup {-1} /\ job[p].today \in Days
        BY <3>1 DEF Job, State
      <3> QED BY <1>1, <1>3, <3>1, <3>2 DEF InPast
    <2>4. now' >= 1
      BY <1>1
    <2> QED BY <1>1, <2>1, <2>2, <2>3, <2>4 DEF Past
  <1>5. Passed' /\ Kept' /\ DailyQuota' /\ RecordSpacing'
    BY <1>1 DEF Inv, Passed, Kept, Sound, Writes, At, File, Guard, DailyQuota, SameDate,
                RecordSpacing
  <1> QED BY <1>2, <1>4, <1>5 DEF Inv

\* At the start every lockfile is missing, which is read as {}.
LEMMA InitInv == Init => Inv
  <1> SUFFICES ASSUME Init
               PROVE  Inv
    OBVIOUS
  <1>1. /\ \A p \in Procs : job[p] = IdleJob
        /\ \A f \in Files : lockfile[f] = Blank /\ admitted[f] = <<>> /\ lost[f] = FALSE
    BY DEF Init
  <1>2. Blank \in State /\ now = 1 /\ now \in Times
    BY IdleIsJob, ClockAssumption DEF Job, Init, Times
  <1>3. TypeOK
    BY <1>1, <1>2, IdleIsJob, FirstGuard DEF Init, TypeOK
  <1>4. Past
    <2>1. Day(now) \in Nat
      BY <1>2, DayMonotone
    <2> QED BY <1>1, <1>2, <2>1, IdleIsJob DEF Past, InPast, Blank
  <1>5. Passed
    BY <1>1, IdleIsJob DEF Passed, Room
  <1>6. Sums(Blank, <<>>, 0)
    <2>1. OnDay(<<>>, 0, -1) = {}
      BY DEF OnDay
    <2> QED BY <2>1, FS_EmptySet DEF Sums, Blank
  <1>7. Kept
    BY <1>1, <1>6, IdleIsJob DEF Kept, Sound, Writes, At, Knows
  <1>8. DailyQuota /\ RecordSpacing
    BY <1>1 DEF DailyQuota, RecordSpacing
  <1> QED BY <1>3, <1>4, <1>5, <1>7, <1>8 DEF Inv

\* Every step keeps the invariant.
LEMMA StepInv == Inv /\ [Next]_vars => Inv'
  <1> SUFFICES ASSUME Inv, [Next]_vars
               PROVE  Inv'
    OBVIOUS
  <1>1. ASSUME NEW p \in Procs, CheckStep(p)
        PROVE  Inv'
    BY <1>1, BeginInv, LoadInv, ReadDateInv, AdmitInv, RefuseInv, TruncateInv, WriteInv,
       NextGuardInv, AbortInv DEF CheckStep
  <1>2. ASSUME NEW p \in Procs, Dispatch(p)
        PROVE  Inv'
    BY <1>2, ReturnInv DEF Dispatch, Awake, At
  <1>3. CASE UNCHANGED vars
    <2>1. UNCHANGED <<now, lockfile, job, lost, admitted>>
      BY <1>3 DEF vars
    <2> QED BY <2>1 DEF Inv, TypeOK, Past, Passed, Kept, Sound, Writes, At, File, Guard,
                        DailyQuota, SameDate, RecordSpacing
  <1> QED BY <1>1, <1>2, <1>3, TickInv DEF Next

\* A refused check knows the recorded sends that are the reason.
LEMMA InvRefusal == Inv => RefusalJustified
  <1> SUFFICES ASSUME Inv, NEW p \in Procs, At(p, "refused"), ~lost[File(p)]
               PROVE  LET j == job[p]  rows == admitted[File(p)] IN
                      \/ Cardinality({i \in DOMAIN rows : rows[i].date = j.today})
                            >= Guard(p).limit
                      \/ \E i \in DOMAIN rows :
                            rows[i].at <= j.at /\ j.at - rows[i].at < Guard(p).interval
    BY DEF RefusalJustified
  <1>1. /\ Knows(job[p], admitted[File(p)]) /\ Guard(p) = GuardOf(job[p])
        /\ File(p) \in Files
    BY Known
  <1>2. admitted[File(p)] \in Seq(Admission)
    BY <1>1 DEF Inv, TypeOK
  <1>3. DOMAIN admitted[File(p)] = 1 .. Len(admitted[File(p)])
    BY <1>2
  <1>4. Refused(job[p], Guard(p), admitted[File(p)])
    BY <1>1 DEF Knows, At
  <1> QED BY <1>3, <1>4 DEF Refused, OnDay

\* In every reachable state the lockfiles sum up what they have recorded.
LEMMA SpecInv == Spec => []Inv
  BY InitInv, StepInv, PTL DEF Spec

-----------------------------------------------------------------------------
\* The variables keep their types, and a process at work is at a guard of its
\* channel (engine/rate_limit.py RateLimitGuard).
THEOREM TypeCorrect == Spec => []TypeOK
  <1>1. Inv => TypeOK
    BY DEF Inv
  <1> QED BY <1>1, SpecInv, PTL

\* No day sees more sends recorded in a lockfile than the limit of the guard that
\* let the last of them pass, as long as no record was lost.
THEOREM QuotaKept == Spec => []DailyQuota
  <1>1. Inv => DailyQuota
    BY DEF Inv
  <1> QED BY <1>1, SpecInv, PTL

\* Recorded sends of a lockfile are min_interval apart, across midnight too.
THEOREM SpacingKept == Spec => []RecordSpacing
  <1>1. Inv => RecordSpacing
    BY DEF Inv
  <1> QED BY <1>1, SpecInv, PTL

\* A refused sender met recorded sends that used up the quota of the day, or one
\* that was too recent.
THEOREM RefusalsJustified == Spec => []RefusalJustified
  BY InvRefusal, SpecInv, PTL

=============================================================================

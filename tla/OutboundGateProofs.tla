------------------------- MODULE OutboundGateProofs -------------------------
(***************************************************************************)
(* The safety properties of OutboundGate for any number of calls, threads, *)
(* keys, addresses and configurations.  They follow from an invariant that *)
(* says of each call that what it holds is backed by what it has read, in  *)
(* which order it delivers, and what its results tell.                     *)
(***************************************************************************)
EXTENDS OutboundGate, TLAPS

\* The stages in which submit reads the files, passes the limit and dispatches.
Working == {"resolve", "policy", "identity", "evaluate", "limit", "dispatch"}

\* A configuration that was current during the call gave the address, ...
TargetSeen(j, a) ==
    IF j.key \in Refs THEN a \in Directory[j.key]
    ELSE \E s \in j.window :
            /\ s.targets # Unreadable
            /\ \E i \in DOMAIN s.targets[j.key] : s.targets[j.key][i] = a

\* ... allowed the key on the channel, ...
PolicySeen(j) ==
    \E s \in j.window : s.policy # Unreadable /\ <<j.key, j.channel>> \in s.policy

\* ... and let the address pass.
GatewaySeen(j, a) == \E s \in j.window : <<j.channel, a>> \in s.gateway

\* What a call knows and has in its hands is backed by what it has read.
Backed(j) ==
    /\ \A i \in DOMAIN j.target : TargetSeen(j, j.target[i])
    /\ j.pc \in {"identity", "evaluate"} =>
          \E s \in j.window : s.policy # Unreadable /\ j.policy = s.policy
    /\ j.allowed => /\ PolicySeen(j)
                    /\ \A i \in DOMAIN j.target : GatewaySeen(j, j.target[i])

\* What has left the call or was charged came after the checks.
Ordered(j) ==
    /\ j.direct => j.pc \in {"direct", "done", "failed", "killed"} /\ ~j.allowed /\ ~j.charged
    /\ j.pc = "direct" => j.direct
    /\ j.allowed => j.pc \in {"limit", "dispatch", "audit"}
    /\ j.sent # <<>> => j.direct \/ j.pc \in {"dispatch", "audit"}
    /\ j.sent # <<>> /\ ~j.direct => j.allowed /\ ~j.dry
    /\ j.charged => j.allowed /\ ~j.dry /\ j.pc \in {"dispatch", "audit"}
    /\ j.pc \in {"limit", "dispatch"} => j.allowed /\ ~j.dry
    /\ j.pc = "dispatch" \/ (j.sent # <<>> /\ ~j.direct) =>
          (j.channel \in Limited => j.charged)

\* The results and the deliveries are those of the first targets.
Told(j) ==
    /\ Len(j.results) <= Len(j.target)
    /\ ~j.direct => \A i \in DOMAIN j.sent : \E k \in DOMAIN j.target : j.sent[i] = j.target[k]
    /\ \A i \in DOMAIN j.results :
          j.results[i] = "sent" => \E k \in DOMAIN j.sent : j.sent[k] = j.target[i]
    /\ j.pc \in {"limit", "dispatch"} => Len(j.results) < Len(j.target)
    /\ j.pc \in Working => ~j.failed
    /\ j.pc \in Working \ {"dispatch"} => j.results = <<>>
    /\ j.pc = "audit" /\ j.allowed /\ ~j.dry /\ ~j.failed => Len(j.results) = Len(j.target)

\* A call that is under way has seen the files as they are now.
Watching == \A c \in Calls : call[c].pc \in Working => config \in call[c].window

Inv ==
    /\ TypeOK /\ NoBypass /\ Watching
    /\ \A c \in Calls : Backed(call[c]) /\ Ordered(call[c]) /\ Told(call[c])

-----------------------------------------------------------------------------
\* What a call becomes is all that changes in call.
LEMMA Became ==
    ASSUME call \in [Calls -> Call], NEW c \in Calls, NEW j \in Call, Become(c, j)
    PROVE  /\ call' \in [Calls -> Call]
           /\ call'[c] = j
           /\ \A d \in Calls \ {c} : call'[d] = call[d]
  BY DEF Become

\* The record of a call that has not begun is one of Call.
LEMMA NewIsCall ==
    /\ NewCall \in Call /\ NewCall.pc = "new"
    /\ NewCall.target = <<>> /\ NewCall.results = <<>> /\ NewCall.sent = <<>>
    /\ NewCall.window = {} /\ NewCall.policy = Unreadable
    /\ NewCall.direct = FALSE /\ NewCall.allowed = FALSE /\ NewCall.charged = FALSE
    /\ NewCall.failed = FALSE /\ NewCall.logged = FALSE /\ NewCall.dry = FALSE
  <1>1. (CHOOSE t \in Threads : TRUE) \in Threads
    BY NamesAssumption
  <1>2. (CHOOSE k \in Keys : TRUE) \in Keys
    BY NamesAssumption
  <1>3. (CHOOSE c \in Channels : TRUE) \in Channels
    BY NamesAssumption
  <1> QED BY <1>1, <1>2, <1>3 DEF NewCall, Call, Stages

\* dispatch_to_channel: an answer with a message id means that the message went.
LEMMA RoutedAnswers ==
    ASSUME NEW c \in Calls, NEW a, NEW delivered \in BOOLEAN,
           <<"sent", delivered>> \in Routed(c, a)
    PROVE  delivered
  BY DEF Routed, Answers, Sent, Failure, GuardedSend, SlackPost, SendEmail, SendText

\* A step of one call that touches neither files nor flags, of a call that does
\* not hold the gate open, keeps the invariant when its new record does.
LEMMA Quiet ==
    ASSUME Inv, NEW c \in Calls, NEW j \in Call, Become(c, j), 
           UNCHANGED <<config, edits, emergency, active>>,
           Backed(j), Ordered(j), Told(j),
           j.pc \in Working => config \in j.window,
           ~At(c, "dispatch"),
           \/ j.pc \in {"new"} \cup Ended
           \/ Running(c) /\ j.thread = call[c].thread
           \/ Free(j.thread),
           j.direct /\ j.sent # <<>> => emergency
    PROVE  Inv'
  <1>1. call \in [Calls -> Call]
    BY DEF Inv, TypeOK
  <1>2. /\ call' \in [Calls -> Call] /\ call'[c] = j
        /\ \A d \in Calls \ {c} : call'[d] = call[d]
    BY <1>1, Became
  <1>3. UNCHANGED <<config, edits, emergency, active>>
    OBVIOUS
  <1>4. TypeOK'
    <2>1. ASSUME NEW d \in Calls, NEW e \in Calls, d # e, Running(d)', Running(e)'
          PROVE  call'[d].thread # call'[e].thread
      BY <1>2, <2>1 DEF Inv, TypeOK, Running, Free, Ended
    <2>2. ASSUME NEW t \in Threads, active[t]
          PROVE  \E d \in Calls : call'[d].pc = "dispatch" /\ call'[d].thread = t
      BY <1>2, <2>2 DEF Inv, TypeOK, At
    <2> QED BY <1>2, <1>3, <2>1, <2>2 DEF Inv, TypeOK, At
  <1>5. NoBypass'
    BY <1>2, <1>3 DEF Inv, NoBypass
  <1>6. Watching'
    BY <1>2, <1>3 DEF Inv, Watching
  <1>7. \A d \in Calls : Backed(call'[d]) /\ Ordered(call'[d]) /\ Told(call'[d])
    BY <1>2 DEF Inv
  <1> QED BY <1>4, <1>5, <1>6, <1>7 DEF Inv

\* What the invariant says of one call.
LEMMA Known ==
    ASSUME Inv, NEW c \in Calls
    PROVE  call[c] \in Call /\ Backed(call[c]) /\ Ordered(call[c]) /\ Told(call[c])
  BY DEF Inv, TypeOK

\* Deny: a call denied before its dispatch has neither delivered nor charged.
LEMMA DenyInv ==
    ASSUME Inv, NEW c \in Calls, Deny(c), call[c].pc \in Working \ {"dispatch"},
           UNCHANGED <<config, edits, emergency, active>>
    PROVE  Inv'
  <1> DEFINE j == [NewCall EXCEPT !.pc = "audit", !.thread = call[c].thread,
                                  !.charged = call[c].charged, !.sent = call[c].sent]
  <1>1. /\ call[c] \in Call /\ call[c].thread \in Threads
        /\ call[c].charged = FALSE /\ call[c].sent = <<>>
    <2>1. call[c] \in Call /\ Ordered(call[c])
      BY Known
    <2>2. call[c].charged \in BOOLEAN /\ call[c].thread \in Threads
      BY <2>1 DEF Call
    <2> QED BY <2>1, <2>2 DEF Ordered, Working
  <1>2. /\ j \in Call /\ j.pc = "audit" /\ j.thread = call[c].thread
        /\ j.target = <<>> /\ j.results = <<>> /\ j.sent = <<>>
        /\ j.direct = FALSE /\ j.allowed = FALSE /\ j.charged = FALSE
    <2>1. /\ NewCall \in Call /\ "audit" \in Stages /\ <<>> \in Seq(Addresses)
          /\ NewCall.target = <<>> /\ NewCall.results = <<>>
          /\ NewCall.direct = FALSE /\ NewCall.allowed = FALSE
      BY NewIsCall DEF Stages
    <2> HIDE DEF NewCall
    <2> QED BY <1>1, <2>1 DEF Call
  <1>3. Become(c, j) /\ Running(c) /\ ~At(c, "dispatch")
    BY DEF Deny, Running, Working, Ended, At
  <1> HIDE DEF j
  <1>4. Backed(j) /\ Ordered(j) /\ Told(j)
    BY <1>2 DEF Backed, Ordered, Told, Working
  <1> QED BY <1>2, <1>3, <1>4, Quiet DEF Working

\* End: of a call that is over only a direct delivery is remembered, for a call
\* of submit that raises has delivered nothing.
LEMMA EndInv ==
    ASSUME Inv, NEW c \in Calls, NEW stage \in Ended, NEW sent \in Seq(Addresses),
           NEW logged \in BOOLEAN,
           Become(c, [End(c, stage, sent) EXCEPT !.logged = logged]),
           ~At(c, "dispatch"),
           call[c].direct /\ sent # <<>> => emergency,
           stage = "failed" /\ ~call[c].direct => sent = <<>>,
           UNCHANGED <<config, edits, emergency, active>>
    PROVE  Inv'
  <1> DEFINE kept == IF call[c].direct \/ stage = "failed" THEN sent ELSE <<>>
             j == [End(c, stage, sent) EXCEPT !.logged = logged]
  <1>1. call[c] \in Call /\ call[c].direct \in BOOLEAN
    BY Known DEF Call
  <1>2. /\ kept \in Seq(Addresses) /\ (kept # <<>> => call[c].direct /\ emergency)
    OBVIOUS
  <1> HIDE DEF kept
  <1>3. /\ j \in Call /\ j.pc \in Ended /\ j.direct = call[c].direct /\ j.sent = kept
        /\ j.target = <<>> /\ j.results = <<>>
        /\ j.allowed = FALSE /\ j.charged = FALSE
    <2>1. j = [NewCall EXCEPT !.pc = stage, !.direct = call[c].direct, !.sent = kept,
                              !.logged = logged]
      BY DEF End, kept
    <2>2. /\ NewCall \in Call /\ stage \in Stages
          /\ NewCall.target = <<>> /\ NewCall.results = <<>>
          /\ NewCall.allowed = FALSE /\ NewCall.charged = FALSE
      BY NewIsCall DEF Stages, Ended
    <2> HIDE DEF j
    <2> QED BY <1>1, <1>2, <2>1, <2>2 DEF Call
  <1>4. Become(c, j)
    OBVIOUS
  <1> HIDE DEF j
  <1>5. Backed(j) /\ Ordered(j) /\ Told(j)
    BY <1>1, <1>2, <1>3 DEF Backed, Ordered, Told, Working, Ended
  <1> QED BY <1>1, <1>2, <1>3, <1>4, <1>5, Quiet DEF Working, Ended

\* Evaluate, CheckRate: an exception that nobody catches.
LEMMA FailInv ==
    ASSUME Inv, NEW c \in Calls, Become(c, End(c, "failed", call[c].sent)),
           call[c].pc \in {"evaluate", "limit"},
           UNCHANGED <<config, edits, emergency, active>>
    PROVE  Inv'
  <1>0. call[c].sent = <<>> /\ ~At(c, "dispatch")
    <2>1. Ordered(call[c])
      BY Known
    <2> QED BY <2>1 DEF Ordered, Ended, At
  <1>1. End(c, "failed", <<>>) = [End(c, "failed", <<>>) EXCEPT !.logged = FALSE]
    BY NewIsCall DEF End, Call
  <1>2. Become(c, [End(c, "failed", <<>>) EXCEPT !.logged = FALSE])
    BY <1>0, <1>1
  <1>3. "failed" \in Ended /\ <<>> \in Seq(Addresses) /\ FALSE \in BOOLEAN
    BY DEF Ended
  <1> HIDE DEF Become, End
  <1> QED BY <1>0, <1>2, <1>3, EndInv

\* Submit: a call begins on a free thread and watches the files from there on.
LEMMA SubmitInv ==
    ASSUME Inv, NEW c \in Calls, NEW t \in Threads, NEW k \in Keys, NEW ch \in Channels,
           Submit(c, t, k, ch)
    PROVE  Inv'
  <1>1. /\ ~At(c, "dispatch") /\ Free(t)
        /\ UNCHANGED <<config, edits, emergency, active>> /\ config \in Configs
    BY DEF Submit, Reading, Begins, At, Inv, TypeOK
  <1>2. CASE Become(c, [NewCall EXCEPT !.pc = "audit", !.thread = t])
    <2> DEFINE j == [NewCall EXCEPT !.pc = "audit", !.thread = t]
    <2>1. /\ j \in Call /\ j.pc = "audit" /\ j.thread = t
          /\ j.target = <<>> /\ j.results = <<>> /\ j.sent = <<>>
          /\ j.direct = FALSE /\ j.allowed = FALSE /\ j.charged = FALSE
      <3> HIDE DEF NewCall
      <3> QED BY NewIsCall DEF Call, Stages
    <2>2. Become(c, j)
      BY <1>2
    <2> HIDE DEF j
    <2>3. Backed(j) /\ Ordered(j) /\ Told(j)
      BY <2>1 DEF Backed, Ordered, Told, Working
    <2> QED BY <1>1, <2>1, <2>2, <2>3, Quiet DEF Working
  <1>3. ASSUME NEW dry \in BOOLEAN,
               Become(c, [NewCall EXCEPT !.pc = "resolve", !.thread = t, !.key = k,
                                         !.channel = ch, !.dry = dry, !.window = {config}])
        PROVE  Inv'
    <2> DEFINE j == [NewCall EXCEPT !.pc = "resolve", !.thread = t, !.key = k,
                                    !.channel = ch, !.dry = dry, !.window = {config}]
    <2>1. /\ j \in Call /\ j.pc = "resolve" /\ j.thread = t /\ j.window = {config} /\ j.failed = FALSE
          /\ j.target = <<>> /\ j.results = <<>> /\ j.sent = <<>>
          /\ j.direct = FALSE /\ j.allowed = FALSE /\ j.charged = FALSE
      <3> HIDE DEF NewCall
      <3> QED BY <1>1, NewIsCall DEF Call, Stages
    <2>2. Become(c, j)
      BY <1>3
    <2> HIDE DEF j
    <2>3. Backed(j) /\ Ordered(j) /\ Told(j)
      BY <2>1 DEF Backed, Ordered, Told, Working
    <2> QED BY <1>1, <2>1, <2>2, <2>3, Quiet DEF Working
  <1> QED BY <1>2, <1>3 DEF Submit

\* CallHandler: a direct call begins on a free thread.
LEMMA CallHandlerInv ==
    ASSUME Inv, NEW c \in Calls, NEW t \in Threads, NEW ch \in Channels, CallHandler(c, t, ch)
    PROVE  Inv'
  <1> DEFINE j == [NewCall EXCEPT !.pc = "direct", !.direct = TRUE, !.thread = t,
                                  !.channel = ch]
  <1>1. /\ ~At(c, "dispatch") /\ Free(t) /\ Become(c, j)
        /\ UNCHANGED <<config, edits, emergency, active>>
    BY DEF CallHandler, Reading, Begins, At
  <1>2. /\ j \in Call /\ j.pc = "direct" /\ j.thread = t /\ j.direct = TRUE
        /\ j.target = <<>> /\ j.results = <<>> /\ j.sent = <<>>
        /\ j.allowed = FALSE /\ j.charged = FALSE
    <2> HIDE DEF NewCall
    <2> QED BY NewIsCall DEF Call, Stages
  <1> HIDE DEF j
  <1>3. Backed(j) /\ Ordered(j) /\ Told(j)
    BY <1>2 DEF Backed, Ordered, Told, Working
  <1> QED BY <1>1, <1>2, <1>3, Quiet DEF Working

\* ResolveShared, ResolveDirect: the addresses were given while the call ran.
LEMMA ResolvedInv ==
    ASSUME Inv, NEW c \in Calls, At(c, "resolve"), NEW target \in Seq(Addresses),
           Resolved(c, target),
           \A i \in DOMAIN target : TargetSeen(call[c], target[i]),
           UNCHANGED <<config, edits, emergency, active>>
    PROVE  Inv'
  <1> DEFINE j == [call[c] EXCEPT !.pc = "policy", !.target = target]
  <1>1. /\ call[c] \in Call /\ call[c].pc = "resolve" /\ config \in call[c].window
        /\ Ordered(call[c]) /\ Told(call[c]) /\ call[c].results = <<>>
        /\ ~call[c].allowed
    <2>1. /\ call[c] \in Call /\ Ordered(call[c]) /\ Told(call[c]) /\ call[c].pc = "resolve"
      BY Known DEF At
    <2> QED BY <2>1 DEF Inv, Watching, Told, Working, Ordered
  <1>2. /\ j \in Call /\ j.pc = "policy" /\ j.target = target
        /\ j.thread = call[c].thread /\ j.window = call[c].window /\ j.key = call[c].key
        /\ j.channel = call[c].channel /\ j.results = call[c].results
        /\ j.sent = call[c].sent /\ j.direct = call[c].direct /\ j.allowed = call[c].allowed
        /\ j.charged = call[c].charged /\ j.dry = call[c].dry /\ j.failed = call[c].failed
    BY <1>1 DEF Call, Stages
  <1>3. Become(c, j) /\ Running(c) /\ ~At(c, "dispatch")
    BY <1>1 DEF Resolved, Running, Ended, At
  <1> HIDE DEF j
  <1>4. Backed(j)
    BY <1>1, <1>2 DEF Backed, TargetSeen
  <1>5. Ordered(j)
    BY <1>1, <1>2 DEF Ordered
  <1>6. Told(j)
    BY <1>1, <1>2 DEF Told, Ordered, Working, Call
  <1> QED BY <1>1, <1>2, <1>3, <1>4, <1>5, <1>6, Quiet DEF Ordered

\* RESOLVE of a shared key: load_targets and resolve_shared.
LEMMA ResolveSharedInv ==
    ASSUME Inv, NEW c \in Calls, ResolveShared(c)
    PROVE  Inv'
  <1>1. /\ At(c, "resolve") /\ call[c].key \notin Refs
        /\ UNCHANGED <<config, edits, emergency, active>>
        /\ call[c] \in Call /\ call[c].key \in Keys /\ config \in call[c].window
    BY Known DEF ResolveShared, Reading, Call, Inv, Watching, Working, At
  <1>2. CASE config.targets = Unreadable
    BY <1>1, <1>2, DenyInv DEF ResolveShared, Working, At
  <1>3. CASE config.targets # Unreadable
    <2> DEFINE target == config.targets[call[c].key]
    <2>1. config \in Config
      BY ConfigsAssumption DEF Inv, TypeOK
    <2>2. target \in Seq(Addresses) /\ Resolved(c, target)
      BY <1>1, <1>3, <2>1 DEF Config, ResolveShared
    <2>3. \A i \in DOMAIN target : TargetSeen(call[c], target[i])
      BY <1>1, <1>3 DEF TargetSeen
    <2> HIDE DEF target
    <2> QED BY <1>1, <2>2, <2>3, ResolvedInv
  <1> QED BY <1>2, <1>3

\* RESOLVE of a recipient_ref: the resolver of its prefix.
LEMMA ResolveDirectInv ==
    ASSUME Inv, NEW c \in Calls, ResolveDirect(c)
    PROVE  Inv'
  <1>1. /\ At(c, "resolve") /\ call[c].key \in Refs
        /\ UNCHANGED <<config, edits, emergency, active>>
    BY DEF ResolveDirect, Reading
  <1>2. CASE Deny(c)
    BY <1>1, <1>2, DenyInv DEF Working, At
  <1>3. ASSUME NEW a \in Directory[call[c].key], Resolved(c, <<a>>)
        PROVE  Inv'
    <2>1. <<a>> \in Seq(Addresses)
      BY <1>1, KeysAssumption
    <2>2. \A i \in DOMAIN <<a>> : TargetSeen(call[c], <<a>>[i])
      BY <1>1 DEF TargetSeen
    <2> QED BY <1>1, <1>3, <2>1, <2>2, ResolvedInv
  <1> QED BY <1>2, <1>3 DEF ResolveDirect

\* VERIFY: the call takes the policy as the file says now.
LEMMA LoadPolicyInv ==
    ASSUME Inv, NEW c \in Calls, LoadPolicy(c)
    PROVE  Inv'
  <1>1. /\ call[c] \in Call /\ call[c].pc = "policy" /\ config \in call[c].window
        /\ Backed(call[c]) /\ Ordered(call[c]) /\ Told(call[c])
        /\ UNCHANGED <<config, edits, emergency, active>>
    BY Known DEF LoadPolicy, Reading, At, Inv, Watching, Working
  <1>2. CASE config.policy = Unreadable
    BY <1>1, <1>2, DenyInv DEF LoadPolicy, Working
  <1>3. CASE config.policy # Unreadable
    <2> DEFINE j == [call[c] EXCEPT !.pc = "identity", !.policy = config.policy]
    <2>1. config.policy \in (SUBSET (Keys \X Channels)) \cup {Unreadable}
      BY ConfigsAssumption DEF Inv, TypeOK, Config
    <2>2. /\ j \in Call /\ j.pc = "identity" /\ j.policy = config.policy
          /\ j.target = call[c].target
          /\ j.thread = call[c].thread /\ j.window = call[c].window /\ j.key = call[c].key
          /\ j.channel = call[c].channel /\ j.results = call[c].results
          /\ j.sent = call[c].sent /\ j.direct = call[c].direct
          /\ j.allowed = call[c].allowed /\ j.charged = call[c].charged
          /\ j.dry = call[c].dry /\ j.failed = call[c].failed
      BY <1>1, <2>1 DEF Call, Stages
    <2>3. Become(c, j) /\ Running(c) /\ ~At(c, "dispatch")
      BY <1>1, <1>3 DEF LoadPolicy, Running, Ended, At
    <2> HIDE DEF j
    <2>4. Backed(j)
      BY <1>1, <1>3, <2>2 DEF Backed, TargetSeen, PolicySeen, GatewaySeen
    <2>5. Ordered(j)
      BY <1>1, <2>2 DEF Ordered
    <2>6. Told(j)
      BY <1>1, <2>2 DEF Told, Working
    <2> QED BY <1>1, <2>2, <2>3, <2>4, <2>5, <2>6, Quiet DEF Ordered
  <1> QED BY <1>2, <1>3

\* The live identity check can deny the call or find no match.
LEMMA VerifyIdentityInv ==
    ASSUME Inv, NEW c \in Calls, VerifyIdentity(c)
    PROVE  Inv'
  <1>1. /\ call[c] \in Call /\ call[c].pc = "identity" /\ config \in call[c].window
        /\ Backed(call[c]) /\ Ordered(call[c]) /\ Told(call[c])
        /\ UNCHANGED <<config, edits, emergency, active>>
    BY Known DEF VerifyIdentity, Reading, At, Inv, Watching, Working
  <1>2. ASSUME NEW matched \in BOOLEAN,
               Become(c, [call[c] EXCEPT !.pc = "evaluate", !.matched = matched])
        PROVE  Inv'
    <2> DEFINE j == [call[c] EXCEPT !.pc = "evaluate", !.matched = matched]
    <2>2. /\ j \in Call /\ j.pc = "evaluate" /\ j.policy = call[c].policy
          /\ j.target = call[c].target
          /\ j.thread = call[c].thread /\ j.window = call[c].window /\ j.key = call[c].key
          /\ j.channel = call[c].channel /\ j.results = call[c].results
          /\ j.sent = call[c].sent /\ j.direct = call[c].direct
          /\ j.allowed = call[c].allowed /\ j.charged = call[c].charged
          /\ j.dry = call[c].dry /\ j.failed = call[c].failed
      BY <1>1 DEF Call, Stages
    <2>3. Become(c, j) /\ Running(c) /\ ~At(c, "dispatch")
      BY <1>1, <1>2 DEF Running, Ended, At
    <2> HIDE DEF j
    <2>4. Backed(j)
      BY <1>1, <2>2 DEF Backed, TargetSeen, PolicySeen, GatewaySeen
    <2>5. Ordered(j)
      BY <1>1, <2>2 DEF Ordered
    <2>6. Told(j)
      BY <1>1, <2>2 DEF Told, Working
    <2> QED BY <1>1, <2>2, <2>3, <2>4, <2>5, <2>6, Quiet DEF Ordered
  <1>3. CASE Goto(c, "evaluate")
    <2>1. [call[c] EXCEPT !.pc = "evaluate"]
            = [call[c] EXCEPT !.pc = "evaluate", !.matched = call[c].matched]
      BY <1>1 DEF Call
    <2>2. call[c].matched \in BOOLEAN
      BY <1>1 DEF Call
    <2> QED BY <1>2, <1>3, <2>1, <2>2 DEF Goto
  <1>4. CASE Deny(c)
    BY <1>1, <1>4, DenyInv DEF Working
  <1>5. CASE Become(c, [call[c] EXCEPT !.pc = "evaluate", !.matched = FALSE])
    BY <1>2, <1>5
  <1> QED BY <1>3, <1>4, <1>5 DEF VerifyIdentity

\* A step that lets a call go on with its verdict, its addresses and its key.
LEMMA OnwardInv ==
    ASSUME Inv, NEW c \in Calls, NEW j \in Call, Become(c, j),
           UNCHANGED <<config, edits, emergency, active>>,
           call[c].pc \in {"evaluate", "limit"},
           j.pc \in {"limit", "dispatch", "audit"},
           j.allowed, j.pc = "audit" <=> j.dry, j.target # <<>>,
           j.pc = "dispatch" => (j.channel \in Limited => j.charged),
           j.charged => j.pc = "dispatch",
           PolicySeen(j), \A i \in DOMAIN j.target : GatewaySeen(j, j.target[i]),
           j.key = call[c].key, j.channel = call[c].channel, j.window = call[c].window,
           j.target = call[c].target, j.thread = call[c].thread,
           j.results = call[c].results, j.sent = call[c].sent, j.direct = call[c].direct,
           j.failed = call[c].failed, ~j.failed
    PROVE  Inv'
  <1>1. /\ call[c] \in Call /\ config \in call[c].window
        /\ Backed(call[c]) /\ Ordered(call[c]) /\ Told(call[c])
    BY Known DEF Inv, Watching, Working
  <1>2. Running(c) /\ ~At(c, "dispatch")
    BY DEF Running, Ended, At
  <1>3. j.direct = FALSE /\ j.sent = <<>> /\ j.results = <<>>
    <2>1. call[c].direct \in BOOLEAN
      BY <1>1 DEF Call
    <2> QED BY <1>1, <2>1 DEF Ordered, Told, Working
  <1>4. Backed(j)
    BY <1>1 DEF Backed, TargetSeen
  <1>5. Ordered(j)
    BY <1>3 DEF Ordered
  <1>6. j.target \in Seq(Addresses) /\ Len(j.target) > 0
    BY DEF Call
  <1>7. Told(j)
    BY <1>3, <1>6 DEF Told, Working
  <1> QED BY <1>1, <1>2, <1>3, <1>4, <1>5, <1>7, Quiet

\* Evaluate: what the checks let pass is backed by the policy that was read
\* and by the gateway configuration as it is.
LEMMA EvaluateInv ==
    ASSUME Inv, NEW c \in Calls, Evaluate(c)
    PROVE  Inv'
  <1>1. /\ call[c] \in Call /\ call[c].pc = "evaluate" /\ config \in call[c].window
        /\ Backed(call[c]) /\ Ordered(call[c]) /\ Told(call[c])
        /\ UNCHANGED <<config, edits, emergency, active>>
    BY Known DEF Evaluate, Reading, At, Inv, Watching, Working
  <1>2. CASE Deny(c)
    BY <1>1, <1>2, DenyInv DEF Working
  <1>3. CASE Become(c, End(c, "failed", call[c].sent))
    BY <1>1, <1>3, FailInv
  <1> DEFINE stage == IF call[c].dry THEN "audit"
                      ELSE IF call[c].channel \in Limited THEN "limit" ELSE "dispatch"
             j == [call[c] EXCEPT !.allowed = TRUE, !.policy = Unreadable, !.pc = stage]
  <1>4. CASE /\ call[c].target # <<>>
             /\ <<call[c].key, call[c].channel>> \in call[c].policy
             /\ Enabled(call[c].channel, call[c].target, config.gateway)
             /\ Become(c, j)
    <2>1. /\ stage \in {"limit", "dispatch", "audit"} /\ (stage = "audit" <=> call[c].dry)
          /\ stage = "dispatch" => call[c].channel \notin Limited
      OBVIOUS
    <2> HIDE DEF stage
    <2>2. /\ j \in Call /\ j.pc = stage /\ j.allowed = TRUE
          /\ j.target = call[c].target
          /\ j.thread = call[c].thread /\ j.window = call[c].window /\ j.key = call[c].key
          /\ j.channel = call[c].channel /\ j.results = call[c].results
          /\ j.sent = call[c].sent /\ j.direct = call[c].direct
          /\ j.charged = call[c].charged
          /\ j.dry = call[c].dry /\ j.failed = call[c].failed
      BY <1>1, <2>1 DEF Call, Stages
    <2>3. Become(c, j)
      BY <1>4
    <2> HIDE DEF j
    <2>4. PolicySeen(j)
      BY <1>1, <1>4, <2>2 DEF Backed, PolicySeen
    <2>5. \A i \in DOMAIN j.target : GatewaySeen(j, j.target[i])
      BY <1>1, <1>4, <2>2 DEF Enabled, GatewaySeen
    <2>6. call[c].charged = FALSE /\ call[c].failed = FALSE
      <3>1. call[c].charged \in BOOLEAN /\ call[c].failed \in BOOLEAN
        BY <1>1 DEF Call
      <3> QED BY <1>1, <3>1 DEF Ordered, Told, Working
    <2>7. /\ call[c].pc \in {"evaluate", "limit"}
          /\ j.pc \in {"limit", "dispatch", "audit"} /\ j.allowed /\ ~j.failed
      BY <1>1, <2>1, <2>2, <2>6
    <2>8. /\ j.pc = "audit" <=> j.dry
          /\ j.pc = "dispatch" => (j.channel \in Limited => j.charged)
          /\ j.charged => j.pc = "dispatch"
      BY <2>1, <2>2, <2>6
    <2> QED BY <1>1, <1>4, <2>2, <2>3, <2>4, <2>5, <2>7, <2>8, OnwardInv
  <1> HIDE DEF stage, j
  <1> QED BY <1>2, <1>3, <1>4 DEF Evaluate, stage, j

\* CheckRate: the call goes on charged, or ends undelivered and uncharged.
LEMMA CheckRateInv ==
    ASSUME Inv, NEW c \in Calls, CheckRate(c)
    PROVE  Inv'
  <1>1. /\ call[c] \in Call /\ call[c].pc = "limit"
        /\ Backed(call[c]) /\ Ordered(call[c]) /\ Told(call[c])
        /\ UNCHANGED <<config, edits, emergency, active>>
    BY Known DEF CheckRate, Reading, At
  <1> DEFINE j == [call[c] EXCEPT !.pc = "dispatch", !.charged = TRUE]
  <1>2. CASE Become(c, j)
    <2>1. /\ j \in Call /\ j.pc = "dispatch" /\ j.allowed = call[c].allowed
          /\ j.target = call[c].target
          /\ j.thread = call[c].thread /\ j.window = call[c].window /\ j.key = call[c].key
          /\ j.channel = call[c].channel /\ j.results = call[c].results
          /\ j.sent = call[c].sent /\ j.direct = call[c].direct /\ j.charged = TRUE
          /\ j.dry = call[c].dry /\ j.failed = call[c].failed
      BY <1>1 DEF Call, Stages
    <2>2. Become(c, j)
      BY <1>2
    <2> HIDE DEF j
    <2>3. PolicySeen(j) /\ \A i \in DOMAIN j.target : GatewaySeen(j, j.target[i])
      BY <1>1, <2>1 DEF Backed, Ordered, PolicySeen, GatewaySeen
    <2>4. /\ call[c].allowed = TRUE /\ call[c].dry = FALSE /\ call[c].failed = FALSE
          /\ call[c].target # <<>>
      <3>1. /\ call[c].allowed \in BOOLEAN /\ call[c].dry \in BOOLEAN
            /\ call[c].failed \in BOOLEAN /\ call[c].results \in Seq(Answers)
        BY <1>1 DEF Call
      <3>2. Len(call[c].results) \in Nat /\ Len(call[c].results) < Len(call[c].target)
        BY <1>1, <3>1 DEF Told
      <3> QED BY <1>1, <3>1, <3>2 DEF Ordered, Told, Working
    <2>5. /\ call[c].pc \in {"evaluate", "limit"}
          /\ j.pc \in {"limit", "dispatch", "audit"} /\ j.allowed /\ ~j.failed
      BY <1>1, <2>1, <2>4
    <2>6. /\ j.pc = "audit" <=> j.dry
          /\ j.pc = "dispatch" => (j.channel \in Limited => j.charged)
          /\ j.charged => j.pc = "dispatch"
      BY <2>1, <2>4
    <2> QED BY <1>1, <2>1, <2>2, <2>3, <2>4, <2>5, <2>6, OnwardInv
  <1>3. CASE Deny(c)
    BY <1>1, <1>3, DenyInv DEF Working
  <1>4. CASE Become(c, End(c, "failed", call[c].sent))
    BY <1>1, <1>4, FailInv
  <1> HIDE DEF j
  <1> QED BY <1>2, <1>3, <1>4 DEF CheckRate, j

\* OpenGate: the thread of the call that dispatches is marked.
LEMMA OpenGateInv ==
    ASSUME Inv, NEW c \in Calls, OpenGate(c)
    PROVE  Inv'
  <1>1. /\ call[c].pc = "dispatch" /\ UNCHANGED <<config, edits, emergency, call>>
        /\ active' = [active EXCEPT ![call[c].thread] = TRUE]
    BY DEF OpenGate, At
  <1>2. TypeOK'
    <2>1. active' \in [Threads -> BOOLEAN]
      BY <1>1 DEF Inv, TypeOK
    <2>2. ASSUME NEW t \in Threads, active'[t]
          PROVE  \E d \in Calls : call[d].pc = "dispatch" /\ call[d].thread = t
      BY <1>1, <2>2 DEF Inv, TypeOK, At
    <2> QED BY <1>1, <2>1, <2>2 DEF Inv, TypeOK, At, Running
  <1>3. NoBypass' /\ Watching'
    BY <1>1 DEF Inv, NoBypass, Watching
  <1>4. \A d \in Calls : Backed(call'[d]) /\ Ordered(call'[d]) /\ Told(call'[d])
    BY <1>1 DEF Inv
  <1> QED BY <1>2, <1>3, <1>4 DEF Inv

\* Audit: the call returns its verdict.
LEMMA AuditInv ==
    ASSUME Inv, NEW c \in Calls, Audit(c)
    PROVE  Inv'
  <1>1. PICK logged \in BOOLEAN : Become(c, [End(c, "done", <<>>) EXCEPT !.logged = logged])
    BY DEF Audit
  <1>2. ~At(c, "dispatch") /\ UNCHANGED <<config, edits, emergency, active>>
    BY DEF Audit, Reading, At
  <1>3. "done" \in Ended /\ <<>> \in Seq(Addresses)
    BY DEF Ended
  <1> HIDE DEF Become, End
  <1> QED BY <1>1, <1>2, <1>3, EndInv

\* Handle: outside the gate nothing but an emergency lets a guarded handler
\* deliver, for the flag of the thread belongs to a call that dispatches on it.
LEMMA HandleInv ==
    ASSUME Inv, NEW c \in Calls, Handle(c)
    PROVE  Inv'
  <1>p. PICK a \in Addresses, answer \in Answers, delivered \in BOOLEAN :
          /\ <<answer, delivered>> \in GuardedSend(call[c].thread)
          /\ Become(c, End(c, IF answer = "raise" THEN "failed" ELSE "done",
                           IF delivered THEN <<a>> ELSE <<>>))
    BY DEF Handle
  <1> DEFINE stage == IF answer = "raise" THEN "failed" ELSE "done"
             sent == IF delivered THEN <<a>> ELSE <<>>
  <1>1. /\ call[c] \in Call /\ call[c].pc = "direct" /\ ~At(c, "dispatch")
        /\ UNCHANGED <<config, edits, emergency, active>>
    BY Known DEF Handle, Reading, At
  <1>2. active[call[c].thread] = FALSE
    <2>1. call[c].thread \in Threads
      BY <1>1 DEF Call
    <2>2. active[call[c].thread] \in BOOLEAN
      BY <2>1 DEF Inv, TypeOK
    <2>3. ASSUME NEW d \in Calls, At(d, "dispatch"), call[d].thread = call[c].thread
          PROVE  FALSE
      BY <1>1, <2>3 DEF Inv, TypeOK, Running, Ended, At
    <2> QED BY <2>1, <2>2, <2>3 DEF Inv, TypeOK
  <1>3. delivered => emergency
    BY <1>p, <1>2 DEF GuardedSend, Opens
  <1>4. /\ stage \in Ended /\ sent \in Seq(Addresses) /\ (sent # <<>> => emergency)
    BY <1>3 DEF Ended
  <1>5. Become(c, End(c, stage, sent))
    BY <1>p
  <1> HIDE DEF stage, sent
  <1>6. End(c, stage, sent) = [End(c, stage, sent) EXCEPT !.logged = FALSE]
    BY NewIsCall DEF End, Call
  <1>7. Become(c, [End(c, stage, sent) EXCEPT !.logged = FALSE])
    BY <1>5, <1>6
  <1> HIDE DEF Become, End
  <1>8. FALSE \in BOOLEAN
    OBVIOUS
  <1>9. call[c].direct
    BY <1>1, Known DEF Ordered
  <1> QED BY <1>1, <1>4, <1>7, <1>8, <1>9, EndInv

\* dispatch_to_channel for the next address: the call keeps a result for each
\* address so far, an answer "sent" stands for a delivery to its address, and
\* the flag is reset with the last address or an exception.
LEMMA DispatchInv ==
    ASSUME Inv, NEW c \in Calls, Dispatch(c)
    PROVE  Inv'
  <1> DEFINE old == call[c]
             n == Len(old.results) + 1
             next == old.target[n]
  <1>p. PICK answer \in Answers, delivered \in BOOLEAN :
          LET last == answer = "raise" \/ n = Len(old.target) IN
          /\ <<answer, delivered>> \in Routed(c, next)
          /\ Become(c, [old EXCEPT !.pc = IF last THEN "audit" ELSE "dispatch",
                                   !.sent = IF delivered THEN Append(@, next) ELSE @,
                                   !.results = IF answer = "raise" THEN <<>> ELSE Append(@, answer),
                                   !.failed = answer = "raise"])
          /\ active' = [active EXCEPT ![old.thread] = ~last]
    BY DEF Dispatch
  <1> DEFINE last == answer = "raise" \/ n = Len(old.target)
             stage == IF last THEN "audit" ELSE "dispatch"
             sent == IF delivered THEN Append(old.sent, next) ELSE old.sent
             results == IF answer = "raise" THEN <<>> ELSE Append(old.results, answer)
             failed == answer = "raise"
             j == [old EXCEPT !.pc = stage, !.sent = sent, !.results = results,
                              !.failed = failed]
  <1>0. /\ answer \in Answers /\ delivered \in BOOLEAN /\ (answer = "sent" => delivered)
    BY <1>p, RoutedAnswers
  <1>1. /\ Become(c, j) /\ active' = [active EXCEPT ![old.thread] = ~last]
        /\ UNCHANGED <<config, edits, emergency>>
    BY <1>p DEF Dispatch
  <1>2. /\ old \in Call /\ old.pc = "dispatch" /\ At(c, "dispatch")
        /\ Backed(old) /\ Ordered(old) /\ Told(old)
    BY Known DEF Dispatch, At
  <1>3. /\ old.target \in Seq(Addresses) /\ old.sent \in Seq(Addresses)
        /\ old.results \in Seq(Answers) /\ old.thread \in Threads
        /\ old.direct \in BOOLEAN /\ old.allowed \in BOOLEAN /\ old.dry \in BOOLEAN
    BY <1>2 DEF Call
  <1>4. /\ old.direct = FALSE /\ old.allowed = TRUE /\ old.dry = FALSE
        /\ old.channel \in Limited => old.charged
    BY <1>2, <1>3 DEF Ordered
  <1> HIDE DEF old
  <1>5. /\ Len(old.results) < Len(old.target) /\ Len(old.results) \in Nat
        /\ Len(old.target) \in Nat
    BY <1>2, <1>3 DEF Told
  <1>6. n \in DOMAIN old.target /\ next \in Addresses
    BY <1>3, <1>5
  <1>7. /\ sent \in Seq(Addresses) /\ results \in Seq(Answers)
        /\ stage \in {"audit", "dispatch"} /\ failed \in BOOLEAN
    BY <1>0, <1>3, <1>6
  <1>8. \A i \in DOMAIN sent : \E k \in DOMAIN old.target : sent[i] = old.target[k]
    <2>1. \A i \in DOMAIN old.sent : \E k \in DOMAIN old.target : old.sent[i] = old.target[k]
      BY <1>2, <1>4 DEF Told
    <2> QED BY <1>3, <1>6, <2>1
  <1>9. \A i \in DOMAIN results :
          results[i] = "sent" => \E k \in DOMAIN sent : sent[k] = old.target[i]
    <2> SUFFICES ASSUME NEW i \in DOMAIN results, results[i] = "sent"
                 PROVE  \E k \in DOMAIN sent : sent[k] = old.target[i]
      OBVIOUS
    <2>1. \A k \in DOMAIN old.sent : k \in DOMAIN sent /\ sent[k] = old.sent[k]
      BY <1>3
    <2>2. results = Append(old.results, answer) /\ i \in 1 .. n
      BY <1>3
    <2>3. CASE i = n
      <3>1. results[n] = answer
        BY <1>3, <2>2
      <3>2. sent = Append(old.sent, next) /\ Len(old.sent) \in Nat
        BY <1>0, <1>3, <2>3, <3>1
      <3>3. Len(old.sent) + 1 \in DOMAIN sent /\ sent[Len(old.sent) + 1] = next
        BY <1>3, <3>2
      <3> HIDE DEF sent, results
      <3> QED BY <2>3, <3>3
    <2>4. CASE i # n
      <3>1. i \in DOMAIN old.results /\ old.results[i] = "sent"
        BY <1>3, <1>5, <2>2, <2>4
      <3>2. \E k \in DOMAIN old.sent : old.sent[k] = old.target[i]
        BY <1>2, <3>1 DEF Told
      <3> HIDE DEF sent, results
      <3> QED BY <2>1, <3>2
    <2> QED BY <2>3, <2>4
  <1>10. /\ Len(results) <= Len(old.target)
         /\ stage = "dispatch" => Len(results) < Len(old.target) /\ ~failed
         /\ stage = "audit" /\ ~failed => Len(results) = Len(old.target)
    <2>1. CASE answer = "raise"
      BY <1>5, <2>1
    <2>2. CASE answer # "raise"
      <3>1. Len(results) = n
        BY <1>3, <2>2
      <3> HIDE DEF results
      <3> QED BY <1>5, <2>2, <3>1
    <2> QED BY <2>1, <2>2
  <1>11. stage = "dispatch" <=> ~last
    OBVIOUS
  <1> HIDE DEF last, stage, sent, results, failed, next, n
  <1>12. /\ j \in Call /\ j.pc = stage /\ j.sent = sent /\ j.results = results
         /\ j.failed = failed /\ j.policy = old.policy
         /\ j.target = old.target /\ j.thread = old.thread /\ j.window = old.window
         /\ j.key = old.key /\ j.channel = old.channel /\ j.direct = old.direct
         /\ j.allowed = old.allowed /\ j.charged = old.charged /\ j.dry = old.dry
    BY <1>2, <1>7 DEF Call, Stages
  <1> HIDE DEF j
  <1>13. Backed(j)
    BY <1>2, <1>7, <1>12 DEF Backed, TargetSeen, PolicySeen, GatewaySeen
  <1>14. Ordered(j)
    BY <1>2, <1>4, <1>7, <1>12 DEF Ordered
  <1>15. Told(j)
    BY <1>4, <1>7, <1>8, <1>9, <1>10, <1>12 DEF Told, Working
  <1>16. /\ call' \in [Calls -> Call] /\ call'[c] = j
         /\ \A d \in Calls \ {c} : call'[d] = call[d]
    BY <1>1, <1>12, Became DEF Inv, TypeOK
  <1>17. TypeOK'
    <2>1. active' \in [Threads -> BOOLEAN]
      <3>1. (~last) \in BOOLEAN
        BY Zenon
      <3> QED BY <1>1, <3>1 DEF Inv, TypeOK
    <2>2. ASSUME NEW d \in Calls, NEW e \in Calls, d # e, Running(d)', Running(e)'
          PROVE  call'[d].thread # call'[e].thread
      BY <1>2, <1>12, <1>16, <2>2 DEF Inv, TypeOK, Running, Ended, old
    <2>3. ASSUME NEW t \in Threads, active'[t]
          PROVE  \E d \in Calls : call'[d].pc = "dispatch" /\ call'[d].thread = t
      <3>1. CASE t = old.thread
        BY <1>1, <1>3, <1>11, <1>12, <1>16, <2>3, <3>1 DEF Inv, TypeOK
      <3>2. CASE t # old.thread
        <4>1. active[t]
          BY <1>1, <2>3, <3>2 DEF Inv, TypeOK
        <4>2. PICK d \in Calls : call[d].pc = "dispatch" /\ call[d].thread = t
          BY <4>1 DEF Inv, TypeOK, At
        <4>3. d # c
          BY <3>2, <4>2 DEF old
        <4> QED BY <1>16, <4>2, <4>3
      <3> QED BY <3>1, <3>2
    <2> QED BY <1>1, <1>16, <2>1, <2>2, <2>3 DEF Inv, TypeOK, At
  <1>18. NoBypass'
    BY <1>1, <1>4, <1>12, <1>16 DEF Inv, NoBypass
  <1>19. Watching'
    BY <1>1, <1>2, <1>12, <1>16 DEF Inv, Watching, Working, old
  <1>20. \A d \in Calls : Backed(call'[d]) /\ Ordered(call'[d]) /\ Told(call'[d])
    BY <1>13, <1>14, <1>15, <1>16 DEF Inv
  <1> QED BY <1>17, <1>18, <1>19, <1>20 DEF Inv

\* Edit: what a call has seen it has seen, whatever the files say now.
LEMMA EditInv ==
    ASSUME Inv, Edit
    PROVE  Inv'
  <1>p. PICK new \in Configs \ {config} :
          /\ config' = new
          /\ call' = [c \in Calls |-> IF call[c].window # {}
                                      THEN [call[c] EXCEPT !.window = @ \cup {new}]
                                      ELSE call[c]]
    BY DEF Edit
  <1>1. /\ new \in Configs /\ config' = new /\ edits' = edits + 1 /\ edits < MaxEdits
        /\ UNCHANGED <<emergency, active>>
    BY <1>p DEF Edit
  <1>2. ASSUME NEW c \in Calls
        PROVE  /\ call'[c] \in Call /\ call[c].window \subseteq call'[c].window
               /\ (call[c].window # {} => new \in call'[c].window)
               /\ call'[c].pc = call[c].pc /\ call'[c].direct = call[c].direct
               /\ call'[c].thread = call[c].thread /\ call'[c].key = call[c].key
               /\ call'[c].channel = call[c].channel /\ call'[c].dry = call[c].dry
               /\ call'[c].target = call[c].target /\ call'[c].policy = call[c].policy
               /\ call'[c].allowed = call[c].allowed /\ call'[c].results = call[c].results
               /\ call'[c].failed = call[c].failed /\ call'[c].sent = call[c].sent
               /\ call'[c].charged = call[c].charged
    <2>1. call[c] \in Call
      BY Known
    <2>2. CASE call[c].window # {}
      <3>1. call'[c] = [call[c] EXCEPT !.window = @ \cup {new}]
        BY <1>p, <2>2
      <3>2. call[c].window \cup {new} \in SUBSET Configs
        BY <1>1, <2>1 DEF Call
      <3> QED BY <2>1, <3>1, <3>2 DEF Call
    <2>3. CASE call[c].window = {}
      <3>1. call'[c] = call[c]
        BY <1>p, <2>3
      <3> QED BY <2>1, <2>3, <3>1
    <2> QED BY <2>2, <2>3
  <1>3. call' \in [Calls -> Call]
    <2>1. call' = [c \in Calls |-> call'[c]]
      BY <1>p
    <2> QED BY <1>2, <2>1
  <1>4. TypeOK'
    <2>1. edits' \in 0 .. MaxEdits
      BY <1>1, BoundsAssumption DEF Inv, TypeOK
    <2> QED BY <1>1, <1>2, <1>3, <2>1 DEF Inv, TypeOK, Running, Ended, At
  <1>5. NoBypass'
    BY <1>1, <1>2 DEF Inv, NoBypass
  <1>6. Watching'
    BY <1>1, <1>2 DEF Inv, Watching
  <1>7. ASSUME NEW c \in Calls
        PROVE  Backed(call'[c]) /\ Ordered(call'[c]) /\ Told(call'[c])
    <2>0. Backed(call[c]) /\ Ordered(call[c]) /\ Told(call[c])
      BY DEF Inv
    <2>1. Backed(call'[c])
      BY <1>2, <2>0 DEF Backed, TargetSeen, PolicySeen, GatewaySeen
    <2>2. Ordered(call'[c])
      BY <1>2, <2>0 DEF Ordered
    <2>3. Told(call'[c])
      BY <1>2, <2>0 DEF Told
    <2> QED BY <2>1, <2>2, <2>3
  <1> QED BY <1>4, <1>5, <1>6, <1>7 DEF Inv

\* Crash: no call of the process is left, and no flag of its threads.
LEMMA CrashInv ==
    ASSUME Inv, Crash
    PROVE  Inv'
  <1>1. /\ call' = [c \in Calls |-> IF Running(c) THEN End(c, "killed", <<>>) ELSE call[c]]
        /\ active' = [t \in Threads |-> FALSE]
        /\ UNCHANGED <<config, edits, emergency>>
    BY DEF Crash
  <1>2. ASSUME NEW c \in Calls
        PROVE  /\ call'[c] \in Call /\ call'[c].pc \in {"new"} \cup Ended
               /\ call'[c].direct /\ call'[c].sent # <<>> => emergency
               /\ Backed(call'[c]) /\ Ordered(call'[c]) /\ Told(call'[c])
    <2>0. /\ call[c] \in Call /\ Backed(call[c]) /\ Ordered(call[c]) /\ Told(call[c])
      BY Known
    <2>1. CASE Running(c)
      <3> DEFINE j == End(c, "killed", <<>>)
      <3>1. call[c].direct \in BOOLEAN
        BY <2>0 DEF Call
      <3>2. /\ j \in Call /\ j.pc = "killed" /\ j.sent = <<>>
            /\ j.target = <<>> /\ j.results = <<>>
            /\ j.allowed = FALSE /\ j.charged = FALSE
        <4>1. j = [NewCall EXCEPT !.pc = "killed", !.direct = call[c].direct, !.sent = <<>>]
          BY DEF End
        <4> HIDE DEF j, NewCall
        <4> QED BY <3>1, <4>1, NewIsCall DEF Call, Stages
      <3>3. call'[c] = j
        BY <1>1, <2>1
      <3> HIDE DEF j
      <3>4. Backed(j) /\ Ordered(j) /\ Told(j)
        BY <3>2 DEF Backed, Ordered, Told, Working
      <3> QED BY <3>2, <3>3, <3>4 DEF Ended
    <2>2. CASE ~Running(c)
      <3>1. call'[c] = call[c]
        BY <1>1, <2>2
      <3> QED BY <2>0, <2>2, <3>1 DEF Running, Inv, NoBypass
    <2> QED BY <2>1, <2>2
  <1>3. call' \in [Calls -> Call]
    <2>1. call' = [c \in Calls |-> call'[c]]
      BY <1>1
    <2> QED BY <1>2, <2>1
  <1>4. TypeOK'
    BY <1>1, <1>2, <1>3 DEF Inv, TypeOK, Running, Ended
  <1>5. NoBypass'
    BY <1>1, <1>2 DEF NoBypass
  <1>6. Watching'
    BY <1>2 DEF Watching, Working, Ended
  <1> QED BY <1>2, <1>4, <1>5, <1>6 DEF Inv

\* At the start there is no call and no flag is set.
LEMMA InitInv == Init => Inv
  <1> SUFFICES ASSUME Init
               PROVE  Inv
    OBVIOUS
  <1>1. \A c \in Calls : call[c] = NewCall
    BY DEF Init
  <1>2. Backed(NewCall) /\ Ordered(NewCall) /\ Told(NewCall)
    BY NewIsCall DEF Backed, Ordered, Told, Working
  <1>3. TypeOK
    BY <1>1, NewIsCall, BoundsAssumption DEF Init, TypeOK, Running, Ended
  <1>4. NoBypass /\ Watching
    BY <1>1, NewIsCall DEF NoBypass, Watching, Working
  <1> QED BY <1>1, <1>2, <1>3, <1>4 DEF Inv

\* Every step keeps the invariant.
LEMMA StepInv == Inv /\ [Next]_vars => Inv'
  <1> SUFFICES ASSUME Inv, [Next]_vars
               PROVE  Inv'
    OBVIOUS
  <1>1. ASSUME NEW c \in Calls, Start(c)
        PROVE  Inv'
    BY <1>1, SubmitInv, CallHandlerInv DEF Start
  <1>2. ASSUME NEW c \in Calls, Step(c)
        PROVE  Inv'
    BY <1>2, ResolveSharedInv, ResolveDirectInv, LoadPolicyInv, VerifyIdentityInv,
       EvaluateInv, CheckRateInv, OpenGateInv, DispatchInv, AuditInv, HandleInv DEF Step
  <1>3. CASE UNCHANGED vars
    <2>1. UNCHANGED <<config, edits, emergency, active, call>>
      BY <1>3 DEF vars
    <2> QED BY <2>1 DEF Inv, TypeOK, NoBypass, Watching, Running, At
  <1> QED BY <1>1, <1>2, <1>3, EditInv, CrashInv DEF Next

-----------------------------------------------------------------------------
\* What was delivered was a target that the call had checked.
LEMMA InvAuthorised == Inv => Authorised
  <1> SUFFICES ASSUME Inv, NEW c \in Calls, NEW a \in SentBySubmit(c)
               PROVE  /\ TargetSeen(call[c], a) /\ PolicySeen(call[c])
                      /\ GatewaySeen(call[c], a)
    BY DEF Authorised, TargetSeen, PolicySeen, GatewaySeen
  <1>1. call[c] \in Call /\ Backed(call[c]) /\ Ordered(call[c]) /\ Told(call[c])
    BY Known
  <1>2. PICK i \in DOMAIN call[c].sent : a = call[c].sent[i]
    BY DEF SentBySubmit
  <1>3. ~call[c].direct /\ call[c].sent \in Seq(Addresses)
    BY <1>1 DEF SentBySubmit, Call
  <1>4. call[c].sent # <<>>
    BY <1>2, <1>3
  <1>5. call[c].allowed
    BY <1>1, <1>3, <1>4 DEF Ordered
  <1>6. PICK k \in DOMAIN call[c].target : a = call[c].target[k]
    BY <1>1, <1>2, <1>3 DEF Told
  <1> QED BY <1>1, <1>5, <1>6 DEF Backed

\* The order of the checks, the charge and the deliveries gives NoCharge.
LEMMA InvNoCharge == Inv => NoCharge
  <1> SUFFICES ASSUME Inv, NEW c \in Calls, ~call[c].direct
               PROVE  /\ At(c, "audit") /\ (~call[c].allowed \/ call[c].dry) =>
                           call[c].sent = <<>> /\ ~call[c].charged
                      /\ call[c].sent # <<>> /\ call[c].channel \in Limited => call[c].charged
    BY DEF NoCharge
  <1>1. Ordered(call[c])
    BY Known
  <1> QED BY <1>1 DEF Ordered

\* A call that returns its verdict has a result for each address.
LEMMA InvVerdictTrue == Inv => VerdictTrue
  <1> SUFFICES ASSUME Inv, NEW c \in Calls, At(c, "audit"),
                      call[c].allowed, ~call[c].dry, ~call[c].failed
               PROVE  /\ Len(call[c].results) = Len(call[c].target)
                      /\ \A i \in DOMAIN call[c].results :
                           call[c].results[i] = "sent" =>
                               call[c].target[i] \in SentBySubmit(c)
    BY DEF VerdictTrue
  <1>1. Ordered(call[c]) /\ Told(call[c]) /\ call[c].pc = "audit"
    BY Known DEF At
  <1>2. ~call[c].direct
    BY <1>1 DEF Ordered
  <1> QED BY <1>1, <1>2 DEF Told, SentBySubmit

\* Who has delivered is still to log its verdict.
LEMMA InvRaisedUnsent == Inv => RaisedUnsent
  BY Known DEF RaisedUnsent, Ordered, At

\* In every reachable state each call is backed by what it has read.
LEMMA SpecInv == Spec => []Inv
  BY InitInv, StepInv, PTL DEF Spec

\* The variables keep their types; a thread is in one call at a time, and its
\* _gate_context.active is set only while that call dispatches
\* (outbound_submit.py submit, its finally clause).
THEOREM TypeCorrect == Spec => []TypeOK
  <1>1. Inv => TypeOK
    BY DEF Inv
  <1> QED BY <1>1, SpecInv, PTL

\* An address that submit delivers to was a target of the key, allowed by the
\* policy and let pass by the gateway configuration, each while the call ran.
THEOREM DeliveriesAuthorised == Spec => []Authorised
  BY InvAuthorised, SpecInv, PTL

\* A guarded handler called directly delivers in an emergency only.
THEOREM NoDirectDelivery == Spec => []NoBypass
  <1>1. Inv => NoBypass
    BY DEF Inv
  <1> QED BY <1>1, SpecInv, PTL

\* A denied call and a dry run deliver and charge nothing, and a delivery on a
\* limited channel was charged.
THEOREM ChargesMatch == Spec => []NoCharge
  BY InvNoCharge, SpecInv, PTL

\* A call that ends with an exception has delivered nothing.
THEOREM RaisingSendsNothing == Spec => []RaisedUnsent
  BY InvRaisedUnsent, SpecInv, PTL

\* A verdict says of each address what happened to it.
THEOREM VerdictsTrue == Spec => []VerdictTrue
  BY InvVerdictTrue, SpecInv, PTL

=============================================================================

---------------------------- MODULE OutboundGate ----------------------------
(***************************************************************************)
(* The outbound gate of clawwrap, outbound.submit, and the channel         *)
(* handlers behind it.  A call of submit runs on a thread and reads, one   *)
(* after the other, the targets, the policy, the live identity and the     *)
(* gateway configuration, passes the rate limit, sleeps, dispatches to     *)
(* each address and logs its verdict.  The operator edits the files under  *)
(* it, other calls run on other threads, a handler may raise, answer with  *)
(* an error or lose the answer to a delivery, and the process may die.     *)
(*                                                                         *)
(* A handler of a guarded channel may also be called directly.  It tells   *)
(* the two apart by the thread-local _gate_context.active.                 *)
(***************************************************************************)
EXTENDS Integers, Sequences, TLC

CONSTANTS
    MaxCalls,       \* bound on the calls of submit or of a handler
    Threads,
    Keys,           \* allowlist keys: "context.audience" or a recipient_ref
    Refs,           \* those of them that are a recipient_ref
    Directory,      \* the addresses that a resolver may give for a recipient_ref
    Addresses,
    Groups,         \* addresses of WhatsApp groups, which end in @g.us
    Channels,       \* the channels that requests name
    Bound,          \* ids of the handlers that are registered in the process
    Unreadable,     \* a file that is missing or cannot be parsed
    Configs,        \* what the files of the operator may say together
    MaxEdits        \* bound on the edits of the operator

ASSUME NamesAssumption == Threads # {} /\ Keys # {} /\ Channels # {}
ASSUME KeysAssumption == Refs \subseteq Keys /\ Directory \in [Refs -> SUBSET Addresses]

\* _RATE_LIMITED_CHANNELS, and the channels with a live identity check.
Limited == {"whatsapp", "bluebubbles", "imessage"}
Identified == {"whatsapp", "slack"}

\* targets.yaml maps keys to lists of addresses, outbound-policy.yaml allows
\* pairs of key and channel, openclaw.json lets pairs of channel and address
\* pass, none when it cannot be read.
Config == [targets : [Keys -> Seq(Addresses)] \cup {Unreadable},
           policy : (SUBSET (Keys \X Channels)) \cup {Unreadable},
           gateway : SUBSET (Channels \X Addresses)]

ASSUME ConfigsAssumption == Configs \subseteq Config
ASSUME BoundsAssumption == MaxCalls \in Nat /\ MaxEdits \in Nat

VARIABLES
    config,     \* the three files as they are now
    edits,      \* how often they were edited
    emergency,  \* CLAWWRAP_EMERGENCY=1 in the environment of the process
    active,     \* _gate_context.active of each thread
    call        \* state and local variables of each call

Calls == 1 .. MaxCalls

vars == <<config, edits, emergency, active, call>>

Stages == {"new", "resolve", "policy", "identity", "evaluate", "limit", "dispatch",
           "audit", "direct", "done", "failed", "killed"}
Ended == {"done", "failed", "killed"}   \* returned, raised, died with its process

NewCall == [pc |-> "new", direct |-> FALSE, thread |-> CHOOSE t \in Threads : TRUE,
            key |-> CHOOSE k \in Keys : TRUE, channel |-> CHOOSE c \in Channels : TRUE,
            dry |-> FALSE, target |-> <<>>, policy |-> Unreadable, matched |-> TRUE,
            allowed |-> FALSE,  \* verdict.allowed
            results |-> <<>>,   \* verdict.send_result of each address
            failed |-> FALSE,   \* verdict.send_result is a dispatch error
            logged |-> FALSE,   \* the verdict is in the audit log
            sent |-> <<>>,      \* history: addresses that got the message
            charged |-> FALSE,  \* history: the rate limit recorded the send
            window |-> {}]      \* history: configurations while it ran

Init ==
    /\ config \in Configs
    /\ edits = 0
    /\ emergency \in BOOLEAN
    /\ active = [t \in Threads |-> FALSE]
    /\ call = [c \in Calls |-> NewCall]

-----------------------------------------------------------------------------
At(c, stage) == call[c].pc = stage
Running(c) == call[c].pc \notin {"new"} \cup Ended
Free(t) == \A c \in Calls : Running(c) => call[c].thread # t

Become(c, j) == call' = [call EXCEPT ![c] = j]
Goto(c, stage) == Become(c, [call[c] EXCEPT !.pc = stage])
\* The call is over, and its locals are gone; of a direct call and of one that
\* raises we remember what it delivered.
End(c, stage, sent) ==
    [NewCall EXCEPT !.pc = stage, !.direct = call[c].direct,
                    !.sent = IF call[c].direct \/ stage = "failed" THEN sent ELSE <<>>]

\* A verdict with allowed FALSE, which goes to the audit log like any other;
\* what the call has read does not matter any more.
Deny(c) == Become(c, [NewCall EXCEPT !.pc = "audit", !.thread = call[c].thread,
                                     !.charged = call[c].charged, !.sent = call[c].sent])
\* Calls are numbered in the order in which they are made, on a free thread.
\* Threads are alike: the first call may be taken to run on any one.
Begins(c, t) ==
    /\ At(c, "new") /\ \A d \in 1 .. c - 1 : ~At(d, "new")
    /\ Free(t) /\ (c = 1 => t = NewCall.thread)

Reading(c, stage) == At(c, stage) /\ UNCHANGED <<config, edits, emergency, active>>

\* An operator saves one of the files, or breaks it.
Edit ==
    /\ edits < MaxEdits
    /\ \E new \in Configs \ {config} :
        /\ new \in {[config EXCEPT !.targets = new.targets],
                    [config EXCEPT !.policy = new.policy],
                    [config EXCEPT !.gateway = new.gateway]}
        /\ config' = new
        /\ call' = [c \in Calls |-> IF call[c].window # {}
                                    THEN [call[c] EXCEPT !.window = @ \cup {new}]
                                    ELSE call[c]]
    /\ edits' = edits + 1
    /\ UNCHANGED <<emergency, active>>

\* submit: an invalid request is denied at once.
Submit(c, t, k, ch) ==
    /\ Reading(c, "new") /\ Begins(c, t)
    /\ \/ Become(c, [NewCall EXCEPT !.pc = "audit", !.thread = t])
       \/ \E dry \in BOOLEAN :
            Become(c, [NewCall EXCEPT !.pc = "resolve", !.thread = t, !.key = k,
                                      !.channel = ch, !.dry = dry, !.window = {config}])

\* The call goes on with the addresses of its key, none where there are none.
Resolved(c, target) == Become(c, [call[c] EXCEPT !.pc = "policy", !.target = target])

\* RESOLVE: load_targets and resolve_shared.
ResolveShared(c) ==
    /\ Reading(c, "resolve") /\ call[c].key \notin Refs
    /\ IF config.targets = Unreadable THEN Deny(c)
       ELSE Resolved(c, config.targets[call[c].key])

\* resolve_direct does not look at the files: it asks the resolver of a prefix,
\* which there may not be, and which fails or finds one address.
ResolveDirect(c) ==
    /\ Reading(c, "resolve") /\ call[c].key \in Refs
    /\ \/ Deny(c)
       \/ \E a \in Directory[call[c].key] : Resolved(c, <<a>>)

\* VERIFY: load_policy.
LoadPolicy(c) ==
    /\ Reading(c, "policy")
    /\ IF config.policy = Unreadable THEN Deny(c)
       ELSE Become(c, [call[c] EXCEPT !.pc = "identity", !.policy = config.policy])

\* _apply_live_identity_verification: not supported, matched or not, or an
\* exception.  Only a single target of a shared route on some channels is
\* verified, on WhatsApp only a group.
VerifyIdentity(c) ==
    /\ Reading(c, "identity")
    /\ \/ Goto(c, "evaluate")
       \/ /\ call[c].channel \in Identified /\ call[c].key \notin Refs
          /\ Len(call[c].target) = 1
          /\ call[c].channel = "whatsapp" => call[c].target[1] \in Groups
          /\ \/ Become(c, [call[c] EXCEPT !.pc = "evaluate", !.matched = FALSE])
             \/ Deny(c)

\* Mutant of Enabled: no gateway configuration counts as all enabled.
EnabledByDefault(ch, target, gateway) ==
    gateway = {} \/ \A i \in DOMAIN target : <<ch, target[i]>> \in gateway

\* channel_enabled and target_passes_gateway_constraints; a gateway
\* configuration that cannot be read enables nothing.
Enabled(ch, target, gateway) == \A i \in DOMAIN target : <<ch, target[i]>> \in gateway

\* load_gateway_config and evaluate_checks; the label may be missing too.  A
\* file that parses but has the wrong shape raises, which nobody catches.
Evaluate(c) ==
    LET j == call[c]
        passed == /\ j.target # <<>>
                  /\ <<j.key, j.channel>> \in j.policy
                  /\ j.matched
                  /\ Enabled(j.channel, j.target, config.gateway)
    IN
    /\ Reading(c, "evaluate")
    /\ \/ Deny(c)
       \/ Become(c, End(c, "failed", call[c].sent))
       \/ /\ passed
          /\ Become(c, [j EXCEPT !.allowed = TRUE, !.policy = Unreadable,
                          !.pc = IF j.dry THEN "audit"
                                 ELSE IF j.channel \in Limited THEN "limit" ELSE "dispatch"])

\* Mutant of CheckRate: a refused call waits and tries again.
CheckRateRetry(c) ==
    /\ Reading(c, "limit")
    /\ \/ Become(c, [call[c] EXCEPT !.pc = "dispatch", !.charged = TRUE])
       \/ Become(c, [call[c] EXCEPT !.pc = "resolve", !.allowed = FALSE, !.target = <<>>])

\* Mutant of CheckRate: the call is charged before it is known to be allowed.
CheckRateCharging(c) ==
    /\ Reading(c, "limit")
    /\ \/ Become(c, [call[c] EXCEPT !.pc = "dispatch", !.charged = TRUE])
       \/ Become(c, [call[c] EXCEPT !.pc = "audit", !.allowed = FALSE, !.charged = TRUE])
       \/ Become(c, End(c, "failed", call[c].sent))

\* RATE LIMIT: RateLimitGuard.check_and_record records the send, refuses it,
\* or raises an OSError, which nobody catches.  The jitter delay follows.
CheckRate(c) ==
    /\ Reading(c, "limit")
    /\ \/ Become(c, [call[c] EXCEPT !.pc = "dispatch", !.charged = TRUE])
       \/ Deny(c)
       \/ Become(c, End(c, "failed", call[c].sent))

\* Mutant of Opens: the flag is one for all threads.
OpensAnyThread(t) == (\E u \in Threads : active[u]) \/ emergency

\* _enforce_escape_hatch.
Opens(t) == active[t] \/ emergency

\* What a handler does with a message.  An answer with a message id says "sent",
\* and then the message was; an answer without one is an error, which may be
\* about a lost answer only; and a handler may raise.
Answers == {"sent", "error", "raise"}
Sent == <<"sent", TRUE>>
Failure(answer) == {answer} \X BOOLEAN

\* The native transports raise whatever goes wrong, also outside the gate.
GuardedHandlers == {"bluebubbles.send", "whatsapp.send_gateway"}
GuardedSend(t) == IF Opens(t) THEN {Sent} \cup Failure("raise") ELSE {<<"raise", FALSE>>}

\* slack_post: a reply that is not an object raises, all else is answered.
SlackPost == {Sent} \cup Failure("error") \cup Failure("raise")

\* send_email: a reply that cannot be read is a send without an email id.
SendEmail == {Sent} \cup Failure("error")

\* send_text, whose own guard may raise for a lockfile that cannot be written.
SendText == {Sent, <<"raise", FALSE>>} \cup Failure("error")

\* _CHANNEL_HANDLERS, as far as a handler is called.
ChannelHandlers == "email" :> "email.send" @@ "slack" :> "slack.post"
    @@ "bluebubbles" :> "bluebubbles.send" @@ "imessage" :> "bluebubbles.send"
    @@ "sms" :> "sms_relay.send" @@ "mailchimp" :> "mailchimp.send_campaign"

\* _select_handler_id.
SelectHandler(ch, a) ==
    IF ch = "whatsapp"
    THEN IF a \in Groups THEN "dm.send_text" ELSE "whatsapp.send_gateway"
    ELSE IF ch \in DOMAIN ChannelHandlers THEN ChannelHandlers[ch] ELSE "none"

\* dispatch_to_channel: a channel without a handler is answered with an empty
\* message id, and binding an id that nobody registered raises.
Routed(c, a) ==
    LET h == SelectHandler(call[c].channel, a)
    IN CASE h = "none" -> {<<"error", FALSE>>}
         [] h # "none" /\ h \notin Bound -> {<<"raise", FALSE>>}
         [] h \in Bound /\ h \in GuardedHandlers -> GuardedSend(call[c].thread)
         [] h \in Bound /\ h = "slack.post" -> SlackPost
         [] h \in Bound /\ h = "email.send" -> SendEmail
         [] h \in Bound /\ h = "dm.send_text" -> SendText
         [] OTHER -> {Sent} \cup Failure("error") \cup Failure("raise")

\* The first dispatch sets the flag of the thread.
OpenGate(c) ==
    /\ At(c, "dispatch") /\ ~active[call[c].thread]
    /\ active' = [active EXCEPT ![call[c].thread] = TRUE]
    /\ UNCHANGED <<config, edits, emergency, call>>

\* Mutant of Dispatch: the flag is reset after the last address only, not in
\* a finally clause.
DispatchNoFinally(c) ==
    LET j == call[c]
        next == j.target[Len(j.results) + 1]
    IN
    /\ At(c, "dispatch") /\ active[j.thread]
    /\ \E answer \in Answers, delivered \in BOOLEAN :
        LET last == Len(j.results) + 1 = Len(j.target) IN
        /\ <<answer, delivered>> \in Routed(c, next)
        /\ Become(c, [j EXCEPT !.pc = IF last \/ answer = "raise" THEN "audit" ELSE "dispatch",
                               !.sent = IF delivered THEN Append(@, next) ELSE @,
                               !.results = IF answer = "raise" THEN <<>> ELSE Append(@, answer),
                               !.failed = answer = "raise"])
        /\ active' = [active EXCEPT ![j.thread] = answer = "raise" \/ ~last]
    /\ UNCHANGED <<config, edits, emergency>>

\* Mutant of Dispatch: an exception ends the dispatch to its own address only.
DispatchSkipping(c) ==
    LET j == call[c]
        next == j.target[Len(j.results) + 1]
        last == Len(j.results) + 1 = Len(j.target)
    IN
    /\ At(c, "dispatch") /\ active[j.thread]
    /\ \E answer \in Answers, delivered \in BOOLEAN :
        /\ <<answer, delivered>> \in Routed(c, next)
        /\ Become(c, [j EXCEPT !.pc = IF last THEN "audit" ELSE "dispatch",
                               !.sent = IF delivered THEN Append(@, next) ELSE @,
                               !.results = IF answer = "raise" THEN @ ELSE Append(@, answer)])
    /\ active' = [active EXCEPT ![j.thread] = ~last]
    /\ UNCHANGED <<config, edits, emergency>>

\* Mutant of Dispatch: an exception is not caught, as little as those of the
\* stages before.
DispatchUncaught(c) ==
    LET j == call[c]
        next == j.target[Len(j.results) + 1]
    IN
    /\ At(c, "dispatch") /\ active[j.thread]
    /\ \E answer \in Answers, delivered \in BOOLEAN :
        LET last == answer = "raise" \/ Len(j.results) + 1 = Len(j.target)
            sent == IF delivered THEN Append(j.sent, next) ELSE j.sent
        IN
        /\ <<answer, delivered>> \in Routed(c, next)
        /\ Become(c, IF answer = "raise" THEN End(c, "failed", sent)
                     ELSE [j EXCEPT !.pc = IF last THEN "audit" ELSE "dispatch",
                                    !.sent = sent, !.results = Append(@, answer)])
        /\ active' = [active EXCEPT ![j.thread] = ~last]
    /\ UNCHANGED <<config, edits, emergency>>

\* dispatch_to_channel for the next address.  The last address, or an
\* exception, which drops the results of the addresses before, ends it.
Dispatch(c) ==
    LET j == call[c]
        next == j.target[Len(j.results) + 1]
    IN
    /\ At(c, "dispatch") /\ active[j.thread]
    /\ \E answer \in Answers, delivered \in BOOLEAN :
        LET last == answer = "raise" \/ Len(j.results) + 1 = Len(j.target) IN
        /\ <<answer, delivered>> \in Routed(c, next)
        /\ Become(c, [j EXCEPT !.pc = IF last THEN "audit" ELSE "dispatch",
                               !.sent = IF delivered THEN Append(@, next) ELSE @,
                               !.results = IF answer = "raise" THEN <<>> ELSE Append(@, answer),
                               !.failed = answer = "raise"])
        /\ active' = [active EXCEPT ![j.thread] = ~last]
    /\ UNCHANGED <<config, edits, emergency>>

\* AUDIT: best effort; then the verdict is returned.
Audit(c) ==
    /\ Reading(c, "audit")
    /\ \E logged \in BOOLEAN : Become(c, [End(c, "done", <<>>) EXCEPT !.logged = logged])

\* A skill calls a guarded handler itself.
CallHandler(c, t, ch) ==
    /\ Reading(c, "new") /\ Begins(c, t)
    /\ \E a \in Addresses : SelectHandler(ch, a) \in GuardedHandlers
    /\ Become(c, [NewCall EXCEPT !.pc = "direct", !.direct = TRUE, !.thread = t, !.channel = ch])

\* The handler alone: EscapeHatchError, or it delivers as ever.
Handle(c) ==
    /\ Reading(c, "direct")
    /\ \E a \in Addresses, answer \in Answers, delivered \in BOOLEAN :
          /\ <<answer, delivered>> \in GuardedSend(call[c].thread)
          /\ SelectHandler(call[c].channel, a) \in GuardedHandlers
          /\ Become(c, End(c, IF answer = "raise" THEN "failed" ELSE "done",
                           IF delivered THEN <<a>> ELSE <<>>))

\* The process dies with all its threads; a new one has the same environment.
Crash ==
    /\ \E c \in Calls : Running(c)
    /\ call' = [c \in Calls |-> IF Running(c) THEN End(c, "killed", <<>>) ELSE call[c]]
    /\ active' = [t \in Threads |-> FALSE]
    /\ UNCHANGED <<config, edits, emergency>>

Start(c) ==
    \E t \in Threads, ch \in Channels :
        \/ \E k \in Keys : Submit(c, t, k, ch)
        \/ CallHandler(c, t, ch)

Step(c) ==
    \/ ResolveShared(c)
    \/ ResolveDirect(c)
    \/ LoadPolicy(c)
    \/ VerifyIdentity(c)
    \/ Evaluate(c)
    \/ CheckRate(c)
    \/ OpenGate(c)
    \/ Dispatch(c)
    \/ Audit(c)
    \/ Handle(c)

Next == Edit \/ Crash \/ \E c \in Calls : Start(c) \/ Step(c)

\* Some thread that is in a call goes on: every wait in a call has a timeout.
Fairness == WF_vars(\E c \in Calls : Step(c))

Spec == Init /\ [][Next]_vars
FairSpec == Spec /\ Fairness

-----------------------------------------------------------------------------
Call == [pc : Stages, direct : BOOLEAN, thread : Threads, key : Keys, channel : Channels,
         dry : BOOLEAN, target : Seq(Addresses), policy : (SUBSET (Keys \X Channels)) \cup {Unreadable},
         matched : BOOLEAN, allowed : BOOLEAN, results : Seq(Answers), failed : BOOLEAN,
         logged : BOOLEAN, sent : Seq(Addresses), charged : BOOLEAN, window : SUBSET Configs]

\* Every variable has its type; a thread is in one call at a time, and its
\* flag is set only while that call dispatches.
TypeOK ==
    /\ config \in Configs /\ edits \in 0 .. MaxEdits /\ emergency \in BOOLEAN
    /\ active \in [Threads -> BOOLEAN]
    /\ call \in [Calls -> Call]
    /\ \A c, d \in Calls : c # d /\ Running(c) /\ Running(d) => call[c].thread # call[d].thread
    /\ \A t \in Threads : active[t] => \E c \in Calls : At(c, "dispatch") /\ call[c].thread = t

SentBySubmit(c) == IF call[c].direct THEN {} ELSE {call[c].sent[i] : i \in DOMAIN call[c].sent}

\* An address that gets a message from submit was a target of the key, or the
\* directory has it for the recipient_ref; the key was allowed on the channel,
\* and the gateway let the address pass, each at some moment of this call: no
\* unreadable file and no earlier reading stands in for one of them, whatever
\* the operator edits meanwhile (outbound_submit.py submit, gate/verify.py
\* evaluate_checks).
Authorised == \A c \in Calls : \A a \in SentBySubmit(c) :
    /\ IF call[c].key \in Refs THEN a \in Directory[call[c].key]
       ELSE \E s \in call[c].window :
        /\ s.targets # Unreadable
        /\ \E i \in DOMAIN s.targets[call[c].key] : s.targets[call[c].key][i] = a
    /\ \E s \in call[c].window :
        s.policy # Unreadable /\ <<call[c].key, call[c].channel>> \in s.policy
    /\ \E s \in call[c].window : <<call[c].channel, a>> \in s.gateway

\* A guarded handler that is called directly delivers in an emergency only,
\* whatever calls of submit ran on its thread before and however they ended
\* (outbound_submit.py submit, contracts/bluebubbles.py _enforce_escape_hatch).
NoBypass == \A c \in Calls : call[c].direct /\ call[c].sent # <<>> => emergency

\* A call that is denied and a dry run deliver nothing and use up nothing of the
\* rate limit; a delivery on a limited channel was charged before
\* (outbound_submit.py submit).
NoCharge == \A c \in Calls : ~call[c].direct =>
    /\ At(c, "audit") /\ (~call[c].allowed \/ call[c].dry) =>
        call[c].sent = <<>> /\ ~call[c].charged
    /\ call[c].sent # <<>> /\ call[c].channel \in Limited => call[c].charged

\* A call that raises, and so leaves neither a verdict nor a log entry, has
\* delivered nothing: whatever a wrong file or a lockfile that cannot be written
\* raises comes before the first dispatch, and what handlers raise, which may
\* have delivered, does not get out (outbound_submit.py submit).
RaisedUnsent == \A c \in Calls :
    At(c, "failed") /\ ~call[c].direct => call[c].sent = <<>>

\* An allowed verdict without a dispatch error has a result for each address,
\* in order, and an address whose result says sent did get the message
\* (outbound_submit.py submit).
VerdictTrue == \A c \in Calls : At(c, "audit") =>
    LET j == call[c] IN
    j.allowed /\ ~j.dry /\ ~j.failed =>
        /\ Len(j.results) = Len(j.target)
        /\ \A i \in DOMAIN j.results :
            j.results[i] = "sent" => j.target[i] \in SentBySubmit(c)

\* Every call of submit comes to an end, with a verdict, with an exception or by
\* the death of its process: as calls are made once and are finitely many, no
\* moment is the last at which none is running (outbound_submit.py submit).
SubmitAnswers == []<>(\A c \in Calls : ~Running(c))

=============================================================================

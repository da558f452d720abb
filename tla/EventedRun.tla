------------------------------ MODULE EventedRun ------------------------------
(***************************************************************************)
(* One run of the Python harness's agent loop (evented.py): the turns, the *)
(* context it projects for each (context_projection.py), the one retry     *)
(* after a context overflow, the calls it executes, and its Run Event Log; *)
(* then the report a behavioral evaluation makes of the run, and the one   *)
(* it rebuilds from the log alone (behavioral_eval.py).                    *)
(*                                                                         *)
(* One action is what happens between two things the loop does not         *)
(* control: an answer of the model, a call's effect.  Events are caused by *)
(* the one before them, so an event is its type, its call, its compaction  *)
(* and its status.  The process may die between any two events.  A call is *)
(* a number, named in the order of first use; a small result has size 1.   *)
(***************************************************************************)
EXTENDS Integers, Sequences, FiniteSets, SequencesExt, FiniteSetsExt

CONSTANTS
    MaxCalls, MaxSteps, \* RunLimits
    MaxCandidate,       \* bound of the model: calls in one candidate
    Policies,           \* the configurations of the loop
    Large, Preview,     \* the size of a large result, and of its artifact reference
    NoValue             \* no window, no report

\* ContextPolicy: a verified window is positive; without one nobody knows.
Policy == [semantic : BOOLEAN, window : (Nat \ {0}) \cup {NoValue}, once : BOOLEAN]

ASSUME RunAssumption ==
    /\ {MaxCalls, MaxCandidate, Large, Preview} \subseteq Nat \ {0} /\ MaxSteps \in Nat
    /\ NoValue \notin Int
    /\ Policies \subseteq Policy

VARIABLES
    pc,
    policy,    \* the projector, its verified window, and whether the loop acts once
    log,       \* JsonlRunEventLog
    calls,     \* model_calls
    attempt,   \* the exchange_attempt of the prepared turn
    steps,
    used,      \* used_call_ids
    batch,     \* the calls of the accepted candidate that wait
    open,      \* its group, as far as there are results
    groups,    \* history_groups
    retained,  \* the calls whose result the artifact store keeps
    context,   \* what the model was sent last
    effects,   \* what the tools did
    signalled, \* the cancel signal
    late,      \* requests and effects that began after it
    report     \* BehavioralCaseResult

turn == <<calls, attempt, context, retained>>
tools == <<steps, used, batch, open, groups, effects>>
runVars == <<pc, policy, log, turn, tools, signalled, late, report>>

Status ==
    {"completed", "abstained", "cancelled", "time_limit", "model_call_limit", "step_limit", "model_error",
     "protocol_error", "tool_error", "context_compaction_error", "context_overflow", "loop_policy_stop"}

EventType ==
    {"run.started", "run.terminal", "control.cancel_requested", "context.projection_started", "context.projected",
     "context.compaction_started", "context.compaction_completed", "context.compaction_failed",
     "context.overflow_retry_succeeded", "context.overflow_retry_exhausted", "artifact.externalized",
     "model.exchange_started", "model.exchange_settled", "model.exchange_failed",
     "candidate.accepted", "candidate.rejected", "history.advanced",
     "tool.execution_started", "tool.execution_completed", "tool.execution_failed"}

Event == [type : EventType, call : Nat, compaction : Nat, status : Status \cup {"none"}]

Plain(type) == [type |-> type, call |-> 0, compaction |-> 0, status |-> "none"]
Of(type, call) == [Plain(type) EXCEPT !.call = call]
Terminal(status) == [Plain("run.terminal") EXCEPT !.status = status]
\* A run compacts at most once between two requests.
Compaction(type) == [Plain(type) EXCEPT !.compaction = calls + 1]

ToolResult == [call : Nat, size : {1, Large}]
\* An accepted candidate and what came of it.
Group == [calls : Seq(Nat), results : Seq(ToolResult)]
Closed == [calls |-> <<>>, results |-> <<>>]
Context == [kept : Nat, summary : BOOLEAN, size : Nat]
Report == [status : Status, scored : BOOLEAN, actions : Seq(Nat)]

Ended == {"reported", "crashed", "refused"}

RunTypeOK ==
    /\ pc \in Ended \cup {"start", "turn", "asked", "recover", "tool", "executing", "done"}
    /\ policy \in Policies
    /\ log \in Seq(Event)
    /\ calls \in 0..MaxCalls /\ attempt \in {1, 2} /\ steps \in 0..MaxSteps
    /\ used \subseteq Nat /\ batch \in Seq(Nat) /\ open \in Group /\ groups \in Seq(Group)
    /\ retained \subseteq used /\ context \in Context \cup {NoValue}
    /\ effects \in Seq(used)
    /\ signalled \in BOOLEAN /\ late \in Nat
    /\ report \in Report \cup {NoValue}

RunInit ==
    /\ pc = "start" /\ policy \in Policies
    /\ log = <<>>
    /\ calls = 0 /\ attempt = 1 /\ steps = 0
    /\ used = {} /\ batch = <<>> /\ open = Closed /\ groups = <<>>
    /\ retained = {} /\ context = NoValue
    /\ effects = <<>>
    /\ signalled = FALSE /\ late = 0
    /\ report = NoValue

-----------------------------------------------------------------------------
(* The log.                                                                *)

\* The events append refuses after `history`.
Refused(history, event) ==
    \/ history = <<>> /\ event.type # "run.started"
    \/ history # <<>> /\ (event.type = "run.started" \/ Last(history).type = "run.terminal")
    \/ /\ event.type \in {"context.compaction_completed", "context.compaction_failed"}
       /\ \/ history = <<>>
          \/ Last(history).type # "context.compaction_started"
          \/ Last(history).compaction # event.compaction

Accepted(history) ==
    \A i \in DOMAIN history : ~Refused(SubSeq(history, 1, i - 1), history[i])

\* The loop appends `events` one by one: the process dies among them, append
\* raises, or it goes on.
Write(events, next) ==
    \/ /\ Accepted(log \o events)
       /\ log' = log \o events
       /\ pc' = next
    \/ \E n \in 0..Len(events) - 1 :
          /\ Accepted(log \o SubSeq(events, 1, n))
          /\ log' = log \o SubSeq(events, 1, n)
          /\ pc' = IF Accepted(log \o SubSeq(events, 1, n + 1)) THEN "crashed" ELSE "refused"

RunEnds(events, status) == Write(Append(events, Terminal(status)), "done")

EndsCancelled(events) ==
    /\ signalled' = TRUE
    /\ RunEnds(Append(events, Plain("control.cancel_requested")), "cancelled")

\* A request or an effect begins.
Begins == late' = IF signalled THEN late + 1 ELSE late

-----------------------------------------------------------------------------
(* The projection.                                                         *)

Total(sizes) ==
    LET sum[i \in 0..Len(sizes)] == IF i = 0 THEN 0 ELSE sum[i - 1] + sizes[i]
    IN  sum[Len(sizes)]

Sizes(results) == Total([i \in DOMAIN results |-> results[i].size])
Referenced(results) == Total([i \in DOMAIN results |-> IF results[i].size = Large THEN Preview ELSE results[i].size])

RawSize == 1 + Total([i \in DOMAIN groups |-> Sizes(groups[i].results)])

Newest(k) == SubSeq(groups, Len(groups) - k + 1, Len(groups))

\* The size when the newest `k` groups are kept and the others summarized.
CompactSize(k) ==
    LET omitted == SubSeq(groups, 1, Len(groups) - k)
        newest == Newest(k)
    IN  2 + Total([i \in DOMAIN omitted |-> Len(omitted[i].results)])
          + Total([i \in DOMAIN newest |-> Referenced(newest[i].results)])

\* A result for every call, in the order of the calls.
Whole(group) ==
    /\ Len(group.results) = Len(group.calls)
    /\ \A i \in DOMAIN group.calls : group.results[i].call = group.calls[i]

\* _validate_atomic_conversation, of a context with the newest `k` groups.
Atomic(k) == \A group \in ToSet(Newest(k)) : Whole(group)

Fits(size) == policy.window # NoValue /\ size <= policy.window

Exact == ~policy.semantic
SendsRaw == pc = "turn" /\ (Exact \/ policy.window = NoValue \/ Fits(RawSize))
Compacts == policy.semantic /\ ~SendsRaw

\* The group that does not fit is kept too.
RecentGreedy == Max({k \in 0..Len(groups) : \A j \in 1..k - 1 : Fits(CompactSize(j))})

\* Groups are added from the newest on until one does not fit.
Recent == Max({k \in 0..Len(groups) : \A j \in 1..k : Fits(CompactSize(j))})

Bulky == {r.call : r \in {x \in UNION {ToSet(g.results) : g \in ToSet(groups)} : x.size = Large}}

Externalized(made) == SetToSeq({Of("artifact.externalized", c) : c \in made})

\* The loop projects for its next request: at the head of a turn, or again
\* after the provider said that the context overflowed.
Projecting ==
    /\ \/ pc = "turn" /\ ~signalled /\ calls < MaxCalls
       \/ pc = "recover"
    /\ UNCHANGED <<policy, tools, signalled, report>>

Started == <<Plain("context.projection_started")>>
Failure == <<Compaction("context.compaction_started"), Compaction("context.compaction_failed")>>

\* The projector raises: another policy or tool set than it was made for.
ProjectionRaises ==
    /\ Projecting
    /\ RunEnds(Started \o Failure, "context_compaction_error")
    /\ UNCHANGED <<turn, late>>

\* ExactContextProjector cannot recover from an overflow.
RecoveryUnavailable ==
    /\ Projecting /\ pc = "recover" /\ Exact
    /\ RunEnds(Append(Started, Plain("context.overflow_retry_exhausted")), "context_overflow")
    /\ UNCHANGED <<turn, late>>

\* The artifact store fails after it has kept some of the large results.
RetentionFails(made) ==
    /\ Projecting /\ Compacts
    /\ Bulky # {} /\ made \subseteq Bulky \ retained /\ made # Bulky
    /\ retained' = retained \cup made
    /\ \E told \in SUBSET made :
          RunEnds(Started \o Externalized(told) \o Failure, "context_compaction_error")
    /\ UNCHANGED <<calls, attempt, context, late>>

TooLarge ==
    /\ Projecting /\ Compacts
    /\ policy.window # NoValue /\ ~Fits(CompactSize(0))
    /\ retained' = retained \cup Bulky
    /\ RunEnds(Started \o Externalized(Bulky \ retained) \o Failure, "context_compaction_error")
    /\ UNCHANGED <<calls, attempt, context, late>>

\* The context goes to the model.
Sends ==
    /\ \/ /\ SendsRaw
          /\ context' = [kept |-> Len(groups), summary |-> FALSE, size |-> RawSize]
          /\ retained' = retained
          /\ Write(Started \o <<Plain("context.projected"), Plain("model.exchange_started")>>, "asked")
       \/ /\ Compacts
          /\ policy.window # NoValue => Fits(CompactSize(0))
          /\ context' = [kept |-> Recent, summary |-> TRUE, size |-> CompactSize(Recent)]
          /\ retained' = retained \cup Bulky
          /\ Write(Started \o Externalized(Bulky \ retained)
                     \o <<Compaction("context.compaction_started"), Compaction("context.compaction_completed"),
                          Plain("context.projected"), Plain("model.exchange_started")>>, "asked")
    /\ calls' = calls + 1
    /\ IF pc' = "asked" THEN Begins ELSE UNCHANGED late

AskModel == Projecting /\ pc = "turn" /\ attempt' = 1 /\ Sends

\* The same turn once more, with less of its history.
AskAgain == Projecting /\ pc = "recover" /\ attempt' = 2 /\ Sends

-----------------------------------------------------------------------------
(* The loop.                                                               *)

Begin ==
    /\ pc = "start"
    /\ Write(<<Plain("run.started")>>, "turn")
    /\ UNCHANGED <<policy, turn, tools, signalled, late, report>>

RunCancelled ==
    /\ pc = "turn" /\ signalled
    /\ EndsCancelled(<<>>)
    /\ UNCHANGED <<policy, turn, tools, late, report>>

\* The clock is read at the head of a turn only.
TimeLimit ==
    /\ pc = "turn" /\ ~signalled
    /\ RunEnds(<<>>, "time_limit")
    /\ UNCHANGED <<policy, turn, tools, signalled, late, report>>

ModelCallLimit ==
    /\ pc = "turn" /\ ~signalled /\ calls >= MaxCalls
    /\ RunEnds(<<>>, "model_call_limit")
    /\ UNCHANGED <<policy, turn, tools, signalled, late, report>>

ModelAnswers == pc = "asked" /\ UNCHANGED <<policy, turn, late, report>>

\* A KeyboardInterrupt in the exchange, or a cancel seen after it.
ExchangeCancelled ==
    /\ ModelAnswers
    /\ EndsCancelled(<<>>)
    /\ UNCHANGED tools

ExchangeRaises ==
    /\ ModelAnswers
    /\ RunEnds(<<>>, "model_error")
    /\ UNCHANGED <<tools, signalled>>

ExchangeFails ==
    /\ ModelAnswers /\ ~signalled
    /\ RunEnds(<<Plain("model.exchange_failed")>>, "model_error")
    /\ UNCHANGED <<tools, signalled>>

\* The first overflow of a turn is answered by another projection.
Overflow ==
    /\ ModelAnswers /\ ~signalled /\ attempt = 1 /\ calls < MaxCalls
    /\ Write(<<Plain("model.exchange_failed")>>, "recover")
    /\ UNCHANGED <<tools, signalled>>

Exhausted ==
    /\ ModelAnswers /\ ~signalled
    /\ RunEnds(<<Plain("model.exchange_failed"), Plain("context.overflow_retry_exhausted")>>, "context_overflow")
    /\ UNCHANGED <<tools, signalled>>

\* No call is left for it.
NoCallLeft == attempt = 1 /\ calls >= MaxCalls /\ Exhausted

RetryOverflows == attempt = 2 /\ Exhausted

Settled ==
    <<Plain("model.exchange_settled")>>
        \o IF attempt = 2 THEN <<Plain("context.overflow_retry_succeeded")>> ELSE <<>>

Candidates ==
    LET known == Cardinality(used)
    IN  UNION {[1..n -> 1..known + n] : n \in 1..MaxCandidate}

\* _admission_error, as far as it is about the calls' identities.
Admissible(candidate) == IsInjective(candidate) /\ ToSet(candidate) \cap used = {}

\* A candidate that is malformed, or refused by a tool's own validation.
Reject ==
    /\ ModelAnswers /\ ~signalled
    /\ RunEnds(Append(Settled, Plain("candidate.rejected")), "protocol_error")
    /\ UNCHANGED <<tools, signalled>>

Final(status) ==
    /\ ModelAnswers /\ ~signalled
    /\ RunEnds(Settled \o <<Plain("candidate.accepted"), Plain("history.advanced")>>, status)
    /\ UNCHANGED <<tools, signalled>>

Accept(candidate) ==
    Append(Settled, Of("candidate.accepted", IF Len(candidate) = 1 THEN candidate[1] ELSE 0))

StepLimit(candidate) ==
    /\ ModelAnswers /\ ~signalled /\ Admissible(candidate)
    /\ steps + Len(candidate) > MaxSteps
    /\ RunEnds(Accept(candidate), "step_limit")
    /\ UNCHANGED <<tools, signalled>>

Calls(candidate) ==
    /\ ModelAnswers /\ ~signalled /\ Admissible(candidate)
    /\ candidate = [i \in DOMAIN candidate |-> Cardinality(used) + i]
    /\ steps + Len(candidate) <= MaxSteps
    /\ used' = used \cup ToSet(candidate)
    /\ batch' = candidate /\ open' = [calls |-> candidate, results |-> <<>>]
    /\ Write(Append(Accept(candidate), Plain("history.advanced")), "tool")
    /\ UNCHANGED <<steps, groups, effects, signalled>>

-----------------------------------------------------------------------------
(* The calls of an accepted candidate, one after the other.                *)

ExecuteUnlogged ==
    /\ pc = "tool"
    /\ Write(<<>>, "executing")
    /\ IF pc' = "executing" THEN Begins ELSE UNCHANGED late
    /\ UNCHANGED <<policy, turn, tools, signalled, report>>

Execute ==
    /\ pc = "tool"
    /\ Write(<<Of("tool.execution_started", Head(batch))>>, "executing")
    /\ IF pc' = "executing" THEN Begins ELSE UNCHANGED late
    /\ UNCHANGED <<policy, turn, tools, signalled, report>>

Executing == pc = "executing" /\ UNCHANGED <<policy, turn, late, report, used, batch, groups>>

Acts == effects' = Append(effects, Head(batch))

\* The tool raises before its effect or after.
ToolFails ==
    /\ Executing
    /\ Acts \/ UNCHANGED effects
    /\ RunEnds(<<Of("tool.execution_failed", Head(batch))>>, "tool_error")
    /\ UNCHANGED <<steps, open, signalled>>

\* A KeyboardInterrupt in the tool, or a cancel seen after it.
ToolCancelled ==
    /\ Executing
    /\ Acts \/ UNCHANGED effects
    /\ EndsCancelled(<<>>)
    /\ UNCHANGED <<steps, open>>

\* The signal is not read after a call.
CompleteHeedless(size) ==
    LET done == [open EXCEPT !.results = Append(@, [call |-> Head(batch), size |-> size])]
        events == <<Of("tool.execution_completed", Head(batch)), Of("history.advanced", Head(batch))>>
    IN  /\ pc = "executing"
        /\ Acts
        /\ steps' = steps + 1
        /\ batch' = Tail(batch)
        /\ IF Len(batch) > 1
              THEN open' = done /\ UNCHANGED groups /\ Write(events, "tool")
              ELSE /\ open' = Closed /\ groups' = Append(groups, done)
                   /\ IF policy.once THEN RunEnds(events, "loop_policy_stop") ELSE Write(events, "turn")
        /\ UNCHANGED <<policy, turn, late, report, used, signalled>>

CompleteCall(size) ==
    LET done == [open EXCEPT !.results = Append(@, [call |-> Head(batch), size |-> size])]
        events == <<Of("tool.execution_completed", Head(batch)), Of("history.advanced", Head(batch))>>
    IN  /\ pc = "executing" /\ ~signalled
        /\ Acts
        /\ steps' = steps + 1
        /\ batch' = Tail(batch)
        /\ IF Len(batch) > 1
              THEN open' = done /\ UNCHANGED groups /\ Write(events, "tool")
              ELSE /\ open' = Closed /\ groups' = Append(groups, done)
                   /\ IF policy.once THEN RunEnds(events, "loop_policy_stop") ELSE Write(events, "turn")
        /\ UNCHANGED <<policy, turn, late, report, used, signalled>>

-----------------------------------------------------------------------------
(* The evaluation of the run, and the same from its log.                   *)

Loadable(history) ==
    /\ history # <<>> /\ Accepted(history)
    /\ {i \in DOMAIN history : history[i].type = "run.terminal"} = {Len(history)}

ScoredFailed(status) == status \in {"completed", "abstained", "loop_policy_stop", "tool_error"}

Scored(status) == status \in {"completed", "abstained", "loop_policy_stop"}

Case(status, actions) == [status |-> status, scored |-> Scored(status), actions |-> actions]

Evaluate ==
    /\ pc = "done"
    /\ IF Loadable(log)
          THEN pc' = "reported" /\ report' = Case(Last(log).status, effects)
          ELSE pc' = "crashed" /\ UNCHANGED report
    /\ UNCHANGED <<policy, log, turn, tools, signalled, late>>

\* The calls that the events of a type are about, in the log's order.
Told(history, type) ==
    LET told[i \in 0..Len(history)] ==
            IF i = 0 THEN <<>>
            ELSE IF history[i].type = type THEN Append(told[i - 1], history[i].call) ELSE told[i - 1]
    IN  told[Len(history)]

Sequence(type) == Told(log, type)

\* reconstruct_behavioral_eval_report knows a call from the event that
\* accepted it alone, and raises at any other.
Rebuildable == ToSet(Sequence("tool.execution_completed")) \subseteq ToSet(Sequence("candidate.accepted"))

Rebuilt == Case(Last(log).status, Sequence("tool.execution_completed"))

-----------------------------------------------------------------------------

Cancel ==
    /\ pc \notin Ended /\ pc # "done" /\ ~signalled
    /\ signalled' = TRUE
    /\ UNCHANGED <<pc, policy, log, turn, tools, late, report>>

Runs ==
    \/ Begin \/ RunCancelled \/ TimeLimit \/ ModelCallLimit
    \/ ProjectionRaises \/ RecoveryUnavailable \/ TooLarge \/ AskModel \/ AskAgain
    \/ \E made \in SUBSET Bulky : RetentionFails(made)
    \/ ExchangeCancelled \/ ExchangeRaises \/ ExchangeFails \/ Overflow \/ NoCallLeft \/ RetryOverflows \/ Reject
    \/ \E status \in {"completed", "abstained"} : Final(status)
    \/ \E candidate \in Candidates : StepLimit(candidate) \/ Calls(candidate)
    \/ Execute \/ ToolFails \/ ToolCancelled
    \/ \E size \in {1, Large} : CompleteCall(size)
    \/ Evaluate

RunNext == Runs \/ Cancel

\* The model and the tools answer, or raise on their timeouts.
RunSpec == RunInit /\ [][RunNext]_runVars /\ WF_runVars(Runs)

-----------------------------------------------------------------------------
(* Properties.                                                             *)

\* Wherever the run stops, by an end of its own or by dying, the log tells
\* what the tools did: every effect was announced, none happened twice, and
\* one at most, the last, has no completion (the order of execution_started,
\* tool.execute and execution_completed in AgentLoop.run, and _admission_error).
\* The loop never submits an event that its own log refuses, and a run that
\* returned a result has a log that load_run_event_log accepts.
LogTellsEffects ==
    LET started == Sequence("tool.execution_started")
        completed == Sequence("tool.execution_completed")
    IN  /\ RunTypeOK
        /\ IsInjective(started)
        /\ IsPrefix(completed, effects) /\ IsPrefix(effects, started)
        /\ Len(started) <= Len(completed) + 1
        /\ pc # "refused" /\ (pc = "done" => Loadable(log))

\* The evaluation rebuilt from the log, if its calls were accepted one by one,
\* is the one that was made with the tools
\* at hand: the same ending and score, and the same actions if it is scored.
\* Otherwise the log lacks at most the action the run ended in.
RebuiltAgrees ==
    report # NoValue /\ Rebuildable =>
        /\ Rebuilt.status = report.status
        /\ report.scored => Rebuilt = report
        /\ Rebuilt.actions # report.actions =>
              report.status \in {"cancelled", "tool_error"} /\ Rebuilt.actions = Front(report.actions)

\* After a cancel at most one more request is sent or call begun, and the run
\* ends in its turn: the signal is read after every exchange and every call.
CancelIsPrompt == late <= 1 /\ (late = 1 => pc \in {"asked", "executing", "done"} \cup Ended)

\* What is sent fits a verified window, has the result of every call it has,
\* in their order, and leaves no large result out that the artifact store does
\* not keep; each is announced once (SemanticContextProjector.project).
ContextWhole ==
    LET announced == Sequence("artifact.externalized")
    IN  /\ pc = "asked" =>
              /\ policy.semantic /\ policy.window # NoValue => context.size <= policy.window
              /\ Atomic(context.kept)
              /\ context.summary => Bulky \subseteq retained
              /\ ~context.summary => context.kept = Len(groups)
        /\ IsInjective(announced) /\ ToSet(announced) \subseteq retained
=============================================================================

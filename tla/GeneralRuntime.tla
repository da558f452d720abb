----------------------------- MODULE GeneralRuntime -----------------------------
(***************************************************************************)
(* The Python kernel (__init__.py): an evaluation campaign that calls the  *)
(* general runtime once for every repetition of every eligible case, with  *)
(* one of the two seed packs (proof_packs.py) as the domain.  A run is     *)
(* admitted, staged, executed by the bounded agent loop under the common   *)
(* authority of four grants, frozen, judged by an evaluator in a process   *)
(* of its own, and reported.  The model, the tools and the evaluator's     *)
(* process do what they like; the campaign's process may die at any time,  *)
(* and its disk may refuse a write.                                        *)
(*                                                                         *)
(* A file is the state of its content, a scope the files it covers, and an *)
(* identity is only what has changed since it was registered.              *)
(***************************************************************************)
EXTENDS Integers, Sequences, FiniteSets, SequencesExt

CONSTANTS
    Capabilities,        \* what a grant names: the tools of the adapters
    Scopes, Covers,      \* the resources a grant names, and the files of each
    Setups,              \* the requests: tasks, repetitions, grants and limits
    HardSteps, HardCalls,
    None

Files == {"input", "output", "extra"}
\* The packs: an aggregation that writes a table, a repair of a source file.
Domains == {"data", "coding"}
Grant == [Capabilities -> SUBSET Scopes]
Request ==
    [domain : Domains, implemented : Seq(BOOLEAN), selected : SUBSET Nat, repetitions : Nat \ {0},
     runtime : Grant, caller : Grant, pack : Grant, task : Grant,
     required : SUBSET Capabilities, steps : Nat, calls : Nat]

ASSUME RuntimeAssumption ==
    /\ {"read", "write"} \subseteq Capabilities
    /\ Covers \in [Scopes -> SUBSET Files]
    /\ HardSteps \in Nat \ {0} /\ HardCalls \in Nat \ {0}
    /\ Setups \subseteq Request

VARIABLES
    pc,
    setup,     \* the campaign's request
    sound,     \* the suite's content has the hashes of its manifest
    drifted,   \* what is not as it was registered
    rest,      \* the slots still to be attempted
    attempts,
    kept,      \* the files under attempts/
    summary,   \* the one in report.json
    authority, \* of the run: what each capability may touch
    run,       \* RunResult: its steps, calls and status
    pending,   \* the tool action of the model
    effects,   \* what the tools touched
    workspace, \* the content of the files
    artifact,  \* the frozen snapshot
    loopTrace, runtimeTrace,
    judge      \* the evaluator's process group, as it is and as it is known

campaign == <<rest, attempts, kept, summary>>
loop == <<authority, run, pending, effects, workspace>>
traces == <<loopTrace, runtimeTrace>>
vars == <<pc, setup, sound, drifted, campaign, loop, artifact, traces, judge>>

RunStatus ==
    {"succeeded", "model_error", "parse_error", "tool_error", "step_limit", "timeout", "budget_exceeded",
     "policy_blocked"}
EvaluationStatus == {"passed", "failed", "error", "not_run"}

Content == {"absent", "original", "right", "wrong"}

ASSUME NoneIsNothing ==
    None \notin RunStatus \cup EvaluationStatus \cup {"runtime.exception"} \cup [Files -> Content]

Fixture(domain) ==
    [f \in Files |-> IF f = "input" \/ (f = "output" /\ domain = "coding") THEN "original" ELSE "absent"]

\* The scopes of the seed bundle, and what its tasks ask for.
Seed(domain) ==
    [c \in Capabilities |-> CASE c = "write" -> {"output"}
                              [] c = "read" -> IF domain = "data" THEN {"input"} ELSE {"output"}
                              [] OTHER -> {}]
Active == {"read", "write"}

\* An adapter's identity, the manifest, a binding or the material of the pack;
\* a function its module calls, as long as nobody computes an identity.
Drifts == {"identity", "helper"}

Nobody == [leader |-> "none", deaf |-> FALSE, child |-> "none", ready |-> FALSE, answer |-> "none",
           grouped |-> FALSE, heard |-> "none"]

Attempt ==
    [slot : Nat \X Nat, intact : BOOLEAN, status : RunStatus \cup {None},
     evaluation : EvaluationStatus \cup {None}, artifact : [Files -> Content] \cup {None}]

Over == {"rejected", "aborted", "crashed", "reported"}
Judging == {"spawned", "judging", "signal", "joining"}

TypeOK ==
    /\ pc \in Over \cup Judging \cup {"create", "suite", "case", "admitted", "turn", "tool", "ended", "frozen", "judged", "keep"}
    /\ setup \in Setups /\ sound \in BOOLEAN /\ drifted \in Drifts \cup {None}
    /\ rest \in Seq(Nat \X Nat) /\ attempts \in Seq(Attempt) /\ kept \in Seq(Attempt)
    /\ authority \in Grant
    /\ run \in [steps : 0..HardSteps, calls : 0..HardCalls, status : RunStatus \cup {None}]
    /\ pending \in [tool : Capabilities, resource : Files, content : Content] \cup {None}
    /\ effects \in Seq(Capabilities \X Files)
    /\ workspace \in [Files -> Content] /\ artifact \in [Files -> Content] \cup {None}
    /\ judge.leader \in {"none", "starting", "judging", "leaving", "gone"}
    /\ judge.child \in {"none", "alive", "deaf"}

-----------------------------------------------------------------------------
(* Admission.                                                              *)

\* A case of the catalog is eligible where the bundle implements its task.
Eligible(request, i) == request.implemented[i]

Schedule(request) ==
    LET Slots(i) == IF i \in request.selected /\ Eligible(request, i)
                       THEN [r \in 1..request.repetitions |-> <<i, r>>] ELSE <<>>
    IN  FlattenSeq([i \in DOMAIN request.implemented |-> Slots(i)])

\* The grant of the caller is not looked at.
EffectiveUncalled == [c \in Capabilities |-> setup.runtime[c] \cap setup.pack[c] \cap setup.task[c]]

\* _resolve_authority: the scopes all four name, not the files they share.
Effective ==
    [c \in Capabilities |-> setup.runtime[c] \cap setup.caller[c] \cap setup.pack[c] \cap setup.task[c]]

Least(a, b) == IF a <= b THEN a ELSE b
Limits == [steps |-> Least(setup.steps, HardSteps), calls |-> Least(setup.calls, HardCalls)]

Init ==
    /\ pc = "create" /\ setup \in Setups /\ sound \in BOOLEAN /\ drifted \in {None, "identity"}
    /\ rest = Schedule(setup) /\ attempts = <<>> /\ kept = <<>> /\ summary = None
    /\ authority = [c \in Capabilities |-> {}]
    /\ run = [steps |-> 0, calls |-> 0, status |-> None] /\ pending = None
    /\ effects = <<>> /\ workspace = Fixture(setup.domain) /\ artifact = None
    /\ loopTrace = <<>> /\ runtimeTrace = <<>>
    /\ judge = Nobody

\* The hash of the pack's source and material is the declared one, and the
\* identities of the adapters are those of the registration.
Registered == drifted # "identity"

Create ==
    /\ pc = "create"
    /\ pc' = IF Registered THEN "suite" ELSE "rejected"
    /\ UNCHANGED <<setup, sound, drifted, campaign, loop, artifact, traces, judge>>

\* The hashes of the suite's source, cases and transform are computed again.
SuiteHolds == sound

CreateCampaign ==
    /\ pc = "suite"
    /\ pc' = IF SuiteHolds THEN "case" ELSE "rejected"
    /\ UNCHANGED <<setup, sound, drifted, campaign, loop, artifact, traces, judge>>

\* Something is reconfigured behind the runtime's back.
Drift ==
    /\ pc \notin Over \cup {"create", "suite"} /\ drifted = None
    /\ drifted' \in Drifts
    /\ UNCHANGED <<pc, setup, sound, campaign, loop, artifact, traces, judge>>

Attempted(status, evaluation, snapshot, intact) ==
    /\ attempts' = Append(attempts, [slot |-> Head(rest), intact |-> intact, status |-> status,
                                     evaluation |-> evaluation, artifact |-> snapshot])
    /\ rest' = Tail(rest)
    /\ pc' = "keep"
    /\ UNCHANGED <<kept, summary>>

\* Runtime.run raises: the campaign counts the attempt as an exception.
Excepts(intact) == Attempted(None, None, None, intact)

\* Nothing has happened in the run, which has a workspace of its own.
Fresh ==
    /\ run' = [steps |-> 0, calls |-> 0, status |-> None] /\ pending' = None
    /\ effects' = <<>> /\ workspace' = Fixture(setup.domain) /\ artifact' = None
    /\ loopTrace' = <<>> /\ judge' = Nobody

Unauthorized == \E c \in setup.required : Effective[c] = {}

\* Drift, a task the pack does not compile, limits or an authority that
\* cannot be resolved, or a fixture that cannot be staged.
Refuse ==
    /\ pc = "case" /\ rest # <<>>
    /\ Excepts(Registered)
    /\ Fresh /\ runtimeTrace' = <<>>
    /\ UNCHANGED <<setup, sound, drifted, authority>>

Admit ==
    /\ pc = "case" /\ rest # <<>>
    /\ Registered /\ ~Unauthorized /\ Limits.steps > 0 /\ Limits.calls > 0
    /\ authority' = Effective
    /\ Fresh /\ runtimeTrace' = <<"run_started">>
    /\ pc' = "admitted"
    /\ UNCHANGED <<setup, sound, drifted, campaign>>

-----------------------------------------------------------------------------
(* The agent loop.                                                         *)

Running == UNCHANGED <<setup, sound, drifted, campaign, authority, artifact, runtimeTrace, judge>>

LoopStarts ==
    /\ pc = "admitted"
    /\ loopTrace' = <<"run_started">>
    /\ pc' = "turn"
    /\ Running /\ UNCHANGED <<run, pending, effects, workspace>>

\* The loop records `events`, and its end.
Finishes(calls, steps, events, status) ==
    /\ run' = [steps |-> steps, calls |-> calls, status |-> status]
    /\ loopTrace' = loopTrace \o events \o <<"run_completed">>
    /\ pc' = "ended"

Timeout ==
    /\ pc = "turn"
    /\ Finishes(run.calls, run.steps, <<>>, "timeout")
    /\ Running /\ UNCHANGED <<pending, effects, workspace>>

Budget ==
    /\ pc = "turn" /\ run.calls >= Limits.calls
    /\ Finishes(run.calls, run.steps, <<>>, "budget_exceeded")
    /\ Running /\ UNCHANGED <<pending, effects, workspace>>

Asked ==
    /\ pc = "turn" /\ run.calls < Limits.calls
    /\ Running /\ UNCHANGED <<pending, effects, workspace>>

ModelFails == Asked /\ Finishes(run.calls + 1, run.steps, <<>>, "model_error")

\* A final action, an output that is none, or a tool that is not offered.
ModelEnds(status) ==
    /\ Asked
    /\ Finishes(run.calls + 1, run.steps,
                IF status = "tool_error" THEN <<"model_output", "tool_failed">> ELSE <<"model_output">>, status)

Offered(c) == authority[c] # {}
Allowed(c, resource) == \E s \in authority[c] : resource \in Covers[s]

Denied(c, resource) ==
    /\ Asked /\ Offered(c) /\ ~Allowed(c, resource)
    /\ Finishes(run.calls + 1, run.steps, <<"model_output", "tool_failed">>, "policy_blocked")

Calls(c, resource, content) ==
    /\ pc = "turn" /\ run.calls < Limits.calls
    /\ Offered(c) /\ Allowed(c, resource)
    /\ pending' = [tool |-> c, resource |-> resource, content |-> content]
    /\ run' = [run EXCEPT !.calls = @ + 1]
    /\ loopTrace' = Append(loopTrace, "model_output")
    /\ pc' = "tool"
    /\ Running /\ UNCHANGED <<effects, workspace>>

\* LocalWorkspaceWriteTool.
Written == [workspace EXCEPT ![pending.resource] = pending.content]

\* PaidRevenueAggregateTool and LocalWorkspaceReadTool only read.
Executes ==
    /\ effects' = Append(effects, <<pending.tool, pending.resource>>)
    /\ workspace' = IF pending.tool = "write" THEN Written ELSE workspace

ToolFails ==
    /\ pc = "tool"
    /\ Executes \/ UNCHANGED <<effects, workspace>>
    /\ Finishes(run.calls, run.steps, <<"tool_failed">>, "tool_error")
    /\ pending' = None /\ Running

Complete ==
    /\ pc = "tool"
    /\ Executes
    /\ IF run.steps + 1 >= Limits.steps
          THEN Finishes(run.calls, run.steps + 1, <<"tool_completed">>, "step_limit")
          ELSE /\ run' = [run EXCEPT !.steps = @ + 1]
               /\ loopTrace' = Append(loopTrace, "tool_completed")
               /\ pc' = "turn"
    /\ pending' = None /\ Running

\* A trace cannot be written: that is no result of the run but an exception.
TraceFails ==
    /\ pc \in {"admitted", "turn", "tool", "ended", "frozen", "judged"}
    /\ \/ pc = "tool" /\ Executes
       \/ UNCHANGED <<effects, workspace>>
    /\ Excepts(TRUE)
    /\ UNCHANGED <<setup, sound, drifted, authority, run, pending, artifact, traces, judge>>

\* load_trace.
Loadable(trace) == trace # <<>> /\ Head(trace) = "run_started" /\ Last(trace) = "run_completed"

-----------------------------------------------------------------------------
(* The snapshot and its evaluation.                                        *)

\* _freeze_workspace refuses links, special files and too much of either.
Freeze(frozen) ==
    /\ pc = "ended"
    /\ IF frozen
          THEN /\ artifact' = workspace
               /\ runtimeTrace' = Append(runtimeTrace, "execution_completed")
               /\ pc' = "frozen" /\ UNCHANGED judge
          ELSE /\ runtimeTrace' = runtimeTrace \o <<"execution_completed", "artifact_freeze_failed">>
               /\ judge' = [judge EXCEPT !.heard = "not_run"]
               /\ pc' = "judged" /\ UNCHANGED artifact
    /\ UNCHANGED <<setup, sound, drifted, campaign, loop, loopTrace>>

\* The paid rows of the orders, valid ones, summed by region.
Aggregated(files) == files["output"] = "right"

\* DataAnalysisSeedPack.evaluate: its own files, the orders untouched, the
\* table exact.
DataRight(files) ==
    /\ {f \in Files : files[f] # "absent"} = {"input", "output"}
    /\ files["input"] = "original" /\ Aggregated(files)

\* The source passes the audit, and then the public and the hidden tests.
Repaired(files) == files["output"] = "right"

\* WorkspaceCodingSeedPack.evaluate: the fixture's files, only the source
\* changed, and it does what the tests ask.
CodeRight(files) ==
    /\ \A f \in Files : files[f] = "absent" <=> Fixture("coding")[f] = "absent"
    /\ \A f \in Files \ {"output"} : files[f] = Fixture("coding")[f]
    /\ Repaired(files)

Correct(files) == IF setup.domain = "data" THEN DataRight(files) ELSE CodeRight(files)

Verdict == IF Correct(artifact) THEN "passed" ELSE "failed"

\* A pack that is called as it is now.
OpinionsUnfrozen == IF drifted = "helper" THEN {"passed", "failed"} ELSE {Verdict}

\* The functions of the pack and those they call were copied at registration:
\* whatever drifts during a run, it is these that judge.
Opinions == {Verdict}

Evaluates == UNCHANGED <<setup, sound, drifted, campaign, loop, artifact, traces>>

Alive(leader) == leader \notin {"none", "gone"}

Fork ==
    /\ pc = "frozen"
    /\ judge' = [Nobody EXCEPT !.leader = "starting"]
    /\ pc' = "spawned"
    /\ Evaluates

\* The evaluator's process, until it is gone: it leads a group and says so,
\* may ignore SIGTERM, may start another process, answers, and exits or dies.
Ready == judge.leader = "starting" /\ judge' = [judge EXCEPT !.leader = "judging", !.ready = TRUE]
Deafens == judge.leader = "judging" /\ ~judge.deaf /\ judge' = [judge EXCEPT !.deaf = TRUE]
Spawns(child) == judge.leader = "judging" /\ judge.child = "none" /\ judge' = [judge EXCEPT !.child = child]
Answers(answer) == judge.leader = "judging" /\ judge' = [judge EXCEPT !.answer = answer, !.leader = "leaving"]
Exits == Alive(judge.leader) /\ judge' = [judge EXCEPT !.leader = "gone"]

Evaluator ==
    /\ pc \in Judging /\ UNCHANGED pc /\ Evaluates
    /\ \/ Ready \/ Deafens \/ Exits
       \/ \E child \in {"alive", "deaf"} : Spawns(child)
       \/ \E answer \in Opinions \cup {"error"} : Answers(answer)

Heard(heard) ==
    /\ judge' = [judge EXCEPT !.heard = heard]
    /\ pc' = "signal"
    /\ Evaluates

HearsReady ==
    /\ pc = "spawned" /\ judge.ready
    /\ judge' = [judge EXCEPT !.grouped = TRUE]
    /\ pc' = "judging"
    /\ Evaluates

Silent == IF pc = "spawned" THEN ~judge.ready ELSE judge.answer = "none"

HearsAnswer == pc = "judging" /\ judge.answer # "none" /\ Heard(judge.answer)
HearsEnd == pc \in {"spawned", "judging"} /\ Silent /\ judge.leader = "gone" /\ Heard("error")
TimesOut == pc \in {"spawned", "judging"} /\ Silent /\ judge.leader # "gone" /\ Heard("error")

Terminated == IF judge.deaf THEN judge.leader ELSE "gone"

\* The leader alone is told to end.
SignalLeader ==
    /\ pc = "signal"
    /\ judge' = [judge EXCEPT !.leader = Terminated]
    /\ pc' = "joining"
    /\ Evaluates

\* The group is told to end, or the leader if it is not known to lead one.
Signal ==
    /\ pc = "signal"
    /\ judge' = [judge EXCEPT !.leader = Terminated,
                              !.child = IF judge.grouped /\ @ = "alive" THEN "none" ELSE @]
    /\ pc' = "joining"
    /\ Evaluates

\* A leader that lives a second later is killed, with its group.
Join ==
    /\ pc = "joining"
    /\ judge' = IF Alive(judge.leader)
                   THEN [judge EXCEPT !.leader = "gone", !.child = IF judge.grouped THEN "none" ELSE @]
                   ELSE judge
    /\ pc' = "judged"
    /\ Evaluates

Report ==
    /\ pc = "judged"
    /\ runtimeTrace' = runtimeTrace \o <<"evaluation_completed", "report_completed">>
    /\ Attempted(run.status, judge.heard, artifact, TRUE)
    /\ UNCHANGED <<setup, sound, drifted, loop, artifact, loopTrace, judge>>

-----------------------------------------------------------------------------
(* The campaign.                                                           *)

\* RunReport.passed.
Passed(a) == a.status = "succeeded" /\ a.evaluation = "passed"

\* _attempt_failure_attribution: the execution's end is named first.
Attribution(a) ==
    IF Passed(a) THEN None
    ELSE IF a.status = None THEN "runtime.exception"
    ELSE IF a.status # "succeeded" THEN "execution"
    ELSE a.evaluation

IsError(a) == Attribution(a) \in {"runtime.exception", "error", "not_run"}

PassedAttempts == {i \in DOMAIN attempts : Passed(attempts[i])}
Errors == {i \in DOMAIN attempts : IsError(attempts[i])}

Summary ==
    [attempted |-> Len(attempts), passed |-> Cardinality(PassedAttempts), errors |-> Cardinality(Errors),
     failed |-> Len(attempts) - Cardinality(PassedAttempts) - Cardinality(Errors),
     ineligible |-> Cardinality({i \in setup.selected : ~Eligible(setup, i)})]

Kept == UNCHANGED <<setup, sound, drifted, loop, artifact, traces, judge>>

Keep ==
    /\ pc = "keep"
    /\ kept' = Append(kept, Last(attempts))
    /\ pc' = "case"
    /\ UNCHANGED <<rest, attempts, summary>> /\ Kept

\* Neither a file nor the report is written over; the campaign raises.
KeepFails ==
    /\ pc = "keep" \/ (pc = "case" /\ rest = <<>>)
    /\ pc' = "aborted"
    /\ UNCHANGED campaign /\ Kept

CampaignReports ==
    /\ pc = "case" /\ rest = <<>>
    /\ summary' = Summary
    /\ pc' = "reported"
    /\ UNCHANGED <<rest, attempts, kept>> /\ Kept

Crash ==
    /\ pc \notin Over
    /\ pc' = "crashed"
    /\ UNCHANGED <<setup, sound, drifted, campaign, loop, artifact, traces, judge>>

Model ==
    \/ ModelFails
    \/ \E status \in {"succeeded", "parse_error", "tool_error"} : ModelEnds(status)
    \/ \E c \in Capabilities, f \in Files : Denied(c, f) \/ \E content \in {"right", "wrong"} : Calls(c, f, content)

Runs ==
    \/ Create \/ CreateCampaign \/ Refuse \/ Admit \/ LoopStarts
    \/ Timeout \/ Budget \/ Model \/ ToolFails \/ Complete \/ TraceFails
    \/ \E frozen \in BOOLEAN : Freeze(frozen)
    \/ Fork \/ HearsReady \/ HearsAnswer \/ HearsEnd \/ TimesOut \/ Signal \/ Join \/ Report
    \/ Keep \/ KeepFails \/ CampaignReports

Next == Runs \/ Evaluator \/ Drift \/ Crash

\* The model and the tools answer; nothing is asked of the evaluator.
Spec == Init /\ [][Next]_vars /\ WF_vars(Runs)

-----------------------------------------------------------------------------
(* Properties.                                                             *)

\* Whatever the model asks for, a tool touches only what each of the four
\* grants covers by itself, and no more often than the hard limit says
\* (_resolve_authority, _AuthorizedTool, _resolve_limits).
WithinAuthority ==
    /\ \A i \in DOMAIN effects, grant \in {setup.runtime, setup.caller, setup.pack, setup.task} :
          \E s \in grant[effects[i][1]] : effects[i][2] \in Covers[s]
    /\ Len(effects) <= HardSteps

\* An attempt passes only if the loop ended by itself and what was frozen then
\* is what the domain asks for; whoever began after a drift has no result.
VerdictsAreEarned ==
    \A i \in DOMAIN attempts :
        LET a == attempts[i] IN
        /\ Passed(a) => a.status = "succeeded" /\ a.artifact # None /\ Correct(a.artifact)
        /\ a.artifact = None => a.evaluation \in {None, "not_run"}
        /\ ~a.intact => a.status = None

\* The two traces of a run and its result tell one story, wherever it stops:
\* the loop's trace loads exactly when the loop has a result, the runtime
\* speaks of the execution only then, and an attempt has a result exactly when
\* the trace of its run was closed (load_trace, GeneralAgentRuntime.run).
TracesAgree ==
    LET Reported == Contains(runtimeTrace, "report_completed")
    IN  /\ Contains(runtimeTrace, "execution_completed") => Loadable(loopTrace)
        /\ Loadable(loopTrace) <=> run.status # None
        /\ pc = "keep" => (Last(attempts).status # None <=> Reported)
        /\ Reported => Contains(runtimeTrace, "evaluation_completed")

\* Every slot is attempted once, in the suite's order; all attempts but one
\* that a crash or the disk took are kept; a report counts all of them, each as
\* passed, failed or an error (EvaluationCampaign.run).
CampaignCounts ==
    /\ [i \in DOMAIN attempts |-> attempts[i].slot] \o rest = Schedule(setup)
    /\ IsPrefix(kept, attempts) /\ Len(attempts) <= Len(kept) + 1
    /\ Len(attempts) = Len(kept) + 1 => pc \in {"keep", "aborted", "crashed"}
    /\ pc = "reported" =>
          /\ rest = <<>> /\ kept = attempts
          /\ summary.passed + summary.failed + summary.errors = Len(kept)
          /\ summary.failed =
               Cardinality({i \in DOMAIN attempts : attempts[i].status # None /\ (attempts[i].status # "succeeded" \/ attempts[i].evaluation = "failed")})

\* The traces, the kept attempts and the report agree on what happened.
RecordsAgree == TypeOK /\ TracesAgree /\ CampaignCounts /\ VerdictsAreEarned

\* When an evaluation is recorded the evaluator is gone, and so is what it
\* started, unless one of them ignores SIGTERM or the group was never known;
\* and the campaign ends though its evaluators may not
\* (_terminate_evaluator_process).
EvaluatorIsStopped ==
    /\ [](pc \in {"judged", "keep", "case", "reported", "aborted"} =>
              /\ ~Alive(judge.leader)
              /\ judge.child = "alive" => judge.deaf \/ ~judge.grouped)
    /\ <>(pc \in Over)

=============================================================================

------------------------- MODULE GeneralRuntimeProofs -------------------------
(***************************************************************************)
(* For every set of capabilities and scopes, every request and all limits: *)
(* a tool touches only what each of the four grants covers by itself, and  *)
(* no more often than the hard limit says; and the traces, the attempts    *)
(* and the report of a campaign agree on what happened.                    *)
(***************************************************************************)
EXTENDS GeneralRuntime, FiniteSetTheorems, SequenceTheorems, TLAPS

\* A scope that all four grants name covers the file.
Common(c, resource) == c \in Capabilities /\ resource \in Files /\ \E s \in Effective[c] : resource \in Covers[s]

EffectsCovered ==
    /\ effects \in Seq(Capabilities \X Files)
    /\ \A i \in DOMAIN effects : Common(effects[i][1], effects[i][2])

\* What the loop may still do: the grants are resolved before it starts, the
\* step it works on is within the limits.
LoopBounded ==
    /\ \A c \in Capabilities : authority[c] \subseteq Effective[c]
    /\ pc = "tool" => Common(pending.tool, pending.resource)
    /\ pc \in {"admitted", "turn", "tool"} =>
          "steps" \in DOMAIN run /\ Len(effects) = run.steps /\ run.steps < Limits.steps

AuthorityInv ==
    /\ setup \in Setups
    /\ EffectsCovered
    /\ LoopBounded
    /\ Len(effects) <= HardSteps

-----------------------------------------------------------------------------
LEMMA LimitsBounded ==
    ASSUME setup \in Setups
    PROVE  Limits.steps \in Nat /\ Limits.steps <= HardSteps
BY RuntimeAssumption DEF Limits, Least, Request

LEMMA AuthorityBegins == Init => AuthorityInv
<1> SUFFICES ASSUME Init PROVE AuthorityInv
  OBVIOUS
<1>1. EffectsCovered
  BY DEF Init, EffectsCovered
<1>2. LoopBounded
  BY DEF Init, LoopBounded
<1> QED
  BY <1>1, <1>2, RuntimeAssumption DEF Init, AuthorityInv

\* A tool that acts does so once, on what it was called with.
LEMMA EffectIsCommon ==
    ASSUME AuthorityInv, pc = "tool", Executes \/ UNCHANGED <<effects, workspace>>, UNCHANGED setup
    PROVE  /\ EffectsCovered'
           /\ Len(effects') \in {Len(effects), Len(effects) + 1}
           /\ Executes => Len(effects') = Len(effects) + 1
           /\ Len(effects') <= HardSteps
<1>1. Len(effects) + 1 <= HardSteps
  BY LimitsBounded, RuntimeAssumption DEF AuthorityInv, LoopBounded, EffectsCovered
<1>2. Common(pending.tool, pending.resource)
  BY DEF AuthorityInv, LoopBounded
<1>3. CASE UNCHANGED effects
  <2>1. ~Executes
    BY <1>3, <1>2 DEF Executes, AuthorityInv, EffectsCovered, Common
  <2> QED
    BY <1>3, <2>1 DEF AuthorityInv, EffectsCovered, Common, Effective
<1>4. CASE Executes
  <2> DEFINE e == <<pending.tool, pending.resource>>
  <2>1. effects' = Append(effects, e) /\ e \in Capabilities \X Files
    BY <1>2, <1>4 DEF Executes, Common
  <2>2. /\ effects' \in Seq(Capabilities \X Files)
        /\ Len(effects') = Len(effects) + 1
        /\ \A i \in DOMAIN effects' : IF i \in DOMAIN effects THEN effects'[i] = effects[i] ELSE effects'[i] = e
    BY <2>1 DEF AuthorityInv, EffectsCovered
  <2>3. \A i \in DOMAIN effects' : Common(effects'[i][1], effects'[i][2])
    BY <2>2, <1>2 DEF AuthorityInv, EffectsCovered
  <2>4. EffectsCovered'
    BY <2>2, <2>3 DEF EffectsCovered, Common, Effective
  <2> QED
    BY <2>2, <2>4, <1>1 DEF AuthorityInv, EffectsCovered
<1> QED
  BY <1>3, <1>4

\* A step that touches nothing and calls no tool.
LEMMA IdleSteps ==
    ASSUME AuthorityInv, UNCHANGED <<setup, effects, authority>>,
           pc' \notin {"admitted", "turn", "tool"} \/ UNCHANGED <<pc, pending, run>>
    PROVE  AuthorityInv'
BY DEF AuthorityInv, EffectsCovered, LoopBounded, Common, Effective, Limits, Least

LEMMA RunSteps ==
    ASSUME AuthorityInv,
           \/ Create \/ CreateCampaign \/ Refuse \/ Admit \/ LoopStarts
           \/ Timeout \/ Budget \/ Model \/ ToolFails \/ Complete \/ TraceFails
    PROVE  AuthorityInv'
<1>1. CASE Create \/ CreateCampaign
  BY <1>1, IdleSteps DEF Create, CreateCampaign, loop
<1>2. CASE Refuse
  <2>1. /\ setup' = setup /\ authority' = authority /\ effects' = <<>> /\ pc' = "keep"
    BY <1>2 DEF Refuse, Excepts, Attempted, Fresh
  <2> QED
    BY <2>1, RuntimeAssumption DEF AuthorityInv, EffectsCovered, LoopBounded, Effective
<1>3. CASE Admit
  <2>1. /\ setup' = setup /\ authority' = Effective /\ effects' = <<>> /\ pc' = "admitted"
        /\ "steps" \in DOMAIN run' /\ run'.steps = 0 /\ Limits.steps > 0
    BY <1>3 DEF Admit, Fresh
  <2> QED
    BY <2>1, RuntimeAssumption DEF AuthorityInv, EffectsCovered, LoopBounded, Effective, Limits, Least
<1>4. CASE LoopStarts
  BY <1>4 DEF LoopStarts, Running, AuthorityInv, EffectsCovered, LoopBounded, Common, Effective, Limits, Least
<1>5. CASE Timeout \/ Budget
  BY <1>5, IdleSteps DEF Timeout, Budget, Finishes, Running
<1>6. CASE Model
  <2>1. CASE ModelFails
    BY <2>1, IdleSteps DEF ModelFails, Asked, Finishes, Running
  <2>2. CASE \E status \in {"succeeded", "parse_error", "tool_error"} : ModelEnds(status)
    BY <2>2, IdleSteps DEF ModelEnds, Asked, Finishes, Running
  <2>3. ASSUME NEW c \in Capabilities, NEW f \in Files, Denied(c, f)
        PROVE  AuthorityInv'
    BY <2>3, IdleSteps DEF Denied, Asked, Finishes, Running
  <2>4. ASSUME NEW c \in Capabilities, NEW f \in Files, NEW content \in {"right", "wrong"}, Calls(c, f, content)
        PROVE  AuthorityInv'
    <3> USE DEF AuthorityInv, LoopBounded
    <3>1. /\ setup' = setup /\ authority' = authority /\ effects' = effects /\ pc = "turn" /\ pc' = "tool"
          /\ "steps" \in DOMAIN run' /\ run'.steps = run.steps
          /\ pending' = [tool |-> c, resource |-> f, content |-> content]
          /\ \E s \in authority[c] : f \in Covers[s]
      BY <2>4 DEF Calls, Running, Allowed
    <3>2. Common(c, f)
      BY <3>1 DEF Common
    <3> QED
      BY <3>1, <3>2 DEF EffectsCovered, Common, Effective, Limits, Least
  <2> QED
    BY <1>6, <2>1, <2>2, <2>3, <2>4 DEF Model
<1>7. CASE ToolFails
  <2>1. EffectsCovered' /\ Len(effects') <= HardSteps
    BY <1>7, EffectIsCommon DEF ToolFails, Running
  <2>2. setup' = setup /\ authority' = authority /\ pc' = "ended"
    BY <1>7 DEF ToolFails, Finishes, Running
  <2> QED
    BY <2>1, <2>2 DEF AuthorityInv, LoopBounded, Effective
<1>8. CASE Complete
  <2>1. EffectsCovered' /\ Len(effects') <= HardSteps /\ Len(effects') = Len(effects) + 1
    BY <1>8, EffectIsCommon DEF Complete, Running
  <2>2. setup' = setup /\ authority' = authority /\ pc = "tool"
    BY <1>8 DEF Complete, Running
  <2>3. pc' = "ended" \/ (pc' = "turn" /\ "steps" \in DOMAIN run' /\ run'.steps = run.steps + 1 /\ ~(run.steps + 1 >= Limits.steps))
    BY <1>8 DEF Complete, Finishes, AuthorityInv, LoopBounded
  <2>4. Len(effects) = run.steps /\ Len(effects) \in Nat
    BY <2>2 DEF AuthorityInv, LoopBounded, EffectsCovered
  <2>5. pc' = "turn" => Len(effects') = run'.steps /\ run'.steps < Limits.steps
    BY <2>1, <2>3, <2>4, LimitsBounded DEF AuthorityInv
  <2>6. Limits' = Limits /\ Effective' = Effective
    BY <2>2 DEF Limits, Least, Effective
  <2>7. LoopBounded'
    BY <2>2, <2>3, <2>5, <2>6 DEF AuthorityInv, LoopBounded
  <2> QED
    BY <2>1, <2>2, <2>7 DEF AuthorityInv
<1>9. CASE TraceFails
  <2>1. setup' = setup /\ authority' = authority /\ pc' = "keep"
    BY <1>9 DEF TraceFails, Excepts, Attempted
  <2>2. CASE pc = "tool" /\ Executes
    BY <2>1, <2>2, EffectIsCommon DEF AuthorityInv, LoopBounded, Effective
  <2>3. CASE UNCHANGED <<effects, workspace>>
    BY <2>1, <2>3, IdleSteps
  <2> QED
    BY <1>9, <2>2, <2>3 DEF TraceFails
<1> QED
  BY <1>1, <1>2, <1>3, <1>4, <1>5, <1>6, <1>7, <1>8, <1>9

LEMMA OtherSteps ==
    ASSUME AuthorityInv,
           \/ \E frozen \in BOOLEAN : Freeze(frozen)
           \/ Fork \/ HearsReady \/ HearsAnswer \/ HearsEnd \/ TimesOut \/ Signal \/ Join \/ Report
           \/ Keep \/ KeepFails \/ CampaignReports
           \/ Evaluator \/ Drift \/ Crash \/ UNCHANGED vars
    PROVE  AuthorityInv'
<1> USE IdleSteps DEF loop
<1>1. CASE \E frozen \in BOOLEAN : Freeze(frozen)
  BY <1>1 DEF Freeze
<1>2. CASE Fork \/ HearsReady \/ HearsAnswer \/ HearsEnd \/ TimesOut \/ Signal \/ Join
  BY <1>2 DEF Fork, HearsReady, HearsAnswer, HearsEnd, TimesOut, Heard, Signal, Join, Evaluates
<1>3. CASE Report
  BY <1>3 DEF Report, Attempted
<1>4. CASE Keep \/ KeepFails \/ CampaignReports
  BY <1>4 DEF Keep, KeepFails, CampaignReports, Kept
<1>5. CASE Evaluator
  BY <1>5 DEF Evaluator, Evaluates
<1>6. CASE Drift \/ Crash
  BY <1>6 DEF Drift, Crash
<1>7. CASE UNCHANGED vars
  BY <1>7 DEF vars
<1> QED
  BY <1>1, <1>2, <1>3, <1>4, <1>5, <1>6, <1>7

LEMMA AuthoritySuffices == AuthorityInv => WithinAuthority
<1> SUFFICES ASSUME AuthorityInv PROVE WithinAuthority
  OBVIOUS
<1>1. ASSUME NEW i \in DOMAIN effects, NEW grant \in {setup.runtime, setup.caller, setup.pack, setup.task}
      PROVE  \E s \in grant[effects[i][1]] : effects[i][2] \in Covers[s]
  <2>1. PICK s \in Effective[effects[i][1]] : effects[i][2] \in Covers[s]
    BY DEF AuthorityInv, EffectsCovered, Common
  <2>2. effects[i][1] \in Capabilities
    BY DEF AuthorityInv, EffectsCovered, Common
  <2>3. s \in grant[effects[i][1]]
    BY <2>1, <2>2 DEF Effective
  <2> QED
    BY <2>1, <2>3
<1> QED
  BY <1>1 DEF WithinAuthority, AuthorityInv

\* Whatever the model asks for, however often the tools are called, whoever
\* dies or drifts: what a tool touched each of the four grants covers by itself
\* (_resolve_authority, _AuthorizedTool, _resolve_limits).
THEOREM ToolsStayWithinGrants == Spec => []WithinAuthority
<1>1. AuthorityInv /\ [Next]_vars => AuthorityInv'
  BY RunSteps, OtherSteps DEF Next, Runs
<1> QED
  BY AuthorityBegins, <1>1, AuthoritySuffices, PTL DEF Spec

-----------------------------------------------------------------------------
(* What is kept of a run agrees with what happened in it.                  *)

Looping == {"admitted", "turn", "tool"}
Evaluated == {"frozen"} \cup Judging
InRun == Looping \cup {"ended", "judged"} \cup Evaluated
Phases == Over \cup InRun \cup {"create", "suite", "case", "keep"}

\* The loop: its result is open until it ends, and within its limits.
LoopTyped ==
    /\ pc \in Phases /\ setup \in Setups /\ sound \in BOOLEAN /\ drifted \in Drifts \cup {None}
    /\ authority \in Grant
    /\ run \in [steps : 0..HardSteps, calls : 0..HardCalls, status : RunStatus \cup {None}]
    /\ pending \in [tool : Capabilities, resource : Files, content : Content] \cup {None}
    /\ workspace \in [Files -> Content]

LoopProceeds ==
    /\ pc \in Looping => run.status = None
    /\ pc = "tool" => pending \in [tool : Capabilities, resource : Files, content : Content]
    /\ pc \in {"ended", "judged"} \cup Evaluated => run.status \in RunStatus

\* The evaluator: what it answered, and what was heard of it.
JudgeTyped ==
    /\ judge \in [leader : {"none", "starting", "judging", "leaving", "gone"}, deaf : BOOLEAN,
                  child : {"none", "alive", "deaf"}, ready : BOOLEAN,
                  answer : {"none", "passed", "failed", "error"}, grouped : BOOLEAN,
                  heard : {"none", "passed", "failed", "error", "not_run"}]
    /\ artifact \in [Files -> Content] \cup {None}

Opinion(verdict) == verdict \in {"passed", "failed", "error"} /\ (verdict = "passed" => Correct(artifact))

JudgeAnswers ==
    /\ pc \in Looping \cup {"ended"} => artifact = None /\ judge = Nobody
    /\ pc \in Evaluated => artifact # None
    /\ pc = "frozen" => judge = Nobody
    /\ pc \in Judging /\ judge.answer # "none" => Opinion(judge.answer)
    /\ pc \in {"signal", "joining"} => Opinion(judge.heard)
    /\ pc = "judged" => \/ artifact = None /\ judge.heard = "not_run"
                        \/ artifact # None /\ Opinion(judge.heard)

\* Nothing of the evaluator is left but what nobody could stop.
Stopped == ~Alive(judge.leader) /\ (judge.child = "alive" => judge.deaf \/ ~judge.grouped)
JudgeStops ==
    /\ pc \notin Judging \cup {"crashed"} => Stopped
    /\ pc = "joining" => (Alive(judge.leader) /\ judge.deaf) \/ Stopped

\* The traces: which of them is open.
Event ==
    {"run_started", "model_output", "tool_completed", "tool_failed", "run_completed", "execution_completed",
     "artifact_freeze_failed", "evaluation_completed", "report_completed"}
TracesTyped == loopTrace \in Seq(Event) /\ runtimeTrace \in Seq(Event)

LoopTraceTells ==
    /\ Loadable(loopTrace) <=> run.status # None
    /\ pc = "admitted" => loopTrace = <<>>
    /\ pc \in {"turn", "tool"} => loopTrace # <<>> /\ Head(loopTrace) = "run_started"

RuntimeTraceTells ==
    /\ Contains(runtimeTrace, "execution_completed") => run.status # None
    /\ pc \in Looping \cup {"ended"} => ~Contains(runtimeTrace, "execution_completed")
    /\ pc \in InRun => ~Contains(runtimeTrace, "report_completed")
    /\ Contains(runtimeTrace, "report_completed") => Contains(runtimeTrace, "evaluation_completed")

LastTells ==
    pc = "keep" => (Last(attempts).status # None <=> Contains(runtimeTrace, "report_completed"))

\* The campaign: an attempt for every slot that is done.
CampaignTyped == rest \in Seq(Nat \X Nat) /\ attempts \in Seq(Attempt) /\ kept \in Seq(Attempt)

SlotsInOrder == [i \in DOMAIN attempts |-> attempts[i].slot] \o rest = Schedule(setup)

Behind == attempts # <<>> /\ attempts = Append(kept, Last(attempts))
KeptInOrder ==
    /\ pc \in InRun => rest # <<>>
    /\ kept = attempts \/ Behind
    /\ pc = "keep" => Behind
    /\ pc \notin {"keep", "aborted", "crashed"} => kept = attempts
    /\ pc = "reported" => rest = <<>> /\ summary = Summary

Earned(a) ==
    \/ a.status = None /\ a.evaluation = None /\ a.artifact = None
    \/ /\ a.status \in RunStatus /\ a.evaluation \in EvaluationStatus /\ a.intact
       /\ a.evaluation = "passed" => a.artifact # None /\ Correct(a.artifact)
       /\ a.artifact = None => a.evaluation = "not_run"
AttemptsEarned == \A i \in DOMAIN attempts : Earned(attempts[i])

-----------------------------------------------------------------------------
(* The loop.                                                               *)

RunRecord == [steps : 0..HardSteps, calls : 0..HardCalls, status : RunStatus \cup {None}]
PendingRecord == [tool : Capabilities, resource : Files, content : Content]
LoopInv == LoopTyped /\ LoopProceeds

LEMMA LimitsTyped ==
    ASSUME setup \in Setups
    PROVE  Limits.calls \in Nat /\ Limits.calls <= HardCalls
BY RuntimeAssumption DEF Limits, Least, Request

LEMMA EffectiveTyped ==
    ASSUME setup \in Setups
    PROVE  Effective \in Grant
BY RuntimeAssumption DEF Effective, Request, Grant

LEMMA StatusIsSomething == None \notin RunStatus
BY NoneIsNothing

LEMMA LoopBegins == Init => LoopInv
BY RuntimeAssumption DEF Init, LoopInv, LoopTyped, LoopProceeds, Phases, Over, InRun, Looping, Evaluated,
    Judging, Drifts, Grant, Fixture, Content

\* A loop that goes on is within its limits.
LEMMA WithinLimits ==
    ASSUME AuthorityInv, LoopInv, pc \in {"turn", "tool"}
    PROVE  run.steps + 1 <= HardSteps /\ (run.calls < Limits.calls => run.calls + 1 <= HardCalls)
BY LimitsTyped, LimitsBounded, RuntimeAssumption DEF AuthorityInv, LoopBounded, LoopInv, LoopTyped, RunRecord

LEMMA ExecutesTyped ==
    ASSUME LoopInv, pc = "tool", Executes \/ UNCHANGED <<effects, workspace>>
    PROVE  workspace' \in [Files -> Content]
BY DEF LoopInv, LoopTyped, LoopProceeds, Executes, Written

\* Steps that leave the loop alone.
LEMMA LoopRests ==
    ASSUME LoopInv, UNCHANGED <<setup, sound, loop>>, drifted' \in Drifts \cup {None}, pc' \in Phases \ {"admitted", "turn", "tool", "ended"},
           pc' \in {"judged"} \cup Evaluated => run.status \in RunStatus
    PROVE  LoopInv'
BY DEF LoopInv, LoopTyped, LoopProceeds, loop, Looping

LEMMA LoopAround ==
    ASSUME LoopInv,
           \/ Create \/ CreateCampaign \/ \E frozen \in BOOLEAN : Freeze(frozen)
           \/ Fork \/ HearsReady \/ HearsAnswer \/ HearsEnd \/ TimesOut \/ Signal \/ Join \/ Report
           \/ Keep \/ KeepFails \/ CampaignReports \/ Evaluator \/ Drift \/ Crash \/ UNCHANGED vars
    PROVE  LoopInv'
<1>0. drifted \in Drifts \cup {None} /\ pc \in Phases
  BY DEF LoopInv, LoopTyped
<1>1. CASE Create \/ CreateCampaign
  BY <1>1, <1>0, LoopRests DEF Create, CreateCampaign, Phases, Over, InRun, Looping, Evaluated, Judging
<1>2. CASE \E frozen \in BOOLEAN : Freeze(frozen)
  <2>1. run.status \in RunStatus
    BY <1>2 DEF Freeze, LoopInv, LoopProceeds
  <2> QED
    BY <1>2, <1>0, <2>1, LoopRests DEF Freeze, Phases, Over, InRun, Looping, Evaluated, Judging
<1>3. CASE Fork \/ HearsReady \/ HearsAnswer \/ HearsEnd \/ TimesOut \/ Signal \/ Join
  <2>1. pc \in Evaluated /\ pc' \in Judging \cup {"judged"} /\ Evaluates
    BY <1>3 DEF Fork, HearsReady, HearsAnswer, HearsEnd, TimesOut, Heard, Signal, Join, Evaluated, Judging
  <2>2. run.status \in RunStatus
    BY <2>1 DEF LoopInv, LoopProceeds
  <2> QED
    BY <2>1, <1>0, <2>2, LoopRests DEF Evaluates, Phases, Over, InRun, Looping, Evaluated, Judging
<1>4. CASE Report
  BY <1>4, <1>0, LoopRests DEF Report, Attempted, Phases, Over, InRun, Looping, Evaluated, Judging
<1>5. CASE Keep \/ KeepFails \/ CampaignReports
  BY <1>5, <1>0, LoopRests DEF Keep, KeepFails, CampaignReports, Kept, Phases, Over, InRun, Looping, Evaluated, Judging
<1>6. CASE Evaluator
  BY <1>6 DEF Evaluator, Evaluates, loop, LoopInv, LoopTyped, LoopProceeds
<1>7. CASE Drift \/ UNCHANGED vars
  BY <1>7 DEF Drift, vars, loop, LoopInv, LoopTyped, LoopProceeds
<1>8. CASE Crash
  BY <1>8, <1>0, LoopRests DEF Crash, Phases, Over, InRun, Looping, Evaluated, Judging
<1> QED
  BY <1>1, <1>2, <1>3, <1>4, <1>5, <1>6, <1>7, <1>8

LEMMA LoopWithin ==
    ASSUME AuthorityInv, LoopInv,
           Refuse \/ Admit \/ LoopStarts \/ Timeout \/ Budget \/ Model \/ ToolFails \/ Complete \/ TraceFails
    PROVE  LoopInv'
<1> DEFINE Ended(r) == r \in RunRecord /\ r.status \in RunStatus
<1> USE DEF RunRecord
<1>r. run \in RunRecord
  BY DEF LoopInv, LoopTyped
<1>1. CASE Refuse \/ Admit
  <2>1. /\ authority' \in Grant /\ UNCHANGED <<setup, sound, drifted>> /\ pc' \in {"keep", "admitted"}
        /\ run' = [steps |-> 0, calls |-> 0, status |-> None] /\ pending' = None /\ workspace' = Fixture(setup.domain)
    BY <1>1, EffectiveTyped DEF Refuse, Admit, Excepts, Attempted, Fresh, LoopInv, LoopTyped
  <2>2. workspace' \in [Files -> Content]
    BY <2>1 DEF Fixture, Content
  <2>3. run' \in RunRecord /\ run'.status = None
    BY <2>1, RuntimeAssumption
  <2> QED
    BY <2>1, <2>2, <2>3 DEF LoopInv, LoopTyped, LoopProceeds, Phases, Over, InRun, Looping, Evaluated, Judging
<1>2. CASE LoopStarts
  BY <1>2 DEF LoopStarts, Running, LoopInv, LoopTyped, LoopProceeds, Phases, Over, InRun, Looping, Evaluated, Judging
<1>3. ASSUME NEW calls \in 0..HardCalls, NEW steps \in 0..HardSteps, NEW events, NEW status \in RunStatus,
             Finishes(calls, steps, events, status), Running, pending' = pending \/ pending' = None,
             workspace' \in [Files -> Content]
      PROVE  LoopInv'
  <2>1. run' \in RunRecord /\ run'.status \in RunStatus /\ pc' = "ended"
    BY <1>3 DEF Finishes
  <2> QED
    BY <1>3, <2>1 DEF Running, LoopInv, LoopTyped, LoopProceeds, Phases, Over, InRun, Looping, Evaluated, Judging
<1>4. CASE Timeout \/ Budget
  BY <1>3, <1>4, <1>r DEF Timeout, Budget, LoopInv, LoopTyped, RunStatus
<1>5. CASE Model
  <2>0. pc = "turn" /\ run.calls < Limits.calls
    BY <1>5 DEF Model, ModelFails, ModelEnds, Denied, Calls, Asked
  <2>1. run.calls + 1 \in 0..HardCalls
    BY <2>0, <1>r, WithinLimits
  <2>2. CASE ModelFails
    BY <1>3, <2>1, <2>2, <1>r DEF ModelFails, Asked, LoopInv, LoopTyped, RunStatus
  <2>3. ASSUME NEW status \in {"succeeded", "parse_error", "tool_error"}, ModelEnds(status)
        PROVE  LoopInv'
    BY <1>3, <2>1, <2>3, <1>r DEF ModelEnds, Asked, LoopInv, LoopTyped, RunStatus
  <2>4. ASSUME NEW c \in Capabilities, NEW f \in Files, Denied(c, f)
        PROVE  LoopInv'
    BY <1>3, <2>1, <2>4, <1>r DEF Denied, Asked, LoopInv, LoopTyped, RunStatus
  <2>5. ASSUME NEW c \in Capabilities, NEW f \in Files, NEW content \in {"right", "wrong"}, Calls(c, f, content)
        PROVE  LoopInv'
    <3>1. run' \in RunRecord /\ run'.status = run.status
      BY <2>1, <2>5, <1>r DEF Calls
    <3>2. pending' \in PendingRecord /\ pc' = "tool" /\ UNCHANGED workspace /\ Running
      BY <2>5 DEF Calls, PendingRecord, Content
    <3> QED
      BY <2>0, <3>1, <3>2 DEF PendingRecord, Running, LoopInv, LoopTyped, LoopProceeds, Phases, Over, InRun, Looping, Evaluated, Judging
  <2> QED
    BY <1>5, <2>2, <2>3, <2>4, <2>5 DEF Model
<1>6. CASE ToolFails
  BY <1>3, <1>6, <1>r, ExecutesTyped DEF ToolFails, RunStatus
<1>7. CASE Complete
  <2>1. run.steps + 1 \in 0..HardSteps
    BY <1>7, <1>r, WithinLimits DEF Complete
  <2>2. workspace' \in [Files -> Content] /\ pending' = None /\ Running /\ pc = "tool"
    BY <1>7, ExecutesTyped DEF Complete
  <2>3. CASE run.steps + 1 >= Limits.steps
    BY <1>3, <1>7, <1>r, <2>1, <2>2, <2>3 DEF Complete, RunStatus
  <2>4. CASE ~(run.steps + 1 >= Limits.steps)
    <3>1. run' \in RunRecord /\ run'.status = run.status /\ pc' = "turn"
      BY <1>7, <2>1, <2>4, <1>r DEF Complete
    <3> QED
      BY <2>2, <3>1 DEF Running, LoopInv, LoopTyped, LoopProceeds, Phases, Over, InRun, Looping, Evaluated, Judging
  <2> QED
    BY <2>3, <2>4
<1>8. CASE TraceFails
  <2>1. workspace' \in [Files -> Content]
    BY <1>8, ExecutesTyped DEF TraceFails, LoopInv, LoopTyped
  <2>2. pc' = "keep" /\ UNCHANGED <<setup, sound, drifted, authority, run, pending>>
    BY <1>8 DEF TraceFails, Excepts, Attempted
  <2> QED
    BY <2>1, <2>2 DEF LoopInv, LoopTyped, LoopProceeds, Phases, Over, InRun, Looping, Evaluated, Judging
<1> QED
  BY <1>1, <1>2, <1>4, <1>5, <1>6, <1>7, <1>8

-----------------------------------------------------------------------------
(* The evaluator.                                                          *)

JudgeInv == JudgeTyped /\ JudgeAnswers /\ JudgeStops

LEMMA NobodyTyped ==
    judge = Nobody /\ artifact \in [Files -> Content] \cup {None} => JudgeTyped
BY DEF Nobody, JudgeTyped

LEMMA NobodyStops == judge = Nobody => Stopped
BY DEF Nobody, Stopped, Alive

LEMMA JudgeBegins == Init => JudgeInv
BY NobodyTyped, NobodyStops DEF Init, JudgeInv, JudgeAnswers, JudgeStops, Looping, Evaluated, Judging

\* Steps that leave the evaluator and the snapshot alone.
LEMMA JudgeRests ==
    ASSUME JudgeInv, UNCHANGED <<setup, artifact, judge>>,
           \/ pc' = pc \/ pc' = "crashed"
           \/ /\ pc \notin Judging \cup {"crashed"}
              /\ pc' \in Over \cup {"suite", "case", "keep"}
           \/ pc \in Looping /\ pc' \in Looping \cup {"ended"}
    PROVE  JudgeInv'
BY DEF JudgeInv, JudgeTyped, JudgeAnswers, JudgeStops, Stopped, Opinion, Correct, Looping, Evaluated, Judging, Over

LEMMA JudgeAround ==
    ASSUME JudgeInv,
           \/ Create \/ CreateCampaign \/ LoopStarts \/ Timeout \/ Budget \/ Model \/ ToolFails \/ Complete \/ TraceFails
           \/ Report \/ Keep \/ KeepFails \/ CampaignReports \/ Drift \/ Crash \/ UNCHANGED vars
    PROVE  JudgeInv'
<1>1. CASE Create \/ CreateCampaign
  BY <1>1, JudgeRests DEF Create, CreateCampaign, Over, Judging
<1>2. CASE LoopStarts \/ Timeout \/ Budget \/ ToolFails
  BY <1>2, JudgeRests DEF LoopStarts, Timeout, Budget, ToolFails, Finishes, Running, Looping
<1>3. CASE Complete
  BY <1>3, JudgeRests DEF Complete, Finishes, Running, Looping
<1>4. CASE Model
  BY <1>4, JudgeRests DEF Model, ModelFails, ModelEnds, Denied, Calls, Asked, Finishes, Running, Looping
<1>5. CASE TraceFails
  BY <1>5, JudgeRests DEF TraceFails, Excepts, Attempted, Over, Judging
<1>6. CASE Report
  BY <1>6, JudgeRests DEF Report, Attempted, Over, Judging
<1>7. CASE Keep \/ KeepFails \/ CampaignReports
  BY <1>7, JudgeRests DEF Keep, KeepFails, CampaignReports, Kept, Over, Judging
<1>8. CASE Drift \/ Crash \/ UNCHANGED vars
  BY <1>8, JudgeRests DEF Drift, Crash, vars
<1> QED
  BY <1>1, <1>2, <1>3, <1>4, <1>5, <1>6, <1>7, <1>8

LEMMA JudgeFresh ==
    ASSUME JudgeInv, Refuse \/ Admit
    PROVE  JudgeInv'
<1>1. judge' = Nobody /\ artifact' = None /\ pc' \in {"keep", "admitted"}
  BY DEF Refuse, Admit, Fresh, Excepts, Attempted
<1>2. JudgeTyped'
  BY <1>1 DEF JudgeTyped, Nobody
<1>3. Stopped'
  BY <1>1 DEF Nobody, Stopped, Alive
<1> QED
  BY <1>1, <1>2, <1>3 DEF JudgeInv, JudgeAnswers, JudgeStops, Looping, Evaluated, Judging

LEMMA JudgeFreezes ==
    ASSUME LoopInv, JudgeInv, NEW frozen \in BOOLEAN, Freeze(frozen)
    PROVE  JudgeInv'
<1>1. pc = "ended" /\ artifact = None /\ judge = Nobody /\ workspace \in [Files -> Content]
  BY DEF Freeze, LoopInv, LoopTyped, JudgeInv, JudgeAnswers
<1>2. CASE frozen
  <2>1. artifact' \in [Files -> Content] /\ judge' = Nobody /\ pc' = "frozen"
    BY <1>1, <1>2 DEF Freeze
  <2>2. Stopped' /\ JudgeTyped'
    BY <2>1 DEF Nobody, Stopped, Alive, JudgeTyped
  <2> QED
    BY <2>1, <2>2, NoneIsNothing DEF JudgeInv, JudgeAnswers, JudgeStops, Looping, Evaluated, Judging
<1>3. CASE ~frozen
  <2>1. artifact' = None /\ judge' = [Nobody EXCEPT !.heard = "not_run"] /\ pc' = "judged"
    BY <1>1, <1>3 DEF Freeze
  <2>2. Stopped' /\ JudgeTyped' /\ judge'.heard = "not_run"
    BY <2>1 DEF Nobody, Stopped, Alive, JudgeTyped
  <2> QED
    BY <2>1, <2>2 DEF JudgeInv, JudgeAnswers, JudgeStops, Looping, Evaluated, Judging
<1> QED
  BY <1>2, <1>3

LEMMA JudgeMoves ==
    ASSUME JudgeInv, Fork \/ HearsReady \/ HearsAnswer \/ HearsEnd \/ TimesOut \/ Signal \/ Join
    PROVE  JudgeInv'
<1>0. pc \in Evaluated /\ setup' = setup /\ artifact' = artifact /\ artifact # None /\ artifact \in [Files -> Content] \cup {None}
  BY DEF Fork, HearsReady, HearsAnswer, HearsEnd, TimesOut, Heard, Signal, Join, Evaluates, Evaluated, Judging,
      JudgeInv, JudgeAnswers, JudgeTyped
<1>a. \A verdict : Opinion(verdict)' <=> Opinion(verdict)
  BY <1>0 DEF Opinion, Correct
<1> USE DEF Looping, Judging
<1>1. CASE Fork
  <2>1. JudgeTyped' /\ pc' = "spawned" /\ judge'.answer = "none"
    BY <1>0, <1>1 DEF Fork, Nobody, JudgeTyped
  <2> QED
    BY <1>0, <2>1 DEF JudgeInv, JudgeAnswers, JudgeStops
<1>2. CASE HearsReady
  <2>1. JudgeTyped' /\ pc = "spawned" /\ pc' = "judging" /\ judge'.answer = judge.answer
    BY <1>0, <1>2 DEF HearsReady, JudgeInv, JudgeTyped
  <2> QED
    BY <1>0, <1>a, <2>1 DEF JudgeInv, JudgeAnswers, JudgeStops
<1>3. CASE HearsAnswer \/ HearsEnd \/ TimesOut
  <2>1. PICK verdict \in {"passed", "failed", "error"} : Opinion(verdict) /\ Heard(verdict)
    <3>1. CASE HearsAnswer
      <4>1. judge.answer \in {"passed", "failed", "error"} /\ Opinion(judge.answer)
        BY <3>1 DEF HearsAnswer, JudgeInv, JudgeAnswers, JudgeTyped, Opinion
      <4> QED
        BY <3>1, <4>1 DEF HearsAnswer
    <3>2. CASE HearsEnd \/ TimesOut
      BY <3>2 DEF HearsEnd, TimesOut, Opinion
    <3> QED
      BY <1>3, <3>1, <3>2
  <2>2. pc \in Judging
    BY <1>3 DEF HearsAnswer, HearsEnd, TimesOut
  <2>3. JudgeTyped' /\ pc' = "signal" /\ judge'.answer = judge.answer /\ judge'.heard = verdict
    BY <1>0, <2>1 DEF Heard, JudgeInv, JudgeTyped
  <2> QED
    BY <1>0, <1>a, <2>1, <2>2, <2>3 DEF JudgeInv, JudgeAnswers, JudgeStops
<1>4. CASE Signal
  <2>1. JudgeTyped' /\ pc = "signal" /\ pc' = "joining" /\ judge'.answer = judge.answer /\ judge'.heard = judge.heard
    BY <1>0, <1>4 DEF Signal, Terminated, JudgeInv, JudgeTyped
  <2>2. (Alive(judge'.leader) /\ judge'.deaf) \/ Stopped'
    BY <1>4 DEF Signal, Terminated, JudgeInv, JudgeTyped, Stopped, Alive
  <2> QED
    BY <1>0, <1>a, <2>1, <2>2 DEF JudgeInv, JudgeAnswers, JudgeStops
<1>5. CASE Join
  <2>1. JudgeTyped' /\ pc = "joining" /\ pc' = "judged" /\ judge'.heard = judge.heard
    BY <1>0, <1>5 DEF Join, JudgeInv, JudgeTyped
  <2>2. Stopped'
    BY <1>5 DEF Join, JudgeInv, JudgeTyped, JudgeStops, Stopped, Alive
  <2> QED
    BY <1>0, <1>a, <2>1, <2>2 DEF JudgeInv, JudgeAnswers, JudgeStops, Evaluated
<1> QED
  BY <1>1, <1>2, <1>3, <1>4, <1>5

LEMMA EvaluatorMoves ==
    ASSUME JudgeInv, Evaluator
    PROVE  JudgeInv'
<1>0. /\ pc \in Judging /\ pc' = pc /\ setup' = setup /\ artifact' = artifact
      /\ artifact # None /\ JudgeTyped
  BY DEF Evaluator, Evaluates, Evaluated, JudgeInv, JudgeAnswers
<1>a. \A verdict : Opinion(verdict)' <=> Opinion(verdict)
  BY <1>0 DEF Opinion, Correct
<1> DEFINE Moved ==
             /\ JudgeTyped' /\ judge'.heard = judge.heard
             /\ judge'.answer \in {judge.answer, "error", Verdict}
             /\ pc = "joining" => (Alive(judge'.leader) /\ judge'.deaf) \/ Stopped'
<1>1. Moved
  <2>1. CASE Ready \/ Deafens \/ Exits
    BY <1>0, <2>1 DEF Ready, Deafens, Exits, JudgeInv, JudgeTyped, JudgeStops, Stopped, Alive
  <2>2. ASSUME NEW child \in {"alive", "deaf"}, Spawns(child)
        PROVE  Moved
    BY <1>0, <2>2 DEF Spawns, JudgeInv, JudgeTyped, JudgeStops, Stopped, Alive
  <2>3. ASSUME NEW answer \in Opinions \cup {"error"}, Answers(answer)
        PROVE  Moved
    BY <1>0, <2>3 DEF Answers, Opinions, Verdict, JudgeInv, JudgeTyped, JudgeStops, Stopped, Alive
  <2> QED
    BY <2>1, <2>2, <2>3 DEF Evaluator
<1>2. Opinion(Verdict) /\ Opinion("error")
  BY DEF Opinion, Verdict
<1>3. judge'.answer # "none" => Opinion(judge'.answer)
  BY <1>0, <1>1, <1>2 DEF JudgeInv, JudgeAnswers
<1> QED
  BY <1>0, <1>a, <1>1, <1>3 DEF JudgeInv, JudgeAnswers, JudgeStops, Looping, Evaluated, Judging

-----------------------------------------------------------------------------
(* The traces.                                                             *)

TracesInv == TracesTyped /\ LoopTraceTells /\ RuntimeTraceTells

LEMMA Records ==
    ASSUME NEW trace \in Seq(Event), NEW events \in Seq(Event), NEW e \in Event
    PROVE  /\ trace \o events \in Seq(Event)
           /\ Contains(trace \o events, e) <=> Contains(trace, e) \/ Contains(events, e)
<1>1. /\ trace \o events \in Seq(Event) /\ Len(trace \o events) = Len(trace) + Len(events)
      /\ \A i \in 1..(Len(trace) + Len(events)) :
            (trace \o events)[i] = IF i <= Len(trace) THEN trace[i] ELSE events[i - Len(trace)]
  OBVIOUS
<1>2. Contains(trace \o events, e) => Contains(trace, e) \/ Contains(events, e)
  BY <1>1 DEF Contains
<1>3. Contains(trace, e) => Contains(trace \o events, e)
  BY <1>1 DEF Contains
<1>4. ASSUME Contains(events, e) PROVE Contains(trace \o events, e)
  <2>1. PICK i \in 1..Len(events) : events[i] = e
    BY <1>4 DEF Contains
  <2>2. i + Len(trace) \in 1..(Len(trace) + Len(events)) /\ (trace \o events)[i + Len(trace)] = e
    BY <1>1, <2>1
  <2> QED
    BY <1>1, <2>2 DEF Contains
<1> QED
  BY <1>1, <1>2, <1>3, <1>4

LEMMA RecordsOne ==
    ASSUME NEW trace \in Seq(Event), NEW event \in Event, NEW e \in Event
    PROVE  /\ Append(trace, event) \in Seq(Event) /\ Append(trace, event) # <<>>
           /\ Contains(Append(trace, event), e) <=> Contains(trace, e) \/ event = e
           /\ Last(Append(trace, event)) = event
           /\ trace # <<>> => Head(Append(trace, event)) = Head(trace)
<1>1. /\ Append(trace, event) \in Seq(Event) /\ Len(Append(trace, event)) = Len(trace) + 1
      /\ \A i \in 1..(Len(trace) + 1) :
            Append(trace, event)[i] = IF i <= Len(trace) THEN trace[i] ELSE event
  OBVIOUS
<1>2. Contains(Append(trace, event), e) => Contains(trace, e) \/ event = e
  BY <1>1 DEF Contains
<1>3. Contains(trace, e) => Contains(Append(trace, event), e)
  BY <1>1 DEF Contains
<1>4. event = e => Contains(Append(trace, event), e)
  <2>1. Len(trace) + 1 \in 1..(Len(trace) + 1) /\ Append(trace, event)[Len(trace) + 1] = event
    BY <1>1
  <2> QED
    BY <1>1, <2>1 DEF Contains
<1>5. Last(Append(trace, event)) = event /\ Append(trace, event) # <<>>
  BY <1>1 DEF Last
<1>6. trace # <<>> => Head(Append(trace, event)) = Head(trace)
  BY <1>1
<1> QED
  BY <1>1, <1>2, <1>3, <1>4, <1>5, <1>6

LEMMA TracesBegin == Init => TracesInv
BY DEF Init, TracesInv, TracesTyped, LoopTraceTells, RuntimeTraceTells, Loadable, Contains, Looping, InRun, Evaluated, Judging

\* Steps that record nothing.
LEMMA TracesRest ==
    ASSUME TracesInv, UNCHANGED <<traces, run>>,
           \/ pc' = pc \/ pc' \notin InRun
           \/ pc \in Evaluated /\ pc' \in Evaluated \cup {"judged"}
    PROVE  TracesInv'
BY DEF TracesInv, TracesTyped, LoopTraceTells, RuntimeTraceTells, traces, Looping, InRun, Evaluated, Judging

LEMMA TracesAround ==
    ASSUME TracesInv,
           \/ Create \/ CreateCampaign \/ TraceFails
           \/ Fork \/ HearsReady \/ HearsAnswer \/ HearsEnd \/ TimesOut \/ Signal \/ Join
           \/ Keep \/ KeepFails \/ CampaignReports \/ Evaluator \/ Drift \/ Crash \/ UNCHANGED vars
    PROVE  TracesInv'
<1> USE DEF loop, InRun, Looping, Evaluated, Judging
<1>1. CASE Create \/ CreateCampaign \/ TraceFails
  BY <1>1, TracesRest DEF Create, CreateCampaign, TraceFails, Excepts, Attempted
<1>2. CASE Fork \/ HearsReady \/ HearsAnswer \/ HearsEnd \/ TimesOut \/ Signal \/ Join
  BY <1>2, TracesRest DEF Fork, HearsReady, HearsAnswer, HearsEnd, TimesOut, Heard, Signal, Join, Evaluates
<1>3. CASE Keep \/ KeepFails \/ CampaignReports
  BY <1>3, TracesRest DEF Keep, KeepFails, CampaignReports, Kept
<1>4. CASE Evaluator
  BY <1>4, TracesRest DEF Evaluator, Evaluates
<1>5. CASE Drift \/ Crash \/ UNCHANGED vars
  BY <1>5, TracesRest DEF Drift, Crash, vars
<1> QED
  BY <1>1, <1>2, <1>3, <1>4, <1>5

\* The end of the loop closes its trace.
LEMMA LoopCloses ==
    ASSUME TracesInv, pc \in {"turn", "tool"}, NEW calls, NEW steps, NEW events \in Seq(Event), NEW status \in RunStatus,
           Finishes(calls, steps, events, status), runtimeTrace' = runtimeTrace
    PROVE  TracesInv'
<1>1. loopTrace' = Append(loopTrace \o events, "run_completed") /\ loopTrace \o events \in Seq(Event)
  <2>1. loopTrace \in Seq(Event) /\ "run_completed" \in Event
    BY DEF TracesInv, TracesTyped, Event
  <2>2. loopTrace' = loopTrace \o events \o <<"run_completed">>
    BY DEF Finishes
  <2> QED
    BY <2>1, <2>2
<1>2. loopTrace \o events # <<>> /\ Head(loopTrace \o events) = "run_started"
  BY DEF TracesInv, TracesTyped, LoopTraceTells
<1>3. loopTrace' \in Seq(Event) /\ Loadable(loopTrace')
  BY <1>1, <1>2, RecordsOne DEF Event, Loadable
<1>4. run'.status = status /\ status # None /\ pc' = "ended"
  BY StatusIsSomething DEF Finishes
<1> QED
  BY <1>3, <1>4 DEF TracesInv, TracesTyped, LoopTraceTells, RuntimeTraceTells, Looping, InRun, Evaluated, Judging

\* A step of the loop leaves its trace open.
LEMMA LoopContinues ==
    ASSUME TracesInv, LoopInv, pc \in {"turn", "tool"}, NEW event \in Event \ {"run_completed"},
           loopTrace' = Append(loopTrace, event), runtimeTrace' = runtimeTrace, run'.status = run.status,
           pc' \in {"turn", "tool"}
    PROVE  TracesInv'
<1>1. loopTrace' \in Seq(Event) /\ loopTrace' # <<>> /\ Head(loopTrace') = "run_started" /\ Last(loopTrace') = event
  BY RecordsOne DEF TracesInv, TracesTyped, LoopTraceTells
<1>2. run.status = None
  BY DEF LoopInv, LoopProceeds, Looping
<1> QED
  BY <1>1, <1>2 DEF TracesInv, TracesTyped, LoopTraceTells, RuntimeTraceTells, Loadable, Looping, InRun, Evaluated, Judging

LEMMA TracesWithin ==
    ASSUME TracesInv, LoopInv,
           Refuse \/ Admit \/ LoopStarts \/ Timeout \/ Budget \/ Model \/ ToolFails \/ Complete
    PROVE  TracesInv'
<1>e. <<>> \in Seq(Event) /\ <<"tool_failed">> \in Seq(Event) /\ <<"tool_completed">> \in Seq(Event)
      /\ <<"model_output">> \in Seq(Event) /\ <<"model_output", "tool_failed">> \in Seq(Event)
  BY DEF Event
<1>1. CASE Refuse \/ Admit
  <2>1. /\ loopTrace' = <<>> /\ run'.status = None /\ pc' \in {"keep", "admitted"}
        /\ runtimeTrace' = <<>> \/ runtimeTrace' = <<"run_started">>
    BY <1>1 DEF Refuse, Admit, Fresh, Excepts, Attempted
  <2>2. TracesTyped' /\ ~Contains(runtimeTrace', "execution_completed") /\ ~Contains(runtimeTrace', "report_completed")
    <3>1. <<>> \in Seq(Event) /\ <<"run_started">> \in Seq(Event)
      BY DEF Event
    <3>2. \A e \in {"execution_completed", "report_completed"} : ~Contains(<<>>, e) /\ ~Contains(<<"run_started">>, e)
      BY DEF Contains
    <3>3. TracesTyped'
      BY <2>1, <3>1 DEF TracesTyped
    <3>4. CASE runtimeTrace' = <<>>
      BY <3>2, <3>3, <3>4
    <3>5. CASE runtimeTrace' = <<"run_started">>
      BY <3>2, <3>3, <3>5
    <3> QED
      BY <2>1, <3>4, <3>5
  <2>3. ~Loadable(loopTrace')
    BY <2>1 DEF Loadable
  <2> QED
    BY <2>1, <2>2, <2>3 DEF TracesInv, LoopTraceTells, RuntimeTraceTells, Looping, InRun, Evaluated, Judging
<1>2. CASE LoopStarts
  <2>1. loopTrace' = <<"run_started">> /\ run' = run /\ run.status = None /\ runtimeTrace' = runtimeTrace /\ pc = "admitted" /\ pc' = "turn"
    BY <1>2 DEF LoopStarts, Running, LoopInv, LoopProceeds, Looping
  <2>2. ~Loadable(loopTrace') /\ loopTrace' # <<>> /\ Head(loopTrace') = "run_started" /\ loopTrace' \in Seq(Event)
    BY <2>1 DEF Loadable, Last, Event
  <2> QED
    BY <2>1, <2>2 DEF TracesInv, TracesTyped, LoopTraceTells, RuntimeTraceTells, Looping, InRun, Evaluated, Judging
<1>3. CASE Timeout \/ Budget
  BY <1>3, <1>e, LoopCloses DEF Timeout, Budget, Running, RunStatus
<1>4. CASE Model
  <2>1. CASE ModelFails
    BY <2>1, <1>e, LoopCloses DEF ModelFails, Asked, Running, RunStatus
  <2>2. ASSUME NEW status \in {"succeeded", "parse_error", "tool_error"}, ModelEnds(status)
        PROVE  TracesInv'
    <3>1. (IF status = "tool_error" THEN <<"model_output", "tool_failed">> ELSE <<"model_output">>) \in Seq(Event)
      BY <1>e
    <3> QED
      BY <2>2, <3>1, LoopCloses DEF ModelEnds, Asked, Running, RunStatus
  <2>3. ASSUME NEW c \in Capabilities, NEW f \in Files, Denied(c, f)
        PROVE  TracesInv'
    BY <2>3, <1>e, LoopCloses DEF Denied, Asked, Running, RunStatus
  <2>4. ASSUME NEW c \in Capabilities, NEW f \in Files, NEW content \in {"right", "wrong"}, Calls(c, f, content)
        PROVE  TracesInv'
    <3>1. run'.status = run.status
      BY <2>4 DEF Calls, LoopInv, LoopTyped
    <3> QED
      BY <2>4, <3>1, LoopContinues DEF Calls, Running, Event
  <2> QED
    BY <1>4, <2>1, <2>2, <2>3, <2>4 DEF Model
<1>5. CASE ToolFails
  BY <1>5, <1>e, LoopCloses DEF ToolFails, Running, RunStatus
<1>6. CASE Complete
  <2>1. CASE run.steps + 1 >= Limits.steps
    BY <1>6, <2>1, <1>e, LoopCloses DEF Complete, Running, RunStatus
  <2>2. CASE ~(run.steps + 1 >= Limits.steps)
    <3>1. run'.status = run.status
      BY <1>6, <2>2 DEF Complete, LoopInv, LoopTyped
    <3> QED
      BY <1>6, <2>2, <3>1, LoopContinues DEF Complete, Running, Event
  <2> QED
    BY <2>1, <2>2
<1> QED
  BY <1>1, <1>2, <1>3, <1>4, <1>5, <1>6

\* What the runtime records of the snapshot and of the evaluation.
LEMMA RuntimeRecords ==
    ASSUME TracesInv, LoopInv, (\E frozen \in BOOLEAN : Freeze(frozen)) \/ Report
    PROVE  TracesInv'
<1>t. runtimeTrace \in Seq(Event)
  BY DEF TracesInv, TracesTyped
<1>1. CASE Report
  <2> DEFINE told == <<"evaluation_completed", "report_completed">>
  <2>1. told \in Seq(Event) /\ Contains(told, "evaluation_completed") /\ ~Contains(told, "execution_completed")
    BY DEF Event, Contains
  <2>2. runtimeTrace' = runtimeTrace \o told /\ UNCHANGED <<run, loopTrace>> /\ pc' = "keep"
    BY <1>1 DEF Report, Attempted, loop
  <2>3. /\ runtimeTrace' \in Seq(Event) /\ Contains(runtimeTrace', "evaluation_completed")
        /\ Contains(runtimeTrace', "execution_completed") => Contains(runtimeTrace, "execution_completed")
    BY <1>t, <2>1, <2>2, Records DEF Event
  <2> QED
    BY <2>2, <2>3 DEF TracesInv, TracesTyped, LoopTraceTells, RuntimeTraceTells, Looping, InRun, Evaluated, Judging
<1>2. CASE \E frozen \in BOOLEAN : Freeze(frozen)
  <2>1. PICK told \in {<<"execution_completed">>, <<"execution_completed", "artifact_freeze_failed">>} :
            runtimeTrace' = runtimeTrace \o told
    <3>1. \/ runtimeTrace' = Append(runtimeTrace, "execution_completed")
          \/ runtimeTrace' = runtimeTrace \o <<"execution_completed", "artifact_freeze_failed">>
      BY <1>2 DEF Freeze
    <3>2. Append(runtimeTrace, "execution_completed") = runtimeTrace \o <<"execution_completed">>
      BY <1>t DEF Event
    <3> QED
      BY <3>1, <3>2
  <2>2. told \in Seq(Event) /\ ~Contains(told, "report_completed")
    BY <2>1 DEF Event, Contains
  <2>3. UNCHANGED <<run, loopTrace>> /\ pc = "ended" /\ pc' \in {"frozen", "judged"} /\ run.status # None
    BY <1>2, StatusIsSomething DEF Freeze, loop, LoopInv, LoopProceeds
  <2>4. /\ runtimeTrace' \in Seq(Event)
        /\ Contains(runtimeTrace', "report_completed") => Contains(runtimeTrace, "report_completed")
    BY <1>t, <2>1, <2>2, Records DEF Event
  <2> QED
    BY <2>3, <2>4 DEF TracesInv, TracesTyped, LoopTraceTells, RuntimeTraceTells, Looping, InRun, Evaluated, Judging
<1> QED
  BY <1>1, <1>2

-----------------------------------------------------------------------------
(* The campaign.                                                           *)

\* Induction over a set of naturals, without an operator to instantiate.
LEMMA Counting ==
    ASSUME NEW S, 0 \in S, \A n \in Nat : n \in S => n + 1 \in S
    PROVE  Nat \subseteq S
<1> DEFINE R == {<<x, y>> : x, y \in Nat}
<1> SUFFICES ASSUME Nat \ S # {} PROVE FALSE
  OBVIOUS
<1>1. PICK x \in Nat \ S : \A y \in Nat \ S : ~(<<y, x>> \in OpToRel(<, Nat))
  BY NatLessThanWellFounded, WFMin
<1>2. \A y \in Nat \ S : ~(y < x)
  BY <1>1 DEF OpToRel
<1>3. x # 0 /\ x - 1 \in Nat
  OBVIOUS
<1>4. x - 1 \in S
  BY <1>2, <1>3
<1> QED
  BY <1>3, <1>4

LEMMA FlattenTyped ==
    ASSUME NEW K, NEW seqs \in Seq(Seq(K))
    PROVE  FlattenSeq(seqs) \in Seq(K)
<1> DEFINE N == Len(seqs)
           Grows(h, i) == IF i = 1 THEN seqs[i] ELSE h[i-1] \o seqs[i]
           Fits(h, n) == \A i \in 1..n : h[i] = Grows(h, i)
           S == {n \in Nat : n <= N => \E h \in [1..n -> Seq(K)] : Fits(h, n)}
           flatten[i \in 1..N] == IF i = 1 THEN seqs[i] ELSE flatten[i-1] \o seqs[i]
<1>1. CASE N = 0
  BY <1>1 DEF FlattenSeq
<1>2. CASE N # 0
  <2>1. 0 \in S
    <3>1. [i \in 1..0 |-> <<>>] \in [1..0 -> Seq(K)] /\ Fits([i \in 1..0 |-> <<>>], 0)
      OBVIOUS
    <3> QED
      BY <3>1
  <2>2. ASSUME NEW n \in Nat, n \in S
        PROVE  n + 1 \in S
    <3>1. SUFFICES ASSUME n + 1 <= N
                  PROVE  \E h \in [1..(n + 1) -> Seq(K)] : Fits(h, n + 1)
      <4> HIDE DEF Fits
      <4> QED
        OBVIOUS
    <3>2. PICK g \in [1..n -> Seq(K)] : Fits(g, n)
      BY <2>2, <3>1
    <3> DEFINE h == [i \in 1..(n + 1) |-> IF i <= n THEN g[i] ELSE Grows(g, n + 1)]
    <3>3. Grows(g, n + 1) \in Seq(K)
      <4>1. seqs[n + 1] \in Seq(K)
        BY <3>1
      <4>2. n # 0 => g[n] \in Seq(K)
        OBVIOUS
      <4> QED
        BY <4>1, <4>2
    <3>4. h \in [1..(n + 1) -> Seq(K)]
      BY <3>3
    <3>5. ASSUME NEW i \in 1..(n + 1) PROVE h[i] = Grows(h, i)
      <4>1. CASE i = n + 1
        BY <4>1
      <4>2. CASE i \in 1..n
        <5>1. h[i] = g[i]
          BY <4>2
        <5>a. g[i] = Grows(g, i)
          BY <4>2, <3>2
        <5>2. i # 1 => i - 1 \in 1..n /\ h[i - 1] = g[i - 1]
          BY <4>2
        <5> QED
          BY <5>1, <5>2, <5>a
      <4> QED
        BY <4>1, <4>2
    <3> QED
      BY <3>4, <3>5
  <2>3. N \in S
    <3> HIDE DEF S, Grows, Fits
    <3>1. Nat \subseteq S
      BY <2>1, <2>2, Counting
    <3> QED
      BY <3>1
  <2>4. PICK h \in [1..N -> Seq(K)] : Fits(h, N)
    BY <2>3
  <2>5. h = [i \in 1..N |-> Grows(h, i)]
    BY <2>4
  <2>6. flatten = [i \in 1..N |-> Grows(flatten, i)]
    <3> DEFINE Solves(f) == f = [i \in 1..N |-> Grows(f, i)]
    <3>1. Solves(CHOOSE f : Solves(f))
      <4> HIDE DEF Solves
      <4>1. \E f : Solves(f)
        BY <2>5 DEF Solves
      <4> QED
        BY <4>1
    <3> QED
      BY <3>1
  <2> DEFINE T == {n \in Nat : \A i \in 1..N : i <= n => flatten[i] \in Seq(K)}
  <2> HIDE DEF flatten
  <2>7. 0 \in T
    OBVIOUS
  <2>8. ASSUME NEW n \in Nat, n \in T
        PROVE  n + 1 \in T
    <3> SUFFICES ASSUME n + 1 \in 1..N PROVE flatten[n + 1] \in Seq(K)
      BY <2>8
    <3>1. flatten[n + 1] = Grows(flatten, n + 1)
      BY <2>6
    <3>2. n # 0 => flatten[n] \in Seq(K)
      BY <2>8
    <3>3. seqs[n + 1] \in Seq(K)
      OBVIOUS
    <3> QED
      BY <3>1, <3>2, <3>3
  <2>9. N \in T
    <3> HIDE DEF T, Grows, Fits
    <3>1. Nat \subseteq T
      BY <2>7, <2>8, Counting
    <3> QED
      BY <3>1
  <2>10. FlattenSeq(seqs) = flatten[N]
    BY <1>2 DEF FlattenSeq, flatten
  <2> QED
    BY <2>9, <2>10, <1>2
<1> QED
  BY <1>1, <1>2

LEMMA ScheduleTyped ==
    ASSUME setup \in Setups
    PROVE  Schedule(setup) \in Seq(Nat \X Nat)
<1> DEFINE Slots(i) == IF i \in setup.selected /\ Eligible(setup, i)
                          THEN [r \in 1..setup.repetitions |-> <<i, r>>] ELSE <<>>
           slots == [i \in DOMAIN setup.implemented |-> Slots(i)]
<1>1. setup.implemented \in Seq(BOOLEAN) /\ setup.repetitions \in Nat
  BY RuntimeAssumption DEF Request
<1>2. ASSUME NEW i \in DOMAIN setup.implemented PROVE Slots(i) \in Seq(Nat \X Nat)
  <2>1. i \in Nat
    BY <1>1
  <2>2. [r \in 1..setup.repetitions |-> <<i, r>>] \in [1..setup.repetitions -> Nat \X Nat]
    BY <2>1, <1>1
  <2>3. <<>> \in Seq(Nat \X Nat)
    OBVIOUS
  <2> HIDE <1>1
  <2> QED
    BY <2>2, <2>3, <1>1
<1>3. DOMAIN setup.implemented = 1..Len(setup.implemented) /\ Len(setup.implemented) \in Nat
  BY <1>1
<1> HIDE DEF Slots
<1>4. slots \in Seq(Seq(Nat \X Nat))
  BY <1>2, <1>3
<1>5. Schedule(setup) = FlattenSeq(slots)
  BY DEF Schedule, Slots
<1> HIDE DEF slots
<1> QED
  BY <1>4, <1>5, FlattenTyped

CampaignInv == CampaignTyped /\ SlotsInOrder /\ KeptInOrder /\ AttemptsEarned /\ LastTells

LEMMA CampaignBegins == Init => CampaignInv
<1> SUFFICES ASSUME Init PROVE CampaignInv
  OBVIOUS
<1>1. /\ attempts = <<>> /\ kept = <<>> /\ pc = "create" /\ rest \in Seq(Nat \X Nat)
      /\ rest = Schedule(setup)
  BY ScheduleTyped DEF Init
<1>2. [i \in DOMAIN attempts |-> attempts[i].slot] \o rest = rest
  BY <1>1
<1> QED
  BY <1>1, <1>2 DEF CampaignInv, CampaignTyped, SlotsInOrder, KeptInOrder, AttemptsEarned, LastTells, InRun, Looping, Evaluated, Judging

LEMMA Appends ==
    ASSUME NEW K, NEW s \in Seq(K), NEW x \in K
    PROVE  /\ Append(s, x) \in Seq(K) /\ Len(Append(s, x)) = Len(s) + 1 /\ Append(s, x) # <<>>
           /\ DOMAIN Append(s, x) = 1..(Len(s) + 1)
           /\ \A i \in 1..(Len(s) + 1) : Append(s, x)[i] = IF i <= Len(s) THEN s[i] ELSE x
           /\ Last(Append(s, x)) = x
BY DEF Last

LEMMA HeadMoves ==
    ASSUME NEW K, NEW s \in Seq(K), NEW r \in Seq(K), r # <<>>
    PROVE  Append(s, Head(r)) \o Tail(r) = s \o r
<1>0. Len(s) \in Nat
  OBVIOUS
<1>1. Head(r) = r[1] /\ Head(r) \in K /\ Len(r) \in Nat /\ Len(r) >= 1
  OBVIOUS
<1>2. Tail(r) \in Seq(K) /\ Len(Tail(r)) = Len(r) - 1 /\ \A i \in 1..Len(Tail(r)) : Tail(r)[i] = r[i + 1]
  BY HeadTailProperties
<1> DEFINE a == Append(s, Head(r))
<1>3. a \in Seq(K) /\ Len(a) = Len(s) + 1 /\ \A i \in 1..(Len(s) + 1) : a[i] = IF i <= Len(s) THEN s[i] ELSE r[1]
  BY <1>1, Appends
<1> HIDE DEF a
<1>4. /\ a \o Tail(r) \in Seq(K) /\ Len(a \o Tail(r)) = Len(s) + Len(r)
      /\ \A i \in 1..(Len(s) + Len(r)) : (a \o Tail(r))[i] = IF i <= Len(s) + 1 THEN a[i] ELSE Tail(r)[i - (Len(s) + 1)]
  <2>1. /\ a \o Tail(r) \in Seq(K) /\ Len(a \o Tail(r)) = Len(a) + Len(Tail(r))
        /\ \A i \in 1..(Len(a) + Len(Tail(r))) : (a \o Tail(r))[i] = IF i <= Len(a) THEN a[i] ELSE Tail(r)[i - Len(a)]
    BY <1>2, <1>3, ConcatProperties
  <2>2. Len(a) + Len(Tail(r)) = Len(s) + Len(r)
    BY <1>0, <1>1, <1>2, <1>3
  <2> QED
    BY <2>1, <2>2, <1>3
<1>5. /\ s \o r \in Seq(K) /\ Len(s \o r) = Len(s) + Len(r)
      /\ \A i \in 1..(Len(s) + Len(r)) : (s \o r)[i] = IF i <= Len(s) THEN s[i] ELSE r[i - Len(s)]
  BY ConcatProperties
<1>6. ASSUME NEW i \in 1..(Len(s) + Len(r)) PROVE (a \o Tail(r))[i] = (s \o r)[i]
  <2>1. CASE i <= Len(s)
    BY <2>1, <1>3, <1>4, <1>5
  <2>2. CASE i = Len(s) + 1
    BY <2>2, <1>1, <1>3, <1>4, <1>5
  <2>3. CASE i > Len(s) + 1
    <3>1. i - (Len(s) + 1) \in 1..Len(Tail(r)) /\ (i - (Len(s) + 1)) + 1 = i - Len(s)
      BY <2>3, <1>2
    <3>2. (a \o Tail(r))[i] = Tail(r)[i - (Len(s) + 1)] /\ (s \o r)[i] = r[i - Len(s)]
      BY <2>3, <1>4, <1>5
    <3> QED
      BY <3>1, <3>2, <1>2
  <2>4. i \in Int
    BY <1>0, <1>1
  <2>5. i <= Len(s) \/ i = Len(s) + 1 \/ i > Len(s) + 1
    BY <2>4, <1>0
  <2> QED
    BY <2>1, <2>2, <2>3, <2>5, Zenon
<1>7. a \o Tail(r) = s \o r
  BY <1>4, <1>5, <1>6, SeqEqual
<1> QED
  BY <1>7 DEF a

SlotsOf(s) == [i \in DOMAIN s |-> s[i].slot]

LEMMA SlotsAppend ==
    ASSUME NEW s \in Seq(Attempt), NEW a \in Attempt
    PROVE  SlotsOf(s) \in Seq(Nat \X Nat) /\ SlotsOf(Append(s, a)) = Append(SlotsOf(s), a.slot)
<1>1. DOMAIN s = 1..Len(s) /\ Len(s) \in Nat /\ \A i \in 1..Len(s) : s[i] \in Attempt
  OBVIOUS
<1>2. \A b \in Attempt : b.slot \in Nat \X Nat
  BY DEF Attempt
<1>3. SlotsOf(s) \in [1..Len(s) -> Nat \X Nat]
  BY <1>1, <1>2 DEF SlotsOf
<1>4. SlotsOf(s) \in Seq(Nat \X Nat) /\ Len(SlotsOf(s)) = Len(s)
  BY <1>1, <1>3
<1> DEFINE t == Append(s, a)
<1>5. /\ DOMAIN t = 1..(Len(s) + 1) /\ \A i \in 1..(Len(s) + 1) : t[i] = IF i <= Len(s) THEN s[i] ELSE a
  BY Appends
<1> HIDE DEF t
<1>6. \A i \in 1..(Len(s) + 1) : t[i] \in Attempt
  BY <1>1, <1>5
<1>7. SlotsOf(t) \in [1..(Len(s) + 1) -> Nat \X Nat]
  BY <1>2, <1>5, <1>6 DEF SlotsOf
<1>8. SlotsOf(t) \in Seq(Nat \X Nat) /\ Len(SlotsOf(t)) = Len(s) + 1
  BY <1>1, <1>7
<1> DEFINE u == Append(SlotsOf(s), a.slot)
<1>9. /\ u \in Seq(Nat \X Nat) /\ Len(u) = Len(s) + 1
      /\ \A i \in 1..(Len(s) + 1) : u[i] = IF i <= Len(s) THEN SlotsOf(s)[i] ELSE a.slot
  BY <1>2, <1>4, Appends
<1> HIDE DEF u
<1>10. ASSUME NEW i \in 1..(Len(s) + 1) PROVE SlotsOf(t)[i] = u[i]
  BY <1>1, <1>5, <1>9 DEF SlotsOf
<1>11. SlotsOf(t) = u
  BY <1>1, <1>8, <1>9, <1>10, SeqEqual
<1> QED
  BY <1>4, <1>11 DEF t, u

\* An attempt takes the first slot that is left.
LEMMA AttemptCounts ==
    ASSUME CampaignInv, setup' = setup, rest # <<>>, kept = attempts,
           NEW status \in RunStatus \cup {None}, NEW evaluation \in EvaluationStatus \cup {None},
           NEW snapshot \in [Files -> Content] \cup {None}, NEW intact \in BOOLEAN,
           Attempted(status, evaluation, snapshot, intact),
           \/ status = None /\ evaluation = None /\ snapshot = None
           \/ /\ status \in RunStatus /\ evaluation \in EvaluationStatus /\ intact
              /\ evaluation = "passed" => snapshot # None /\ Correct(snapshot)
              /\ snapshot = None => evaluation = "not_run",
           status # None <=> Contains(runtimeTrace', "report_completed")
    PROVE  CampaignInv'
<1> DEFINE a == [slot |-> Head(rest), intact |-> intact, status |-> status,
                 evaluation |-> evaluation, artifact |-> snapshot]
<1>1. attempts' = Append(attempts, a) /\ rest' = Tail(rest) /\ pc' = "keep" /\ UNCHANGED <<kept, summary>>
  BY DEF Attempted
<1>2. /\ rest \in Seq(Nat \X Nat) /\ Head(rest) \in Nat \X Nat /\ Tail(rest) \in Seq(Nat \X Nat)
      /\ attempts \in Seq(Attempt) /\ kept \in Seq(Attempt)
  BY DEF CampaignInv, CampaignTyped
<1>3. a \in Attempt
  BY <1>2 DEF Attempt
<1>e. a.status = status /\ a.slot = Head(rest)
  OBVIOUS
<1>4. Earned(a)
  BY DEF Earned
<1> HIDE DEF a
<1>5. /\ attempts' \in Seq(Attempt) /\ Len(attempts') = Len(attempts) + 1 /\ attempts' # <<>>
      /\ \A i \in 1..(Len(attempts) + 1) : attempts'[i] = IF i <= Len(attempts) THEN attempts[i] ELSE a
  BY <1>1, <1>2, <1>3, Appends
<1>6. Last(attempts') = a
  BY <1>1, <1>2, <1>3, Appends
<1>7. CampaignTyped'
  BY <1>1, <1>2, <1>5 DEF CampaignTyped
<1>8. SlotsInOrder'
  <2>1. Schedule(setup)' = Schedule(setup) /\ SlotsOf(attempts) \o rest = Schedule(setup)
    BY DEF CampaignInv, SlotsInOrder, SlotsOf, Schedule, Eligible
  <2>2. SlotsOf(attempts) \in Seq(Nat \X Nat) /\ SlotsOf(attempts') = Append(SlotsOf(attempts), Head(rest))
    BY <1>1, <1>2, <1>3, <1>e, SlotsAppend
  <2>3. SlotsOf(attempts') \o rest' = SlotsOf(attempts) \o rest
    BY <1>1, <1>2, <2>2, HeadMoves
  <2> QED
    BY <2>1, <2>3 DEF SlotsInOrder, SlotsOf
<1>9. KeptInOrder'
  BY <1>1, <1>5, <1>6 DEF KeptInOrder, Behind, InRun, Looping, Evaluated, Judging
<1>10. AttemptsEarned'
  <2>1. \A x : Earned(x)' <=> Earned(x)
    BY DEF Earned, Correct
  <2>2. DOMAIN attempts = 1..Len(attempts) /\ DOMAIN attempts' = 1..(Len(attempts) + 1) /\ Len(attempts) \in Nat
    BY <1>2, <1>5
  <2>3. \A i \in DOMAIN attempts' : Earned(attempts'[i])
    BY <1>4, <1>5, <2>2 DEF CampaignInv, AttemptsEarned
  <2> QED
    BY <2>1, <2>3 DEF AttemptsEarned
<1>11. LastTells'
  BY <1>6, <1>e, <1>1 DEF LastTells
<1> QED
  BY <1>7, <1>8, <1>9, <1>10, <1>11 DEF CampaignInv

LEMMA CampaignAttempts ==
    ASSUME LoopInv, JudgeInv, TracesInv, CampaignInv, Refuse \/ TraceFails \/ Report
    PROVE  CampaignInv'
<1>0. rest # <<>> /\ kept = attempts /\ setup' = setup
  BY DEF Refuse, TraceFails, Report, CampaignInv, KeptInOrder, InRun, Looping, Evaluated
<1>1. CASE Refuse
  <2>1. Attempted(None, None, None, Registered) /\ runtimeTrace' = <<>> /\ Registered \in BOOLEAN
    BY <1>1 DEF Refuse, Excepts, Registered
  <2>2. ~Contains(runtimeTrace', "report_completed")
    BY <2>1 DEF Contains
  <2> QED
    BY <1>0, <2>1, <2>2, AttemptCounts
<1>2. CASE TraceFails
  <2>1. Attempted(None, None, None, TRUE) /\ runtimeTrace' = runtimeTrace /\ pc \in InRun
    BY <1>2 DEF TraceFails, Excepts, traces, InRun, Looping, Evaluated
  <2>2. ~Contains(runtimeTrace', "report_completed")
    BY <2>1 DEF TracesInv, RuntimeTraceTells
  <2> QED
    BY <1>0, <2>1, <2>2, AttemptCounts
<1>3. CASE Report
  <2>1. Attempted(run.status, judge.heard, artifact, TRUE) /\ pc = "judged"
    BY <1>3 DEF Report
  <2>2. run.status \in RunStatus /\ run.status # None
    BY <2>1, StatusIsSomething DEF LoopInv, LoopProceeds
  <2>3. /\ judge.heard \in EvaluationStatus /\ artifact \in [Files -> Content] \cup {None}
        /\ judge.heard = "passed" => artifact # None /\ Correct(artifact)
        /\ artifact = None => judge.heard = "not_run"
    BY <2>1 DEF JudgeInv, JudgeTyped, JudgeAnswers, Opinion, EvaluationStatus
  <2>4. Contains(runtimeTrace', "report_completed")
    <3> DEFINE told == <<"evaluation_completed", "report_completed">>
    <3>1. told \in Seq(Event) /\ Contains(told, "report_completed")
      BY DEF Event, Contains
    <3>2. runtimeTrace \in Seq(Event) /\ runtimeTrace' = runtimeTrace \o told
      BY <1>3 DEF Report, TracesInv, TracesTyped
    <3> QED
      BY <3>1, <3>2, Records DEF Event
  <2> QED
    BY <1>0, <2>1, <2>2, <2>3, <2>4, AttemptCounts
<1> QED
  BY <1>1, <1>2, <1>3

LEMMA CampaignKeeps ==
    ASSUME CampaignInv, Keep \/ KeepFails \/ CampaignReports
    PROVE  CampaignInv'
<1>0. setup' = setup /\ rest' = rest /\ attempts' = attempts /\ Schedule(setup)' = Schedule(setup)
  BY DEF Keep, KeepFails, CampaignReports, Kept, campaign, Schedule, Eligible
<1>1. SlotsInOrder' /\ AttemptsEarned'
  BY <1>0 DEF CampaignInv, SlotsInOrder, AttemptsEarned, Earned, Correct
<1>2. CASE Keep
  <2>1. kept' = attempts /\ pc' = "case"
    BY <1>2 DEF Keep, CampaignInv, KeptInOrder, Behind
  <2> QED
    BY <1>0, <1>1, <2>1 DEF CampaignInv, CampaignTyped, KeptInOrder, LastTells, InRun, Looping, Evaluated, Judging
<1>3. CASE KeepFails
  BY <1>0, <1>1, <1>3 DEF KeepFails, campaign, CampaignInv, CampaignTyped, KeptInOrder, Behind, LastTells, InRun, Looping, Evaluated, Judging
<1>4. CASE CampaignReports
  <2>1. /\ summary' = Summary /\ rest = <<>> /\ kept' = kept /\ kept = attempts /\ pc' = "reported"
    BY <1>4 DEF CampaignReports, CampaignInv, KeptInOrder
  <2>2. Summary' = Summary
    BY <1>0 DEF Summary, PassedAttempts, Errors, Eligible
  <2> QED
    BY <1>0, <1>1, <2>1, <2>2 DEF CampaignInv, CampaignTyped, KeptInOrder, LastTells, InRun, Looping, Evaluated, Judging
<1> QED
  BY <1>2, <1>3, <1>4

\* Steps that leave the campaign alone.
LEMMA CampaignRests ==
    ASSUME CampaignInv, UNCHANGED <<setup, campaign>>,
           \/ pc' = pc /\ UNCHANGED traces
           \/ pc' = "crashed"
           \/ pc \in {"create", "suite"} /\ pc' \in {"suite", "case", "rejected"}
           \/ pc \in InRun \cup {"case"} /\ rest # <<>> /\ pc' \in InRun
    PROVE  CampaignInv'
<1>0. rest' = rest /\ attempts' = attempts /\ kept' = kept /\ summary' = summary /\ setup' = setup
  BY DEF campaign
<1>1. SlotsInOrder' /\ AttemptsEarned'
  BY <1>0 DEF CampaignInv, SlotsInOrder, AttemptsEarned, Earned, Correct, Schedule, Eligible
<1>2. Summary' = Summary
  BY <1>0 DEF Summary, PassedAttempts, Errors, Eligible
<1>3. LastTells'
  BY <1>0 DEF CampaignInv, LastTells, traces, InRun, Looping, Evaluated, Judging
<1>4. KeptInOrder'
  BY <1>0, <1>2 DEF CampaignInv, KeptInOrder, Behind, InRun, Looping, Evaluated, Judging
<1> QED
  BY <1>0, <1>1, <1>3, <1>4 DEF CampaignInv, CampaignTyped

LEMMA CampaignAround ==
    ASSUME CampaignInv,
           \/ Create \/ CreateCampaign \/ Admit \/ LoopStarts \/ Timeout \/ Budget \/ Model \/ ToolFails \/ Complete
           \/ \E frozen \in BOOLEAN : Freeze(frozen)
           \/ Fork \/ HearsReady \/ HearsAnswer \/ HearsEnd \/ TimesOut \/ Signal \/ Join
           \/ Evaluator \/ Drift \/ Crash \/ UNCHANGED vars
    PROVE  CampaignInv'
<1>0. pc \in InRun => rest # <<>>
  BY DEF CampaignInv, KeptInOrder
<1> USE CampaignRests DEF InRun, Looping, Evaluated, Judging
<1>1. CASE Create \/ CreateCampaign
  BY <1>1 DEF Create, CreateCampaign
<1>2. CASE Admit \/ LoopStarts
  BY <1>0, <1>2 DEF Admit, LoopStarts, Running
<1>3. CASE Timeout \/ Budget \/ ToolFails \/ Complete
  BY <1>0, <1>3 DEF Timeout, Budget, ToolFails, Complete, Finishes, Running
<1>4. CASE Model
  BY <1>0, <1>4 DEF Model, ModelFails, ModelEnds, Denied, Calls, Asked, Finishes, Running
<1>5. CASE \E frozen \in BOOLEAN : Freeze(frozen)
  BY <1>0, <1>5 DEF Freeze
<1>6. CASE Fork \/ HearsReady \/ HearsAnswer \/ HearsEnd \/ TimesOut \/ Signal \/ Join
  BY <1>0, <1>6 DEF Fork, HearsReady, HearsAnswer, HearsEnd, TimesOut, Heard, Signal, Join, Evaluates
<1>7. CASE Evaluator
  BY <1>7 DEF Evaluator, Evaluates
<1>8. CASE Drift \/ Crash \/ UNCHANGED vars
  BY <1>8 DEF Drift, Crash, vars
<1> QED
  BY <1>1, <1>2, <1>3, <1>4, <1>5, <1>6, <1>7, <1>8

-----------------------------------------------------------------------------
(* What the invariant gives.                                               *)

RecordInv == LoopInv /\ JudgeInv /\ TracesInv /\ CampaignInv

LEMMA RecordsBegin == Init => RecordInv
BY LoopBegins, JudgeBegins, TracesBegin, CampaignBegins DEF RecordInv

LEMMA RecordsStay == AuthorityInv /\ RecordInv /\ [Next]_vars => RecordInv'
<1> SUFFICES ASSUME AuthorityInv, RecordInv, [Next]_vars PROVE RecordInv'
  OBVIOUS
<1> USE DEF RecordInv, Next, Runs
<1>1. LoopInv'
  BY LoopAround, LoopWithin
<1>2. JudgeInv'
  BY JudgeAround, JudgeFresh, JudgeFreezes, JudgeMoves, EvaluatorMoves
<1>3. TracesInv'
  BY TracesAround, TracesWithin, RuntimeRecords
<1>4. CampaignInv'
  BY CampaignAttempts, CampaignKeeps, CampaignAround
<1> QED
  BY <1>1, <1>2, <1>3, <1>4

LEMMA TypesSuffice == AuthorityInv /\ RecordInv => TypeOK
BY DEF TypeOK, AuthorityInv, EffectsCovered, RecordInv, LoopInv, LoopTyped, JudgeInv, JudgeTyped, CampaignInv, CampaignTyped,
    Phases, InRun, Looping, Evaluated

LEMMA TracesSuffice == RecordInv => TracesAgree
BY DEF TracesAgree, RecordInv, TracesInv, LoopTraceTells, RuntimeTraceTells, CampaignInv, LastTells

LEMMA VerdictsSuffice == RecordInv => VerdictsAreEarned
<1> SUFFICES ASSUME RecordInv PROVE VerdictsAreEarned
  OBVIOUS
<1>1. ASSUME NEW i \in DOMAIN attempts
      PROVE  /\ Passed(attempts[i]) =>
                   attempts[i].status = "succeeded" /\ attempts[i].artifact # None /\ Correct(attempts[i].artifact)
             /\ attempts[i].artifact = None => attempts[i].evaluation \in {None, "not_run"}
             /\ ~attempts[i].intact => attempts[i].status = None
  <2>1. Earned(attempts[i])
    BY DEF RecordInv, CampaignInv, AttemptsEarned
  <2>2. None # "succeeded"
    BY StatusIsSomething DEF RunStatus
  <2> QED
    BY <2>1, <2>2 DEF Earned, Passed
<1> QED
  BY <1>1 DEF VerdictsAreEarned

\* Passed, failed or an error, and never two of them.
FailedAttempts ==
    {i \in DOMAIN attempts : attempts[i].status # None
        /\ (attempts[i].status # "succeeded" \/ attempts[i].evaluation = "failed")}

LEMMA AttemptsPartition ==
    ASSUME RecordInv
    PROVE  /\ IsFiniteSet(DOMAIN attempts) /\ Cardinality(DOMAIN attempts) = Len(attempts)
           /\ PassedAttempts \subseteq DOMAIN attempts /\ Errors \subseteq DOMAIN attempts \ PassedAttempts
           /\ FailedAttempts = (DOMAIN attempts \ PassedAttempts) \ Errors
<1>1. DOMAIN attempts = 1..Len(attempts) /\ Len(attempts) \in Nat
  BY DEF RecordInv, CampaignInv, CampaignTyped
<1>2. IsFiniteSet(DOMAIN attempts) /\ Cardinality(DOMAIN attempts) = Len(attempts)
  <2>1. IsFiniteSet(1..Len(attempts)) /\ Cardinality(1..Len(attempts)) = IF 1 > Len(attempts) THEN 0 ELSE Len(attempts) - 1 + 1
    BY <1>1, FS_Interval
  <2> QED
    BY <1>1, <2>1
<1>n. None \notin RunStatus \cup EvaluationStatus \cup {"runtime.exception"}
  BY NoneIsNothing
<1>3. ASSUME NEW i \in DOMAIN attempts
      PROVE  /\ IsError(attempts[i]) => ~Passed(attempts[i])
             /\ attempts[i].status # None /\ (attempts[i].status # "succeeded" \/ attempts[i].evaluation = "failed")
                    <=> ~Passed(attempts[i]) /\ ~IsError(attempts[i])
  <2> DEFINE a == attempts[i]
  <2>1. \/ a.status = None
        \/ a.status \in RunStatus /\ a.evaluation \in EvaluationStatus
    BY DEF RecordInv, CampaignInv, AttemptsEarned, Earned
  <2> HIDE DEF a
  <2>2. CASE Passed(a)
    <3>1. Attribution(a) = None /\ a.status = "succeeded" /\ a.evaluation = "passed"
      BY <2>2 DEF Attribution, Passed
    <3>2. ~IsError(a)
      BY <1>n, <3>1 DEF IsError, EvaluationStatus
    <3> QED
      BY <2>2, <3>1, <3>2 DEF a
  <2>3. CASE ~Passed(a) /\ a.status = None
    <3>1. IsError(a)
      BY <2>3 DEF IsError, Attribution
    <3> QED
      BY <2>3, <3>1 DEF a
  <2>4. CASE ~Passed(a) /\ a.status # None /\ a.status # "succeeded"
    <3>1. ~IsError(a)
      BY <2>4 DEF IsError, Attribution
    <3> QED
      BY <2>4, <3>1 DEF a
  <2>5. CASE ~Passed(a) /\ a.status # None /\ a.status = "succeeded"
    <3>1. a.evaluation \in EvaluationStatus \ {"passed"} /\ Attribution(a) = a.evaluation
      BY <2>1, <2>5 DEF Attribution, Passed
    <3>2. IsError(a) <=> a.evaluation # "failed"
      BY <3>1 DEF IsError, EvaluationStatus
    <3> QED
      BY <2>5, <3>2 DEF a
  <2> QED
    BY <2>2, <2>3, <2>4, <2>5
<1>4. PassedAttempts \subseteq DOMAIN attempts /\ Errors \subseteq DOMAIN attempts \ PassedAttempts
  BY <1>3 DEF PassedAttempts, Errors
<1>5. FailedAttempts = (DOMAIN attempts \ PassedAttempts) \ Errors
  BY <1>3 DEF PassedAttempts, Errors, FailedAttempts
<1> QED
  BY <1>2, <1>4, <1>5

LEMMA SummaryCounts ==
    ASSUME RecordInv
    PROVE  /\ Summary.passed + Summary.failed + Summary.errors = Len(attempts)
           /\ Summary.failed = Cardinality(FailedAttempts)
<1> DEFINE D == DOMAIN attempts
<1>1. /\ IsFiniteSet(D) /\ Cardinality(D) = Len(attempts)
      /\ PassedAttempts \subseteq D /\ Errors \subseteq D \ PassedAttempts
      /\ FailedAttempts = (D \ PassedAttempts) \ Errors
  BY AttemptsPartition
<1> HIDE DEF D
<1>2. /\ IsFiniteSet(PassedAttempts) /\ IsFiniteSet(D \ PassedAttempts)
      /\ Cardinality(D \ PassedAttempts) = Cardinality(D) - Cardinality(D \cap PassedAttempts)
  BY <1>1, FS_Subset, FS_Difference
<1>3. D \cap PassedAttempts = PassedAttempts /\ (D \ PassedAttempts) \cap Errors = Errors
  BY <1>1
<1>4. /\ IsFiniteSet(Errors)
      /\ Cardinality(FailedAttempts) = Cardinality(D \ PassedAttempts) - Cardinality((D \ PassedAttempts) \cap Errors)
  BY <1>1, <1>2, FS_Subset, FS_Difference
<1>5. Cardinality(D) \in Nat /\ Cardinality(PassedAttempts) \in Nat /\ Cardinality(Errors) \in Nat
  BY <1>1, <1>2, <1>4, FS_CardinalityType
<1>6. /\ Summary.passed = Cardinality(PassedAttempts) /\ Summary.errors = Cardinality(Errors)
      /\ Summary.failed = Len(attempts) - Cardinality(PassedAttempts) - Cardinality(Errors)
  BY DEF Summary
<1>7. Cardinality(FailedAttempts) = Cardinality(D) - Cardinality(PassedAttempts) - Cardinality(Errors)
  BY <1>2, <1>3, <1>4
<1> QED
  BY <1>1, <1>5, <1>6, <1>7

LEMMA KeptIsPrefix ==
    ASSUME RecordInv
    PROVE  /\ IsPrefix(kept, attempts) /\ Len(attempts) <= Len(kept) + 1
           /\ Len(attempts) = Len(kept) + 1 => kept # attempts
<1>1. kept \in Seq(Attempt) /\ attempts \in Seq(Attempt) /\ Len(kept) \in Nat /\ (kept = attempts \/ Behind)
  BY DEF RecordInv, CampaignInv, CampaignTyped, KeptInOrder
<1>2. CASE kept = attempts
  BY <1>1, <1>2 DEF IsPrefix
<1>3. CASE Behind
  <2> DEFINE a == Last(attempts)
  <2>1. a \in Attempt
    BY <1>1, <1>3 DEF Behind, Last
  <2>2. attempts = Append(kept, a)
    BY <1>3 DEF Behind
  <2> HIDE DEF a
  <2>3. /\ Len(attempts) = Len(kept) + 1
        /\ \A i \in 1..(Len(kept) + 1) : attempts[i] = IF i <= Len(kept) THEN kept[i] ELSE a
    BY <1>1, <2>1, <2>2, Appends
  <2>4. SubSeq(attempts, 1, Len(kept)) = kept
    <3>1. \A i \in 1..Len(kept) : attempts[i] \in Attempt
      BY <1>1, <2>3
    <3>2. /\ SubSeq(attempts, 1, Len(kept)) \in Seq(Attempt) /\ Len(SubSeq(attempts, 1, Len(kept))) = Len(kept)
          /\ \A i \in 1..Len(kept) : SubSeq(attempts, 1, Len(kept))[i] = attempts[i]
      BY <1>1, <3>1, SubSeqProperties
    <3>3. \A i \in 1..Len(kept) : SubSeq(attempts, 1, Len(kept))[i] = kept[i]
      BY <1>1, <2>3, <3>2
    <3> QED
      BY <1>1, <3>2, <3>3, SeqEqual
  <2>5. SubSeq(kept, 1, Len(kept)) = kept
    BY <1>1, SubSeqFull
  <2> QED
    BY <1>1, <2>3, <2>4, <2>5 DEF IsPrefix
<1> QED
  BY <1>1, <1>2, <1>3

LEMMA CampaignSuffices == RecordInv => CampaignCounts
<1> SUFFICES ASSUME RecordInv PROVE CampaignCounts
  OBVIOUS
<1>1. SlotsInOrder /\ KeptInOrder
  BY DEF RecordInv, CampaignInv
<1>2. Len(attempts) = Len(kept) + 1 => pc \in {"keep", "aborted", "crashed"}
  BY <1>1, KeptIsPrefix DEF KeptInOrder
<1>3. ASSUME pc = "reported"
      PROVE  /\ rest = <<>> /\ kept = attempts
             /\ summary.passed + summary.failed + summary.errors = Len(kept)
             /\ summary.failed = Cardinality(FailedAttempts)
  BY <1>1, <1>3, SummaryCounts DEF KeptInOrder
<1> QED
  BY <1>1, <1>2, <1>3, KeptIsPrefix DEF CampaignCounts, SlotsInOrder, FailedAttempts

LEMMA RecordsSuffice == AuthorityInv /\ RecordInv => RecordsAgree
BY TypesSuffice, TracesSuffice, CampaignSuffices, VerdictsSuffice DEF RecordsAgree

LEMMA StepsKeepRecords == AuthorityInv /\ RecordInv /\ [Next]_vars => AuthorityInv' /\ RecordInv'
BY RecordsStay, RunSteps, OtherSteps DEF Next, Runs

\* Whatever fails, drifts or dies in a campaign, its traces, its attempts, what
\* was kept of them and its report say the same, every slot of the schedule is
\* attempted once and in order, and no attempt passes but one whose frozen
\* files are what its domain asks for (GeneralAgentRuntime.run,
\* EvaluationCampaign.run, load_trace).
THEOREM RecordsAlwaysAgree == Spec => []RecordsAgree
BY AuthorityBegins, RecordsBegin, StepsKeepRecords, RecordsSuffice, PTL DEF Spec

\* When an evaluation is recorded, its evaluator is gone, and so is what it
\* started, unless the evaluator ignores SIGTERM or its group was never known
\* (_terminate_evaluator_process): the first half of EvaluatorIsStopped.
THEOREM EvaluatorIsGone ==
    Spec => [](pc \in {"judged", "keep", "case", "reported", "aborted"} =>
                   /\ ~Alive(judge.leader)
                   /\ judge.child = "alive" => judge.deaf \/ ~judge.grouped)
<1>1. RecordInv => (pc \in {"judged", "keep", "case", "reported", "aborted"} =>
                       /\ ~Alive(judge.leader)
                       /\ judge.child = "alive" => judge.deaf \/ ~judge.grouped)
  BY DEF RecordInv, JudgeInv, JudgeStops, Stopped, Judging
<1> QED
  BY <1>1, AuthorityBegins, RecordsBegin, StepsKeepRecords, PTL DEF Spec
=============================================================================

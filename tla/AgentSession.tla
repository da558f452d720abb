---------------------------- MODULE AgentSession ----------------------------
(***************************************************************************)
(* GeneralAgentSession (typescript/src/runtime/session.ts) with its native *)
(* kernel (native-kernel.ts): the tasks of one terminal session, one after *)
(* the other, each a loop of model exchanges and tool batches; the run     *)
(* archive their observations go to; cancel() and close(), which may come  *)
(* at any await.                                                           *)
(*                                                                         *)
(* One action is the code between two awaits.  The retained transcript is  *)
(* the number of its tool calls that have no result: validateCanonical-    *)
(* Context asks for nothing else of what the kernel itself appends.        *)
(***************************************************************************)
EXTENDS Naturals, Sequences, SequencesExt

CONSTANTS
    MaxBatch, \* bound of the model: calls in an answer
    MaxTurns, \* bound of the model: exchanges of a task
    MaxTasks, \* bound of the model: tasks of the session
    None

ASSUME BoundsAssumption == MaxBatch \in Nat /\ MaxTurns \in Nat /\ MaxTasks \in Nat

VARIABLES
    pc,            \* the await executeTask() is suspended at, "idle" without a task
    admitting,
    cancelled,     \* admissionCancelled
    archiveError,  \* an observation could not be archived or shown
    outcome,       \* of the kernel; "rejected" when executeTask throws
    running,       \* the kernel's
    signal,        \* its activeController: none, live or aborted
    unanswered,    \* calls of the retained messages that have no result
    left,          \* calls of the current batch still to run
    turns,
    log,           \* the current run's archive records
    archive,       \* none, open, or the state that sealed it
    sessionClosed, kernelClosed,
    closer,        \* what close() waits for
    tasks

kernel == <<running, signal, unanswered, left, turns>>
closing == <<sessionClosed, kernelClosed, closer>>
vars == <<pc, admitting, cancelled, archiveError, outcome, kernel, log, archive, closing, tasks>>

Status == {"completed", "incomplete", "model_error", "cancelled"}
ASSUME NoneAssumption == None \notin Status \cup {"rejected"}

StateFor(status) ==
    CASE status = "completed" -> "terminal"
      [] status = "cancelled" -> "cancelled"
      [] OTHER -> "failed"

Loop == {"beginning", "turning", "turnStarting", "checking", "exchanging", "turnSettling", "turnFailing",
         "calling", "toolStarting", "dispatching", "executing", "toolSettling"}
Outside == {"binding", "announcing", "starting", "bounding", "failing", "stopping", "reporting", "sealing"}

TypeOK ==
    /\ pc \in Loop \cup Outside \cup {"idle"}
    /\ admitting = (pc # "idle") /\ running = (pc \in Loop)
    /\ cancelled \in BOOLEAN /\ archiveError \in BOOLEAN
    /\ outcome \in Status \cup {"rejected", None}
    /\ signal \in (IF running THEN {"live", "aborted"} ELSE {"none"})
    /\ unanswered \in Nat /\ left \in 0..MaxBatch /\ turns \in 0..MaxTurns
    /\ archive \in {"none", "open", "terminal", "cancelled", "failed"}
    /\ sessionClosed \in BOOLEAN /\ kernelClosed \in BOOLEAN
    /\ closer \in {"no", "kernel", "admission", "done"}
    /\ tasks \in 0..MaxTasks

Init ==
    /\ pc = "idle" /\ admitting = FALSE /\ cancelled = FALSE /\ archiveError = FALSE
    /\ outcome = None
    /\ running = FALSE /\ signal = "none" /\ unanswered = 0 /\ left = 0 /\ turns = 0
    /\ log = <<>> /\ archive = "none"
    /\ sessionClosed = FALSE /\ kernelClosed = FALSE /\ closer = "no"
    /\ tasks = 0

Aborted == signal = "aborted"

-----------------------------------------------------------------------------
(* executeTask before and after the kernel.                                *)

Goes(p) == pc' = p /\ UNCHANGED <<admitting, outcome>>

\* executeTask ends; its finally block opens admission again.
Returns(o) == pc' = "idle" /\ admitting' = FALSE /\ outcome' = o

\* emit: appended, then shown.  Whatever of it fails is remembered and cancels.
Recorded(kind) ==
    /\ log' = Append(log, kind)
    /\ UNCHANGED archiveError

RecordFails(kind) ==
    /\ log' \in {log, Append(log, kind)}
    /\ archiveError' = TRUE

Submit ==
    /\ pc = "idle" /\ ~sessionClosed /\ tasks < MaxTasks
    /\ tasks' = tasks + 1
    /\ pc' = "binding" /\ admitting' = TRUE /\ cancelled' = FALSE /\ outcome' = None
    /\ log' = <<>> /\ archive' = "none"
    /\ UNCHANGED <<archiveError, kernel, closing>>

\* The runbook snapshot and the new archive.
Bind ==
    /\ pc = "binding"
    /\ \/ Goes("announcing") /\ archive' = "open" /\ archiveError' = FALSE
       \/ Returns("rejected") /\ UNCHANGED <<archive, archiveError>>
    /\ UNCHANGED <<cancelled, kernel, log, closing, tasks>>

Announce ==
    /\ pc = "announcing"
    /\ \/ Recorded("run.started") /\ Goes("starting")
       \/ RecordFails("run.started") /\ Returns("rejected")
    /\ UNCHANGED <<cancelled, kernel, archive, closing, tasks>>

\* A cancel during admission is an outcome of its own, without the kernel.
CancelledEarly == pc' = "stopping" /\ outcome' = "cancelled" /\ UNCHANGED admitting

Start ==
    /\ pc = "starting"
    /\ IF cancelled THEN CancelledEarly ELSE Goes("bounding")
    /\ UNCHANGED <<cancelled, archiveError, kernel, log, archive, closing, tasks>>

\* A closed kernel or a failing boundary throws.
Enter ==
    /\ pc = "bounding"
    /\ \/ Goes("failing") /\ UNCHANGED kernel
       \/ cancelled /\ CancelledEarly /\ UNCHANGED kernel
       \/ /\ ~cancelled /\ ~kernelClosed
          /\ Goes("beginning")
          /\ running' = TRUE /\ signal' = "live" /\ turns' = 0 /\ left' = 0
          /\ UNCHANGED unanswered
    /\ UNCHANGED <<cancelled, archiveError, log, archive, closing, tasks>>

\* The boundary's stop or the settlement may throw as well: the run stays open.
Fail ==
    /\ pc = "failing"
    /\ Returns("rejected")
    /\ archive' \in {"failed", archive}
    /\ UNCHANGED <<cancelled, archiveError, kernel, log, closing, tasks>>

StopBoundary ==
    /\ pc = "stopping"
    /\ \/ Returns("rejected")
       \/ Goes(IF archiveError THEN "sealing" ELSE "reporting")
    /\ UNCHANGED <<cancelled, archiveError, kernel, log, archive, closing, tasks>>

ReportTerminal ==
    /\ pc = "reporting"
    /\ \/ Recorded("run.terminal") /\ Goes("sealing")
       \/ RecordFails("run.terminal") /\ Returns("rejected")
    /\ UNCHANGED <<cancelled, kernel, archive, closing, tasks>>

SealUnchecked ==
    /\ pc = "sealing"
    /\ archive' = StateFor(outcome) /\ Returns(outcome)
    /\ UNCHANGED <<cancelled, archiveError, kernel, log, closing, tasks>>

Seal ==
    /\ pc = "sealing"
    /\ \/ /\ archive' = IF archiveError THEN "failed" ELSE StateFor(outcome)
          /\ Returns(IF archiveError THEN "rejected" ELSE outcome)
       \/ UNCHANGED archive /\ Returns("rejected")
    /\ UNCHANGED <<cancelled, archiveError, kernel, log, closing, tasks>>

-----------------------------------------------------------------------------
(* The kernel's loop.                                                      *)

outside == <<admitting, cancelled, archive, closing, tasks>>

Waits(p) == pc' = p /\ UNCHANGED <<outcome, running, signal>>

KernelEnds(status) ==
    /\ pc' = "stopping" /\ outcome' = status
    /\ running' = FALSE /\ signal' = "none"

\* The catch block: emit aborts before it rethrows, so a lost record reads as a cancel.
RecordLost(kind) == RecordFails(kind) /\ KernelEnds("cancelled")

\* A refused reservation or a failed check; an abort turns every error into a cancel.
KernelThrows == KernelEnds(IF Aborted THEN "cancelled" ELSE "model_error")

Begin ==
    /\ pc = "beginning"
    /\ \/ Waits("turning")
       \/ pc' = "failing" /\ running' = FALSE /\ signal' = "none" /\ UNCHANGED outcome
    /\ UNCHANGED <<outside, archiveError, unanswered, left, turns, log>>

\* Checks the transcript and reserves the exchange; the reservation may be refused.
Turn ==
    /\ pc = "turning"
    /\ \/ Aborted /\ KernelEnds("cancelled") /\ UNCHANGED turns
       \/ KernelThrows /\ UNCHANGED turns
       \/ unanswered = 0 /\ KernelEnds("incomplete") /\ UNCHANGED turns
       \/ /\ ~Aborted /\ unanswered = 0 /\ turns < MaxTurns
          /\ turns' = turns + 1
          /\ Waits("turnStarting")
    /\ UNCHANGED <<outside, archiveError, unanswered, left, log>>

TurnStarted ==
    /\ pc = "turnStarting"
    /\ \/ RecordLost("turn.started")
       \/ /\ Recorded("turn.started")
          /\ IF Aborted THEN KernelEnds("cancelled") ELSE Waits("checking")
    /\ UNCHANGED <<outside, unanswered, left, turns>>

\* admission.check() was awaited and the signal is not looked at again.
AskHeedless ==
    /\ pc = "checking"
    /\ KernelThrows \/ Waits("exchanging")
    /\ UNCHANGED <<outside, archiveError, unanswered, left, turns, log>>

\* The adapter refuses an exchange whose signal is aborted already.
Ask ==
    /\ pc = "checking"
    /\ \/ KernelThrows
       \/ ~Aborted /\ Waits("exchanging")
       \/ Aborted /\ Waits("turnFailing")
    /\ UNCHANGED <<outside, archiveError, unanswered, left, turns, log>>

\* The answer joins the transcript with its calls.
Answer(n) ==
    /\ pc = "exchanging"
    /\ unanswered' = unanswered + n
    /\ left' = n
    /\ Waits("turnSettling")
    /\ UNCHANGED <<outside, archiveError, turns, log>>

\* A failure, an exception or an answer that breaks the protocol; or the settlement
\* of the reservation, which comes first, fails.
ExchangeFails ==
    /\ pc = "exchanging"
    /\ Waits("turnFailing") \/ KernelThrows
    /\ UNCHANGED <<outside, archiveError, unanswered, left, turns, log>>

\* The category of the failure decides, and for some of them an abort.
TurnFailed ==
    /\ pc = "turnFailing"
    /\ \/ RecordLost("turn.settled")
       \/ /\ Recorded("turn.settled")
          /\ \E status \in {"cancelled", "model_error"} : KernelEnds(status)
    /\ UNCHANGED <<outside, unanswered, left, turns>>

\* A batch whose reservation is refused leaves the transcript with its answer.
TurnSettled ==
    /\ pc = "turnSettling"
    /\ \/ RecordLost("turn.settled") /\ UNCHANGED unanswered
       \/ /\ Recorded("turn.settled")
          /\ \/ Aborted /\ KernelEnds("cancelled") /\ UNCHANGED unanswered
             \/ ~Aborted /\ left = 0 /\ UNCHANGED unanswered
                /\ \E status \in {"completed", "incomplete"} : KernelEnds(status)
             \/ left > 0 /\ KernelEnds("incomplete") /\ unanswered' = unanswered - left
             \/ ~Aborted /\ left > 0 /\ Waits("calling") /\ UNCHANGED unanswered
    /\ UNCHANGED <<outside, left, turns>>

Call ==
    /\ pc = "calling"
    /\ \/ KernelThrows
       \/ ~Aborted /\ Waits("toolStarting")
    /\ UNCHANGED <<outside, archiveError, unanswered, left, turns, log>>

\* The call goes on although its record was lost.
ToolStartedUnrecorded ==
    /\ pc = "toolStarting"
    /\ \/ Recorded("tool.started") \/ UNCHANGED <<log, archiveError>>
    /\ IF Aborted THEN KernelEnds("cancelled") ELSE Waits("dispatching")
    /\ UNCHANGED <<outside, unanswered, left, turns>>

ToolStarted ==
    /\ pc = "toolStarting"
    /\ \/ RecordLost("tool.started")
       \/ /\ Recorded("tool.started")
          /\ IF Aborted THEN KernelEnds("cancelled") ELSE Waits("dispatching")
    /\ UNCHANGED <<outside, unanswered, left, turns>>

\* executeTool looks at the signal once more; an aborted, unknown or invalid call
\* gets an error result without an effect.
Dispatch ==
    /\ pc = "dispatching"
    /\ \/ KernelThrows /\ UNCHANGED <<unanswered, left>>
       \/ ~Aborted /\ Waits("executing") /\ UNCHANGED <<unanswered, left>>
       \/ Waits("toolSettling") /\ unanswered' = unanswered - 1 /\ left' = left - 1
    /\ UNCHANGED <<outside, archiveError, turns, log>>

ToolSettles ==
    /\ pc = "executing"
    /\ unanswered' = unanswered - 1 /\ left' = left - 1
    /\ Waits("toolSettling")
    /\ UNCHANGED <<outside, archiveError, turns, log>>

ToolSettled ==
    /\ pc = "toolSettling"
    /\ \/ RecordLost("tool.settled")
       \/ /\ Recorded("tool.settled")
          /\ IF Aborted THEN KernelEnds("cancelled")
             ELSE Waits(IF left > 0 THEN "calling" ELSE "turning")
    /\ UNCHANGED <<outside, unanswered, left, turns>>

-----------------------------------------------------------------------------
(* cancel() and close().                                                   *)

\* Only the admission hears it.
CancelAdmissionOnly ==
    /\ cancelled' = (cancelled \/ admitting)
    /\ UNCHANGED signal

DoCancel ==
    /\ cancelled' = (cancelled \/ admitting)
    /\ signal' = IF signal = "live" THEN "aborted" ELSE signal

Cancel ==
    /\ DoCancel
    /\ UNCHANGED <<pc, admitting, archiveError, outcome, running, unanswered, left, turns, log,
                   archive, closing, tasks>>

\* The kernel closes once it is idle, the session once its task has returned.
Close ==
    /\ ~sessionClosed /\ sessionClosed' = TRUE
    /\ DoCancel
    /\ closer' = IF running THEN "kernel" ELSE "admission"
    /\ kernelClosed' = ~running
    /\ UNCHANGED <<pc, admitting, archiveError, outcome, running, unanswered, left, turns, log,
                   archive, tasks>>

KernelIdle ==
    /\ closer = "kernel" /\ ~running
    /\ kernelClosed' = TRUE
    /\ closer' = "admission"
    /\ UNCHANGED <<pc, admitting, cancelled, archiveError, outcome, kernel, log, archive,
                   sessionClosed, tasks>>

Closed ==
    /\ closer = "admission" /\ ~admitting
    /\ closer' = "done"
    /\ UNCHANGED <<pc, admitting, cancelled, archiveError, outcome, kernel, log, archive,
                   sessionClosed, kernelClosed, tasks>>

-----------------------------------------------------------------------------
Answers == ExchangeFails \/ \E n \in 0..MaxBatch : Answer(n)

Step ==
    \/ Bind \/ Announce \/ Start \/ Enter \/ Fail \/ StopBoundary \/ ReportTerminal \/ Seal
    \/ Begin \/ Turn \/ TurnStarted \/ Ask \/ TurnFailed \/ TurnSettled \/ Call \/ ToolStarted \/ Dispatch
    \/ ToolSettled
    \/ KernelIdle \/ Closed

Next == Submit \/ Step \/ Answers \/ ToolSettles \/ Cancel \/ Close

Spec == Init /\ [][Next]_vars

\* The event loop runs what is ready.  An exchange and a tool may take for ever
\* unless their signal is aborted.
FairSpec ==
    /\ Spec
    /\ WF_vars(Step)
    /\ WF_vars(Aborted /\ (Answers \/ ToolSettles))

-----------------------------------------------------------------------------
\* Records come first: an exchange or a tool effect is under way only when its
\* start was archived, as the last record of a run that began with run.started.
RecordedFirst ==
    pc \in {"exchanging", "executing"} =>
        /\ archive = "open" /\ ~archiveError
        /\ Head(log) = "run.started"
        /\ Last(log) = IF pc = "exchanging" THEN "turn.started" ELSE "tool.started"

\* A cancel is not lost between admission, boundary and kernel: from the moment it
\* is asked for, no exchange or effect begins and the task does not complete.
CancelHolds ==
    [][cancelled =>
          /\ pc' \in {"exchanging", "executing"} => pc' = pc
          /\ outcome' = "completed" => outcome = "completed"]_vars

\* A task that returns has a sealed archive that says what it returned: it begins
\* with run.started, ends with run.terminal, and a completed one has settled all
\* turns and tools it started.
ArchiveTells ==
    /\ TypeOK
    /\ pc = "idle" /\ outcome \in Status =>
          /\ archive = StateFor(outcome)
          /\ Head(log) = "run.started" /\ Last(log) = "run.terminal"
          /\ outcome = "completed" =>
                 \A i \in DOMAIN log :
                     /\ log[i] = "turn.started" => log[i + 1] = "turn.settled"
                     /\ log[i] = "tool.started" => log[i + 1] = "tool.settled"

\* cancel() and close() are answered: the task ends, and the session closes.
CancelEnds ==
    /\ (cancelled /\ admitting) ~> ~admitting
    /\ sessionClosed ~> (closer = "done")

=============================================================================

------------------------ MODULE ExecutionController ------------------------
(***************************************************************************)
(* ExecutionController.execute of typescript/src/execution/controller.ts:  *)
(* the serial loop that dispatches attempts on a fixed cadence, the        *)
(* deadline timer, the caller's abort signal and the reconciliation loop   *)
(* that may revoke it at any await, the stop they trigger and the finally  *)
(* block that confirms it.                                                 *)
(*                                                                         *)
(* One action is the code between two awaits.  The runner is the           *)
(* TaskRunner interface: it may settle, reject or hang, within the         *)
(* contract of its documentation (it confirms or denies a stop, and a      *)
(* stopped run settles).                                                   *)
(***************************************************************************)
EXTENDS Naturals

CONSTANTS
    Duration, \* plan.durationMs: the deadline, as the start is 0
    Every,    \* plan.everyMs
    MaxGoal,  \* bound of the model: attempts of a goal
    None

ASSUME PlanAssumption == Duration \in Nat \ {0} /\ Every \in Nat \ {0} /\ MaxGoal \in Nat

VARIABLES
    mode,       \* plan.mode
    now,        \* clock.now(); at Duration the deadline has passed
    pc,         \* the await execute() is suspended at
    reason,     \* this.reason; set by requestStop, which aborts the signal
    due,        \* when the next attempt is due
    planned,    \* the due time of the last dispatched attempt, None before
    settledAt,  \* when it settled
    attempts,
    result,     \* status and reason of the last attempt
    verdict,    \* of its verification
    stopping,   \* stopPromise
    reconciler, \* reconcileTask
    thrown      \* an error propagates once finally is through

vars == <<mode, now, pc, reason, due, planned, settledAt, attempts, result, verdict,
          stopping, reconciler, thrown>>
plan == <<mode, now>>
cadence == <<due, planned, settledAt, attempts>>

Ended == {"done", "rejected", "crashed"}
Guarded == {"planning", "sleeping", "announcing", "running", "settling", "presenting",
            "verifying", "judging", "pausing", "reporting"}
Finally == {"stopping", "stopError", "confirming", "preserving", "cleanupError", "terminal"}

Revocation == {"deadline_exceeded", "cancelled", "budget_exhausted", "worker_failed",
               "needs_review", "succeeded"}
Degraded == {"stop_unconfirmed", "cleanup_failed"}
ASSUME NoneAssumption == None \notin Revocation \cup Degraded

Result == {"completed", "limit", "failed"}
Verdict == [status : {"PASS", "FAIL", "UNKNOWN"}, valid : BOOLEAN]

TypeOK ==
    /\ mode \in {"loop", "goal"}
    /\ now \in 0..Duration
    /\ pc \in {"new", "draining"} \cup Guarded \cup Finally \cup Ended
    /\ reason \in Revocation \cup Degraded \cup {None}
    /\ due \in Nat /\ planned \in Nat \cup {None} /\ settledAt \in 0..Duration
    /\ attempts \in Nat
    /\ result \in Result \cup {None}
    /\ verdict \in Verdict \cup {None}
    /\ stopping \in {"none", "asked", "confirmed", "unconfirmed", "failed"}
    /\ reconciler \in {"absent", "sleeping", "reconciling", "complaining", "done"}
    /\ thrown \in BOOLEAN

Init ==
    /\ mode \in {"loop", "goal"}
    /\ now = 0 /\ pc = "new" /\ reason = None
    /\ due = 0 /\ planned = None /\ settledAt = 0 /\ attempts = 0
    /\ result = None /\ verdict = None
    /\ stopping = "none"
    /\ reconciler \in {"absent", "sleeping"}
    /\ thrown = FALSE

Late == now >= Duration

-----------------------------------------------------------------------------
(* requestStop: the first reason aborts, and the abort listener asks the   *)
(* runner to stop whatever execute() is waiting for.                       *)

Listening == pc \in Guarded \cup {"draining"}

\* The runner is stopped by the finally block only.
RevokeUnheard(r) ==
    /\ reason' = IF reason = None THEN r ELSE reason
    /\ UNCHANGED stopping

Revoke(r) ==
    /\ reason' = IF reason = None THEN r ELSE reason
    /\ stopping' = IF reason = None /\ Listening /\ stopping = "none" THEN "asked" ELSE stopping

Await(p) == pc' = p

\* An exception inside the try: reported only if nothing revoked before.
Throw ==
    /\ Await(IF reason = None THEN "reporting" ELSE "draining")
    /\ UNCHANGED <<reason, stopping>>

\* eligible() throws, after it revoked a late execution.
Ineligible == Late \/ reason # None
Refuse ==
    /\ Ineligible
    /\ IF Late THEN Revoke("deadline_exceeded") ELSE UNCHANGED <<reason, stopping>>
    /\ Await("draining")

-----------------------------------------------------------------------------
(* The try block.                                                          *)

Begin(aborted) ==
    /\ pc = "new"
    /\ Await("planning")
    /\ reason' = IF aborted THEN "cancelled" ELSE None
    /\ UNCHANGED <<plan, cadence, result, verdict, stopping, reconciler, thrown>>

\* A record() that rejects, at each await of the try block outside a callback.
RecordFails ==
    /\ pc \in {"planning", "announcing", "settling", "presenting", "judging"}
    /\ Throw
    /\ UNCHANGED <<plan, cadence, result, verdict, reconciler, thrown>>

PlanRecorded ==
    /\ pc = "planning"
    /\ Await(IF reason = None THEN "sleeping" ELSE "draining")
    /\ UNCHANGED <<plan, cadence, reason, result, verdict, stopping, reconciler, thrown>>

\* The sleep ends at the due time, or with the abort.
Wake ==
    /\ pc = "sleeping"
    /\ due <= now \/ reason # None
    /\ \/ Refuse /\ UNCHANGED attempts
       \/ /\ ~Ineligible
          /\ attempts' = attempts + 1
          /\ Await("announcing")
          /\ UNCHANGED <<reason, stopping>>
    /\ UNCHANGED <<plan, due, planned, settledAt, result, verdict, reconciler, thrown>>

\* Dispatched although a revocation arrived while the attempt was recorded.
DispatchUnchecked ==
    /\ pc = "announcing"
    /\ planned' = due
    /\ Await("running")
    /\ UNCHANGED <<plan, due, settledAt, attempts, reason, stopping, result, verdict, reconciler, thrown>>

Dispatch ==
    /\ pc = "announcing"
    /\ \/ Refuse /\ UNCHANGED planned
       \/ /\ ~Ineligible
          /\ planned' = due
          /\ Await("running")
          /\ UNCHANGED <<reason, stopping>>
    /\ UNCHANGED <<plan, due, settledAt, attempts, result, verdict, reconciler, thrown>>

RunSettles(r) ==
    /\ pc = "running"
    /\ result' = r
    /\ settledAt' = now
    /\ Await("settling")
    /\ UNCHANGED <<plan, due, planned, attempts, reason, verdict, stopping, reconciler, thrown>>

RunRejects ==
    /\ pc = "running"
    /\ Throw
    /\ UNCHANGED <<plan, cadence, result, verdict, reconciler, thrown>>

\* The next tick after the last planned one, however long the attempt took.
NextDueCatchingUp == IF mode = "goal" THEN now ELSE planned + Every

NextDue == IF mode = "goal" THEN now ELSE (now \div Every + 1) * Every

\* The end of one round of the loop.
Reschedule ==
    /\ due' = NextDue
    /\ Await(IF NextDue >= Duration THEN "pausing" ELSE "sleeping")
    /\ UNCHANGED <<reason, stopping>>

Settle ==
    /\ pc = "settling"
    /\ \/ Refuse /\ UNCHANGED due
       \/ /\ ~Ineligible /\ result # "completed"
          /\ Revoke(IF result = "limit" THEN "budget_exhausted" ELSE "worker_failed")
          /\ Await("draining")
          /\ UNCHANGED due
       \/ /\ ~Ineligible /\ result = "completed" /\ mode = "goal"
          /\ Await("presenting")
          /\ UNCHANGED <<reason, stopping, due>>
       \/ /\ ~Ineligible /\ result = "completed" /\ mode = "loop"
          /\ Reschedule
    /\ UNCHANGED <<plan, planned, settledAt, attempts, result, verdict, reconciler, thrown>>

Presented ==
    /\ pc = "presenting"
    /\ Await("verifying")
    /\ UNCHANGED <<plan, cadence, reason, result, verdict, stopping, reconciler, thrown>>

\* A rejected verification is UNKNOWN without a candidate.
Verified(v) ==
    /\ pc = "verifying"
    /\ verdict' = v
    /\ Await("judging")
    /\ UNCHANGED <<plan, cadence, reason, result, stopping, reconciler, thrown>>

\* A verdict taken as it is, however late.
JudgeWith(ineligible) ==
    \/ /\ ~ineligible /\ (~verdict.valid \/ verdict.status = "UNKNOWN")
       /\ Revoke("needs_review")
       /\ Await("draining")
       /\ UNCHANGED due
    \/ /\ ~ineligible /\ verdict.valid /\ verdict.status = "PASS"
       /\ Revoke("succeeded")
       /\ Await("draining")
       /\ UNCHANGED due
    \/ /\ ~ineligible /\ verdict.valid /\ verdict.status = "FAIL" /\ attempts < MaxGoal
       /\ Reschedule

Judge ==
    /\ pc = "judging"
    /\ \/ Refuse /\ UNCHANGED due
       \/ JudgeWith(Ineligible)
    /\ UNCHANGED <<plan, planned, settledAt, attempts, result, verdict, reconciler, thrown>>

\* Nothing is due before the deadline.
Pause ==
    /\ pc = "pausing"
    /\ Late \/ reason # None
    /\ IF Late THEN Revoke("deadline_exceeded") ELSE UNCHANGED <<reason, stopping>>
    /\ Await("draining")
    /\ UNCHANGED <<plan, cadence, result, verdict, reconciler, thrown>>

\* The catch block; its own record() may reject too, before it revokes.
Report(ok) ==
    /\ pc = "reporting"
    /\ IF ok THEN Revoke("worker_failed") ELSE UNCHANGED <<reason, stopping>>
    /\ thrown' = ~ok
    /\ Await("draining")
    /\ UNCHANGED <<plan, cadence, result, verdict, reconciler>>

-----------------------------------------------------------------------------
(* The finally block.                                                      *)

\* The deadline timer is cancelled, the reconciliation loop is awaited.
Drain ==
    /\ pc = "draining"
    /\ reconciler \in {"absent", "done"}
    /\ stopping' = IF stopping = "none" THEN "asked" ELSE stopping
    /\ Await("stopping")
    /\ UNCHANGED <<plan, cadence, reason, result, verdict, reconciler, thrown>>

StopKnown ==
    /\ pc = "stopping" /\ stopping # "asked"
    /\ Await(IF stopping = "failed" THEN "stopError" ELSE "confirming")
    /\ UNCHANGED <<plan, cadence, reason, result, verdict, stopping, reconciler, thrown>>

StopErrorRecorded ==
    /\ pc = "stopError"
    /\ Await("confirming")
    /\ UNCHANGED <<plan, cadence, reason, result, verdict, stopping, reconciler, thrown>>

Confirm ==
    /\ pc = "confirming"
    /\ reason' = IF stopping = "confirmed" THEN reason ELSE "stop_unconfirmed"
    /\ Await("preserving")
    /\ UNCHANGED <<plan, cadence, result, verdict, stopping, reconciler, thrown>>

Leave == Await(IF thrown THEN "rejected" ELSE "terminal")

Preserve(ok) ==
    /\ pc = "preserving"
    /\ IF ok THEN Leave ELSE Await("cleanupError")
    /\ UNCHANGED <<plan, cadence, reason, result, verdict, stopping, reconciler, thrown>>

CleanupErrorRecorded ==
    /\ pc = "cleanupError"
    /\ reason' = IF stopping = "confirmed" THEN "cleanup_failed" ELSE reason
    /\ Leave
    /\ UNCHANGED <<plan, cadence, result, verdict, stopping, reconciler, thrown>>

\* The result is returned once it is recorded.
Terminal ==
    /\ pc = "terminal"
    /\ Await("done")
    /\ UNCHANGED <<plan, cadence, reason, result, verdict, stopping, reconciler, thrown>>

\* A record() that rejects in the finally block or after it leaves execute().
LastRecordFails ==
    /\ pc \in {"stopError", "confirming", "cleanupError", "terminal"}
    /\ Await("rejected")
    /\ UNCHANGED <<plan, cadence, reason, result, verdict, stopping, reconciler, thrown>>

-----------------------------------------------------------------------------
(* What goes on beside execute().                                          *)

Tick ==
    /\ pc \notin Ended /\ now < Duration
    /\ now' = now + 1
    /\ UNCHANGED <<mode, pc, cadence, reason, result, verdict, stopping, reconciler, thrown>>

\* deadlineTask, until the finally block cancels it.
DeadlineFires ==
    /\ pc \in Guarded /\ Late /\ reason = None
    /\ Revoke("deadline_exceeded")
    /\ UNCHANGED <<plan, pc, cadence, result, verdict, reconciler, thrown>>

\* The caller's signal.
Cancel ==
    /\ Listening /\ reason = None
    /\ Revoke("cancelled")
    /\ UNCHANGED <<plan, pc, cadence, result, verdict, reconciler, thrown>>

\* runner.stop settles: it confirms the stop or not.
StopSettles(s) ==
    /\ stopping = "asked" /\ pc \notin Ended
    /\ stopping' = s
    /\ UNCHANGED <<plan, pc, cadence, reason, result, verdict, reconciler, thrown>>

\* Or it rejects: only the finally block listens, and a rejection nobody listens to
\* ends the process, as does one while the stop itself is still being recorded.
StopRejects ==
    /\ stopping = "asked" /\ pc \notin Ended
    /\ stopping' = "failed"
    /\ \/ pc = "stopping" /\ UNCHANGED pc
       \/ Await("crashed")
    /\ UNCHANGED <<plan, cadence, reason, result, verdict, reconciler, thrown>>

ReconcileWakes ==
    /\ pc \in Guarded \cup {"draining"} /\ reconciler = "sleeping"
    /\ reconciler' = IF reason = None THEN "reconciling" ELSE "done"
    /\ UNCHANGED <<plan, pc, cadence, reason, result, verdict, stopping, thrown>>

ReconcileSettles(ok) ==
    /\ pc \notin Ended /\ reconciler = "reconciling"
    /\ reconciler' = CASE reason # None -> "done" [] ok -> "sleeping" [] OTHER -> "complaining"
    /\ UNCHANGED <<plan, pc, cadence, reason, result, verdict, stopping, thrown>>

\* The loop's own record(): if it rejects nobody listens until the finally block
\* awaits the loop, and an unhandled rejection ends the process.
Complain(ok) ==
    /\ pc \notin Ended /\ reconciler = "complaining"
    /\ reconciler' = "done"
    /\ IF ok
       THEN Revoke("worker_failed") /\ UNCHANGED pc
       ELSE /\ Await(IF pc = "draining" THEN "rejected" ELSE "crashed")
            /\ UNCHANGED <<reason, stopping>>
    /\ UNCHANGED <<plan, cadence, result, verdict, thrown>>

-----------------------------------------------------------------------------
Execute ==
    \/ \E aborted \in BOOLEAN : Begin(aborted)
    \/ RecordFails \/ PlanRecorded \/ Wake \/ Dispatch \/ Settle \/ Presented \/ Judge \/ Pause
    \/ \E ok \in BOOLEAN : Report(ok)
    \/ Drain \/ StopKnown \/ StopErrorRecorded \/ Confirm
    \/ \E ok \in BOOLEAN : Preserve(ok)
    \/ CleanupErrorRecorded \/ Terminal \/ LastRecordFails

Runner ==
    \/ \E r \in Result : RunSettles(r)
    \/ RunRejects
    \/ \E v \in Verdict : Verified(v)

Reconciliation ==
    \/ ReconcileWakes
    \/ \E ok \in BOOLEAN : ReconcileSettles(ok) \/ Complain(ok)

Stopped ==
    \/ \E s \in {"confirmed", "unconfirmed"} : StopSettles(s)
    \/ StopRejects

Next ==
    \/ Execute \/ Runner \/ Reconciliation
    \/ Stopped
    \/ Tick \/ DeadlineFires \/ Cancel

Spec == Init /\ [][Next]_vars

\* Time passes, the event loop runs what is ready, a stop settles within its
\* bound, a run that was stopped settles, and a verification is bounded.  A run
\* that was not stopped may go on forever.
Fairness ==
    /\ WF_vars(Tick) /\ WF_vars(DeadlineFires)
    /\ WF_vars(Execute) /\ WF_vars(Reconciliation)
    /\ WF_vars(Stopped)
    /\ WF_vars(stopping # "none" /\ (RunRejects \/ \E r \in Result : RunSettles(r)))
    /\ WF_vars(\E v \in Verdict : Verified(v))

FairSpec == Spec /\ Fairness

-----------------------------------------------------------------------------
Contract == INSTANCE ExecutionContract WITH
    Reason <- Revocation,
    phase <- CASE pc \in Ended -> "closed"
               [] pc \notin Ended /\ reason # None -> "revoked"
               [] OTHER -> "open",
    verdict <- reason,
    running <- pc = "running"

\* The loop with its timers, signals, failing logs and finally block implements
\* the contract: no attempt is dispatched after a revocation, whichever await it
\* arrived at, the first reason stays, and only a failed stop or cleanup changes
\* what is reported.
ContractHolds == Contract!Spec

\* "Stopping the runner happens independently of its cooperation" (controller.ts:
\* 43): as soon as an execution that dispatched anything is revoked, the runner
\* has been asked to stop, whatever execute() is waiting for.
RevocationReachesRunner == attempts > 0 /\ reason # None => stopping # "none"

\* "A deadline is exclusive"; "late verification evidence ... cannot grant success"
\* (execution-controller.md): success is declared only before the deadline, by a
\* valid PASS for the current attempt, and reported only with a confirmed stop.
SuccessIsTimely ==
    /\ [][reason # "succeeded" /\ reason' = "succeeded" =>
             now < Duration /\ verdict = [status |-> "PASS", valid |-> TRUE]
             /\ mode = "goal" /\ result = "completed"]_vars
    /\ [](pc = "done" /\ reason = "succeeded" => stopping = "confirmed")

\* "It skips ticks missed by long checks; it never overlaps or catches up": each
\* loop attempt belongs to a tick of its own, later than the end of the one before.
CadenceHolds ==
    [][pc # "running" /\ pc' = "running" /\ mode = "loop" =>
          /\ planned' % Every = 0 /\ planned' <= now
          /\ planned # None => planned' > settledAt]_vars

\* Neither success nor a tick comes late, whatever each await took.
KeepsTime == []TypeOK /\ SuccessIsTimely /\ CadenceHolds

\* Once revoked, an execution ends, although logs fail, the runner rejects or the
\* reconciliation loop is in the middle of a call.
RevocationEnds == (reason # None) ~> (pc \in Ended)

=============================================================================

-------------------------- MODULE ExecutionProofs --------------------------
(***************************************************************************)
(* For every plan: a revocation reaches the runner; the controller         *)
(* implements ExecutionContract, step by step under the refinement mapping *)
(* of ExecutionController; and neither success nor a tick comes late.      *)
(* Fairness plays no part, and in the first two nor do duration and        *)
(* cadence: they hold however the steps interleave.                        *)
(*                                                                         *)
(* For any runs, tickets and limits: the reservation ledger keeps its      *)
(* budgets, persists before it grants, balances and looks atomic.          *)
(*                                                                         *)
(* For any number of writes to the workspace: the Docker sandbox keeps the *)
(* work before it drops the volume, cleans what it calls cleaned, and lets *)
(* nothing write once a stop was confirmed.                                *)
(***************************************************************************)
EXTENDS ExecutionController, BudgetLedger, DockerSandbox, SetSums, SequenceTheorems, TLAPS

\* No attempt exists before execute() begins, and the finally block stops the
\* runner before anything that follows.
IInv ==
    /\ pc \in {"new", "draining"} \cup Guarded \cup Finally \cup Ended
    /\ reason \in Revocation \cup Degraded \cup {None}
    /\ attempts \in Nat
    /\ pc = "new" => attempts = 0 /\ reason = None
    /\ pc \in Finally => stopping # "none"
    /\ RevocationReachesRunner
    /\ pc = "new" => reconciler \in {"absent", "sleeping"}

LEMMA Begins == Init => IInv
BY DEF Init, IInv, RevocationReachesRunner, Guarded, Finally, Ended

-----------------------------------------------------------------------------
(* The invariant, one lemma for each way a step can leave the state.       *)

\* A revocation in the try block or in the draining finally block.
LEMMA RevokingKeeps ==
    ASSUME IInv, NEW r \in Revocation, Revoke(r), Listening,
           pc' \in Guarded \cup {"draining"}, attempts' = attempts
    PROVE  IInv'
BY NoneAssumption
DEF IInv, Revoke, Listening, RevocationReachesRunner, Guarded, Finally, Ended, Revocation

\* A step that leaves the reason alone, and attempts unless nothing was revoked.
LEMMA WorkingKeeps ==
    ASSUME IInv, UNCHANGED <<reason, stopping>>,
           pc' \in {"draining"} \cup Guarded \cup Ended,
           \/ attempts' = attempts
           \/ reason = None /\ attempts' \in Nat
    PROVE  IInv'
BY DEF IInv, RevocationReachesRunner, Guarded, Finally, Ended

\* The finally block once the runner was asked to stop.
LEMMA StoppingKeeps ==
    ASSUME IInv, stopping' # "none", attempts' = attempts, pc # "new",
           reason' \in Revocation \cup Degraded \cup {None},
           pc' = pc \/ pc' \in Finally \cup Ended
    PROVE  IInv'
BY DEF IInv, RevocationReachesRunner, Guarded, Finally, Ended

LEMMA Reasons ==
    /\ {"deadline_exceeded", "cancelled", "budget_exhausted", "worker_failed",
        "needs_review", "succeeded"} \subseteq Revocation
    /\ {"stop_unconfirmed", "cleanup_failed"} \subseteq Degraded
BY DEF Revocation, Degraded

\* The actions of execute() up to the finally block.
LEMMA TryKeeps ==
    ASSUME IInv,
           \/ \E aborted \in BOOLEAN : Begin(aborted)
           \/ RecordFails \/ PlanRecorded \/ Wake \/ Dispatch \/ Settle \/ Presented
           \/ Judge \/ Pause \/ (\E ok \in BOOLEAN : Report(ok))
           \/ (\E r \in Result : RunSettles(r)) \/ RunRejects
           \/ (\E v \in Verdict : Verified(v))
    PROVE  IInv'
<1> USE Reasons
<1>1. ASSUME NEW aborted \in BOOLEAN, Begin(aborted)  PROVE IInv'
  BY <1>1 DEF IInv, Begin, cadence, Await, RevocationReachesRunner, Guarded, Finally, Ended
<1>2. CASE Refuse /\ UNCHANGED attempts /\ pc \in Guarded
  <2>1. CASE Revoke("deadline_exceeded")
    BY <1>2, <2>1, RevokingKeeps DEF Refuse, Await, Listening
  <2>2. CASE UNCHANGED <<reason, stopping>>
    BY <1>2, <2>2, WorkingKeeps DEF Refuse, Await
  <2> QED BY <1>2, <2>1, <2>2 DEF Refuse
<1>3. CASE RecordFails \/ RunRejects
  BY <1>3, WorkingKeeps DEF RecordFails, RunRejects, Throw, Await, cadence, Guarded
<1>4. CASE PlanRecorded \/ Presented
  BY <1>4, WorkingKeeps DEF PlanRecorded, Presented, Await, cadence, Guarded
<1>5. CASE Wake
  <2>1. CASE Refuse /\ UNCHANGED attempts
    BY <1>5, <2>1, <1>2 DEF Wake, Guarded
  <2>2. CASE ~Ineligible /\ attempts' = attempts + 1 /\ Await("announcing")
             /\ UNCHANGED <<reason, stopping>>
    <3>1. reason = None /\ attempts' \in Nat
      BY <2>2 DEF Ineligible, IInv
    <3> QED BY <2>2, <3>1, WorkingKeeps DEF Await, Guarded
  <2> QED BY <1>5, <2>1, <2>2 DEF Wake
<1>6. CASE Dispatch
  <2>1. CASE Refuse
    BY <1>6, <2>1, <1>2 DEF Dispatch, Guarded
  <2>2. CASE Await("running") /\ UNCHANGED <<reason, stopping>>
    BY <1>6, <2>2, WorkingKeeps DEF Dispatch, Await, Guarded
  <2> QED BY <1>6, <2>1, <2>2 DEF Dispatch
<1>7. CASE Settle
  <2>1. CASE Refuse
    BY <1>7, <2>1, <1>2 DEF Settle, Guarded
  <2>2. CASE Await("draining")
             /\ Revoke(IF result = "limit" THEN "budget_exhausted" ELSE "worker_failed")
    BY <1>7, <2>2, RevokingKeeps DEF Settle, Await, Listening, Guarded
  <2>3. CASE Await("presenting") /\ UNCHANGED <<reason, stopping>>
    BY <1>7, <2>3, WorkingKeeps DEF Settle, Await, Guarded
  <2>4. CASE Reschedule
    BY <1>7, <2>4, WorkingKeeps DEF Settle, Reschedule, Await, Guarded
  <2> QED BY <1>7, <2>1, <2>2, <2>3, <2>4 DEF Settle
<1>8. CASE Judge
  <2>1. CASE Refuse
    BY <1>8, <2>1, <1>2 DEF Judge, Guarded
  <2>2. CASE Await("draining") /\ (Revoke("needs_review") \/ Revoke("succeeded"))
    BY <1>8, <2>2, RevokingKeeps DEF Judge, Await, Listening, Guarded
  <2>3. CASE Reschedule
    BY <1>8, <2>3, WorkingKeeps DEF Judge, Reschedule, Await, Guarded
  <2> QED BY <1>8, <2>1, <2>2, <2>3 DEF Judge, JudgeWith
<1>9. CASE Pause
  <2>1. CASE Revoke("deadline_exceeded")
    BY <1>9, <2>1, RevokingKeeps DEF Pause, Await, cadence, Listening, Guarded
  <2>2. CASE UNCHANGED <<reason, stopping>>
    BY <1>9, <2>2, WorkingKeeps DEF Pause, Await, cadence, Guarded
  <2> QED BY <1>9, <2>1, <2>2 DEF Pause
<1>10. ASSUME NEW ok \in BOOLEAN, Report(ok)  PROVE IInv'
  <2>1. CASE Revoke("worker_failed")
    BY <1>10, <2>1, RevokingKeeps DEF Report, Await, cadence, Listening, Guarded
  <2>2. CASE UNCHANGED <<reason, stopping>>
    BY <1>10, <2>2, WorkingKeeps DEF Report, Await, cadence, Guarded
  <2> QED BY <1>10, <2>1, <2>2 DEF Report
<1>11. ASSUME NEW r \in Result, RunSettles(r)  PROVE IInv'
  BY <1>11, WorkingKeeps DEF RunSettles, Await, Guarded
<1>12. ASSUME NEW v \in Verdict, Verified(v)  PROVE IInv'
  BY <1>12, WorkingKeeps DEF Verified, Await, cadence, Guarded
<1> QED BY <1>1, <1>3, <1>4, <1>5, <1>6, <1>7, <1>8, <1>9, <1>10, <1>11, <1>12

\* The finally block.
LEMMA FinallyKeeps ==
    ASSUME IInv,
           \/ Drain \/ StopKnown \/ StopErrorRecorded \/ Confirm
           \/ (\E ok \in BOOLEAN : Preserve(ok))
           \/ CleanupErrorRecorded \/ Terminal \/ LastRecordFails
    PROVE  IInv'
<1>0. pc \in Finally => stopping # "none" /\ pc # "new"
  BY DEF IInv, Finally
<1>1. CASE Drain
  BY <1>1, StoppingKeeps DEF IInv, Drain, Await, cadence, Finally
<1>2. CASE StopKnown \/ StopErrorRecorded \/ Terminal
  BY <1>2, <1>0, StoppingKeeps
  DEF IInv, StopKnown, StopErrorRecorded, Terminal, Await, cadence, Finally, Ended
<1>3. CASE Confirm
  BY <1>3, <1>0, StoppingKeeps, Reasons DEF IInv, Confirm, Await, cadence, Finally
<1>4. ASSUME NEW ok \in BOOLEAN, Preserve(ok)  PROVE IInv'
  BY <1>4, <1>0, StoppingKeeps DEF IInv, Preserve, Leave, Await, cadence, Finally, Ended
<1>5. CASE CleanupErrorRecorded
  BY <1>5, <1>0, StoppingKeeps, Reasons
  DEF IInv, CleanupErrorRecorded, Leave, Await, cadence, Finally, Ended
<1>6. CASE LastRecordFails
  BY <1>6, <1>0, StoppingKeeps DEF IInv, LastRecordFails, Await, cadence, Finally, Ended
<1> QED BY <1>1, <1>2, <1>3, <1>4, <1>5, <1>6

\* What goes on beside execute().
LEMMA BesideKeeps ==
    ASSUME IInv, Reconciliation \/ Stopped \/ Tick \/ DeadlineFires \/ Cancel
    PROVE  IInv'
<1> USE Reasons
<1>1. CASE DeadlineFires
  BY <1>1, RevokingKeeps DEF DeadlineFires, cadence, Listening
<1>2. CASE Cancel
  BY <1>2, RevokingKeeps DEF Cancel, cadence, Listening
<1>3. CASE Tick \/ ReconcileWakes \/ \E ok \in BOOLEAN : ReconcileSettles(ok)
  BY <1>3 DEF IInv, Tick, ReconcileWakes, ReconcileSettles, cadence, RevocationReachesRunner,
              Guarded, Finally, Ended
<1>4. CASE Stopped
  <2>1. stopping # "none" /\ stopping' # "none" /\ UNCHANGED <<attempts, reason>>
        /\ (pc' = pc \/ pc' \in Ended)
        /\ UNCHANGED reconciler
    BY <1>4 DEF Stopped, StopSettles, StopRejects, Await, cadence, Ended
  <2> QED BY <2>1 DEF IInv, RevocationReachesRunner, Guarded, Finally, Ended
<1>5. ASSUME NEW ok \in BOOLEAN, Complain(ok)  PROVE IInv'
  <2>1. pc # "new" /\ pc' # "new" /\ pc \notin Ended /\ UNCHANGED attempts
    BY <1>5 DEF Complain, IInv, Await, cadence
  <2>2. CASE Revoke("worker_failed") /\ UNCHANGED pc
    BY <2>1, <2>2, NoneAssumption
    DEF IInv, Revoke, Listening, RevocationReachesRunner, Guarded, Finally, Ended
  <2>3. CASE Await(IF pc = "draining" THEN "rejected" ELSE "crashed") /\ UNCHANGED <<reason, stopping>>
    BY <2>1, <2>3, WorkingKeeps DEF Await, Ended
  <2> QED BY <1>5, <2>2, <2>3 DEF Complain
<1> QED BY <1>1, <1>2, <1>3, <1>4, <1>5 DEF Reconciliation

LEMMA StepKeeps == IInv /\ [Next]_vars => IInv'
<1> SUFFICES ASSUME IInv, [Next]_vars  PROVE IInv'
  OBVIOUS
<1>1. CASE UNCHANGED vars
  BY <1>1 DEF vars, IInv, RevocationReachesRunner
<1>2. CASE Next
  BY <1>2, TryKeeps, FinallyKeeps, BesideKeeps DEF Next, Execute, Runner
<1> QED BY <1>1, <1>2

LEMMA Inductive == Spec => []IInv
BY Begins, StepKeeps, PTL DEF Spec

\* An execution that dispatched anything and is revoked has asked the runner to
\* stop, at whatever await the revocation found it.
THEOREM RevocationsReachRunner == Spec => []RevocationReachesRunner
<1>1. IInv => RevocationReachesRunner
  BY DEF IInv
<1> QED BY <1>1, Inductive, PTL

-----------------------------------------------------------------------------
(* The refinement, one lemma for each way a step can map to the contract.  *)

\* Nothing the contract sees.
LEMMA Unseen ==
    ASSUME UNCHANGED reason, (pc = "running") = (pc' = "running"),
           (pc \in Ended) = (pc' \in Ended)
    PROVE  UNCHANGED Contract!vars
BY DEF Contract!vars

LEMMA MapsRevoke ==
    ASSUME IInv, NEW r \in Revocation, Revoke(r), pc \notin Ended, pc' \notin Ended,
           (pc = "running") = (pc' = "running")
    PROVE  [Contract!Next]_(Contract!vars)
<1>1. CASE reason # None
  BY <1>1, Unseen DEF Revoke, Ended
<1>2. CASE reason = None
  <2>1. reason' = r /\ r # None
    BY <1>2, NoneAssumption DEF Revoke
  <2>2. Contract!Revoke(r)
    BY <1>2, <2>1 DEF Contract!Revoke
  <2> QED BY <2>2 DEF Contract!Next
<1> QED BY <1>1, <1>2

LEMMA MapsStart ==
    ASSUME reason = None, reason' = None, pc \notin Ended, pc # "running", pc' = "running"
    PROVE  Contract!Next
<1>1. Contract!Start
  BY DEF Contract!Start, Ended
<1> QED BY <1>1 DEF Contract!Next

LEMMA MapsSettle ==
    ASSUME UNCHANGED reason, pc = "running", pc' # "running", pc' \notin Ended
    PROVE  Contract!Next
<1>1. Contract!Settle
  BY DEF Contract!Settle, Ended
<1> QED BY <1>1 DEF Contract!Next

LEMMA MapsDegrade ==
    ASSUME NEW r \in Degraded, reason' = r, pc \notin Ended, pc # "running", pc' # "running"
    PROVE  Contract!Next
<1>1. reason' # None
  BY NoneAssumption
<1>2. Contract!Degrade(r)
  BY <1>1 DEF Contract!Degrade, Ended
<1> QED BY <1>2 DEF Contract!Next

LEMMA MapsEnd ==
    ASSUME UNCHANGED reason, pc \notin Ended, pc' \in Ended
    PROVE  Contract!Next
<1>1. Contract!Crash
  BY DEF Contract!Crash, Ended
<1> QED BY <1>1 DEF Contract!Next

LEMMA TryMaps ==
    ASSUME IInv,
           \/ \E aborted \in BOOLEAN : Begin(aborted)
           \/ RecordFails \/ PlanRecorded \/ Wake \/ Dispatch \/ Settle \/ Presented
           \/ Judge \/ Pause \/ (\E ok \in BOOLEAN : Report(ok))
           \/ (\E r \in Result : RunSettles(r)) \/ RunRejects
           \/ (\E v \in Verdict : Verified(v))
    PROVE  [Contract!Next]_(Contract!vars)
<1> USE Reasons
<1>1. ASSUME NEW aborted \in BOOLEAN, Begin(aborted)  PROVE [Contract!Next]_(Contract!vars)
  <2>1. pc = "new" /\ pc' = "planning" /\ reason = None
    BY <1>1 DEF Begin, Await, IInv
  <2>2. CASE aborted
    <3>1. Contract!Revoke("cancelled")
      BY <1>1, <2>1, <2>2, NoneAssumption DEF Begin, Contract!Revoke, Ended
    <3> QED BY <3>1 DEF Contract!Next
  <2>3. CASE ~aborted
    BY <1>1, <2>1, <2>3, Unseen DEF Begin, Ended
  <2> QED BY <2>2, <2>3
<1>2. CASE Refuse /\ pc \in Guarded \ {"running"}
  <2>1. pc \notin Ended /\ pc' = "draining"
    BY <1>2 DEF Refuse, Await, Guarded, Ended
  <2>2. CASE Revoke("deadline_exceeded")
    BY <1>2, <2>1, <2>2, MapsRevoke DEF Ended
  <2>3. CASE UNCHANGED <<reason, stopping>>
    BY <1>2, <2>1, <2>3, Unseen DEF Ended
  <2> QED BY <1>2, <2>2, <2>3 DEF Refuse
<1>3. CASE RecordFails
  BY <1>3, Unseen DEF RecordFails, Throw, Await, Ended
<1>4. CASE RunRejects
  BY <1>4, MapsSettle DEF RunRejects, Throw, Await, Ended
<1>5. CASE PlanRecorded
  BY <1>5, Unseen DEF PlanRecorded, Await, Ended
<1>6. CASE Presented
  BY <1>6, Unseen DEF Presented, Await, Ended
<1>7. CASE Wake
  <2>1. CASE Refuse
    BY <1>7, <2>1, <1>2 DEF Wake, Guarded
  <2>2. CASE Await("announcing") /\ UNCHANGED <<reason, stopping>>
    BY <1>7, <2>2, Unseen DEF Wake, Await, Ended
  <2> QED BY <1>7, <2>1, <2>2 DEF Wake
<1>8. CASE Dispatch
  <2>1. CASE Refuse
    BY <1>8, <2>1, <1>2 DEF Dispatch, Guarded
  <2>2. CASE ~Ineligible /\ Await("running") /\ UNCHANGED <<reason, stopping>>
    BY <1>8, <2>2, MapsStart DEF Dispatch, Ineligible, Await, Ended
  <2> QED BY <1>8, <2>1, <2>2 DEF Dispatch
<1>9. CASE Settle
  <2>0. pc = "settling" /\ pc \notin Ended
    BY <1>9 DEF Settle, Ended
  <2>1. CASE Refuse
    BY <2>0, <2>1, <1>2 DEF Guarded
  <2>2. CASE Await("draining")
             /\ Revoke(IF result = "limit" THEN "budget_exhausted" ELSE "worker_failed")
    BY <2>0, <2>2, MapsRevoke DEF Await, Ended
  <2>3. CASE Await("presenting") /\ UNCHANGED <<reason, stopping>>
    BY <2>0, <2>3, Unseen DEF Await, Ended
  <2>4. CASE Reschedule
    BY <2>0, <2>4, Unseen DEF Reschedule, Await, Ended
  <2> QED BY <1>9, <2>1, <2>2, <2>3, <2>4 DEF Settle
<1>10. CASE Judge
  <2>0. pc = "judging" /\ pc \notin Ended
    BY <1>10 DEF Judge, Ended
  <2>1. CASE Refuse
    BY <2>0, <2>1, <1>2 DEF Guarded
  <2>2. CASE Await("draining") /\ (Revoke("needs_review") \/ Revoke("succeeded"))
    BY <2>0, <2>2, MapsRevoke DEF Await, Ended
  <2>3. CASE Reschedule
    BY <2>0, <2>3, Unseen DEF Reschedule, Await, Ended
  <2> QED BY <1>10, <2>1, <2>2, <2>3 DEF Judge, JudgeWith
<1>11. CASE Pause
  <2>0. pc = "pausing" /\ pc \notin Ended /\ pc' = "draining"
    BY <1>11 DEF Pause, Await, Ended
  <2>1. CASE Revoke("deadline_exceeded")
    BY <2>0, <2>1, MapsRevoke DEF Ended
  <2>2. CASE UNCHANGED <<reason, stopping>>
    BY <2>0, <2>2, Unseen DEF Ended
  <2> QED BY <1>11, <2>1, <2>2 DEF Pause
<1>12. ASSUME NEW ok \in BOOLEAN, Report(ok)  PROVE [Contract!Next]_(Contract!vars)
  <2>0. pc = "reporting" /\ pc \notin Ended /\ pc' = "draining"
    BY <1>12 DEF Report, Await, Ended
  <2>1. CASE Revoke("worker_failed")
    BY <2>0, <2>1, MapsRevoke DEF Ended
  <2>2. CASE UNCHANGED <<reason, stopping>>
    BY <2>0, <2>2, Unseen DEF Ended
  <2> QED BY <1>12, <2>1, <2>2 DEF Report
<1>13. ASSUME NEW r \in Result, RunSettles(r)  PROVE [Contract!Next]_(Contract!vars)
  BY <1>13, MapsSettle DEF RunSettles, Await, Ended
<1>14. ASSUME NEW v \in Verdict, Verified(v)  PROVE [Contract!Next]_(Contract!vars)
  BY <1>14, Unseen DEF Verified, Await, Ended
<1> QED
  BY <1>1, <1>3, <1>4, <1>5, <1>6, <1>7, <1>8, <1>9, <1>10, <1>11, <1>12, <1>13, <1>14

LEMMA FinallyMaps ==
    ASSUME IInv,
           \/ Drain \/ StopKnown \/ StopErrorRecorded \/ Confirm
           \/ (\E ok \in BOOLEAN : Preserve(ok))
           \/ CleanupErrorRecorded \/ Terminal \/ LastRecordFails
    PROVE  [Contract!Next]_(Contract!vars)
<1> USE Reasons
<1>1. CASE Drain \/ StopKnown \/ StopErrorRecorded
  BY <1>1, Unseen DEF Drain, StopKnown, StopErrorRecorded, Await, Ended
<1>2. CASE Confirm
  <2>1. CASE reason' = reason
    BY <1>2, <2>1, Unseen DEF Confirm, Await, Ended
  <2>2. CASE reason' = "stop_unconfirmed"
    BY <1>2, <2>2, MapsDegrade DEF Confirm, Await, Ended
  <2> QED BY <1>2, <2>1, <2>2 DEF Confirm
<1>3. ASSUME NEW ok \in BOOLEAN, Preserve(ok)  PROVE [Contract!Next]_(Contract!vars)
  <2>1. CASE pc' = "rejected"
    BY <1>3, <2>1, MapsEnd DEF Preserve, Ended
  <2>2. CASE pc' \in {"terminal", "cleanupError"}
    BY <1>3, <2>2, Unseen DEF Preserve, Ended
  <2> QED BY <1>3, <2>1, <2>2 DEF Preserve, Leave, Await
<1>4. CASE CleanupErrorRecorded
  <2>0. pc = "cleanupError" /\ pc' \in {"rejected", "terminal"} /\ pc \notin Ended
    BY <1>4 DEF CleanupErrorRecorded, Leave, Await, Ended
  <2>1. CASE reason' = "cleanup_failed"
    BY <2>0, <2>1, MapsDegrade
  <2>2. CASE reason' = reason /\ pc' = "rejected"
    BY <2>0, <2>2, MapsEnd DEF Ended
  <2>3. CASE reason' = reason /\ pc' = "terminal"
    BY <2>0, <2>3, Unseen DEF Ended
  <2> QED BY <1>4, <2>0, <2>1, <2>2, <2>3 DEF CleanupErrorRecorded
<1>5. CASE Terminal \/ LastRecordFails
  BY <1>5, MapsEnd DEF Terminal, LastRecordFails, Await, Ended
<1> QED BY <1>1, <1>2, <1>3, <1>4, <1>5

LEMMA BesideMaps ==
    ASSUME IInv, Reconciliation \/ Stopped \/ Tick \/ DeadlineFires \/ Cancel
    PROVE  [Contract!Next]_(Contract!vars)
<1> USE Reasons
<1>1. CASE DeadlineFires
  BY <1>1, MapsRevoke DEF DeadlineFires, Guarded, Ended
<1>2. CASE Cancel
  BY <1>2, MapsRevoke DEF Cancel, Listening, Guarded, Ended
<1>3. CASE Tick \/ ReconcileWakes \/ (\E ok \in BOOLEAN : ReconcileSettles(ok))
  BY <1>3, Unseen DEF Tick, ReconcileWakes, ReconcileSettles
<1>4. CASE Stopped
  <2>1. pc \notin Ended /\ UNCHANGED reason /\ (pc' = pc \/ pc' = "crashed")
    BY <1>4 DEF Stopped, StopSettles, StopRejects, Await
  <2>2. CASE pc' = pc
    BY <2>1, <2>2, Unseen
  <2>3. CASE pc' = "crashed"
    BY <2>1, <2>3, MapsEnd DEF Ended
  <2> QED BY <2>1, <2>2, <2>3
<1>5. ASSUME NEW ok \in BOOLEAN, Complain(ok)  PROVE [Contract!Next]_(Contract!vars)
  <2>1. CASE Revoke("worker_failed") /\ UNCHANGED pc
    BY <1>5, <2>1, MapsRevoke DEF Complain
  <2>2. CASE Await(IF pc = "draining" THEN "rejected" ELSE "crashed") /\ UNCHANGED <<reason, stopping>>
    BY <1>5, <2>2, MapsEnd DEF Complain, Await, Ended
  <2> QED BY <1>5, <2>1, <2>2 DEF Complain
<1> QED BY <1>1, <1>2, <1>3, <1>4, <1>5 DEF Reconciliation

\* Every execution behaves as the contract says: attempts one at a time, none
\* started after the revocation, and one lasting reason unless the stop or the
\* cleanup failed - through failing records, late answers and crashes.
THEOREM ControllerImplementsContract == Spec => ContractHolds
<1>1. Init => Contract!Init
  BY DEF Init, Contract!Init, Ended
<1>2. IInv /\ [Next]_vars => [Contract!Next]_(Contract!vars)
  <2> SUFFICES ASSUME IInv, [Next]_vars  PROVE [Contract!Next]_(Contract!vars)
    OBVIOUS
  <2>1. CASE UNCHANGED vars
    BY <2>1, Unseen DEF vars
  <2>2. CASE Next
    BY <2>2, TryMaps, FinallyMaps, BesideMaps DEF Next, Execute, Runner
  <2> QED BY <2>1, <2>2
<1> QED BY <1>1, <1>2, Inductive, PTL DEF Spec, ContractHolds, Contract!Spec

\* A product of a positive number stays below it only if it is zero.
LEMMA SmallMultiple ==
    ASSUME NEW e \in Nat \ {0}, NEW k \in Int, k * e >= 0, k * e < e
    PROVE  k = 0
<1>1. ASSUME k >= 1 PROVE k * e >= e
  <2>1. (k - 1) * e >= 0
    BY <1>1
  <2> QED
    BY <2>1
<1>2. ASSUME k <= -1 PROVE k * e < 0
  <2>1. (-k - 1) * e >= 0
    BY <1>2
  <2> QED
    BY <2>1
<1> QED
  BY <1>1, <1>2

\* Division with a remainder.
LEMMA Division ==
    ASSUME NEW t \in Nat, NEW e \in Nat \ {0}
    PROVE  \E q \in Nat, r \in 0..e - 1 : q = t \div e /\ r = t % e /\ t = e * q + r
<1> DEFINE q == t \div e
           r == t % e
<1>1. q \in Nat /\ r \in 0..e - 1
  OBVIOUS
<1>2. t - e * q = r
  OBVIOUS
<1> SUFFICES t = e * q + r
  BY <1>1
<1> HIDE DEF q, r
<1> QED
  BY <1>1, <1>2

\* The next tick is a multiple of the cadence, later than now.
LEMMA TickIsLater ==
    ASSUME NEW t \in Nat, NEW e \in Nat \ {0}
    PROVE  /\ (t \div e + 1) * e \in Nat
           /\ (t \div e + 1) * e > t
           /\ ((t \div e + 1) * e) % e = 0
<1>1. PICK q \in Nat, r \in 0..e - 1 : q = t \div e /\ r = t % e /\ t = e * q + r
  BY Division
<1> DEFINE d == (q + 1) * e
<1>2. d \in Nat /\ d = e * q + e
  BY ONLY q \in Nat, e \in Nat \ {0}
<1>3. t = e * q + r
  BY <1>1
<1>4. d > t
  BY ONLY q \in Nat, r \in 0..e - 1, e \in Nat \ {0}, <1>2, <1>3
<1>5. d % e = 0
  <2> HIDE DEF d
  <2>1. PICK p \in Nat, s \in 0..e - 1 : s = d % e /\ d = e * p + s
    BY <1>2, Division
  <2> DEFINE k == q + 1 - p
  <2>2. k \in Int /\ k * e = s
    BY ONLY <1>2, <2>1, p \in Nat, q \in Nat, s \in 0..e - 1, e \in Nat \ {0}
  <2> HIDE DEF k
  <2>3. k * e >= 0 /\ k * e < e
    BY ONLY <2>2, s \in 0..e - 1, e \in Nat \ {0}
  <2>4. k = 0
    BY <2>2, <2>3, SmallMultiple
  <2>5. s = 0
    BY ONLY <2>2, <2>4, e \in Nat \ {0}
  <2> QED
    BY <2>1, <2>5
<1> QED
  BY <1>1, <1>2, <1>4, <1>5

-----------------------------------------------------------------------------
(* Neither success nor a tick comes late.                                  *)

Judging == {"presenting", "verifying", "judging"}
Confirmed == {"preserving", "cleanupError", "terminal", "done"}

\* What is due: a tick that has come when an attempt is announced, and one
\* that is later than the end of the attempt before.
DueInTime ==
    /\ settledAt <= now
    /\ pc \in {"new", "planning"} => planned = None
    /\ pc = "announcing" /\ reason = None => due <= now
    /\ mode = "loop" => due % Every = 0
    /\ mode = "loop" /\ planned # None /\ pc \in {"sleeping", "announcing"} => due > settledAt

\* What is judged: a completed attempt of a goal, by a verdict.
JudgedInOrder ==
    /\ pc \in Judging => mode = "goal" /\ result = "completed"
    /\ pc = "judging" => verdict \in Verdict
    /\ pc = "settling" => result \in Result
    /\ pc \in Confirmed /\ reason = "succeeded" => stopping = "confirmed"

TimeInv == TypeOK /\ DueInTime /\ JudgedInOrder

LEMMA TimeBegins == Init => TimeInv
<1> SUFFICES ASSUME Init PROVE TimeInv
  OBVIOUS
<1>1. 0 % Every = 0
  <2>1. PICK q \in Nat, r \in 0..Every - 1 : r = 0 % Every /\ 0 = Every * q + r
    BY PlanAssumption, Division
  <2>2. r = 0
    BY ONLY q \in Nat, r \in 0..Every - 1, PlanAssumption, <2>1
  <2> QED
    BY <2>1, <2>2
<1>2. TypeOK
  <2>1. now \in 0..Duration /\ settledAt \in 0..Duration /\ due \in Nat /\ attempts \in Nat
    BY PlanAssumption DEF Init
  <2> QED
    BY <2>1 DEF Init, TypeOK
<1>3. DueInTime
  BY <1>1 DEF Init, DueInTime
<1>4. JudgedInOrder
  BY DEF Init, JudgedInOrder, Judging, Confirmed
<1> QED
  BY <1>2, <1>3, <1>4 DEF TimeInv

\* A revocation is one of the reasons, and the first one stays.
LEMMA RevokeTyped ==
    ASSUME TypeOK, NEW r \in Revocation, Revoke(r)
    PROVE  /\ reason' \in Revocation \cup Degraded \cup {None} /\ (reason # None => reason' = reason)
           /\ (reason = None => reason' = r)
           /\ stopping' \in {"none", "asked", "confirmed", "unconfirmed", "failed"}
           /\ (stopping = "confirmed" => stopping' = "confirmed")
BY DEF TypeOK, Revoke

\* The steps of the try block that record, run and present.
LEMMA WorkTyped ==
    ASSUME TypeOK,
           \/ \E aborted \in BOOLEAN : Begin(aborted)
           \/ RecordFails \/ PlanRecorded \/ Presented
           \/ (\E r \in Result : RunSettles(r)) \/ RunRejects
           \/ (\E v \in Verdict : Verified(v))
    PROVE  TypeOK'
<1> USE Reasons DEF TypeOK, plan, cadence, Await, Guarded, Finally, Ended
<1>1. ASSUME NEW aborted \in BOOLEAN, Begin(aborted) PROVE TypeOK'
  BY <1>1 DEF Begin
<1>2. CASE RecordFails
  BY <1>2 DEF RecordFails, Throw
<1>3. CASE PlanRecorded
  BY <1>3 DEF PlanRecorded
<1>4. CASE Presented
  BY <1>4 DEF Presented
<1>5. ASSUME NEW r \in Result, RunSettles(r) PROVE TypeOK'
  BY <1>5 DEF RunSettles
<1>6. CASE RunRejects
  BY <1>6 DEF RunRejects, Throw
<1>7. ASSUME NEW v \in Verdict, Verified(v) PROVE TypeOK'
  BY <1>7 DEF Verified
<1> QED
  BY <1>1, <1>2, <1>3, <1>4, <1>5, <1>6, <1>7

\* The steps of the try block that look at the clock and at the reason.
LEMMA RoundTyped ==
    ASSUME TypeOK, NextDue \in Nat,
           Wake \/ Dispatch \/ Settle \/ Judge \/ Pause \/ (\E ok \in BOOLEAN : Report(ok))
    PROVE  TypeOK'
<1> USE Reasons DEF cadence, plan, Await
<1>1. CASE Refuse /\ UNCHANGED <<mode, now, due, planned, settledAt, attempts, result, verdict, reconciler, thrown>>
  <2>1. CASE Revoke("deadline_exceeded")
    BY <1>1, <2>1, RevokeTyped DEF Refuse, TypeOK
  <2>2. CASE UNCHANGED <<reason, stopping>>
    BY <1>1, <2>2 DEF Refuse, TypeOK
  <2> QED
    BY <1>1, <2>1, <2>2 DEF Refuse
<1>2. CASE Wake
  <2>1. CASE ~Ineligible /\ attempts' = attempts + 1 /\ Await("announcing") /\ UNCHANGED <<reason, stopping>>
    BY <1>2, <2>1 DEF Wake, TypeOK, Guarded
  <2> QED
    BY <1>1, <1>2, <2>1 DEF Wake
<1>3. CASE Dispatch
  <2>1. CASE ~Ineligible /\ planned' = due /\ Await("running") /\ UNCHANGED <<reason, stopping>>
    BY <1>3, <2>1 DEF Dispatch, TypeOK, Guarded
  <2> QED
    BY <1>1, <1>3, <2>1 DEF Dispatch
<1>4. CASE Reschedule /\ UNCHANGED <<mode, now, planned, settledAt, attempts, result, verdict, reconciler, thrown>>
  BY <1>4 DEF Reschedule, TypeOK, Guarded
<1>5. ASSUME NEW r \in Revocation, Revoke(r), Await("draining"),
             UNCHANGED <<mode, now, due, planned, settledAt, attempts, result, verdict, reconciler>>, thrown' \in BOOLEAN
      PROVE  TypeOK'
  BY <1>5, RevokeTyped DEF TypeOK
<1>6. CASE Settle
  <2>1. CASE Await("presenting") /\ UNCHANGED <<reason, stopping, due>>
    BY <1>6, <2>1 DEF Settle, TypeOK, Guarded
  <2>2. CASE Refuse /\ UNCHANGED due
    BY <1>1, <1>6, <2>2 DEF Settle
  <2>3. CASE Revoke(IF result = "limit" THEN "budget_exhausted" ELSE "worker_failed") /\ Await("draining") /\ UNCHANGED due
    <3>1. Revoke("budget_exhausted") \/ Revoke("worker_failed")
      BY <2>3
    <3>2. thrown' \in BOOLEAN
      BY <1>6 DEF Settle, TypeOK
    <3> QED
      BY <1>5, <1>6, <2>3, <3>1, <3>2 DEF Settle
  <2>4. CASE Reschedule
    BY <1>4, <1>6, <2>4 DEF Settle
  <2> QED
    BY <1>6, <2>1, <2>2, <2>3, <2>4 DEF Settle
<1>7. CASE Judge
  <2>1. thrown' \in BOOLEAN
    BY <1>7 DEF Judge, TypeOK
  <2>2. CASE Refuse /\ UNCHANGED due
    BY <1>1, <1>7, <2>2 DEF Judge
  <2>3. CASE (Revoke("needs_review") \/ Revoke("succeeded")) /\ Await("draining") /\ UNCHANGED due
    BY <1>5, <1>7, <2>1, <2>3 DEF Judge
  <2>4. CASE Reschedule
    BY <1>4, <1>7, <2>4 DEF Judge
  <2> QED
    BY <1>7, <2>2, <2>3, <2>4 DEF Judge, JudgeWith
<1>8. CASE Pause
  <2>1. CASE UNCHANGED <<reason, stopping>>
    BY <1>8, <2>1 DEF Pause, TypeOK
  <2>2. thrown' \in BOOLEAN
    BY <1>8 DEF Pause, TypeOK
  <2> QED
    BY <1>5, <1>8, <2>1, <2>2 DEF Pause
<1>9. ASSUME NEW ok \in BOOLEAN, Report(ok) PROVE TypeOK'
  <2>1. CASE UNCHANGED <<reason, stopping>>
    BY <1>9, <2>1 DEF Report, TypeOK
  <2> QED
    BY <1>5, <1>9, <2>1 DEF Report
<1> QED
  BY <1>2, <1>3, <1>6, <1>7, <1>8, <1>9

\* The finally block, and what goes on beside execute().
LEMMA FinallyTyped ==
    ASSUME TypeOK,
           \/ Drain \/ StopKnown \/ StopErrorRecorded \/ Confirm \/ (\E ok \in BOOLEAN : Preserve(ok))
           \/ CleanupErrorRecorded \/ Terminal \/ LastRecordFails
    PROVE  TypeOK'
<1> USE Reasons DEF TypeOK, plan, cadence, Await, Finally, Ended
<1>1. CASE Drain \/ StopKnown \/ StopErrorRecorded
  BY <1>1 DEF Drain, StopKnown, StopErrorRecorded
<1>2. CASE Confirm
  BY <1>2 DEF Confirm
<1>3. ASSUME NEW ok \in BOOLEAN, Preserve(ok) PROVE TypeOK'
  BY <1>3 DEF Preserve, Leave
<1>4. CASE CleanupErrorRecorded
  BY <1>4 DEF CleanupErrorRecorded, Leave
<1>5. CASE Terminal \/ LastRecordFails
  BY <1>5 DEF Terminal, LastRecordFails
<1> QED
  BY <1>1, <1>2, <1>3, <1>4, <1>5

LEMMA BesideTyped ==
    ASSUME TypeOK, Tick \/ DeadlineFires \/ Cancel \/ Stopped \/ Reconciliation
    PROVE  TypeOK'
<1> USE Reasons DEF plan, cadence, Await
<1>1. CASE Tick
  BY <1>1, PlanAssumption DEF Tick, TypeOK
<1>2. ASSUME NEW r \in Revocation, Revoke(r), UNCHANGED <<plan, pc, cadence, result, verdict, thrown>>,
             reconciler' \in {reconciler, "done"}
      PROVE  TypeOK'
  BY <1>2, RevokeTyped DEF TypeOK
<1>3. CASE DeadlineFires \/ Cancel
  BY <1>2, <1>3 DEF DeadlineFires, Cancel
<1>4. CASE Stopped
  BY <1>4 DEF Stopped, StopSettles, StopRejects, TypeOK, Ended
<1>5. CASE ReconcileWakes \/ (\E ok \in BOOLEAN : ReconcileSettles(ok))
  BY <1>5 DEF ReconcileWakes, ReconcileSettles, TypeOK
<1>6. ASSUME NEW ok \in BOOLEAN, Complain(ok) PROVE TypeOK'
  <2>1. CASE Revoke("worker_failed") /\ UNCHANGED pc
    BY <1>2, <1>6, <2>1 DEF Complain
  <2>2. CASE pc' \in Ended /\ UNCHANGED <<reason, stopping>>
    BY <1>6, <2>2 DEF Complain, TypeOK
  <2> QED
    BY <1>6, <2>1, <2>2 DEF Complain, Ended
<1> QED
  BY <1>1, <1>3, <1>4, <1>5, <1>6 DEF Reconciliation

-----------------------------------------------------------------------------

\* The next round is due at a time, and a loop's at a tick that is still to come.
LEMMA NextDueIsLater ==
    ASSUME TypeOK
    PROVE  /\ NextDue \in Nat
           /\ mode = "loop" => NextDue > now /\ NextDue % Every = 0
<1>1. now \in Nat
  BY PlanAssumption DEF TypeOK
<1>2. mode = "loop" => NextDue = (now \div Every + 1) * Every
  BY DEF NextDue
<1>3. mode = "goal" => NextDue = now
  BY DEF NextDue
<1>4. mode \in {"loop", "goal"}
  BY DEF TypeOK
<1> HIDE DEF NextDue
<1> QED
  BY <1>1, <1>2, <1>3, <1>4, PlanAssumption, TickIsLater

LEMMA TypeKept ==
    ASSUME TypeOK, [Next]_vars
    PROVE  TypeOK'
<1>1. CASE UNCHANGED vars
  BY <1>1 DEF vars, TypeOK
<1>2. CASE Next
  BY <1>2, NextDueIsLater, WorkTyped, RoundTyped, FinallyTyped, BesideTyped DEF Next, Execute, Runner
<1> QED
  BY <1>1, <1>2

LEMMA DueKept ==
    ASSUME TimeInv, [Next]_vars
    PROVE  DueInTime'
<1> USE DEF DueInTime, plan, cadence, Await
<1>0. now \in Nat /\ due \in Nat /\ settledAt \in Nat /\ DueInTime /\ mode \in {"loop", "goal"} /\ None \notin {"cancelled"}
  BY PlanAssumption, NoneAssumption DEF TimeInv, TypeOK, Revocation
\* A step that leaves the cadence alone and announces nothing.
<1>1. CASE UNCHANGED <<plan, due, planned, settledAt>> /\ pc' \notin {"new", "planning", "sleeping", "announcing"}
  BY <1>0, <1>1
\* A revocation, or a step that changes none of it.
<1>2. CASE UNCHANGED <<plan, pc, due, planned, settledAt>> /\ (reason' = None => reason = None)
  BY <1>0, <1>2
<1>3. CASE Refuse /\ UNCHANGED <<plan, due, planned, settledAt>>
  BY <1>1, <1>3 DEF Refuse
<1>4. CASE Reschedule /\ UNCHANGED <<plan, planned, settledAt>>
  <2>1. due' = NextDue /\ pc' \in {"pausing", "sleeping"}
    BY <1>4 DEF Reschedule
  <2> QED
    BY <1>0, <1>4, <2>1, NextDueIsLater DEF TimeInv
<1>5. ASSUME NEW r \in Revocation, Revoke(r) PROVE reason' = None => reason = None
  BY <1>5, NoneAssumption DEF Revoke
<1>6. ASSUME NEW aborted \in BOOLEAN, Begin(aborted) PROVE DueInTime'
  BY <1>0, <1>6 DEF Begin
<1>7. CASE RecordFails \/ RunRejects
  BY <1>1, <1>7 DEF RecordFails, RunRejects, Throw
<1>8. CASE PlanRecorded
  BY <1>0, <1>8 DEF PlanRecorded
<1>9. CASE Wake
  <2>1. CASE ~Ineligible /\ attempts' = attempts + 1 /\ Await("announcing") /\ UNCHANGED <<reason, stopping>>
    BY <1>0, <1>9, <2>1 DEF Wake, Ineligible
  <2> QED
    BY <1>3, <1>9, <2>1 DEF Wake
<1>10. CASE Dispatch
  BY <1>0, <1>3, <1>10 DEF Dispatch
<1>11. ASSUME NEW r \in Result, RunSettles(r) PROVE DueInTime'
  BY <1>0, <1>11 DEF RunSettles
<1>12. CASE Settle
  BY <1>1, <1>3, <1>4, <1>12 DEF Settle
<1>13. CASE Presented \/ (\E v \in Verdict : Verified(v))
  BY <1>1, <1>13 DEF Presented, Verified
<1>14. CASE Judge
  BY <1>1, <1>3, <1>4, <1>14 DEF Judge, JudgeWith
<1>15. CASE Pause \/ (\E ok \in BOOLEAN : Report(ok))
  BY <1>1, <1>15 DEF Pause, Report
<1>16. CASE \/ Drain \/ StopKnown \/ StopErrorRecorded \/ Confirm \/ (\E ok \in BOOLEAN : Preserve(ok))
            \/ CleanupErrorRecorded \/ Terminal \/ LastRecordFails
  BY <1>1, <1>16 DEF Drain, StopKnown, StopErrorRecorded, Confirm, Preserve, Leave, CleanupErrorRecorded, Terminal, LastRecordFails
<1>17. CASE Tick
  BY <1>0, <1>17 DEF Tick
<1>18. CASE DeadlineFires \/ Cancel
  BY <1>2, <1>5, <1>18, Reasons DEF DeadlineFires, Cancel
<1>19. CASE Stopped
  BY <1>1, <1>2, <1>19 DEF Stopped, StopSettles, StopRejects
<1>20. CASE Reconciliation
  BY <1>1, <1>2, <1>5, <1>20, Reasons DEF Reconciliation, ReconcileWakes, ReconcileSettles, Complain
<1>21. CASE UNCHANGED vars
  BY <1>2, <1>21 DEF vars
<1> QED
  BY <1>6, <1>7, <1>8, <1>9, <1>10, <1>11, <1>12, <1>13, <1>14, <1>15, <1>16, <1>17, <1>18, <1>19, <1>20, <1>21
  DEF Next, Execute, Runner

LEMMA JudgedKept ==
    ASSUME TimeInv, [Next]_vars
    PROVE  JudgedInOrder'
<1> USE DEF JudgedInOrder, Judging, Confirmed, plan, cadence, Await
<1>0. JudgedInOrder /\ TypeOK
  BY DEF TimeInv
\* A step of the try block to where nothing is judged.
<1>1. CASE pc' \notin Judging \cup Confirmed \cup {"settling"}
  BY <1>1
\* A revocation, or a step that changes none of it.
<1>2. CASE UNCHANGED <<mode, pc, result, verdict>>
           /\ (reason # None => reason' = reason) /\ (reason = None => reason' # "succeeded")
           /\ (stopping = "confirmed" => stopping' = "confirmed")
  BY <1>0, <1>2
<1>3. CASE Refuse
  BY <1>1, <1>3 DEF Refuse
<1>4. CASE Reschedule
  BY <1>1, <1>4 DEF Reschedule
<1>5. CASE \/ (\E aborted \in BOOLEAN : Begin(aborted)) \/ RecordFails \/ RunRejects \/ PlanRecorded
           \/ Wake \/ Dispatch \/ Pause \/ (\E ok \in BOOLEAN : Report(ok))
  BY <1>1, <1>5 DEF Begin, RecordFails, RunRejects, Throw, PlanRecorded, Wake, Dispatch, Refuse, Pause, Report
<1>6. ASSUME NEW r \in Result, RunSettles(r) PROVE JudgedInOrder'
  BY <1>0, <1>6 DEF RunSettles
<1>7. CASE Settle
  <2>1. CASE Await("presenting") /\ result = "completed" /\ mode = "goal"
    BY <1>0, <1>7, <2>1 DEF Settle
  <2> QED
    BY <1>1, <1>3, <1>4, <1>7, <2>1 DEF Settle
<1>8. CASE Presented
  BY <1>0, <1>8 DEF Presented
<1>9. ASSUME NEW v \in Verdict, Verified(v) PROVE JudgedInOrder'
  BY <1>0, <1>9 DEF Verified
<1>10. CASE Judge
  BY <1>1, <1>3, <1>4, <1>10 DEF Judge, JudgeWith
<1>11. CASE Drain \/ StopKnown \/ StopErrorRecorded \/ LastRecordFails
  BY <1>1, <1>11 DEF Drain, StopKnown, StopErrorRecorded, LastRecordFails
<1>12. CASE Confirm
  BY <1>0, <1>12 DEF Confirm
<1>13. ASSUME NEW ok \in BOOLEAN, Preserve(ok) PROVE JudgedInOrder'
  BY <1>0, <1>13 DEF Preserve, Leave
<1>14. CASE CleanupErrorRecorded
  BY <1>0, <1>14 DEF CleanupErrorRecorded, Leave
<1>15. CASE Terminal
  BY <1>0, <1>15 DEF Terminal
<1>16. CASE Tick
  BY <1>2, <1>16, NoneAssumption DEF Tick, Revocation
<1>17. CASE DeadlineFires \/ Cancel
  BY <1>0, <1>2, <1>17, Reasons, RevokeTyped DEF DeadlineFires, Cancel
<1>18. CASE Stopped
  BY <1>1, <1>2, <1>18, NoneAssumption DEF Stopped, StopSettles, StopRejects, Revocation
<1>19. CASE Reconciliation
  BY <1>0, <1>1, <1>2, <1>19, Reasons, RevokeTyped, NoneAssumption
  DEF Reconciliation, ReconcileWakes, ReconcileSettles, Complain, Revocation
<1>20. CASE UNCHANGED vars
  BY <1>2, <1>20, NoneAssumption DEF vars, Revocation
<1> QED
  BY <1>5, <1>6, <1>7, <1>8, <1>9, <1>10, <1>11, <1>12, <1>13, <1>14, <1>15, <1>16, <1>17, <1>18, <1>19, <1>20
  DEF Next, Execute, Runner

LEMMA TimeKept == Spec => []TimeInv
<1>1. TimeInv /\ [Next]_vars => TimeInv'
  BY TypeKept, DueKept, JudgedKept DEF TimeInv
<1> QED
  BY <1>1, TimeBegins, PTL DEF Spec

\* Success is declared by a judgement only, which looked at the clock.
LEMMA SuccessIsJudged ==
    ASSUME TimeInv, [Next]_vars, reason # "succeeded", reason' = "succeeded"
    PROVE  /\ now < Duration /\ verdict = [status |-> "PASS", valid |-> TRUE]
           /\ mode = "goal" /\ result = "completed"
<1> USE DEF plan, cadence
<1>0. TypeOK /\ JudgedInOrder /\ None # "succeeded"
  BY NoneAssumption DEF TimeInv, Revocation
<1>1. ASSUME NEW r \in Revocation, Revoke(r) PROVE r = "succeeded"
  BY <1>1 DEF Revoke
<1>2. ~UNCHANGED reason
  OBVIOUS
<1>3. ~Refuse
  BY <1>1, Reasons DEF Refuse
<1>4. Judge
  <2>1. ~(\E aborted \in BOOLEAN : Begin(aborted))
    BY <1>0 DEF Begin
  <2>2. ~(RecordFails \/ RunRejects)
    BY <1>2 DEF RecordFails, RunRejects, Throw
  <2>3. ~(Wake \/ Dispatch)
    BY <1>2, <1>3 DEF Wake, Dispatch
  <2>4. ~Settle
    <3>1. ~Reschedule
      BY <1>2 DEF Reschedule
    <3>2. ~Revoke(IF result = "limit" THEN "budget_exhausted" ELSE "worker_failed")
      BY <1>1, Reasons
    <3> QED
      BY <1>2, <1>3, <3>1, <3>2 DEF Settle
  <2>5. ~(Pause \/ (\E ok \in BOOLEAN : Report(ok)))
    BY <1>1, <1>2, Reasons DEF Pause, Report
  <2>6. ~(\/ PlanRecorded \/ Presented \/ Drain \/ StopKnown \/ StopErrorRecorded \/ (\E ok \in BOOLEAN : Preserve(ok))
          \/ Terminal \/ LastRecordFails \/ Tick \/ Stopped)
    BY <1>2 DEF PlanRecorded, Presented, Drain, StopKnown, StopErrorRecorded, Preserve, Terminal, LastRecordFails,
                Tick, Stopped, StopSettles, StopRejects
  <2>7. ~(Confirm \/ CleanupErrorRecorded)
    BY <1>2 DEF Confirm, CleanupErrorRecorded
  <2>8. ~(\/ (\E r \in Result : RunSettles(r)) \/ (\E v \in Verdict : Verified(v)))
    BY <1>2 DEF RunSettles, Verified
  <2>9. ~(DeadlineFires \/ Cancel \/ Reconciliation)
    BY <1>1, <1>2, Reasons DEF DeadlineFires, Cancel, Reconciliation, ReconcileWakes, ReconcileSettles, Complain
  <2> QED
    BY <1>2, <2>1, <2>2, <2>3, <2>4, <2>5, <2>6, <2>7, <2>8, <2>9 DEF Next, Execute, Runner, vars
<1>5. ~Reschedule /\ ~Revoke("needs_review")
  BY <1>1, <1>2, Reasons DEF Reschedule
<1>6. ~Ineligible /\ verdict.valid /\ verdict.status = "PASS"
  BY <1>3, <1>4, <1>5 DEF Judge, JudgeWith
<1>7. verdict \in Verdict /\ mode = "goal" /\ result = "completed"
  BY <1>0, <1>4 DEF Judge, JudgedInOrder, Judging
<1>8. now < Duration
  BY <1>0, <1>6, PlanAssumption DEF Ineligible, Late, TypeOK
<1> QED
  BY <1>6, <1>7, <1>8 DEF Verdict

\* An attempt begins by being dispatched only.
LEMMA TicksAreKept ==
    ASSUME TimeInv, [Next]_vars, pc # "running", pc' = "running", mode = "loop"
    PROVE  /\ planned' % Every = 0 /\ planned' <= now
           /\ (planned # None => planned' > settledAt)
<1> USE DEF Await, plan, cadence
<1>1. Dispatch
  BY DEF Next, Execute, Runner, Reconciliation, Stopped, Begin, RecordFails, Throw, PlanRecorded, Wake, Refuse, Settle,
         Reschedule, Presented, Judge, JudgeWith, Pause, Report, Drain, StopKnown, StopErrorRecorded, Confirm, Preserve,
         Leave, CleanupErrorRecorded, Terminal, LastRecordFails, RunSettles, RunRejects, Verified, ReconcileWakes,
         ReconcileSettles, Complain, StopSettles, StopRejects, Tick, DeadlineFires, Cancel, vars
<1>2. planned' = due /\ reason = None /\ pc = "announcing"
  BY <1>1 DEF Dispatch, Refuse, Ineligible
<1> QED
  BY <1>2 DEF TimeInv, DueInTime

\* For every plan, cadence and interleaving: success is declared before the
\* deadline only, by a valid PASS for a completed attempt, and reported only with
\* a confirmed stop; and each loop attempt belongs to a tick of its own, later
\* than the end of the one before.
THEOREM ControllerKeepsTime == Spec => KeepsTime
<1>1. TimeInv /\ [Next]_vars =>
        [reason # "succeeded" /\ reason' = "succeeded" =>
             now < Duration /\ verdict = [status |-> "PASS", valid |-> TRUE]
             /\ mode = "goal" /\ result = "completed"]_vars
  BY SuccessIsJudged
<1>2. TimeInv /\ [Next]_vars =>
        [pc # "running" /\ pc' = "running" /\ mode = "loop" =>
          /\ planned' % Every = 0 /\ planned' <= now
          /\ planned # None => planned' > settledAt]_vars
  BY TicksAreKept
<1>3. TimeInv => TypeOK /\ (pc = "done" /\ reason = "succeeded" => stopping = "confirmed")
  BY DEF TimeInv, JudgedInOrder, Confirmed
<1> QED
  BY <1>1, <1>2, <1>3, TimeKept, PTL DEF Spec, KeepsTime, SuccessIsTimely, CadenceHolds

-----------------------------------------------------------------------------
(* The reservation ledger (BudgetLedger) keeps its budgets, persists       *)
(* before it grants and implements BudgetAllowance, for any runs, batch    *)
(* sizes, limits and queue length.                                         *)
(*                                                                         *)
(* The caps are tested a sink await before they are charged, so the        *)
(* invariant remembers, while the sink is awaited, that the head request   *)
(* still fits (ReservationFits): the queue keeps every other reservation   *)
(* out, and a begin in between touches neither the counts of an open run   *)
(* nor total - imported.                                                   *)

LedgerRequest == AdmitRequest \cup SettleRequest

\* Only runs whose begin() resolved have operations in the queue.
QueueOpen == \A i \in 1 .. Len(queue) : phase[queue[i].run] = "open"

\* While the sink persists a reservation, its batch still fits both caps.
ReservationFits ==
    writing /\ Req.op = "admit" =>
        /\ fresh \in Ticket
        /\ ticket[fresh] = NoTicket
        /\ Within(counts[Req.run][Req.kind] + Req.count, limit[Req.run][Req.kind])
        /\ Within(total[Req.kind] - imported[Req.kind] + Req.count, Outer[Req.kind])

\* While the sink persists a settlement, its ticket is charged and unsettled.
SettlementPending ==
    writing /\ Req.op = "settle" => Owned /\ ticket[Req.ticket].settled = "no"

LedgerInv ==
    /\ LedgerTypeOK
    /\ QueueOpen
    /\ writing => queue # <<>>
    /\ ReservationFits
    /\ SettlementPending
    /\ WithinBudget
    /\ PersistedBeforeGranted

-----------------------------------------------------------------------------
\* Every queued request is one of the two kinds, and Req is one of them.
LEMMA HeadRequest ==
    ASSUME LedgerTypeOK, queue # <<>>
    PROVE  /\ Req \in LedgerRequest
           /\ Len(queue) \in Nat \ {0}
           /\ Req = queue[1]
           /\ Tail(queue) \in Seq(LedgerRequest)
           /\ Len(Tail(queue)) = Len(queue) - 1
           /\ \A i \in 1 .. Len(Tail(queue)) : Tail(queue)[i] = queue[i + 1]
BY DEF LedgerTypeOK, Req, LedgerRequest

LEMMA AdmitFields ==
    ASSUME LedgerTypeOK, Asked("admit")
    PROVE  Req.run \in Run /\ Req.kind \in Kind /\ Req.count \in Count
BY HeadRequest DEF Asked, LedgerRequest, AdmitRequest, SettleRequest

LEMMA SettleFields ==
    ASSUME LedgerTypeOK, Asked("settle")
    PROVE  Req.run \in Run /\ Req.ticket \in Ticket /\ Req.usage \in Usage
BY HeadRequest DEF Asked, LedgerRequest, AdmitRequest, SettleRequest

-----------------------------------------------------------------------------
LEMMA LedgerBegins == LedgerInit => LedgerInv
<1> SUFFICES ASSUME LedgerInit PROVE LedgerInv
  OBVIOUS
<1> USE LedgerAssumption DEF LedgerInit
<1>1. LedgerTypeOK
  <2>1. /\ phase \in [Run -> {"unknown", "recording", "open", "failed"}]
        /\ limit \in [Run -> [Kind -> Cap]]
        /\ counts \in [Run -> [Kind -> Nat]]
        /\ restored \in [Run -> [Kind -> Nat]]
        /\ total \in [Kind -> Nat] /\ imported \in [Kind -> Nat]
    BY DEF Cap, NoCounts
  <2>2. /\ ticket \in [Ticket -> TicketRecord \cup {NoTicket}]
        /\ usage \in Usage
        /\ queue \in Seq(AdmitRequest \cup SettleRequest)
        /\ fresh \in Ticket \cup {NoTicket}
        /\ durable \in SUBSET Ticket /\ granted \in SUBSET Ticket
    BY DEF Usage
  <2>3. writing \in BOOLEAN /\ stopped \in BOOLEAN
    OBVIOUS
  <2> QED
    BY <2>1, <2>2, <2>3 DEF LedgerTypeOK
<1>2. QueueOpen /\ (writing => queue # <<>>) /\ ReservationFits /\ SettlementPending
  BY DEF QueueOpen, ReservationFits, SettlementPending
<1>3. WithinBudget
  BY DEF WithinBudget, RunWithinCaps, OuterWithinCaps, NoCounts, Cap
<1>4. PersistedBeforeGranted
  BY DEF PersistedBeforeGranted, Charged
<1> QED
  BY <1>1, <1>2, <1>3, <1>4 DEF LedgerInv

LEMMA QueuedRun ==
    ASSUME LedgerTypeOK, NEW i \in 1 .. Len(queue)
    PROVE  queue[i].run \in Run /\ queue[i] \in LedgerRequest
<1>1. queue[i] \in LedgerRequest
  BY DEF LedgerTypeOK, LedgerRequest
<1> QED
  BY <1>1 DEF LedgerRequest, AdmitRequest, SettleRequest

LEMMA BeginInv ==
    ASSUME LedgerInv, NEW r \in Run, NEW l \in Limits, NEW past \in Restorable, BeginRun(r, l, past)
    PROVE  LedgerInv'
<1> USE LedgerAssumption DEF LedgerInv, BeginRun
<1>0. past \in [Kind -> Nat] /\ l \in [Kind -> Cap]
  OBVIOUS
<1>a. \/ /\ total' = [k \in Kind |-> total[k] + past[k]]
         /\ imported' = [k \in Kind |-> imported[k] + past[k]]
      \/ total' = total /\ imported' = imported
  OBVIOUS
<1>b. /\ total' \in [Kind -> Nat] /\ imported' \in [Kind -> Nat]
      /\ \A k \in Kind : total'[k] - imported'[k] = total[k] - imported[k]
  <2> total \in [Kind -> Nat] /\ imported \in [Kind -> Nat]
    BY DEF LedgerTypeOK
  <2> HIDE DEF LedgerInv, BeginRun
  <2>1. CASE total' = total /\ imported' = imported
    BY <2>1
  <2>2. CASE /\ total' = [k \in Kind |-> total[k] + past[k]]
             /\ imported' = [k \in Kind |-> imported[k] + past[k]]
    BY <1>0, <2>2
  <2> QED
    BY <1>a, <2>1, <2>2
<1>1. LedgerTypeOK'
  <2>1. (phase \in [Run -> {"unknown", "recording", "open", "failed"}])'
    BY DEF LedgerTypeOK
  <2>2. /\ (limit \in [Run -> [Kind -> Cap]])'
        /\ (counts \in [Run -> [Kind -> Nat]])'
        /\ (restored \in [Run -> [Kind -> Nat]])'
    BY <1>0 DEF LedgerTypeOK
  <2>3. (usage \in Usage)'
    BY DEF LedgerTypeOK, Usage, RestoredUsage
  <2> QED
    BY <1>b, <2>1, <2>2, <2>3 DEF LedgerTypeOK
<1>2. \A i \in 1 .. Len(queue) : queue[i].run # r /\ queue[i].run \in Run
  <2> TAKE i \in 1 .. Len(queue)
  <2>1. phase[queue[i].run] = "open" /\ phase[r] = "unknown"
    BY DEF QueueOpen
  <2> QED
    BY <2>1, QueuedRun
<1>3. QueueOpen'
  BY <1>2 DEF QueueOpen, LedgerTypeOK
<1>4. queue # <<>> => Req.run # r
  <2> SUFFICES ASSUME queue # <<>> PROVE Req.run # r
    OBVIOUS
  <2>1. Req = queue[1] /\ 1 \in 1 .. Len(queue)
    BY HeadRequest
  <2> QED
    BY <1>2, <2>1
<1>5. ReservationFits'
  <2> SUFFICES ASSUME writing, Req.op = "admit" PROVE ReservationFits'
    BY DEF ReservationFits, Req
  <2>1. Asked("admit") /\ Req.run # r
    BY <1>4 DEF Asked
  <2>2. total'[Req.kind] - imported'[Req.kind] = total[Req.kind] - imported[Req.kind]
    BY <1>b, <2>1, AdmitFields
  <2>3. counts'[Req.run] = counts[Req.run] /\ limit'[Req.run] = limit[Req.run]
    BY <2>1, AdmitFields DEF LedgerTypeOK
  <2>4. Req' = Req /\ fresh' = fresh /\ ticket' = ticket
    BY DEF Req
  <2> QED
    BY <2>1, <2>2, <2>3, <2>4 DEF ReservationFits, Within
<1>6. SettlementPending'
  BY DEF SettlementPending, Owned, Req
<1>7. RunWithinCaps'
  BY <1>0 DEF WithinBudget, RunWithinCaps, LedgerTypeOK, Larger, Cap
<1>8. OuterWithinCaps'
  <2> SUFFICES ASSUME NEW k \in Kind, Outer[k] # NoCap
               PROVE  total'[k] <= imported'[k] + Outer[k]
    BY DEF OuterWithinCaps
  <2>1. total[k] <= imported[k] + Outer[k]
    BY DEF WithinBudget, OuterWithinCaps
  <2> HIDE DEF LedgerInv, BeginRun
  <2>2. Outer[k] \in Nat
    BY DEF Cap
  <2>3. total[k] \in Nat /\ imported[k] \in Nat /\ total'[k] \in Nat /\ imported'[k] \in Nat
    BY <1>b DEF LedgerInv, LedgerTypeOK
  <2> QED
    BY <1>b, <2>1, <2>2, <2>3
<1>9. PersistedBeforeGranted'
  BY DEF PersistedBeforeGranted, Charged
<1> QED
  BY <1>1, <1>3, <1>5, <1>6, <1>7, <1>8, <1>9 DEF WithinBudget

LEMMA BeginRecordedInv ==
    ASSUME LedgerInv, NEW r \in Run, BeginRecorded(r)
    PROVE  LedgerInv'
<1> USE DEF LedgerInv, BeginRecorded, account
<1>1. LedgerTypeOK'
  BY DEF LedgerTypeOK
<1>2. QueueOpen'
  <2>1. \A i \in 1 .. Len(queue) : queue[i].run # r /\ queue[i].run \in Run
    <3> TAKE i \in 1 .. Len(queue)
    <3>1. phase[queue[i].run] = "open" /\ phase[r] = "recording"
      BY DEF QueueOpen
    <3> QED
      BY <3>1, QueuedRun
  <2> QED
    BY <2>1 DEF QueueOpen, LedgerTypeOK
<1>3. ReservationFits' /\ SettlementPending'
  BY DEF ReservationFits, SettlementPending, Owned, Req
<1>4. WithinBudget' /\ PersistedBeforeGranted'
  BY DEF WithinBudget, RunWithinCaps, OuterWithinCaps, PersistedBeforeGranted, Charged
<1> QED
  BY <1>1, <1>2, <1>3, <1>4

LEMMA EnqueueInv ==
    ASSUME LedgerInv, NEW req \in LedgerRequest, Enqueue(req)
    PROVE  LedgerInv'
<1> USE DEF LedgerInv, Enqueue, runVars, account
<1>1. queue \in Seq(LedgerRequest) /\ queue' = Append(queue, req) /\ Len(queue) \in Nat
  BY DEF LedgerTypeOK, LedgerRequest
<1>2. /\ queue' \in Seq(LedgerRequest)
      /\ Len(queue') = Len(queue) + 1
      /\ queue'[Len(queue) + 1] = req
      /\ \A i \in 1 .. Len(queue) : queue'[i] = queue[i]
  BY <1>1
<1>3. LedgerTypeOK'
  BY <1>2 DEF LedgerTypeOK, LedgerRequest
<1>4. QueueOpen'
  <2> SUFFICES ASSUME NEW i \in 1 .. Len(queue) + 1
               PROVE  phase[queue'[i].run] = "open"
    BY <1>2 DEF QueueOpen
  <2>1. CASE i \in 1 .. Len(queue)
    BY <1>2, <2>1 DEF QueueOpen
  <2>2. CASE i = Len(queue) + 1
    BY <1>2, <2>2
  <2> QED
    BY <1>1, <2>1, <2>2
<1>5. queue # <<>> => queue' # <<>> /\ Req' = Req
  BY <1>1, <1>2 DEF Req
<1>6. ReservationFits' /\ SettlementPending' /\ (writing' => queue' # <<>>)
  BY <1>5 DEF ReservationFits, SettlementPending, Owned
<1>7. WithinBudget' /\ PersistedBeforeGranted'
  BY DEF WithinBudget, RunWithinCaps, OuterWithinCaps, PersistedBeforeGranted, Charged
<1> QED
  BY <1>3, <1>4, <1>6, <1>7

\* What the end of the head's operation leaves to show of the invariant.
LEMMA FinishInv ==
    ASSUME LedgerInv, queue # <<>>, Finish, phase' = phase
    PROVE  /\ queue' \in Seq(LedgerRequest)
           /\ QueueOpen'
           /\ ~writing' /\ writing' \in BOOLEAN
           /\ fresh' = NoTicket
           /\ ReservationFits' /\ SettlementPending'
<1>1. QueueOpen'
  <2>1. /\ queue' = Tail(queue)
        /\ Len(queue') = Len(queue) - 1 /\ Len(queue) \in Nat
        /\ \A i \in 1 .. Len(queue') : queue'[i] = queue[i + 1]
    BY HeadRequest DEF LedgerInv, Finish
  <2> QED
    BY <2>1 DEF LedgerInv, QueueOpen
<1>2. ~writing' /\ writing' \in BOOLEAN
  BY DEF Finish
<1> QED
  BY <1>1, <1>2, HeadRequest DEF LedgerInv, Finish, ReservationFits, SettlementPending

LEMMA AnsweredInv ==
    ASSUME LedgerInv, queue # <<>>, Finish,
           UNCHANGED <<runVars, account, durable, granted, stopped>>
    PROVE  LedgerInv'
<1> USE DEF LedgerInv, runVars, account
<1>1. LedgerTypeOK'
  <2>1. /\ (queue \in Seq(AdmitRequest \cup SettleRequest))'
        /\ (fresh \in Ticket \cup {NoTicket})'
    BY FinishInv DEF LedgerRequest
  <2>2. (writing \in BOOLEAN)'
    BY FinishInv
  <2> QED
    BY <2>1, <2>2 DEF LedgerTypeOK
<1>2. WithinBudget' /\ PersistedBeforeGranted'
  BY DEF WithinBudget, RunWithinCaps, OuterWithinCaps, PersistedBeforeGranted, Charged
<1> QED
  BY <1>1, <1>2, FinishInv

LEMMA AdmitCheckedInv ==
    ASSUME LedgerInv, AdmitChecked
    PROVE  LedgerInv'
<1> USE DEF LedgerInv, AdmitChecked, runVars, account
<1>1. LedgerTypeOK' /\ queue # <<>> /\ writing'
  BY DEF LedgerTypeOK, Asked
<1>2. QueueOpen' /\ SettlementPending' /\ Req' = Req
  BY DEF QueueOpen, SettlementPending, Asked, Req
<1>3. ReservationFits'
  <2>1. Within(total[Req.kind] - imported[Req.kind] + Req.count, Outer[Req.kind])
    <3>1. /\ Within(total[Req.kind] + Req.count, Outer[Req.kind])
          /\ total[Req.kind] \in Nat /\ imported[Req.kind] \in Nat
          /\ Req.count \in Nat /\ Outer[Req.kind] \in Cap
      BY AdmitFields, LedgerAssumption DEF LedgerTypeOK, Admissible
    <3> QED
      BY <3>1 DEF Within, Cap
  <2>2. Within(counts[Req.run][Req.kind] + Req.count, limit[Req.run][Req.kind])
    BY DEF Admissible
  <2>3. fresh' \in Ticket /\ ticket[fresh'] = NoTicket
    OBVIOUS
  <2> QED
    BY <1>2, <2>1, <2>2, <2>3 DEF ReservationFits
<1>4. WithinBudget' /\ PersistedBeforeGranted'
  BY DEF WithinBudget, RunWithinCaps, OuterWithinCaps, PersistedBeforeGranted, Charged
<1> QED
  BY <1>1, <1>2, <1>3, <1>4

LEMMA AdmitRecordedInv ==
    ASSUME LedgerInv, AdmitRecorded
    PROVE  LedgerInv'
<1> DEFINE r == Req.run  k == Req.kind  n == Req.count
           rec == [run |-> r, kind |-> k, count |-> n, settled |-> "no"]
<1>0. /\ r \in Run /\ k \in Kind /\ n \in Nat \ {0} /\ rec \in TicketRecord
      /\ queue # <<>> /\ Finish
      /\ counts' = [counts EXCEPT ![r][k] = @ + n]
      /\ total' = [total EXCEPT ![k] = @ + n]
      /\ ticket' = [ticket EXCEPT ![fresh] = rec]
      /\ durable' = durable \cup {fresh}
      /\ granted' = IF stopped THEN granted ELSE granted \cup {fresh}
      /\ UNCHANGED <<phase, limit, restored, imported, usage, stopped>>
  BY AdmitFields, LedgerAssumption
     DEF LedgerInv, AdmitRecorded, Asked, Charge, TicketRecord, runVars
<1>1. /\ fresh \in Ticket
      /\ ticket[fresh] = NoTicket
      /\ Within(counts[r][k] + n, limit[r][k])
      /\ Within(total[k] - imported[k] + n, Outer[k])
  BY DEF LedgerInv, ReservationFits, AdmitRecorded, Asked
<1> HIDE DEF r, k, n, rec
<1>2. /\ counts \in [Run -> [Kind -> Nat]] /\ total \in [Kind -> Nat]
      /\ imported \in [Kind -> Nat] /\ restored \in [Run -> [Kind -> Nat]]
      /\ limit \in [Run -> [Kind -> Cap]]
      /\ ticket \in [Ticket -> TicketRecord \cup {NoTicket}]
      /\ durable \in SUBSET Ticket /\ granted \in SUBSET Ticket
  BY DEF LedgerInv, LedgerTypeOK
<1>3. LedgerTypeOK'
  <2>1. /\ (counts \in [Run -> [Kind -> Nat]])' /\ (total \in [Kind -> Nat])'
    BY <1>0, <1>2
  <2>2. /\ (ticket \in [Ticket -> TicketRecord \cup {NoTicket}])'
        /\ (durable \in SUBSET Ticket)'
    BY <1>0, <1>1, <1>2
  <2>3. (granted \in SUBSET Ticket)'
    BY <1>0, <1>1, <1>2
  <2>4. /\ (queue \in Seq(AdmitRequest \cup SettleRequest))'
        /\ (fresh \in Ticket \cup {NoTicket})'
    BY <1>0, FinishInv DEF LedgerRequest
  <2>5. (writing \in BOOLEAN)'
    BY <1>0, FinishInv
  <2>6. /\ (phase \in [Run -> {"unknown", "recording", "open", "failed"}])'
        /\ (usage \in Usage)' /\ (stopped \in BOOLEAN)'
    BY <1>0 DEF LedgerInv, LedgerTypeOK
  <2> QED
    BY <1>0, <1>2, <2>1, <2>2, <2>3, <2>4, <2>5, <2>6 DEF LedgerTypeOK
<1>4. RunWithinCaps'
  <2> SUFFICES ASSUME NEW s \in Run, NEW j \in Kind, limit[s][j] # NoCap
               PROVE  counts'[s][j] <= Larger(limit[s][j], restored[s][j])
    BY <1>0 DEF RunWithinCaps
  <2>1. counts[s][j] <= Larger(limit[s][j], restored[s][j])
    BY DEF LedgerInv, WithinBudget, RunWithinCaps
  <2>2. limit[s][j] \in Nat /\ restored[s][j] \in Nat /\ counts[s][j] \in Nat
    BY <1>2 DEF Cap
  <2>3. CASE s = r /\ j = k
    <3>1. counts'[s][j] = counts[s][j] + n
      BY <1>0, <1>2, <2>3
    <3> QED
      BY <1>0, <1>1, <2>2, <2>3, <3>1 DEF Within, Larger
  <2>4. CASE ~(s = r /\ j = k)
    <3>1. counts'[s][j] = counts[s][j]
      BY <1>0, <1>2, <2>4
    <3> QED
      BY <2>1, <3>1
  <2> QED
    BY <2>3, <2>4
<1>5. OuterWithinCaps'
  <2> SUFFICES ASSUME NEW j \in Kind, Outer[j] # NoCap
               PROVE  total'[j] <= imported[j] + Outer[j]
    BY <1>0 DEF OuterWithinCaps
  <2>1. total[j] <= imported[j] + Outer[j]
    BY DEF LedgerInv, WithinBudget, OuterWithinCaps
  <2>2. Outer[j] \in Nat /\ total[j] \in Nat /\ imported[j] \in Nat
    BY <1>2, LedgerAssumption DEF Cap
  <2>3. total'[j] = IF j = k THEN total[j] + n ELSE total[j]
    BY <1>0, <1>2
  <2> QED
    BY <1>0, <1>1, <2>1, <2>2, <2>3 DEF Within
<1>6. PersistedBeforeGranted'
  <2>1. granted \subseteq durable /\ durable = Charged
    BY DEF LedgerInv, PersistedBeforeGranted
  <2>2. Charged' = Charged \cup {fresh}
    BY <1>0, <1>1, <1>2, LedgerAssumption DEF Charged
  <2>3. granted' \subseteq granted \cup {fresh}
    BY <1>0
  <2> QED
    BY <1>0, <2>1, <2>2, <2>3 DEF PersistedBeforeGranted
<1> QED
  BY <1>0, <1>3, <1>4, <1>5, <1>6, FinishInv DEF LedgerInv, WithinBudget

LEMMA SettleCheckedInv ==
    ASSUME LedgerInv, SettleChecked
    PROVE  LedgerInv'
<1> USE DEF LedgerInv, SettleChecked, runVars, account
<1>1. LedgerTypeOK' /\ queue # <<>> /\ writing'
  BY DEF LedgerTypeOK, Asked
<1>2. /\ QueueOpen' /\ SettlementPending' /\ ReservationFits'
  BY DEF QueueOpen, SettlementPending, ReservationFits, Asked, Req, Owned
<1>3. WithinBudget' /\ PersistedBeforeGranted'
  BY DEF WithinBudget, RunWithinCaps, OuterWithinCaps, PersistedBeforeGranted, Charged
<1> QED
  BY <1>1, <1>2, <1>3

LEMMA SettleRecordedInv ==
    ASSUME LedgerInv, SettleRecorded
    PROVE  LedgerInv'
<1> DEFINE t == Req.ticket  settled == [ticket[t] EXCEPT !.settled = Req.usage]
<1>0. /\ t \in Ticket /\ Req.usage \in Usage
      /\ queue # <<>> /\ Finish
      /\ ticket' = [ticket EXCEPT ![t] = settled]
      /\ ticket[t] \in TicketRecord
  BY SettleFields DEF LedgerInv, LedgerTypeOK, SettleRecorded, Asked, SettlementPending, Owned
<1>1. settled \in TicketRecord
  BY <1>0 DEF TicketRecord
<1>2. UNCHANGED <<phase, limit, restored, imported, counts, total, durable, granted, stopped>>
  BY DEF SettleRecorded, runVars
<1>3. (usage \in Usage)'
  BY DEF LedgerInv, LedgerTypeOK, SettleRecorded, Usage
<1> HIDE DEF t, settled
<1>4. LedgerTypeOK'
  <2>1. (ticket \in [Ticket -> TicketRecord \cup {NoTicket}])'
    BY <1>0, <1>1 DEF LedgerInv, LedgerTypeOK
  <2>2. /\ (queue \in Seq(AdmitRequest \cup SettleRequest))'
        /\ (fresh \in Ticket \cup {NoTicket})'
    BY <1>0, <1>2, FinishInv DEF LedgerRequest
  <2>3. (writing \in BOOLEAN)'
    BY <1>0, <1>2, FinishInv
  <2> QED
    BY <1>2, <1>3, <2>1, <2>2, <2>3 DEF LedgerInv, LedgerTypeOK
<1>5. PersistedBeforeGranted'
  <2>1. Charged' = Charged
    BY <1>0, <1>1, LedgerAssumption DEF LedgerInv, LedgerTypeOK, Charged
  <2> QED
    BY <1>2, <2>1 DEF LedgerInv, PersistedBeforeGranted
<1>6. WithinBudget'
  BY <1>2 DEF LedgerInv, WithinBudget, RunWithinCaps, OuterWithinCaps
<1> QED
  BY <1>0, <1>2, <1>4, <1>5, <1>6, FinishInv DEF LedgerInv

-----------------------------------------------------------------------------
LEMMA LedgerSteps == LedgerInv /\ [LedgerNext]_ledgerVars => LedgerInv'
<1> SUFFICES ASSUME LedgerInv, [LedgerNext]_ledgerVars PROVE LedgerInv'
  OBVIOUS
<1>1. ASSUME NEW r \in Run, NEW l \in Limits, NEW c \in Restorable, BeginRun(r, l, c)
      PROVE  LedgerInv'
  BY <1>1, BeginInv
<1>2. ASSUME NEW r \in Run, BeginRecorded(r) PROVE LedgerInv'
  BY <1>2, BeginRecordedInv
<1>3. ASSUME NEW r \in Run, NEW k \in Kind, NEW n \in Count, Admit(r, k, n)
      PROVE  LedgerInv'
  <2>1. [op |-> "admit", run |-> r, kind |-> k, count |-> n] \in LedgerRequest
    BY DEF LedgerRequest, AdmitRequest
  <2> QED
    BY <1>3, <2>1, EnqueueInv DEF Admit
<1>4. ASSUME NEW r \in Run, NEW t \in Ticket, NEW u \in Usage, SettleTicket(r, t, u)
      PROVE  LedgerInv'
  <2>1. [op |-> "settle", run |-> r, ticket |-> t, usage |-> u] \in LedgerRequest
    BY DEF LedgerRequest, SettleRequest
  <2> QED
    BY <1>4, <2>1, EnqueueInv DEF SettleTicket
<1>5. CASE AdmitRefused \/ AdmitUnrecorded \/ SettleIgnored \/ SettleUnrecorded
  BY <1>5, AnsweredInv
     DEF AdmitRefused, AdmitUnrecorded, SettleIgnored, SettleUnrecorded, Asked
<1>6. CASE AdmitChecked
  BY <1>6, AdmitCheckedInv
<1>7. CASE AdmitRecorded
  BY <1>7, AdmitRecordedInv
<1>8. CASE SettleChecked
  BY <1>8, SettleCheckedInv
<1>9. CASE SettleRecorded
  BY <1>9, SettleRecordedInv
<1>10. CASE Stop \/ UNCHANGED ledgerVars
  <2>1. /\ UNCHANGED <<runVars, account, queue, writing, fresh, durable, granted>>
        /\ (stopped \in BOOLEAN)'
    BY <1>10 DEF Stop, ledgerVars, runVars, account, LedgerInv, LedgerTypeOK
  <2> USE DEF LedgerInv, runVars, account
  <2>2. LedgerTypeOK' /\ QueueOpen'
    BY <2>1 DEF LedgerTypeOK, QueueOpen
  <2>3. ReservationFits' /\ SettlementPending' /\ WithinBudget' /\ PersistedBeforeGranted'
    BY <2>1 DEF ReservationFits, SettlementPending, Owned, Req, WithinBudget,
                RunWithinCaps, OuterWithinCaps, PersistedBeforeGranted, Charged
  <2> QED
    BY <2>1, <2>2, <2>3
<1> QED
  BY <1>1, <1>2, <1>3, <1>4, <1>5, <1>6, <1>7, <1>8, <1>9, <1>10 DEF LedgerNext, Step

LEMMA LedgerInvariance == LedgerSpec => []LedgerInv
BY LedgerBegins, LedgerSteps, PTL DEF LedgerSpec

\* The ledger's variables keep their types.
THEOREM LedgerTypes == LedgerSpec => []LedgerTypeOK
BY LedgerInvariance, PTL DEF LedgerInv

\* No run exceeds its limits and no set of runs the enclosing budget.
THEOREM BudgetsHold == LedgerSpec => []WithinBudget
BY LedgerInvariance, PTL DEF LedgerInv

\* Exactly the reservations the sink acknowledged are charged, and a caller
\* holds no other.
THEOREM PersistenceIsABarrier == LedgerSpec => []PersistedBeforeGranted
BY LedgerInvariance, PTL DEF LedgerInv

-----------------------------------------------------------------------------
(* Refinement: begin maps to Join, the acknowledged reservation to Reserve, *)
(* everything else to a stutter.                                            *)

joinedBar == {r \in Run : phase[r] # "unknown"}
poolBar == [k \in Kind |-> total[k] - imported[k]]

LEMMA InitRefines == LedgerInit => Allowance!Init
BY DEF LedgerInit, Allowance!Init, NoCounts

LEMMA BeginRefines ==
    ASSUME LedgerInv, NEW r \in Run, NEW l \in Limits, NEW past \in Restorable, BeginRun(r, l, past)
    PROVE  Allowance!Join(r, l, past)
<1>1. /\ phase[r] = "unknown"
      /\ \E p \in {"recording", "failed"} : phase' = [phase EXCEPT ![r] = p]
      /\ phase \in [Run -> {"unknown", "recording", "open", "failed"}]
  BY DEF BeginRun, LedgerInv, LedgerTypeOK
<1>2. joinedBar' = joinedBar \cup {r} /\ r \notin joinedBar
  BY <1>1 DEF joinedBar
<1>3. past \in [Kind -> Nat]
  BY LedgerAssumption
<1>4. \A k \in Kind : total'[k] - imported'[k] = total[k] - imported[k]
  <2>1. total \in [Kind -> Nat] /\ imported \in [Kind -> Nat]
    BY DEF LedgerInv, LedgerTypeOK
  <2>2. CASE total' = total /\ imported' = imported
    BY <2>2
  <2>3. CASE /\ total' = [k \in Kind |-> total[k] + past[k]]
             /\ imported' = [k \in Kind |-> imported[k] + past[k]]
    BY <1>3, <2>1, <2>3
  <2> QED
    BY <2>2, <2>3 DEF BeginRun
<1>5. poolBar' = poolBar
  BY <1>4 DEF poolBar
<1>6. counts' = [counts EXCEPT ![r] = past] /\ limit' = [limit EXCEPT ![r] = l]
  BY DEF BeginRun
<1> QED
  BY <1>2, <1>5, <1>6 DEF Allowance!Join, joinedBar, poolBar

LEMMA ReserveRefines ==
    ASSUME LedgerInv, AdmitRecorded, NEW r \in Run, NEW k \in Kind, NEW n \in Count,
           r = Req.run, k = Req.kind, n = Req.count
    PROVE  Allowance!Reserve(r, k, n)
<1>1. /\ n \in Nat
      /\ counts' = [counts EXCEPT ![r][k] = @ + n]
      /\ total' = [total EXCEPT ![k] = @ + n]
      /\ UNCHANGED <<phase, limit, imported>>
  BY AdmitFields, LedgerAssumption DEF LedgerInv, AdmitRecorded, Charge, runVars
<1>2. /\ Within(counts[r][k] + n, limit[r][k])
      /\ Within(total[k] - imported[k] + n, Outer[k])
  BY DEF LedgerInv, ReservationFits, AdmitRecorded, Asked
<1>3. phase[r] = "open"
  <2>1. 1 \in 1 .. Len(queue) /\ Req = queue[1]
    BY HeadRequest DEF LedgerInv, AdmitRecorded, Asked
  <2> QED
    BY <2>1 DEF LedgerInv, QueueOpen
<1>4. total \in [Kind -> Nat] /\ imported \in [Kind -> Nat]
  BY DEF LedgerInv, LedgerTypeOK
<1>5. r \in joinedBar /\ joinedBar' = joinedBar
  BY <1>1, <1>3 DEF joinedBar
<1>6. poolBar' = [poolBar EXCEPT ![k] = @ + n]
  <2>1. \A j \in Kind : total'[j] - imported'[j]
                      = IF j = k THEN total[j] - imported[j] + n ELSE total[j] - imported[j]
    BY <1>1, <1>4
  <2> QED
    BY <1>1, <2>1 DEF poolBar
<1>7. poolBar[k] = total[k] - imported[k]
  BY <1>1 DEF poolBar
<1> QED
  BY <1>1, <1>2, <1>5, <1>6, <1>7
     DEF Allowance!Reserve, Allowance!Within, Within, joinedBar, poolBar

LEMMA OthersStutter ==
    ASSUME UNCHANGED <<limit, counts, total, imported>>, joinedBar' = joinedBar
    PROVE  UNCHANGED Allowance!vars
BY DEF Allowance!vars, joinedBar

LEMMA StepRefines == LedgerInv /\ [LedgerNext]_ledgerVars => [Allowance!Next]_(Allowance!vars)
<1> SUFFICES ASSUME LedgerInv, [LedgerNext]_ledgerVars
             PROVE  Allowance!Next \/ UNCHANGED Allowance!vars
  OBVIOUS
<1>1. ASSUME NEW r \in Run, NEW l \in Limits, NEW c \in Restorable, BeginRun(r, l, c)
      PROVE  Allowance!Next
  BY <1>1, BeginRefines DEF Allowance!Next
<1>2. ASSUME NEW r \in Run, BeginRecorded(r) PROVE UNCHANGED Allowance!vars
  <2>1. joinedBar' = joinedBar
    BY <1>2 DEF BeginRecorded, joinedBar, LedgerInv, LedgerTypeOK
  <2> QED
    BY <1>2, <2>1, OthersStutter DEF BeginRecorded, account
<1>3. CASE AdmitRecorded
  <2>1. PICK r \in Run, k \in Kind, n \in Count :
           r = Req.run /\ k = Req.kind /\ n = Req.count
    BY <1>3, AdmitFields DEF LedgerInv, AdmitRecorded
  <2>2. Allowance!Reserve(r, k, n)
    BY <1>3, <2>1, ReserveRefines
  <2> QED
    BY <2>2 DEF Allowance!Next
<1>4. CASE \/ \E r \in Run, k \in Kind, n \in Count : Admit(r, k, n)
           \/ \E r \in Run, t \in Ticket, u \in Usage : SettleTicket(r, t, u)
           \/ AdmitRefused \/ AdmitChecked \/ AdmitUnrecorded
           \/ SettleIgnored \/ SettleChecked \/ SettleRecorded \/ SettleUnrecorded
           \/ Stop \/ UNCHANGED ledgerVars
  <2>1. UNCHANGED <<phase, limit, counts, total, imported>>
    BY <1>4 DEF Admit, SettleTicket, Enqueue, AdmitRefused, AdmitChecked, AdmitUnrecorded,
                SettleIgnored, SettleChecked, SettleRecorded, SettleUnrecorded,
                Stop, ledgerVars, runVars, account
  <2> QED
    BY <2>1, OthersStutter DEF joinedBar
<1> QED
  BY <1>1, <1>2, <1>3, <1>4 DEF LedgerNext, Step

\* A reservation looks atomic: the ledger implements BudgetAllowance.
THEOREM LedgerImplementsAllowance == LedgerSpec => ReservationsAreAtomic
BY LedgerInvariance, InitRefines, StepRefines, PTL DEF LedgerSpec, Allowance!Spec, ReservationsAreAtomic

-----------------------------------------------------------------------------
(* The accounts balance: what is charged is what the tickets add up to.    *)

\* The sum a ledger with these tickets would tell.
CountsOf(tickets, S) == MapThenSumSet(LAMBDA t : tickets[t].count, S)

\* The batch sizes of a set of tickets.
Batches(tickets, S) == [t \in S |-> tickets[t].count]

ChargedCounts ==
    /\ IsFiniteSet(Charged)
    /\ \A k \in Kind : total[k] = imported[k] + CountsOf(ticket, Of(k))

\* While the accumulated usage is complete, no restored model call and no
\* settlement without usage came into it.
UsageComplete ==
    usage = "reported" =>
        /\ imported["model"] = 0
        /\ \A t \in Of("model") : ticket[t].settled # "unavailable"

LEMMA CountsAre ==
    ASSUME NEW S, IsFiniteSet(S), NEW tickets, \A t \in S : tickets[t].count \in Nat
    PROVE  CountsOf(tickets, S) = SumOf(Batches(tickets, S), S)
<1> DEFINE w == Batches(tickets, S)
           iter[T \in SUBSET S] ==
               IF T = {} THEN 0 ELSE LET x == CHOOSE x \in T : TRUE IN tickets[x].count + iter[T \ {x}]
           Body(g) == [T \in SUBSET S |-> IF T = {} THEN 0 ELSE tickets[First(T)].count + g[T \ {First(T)}]]
<1>1. \A x \in S : w[x] \in Nat /\ w[x] = tickets[x].count
  BY DEF Batches
<1> HIDE DEF w
<1>2. PICK f : Adds(f, w, S)
  BY <1>1, AddsExists
<1>3. \A T \in SUBSET S : T # {} => w[First(T)] = tickets[First(T)].count
  BY <1>1, FirstIs
<1>4. ASSUME NEW g, g = Body(g)
      PROVE  Adds(g, w, S)
  <2>1. Body(g) = [T \in SUBSET S |-> IF T = {} THEN 0 ELSE w[First(T)] + g[T \ {First(T)}]]
    BY <1>3
  <2> HIDE DEF Body
  <2> QED
    BY ONLY <1>4, <2>1 DEF Adds
<1>5. f = Body(f)
  <2>1. Body(f) = [T \in SUBSET S |-> IF T = {} THEN 0 ELSE w[First(T)] + f[T \ {First(T)}]]
    BY <1>3
  <2> HIDE DEF Body
  <2> QED
    BY ONLY <1>2, <2>1 DEF Adds
<1>6. iter = Body(iter)
  <2> DEFINE Solves(g) == g = Body(g)
  <2>1. Solves(CHOOSE g : Solves(g))
    <3> HIDE DEF Solves
    <3>1. \E g : Solves(g)
      BY <1>5 DEF Solves
    <3> QED
      BY <3>1
  <2> QED
    BY <2>1 DEF First
<1>7. CountsOf(tickets, S) = iter[S]
  BY DEF CountsOf, MapThenSumSet, MapThenFoldSet
<1> HIDE DEF iter, Body
<1>8. Adds(iter, w, S)
  BY <1>4, <1>6
<1>9. SumOf(w, S) = iter[S]
  BY <1>8, SumOfIs
<1> QED
  BY <1>7, <1>9 DEF w

\* Tickets whose batches are the same add up to the same.
LEMMA CountsSame ==
    ASSUME NEW S, IsFiniteSet(S), NEW a, NEW b, \A t \in S : a[t].count \in Nat /\ b[t].count = a[t].count
    PROVE  CountsOf(b, S) = CountsOf(a, S)
<1>1. \A t \in S : b[t].count \in Nat /\ b[t].count = a[t].count
  OBVIOUS
<1>2. Batches(a, S) = Batches(b, S)
  BY <1>1 DEF Batches
<1> QED
  BY <1>1, <1>2, CountsAre

\* A ticket more adds its batch.
LEMMA CountsMore ==
    ASSUME NEW S, IsFiniteSet(S), NEW u, u \notin S, NEW a, NEW b,
           \A t \in S : a[t].count \in Nat /\ b[t].count = a[t].count, b[u].count \in Nat
    PROVE  CountsOf(b, S \cup {u}) = CountsOf(a, S) + b[u].count
<1> DEFINE R == S \cup {u}
           v == Batches(b, R)
           w == Batches(a, S)
<1>1. /\ IsFiniteSet(R)
      /\ \A t \in R : b[t].count \in Nat /\ v[t] = b[t].count
      /\ \A t \in S : v[t] \in Nat /\ w[t] = v[t]
  BY FS_AddElement DEF Batches
<1>2. v[u] = b[u].count
  BY DEF Batches
<1> HIDE DEF v, w
<1>3. CountsOf(b, R) = SumOf(v, R)
  <2> HIDE DEF R
  <2> QED
    BY <1>1, CountsAre DEF v
<1>4. CountsOf(a, S) = SumOf(w, S)
  BY CountsAre DEF w
<1>5. SumOf(w, S) = SumOf(v, S)
  BY <1>1, SumSame
<1>6. SumOf(v, R) = SumOf(v, S) + v[u]
  BY <1>1, SumMore
<1> QED
  BY <1>2, <1>3, <1>4, <1>5, <1>6

\* What is charged, and of which kind.
LEMMA ChargedTyped ==
    ASSUME LedgerTypeOK
    PROVE  /\ Charged = {t \in Ticket : ticket[t] \in TicketRecord}
           /\ \A t \in Charged : t \in Ticket /\ ticket[t] \in TicketRecord /\ ticket[t].count \in Nat
           /\ \A k \in Kind : Of(k) \subseteq Charged
<1>1. \A t \in Ticket : ticket[t] \in TicketRecord \cup {NoTicket}
  BY DEF LedgerTypeOK
<1>2. NoTicket \notin TicketRecord /\ Count \subseteq Nat
  BY LedgerAssumption
<1>3. \A r \in TicketRecord : r.count \in Count
  BY DEF TicketRecord
<1> QED
  BY <1>1, <1>2, <1>3 DEF Charged, Of

-----------------------------------------------------------------------------
LEMMA BalanceBegins == LedgerInit => ChargedCounts /\ UsageComplete
<1> SUFFICES ASSUME LedgerInit PROVE ChargedCounts /\ UsageComplete
  OBVIOUS
<1>1. Charged = {} /\ \A k : Of(k) = {}
  BY DEF LedgerInit, Charged, Of
<1>2. CountsOf(ticket, {}) = 0
  BY CountsAre, SumEmpty, FS_EmptySet
<1>3. ChargedCounts
  <2>1. IsFiniteSet(Charged)
    BY <1>1, FS_EmptySet
  <2>2. \A k \in Kind : total[k] = 0 /\ imported[k] = 0
    BY DEF LedgerInit, NoCounts
  <2> QED
    BY <1>1, <1>2, <2>1, <2>2 DEF ChargedCounts
<1>4. UsageComplete
  BY <1>1 DEF LedgerInit, NoCounts, UsageComplete, Kind
<1> QED
  BY <1>3, <1>4

\* A step that charges nothing and settles nothing.
LEMMA BalanceStays ==
    ASSUME ChargedCounts, UsageComplete, UNCHANGED <<total, imported, ticket, usage>>
    PROVE  ChargedCounts' /\ UsageComplete'
BY DEF ChargedCounts, UsageComplete, Charged, Of

LEMMA BeginBalances ==
    ASSUME LedgerTypeOK, ChargedCounts, UsageComplete,
           NEW r \in Run, NEW l \in Limits, NEW past \in Restorable, BeginRun(r, l, past)
    PROVE  ChargedCounts' /\ UsageComplete'
<1>1. CASE UNCHANGED <<total, imported, usage>>
  BY <1>1, BalanceStays DEF BeginRun
<1>2. CASE /\ total' = [k \in Kind |-> total[k] + past[k]]
           /\ imported' = [k \in Kind |-> imported[k] + past[k]]
           /\ usage' = RestoredUsage(past)
  <2>1. ticket' = ticket
    BY DEF BeginRun
  <2>2. Charged' = Charged /\ \A k : Of(k)' = Of(k)
    BY <2>1 DEF Charged, Of
  <2>3. \A k \in Kind : total[k] \in Nat /\ imported[k] \in Nat /\ past[k] \in Nat
    BY LedgerAssumption DEF LedgerTypeOK
  <2>4. ASSUME NEW k \in Kind
        PROVE  total'[k] = imported'[k] + CountsOf(ticket', Of(k)')
    <3>1. total[k] = imported[k] + CountsOf(ticket, Of(k))
      BY DEF ChargedCounts
    <3>2. total'[k] = total[k] + past[k] /\ imported'[k] = imported[k] + past[k]
      BY <1>2
    <3>3. CountsOf(ticket', Of(k)') = CountsOf(ticket, Of(k))
      BY <2>1, <2>2
    <3>4. CountsOf(ticket, Of(k)) \in Nat
      <4>1. IsFiniteSet(Of(k)) /\ \A t \in Of(k) : ticket[t].count \in Nat
        BY ChargedTyped, FS_Subset DEF ChargedCounts
      <4>2. \A t \in Of(k) : Batches(ticket, Of(k))[t] \in Nat
        BY <4>1 DEF Batches
      <4> QED
        BY <4>1, <4>2, CountsAre, SumTyped
    <3> QED
      BY <2>3, <3>1, <3>2, <3>3, <3>4
  <2>5. UsageComplete'
    <3> SUFFICES ASSUME usage' = "reported"
                 PROVE  imported'["model"] = 0 /\ \A t \in Of("model")' : ticket'[t].settled # "unavailable"
      BY DEF UsageComplete
    <3>1. usage = "reported" /\ ~(past["model"] > 0)
      BY <1>2 DEF RestoredUsage
    <3>2. imported["model"] = 0 /\ past["model"] = 0 /\ "model" \in Kind
      BY <2>3, <3>1 DEF UsageComplete, Kind
    <3> QED
      BY <1>2, <2>1, <2>2, <3>1, <3>2 DEF UsageComplete
  <2> QED
    BY <2>2, <2>4, <2>5 DEF ChargedCounts
<1> QED
  BY <1>1, <1>2 DEF BeginRun

LEMMA AdmitBalances ==
    ASSUME LedgerInv, ChargedCounts, UsageComplete, AdmitRecorded
    PROVE  ChargedCounts' /\ UsageComplete'
<1>a. PICK r \in Run, k \in Kind, n \in Count : r = Req.run /\ k = Req.kind /\ n = Req.count
  BY AdmitFields DEF LedgerInv, AdmitRecorded
<1> DEFINE rec == [run |-> r, kind |-> k, count |-> n, settled |-> "no"]
<1>0. /\ n \in Nat /\ rec \in TicketRecord
      /\ total' = [total EXCEPT ![k] = @ + n]
      /\ ticket' = [ticket EXCEPT ![fresh] = rec]
      /\ UNCHANGED <<imported, usage>>
  BY <1>a, LedgerAssumption DEF AdmitRecorded, Charge, TicketRecord, runVars
<1>1. fresh \in Ticket /\ ticket[fresh] = NoTicket
  BY DEF LedgerInv, ReservationFits, AdmitRecorded, Asked
<1>2. rec.kind = k /\ rec.count = n /\ rec.settled = "no" /\ rec # NoTicket
  BY <1>0, LedgerAssumption
<1> HIDE DEF rec
<1>3. /\ ticket \in [Ticket -> TicketRecord \cup {NoTicket}]
      /\ total \in [Kind -> Nat] /\ imported \in [Kind -> Nat]
  BY DEF LedgerInv, LedgerTypeOK
<1>4. /\ ticket'[fresh] = rec
      /\ \A t \in Ticket \ {fresh} : ticket'[t] = ticket[t]
  BY <1>0, <1>1, <1>3
<1>5. Charged' = Charged \cup {fresh} /\ fresh \notin Charged
  BY <1>1, <1>2, <1>4 DEF Charged
<1>6. IsFiniteSet(Charged')
  BY <1>5, FS_AddElement DEF ChargedCounts
<1>7. Of(k)' = Of(k) \cup {fresh} /\ fresh \notin Of(k)
  BY <1>1, <1>2, <1>4, <1>5 DEF Of, Charged
<1>8. \A j \in Kind : j # k => Of(j)' = Of(j) /\ fresh \notin Of(j)
  BY <1>1, <1>2, <1>4, <1>5 DEF Of, Charged
<1>9. \A j \in Kind : IsFiniteSet(Of(j)) /\ \A t \in Of(j) : t \in Ticket /\ ticket[t].count \in Nat
  BY ChargedTyped, FS_Subset DEF ChargedCounts, LedgerInv
<1>10. ASSUME NEW j \in Kind
       PROVE  total'[j] = imported'[j] + CountsOf(ticket', Of(j)')
  <2>1. total[j] = imported[j] + CountsOf(ticket, Of(j))
    BY DEF ChargedCounts
  <2>2. CASE j = k
    <3>1. CountsOf(ticket', Of(k) \cup {fresh}) = CountsOf(ticket, Of(k)) + n
      <4>1. \A t \in Of(k) : ticket[t].count \in Nat /\ ticket'[t].count = ticket[t].count
        BY <1>4, <1>7, <1>9, <2>2
      <4>2. ticket'[fresh].count \in Nat /\ ticket'[fresh].count = n
        BY <1>0, <1>2, <1>4
      <4>3. IsFiniteSet(Of(k)) /\ fresh \notin Of(k)
        BY <1>7, <1>9
      <4>4. CountsOf(ticket', Of(k) \cup {fresh}) = CountsOf(ticket, Of(k)) + ticket'[fresh].count
        BY ONLY <4>1, <4>2, <4>3, CountsMore
      <4> QED
        BY ONLY <4>2, <4>4
    <3>2. total'[k] = total[k] + n /\ imported'[k] = imported[k]
      BY <1>0, <1>3
    <3>3. CountsOf(ticket, Of(k)) \in Nat
      <4>1. \A t \in Of(k) : Batches(ticket, Of(k))[t] \in Nat
        BY <1>9, <2>2 DEF Batches
      <4> QED
        BY <1>9, <2>2, <4>1, CountsAre, SumTyped
    <3>4. imported[k] \in Nat
      BY <1>0, <1>3
    <3>5. CountsOf(ticket', Of(k)') = CountsOf(ticket', Of(k) \cup {fresh})
      BY <1>7
    <3>6. total[k] = imported[k] + CountsOf(ticket, Of(k)) /\ n \in Nat
      BY <1>0, <2>1, <2>2
    <3>7. total'[k] = imported'[k] + CountsOf(ticket', Of(k)')
      BY ONLY <3>1, <3>2, <3>3, <3>4, <3>5, <3>6
    <3> QED
      BY <2>2, <3>7
  <2>3. CASE j # k
    <3>1. \A t \in Of(j) : ticket[t].count \in Nat /\ ticket'[t].count = ticket[t].count
      BY <1>4, <1>8, <1>9, <2>3
    <3>2. CountsOf(ticket', Of(j)) = CountsOf(ticket, Of(j))
      BY <1>9, <3>1, CountsSame
    <3>3. total'[j] = total[j] /\ imported'[j] = imported[j]
      BY <1>0, <1>3, <2>3
    <3> QED
      BY <1>8, <2>1, <2>3, <3>2, <3>3
  <2> QED
    BY <2>2, <2>3
<1>11. UsageComplete'
  <2> SUFFICES ASSUME usage = "reported", NEW t \in Of("model")' PROVE ticket'[t].settled # "unavailable"
    BY <1>0 DEF UsageComplete
  <2>1. CASE t = fresh
    BY <1>2, <1>4, <2>1
  <2>2. CASE t # fresh
    <3>1. t \in Of("model")
      BY <1>4, <1>5, <2>2 DEF Of, Charged
    <3> QED
      BY <1>4, <2>2, <3>1 DEF UsageComplete, Of, Charged
  <2> QED
    BY <2>1, <2>2
<1> QED
  BY <1>6, <1>10, <1>11 DEF ChargedCounts

LEMMA SettlementBalances ==
    ASSUME LedgerInv, ChargedCounts, UsageComplete, SettleRecorded
    PROVE  ChargedCounts' /\ UsageComplete'
<1> DEFINE u == Req.ticket  settled == [ticket[u] EXCEPT !.settled = Req.usage]
<1>0. /\ u \in Ticket /\ Req.usage \in Usage
      /\ ticket' = [ticket EXCEPT ![u] = settled]
      /\ ticket[u] \in TicketRecord /\ u \in Charged
      /\ UNCHANGED <<total, imported>>
      /\ usage' = IF ticket[u].kind = "model" /\ Req.usage = "unavailable" THEN "unavailable" ELSE usage
  BY SettleFields DEF LedgerInv, LedgerTypeOK, SettleRecorded, Asked, SettlementPending, Owned, runVars, Charged
<1>1. /\ settled \in TicketRecord /\ settled.count = ticket[u].count /\ settled.kind = ticket[u].kind
      /\ settled.settled = Req.usage
  BY <1>0 DEF TicketRecord
<1> HIDE DEF u, settled
<1>2. ticket \in [Ticket -> TicketRecord \cup {NoTicket}]
  BY DEF LedgerInv, LedgerTypeOK
<1>3. /\ ticket'[u] = settled
      /\ \A t \in Ticket \ {u} : ticket'[t] = ticket[t]
  BY <1>0, <1>2
<1>4. \A t \in Ticket : /\ ticket'[t] # NoTicket <=> ticket[t] # NoTicket
                        /\ ticket[t] # NoTicket => /\ ticket'[t].count = ticket[t].count
                                               /\ ticket'[t].kind = ticket[t].kind
  BY <1>0, <1>1, <1>3, LedgerAssumption
<1>5. Charged' = Charged /\ \A k : Of(k)' = Of(k)
  BY <1>4 DEF Charged, Of
<1>6. ASSUME NEW k \in Kind
      PROVE  CountsOf(ticket', Of(k)) = CountsOf(ticket, Of(k))
  <2>1. IsFiniteSet(Of(k)) /\ \A t \in Of(k) : ticket[t].count \in Nat
    BY ChargedTyped, FS_Subset DEF ChargedCounts, LedgerInv
  <2>2. \A t \in Of(k) : ticket'[t].count = ticket[t].count
    BY <1>4 DEF Of, Charged
  <2> QED
    BY <2>1, <2>2, CountsSame
<1>7. ChargedCounts'
  BY <1>0, <1>5, <1>6 DEF ChargedCounts
<1>8. UsageComplete'
  <2> SUFFICES ASSUME usage' = "reported"
               PROVE  imported'["model"] = 0 /\ \A t \in Of("model")' : ticket'[t].settled # "unavailable"
    BY DEF UsageComplete
  <2>1. usage = "reported" /\ ~(ticket[u].kind = "model" /\ Req.usage = "unavailable")
    BY <1>0
  <2>2. imported["model"] = 0 /\ \A t \in Of("model") : ticket[t].settled # "unavailable"
    BY <2>1 DEF UsageComplete
  <2>3. ASSUME NEW t \in Of("model") PROVE ticket'[t].settled # "unavailable"
    <3>1. CASE t = u
      BY <1>1, <1>3, <2>1, <3>1 DEF Of
    <3>2. CASE t # u
      BY <1>3, <2>2, <3>2 DEF Of, Charged
    <3> QED
      BY <3>1, <3>2
  <2> QED
    BY <1>0, <1>5, <2>2, <2>3
<1> QED
  BY <1>7, <1>8

LEMMA NextBalances == LedgerInv /\ ChargedCounts /\ UsageComplete /\ [LedgerNext]_ledgerVars => ChargedCounts' /\ UsageComplete'
<1> SUFFICES ASSUME LedgerInv, ChargedCounts, UsageComplete, [LedgerNext]_ledgerVars PROVE ChargedCounts' /\ UsageComplete'
  OBVIOUS
<1>1. ASSUME NEW r \in Run, NEW l \in Limits, NEW c \in Restorable, BeginRun(r, l, c)
      PROVE  ChargedCounts' /\ UsageComplete'
  BY <1>1, BeginBalances DEF LedgerInv
<1>2. CASE AdmitRecorded
  BY <1>2, AdmitBalances
<1>3. CASE SettleRecorded
  BY <1>3, SettlementBalances
<1>4. CASE \/ \E r \in Run : BeginRecorded(r)
           \/ \E r \in Run, k \in Kind, n \in Count : Admit(r, k, n)
           \/ \E r \in Run, t \in Ticket, u \in Usage : SettleTicket(r, t, u)
           \/ AdmitRefused \/ AdmitChecked \/ AdmitUnrecorded
           \/ SettleIgnored \/ SettleChecked \/ SettleUnrecorded
           \/ Stop \/ UNCHANGED ledgerVars
  <2>1. UNCHANGED <<total, imported, ticket, usage>>
    BY <1>4 DEF BeginRecorded, Admit, SettleTicket, Enqueue, AdmitRefused, AdmitChecked, AdmitUnrecorded,
                SettleIgnored, SettleChecked, SettleUnrecorded, Stop, ledgerVars, runVars, account
  <2> QED
    BY <2>1, BalanceStays
<1> QED
  BY <1>1, <1>2, <1>3, <1>4 DEF LedgerNext, Step

LEMMA Balanced == LedgerTypeOK /\ ChargedCounts /\ UsageComplete => AccountsBalance
<1> SUFFICES ASSUME LedgerTypeOK, ChargedCounts, UsageComplete PROVE AccountsBalance
  OBVIOUS
<1>1. \A k \in Kind : total[k] = imported[k] + Sum(Of(k))
  BY DEF ChargedCounts, CountsOf, Sum
<1>2. UsageNeverUnderstated
  <2> SUFFICES ASSUME SnapshotUsage = "reported"
               PROVE  imported["model"] = 0 /\ \A t \in Of("model") : ticket[t].settled = "reported"
    BY DEF UsageNeverUnderstated
  <2>1. usage = "reported" /\ \A t \in Of("model") : ticket[t].settled # "no"
    BY DEF SnapshotUsage, Of, Charged
  <2>2. \A t \in Of("model") : ticket[t].settled \in Usage \cup {"no"}
    BY ChargedTyped DEF TicketRecord, Kind
  <2> QED
    BY <2>1, <2>2 DEF UsageComplete, Usage
<1> QED
  BY <1>1, <1>2 DEF AccountsBalance

\* The enclosing counts are what was restored plus every ticket's batch, and a
\* usage reported as complete is: whatever failed, was settled twice or was
\* stopped in between.
THEOREM AccountsAlwaysBalance == LedgerSpec => []AccountsBalance
<1>1. LedgerInit => ChargedCounts /\ UsageComplete
  BY BalanceBegins
<1>2. LedgerInv /\ ChargedCounts /\ UsageComplete /\ [LedgerNext]_ledgerVars => ChargedCounts' /\ UsageComplete'
  BY NextBalances
<1>3. LedgerInv /\ ChargedCounts /\ UsageComplete => AccountsBalance
  BY Balanced DEF LedgerInv
<1> QED
  BY <1>1, <1>2, <1>3, LedgerInvariance, PTL DEF LedgerSpec

-----------------------------------------------------------------------------
(* The Docker sandbox: the inductive invariant.                            *)

\* Every step of the worker, by the operation it belongs to.
TaskSteps == Preparing \cup
    {"new", "binding", "ready", "calling", "polling", "settled", "ended", "failed", "gone", "dead"}
StopSteps == {"stop"} \cup Stops
VerifySteps == {"verifierCreate", "verifierStart", "verifying", "verified"}
ReaderSteps == {"readerCreate", "readerMade"}
ExportSteps == Exports \cup {"export"}
CleanupSteps == {"cleanup", "dropVerifiers", "dropBox", "dropVolume", "dropped"}

\* What a thread has still to do after the operation it is in, by its step.
Rests(t, step) ==
    CASE t = "task" ->
            IF step \in StopSteps
            THEN {<<"gone">>, <<"stop", "ended">>, <<"ended">>, <<"ready">>, <<"settled">>, <<"failed">>}
            ELSE IF step \in TaskSteps THEN {<<>>} ELSE {}
      [] t = "cancel" ->
            IF step \in StopSteps \cup {"off", "end", "failed", "dead"} THEN {<<>>} ELSE {}
      [] t = "runner" ->
            CASE step \in {"waiting", "frozen", "end", "failed", "dead", "verify"} -> {<<>>}
              [] step = "load" -> {<<"stop", "stop", "export", "frozen">>, <<"stop", "verify">>}
              [] step \in StopSteps -> {<<"stop", "export", "frozen">>, <<"export", "frozen">>, <<"verify">>}
              [] step \in ExportSteps -> {<<"frozen">>}
              [] step \in ReaderSteps -> {<<"copyOut", "frozen">>}
              [] step = "exportFailed" -> {<<"frozen">>, <<"copyOut", "frozen">>}
              [] step \in VerifySteps -> {<<"wasArchived">>, <<"wasStopped">>}
              [] OTHER -> {}
      [] t = "helper" ->
            CASE step \in {"off", "end", "failed", "verify"} \cup CleanupSteps -> {<<>>}
              [] step = "load" ->
                    {<<"stop">>, <<"stop", "remove", "reader", "choose", "stop", "export", "cleanup">>,
                     <<"stop", "remove", "reader">>, <<"stop", "export">>, <<"stop", "verify">>, <<"cleanup">>}
              [] step \in StopSteps ->
                    {<<>>, <<"remove", "reader", "choose", "stop", "export", "cleanup">>, <<"remove", "reader">>,
                     <<"export">>, <<"verify">>, <<"export", "cleanup">>}
              [] step = "remove" -> {<<"reader", "choose", "stop", "export", "cleanup">>, <<"reader">>}
              [] step = "reader" -> {<<>>, <<"choose", "stop", "export", "cleanup">>}
              [] step \in ReaderSteps ->
                    {<<>>, <<"choose", "stop", "export", "cleanup">>, <<"copyOut">>, <<"copyOut", "cleanup">>}
              [] step = "choose" -> {<<"stop", "export", "cleanup">>}
              [] step \in ExportSteps -> {<<>>, <<"cleanup">>}
              [] step = "exportFailed" -> {<<>>, <<"cleanup">>, <<"copyOut">>, <<"copyOut", "cleanup">>}
              [] step \in VerifySteps -> {<<"wasArchived">>, <<"wasStopped">>}
              [] OTHER -> {}

\* Every thread is where what it has still to do allows.
Placed ==
    /\ at \in [Thread -> Place] /\ DOMAIN todo = Thread
    /\ \A t \in Thread : todo[t] \in Rests(t, at[t])

\* The worker records no archive, reader or verifier of its own.
WorkerState == [phase : {"prepared", "running", "stopping", "stopped"}, id : {"main", Nothing},
                verifier : {FALSE}, path : {Nothing}, hash : {Nothing}]

\* What SandboxTypeOK says of the data.
Typed ==
    /\ file \in State \cup {Nothing}
    /\ copy \in [{"worker", "runner", "helper"} -> State]
    /\ copy["worker"] \in WorkerState
    /\ out \in Destination \cup {Nothing}
    /\ docker \in Daemon
    /\ kept \in [Destination -> Content \cup {Nothing}]
    /\ live \subseteq {"worker", "controller"}
    /\ halt \in {"no", "called", "confirmed", "unconfirmed"}
    /\ cancelled \in BOOLEAN /\ admission \in BOOLEAN

\* The helper does no more than a stop.
StopsOnly ==
    /\ at["helper"] \in {"off", "load", "end", "failed"} \cup StopSteps
    /\ todo["helper"] = IF at["helper"] = "load" THEN <<"stop">> ELSE <<>>

\* Who is alive and works.
Living ==
    /\ "worker" \in live <=> at["cancel"] # "dead"
    /\ "worker" \notin live => at["task"] \in {"settled", "ended", "dead"}
    /\ at["task"] = "dead" => "worker" \notin live
    /\ "controller" \in live <=> at["runner"] # "dead"
    /\ at["runner"] \notin {"waiting", "dead"} => at["task"] \in {"settled", "ended"}
    /\ at["runner"] \notin {"waiting", "dead", "end"} => at["task"] = "settled"
    /\ halt = "no" => at["helper"] = "off" \/ "controller" \notin live
    /\ "controller" \in live \/ ("worker" \in live /\ halt # "unconfirmed") => StopsOnly
    /\ at["task"] \in Preparing \cup {"new"} => at["cancel"] \in {"off", "dead"}

\* While calls are admitted the task is in its loop; before the first record
\* there is no container.
Admitted ==
    /\ admission =>
          /\ "worker" \in live /\ copy["worker"].phase = "running" /\ at["cancel"] = "off"
          /\ at["task"] \in {"binding", "ready", "calling", "polling"}
          /\ cancelled => at["task"] = "binding"
    /\ file = Nothing =>
          /\ at["task"] \in {"new", "dead"} /\ docker.box = "absent"
          /\ at["helper"] \in {"off", "load", "end", "failed"}

\* A container has its volume, and a task that has ended left none running.
Mounted ==
    /\ docker.shell => docker.box = "running"
    /\ docker.box # "absent" \/ docker.verifier # "absent" => docker.volume
    /\ at["task"] \in {"settled", "ended"} => docker.box # "running"
    /\ at["runner"] = "verifierCreate" \/ at["helper"] = "verifierCreate" => docker.volume

\* No command will write to the workspace any more.
Quiet ==
    /\ ~docker.shell
    /\ at["task"] = "settled" \/ "controller" \notin live
    /\ at["task"] = "calling" => docker.box # "running"

\* A record with a hash tells of the workspace as it is and stays.
Truthful(state) ==
    /\ state.hash # Nothing => Quiet /\ state.hash = docker.content
    /\ state.phase = "archived" => state.hash # Nothing

\* All records are truthful, and every archive holds the work.
Hashes ==
    /\ file # Nothing => Truthful(file)
    /\ Truthful(copy["runner"]) /\ Truthful(copy["helper"])
    /\ \A d \in Destination : kept[d] # Nothing => Quiet /\ kept[d] = docker.content

\* The volume goes only when its work is kept.
Dropping ==
    /\ at["helper"] \in CleanupSteps \ {"cleanup"} => \E d \in Destination : kept[d] # Nothing
    /\ ~docker.volume => docker.content = 0 \/ \E d \in Destination : kept[d] # Nothing

\* The runner verifies only a candidate it froze.
Candidate ==
    /\ at["runner"] \in {"frozen", "verify"} \cup VerifySteps \/ todo["runner"] \in {<<"stop", "verify">>, <<"verify">>}
          => kept["candidate"] # Nothing
    /\ at["runner"] \in Exports \cup ReaderSteps => copy["runner"].path = "candidate"
    /\ "controller" \in live =>
          /\ file # Nothing => file.phase # "cleaned"
          /\ copy["runner"].phase # "cleaned" /\ copy["helper"].phase # "cleaned"

\* The phase the helper recorded last is the one of the operation it is in.
PhaseOf ==
    /\ at["helper"] \in Stops => copy["helper"].phase = "stopping"
    /\ at["helper"] \in Exports \cup {"exportFailed"} => copy["helper"].phase = "exporting"
    /\ at["helper"] \in VerifySteps => copy["helper"].phase = "verifying"
    /\ at["helper"] \in ReaderSteps =>
          /\ copy["helper"].phase # "cleaned"
          /\ todo["helper"] \in {<<"copyOut">>, <<"copyOut", "cleanup">>} => copy["helper"].phase = "exporting"

\* Nothing of the sandbox is left.
Nought == docker.box = "absent" /\ docker.verifier = "absent" /\ ~docker.volume

\* A cleaned sandbox is gone, nobody works in it, and nobody else's record
\* will bring it back.
CleanInv ==
    halt # "unconfirmed" =>
        /\ file # Nothing /\ file.phase = "cleaned" =>
              /\ live = {} /\ Nought
              /\ ~HelperIdle /\ at["helper"] # "load" => copy["helper"] = file
        /\ copy["helper"].phase = "cleaned" => file = copy["helper"]
        /\ at["helper"] = "dropped" => Nought

\* A reader has been created or is known.
ReaderThere ==
    \/ file # Nothing /\ file.id = "reader"
    \/ \E h \in {"runner", "helper"} : copy[h].id = "reader" \/ at[h] = "readerMade"

\* Once there is a reader, only it can be in the box, and the task has ended.
Readers ==
    halt # "unconfirmed" /\ ReaderThere
        => docker.box \in {"absent", "reader"} /\ at["task"] \in {"settled", "ended", "dead"}

\* A command runs, or may yet be started.
Potential == docker.shell \/ (at["task"] = "calling" /\ docker.box = "running")

\* A stop whose helper has ended has left nothing that can write.
Halting ==
    /\ halt = "called" /\ "controller" \in live /\ Potential => at["helper"] \in {"load", "failed"} \cup StopSteps
    /\ halt = "confirmed" => "worker" \notin live /\ ~docker.shell

-----------------------------------------------------------------------------
(* What a thread has still to do, and how a step takes it up.              *)

\* The next step of an operation leaves the rest as it is.
Follows ==
    {<<"stop", "stopVerifiers">>, <<"stopVerifiers", "stopBox">>, <<"stopBox", "confirm">>,
     <<"verifierCreate", "verifierStart">>, <<"verifierCreate", "verified">>, <<"verifierStart", "verifying">>,
     <<"verifierStart", "verified">>, <<"verifying", "verified">>,
     <<"export", "look">>, <<"look", "copyOut">>, <<"copyOut", "commit">>, <<"commit", "committed">>,
     <<"readerCreate", "readerMade">>,
     <<"cleanup", "dropVerifiers">>, <<"dropVerifiers", "dropBox">>, <<"dropBox", "dropVolume">>,
     <<"dropVolume", "dropped">>}

\* The steps at which an operation may return to what the thread has still to do.
Returning == {"stop", "confirm", "load", "remove", "reader", "readerMade", "export", "look", "committed", "dropped"}

LEMMA Following ==
    ASSUME NEW t \in Thread, NEW step, NEW next, <<step, next>> \in Follows, NEW rest \in Rests(t, step)
    PROVE  rest \in Rests(t, next)
<1> USE DEF Follows, Rests, StopSteps, Stops, TaskSteps, Preparing, VerifySteps, ReaderSteps, ExportSteps, Exports,
         CleanupSteps
<1>1. CASE t = "task"
  BY <1>1
<1>2. CASE t = "cancel"
  BY <1>2
<1>3. CASE t = "runner"
  BY <1>3
<1>4. CASE t = "helper"
  BY <1>4
<1> QED
  BY <1>1, <1>2, <1>3, <1>4 DEF Thread

LEMMA Failing ==
    ASSUME NEW t \in Thread, NEW step, NEW rest \in Rests(t, step),
           step \in Exports \/ (step \in Throwing /\ "copyOut" \in Range(rest))
    PROVE  rest \in Rests(t, "exportFailed")
<1> USE DEF Rests, StopSteps, Stops, TaskSteps, Preparing, VerifySteps, ReaderSteps, ExportSteps, Exports,
         CleanupSteps, Throwing, Range
<1>1. CASE t = "task"
  BY <1>1
<1>2. CASE t = "cancel"
  BY <1>2
<1>3. CASE t = "runner"
  BY <1>3
<1>4. CASE t = "helper"
  BY <1>4
<1> QED
  BY <1>1, <1>2, <1>3, <1>4 DEF Thread

\* What a rest begins with and what remains of it.
Reads(rest, first, others) == rest # <<>> /\ Head(rest) = first /\ Tail(rest) = others

LEMMA TaskReads ==
    /\ Reads(<<"gone">>, "gone", <<>>)
    /\ Reads(<<"stop", "ended">>, "stop", <<"ended">>)
    /\ Reads(<<"ended">>, "ended", <<>>)
    /\ Reads(<<"ready">>, "ready", <<>>)
    /\ Reads(<<"settled">>, "settled", <<>>)
    /\ Reads(<<"failed">>, "failed", <<>>)
BY DEF Reads

LEMMA RunnerReads ==
    /\ Reads(<<"stop", "stop", "export", "frozen">>, "stop", <<"stop", "export", "frozen">>)
    /\ Reads(<<"stop", "export", "frozen">>, "stop", <<"export", "frozen">>)
    /\ Reads(<<"export", "frozen">>, "export", <<"frozen">>)
    /\ Reads(<<"frozen">>, "frozen", <<>>)
    /\ Reads(<<"stop", "verify">>, "stop", <<"verify">>)
    /\ Reads(<<"verify">>, "verify", <<>>)
    /\ Reads(<<"copyOut", "frozen">>, "copyOut", <<"frozen">>)
BY DEF Reads

LEMMA LoadReads ==
    /\ Reads(<<"stop">>, "stop", <<>>)
    /\ Reads(<<"stop", "remove", "reader", "choose", "stop", "export", "cleanup">>, "stop", <<"remove", "reader", "choose", "stop", "export", "cleanup">>)
    /\ Reads(<<"stop", "remove", "reader">>, "stop", <<"remove", "reader">>)
    /\ Reads(<<"stop", "export">>, "stop", <<"export">>)
    /\ Reads(<<"stop", "verify">>, "stop", <<"verify">>)
    /\ Reads(<<"cleanup">>, "cleanup", <<>>)
BY DEF Reads

LEMMA StopReads ==
    /\ Reads(<<"remove", "reader", "choose", "stop", "export", "cleanup">>, "remove", <<"reader", "choose", "stop", "export", "cleanup">>)
    /\ Reads(<<"remove", "reader">>, "remove", <<"reader">>)
    /\ Reads(<<"export">>, "export", <<>>)
    /\ Reads(<<"verify">>, "verify", <<>>)
    /\ Reads(<<"export", "cleanup">>, "export", <<"cleanup">>)
BY DEF Reads

LEMMA HelperReads ==
    /\ Reads(<<"reader", "choose", "stop", "export", "cleanup">>, "reader", <<"choose", "stop", "export", "cleanup">>)
    /\ Reads(<<"choose", "stop", "export", "cleanup">>, "choose", <<"stop", "export", "cleanup">>)
    /\ Reads(<<"stop", "export", "cleanup">>, "stop", <<"export", "cleanup">>)
    /\ Reads(<<"cleanup">>, "cleanup", <<>>)
    /\ Reads(<<"reader">>, "reader", <<>>)
    /\ Reads(<<"copyOut">>, "copyOut", <<>>)
    /\ Reads(<<"copyOut", "cleanup">>, "copyOut", <<"cleanup">>)
BY DEF Reads

LEMMA ReturningTo ==
    ASSUME NEW t \in Thread, NEW step \in Returning, NEW rest \in Rests(t, step)
    PROVE  /\ rest = <<>> => <<>> \in Rests(t, "end")
           /\ rest # <<>> => Head(rest) \in Place /\ Tail(rest) \in Rests(t, Head(rest))
<1>1. rest = <<>> => <<>> \in Rests(t, "end")
  BY DEF Returning, Rests, StopSteps, Stops, TaskSteps, Preparing, VerifySteps, ReaderSteps, ExportSteps,
           Exports, CleanupSteps, Thread, Reads
<1>2. ASSUME rest # <<>>
      PROVE  Head(rest) \in Place /\ Tail(rest) \in Rests(t, Head(rest))
  <2> DEFINE first == Head(rest)
             others == Tail(rest)
  <2>0. Reads(rest, first, others)
    BY <1>2 DEF Reads
  <2>9. \A r, a, o : Reads(rest, a, o) => first = a /\ others = o
    BY DEF Reads
  <2> HIDE DEF first, others
  <2> SUFFICES first \in Place /\ others \in Rests(t, first)
    BY DEF first, others
  <2> USE <1>2, <2>9 DEF Returning, Rests, StopSteps, Stops, TaskSteps, Preparing, VerifySteps, ReaderSteps, ExportSteps,
           Exports, CleanupSteps, Place, Throwing
  <2>1. CASE t = "task"
    BY <2>1, TaskReads
  <2>2. CASE t = "cancel"
    BY <2>2
  <2>3. CASE t = "runner"
    BY <2>3, RunnerReads
  <2>4. CASE t = "helper"
    <3>1. CASE step = "load"
      BY <2>4, <3>1, LoadReads
    <3>2. CASE step \in {"stop", "confirm"}
      BY <2>4, <3>2, StopReads
    <3>3. CASE step \in {"remove", "reader", "readerMade"}
      BY <2>4, <3>3, HelperReads
    <3>4. CASE step \in {"export", "look", "committed", "dropped"}
      BY <2>4, <3>4, HelperReads
    <3> QED
      BY <3>1, <3>2, <3>3, <3>4
  <2> QED
    BY <2>1, <2>2, <2>3, <2>4 DEF Thread
<1> QED
  BY <1>1, <1>2

LEMMA ThrowingTo ==
    ASSUME NEW t \in Thread, NEW step, NEW rest \in Rests(t, step)
    PROVE  /\ t # "task" => <<>> \in Rests(t, "failed")
           /\ <<>> \in Rests("task", "failed") /\ <<"failed">> \in Rests("task", "stop")
           /\ t = "task" /\ step \in StopSteps /\ rest \notin {<<"settled">>, <<"ended">>, <<"failed">>} /\ Len(rest) # 2
                => Head(rest) \in {"gone", "ready"} /\ Tail(rest) \in Rests("task", Head(rest))
<1>1. t = "task" /\ step \in StopSteps /\ rest \notin {<<"settled">>, <<"ended">>, <<"failed">>} /\ Len(rest) # 2
      => rest \in {<<"gone">>, <<"ready">>}
  BY DEF Rests
<1>2. Head(<<"gone">>) = "gone" /\ Tail(<<"gone">>) = <<>> /\ Head(<<"ready">>) = "ready" /\ Tail(<<"ready">>) = <<>>
  OBVIOUS
<1>3. <<>> \in Rests("task", "gone") /\ <<>> \in Rests("task", "ready")
  BY DEF Rests, StopSteps, Stops, TaskSteps, Preparing
<1>4. t # "task" => <<>> \in Rests(t, "failed")
  BY DEF Rests, Thread, StopSteps, Stops, VerifySteps, CleanupSteps, ReaderSteps, ExportSteps, Exports
<1>5. <<>> \in Rests("task", "failed") /\ <<"failed">> \in Rests("task", "stop")
  BY DEF Rests, StopSteps, Stops, TaskSteps, Preparing
<1> QED
  BY <1>1, <1>2, <1>3, <1>4, <1>5

-----------------------------------------------------------------------------
(* How a thread moves.                                                     *)

\* No other thread moves.
Only(t) == \A u \in Thread \ {t} : at'[u] = at[u] /\ todo'[u] = todo[u]

\* Where a step of an operation leads.
Moves(t) ==
    \/ <<at[t], at'[t]>> \in Follows /\ todo'[t] = todo[t]
    \/ at[t] \in Returning \cup {"verified"} /\ at'[t] = "end" /\ todo'[t] = <<>>
    \/ at[t] \in Returning /\ todo[t] # <<>> /\ at'[t] = Head(todo[t]) /\ todo'[t] = Tail(todo[t])
    \/ at[t] \in Throwing \cup {"stopBox", "confirm", "exportFailed"} /\ at'[t] = "failed" /\ todo'[t] = <<>>
    \/ t = "task" /\ at[t] \in StopSteps /\ at'[t] = "stop" /\ todo'[t] = <<"failed">>
    \/ t = "task" /\ at[t] \in StopSteps /\ at'[t] \in {"gone", "ready"} /\ todo'[t] = <<>>
    \/ at[t] \in Exports \cup ReaderSteps /\ at'[t] = "exportFailed" /\ todo'[t] = todo[t]
    \/ at[t] = "verify" /\ at'[t] = "verifierCreate" /\ todo'[t] \in {<<"wasArchived">>, <<"wasStopped">>}
    \/ at[t] \in {"reader", "copyOut"} /\ at'[t] = "readerCreate"

LEMMA Performs ==
    ASSUME Placed, NEW t \in Thread, NEW operations, Perform(t, operations),
           Head(operations) \in Place, Tail(operations) \in Rests(t, Head(operations))
    PROVE  Placed' /\ Only(t) /\ out' = out /\ at'[t] = Head(operations) /\ todo'[t] = Tail(operations)
BY DEF Perform, Placed, Only

LEMMA GoesOn ==
    ASSUME Placed, NEW t \in Thread, NEW step, Goto(t, step), step \notin {"return", "throw"}, step \in Place,
           todo[t] \in Rests(t, step)
    PROVE  Placed' /\ Only(t) /\ out' = out /\ at'[t] = step /\ todo'[t] = todo[t]
BY DEF Goto, Placed, Only

LEMMA GoesNext ==
    ASSUME Placed, NEW t \in Thread, NEW step, Goto(t, step), <<at[t], step>> \in Follows
    PROVE  Placed' /\ Only(t) /\ out' = out /\ at'[t] = step /\ todo'[t] = todo[t] /\ Moves(t)
<1>1. step \notin {"return", "throw"} /\ step \in Place
  BY DEF Follows, Place, Stops, Throwing, Exports
<1>2. todo[t] \in Rests(t, step)
  BY Following DEF Placed
<1> QED
  BY <1>1, <1>2, GoesOn DEF Moves

LEMMA GoesFailing ==
    ASSUME Placed, NEW t \in Thread, Goto(t, "exportFailed"),
           at[t] \in Exports \/ (at[t] \in ReaderSteps /\ "copyOut" \in Range(todo[t]))
    PROVE  Placed' /\ Only(t) /\ out' = out /\ at'[t] = "exportFailed" /\ todo'[t] = todo[t] /\ Moves(t)
<1>0. at[t] \in Exports \/ (at[t] \in Throwing /\ "copyOut" \in Range(todo[t]))
  BY DEF ReaderSteps, Throwing
<1>1. todo[t] \in Rests(t, "exportFailed")
  BY <1>0, Failing DEF Placed
<1> QED
  BY <1>1, GoesOn DEF Place, Moves

LEMMA GoesBack ==
    ASSUME Placed, NEW t \in Thread, Goto(t, "return"), at[t] \in Returning
    PROVE  /\ Placed' /\ Only(t) /\ out' = out /\ Moves(t)
           /\ \/ todo[t] = <<>> /\ at'[t] = "end" /\ todo'[t] = <<>>
              \/ todo[t] # <<>> /\ at'[t] = Head(todo[t]) /\ todo'[t] = Tail(todo[t])
<1>1. CASE todo[t] = <<>>
  <2>1. Perform(t, <<"end">>)
    BY <1>1 DEF Goto
  <2>2. Head(<<"end">>) = "end" /\ Tail(<<"end">>) = <<>> /\ "end" \in Place
    BY DEF Place
  <2>3. <<>> \in Rests(t, "end")
    BY <1>1, ReturningTo DEF Placed
  <2> QED
    BY <1>1, <2>1, <2>2, <2>3, Performs DEF Moves
<1>2. CASE todo[t] # <<>>
  <2>1. Perform(t, todo[t])
    BY <1>2 DEF Goto
  <2>2. Head(todo[t]) \in Place /\ Tail(todo[t]) \in Rests(t, Head(todo[t]))
    BY <1>2, ReturningTo DEF Placed
  <2> QED
    BY <1>2, <2>1, <2>2, Performs DEF Moves
<1> QED
  BY <1>1, <1>2

LEMMA Throws ==
    ASSUME Placed, NEW t \in Thread, Goto(t, "throw"), t = "task" => at[t] \in StopSteps,
           at[t] \in Throwing \cup {"stopBox", "confirm", "exportFailed"}
    PROVE  /\ Placed' /\ Only(t) /\ out' = out /\ Moves(t)
           /\ \/ at'[t] = "failed" /\ todo'[t] = <<>>
              \/ t = "task" /\ at'[t] = "stop" /\ todo'[t] = <<"failed">>
              \/ t = "task" /\ at'[t] \in {"gone", "ready"} /\ todo'[t] = <<>>
<1>1. todo[t] \in Rests(t, at[t])
  BY DEF Placed
<1>2. Head(<<"failed">>) = "failed" /\ Tail(<<"failed">>) = <<>> /\ {"failed", "stop", "gone", "ready"} \subseteq Place
  BY DEF Place, Throwing
<1>3. Head(<<"stop", "failed">>) = "stop" /\ Tail(<<"stop", "failed">>) = <<"failed">>
  OBVIOUS
<1>4. CASE t # "task" \/ todo[t] \in {<<"settled">>, <<"ended">>, <<"failed">>}
  <2>1. Perform(t, <<"failed">>)
    BY <1>4 DEF Goto
  <2>2. <<>> \in Rests(t, "failed")
    BY <1>1, ThrowingTo
  <2> QED
    BY <1>2, <2>1, <2>2, Performs DEF Moves
<1>5. CASE t = "task" /\ todo[t] \notin {<<"settled">>, <<"ended">>, <<"failed">>} /\ Len(todo[t]) = 2
  <2>1. Perform(t, <<"stop", "failed">>)
    BY <1>5 DEF Goto
  <2>2. <<"failed">> \in Rests(t, "stop")
    BY <1>1, <1>5, ThrowingTo
  <2> QED
    BY <1>2, <1>3, <1>5, <2>1, <2>2, Performs DEF Moves
<1>6. CASE t = "task" /\ todo[t] \notin {<<"settled">>, <<"ended">>, <<"failed">>} /\ Len(todo[t]) # 2
  <2>1. Perform(t, todo[t])
    BY <1>6 DEF Goto
  <2>2. Head(todo[t]) \in {"gone", "ready"} /\ Tail(todo[t]) \in Rests(t, Head(todo[t]))
    BY <1>1, <1>6, ThrowingTo
  <2>3. \A step \in {"gone", "ready"} : Rests("task", step) = {<<>>}
    BY DEF Rests, TaskSteps, StopSteps, Stops, Preparing
  <2> QED
    BY <1>2, <1>6, <2>1, <2>2, <2>3, Performs DEF Moves
<1> QED
  BY <1>4, <1>5, <1>6

-----------------------------------------------------------------------------
(* The steps of an operation, one lemma for each operation.                *)

\* What every step of an operation leaves alone.
Keeps(t) ==
    /\ Moves(t)
    /\ Placed' /\ Only(t) /\ out' = out
    /\ UNCHANGED execution
    /\ \A h \in {"worker", "runner", "helper"} \ {Holder(t)} : copy'[h] = copy[h]

LEMMA StopKeeps ==
    ASSUME Placed, Typed, NEW t \in Thread,
           StopIntent(t) \/ VerifiersStopped(t) \/ BoxStopped(t) \/ StopConfirmed(t) \/ StopFails(t)
    PROVE  Keeps(t)
<1> USE DEF Keeps, Records, Asks, Goes, Record, NoRecord, execution, world
<1>1. CASE StopIntent(t)
  <2>1. CASE Goto(t, "return") /\ at[t] = "stop"
    BY <1>1, <2>1, GoesBack DEF StopIntent, Returning, Typed
  <2>2. CASE Goto(t, "stopVerifiers") /\ at[t] = "stop"
    BY <1>1, <2>2, GoesNext DEF StopIntent, Follows, Typed
  <2> QED
    BY <1>1, <2>1, <2>2 DEF StopIntent
<1>2. CASE VerifiersStopped(t)
  BY <1>2, GoesNext DEF VerifiersStopped, Follows
<1>3. CASE BoxStopped(t)
  BY <1>3, GoesNext DEF BoxStopped, Follows
<1>4. CASE StopConfirmed(t)
  BY <1>4, GoesBack DEF StopConfirmed, Returning, Typed
<1>5. CASE StopFails(t)
  <2>1. Goto(t, "throw") /\ at[t] \in StopSteps
    BY <1>5 DEF StopFails, StopSteps, Stops
  <2> QED
    BY <1>5, <2>1, Throws DEF StopFails, Typed
<1> QED
  BY <1>1, <1>2, <1>3, <1>4, <1>5

LEMMA FailKeeps ==
    ASSUME Placed, Typed, NEW t \in Thread, Fails(t)
    PROVE  /\ Keeps(t) /\ NoRecord /\ UNCHANGED world
           /\ at[t] \in Throwing
           /\ \/ at'[t] = "exportFailed" /\ todo'[t] = todo[t]
                 /\ (at[t] \in Exports \/ (at[t] \in ReaderSteps /\ "copyOut" \in Range(todo[t])))
              \/ at'[t] = "failed" /\ todo'[t] = <<>>
              \/ t = "task" /\ at'[t] = "stop" /\ todo'[t] = <<"failed">>
              \/ t = "task" /\ at'[t] \in {"gone", "ready"} /\ todo'[t] = <<>>
<1> USE DEF Keeps, Record, NoRecord, execution, world
<1>1. PICK step \in Throwing : Goes(t, step, IF step \in Exports \/ "copyOut" \in Range(todo[t]) THEN "exportFailed" ELSE "throw")
  BY DEF Fails
<1>2. step \in Throwing /\ at[t] = step /\ todo[t] \in Rests(t, step) /\ NoRecord /\ UNCHANGED world
  BY <1>1 DEF Goes, Placed
<1>3. CASE step \in Exports \/ "copyOut" \in Range(todo[t])
  <2>1. Goto(t, "exportFailed")
    BY <1>1, <1>3 DEF Goes
  <2>2. step \in Exports \/ (step \in ReaderSteps /\ "copyOut" \in Range(todo[t]))
    BY <1>2, <1>3 DEF Rests, StopSteps, Stops, TaskSteps, Preparing, VerifySteps, ReaderSteps, ExportSteps, Exports,
         CleanupSteps, Throwing, Range, Thread
  <2>3. Placed' /\ Only(t) /\ out' = out /\ at'[t] = "exportFailed" /\ todo'[t] = todo[t] /\ Moves(t)
    BY <1>2, <1>3, <2>1, <2>2, GoesFailing
  <2> QED
    BY <1>2, <1>3, <2>2, <2>3
<1>4. CASE ~(step \in Exports \/ "copyOut" \in Range(todo[t]))
  <2>1. Goto(t, "throw")
    BY <1>1, <1>4 DEF Goes
  <2>2. t = "task" => at[t] \in StopSteps
    BY <1>2 DEF Rests, TaskSteps, Preparing, Throwing, Exports
  <2> QED
    BY <1>2, <2>1, <2>2, Throws
<1> QED
  BY <1>3, <1>4

LEMMA LoadKeeps ==
    ASSUME Placed, Typed, NEW t \in Thread, Load(t)
    PROVE  Keeps(t)
<1> USE DEF Keeps, execution, world
<1>1. CASE file = Nothing
  <2>1. Perform(t, <<"end">>) /\ UNCHANGED copy
    BY <1>1 DEF Load
  <2>2. Head(<<"end">>) = "end" /\ Tail(<<"end">>) = <<>> /\ "end" \in Place
    BY DEF Place
  <2>3. <<>> \in Rests(t, "end")
    <3>1. todo[t] \in Rests(t, "load")
      BY DEF Load, Placed
    <3> QED
      BY <3>1 DEF Rests, Thread, TaskSteps, Preparing, StopSteps, Stops, CleanupSteps, ExportSteps, Exports, VerifySteps,
         ReaderSteps
  <2>4. Placed' /\ Only(t) /\ out' = out /\ Moves(t)
    BY <2>1, <2>2, <2>3, Performs DEF Load, Moves, Returning
  <2> QED
    BY <2>1, <2>4 DEF Load
<1>2. CASE file # Nothing
  BY <1>2, GoesBack DEF Load, Returning, Typed
<1> QED
  BY <1>1, <1>2

LEMMA VerifyKeeps ==
    ASSUME Placed, Typed, NEW t \in Thread,
           \/ VerifyIntent(t) \/ VerifierCreated(t) \/ VerifierFails(t) \/ VerifierStarted(t)
           \/ VerifierReaped(t) \/ VerifyResult(t)
    PROVE  Keeps(t)
<1> USE DEF Keeps, Asks, Record, NoRecord, execution, world
<1>0. todo[t] \in Rests(t, at[t])
  BY DEF Placed
<1>1. CASE VerifyIntent(t)
  <2>1. todo[t] = <<>> /\ t \in {"runner", "helper"}
    BY <1>0, <1>1 DEF VerifyIntent, Rests, Thread, TaskSteps, StopSteps, Preparing, Stops, VerifySteps, ReaderSteps, ExportSteps,
        Exports, CleanupSteps
  <2>2. PICK was \in {"wasArchived", "wasStopped"} : Perform(t, <<"verifierCreate", was>> \o todo[t])
    BY <1>1 DEF VerifyIntent
  <2>3. <<"verifierCreate", was>> \o todo[t] = <<"verifierCreate", was>>
    BY <2>1
  <2>4. Head(<<"verifierCreate", was>>) = "verifierCreate" /\ Tail(<<"verifierCreate", was>>) = <<was>>
    OBVIOUS
  <2>5. <<was>> \in Rests(t, "verifierCreate") /\ "verifierCreate" \in Place
    BY <2>1 DEF Rests, Place, StopSteps, Stops, VerifySteps, CleanupSteps, ReaderSteps, ExportSteps, Exports
  <2>6. Placed' /\ Only(t) /\ out' = out /\ Moves(t)
    BY <1>1, <2>2, <2>3, <2>4, <2>5, Performs DEF VerifyIntent, Moves
  <2> QED
    BY <1>1, <2>6 DEF VerifyIntent, Typed
<1>2. CASE VerifierCreated(t)
  BY <1>2, GoesNext DEF VerifierCreated, Follows
<1>3. CASE VerifierFails(t)
  BY <1>3, GoesNext DEF VerifierFails, Follows
<1>4. CASE VerifierStarted(t)
  <2>1. Placed' /\ Only(t) /\ out' = out /\ Moves(t)
    BY <1>4, GoesNext DEF VerifierStarted, Follows
  <2> QED
    BY <1>4, <2>1 DEF VerifierStarted, Typed
<1>5. CASE VerifierReaped(t)
  <2>1. Goto(t, "verified") /\ <<at[t], "verified">> \in Follows
    BY <1>5 DEF VerifierReaped, Follows
  <2> QED
    BY <1>5, <2>1, GoesNext DEF VerifierReaped
<1>6. CASE VerifyResult(t)
  <2>1. todo[t] \in {<<"wasArchived">>, <<"wasStopped">>} /\ t \in {"runner", "helper"}
    BY <1>0, <1>6 DEF VerifyResult, Rests, Thread, TaskSteps, StopSteps, Preparing, Stops, VerifySteps, ReaderSteps, ExportSteps,
        Exports, CleanupSteps
  <2>2. Len(todo[t]) = 1
    BY <2>1
  <2>3. Perform(t, <<"end">>)
    BY <1>6, <2>2 DEF VerifyResult
  <2>4. Head(<<"end">>) = "end" /\ Tail(<<"end">>) = <<>> /\ "end" \in Place
    BY DEF Place
  <2>5. <<>> \in Rests(t, "end")
    BY <2>1 DEF Rests, StopSteps, Stops, VerifySteps, CleanupSteps, ReaderSteps, ExportSteps, Exports
  <2>6. Placed' /\ Only(t) /\ out' = out /\ Moves(t)
    BY <1>6, <2>3, <2>4, <2>5, Performs DEF VerifyResult, Moves
  <2> QED
    BY <1>6, <2>6 DEF VerifyResult, Typed
<1> QED
  BY <1>1, <1>2, <1>3, <1>4, <1>5, <1>6

LEMMA Pair == ASSUME NEW S, NEW a \in S, NEW b \in S PROVE  <<a>> \o <<b>> = <<a, b>>
<1>1. <<a>> \in Seq(S) /\ <<b>> \in Seq(S) /\ <<a,b>> \in Seq(S)
  OBVIOUS
<1>2. /\ <<a>> \o <<b>> \in Seq(S) /\ Len(<<a>> \o <<b>>) = 2
      /\ \A i \in 1..2 : (<<a>> \o <<b>>)[i] = IF i = 1 THEN a ELSE b
  BY <1>1, ConcatProperties
<1>3. Len(<<a, b>>) = 2 /\ <<a, b>>[1] = a /\ <<a, b>>[2] = b
  OBVIOUS
<1>4. \A i \in 1..2 : (<<a>> \o <<b>>)[i] = <<a, b>>[i]
  BY <1>2, <1>3
<1>5. 2 = Len(<<a>> \o <<b>>) /\ 2 = Len(<<a, b>>)
  BY <1>2, <1>3
<1> QED
  BY ONLY <1>1, <1>2, <1>4, <1>5, SeqEqual

LEMMA Prefixing == ASSUME NEW S, NEW a \in S, NEW s \in Seq(S)
  PROVE  <<a>> \o s # <<>> /\ Head(<<a>> \o s) = a /\ Tail(<<a>> \o s) = s
<1>1. <<a>> \in Seq(S)
  OBVIOUS
<1>2. /\ <<a>> \o s \in Seq(S) /\ Len(<<a>> \o s) = 1 + Len(s)
      /\ \A i \in 1..(1 + Len(s)) : (<<a>> \o s)[i] = IF i = 1 THEN a ELSE s[i - 1]
  BY <1>1, ConcatProperties
<1>3. <<a>> \o s # <<>> /\ Len(s) \in Nat
  BY <1>2
<1>4. Tail(<<a>> \o s) \in Seq(S) /\ Len(Tail(<<a>> \o s)) = Len(s) /\ \A i \in 1..Len(s) : Tail(<<a>> \o s)[i] = s[i]
  BY <1>2, <1>3, HeadTailProperties
<1>5. Tail(<<a>> \o s) = s
  BY <1>4, SeqEqual
<1> QED
  BY <1>2, <1>3, <1>5, HeadTailProperties

\* Recording a reader that is needed.
LEMMA ReaderTurns ==
    ASSUME Placed, NEW t \in Thread, ReaderNeeded(t)
    PROVE  /\ Placed' /\ Only(t) /\ out' = out /\ at'[t] = "readerCreate" /\ t \in {"runner", "helper"}
           /\ at[t] = "reader" => todo'[t] = todo[t]
<1> DEFINE back == IF at[t] = "copyOut" THEN <<"copyOut">> ELSE <<>>
           S == {"copyOut", "cleanup", "frozen", "choose", "stop", "export", "readerCreate"}
<1>1. Perform(t, <<"readerCreate">> \o back \o todo[t]) /\ at[t] \in {"reader", "copyOut"} /\ todo[t] \in Rests(t, at[t])
  BY DEF ReaderNeeded, Placed
<1>2. /\ t \in {"runner", "helper"}
      /\ t = "runner" => at[t] = "copyOut" /\ todo[t] = <<"frozen">>
      /\ t = "helper" /\ at[t] = "reader" => todo[t] \in {<<>>, <<"choose", "stop", "export", "cleanup">>}
      /\ t = "helper" /\ at[t] = "copyOut" => todo[t] \in {<<>>, <<"cleanup">>}
  BY <1>1 DEF Rests, Thread, TaskSteps, StopSteps, Preparing, Stops, VerifySteps, ReaderSteps, ExportSteps,
        Exports, CleanupSteps
<1>3. /\ back \o todo[t] \in Rests(t, "readerCreate")
      /\ back \in Seq(S) /\ todo[t] \in Seq(S)
  <2>1. /\ <<"copyOut">> \o <<"frozen">> = <<"copyOut", "frozen">>
        /\ <<"copyOut">> \o <<"cleanup">> = <<"copyOut", "cleanup">>
    <3>1. "copyOut" \in S /\ "frozen" \in S /\ "cleanup" \in S
      OBVIOUS
    <3> HIDE DEF S
    <3> QED
      BY <3>1, Pair
  <2>2. /\ <<"copyOut">> \o <<>> = <<"copyOut">> /\ <<>> \o <<>> = <<>>
        /\ <<>> \o <<"choose", "stop", "export", "cleanup">> = <<"choose", "stop", "export", "cleanup">>
    OBVIOUS
  <2>3. /\ <<"copyOut", "frozen">> \in Rests("runner", "readerCreate")
        /\ {<<>>, <<"choose", "stop", "export", "cleanup">>, <<"copyOut">>, <<"copyOut", "cleanup">>}
              \subseteq Rests("helper", "readerCreate")
    BY DEF Rests, StopSteps, Stops, VerifySteps, CleanupSteps, ReaderSteps, ExportSteps, Exports
  <2>4. back \o todo[t] \in Rests(t, "readerCreate")
    BY <1>1, <1>2, <2>1, <2>2, <2>3
  <2>5. {<<>>, <<"copyOut">>, <<"frozen">>, <<"cleanup">>, <<"choose", "stop", "export", "cleanup">>} \subseteq Seq(S)
    OBVIOUS
  <2>6. back \in {<<>>, <<"copyOut">>}
        /\ todo[t] \in {<<>>, <<"frozen">>, <<"cleanup">>, <<"choose", "stop", "export", "cleanup">>}
    BY <1>1, <1>2
  <2> HIDE DEF S, back
  <2> QED
    BY <2>4, <2>5, <2>6
<1>5. /\ <<"readerCreate">> \o back \o todo[t] = <<"readerCreate">> \o (back \o todo[t])
      /\ Head(<<"readerCreate">> \o (back \o todo[t])) = "readerCreate"
      /\ Tail(<<"readerCreate">> \o (back \o todo[t])) = back \o todo[t]
  <2>1. "readerCreate" \in S /\ <<"readerCreate">> \in Seq(S)
    OBVIOUS
  <2> HIDE DEF S, back
  <2>2. back \o todo[t] \in Seq(S)
    BY <1>3, ConcatProperties
  <2>3. <<"readerCreate">> \o back \o todo[t] = <<"readerCreate">> \o (back \o todo[t])
    <3>1. \A x, y, z \in Seq(S) : (x \o y) \o z = x \o (y \o z)
      BY ConcatAssociative
    <3> QED
      BY <1>3, <2>1, <3>1
  <2> QED
    BY <2>1, <2>2, <2>3, Prefixing
<1>4. "readerCreate" \in Place
  BY DEF Place, Throwing
<1>6. at[t] = "reader" => back \o todo[t] = todo[t]
  <2>1. <<>> \o <<>> = <<>> /\ <<>> \o <<"choose", "stop", "export", "cleanup">> = <<"choose", "stop", "export", "cleanup">>
    OBVIOUS
  <2> QED
    BY <1>2, <2>1
<1>7. /\ Placed' /\ Only(t) /\ out' = out /\ at'[t] = "readerCreate" /\ todo'[t] = back \o todo[t]
  BY <1>1, <1>3, <1>4, <1>5, Performs
<1> QED
  BY <1>2, <1>6, <1>7

LEMMA ExportKeeps ==
    ASSUME Placed, Typed, NEW t \in Thread,
           \/ ReaderKnown(t) \/ ReaderNeeded(t) \/ ReaderCreated(t) \/ ReaderRecorded(t)
           \/ ExportIntent(t) \/ Look(t) \/ CopyOut(t) \/ Commit(t) \/ Committed(t) \/ ExportFailed(t)
    PROVE  Keeps(t)
<1> USE DEF Keeps, Asks, Goes, Records, Record, NoRecord, execution, world
<1>1. CASE ReaderKnown(t)
  BY <1>1, GoesBack DEF ReaderKnown, Returning
<1>2. CASE ReaderNeeded(t)
  BY <1>2, ReaderTurns DEF ReaderNeeded, Typed, Moves
<1>3. CASE ReaderCreated(t)
  BY <1>3, GoesNext DEF ReaderCreated, Follows
<1>4. CASE ReaderRecorded(t)
  BY <1>4, GoesBack DEF ReaderRecorded, Returning, Typed
<1>5. CASE ExportIntent(t)
  <2>1. CASE Goto(t, "return") /\ at[t] = "export"
    BY <1>5, <2>1, GoesBack DEF ExportIntent, Returning, Typed
  <2>2. CASE Goto(t, "look") /\ at[t] = "export"
    BY <1>5, <2>2, GoesNext DEF ExportIntent, Follows, Typed
  <2> QED
    BY <1>5, <2>1, <2>2 DEF ExportIntent
<1>6. CASE Look(t)
  <2>1. CASE Goto(t, "return") /\ at[t] = "look"
    BY <1>6, <2>1, GoesBack DEF Look, Returning, Typed
  <2>2. CASE Goto(t, "copyOut") /\ at[t] = "look"
    BY <1>6, <2>2, GoesNext DEF Look, Follows, Typed
  <2> QED
    BY <1>6, <2>1, <2>2 DEF Look
<1>7. CASE CopyOut(t)
  BY <1>7, GoesNext DEF CopyOut, Follows, Typed
<1>8. CASE Commit(t)
  BY <1>8, GoesNext DEF Commit, Follows
<1>9. CASE Committed(t)
  BY <1>9, GoesBack DEF Committed, Returning, Typed
<1>10. CASE ExportFailed(t)
  <2>1. t # "task"
    BY <1>10 DEF ExportFailed, Placed, Rests, TaskSteps, StopSteps, Stops, Preparing
  <2> QED
    BY <1>10, <2>1, Throws DEF ExportFailed, Typed
<1> QED
  BY <1>1, <1>2, <1>3, <1>4, <1>5, <1>6, <1>7, <1>8, <1>9, <1>10

LEMMA CleanupKeeps ==
    ASSUME Placed, Typed, NEW t \in Thread,
           \/ CleanupIntent(t) \/ VerifiersRemoved(t, "dropVerifiers", "dropBox") \/ BoxDropped(t)
           \/ VolumeDropped(t) \/ Cleaned(t) \/ VerifiersRemoved(t, "remove", "return")
    PROVE  Keeps(t)
<1> USE DEF Keeps, Asks, Records, Record, NoRecord, execution, world
<1>1. CASE CleanupIntent(t)
  BY <1>1, GoesNext DEF CleanupIntent, Follows, Typed
<1>2. CASE VerifiersRemoved(t, "dropVerifiers", "dropBox")
  <2>1. Placed' /\ Only(t) /\ out' = out /\ Moves(t)
    BY <1>2, GoesNext DEF VerifiersRemoved, Follows
  <2> QED
    BY <1>2, <2>1 DEF VerifiersRemoved, Typed
<1>3. CASE BoxDropped(t)
  BY <1>3, GoesNext DEF BoxDropped, Follows
<1>4. CASE VolumeDropped(t)
  BY <1>4, GoesNext DEF VolumeDropped, Follows
<1>5. CASE Cleaned(t)
  BY <1>5, GoesBack DEF Cleaned, Returning, Typed
<1>6. CASE VerifiersRemoved(t, "remove", "return")
  <2>1. Placed' /\ Only(t) /\ out' = out /\ Moves(t)
    BY <1>6, GoesBack DEF VerifiersRemoved, Returning
  <2> QED
    BY <1>6, <2>1 DEF VerifiersRemoved, Typed
<1> QED
  BY <1>1, <1>2, <1>3, <1>4, <1>5, <1>6

LEMMA OperationKeeps ==
    ASSUME Placed, Typed, NEW t \in Thread, Operation(t)
    PROVE  Keeps(t)
BY LoadKeeps, FailKeeps, StopKeeps, VerifyKeeps, ExportKeeps, CleanupKeeps DEF Operation

-----------------------------------------------------------------------------
(* The worker's task between the operations.                               *)

LEMMA TaskGoes ==
    ASSUME Placed, NEW step, Goto("task", step), at["task"] \in TaskSteps, step \in TaskSteps
    PROVE  Placed' /\ Only("task") /\ out' = out /\ at'["task"] = step /\ todo'["task"] = <<>>
<1>1. step \notin {"return", "throw"} /\ step \in Place /\ "task" \in Thread
  BY DEF TaskSteps, Preparing, Place, Thread
<1>2. todo["task"] = <<>> /\ <<>> \in Rests("task", step)
  BY <1>1 DEF Placed, Rests, TaskSteps, Preparing, StopSteps, Stops
<1> QED
  BY <1>1, <1>2, GoesOn

LEMMA TaskStops ==
    ASSUME Placed, NEW next \in {"gone", "ready", "settled", "ended", "failed"}, Perform("task", <<"stop", next>>)
    PROVE  Placed' /\ Only("task") /\ out' = out /\ at'["task"] = "stop" /\ todo'["task"] = <<next>>
<1>1. Head(<<"stop", next>>) = "stop" /\ Tail(<<"stop", next>>) = <<next>> /\ "stop" \in Place /\ "task" \in Thread
  BY DEF Place, Throwing, Thread
<1>2. <<next>> \in Rests("task", "stop")
  BY DEF Rests, StopSteps
<1> QED
  BY <1>1, <1>2, Performs

LEMMA BoundMoves ==
    ASSUME Placed, Bound
    PROVE  Placed' /\ Only("task") /\ out' = out
           /\ IF cancelled THEN at'["task"] = "stop" /\ todo'["task"] = <<"stop", "ended">>
                           ELSE at'["task"] = "ready" /\ todo'["task"] = <<>>
<1>1. /\ Head(<<"stop", "stop", "ended">>) = "stop" /\ Tail(<<"stop", "stop", "ended">>) = <<"stop", "ended">>
      /\ Head(<<"ready">>) = "ready" /\ Tail(<<"ready">>) = <<>>
      /\ {"stop", "ready"} \subseteq Place /\ "task" \in Thread
  BY DEF Place, Throwing, Thread
<1>2. <<"stop", "ended">> \in Rests("task", "stop") /\ <<>> \in Rests("task", "ready")
  BY DEF Rests, StopSteps, TaskSteps, Stops, Preparing
<1>3. CASE cancelled
  <2>1. Perform("task", <<"stop", "stop", "ended">>)
    BY <1>3 DEF Bound
  <2> QED
    BY <1>1, <1>2, <1>3, <2>1, Performs
<1>4. CASE ~cancelled
  <2>1. Perform("task", <<"ready">>)
    BY <1>4 DEF Bound
  <2> QED
    BY <1>1, <1>2, <1>4, <2>1, Performs
<1> QED
  BY <1>3, <1>4

\* What a step of the task outside its operations does to the threads.
Steps(from, to) ==
    Placed' /\ Only("task") /\ out' = out /\ at["task"] = from /\ at'["task"] = to /\ todo'["task"] = <<>>

LEMMA PreparationMoves ==
    ASSUME Placed
    PROVE  /\ Prepare => Steps("new", "inputs")
           /\ InputsTaken => Steps("inputs", "volume")
           /\ VolumeCreated => Steps("volume", "volumeMade")
           /\ VolumeRecorded => Steps("volumeMade", "creating")
           /\ ContainerCreated => Steps("creating", "made")
           /\ ContainerRecorded => Steps("made", "starting")
           /\ Started => Steps("starting", "started")
           /\ Prepared => Steps("started", "binding")
           /\ Call => Steps("ready", "calling")
           /\ Exec => Steps("calling", "polling")
           /\ CallRefused => Steps("calling", "ready")
           /\ CallEnds => Steps("polling", "ready")
<1> USE TaskGoes DEF Steps, TaskSteps, Preparing, Records, Asks, Goes
<1>1. Prepare => Steps("new", "inputs")
  BY DEF Prepare
<1>2. InputsTaken => Steps("inputs", "volume")
  BY DEF InputsTaken
<1>3. VolumeCreated => Steps("volume", "volumeMade")
  BY DEF VolumeCreated
<1>4. VolumeRecorded => Steps("volumeMade", "creating")
  BY DEF VolumeRecorded
<1>5. ContainerCreated => Steps("creating", "made")
  BY DEF ContainerCreated
<1>6. ContainerRecorded => Steps("made", "starting")
  BY DEF ContainerRecorded
<1>7. Started => Steps("starting", "started")
  BY DEF Started
<1>8. Prepared => Steps("started", "binding")
  BY DEF Prepared
<1>9. Call => Steps("ready", "calling")
  BY DEF Call
<1>10. Exec => Steps("calling", "polling")
  BY DEF Exec
<1>11. CallRefused => Steps("calling", "ready")
  BY DEF CallRefused
<1>12. CallEnds => Steps("polling", "ready")
  BY DEF CallEnds
<1> QED
  BY <1>1, <1>2, <1>3, <1>4, <1>5, <1>6, <1>7, <1>8, <1>9, <1>10, <1>11, <1>12

\* And what a step that stops the box for good or for a while does.
StopsFor(from, nexts) ==
    /\ Placed' /\ Only("task") /\ out' = out
    /\ at["task"] \in from /\ at'["task"] = "stop" /\ \E next \in nexts : todo'["task"] = <<next>>

LEMMA StoppingMoves ==
    ASSUME Placed
    PROVE  /\ PrepareFails => StopsFor(Preparing, {"gone"})
           /\ CallAborted => StopsFor({"polling"}, {"ready"})
           /\ TaskEnds => StopsFor({"ready"}, {"settled", "ended", "failed"})
<1>1. PrepareFails => StopsFor(Preparing, {"gone"})
  BY TaskStops DEF PrepareFails, StopsFor
<1>2. CallAborted => StopsFor({"polling"}, {"ready"})
  BY TaskStops DEF CallAborted, Turns, StopsFor
<1>3. TaskEnds => StopsFor({"ready"}, {"settled", "ended", "failed"})
  BY TaskStops DEF TaskEnds, StopsFor
<1> QED
  BY <1>1, <1>2, <1>3

LEMMA CancelMoves ==
    ASSUME Placed, CancelSession, "worker" \in live => at["cancel"] # "dead", cancelled \in BOOLEAN
    PROVE  /\ Placed' /\ out' = out /\ todo' = todo /\ \A u \in Thread \ {"cancel"} : at'[u] = at[u]
           /\ at'["cancel"] = IF HasBox THEN "stop" ELSE at["cancel"]
<1>1. todo["cancel"] = <<>> /\ <<>> \in Rests("cancel", "stop") /\ "stop" \in Place
  BY DEF Placed, Rests, Place, Throwing, Thread, StopSteps, Stops
<1>2. at' = [at EXCEPT !["cancel"] = IF HasBox THEN "stop" ELSE @] /\ todo' = todo /\ out' = out
  BY DEF CancelSession
<1> QED
  BY <1>1, <1>2 DEF Placed, Thread

LEMMA DeathMoves ==
    ASSUME Placed, WorkerDies
    PROVE  /\ Placed' /\ out' = out
           /\ at' = [at EXCEPT !["task"] = IF @ \in {"settled", "ended"} THEN @ ELSE "dead", !["cancel"] = "dead"]
           /\ at'["task"] = IF at["task"] \in {"settled", "ended"} THEN at["task"] ELSE "dead"
           /\ at'["cancel"] = "dead"
           /\ \A u \in {"runner", "helper"} : at'[u] = at[u] /\ todo'[u] = todo[u]
<1>1. /\ at' = [at EXCEPT !["task"] = IF @ \in {"settled", "ended"} THEN @ ELSE "dead", !["cancel"] = "dead"]
      /\ todo' = [todo EXCEPT !["task"] = <<>>, !["cancel"] = <<>>] /\ out' = out
  BY DEF WorkerDies
<1>2. /\ \A step \in {"settled", "ended", "dead"} : <<>> \in Rests("task", step)
      /\ <<>> \in Rests("cancel", "dead") /\ "dead" \in Place
  BY DEF Rests, Place, StopSteps, Stops, TaskSteps, Preparing
<1> QED
  BY <1>1, <1>2 DEF Placed, Thread

-----------------------------------------------------------------------------
(* The runner, the helper and those outside.                               *)

\* A thread takes up other work.
Takes(t, from, to, rest) ==
    /\ Placed' /\ Only(t) /\ out' = out
    /\ at[t] \in from /\ at'[t] = to /\ todo'[t] = rest

LEMMA RunnerMoves ==
    ASSUME Placed
    PROVE  /\ Freeze => Takes("runner", {"waiting"}, "load", <<"stop", "stop", "export", "frozen">>)
           /\ RunReturns => Takes("runner", {"waiting"}, "end", <<>>)
           /\ JudgeCandidate => Takes("runner", {"frozen"}, "load", <<"stop", "verify">>)
           /\ ControllerDies => Takes("runner", Place, "dead", <<>>)
<1>1. /\ Head(<<"load", "stop", "stop", "export", "frozen">>) = "load"
      /\ Tail(<<"load", "stop", "stop", "export", "frozen">>) = <<"stop", "stop", "export", "frozen">>
      /\ Head(<<"end">>) = "end" /\ Tail(<<"end">>) = <<>> /\ Head(<<"dead">>) = "dead" /\ Tail(<<"dead">>) = <<>>
      /\ Head(<<"load", "stop", "verify">>) = "load" /\ Tail(<<"load", "stop", "verify">>) = <<"stop", "verify">>
  OBVIOUS
<1>2. /\ <<"stop", "stop", "export", "frozen">> \in Rests("runner", "load")
      /\ <<"stop", "verify">> \in Rests("runner", "load")
      /\ <<>> \in Rests("runner", "end") /\ <<>> \in Rests("runner", "dead")
  BY DEF Rests, StopSteps, Stops, VerifySteps, CleanupSteps, ReaderSteps, ExportSteps, Exports
<1>3. {"load", "end", "dead"} \subseteq Place /\ "runner" \in Thread /\ at["runner"] \in Place
  BY DEF Place, Thread, Placed
<1> USE <1>1, <1>2, <1>3, Performs DEF Takes, Turns
<1>4. Freeze => Takes("runner", {"waiting"}, "load", <<"stop", "stop", "export", "frozen">>)
  BY DEF Freeze
<1>5. RunReturns => Takes("runner", {"waiting"}, "end", <<>>)
  BY DEF RunReturns
<1>6. JudgeCandidate => Takes("runner", {"frozen"}, "load", <<"stop", "verify">>)
  BY DEF JudgeCandidate
<1>7. ControllerDies => Takes("runner", Place, "dead", <<>>)
  BY DEF ControllerDies
<1> QED
  BY <1>4, <1>5, <1>6, <1>7

LEMMA HelperMoves ==
    ASSUME Placed
    PROVE  /\ HelperDies => Takes("helper", Place \ {"off", "end", "failed"}, "failed", <<>>)
           /\ StopCalled /\ at["runner"] = "waiting" => Takes("helper", Place, "load", <<"stop">>)
           /\ Choose => /\ Placed' /\ Only("helper") /\ at["helper"] = "choose" /\ at'["helper"] = "stop"
                        /\ todo'["helper"] = <<"export", "cleanup">>
<1>1. /\ Head(<<"load", "stop">>) = "load" /\ Tail(<<"load", "stop">>) = <<"stop">>
      /\ Head(<<"failed">>) = "failed" /\ Tail(<<"failed">>) = <<>>
      /\ Head(<<"stop", "export", "cleanup">>) = "stop" /\ Tail(<<"stop", "export", "cleanup">>) = <<"export", "cleanup">>
  OBVIOUS
<1>2. /\ <<"stop">> \in Rests("helper", "load") /\ <<>> \in Rests("helper", "failed")
      /\ <<"export", "cleanup">> \in Rests("helper", "stop")
      /\ Rests("helper", "choose") = {<<"stop", "export", "cleanup">>}
  BY DEF Rests, StopSteps, Stops, VerifySteps, CleanupSteps, ReaderSteps, ExportSteps, Exports
<1>3. {"load", "failed", "stop"} \subseteq Place /\ "helper" \in Thread /\ at["helper"] \in Place
  BY DEF Place, Thread, Placed, Throwing
<1>4. HelperDies => Takes("helper", Place \ {"off", "end", "failed"}, "failed", <<>>)
  BY <1>1, <1>2, <1>3, Performs DEF HelperDies, HelperIdle, Takes
<1>5. StopCalled /\ at["runner"] = "waiting" => Takes("helper", Place, "load", <<"stop">>)
  BY <1>1, <1>2, <1>3, Performs DEF StopCalled, Takes
<1>6. ASSUME Choose
      PROVE  /\ Placed' /\ Only("helper") /\ at["helper"] = "choose" /\ at'["helper"] = "stop"
             /\ todo'["helper"] = <<"export", "cleanup">>
  <2>1. at["helper"] = "choose" /\ todo["helper"] = <<"stop", "export", "cleanup">>
    BY <1>2, <1>3, <1>6 DEF Choose, Placed
  <2>2. at' = [at EXCEPT !["helper"] = "stop"] /\ todo' = [todo EXCEPT !["helper"] = <<"export", "cleanup">>]
    BY <1>1, <1>6, <2>1 DEF Choose
  <2> QED
    BY <1>2, <1>3, <2>1, <2>2 DEF Placed, Only
<1> QED
  BY <1>4, <1>5, <1>6

LEMMA PreserveMoves ==
    ASSUME Placed, PreserveWork
    PROVE  /\ Placed' /\ out' = out /\ at["runner"] \in {"waiting", "frozen", "end", "failed"}
           /\ at'["runner"] = "dead" /\ at'["helper"] = "load" /\ todo'["runner"] = <<>>
           /\ todo'["helper"] = <<"stop", "remove", "reader", "choose", "stop", "export", "cleanup">>
           /\ \A u \in {"task", "cancel"} : at'[u] = at[u] /\ todo'[u] = todo[u]
<1>1. /\ at["runner"] \in {"waiting", "frozen", "end", "failed"}
      /\ at' = [at EXCEPT !["runner"] = "dead", !["helper"] = "load"]
      /\ todo' = [todo EXCEPT !["helper"] =
                    <<"stop", "remove", "reader", "choose", "stop", "export", "cleanup">>]
      /\ out' = out
  BY DEF PreserveWork
<1>2. todo["runner"] = <<>>
  BY <1>1 DEF Placed, Rests, Thread, StopSteps, Stops, VerifySteps, ReaderSteps, ExportSteps, Exports
<1>3. /\ <<>> \in Rests("runner", "dead")
      /\ <<"stop", "remove", "reader", "choose", "stop", "export", "cleanup">> \in Rests("helper", "load")
      /\ {"dead", "load"} \subseteq Place
  BY DEF Rests, Place, StopSteps, Stops, VerifySteps, CleanupSteps, ReaderSteps, ExportSteps, Exports
<1> QED
  BY <1>1, <1>2, <1>3 DEF Placed, Thread

LEMMA OperateMoves ==
    ASSUME Placed, Operate
    PROVE  /\ Placed' /\ Only("helper") /\ at["helper"] \in {"off", "end", "failed"} /\ at'["helper"] = "load"
           /\ out' \in Destination \cup {Nothing}
<1>1. PICK command \in Commands :
         /\ at' = [at EXCEPT !["helper"] = Head(command)]
         /\ todo' = [todo EXCEPT !["helper"] = Tail(command)]
         /\ out' \in Destination \cup {Nothing}
  BY DEF Operate
<1>2. Head(command) = "load" /\ Tail(command) \in Rests("helper", "load") /\ "load" \in Place
  <2>1. /\ Reads(<<"load", "stop", "remove", "reader">>, "load", <<"stop", "remove", "reader">>)
        /\ Reads(<<"load", "stop", "export">>, "load", <<"stop", "export">>)
        /\ Reads(<<"load", "stop", "verify">>, "load", <<"stop", "verify">>)
        /\ Reads(<<"load", "cleanup">>, "load", <<"cleanup">>)
    BY DEF Reads
  <2>2. {<<"stop", "remove", "reader">>, <<"stop", "export">>, <<"stop", "verify">>, <<"cleanup">>}
           \subseteq Rests("helper", "load")
    BY DEF Rests, StopSteps, Stops, VerifySteps, CleanupSteps, ReaderSteps, ExportSteps, Exports
  <2>3. \A r, a, o : Reads(r, a, o) => Head(r) = a /\ Tail(r) = o
    BY DEF Reads
  <2> QED
    BY <2>1, <2>2, <2>3 DEF Commands, Place
<1>3. at["helper"] \in {"off", "end", "failed"}
  BY DEF Operate, HelperIdle
<1> QED
  BY <1>1, <1>2, <1>3 DEF Placed, Thread, Only

\* Where a step of an operation begins and ends, by the thread.
LEMMA TaskPlaces ==
    ASSUME Placed, Placed', Moves("task")
    PROVE  /\ at["task"] \in StopSteps /\ todo["task"] # <<>>
           /\ at'["task"] \in StopSteps \cup {"gone", "ready", "settled", "ended", "failed"}
<1>1. todo["task"] \in Rests("task", at["task"])
  BY DEF Placed, Thread
<1>2. at["task"] \in StopSteps
  BY <1>1 DEF Moves, Follows, Returning, Throwing, Exports, ReaderSteps, Rests, TaskSteps, Preparing, StopSteps, Stops
<1>3. todo["task"] \in {<<"gone">>, <<"stop", "ended">>, <<"ended">>, <<"ready">>, <<"settled">>, <<"failed">>}
  BY <1>1, <1>2 DEF Rests
<1>4. todo["task"] # <<>> /\ Head(todo["task"]) \in {"stop", "gone", "ready", "settled", "ended", "failed"}
  BY <1>3, TaskReads DEF Reads
<1>5. at'["task"] \in StopSteps \cup {"gone", "ready", "settled", "ended", "failed", "end"}
  BY <1>2, <1>4 DEF Moves, Follows, Returning, Throwing, Exports, ReaderSteps, StopSteps, Stops
<1>6. at'["task"] # "end"
  <2>1. todo'["task"] \in Rests("task", at'["task"])
    BY DEF Placed, Thread
  <2> QED
    BY <2>1 DEF Rests, TaskSteps, Preparing, StopSteps, Stops
<1> QED
  BY <1>2, <1>4, <1>5, <1>6

LEMMA CancelPlaces ==
    ASSUME Placed, Placed', Moves("cancel")
    PROVE  at["cancel"] \in StopSteps /\ at'["cancel"] \in StopSteps \cup {"end", "failed"}
<1>1. todo["cancel"] \in Rests("cancel", at["cancel"])
  BY DEF Placed, Thread
<1>2. at["cancel"] \in StopSteps /\ todo["cancel"] = <<>>
  BY <1>1 DEF Moves, Follows, Returning, Throwing, Exports, ReaderSteps, Rests, StopSteps, Stops
<1> QED
  BY <1>2 DEF Moves, Follows, Returning, Throwing, Exports, ReaderSteps, StopSteps, Stops

LEMMA RunnerPlaces ==
    ASSUME Placed, Placed', Moves("runner")
    PROVE  /\ at["runner"] \notin {"waiting", "dead", "end", "failed", "frozen"}
           /\ at'["runner"] \notin {"waiting", "dead", "load"}
<1>1. todo["runner"] \in Rests("runner", at["runner"])
  BY DEF Placed, Thread
<1>2. at["runner"] \notin {"waiting", "dead", "end", "failed", "frozen"}
  BY DEF Moves, Follows, Returning, Throwing, Exports, ReaderSteps, StopSteps, Stops
<1>3. at["runner"] \in Returning /\ todo["runner"] # <<>> => Head(todo["runner"]) \in {"stop", "export", "frozen", "verify", "copyOut"}
  BY <1>1, RunnerReads DEF Returning, Rests, StopSteps, Stops, VerifySteps, ReaderSteps, ExportSteps, Exports, Reads
<1> QED
  BY <1>2, <1>3 DEF Moves, Follows, StopSteps, Stops

LEMMA HelperPlaces ==
    ASSUME Placed, Placed', Moves("helper")
    PROVE  /\ at["helper"] \notin {"off", "end", "failed", "choose"}
           /\ at'["helper"] \notin {"off", "load"}
           /\ StopsOnly => StopsOnly'
<1>1. todo["helper"] \in Rests("helper", at["helper"]) /\ todo'["helper"] \in Rests("helper", at'["helper"])
  BY DEF Placed, Thread
<1>2. at["helper"] \notin {"off", "end", "failed", "choose"}
  BY DEF Moves, Follows, Returning, Throwing, Exports, ReaderSteps, StopSteps, Stops
<1>3. at["helper"] \in Returning /\ todo["helper"] # <<>> =>
         Head(todo["helper"]) \in {"stop", "remove", "reader", "choose", "export", "cleanup", "verify", "copyOut"}
  BY <1>1, LoadReads, StopReads, HelperReads
  DEF Returning, Rests, StopSteps, Stops, VerifySteps, ReaderSteps, ExportSteps, Exports, CleanupSteps, Reads
<1>4. at'["helper"] \notin {"off", "load"}
  BY <1>2, <1>3 DEF Moves, Follows, StopSteps, Stops
<1>5. ASSUME StopsOnly
      PROVE  StopsOnly'
  <2>1. CASE at["helper"] = "load"
    <3>1. todo["helper"] = <<"stop">>
      BY <1>5, <2>1 DEF StopsOnly
    <3>2. at'["helper"] \in {"stop", "end"} /\ todo'["helper"] = <<>>
      BY <2>1, <3>1, LoadReads DEF Moves, Reads, Follows, Returning, Throwing, Exports, ReaderSteps
    <3> QED
      BY <3>2 DEF StopsOnly, StopSteps
  <2>2. CASE at["helper"] \in StopSteps
    <3>1. todo["helper"] = <<>>
      BY <1>5, <2>2 DEF StopsOnly, StopSteps, Stops
    <3>2. at'["helper"] \in StopSteps \cup {"end", "failed"} /\ todo'["helper"] = <<>>
      BY <2>2, <3>1 DEF Moves, Follows, Returning, Throwing, Exports, ReaderSteps, StopSteps, Stops
    <3> QED
      BY <3>2 DEF StopsOnly, StopSteps, Stops
  <2> QED
    BY <1>2, <1>5, <2>1, <2>2 DEF StopsOnly
<1> QED
  BY <1>2, <1>4, <1>5

-----------------------------------------------------------------------------
(* The invariant, one conjunct at a time: places, then data.               *)

LEMMA PlacedHolds ==
    ASSUME Placed, Typed, Living, SandboxNext
    PROVE  Placed'
<1>1. CASE Worker
  <2>1. Write => Placed'
    BY DEF Write, Placed
  <2>2. CancelSession => Placed'
    BY CancelMoves DEF Living, Typed
  <2> QED
    BY <1>1, <2>1, <2>2, PreparationMoves, StoppingMoves, BoundMoves, DeathMoves DEF Worker, Steps, StopsFor
<1>2. CASE Outside
  <2>1. StopProved \/ StopUnconfirmed \/ VerifierExits => Placed'
    BY DEF StopProved, StopUnconfirmed, StopReturns, VerifierExits, Placed
  <2>2. StopCalled /\ at["runner"] # "waiting" => Placed'
    BY DEF StopCalled, Placed
  <2> QED
    BY <1>2, <2>1, <2>2, RunnerMoves, HelperMoves, PreserveMoves, OperateMoves DEF Outside, Takes
<1>3. CASE \E t \in Thread : Operation(t)
  BY <1>3, OperationKeeps DEF Keeps
<1> QED
  BY <1>1, <1>2, <1>3 DEF SandboxNext

-----------------------------------------------------------------------------
(* What an operation does to the daemon, the records and the archives.     *)

Handles(t) ==
    \/ docker' = docker
    \/ docker' = [docker EXCEPT !.verifier = "absent"]
    \/ docker.verifier = "running" /\ docker' = [docker EXCEPT !.verifier = "exited"]
    \/ docker.box = "running" /\ docker' = [docker EXCEPT !.box = "exited", !.shell = FALSE]
    \/ at[t] = "verifierCreate" /\ docker' = [docker EXCEPT !.verifier = "created"]
    \/ at[t] = "verifierStart" /\ docker.volume /\ docker' = [docker EXCEPT !.verifier = "running"]
    \/ at[t] = "readerCreate" /\ docker.box = "absent" /\ docker' = [docker EXCEPT !.box = "reader", !.volume = TRUE]
    \/ at[t] = "dropBox" /\ docker.box # "running" /\ docker' = [docker EXCEPT !.box = "absent"]
    \/ at[t] = "dropVolume" /\ (docker.volume => ~InUse) /\ docker' = [docker EXCEPT !.volume = FALSE]

LEMMA OperationHandles ==
    ASSUME Typed, NEW t \in Thread, Operation(t)
    PROVE  Handles(t)
<1> USE DEF Asks, Records, Goes, world
<1>0. docker \in Daemon /\ copy[Holder(t)] \in State
  BY DEF Typed, Thread, Holder
<1>1. Load(t) \/ Fails(t) \/ StopIntent(t) \/ StopConfirmed(t) \/ StopFails(t) \/ VerifyResult(t)
        \/ ReaderKnown(t) \/ ReaderNeeded(t) \/ ReaderRecorded(t) \/ ExportIntent(t) \/ Look(t) \/ CopyOut(t)
        \/ Commit(t) \/ Committed(t) \/ ExportFailed(t) \/ CleanupIntent(t) \/ Cleaned(t) => docker' = docker
  BY DEF Load, Fails, StopIntent, StopConfirmed, StopFails, VerifyResult, ReaderKnown, ReaderNeeded, ReaderRecorded,
         ExportIntent, Look, CopyOut, Commit, Committed, ExportFailed, CleanupIntent, Cleaned
<1>2. \A from, to : VerifiersRemoved(t, from, to) => Handles(t)
  BY <1>0 DEF VerifiersRemoved, Handles, Daemon
<1>3. VerifiersStopped(t) => Handles(t)
  BY <1>0 DEF VerifiersStopped, Handles, Daemon
<1>4. BoxStopped(t) => Handles(t)
  BY <1>0 DEF BoxStopped, Handles, Daemon, Runs
<1>5. VerifyIntent(t) => Handles(t)
  BY <1>0 DEF VerifyIntent, Handles, Daemon
<1>6. VerifierCreated(t) \/ VerifierFails(t) => Handles(t)
  <2>1. VerifierCreated(t) => Handles(t)
    BY <1>0 DEF VerifierCreated, Handles, Daemon
  <2>2. VerifierFails(t) => docker' \in {docker, [docker EXCEPT !.verifier = "created"]} /\ at[t] = "verifierCreate"
    BY <1>0 DEF VerifierFails, Daemon
  <2> QED
    BY <2>1, <2>2 DEF Handles
<1>7. VerifierStarted(t) \/ VerifierReaped(t) => Handles(t)
  BY <1>0 DEF VerifierStarted, VerifierReaped, Handles
<1>8. ReaderCreated(t) => Handles(t)
  BY DEF ReaderCreated, Handles
<1>9. BoxDropped(t) => Handles(t)
  BY <1>0 DEF BoxDropped, Handles, Daemon, Runs
<1>10. VolumeDropped(t) => Handles(t)
  BY DEF VolumeDropped, Handles
<1> QED
  BY <1>1, <1>2, <1>3, <1>4, <1>5, <1>6, <1>7, <1>8, <1>9, <1>10 DEF Operation, Handles

\* A record of an operation, by the step it is made at.
Written(t, state) ==
    \/ state = My(t)
    \/ at[t] = "stop" /\ My(t).phase \notin {"archived", "cleaned"} /\ state = [My(t) EXCEPT !.phase = "stopping"]
    \/ at[t] \in {"confirm", "exportFailed"} /\ state = [My(t) EXCEPT !.phase = "stopped"]
    \/ at[t] = "verify" /\ state = [My(t) EXCEPT !.phase = "verifying", !.verifier = TRUE]
    \/ at[t] = "verified" /\ state = [My(t) EXCEPT !.phase = "stopped"]
    \/ at[t] \in {"verified", "look", "committed"} /\ ArchiveHolds(My(t)) /\ state = [My(t) EXCEPT !.phase = "archived"]
    \/ at[t] \in {"reader", "copyOut"} /\ state = [My(t) EXCEPT !.id = Nothing]
    \/ at[t] = "readerMade" /\ state = [My(t) EXCEPT !.id = "reader"]
    \/ at[t] = "export" /\ \E dest \in Destination \cup {Nothing} : state = [My(t) EXCEPT !.path = dest, !.phase = "exporting"]
    \/ at[t] = "copyOut" /\ docker.box # "running" /\ state = [My(t) EXCEPT !.hash = docker.content]
    \/ at[t] = "dropped" /\ state = [My(t) EXCEPT !.phase = "cleaned"]

Saves(t) ==
    \/ NoRecord
    \/ at[t] = "load" /\ file # Nothing /\ file' = file /\ copy' = [copy EXCEPT ![Holder(t)] = file]
    \/ \E state : Record(t, state) /\ Written(t, state)

LEMMA OperationSaves ==
    ASSUME Typed, NEW t \in Thread, Operation(t)
    PROVE  Saves(t)
<1> USE DEF Asks, Records, Goes
<1>1. VerifiersStopped(t) \/ BoxStopped(t) \/ Fails(t) \/ VerifierCreated(t) \/ VerifierFails(t)
        \/ VerifierReaped(t) \/ ReaderKnown(t) \/ ReaderCreated(t) \/ Commit(t) \/ BoxDropped(t) \/ VolumeDropped(t)
        => NoRecord
  BY DEF VerifiersStopped, BoxStopped, Fails, VerifierCreated, VerifierFails, VerifierReaped, ReaderKnown,
         ReaderCreated, Commit, BoxDropped, VolumeDropped
<1>2. Load(t) => Saves(t)
  BY DEF Load, Saves, NoRecord
<1>3. \A from, to : VerifiersRemoved(t, from, to) => Saves(t)
  BY DEF VerifiersRemoved, Saves, Written
<1>4. StopIntent(t) \/ StopConfirmed(t) \/ StopFails(t) => Saves(t)
  BY DEF StopIntent, StopConfirmed, StopFails, Saves, Written
<1>5. VerifyIntent(t) \/ VerifierStarted(t) => Saves(t)
  BY DEF VerifyIntent, VerifierStarted, Saves, Written
<1>6. VerifyResult(t) => Saves(t)
  BY DEF VerifyResult, Verifiable, Saves, Written
<1>7. ReaderNeeded(t) \/ ReaderRecorded(t) => Saves(t)
  BY DEF ReaderNeeded, ReaderRecorded, Saves, Written
<1>8. ExportIntent(t) => Saves(t)
  <2>1. (IF t = "runner" THEN "candidate" ELSE out) \in Destination \cup {Nothing}
    BY DEF Typed, Destination
  <2> QED
    BY <2>1 DEF ExportIntent, Saves, Written
<1>9. Look(t) \/ Committed(t) \/ CopyOut(t) \/ ExportFailed(t) => Saves(t)
  BY DEF Look, Committed, CopyOut, ExportFailed, Saves, Written
<1>10. CleanupIntent(t) \/ Cleaned(t) => Saves(t)
  BY DEF CleanupIntent, Cleaned, Saves, Written
<1> QED
  BY <1>1, <1>2, <1>3, <1>4, <1>5, <1>6, <1>7, <1>8, <1>9, <1>10 DEF Operation, Saves

LEMMA OperationCommits ==
    ASSUME Typed, NEW t \in Thread, Operation(t)
    PROVE  kept' = kept \/ Commit(t)
BY DEF Operation, Asks, Records, Goes, world, Load, Fails, StopIntent, VerifiersStopped, BoxStopped, StopConfirmed,
       StopFails, VerifyIntent, VerifierCreated, VerifierFails, VerifierStarted, VerifierReaped, VerifyResult,
       VerifiersRemoved, ReaderKnown, ReaderNeeded, ReaderCreated, ReaderRecorded, ExportIntent, Look, CopyOut,
       Committed, ExportFailed, CleanupIntent, BoxDropped, VolumeDropped, Cleaned

LEMMA WrittenTyped ==
    ASSUME Typed, NEW t \in Thread, NEW state, Written(t, state)
    PROVE  /\ state \in State
           /\ t \in {"task", "cancel"} /\ at[t] \in StopSteps => state \in WorkerState
<1>1. My(t) \in State /\ docker.content \in Content
  BY DEF Typed, Thread, Holder, My, Daemon
<1>2. t \in {"task", "cancel"} => My(t) \in WorkerState
  BY DEF Typed, Holder, My
<1>3. state \in State
  BY <1>1 DEF Written, State
<1> QED
  BY <1>2, <1>3 DEF Written, StopSteps, Stops, WorkerState

LEMMA StopsAreTheirs ==
    ASSUME Placed, Placed', NEW t \in Thread, Moves(t), t \in {"task", "cancel"}
    PROVE  at[t] \in StopSteps
BY TaskPlaces, CancelPlaces

LEMMA OperationTyped ==
    ASSUME Placed, Typed, NEW t \in Thread, Operation(t)
    PROVE  Typed'
<1>1. Keeps(t) /\ Handles(t) /\ Saves(t) /\ (kept' = kept \/ Commit(t))
  BY OperationKeeps, OperationHandles, OperationSaves, OperationCommits
<1>2. t \in {"task", "cancel"} => at[t] \in StopSteps
  BY <1>1, StopsAreTheirs DEF Keeps
<1>3. docker' \in Daemon
  BY <1>1 DEF Handles, Typed, Daemon
<1>4. kept' \in [Destination -> Content \cup {Nothing}]
  <2>1. My(t).hash \in Content \cup {Nothing}
    BY DEF Typed, Thread, Holder, My, State
  <2> QED
    BY <1>1, <2>1 DEF Commit, Typed
<1>5. /\ file' \in State \cup {Nothing}
      /\ copy' \in [{"worker", "runner", "helper"} -> State]
      /\ copy'["worker"] \in WorkerState
  <2>1. CASE NoRecord
    BY <2>1 DEF NoRecord, Typed
  <2>2. CASE at[t] = "load" /\ file # Nothing /\ file' = file /\ copy' = [copy EXCEPT ![Holder(t)] = file]
    <3>1. Holder(t) # "worker"
      BY <1>2, <2>2 DEF StopSteps, Stops, Holder, Thread
    <3> QED
      BY <2>2, <3>1 DEF Typed
  <2>3. ASSUME NEW state, Record(t, state), Written(t, state)
        PROVE  /\ file' \in State \cup {Nothing}
               /\ copy' \in [{"worker", "runner", "helper"} -> State]
               /\ copy'["worker"] \in WorkerState
    <3>1. state \in State /\ (t \in {"task", "cancel"} => state \in WorkerState)
      BY <1>2, <2>3, WrittenTyped
    <3>2. Holder(t) \in {"worker", "runner", "helper"} /\ (Holder(t) = "worker" => t \in {"task", "cancel"})
      BY DEF Holder, Thread
    <3> QED
      BY <2>3, <3>1, <3>2 DEF Record, Typed
  <2> QED
    BY <1>1, <2>1, <2>2, <2>3 DEF Saves
<1>6. out' = out /\ UNCHANGED execution
  BY <1>1 DEF Keeps
<1> QED
  BY <1>3, <1>4, <1>5, <1>6 DEF Typed, execution

LEMMA WorkerWrites ==
    ASSUME Typed
    PROVE  Fresh \in WorkerState /\ WorkerState \subseteq State
           /\ My("task") = copy["worker"] /\ Holder("task") = "worker"
           /\ \A id \in {"main", Nothing} : [My("task") EXCEPT !.id = id] \in WorkerState
           /\ [My("task") EXCEPT !.phase = "running"] \in WorkerState
BY DEF Typed, Fresh, WorkerState, State, My, Holder

LEMMA WorkerRecords ==
    ASSUME Typed, NEW state \in WorkerState, Record("task", state)
    PROVE  /\ file' = state /\ copy'["worker"] = state
           /\ copy'["runner"] = copy["runner"] /\ copy'["helper"] = copy["helper"]
           /\ copy' \in [{"worker", "runner", "helper"} -> State] /\ file' \in State
BY WorkerWrites DEF Typed, Record

\* What the worker's steps record and ask for.
LEMMA WorkerSaves ==
    ASSUME Typed, Worker
    PROVE  \/ NoRecord
           \/ WorkerDies /\ file' = file /\ copy' = [copy EXCEPT !["worker"] = Fresh]
           \/ \E state \in WorkerState :
                /\ Record("task", state)
                /\ state.phase # copy["worker"].phase => Prepare \/ Prepared
<1> USE DEF Records, Asks, Goes, Turns
<1>0. My("task") = copy["worker"] /\ My("task") \in WorkerState
  BY DEF Typed, My, Holder
<1>1. Prepare => \E state \in WorkerState : Record("task", state)
  BY WorkerWrites DEF Prepare
<1>2. InputsTaken \/ VolumeRecorded \/ PrepareFails \/ Bound \/ Call \/ CallEnds => Record("task", My("task"))
  BY DEF InputsTaken, VolumeRecorded, PrepareFails, Bound, Call, CallEnds
<1>3. ContainerRecorded => \E state \in WorkerState : Record("task", state) /\ state.phase = copy["worker"].phase
  BY <1>0, WorkerWrites DEF ContainerRecorded, WorkerState
<1>4. Prepared => \E state \in WorkerState : Record("task", state)
  BY WorkerWrites DEF Prepared
<1>5. VolumeCreated \/ ContainerCreated \/ Started \/ Exec \/ CallRefused \/ CallAborted \/ Write \/ TaskEnds \/ CancelSession => NoRecord
  BY DEF VolumeCreated, ContainerCreated, Started, Exec, CallRefused, CallAborted, Write, TaskEnds, CancelSession
<1>6. WorkerDies => file' = file /\ copy' = [copy EXCEPT !["worker"] = Fresh]
  BY DEF WorkerDies
<1> QED
  BY <1>0, <1>1, <1>2, <1>3, <1>4, <1>5, <1>6 DEF Worker

WorkerHandles ==
    \/ docker' = docker
    \/ at["task"] = "volume" /\ docker' = [docker EXCEPT !.volume = TRUE]
    \/ at["task"] = "creating" /\ docker.box = "absent" /\ docker' = [docker EXCEPT !.box = "created", !.volume = TRUE]
    \/ at["task"] = "starting" /\ docker.box = "created" /\ docker' = [docker EXCEPT !.box = "running"]
    \/ at["task"] = "calling" /\ docker.box = "running" /\ docker' = [docker EXCEPT !.shell = TRUE]
    \/ docker.shell /\ docker.content < MaxWrites /\ docker' = [docker EXCEPT !.content = @ + 1]

LEMMA WorkerAsks ==
    ASSUME Typed, Worker
    PROVE  /\ WorkerHandles /\ kept' = kept
           /\ live' = live \/ WorkerDies
           /\ halt' = halt
           /\ admission' = admission \/ (admission' = FALSE) \/ Prepared
           /\ cancelled' = cancelled \/ CancelSession \/ WorkerDies
<1> USE DEF Records, Asks, Goes, Turns, world, execution, WorkerHandles
<1>1. CASE Prepare \/ InputsTaken \/ VolumeRecorded \/ ContainerRecorded \/ PrepareFails \/ Call \/ CallRefused \/ CallEnds \/ CallAborted
  BY <1>1 DEF Prepare, InputsTaken, VolumeRecorded, ContainerRecorded, PrepareFails, Call, CallRefused, CallEnds, CallAborted
<1>2. CASE Prepared \/ Bound \/ TaskEnds \/ CancelSession \/ WorkerDies
  BY <1>2 DEF Prepared, Bound, TaskEnds, CancelSession, WorkerDies, Typed
<1>3. CASE VolumeCreated \/ ContainerCreated \/ Started \/ Exec
  BY <1>3 DEF VolumeCreated, ContainerCreated, Started, Exec
<1>4. CASE Write
  BY <1>4 DEF Write
<1> QED
  BY <1>1, <1>2, <1>3, <1>4 DEF Worker

LEMMA WorkerTyped ==
    ASSUME Typed, Worker, out' = out
    PROVE  Typed'
<1>1. docker' \in Daemon
  <2>1. docker \in Daemon /\ docker.content \in Nat /\ MaxWrites \in Nat
    BY WritesAssumption DEF Typed, Daemon, Content
  <2>2. WorkerHandles
    BY WorkerAsks
  <2>3. docker.content < MaxWrites => docker.content + 1 \in 0..MaxWrites
    BY <2>1
  <2> QED
    BY <2>1, <2>2, <2>3 DEF WorkerHandles, Daemon, Content
<1>2. /\ file' \in State \cup {Nothing}
      /\ copy' \in [{"worker", "runner", "helper"} -> State]
      /\ copy'["worker"] \in WorkerState
  <2>1. CASE NoRecord
    BY <2>1 DEF NoRecord, Typed
  <2>2. CASE file' = file /\ copy' = [copy EXCEPT !["worker"] = Fresh]
    BY <2>2, WorkerWrites DEF Typed
  <2>3. ASSUME NEW state \in WorkerState, Record("task", state)
        PROVE  /\ file' \in State \cup {Nothing}
               /\ copy' \in [{"worker", "runner", "helper"} -> State]
               /\ copy'["worker"] \in WorkerState
    BY <2>3, WorkerRecords
  <2> QED
    BY <2>1, <2>2, <2>3, WorkerSaves
<1>3. live' \subseteq {"worker", "controller"} /\ cancelled' \in BOOLEAN /\ admission' \in BOOLEAN
  <2>1. live' \subseteq {"worker", "controller"}
    BY WorkerAsks DEF WorkerDies, Typed
  <2>2. cancelled' \in BOOLEAN
    BY WorkerAsks DEF CancelSession, WorkerDies, Typed
  <2>3. admission' \in BOOLEAN
    BY WorkerAsks DEF Prepared, Typed
  <2> QED
    BY <2>1, <2>2, <2>3
<1> QED
  BY <1>1, <1>2, <1>3, WorkerAsks DEF Typed

LEMMA OutsideTyped ==
    ASSUME Placed, Typed, Admitted, Outside
    PROVE  Typed'
<1> USE DEF Typed, world, execution, NoRecord, Turns
<1>1. CASE Freeze \/ RunReturns \/ JudgeCandidate
  BY <1>1, RunnerMoves DEF Freeze, RunReturns, JudgeCandidate, Takes
<1>2. CASE VerifierExits
  BY <1>2 DEF VerifierExits, Daemon
<1>3. CASE Choose
  <2>1. at["helper"] = "choose"
    BY <1>3 DEF Choose
  <2>2. file.path \in Destination \cup {Nothing}
    BY <2>1 DEF Admitted, StopSteps, Stops, State
  <2> QED
    BY <1>3, <2>1, <2>2 DEF Choose, Destination
<1>4. CASE StopCalled
  BY <1>4, HelperMoves DEF StopCalled, Takes
<1>5. CASE StopProved \/ StopUnconfirmed
  BY <1>5 DEF StopProved, StopUnconfirmed, StopReturns
<1>6. CASE PreserveWork \/ ControllerDies \/ HelperDies
  BY <1>6, WorkerWrites, RunnerMoves, HelperMoves, PreserveMoves DEF PreserveWork, ControllerDies, HelperDies, Takes
<1>7. CASE Operate
  BY <1>7, OperateMoves DEF Operate
<1> QED
  BY <1>1, <1>2, <1>3, <1>4, <1>5, <1>6, <1>7 DEF Outside

LEMMA TypedHolds ==
    ASSUME Placed, Typed, Living, Admitted, SandboxNext
    PROVE  Typed'
<1>1. Worker => out' = out
  <2>1. Write => out' = out
    BY DEF Write
  <2>2. CancelSession => out' = out
    BY DEF CancelSession
  <2> QED
    BY <2>1, <2>2, PreparationMoves, StoppingMoves, BoundMoves, DeathMoves DEF Worker, Steps, StopsFor
<1> QED
  BY <1>1, WorkerTyped, OutsideTyped, OperationTyped DEF SandboxNext

-----------------------------------------------------------------------------
(* Who is alive, and who may work.                                         *)

LEMMA OperationLiving ==
    ASSUME Placed, Typed, Living, NEW t \in Thread, Operation(t)
    PROVE  Living'
<1>1. /\ Moves(t) /\ Placed' /\ Only(t) /\ UNCHANGED execution
      /\ "task" \in Thread /\ "cancel" \in Thread /\ "runner" \in Thread /\ "helper" \in Thread
  BY OperationKeeps DEF Keeps, Thread
<1> USE <1>1 DEF execution, Only
<1>2. CASE t = "task"
  <2>1. at["task"] \in StopSteps /\ at'["task"] \in StopSteps \cup {"gone", "ready", "settled", "ended", "failed"}
    BY <1>2, TaskPlaces
  <2>2. StopsOnly => StopsOnly'
    BY <1>2 DEF StopsOnly
  <2> QED
    BY <1>2, <2>1, <2>2 DEF Living, StopSteps, Stops, Preparing
<1>3. CASE t = "cancel"
  <2>1. at["cancel"] \in StopSteps /\ at'["cancel"] \in StopSteps \cup {"end", "failed"}
    BY <1>3, CancelPlaces
  <2>2. StopsOnly => StopsOnly'
    BY <1>3 DEF StopsOnly
  <2> QED
    BY <1>3, <2>1, <2>2 DEF Living, StopSteps, Stops
<1>4. CASE t = "runner"
  <2>1. at["runner"] \notin {"waiting", "dead", "end", "failed", "frozen"} /\ at'["runner"] \notin {"waiting", "dead", "load"}
    BY <1>4, RunnerPlaces
  <2>2. StopsOnly => StopsOnly'
    BY <1>4 DEF StopsOnly
  <2> QED
    BY <1>4, <2>1, <2>2 DEF Living
<1>5. CASE t = "helper"
  <2>1. at["helper"] \notin {"off", "end", "failed", "choose"} /\ (StopsOnly => StopsOnly')
    BY <1>5, HelperPlaces
  <2> QED
    BY <1>5, <2>1 DEF Living
<1> QED
  BY <1>2, <1>3, <1>4, <1>5 DEF Thread

\* Where the worker's own steps begin and end.
LEMMA WorkerMoves ==
    ASSUME Placed, Worker, ~CancelSession, ~WorkerDies, ~Write
    PROVE  /\ Placed' /\ out' = out /\ Only("task")
           /\ at["task"] \in Preparing \cup {"new", "binding", "ready", "calling", "polling"}
           /\ at'["task"] \in Preparing \cup {"binding", "ready", "calling", "polling", "stop"}
           /\ at'["task"] \in Preparing => at["task"] \in Preparing \cup {"new"}
           /\ at'["task"] = "calling" => Call
           /\ at["task"] \in {"new"} \cup Preparing => at'["task"] \notin {"ready", "calling", "polling"}
<1>1. CASE PrepareFails \/ CallAborted \/ TaskEnds
  BY <1>1, StoppingMoves DEF StopsFor, Preparing
<1>2. CASE Bound
  <2>1. at["task"] = "binding"
    BY <1>2 DEF Bound
  <2> QED
    BY <1>2, <2>1, BoundMoves DEF Preparing
<1>3. CASE Prepare \/ InputsTaken \/ VolumeCreated \/ VolumeRecorded \/ ContainerCreated \/ ContainerRecorded \/ Started \/ Prepared
  BY <1>3, PreparationMoves DEF Steps, Preparing
<1>4. CASE Call \/ Exec \/ CallRefused \/ CallEnds
  BY <1>4, PreparationMoves DEF Steps, Preparing
<1> QED
  BY <1>1, <1>2, <1>3, <1>4 DEF Worker

LEMMA WorkerLiving ==
    ASSUME Placed, Typed, Living, Worker
    PROVE  Living'
<1> USE DEF Thread
<1>1. CASE Write
  BY <1>1 DEF Write, execution, Living, StopsOnly
<1>2. CASE CancelSession
  <2>1. /\ \A u \in Thread \ {"cancel"} : at'[u] = at[u]
        /\ at'["cancel"] = IF HasBox THEN "stop" ELSE at["cancel"]
        /\ todo' = todo /\ live' = live /\ halt' = halt /\ "worker" \in live
    BY <1>2, CancelMoves DEF CancelSession, Living, Typed
  <2>2. at'["cancel"] # "dead" /\ (at["task"] \in Preparing \cup {"new"} => at'["cancel"] = at["cancel"])
    BY <2>1 DEF HasBox, Living
  <2> QED
    BY <2>1, <2>2 DEF Living, StopsOnly
<1>3. CASE WorkerDies
  <2>1. /\ at'["task"] = IF at["task"] \in {"settled", "ended"} THEN at["task"] ELSE "dead"
        /\ at'["cancel"] = "dead"
        /\ \A u \in {"runner", "helper"} : at'[u] = at[u] /\ todo'[u] = todo[u]
        /\ live' = live \ {"worker"} /\ halt' = halt
    BY <1>3, DeathMoves DEF WorkerDies
  <2> QED
    BY <2>1 DEF Living, StopsOnly, Preparing
<1>4. CASE ~Write /\ ~CancelSession /\ ~WorkerDies
  <2>1. live' = live /\ halt' = halt
    BY <1>4, WorkerAsks
  <2>2. /\ at'["cancel"] = at["cancel"] /\ at'["runner"] = at["runner"]
        /\ at'["helper"] = at["helper"] /\ todo'["helper"] = todo["helper"]
    BY <1>4, WorkerMoves DEF Only
  <2>3. at["task"] \notin {"settled", "ended", "dead"} /\ at'["task"] \notin {"new", "dead"}
    BY <1>4, WorkerMoves DEF Preparing
  <2> QED
    BY <1>4, <2>1, <2>2, <2>3, WorkerMoves DEF Living, StopsOnly
<1> QED
  BY <1>1, <1>2, <1>3, <1>4

LEMMA OutsideLiving ==
    ASSUME Placed, Typed, Living, Halting, Outside
    PROVE  Living'
<1> USE DEF Thread
<1>1. CASE Freeze \/ RunReturns
  <2>1. /\ at'["task"] = at["task"] /\ at'["cancel"] = at["cancel"] /\ at'["helper"] = at["helper"]
        /\ todo'["helper"] = todo["helper"] /\ at'["runner"] \in {"load", "end"} /\ at["runner"] = "waiting"
        /\ (at'["runner"] = "load" => at["task"] = "settled") /\ at["task"] \in {"settled", "ended"}
        /\ live' = live /\ halt' = halt
    BY <1>1, RunnerMoves DEF Takes, Only, Freeze, RunReturns, Turns, world, execution
  <2> QED
    BY <2>1 DEF Living, StopsOnly
<1>2. CASE JudgeCandidate
  <2>1. /\ at'["task"] = at["task"] /\ at'["cancel"] = at["cancel"] /\ at'["helper"] = at["helper"]
        /\ todo'["helper"] = todo["helper"] /\ at'["runner"] = "load" /\ at["runner"] = "frozen"
        /\ live' = live /\ halt' = halt
    BY <1>2, RunnerMoves DEF Takes, Only, JudgeCandidate, Turns, world, execution
  <2> QED
    BY <2>1 DEF Living, StopsOnly
<1>3. CASE VerifierExits
  BY <1>3 DEF VerifierExits, execution, Living, StopsOnly
<1>4. CASE Choose
  <2>1. /\ at'["task"] = at["task"] /\ at'["cancel"] = at["cancel"] /\ at'["runner"] = at["runner"]
        /\ at["helper"] = "choose" /\ live' = live /\ halt' = halt
    BY <1>4, HelperMoves DEF Only, Choose, world, execution
  <2>2. ~StopsOnly
    BY <2>1 DEF StopsOnly, StopSteps, Stops
  <2> QED
    BY <2>1, <2>2 DEF Living
<1>5. CASE StopCalled
  <2>1. live' = live /\ halt = "no" /\ halt' = "called" /\ "controller" \in live
    BY <1>5 DEF StopCalled
  <2>2. CASE at["runner"] = "waiting"
    <3>1. /\ at'["task"] = at["task"] /\ at'["cancel"] = at["cancel"] /\ at'["runner"] = at["runner"]
          /\ at'["helper"] = "load" /\ todo'["helper"] = <<"stop">>
      BY <1>5, <2>2, HelperMoves DEF Only, Takes
    <3> QED
      BY <2>1, <3>1 DEF Living, StopsOnly
  <2>3. CASE at["runner"] # "waiting"
    BY <1>5, <2>1, <2>3 DEF StopCalled, Living, StopsOnly
  <2> QED
    BY <2>2, <2>3
<1>6. CASE StopProved \/ StopUnconfirmed
  BY <1>6 DEF StopProved, StopUnconfirmed, StopReturns, Living, StopsOnly
<1>7. CASE PreserveWork
  <2>1. /\ at'["task"] = at["task"] /\ at'["cancel"] = at["cancel"] /\ at'["runner"] = "dead"
        /\ live' = live \ {"controller"} /\ halt' = halt /\ halt \in {"confirmed", "unconfirmed"}
    BY <1>7, PreserveMoves DEF PreserveWork
  <2>2. "worker" \in live => halt = "unconfirmed"
    BY <2>1 DEF Halting
  <2> QED
    BY <2>1, <2>2 DEF Living
<1>8. CASE ControllerDies
  <2>1. /\ at'["task"] = at["task"] /\ at'["cancel"] = at["cancel"] /\ at'["helper"] = at["helper"]
        /\ todo'["helper"] = todo["helper"] /\ at'["runner"] = "dead"
        /\ live' = live \ {"controller"} /\ halt' = halt /\ "controller" \in live
    BY <1>8, RunnerMoves DEF Takes, Only, ControllerDies
  <2> QED
    BY <2>1 DEF Living, StopsOnly
<1>9. CASE HelperDies
  <2>1. /\ at'["task"] = at["task"] /\ at'["cancel"] = at["cancel"] /\ at'["runner"] = at["runner"]
        /\ at'["helper"] = "failed" /\ todo'["helper"] = <<>> /\ at["helper"] # "off"
        /\ live' = live /\ halt' = halt
    BY <1>9, HelperMoves DEF Takes, Only, HelperDies, world, execution
  <2> QED
    BY <2>1 DEF Living, StopsOnly
<1>10. CASE Operate
  <2>1. /\ at'["task"] = at["task"] /\ at'["cancel"] = at["cancel"] /\ at'["runner"] = at["runner"]
        /\ live' = live /\ halt' = halt /\ live = {}
    BY <1>10, OperateMoves DEF Only, Operate, world, execution
  <2> QED
    BY <2>1 DEF Living
<1> QED
  BY <1>1, <1>2, <1>3, <1>4, <1>5, <1>6, <1>7, <1>8, <1>9, <1>10 DEF Outside

LEMMA LivingHolds ==
    ASSUME Placed, Typed, Living, Halting, SandboxNext
    PROVE  Living'
BY OperationLiving, WorkerLiving, OutsideLiving DEF SandboxNext

-----------------------------------------------------------------------------
(* Calls are admitted only in the loop.                                    *)

LEMMA AtLoad ==
    ASSUME NEW t \in Thread, Operation(t), at[t] = "load"
    PROVE  Load(t)
BY DEF Operation, Asks, Records, Goes, Fails, StopIntent, VerifiersStopped, BoxStopped, StopConfirmed,
       StopFails, VerifyIntent, VerifierCreated, VerifierFails, VerifierStarted, VerifierReaped, VerifyResult,
       VerifiersRemoved, ReaderKnown, ReaderNeeded, ReaderCreated, ReaderRecorded, ExportIntent, Look, CopyOut,
       Commit, Committed, ExportFailed, CleanupIntent, BoxDropped, VolumeDropped, Cleaned, Throwing, Exports

LEMMA LoadsNothing ==
    ASSUME Placed, Load("helper"), file = Nothing
    PROVE  at'["helper"] = "end" /\ docker' = docker
<1>1. Head(<<"end">>) = "end" /\ Perform("helper", <<"end">>) /\ docker' = docker
  BY DEF Load, world
<1> QED
  BY <1>1 DEF Perform, Placed, Thread

LEMMA RecordNotNothing ==
    ASSUME Typed, NEW t \in Thread, Saves(t), file' = Nothing
    PROVE  NoRecord /\ file = Nothing
BY NothingIsNone, WrittenTyped DEF Saves, NoRecord, Record

LEMMA OperationAdmitted ==
    ASSUME Placed, Typed, Living, Admitted, NEW t \in Thread, Operation(t)
    PROVE  Admitted'
<1>1. /\ Moves(t) /\ Placed' /\ Only(t) /\ UNCHANGED execution /\ Saves(t)
      /\ \A h \in {"worker", "runner", "helper"} \ {Holder(t)} : copy'[h] = copy[h]
      /\ "task" \in Thread /\ "cancel" \in Thread /\ "runner" \in Thread /\ "helper" \in Thread
  BY OperationKeeps, OperationSaves DEF Keeps, Thread
<1>2. /\ t = "task" => at["task"] \in StopSteps
      /\ t = "cancel" => at["cancel"] \in StopSteps
      /\ t = "runner" => at["runner"] \notin {"waiting", "dead", "end", "failed", "frozen"}
      /\ t = "helper" => at["helper"] \notin {"off", "end", "failed", "choose"}
  BY <1>1, TaskPlaces, CancelPlaces, RunnerPlaces, HelperPlaces
<1>3. ASSUME admission'
      PROVE  /\ ("worker" \in live /\ copy["worker"].phase = "running" /\ at["cancel"] = "off")'
             /\ at'["task"] \in {"binding", "ready", "calling", "polling"}
             /\ cancelled' => at'["task"] = "binding"
  <2>1. admission /\ t \in {"runner", "helper"}
    BY <1>1, <1>2, <1>3 DEF execution, Admitted, StopSteps, Stops, Thread
  <2>2. copy'["worker"] = copy["worker"] /\ at'["task"] = at["task"] /\ at'["cancel"] = at["cancel"]
    BY <1>1, <2>1 DEF Holder, Only
  <2> QED
    BY <1>1, <2>1, <2>2 DEF Admitted, execution
<1>4. ASSUME file' = Nothing
      PROVE  /\ at'["task"] \in {"new", "dead"} /\ docker'.box = "absent"
             /\ at'["helper"] \in {"off", "load", "end", "failed"}
  <2>1. file = Nothing
    BY <1>1, <1>4, RecordNotNothing
  <2>2. t = "helper" /\ at["helper"] = "load"
    BY <1>2, <2>1 DEF Admitted, Living, StopSteps, Stops, Thread
  <2>3. at'["helper"] = "end" /\ docker' = docker
    BY <2>1, <2>2, AtLoad, LoadsNothing
  <2> QED
    BY <1>1, <2>1, <2>2, <2>3 DEF Admitted, Only
<1> QED
  BY <1>3, <1>4 DEF Admitted

LEMMA WorkerAdmitted ==
    ASSUME Placed, Typed, Living, Admitted, Worker
    PROVE  Admitted'
<1> USE DEF Thread
<1>1. CASE Write
  BY <1>1 DEF Write, execution, Admitted, NoRecord
<1>2. CASE CancelSession
  <2>1. /\ \A u \in Thread \ {"cancel"} : at'[u] = at[u]
        /\ at'["cancel"] = IF HasBox THEN "stop" ELSE at["cancel"]
        /\ todo' = todo /\ live' = live /\ file' = file /\ copy' = copy /\ docker' = docker
        /\ admission' = (admission /\ ~HasBox)
    BY <1>2, CancelMoves DEF CancelSession, Living, Typed, NoRecord
  <2>2. admission => HasBox
    <3>1. ASSUME admission PROVE  todo["task"] = <<>>
      BY <3>1 DEF Admitted, Placed, Rests, StopSteps, Stops
    <3>2. <<>> # <<"gone">>
      OBVIOUS
    <3> QED
      BY <3>1, <3>2 DEF HasBox, Admitted, Preparing
  <2> QED
    BY <2>1, <2>2 DEF Admitted
<1>3. CASE WorkerDies
  <2>1. /\ at'["task"] = IF at["task"] \in {"settled", "ended"} THEN at["task"] ELSE "dead"
        /\ at'["helper"] = at["helper"]
        /\ admission' = FALSE /\ file' = file /\ docker' = docker
    BY <1>3, DeathMoves DEF WorkerDies
  <2> QED
    BY <2>1 DEF Admitted
<1>4. CASE ~Write /\ ~CancelSession /\ ~WorkerDies
  <2>1. /\ live' = live /\ halt' = halt /\ cancelled' = cancelled
        /\ (admission' = admission \/ (admission' = FALSE) \/ Prepared)
    BY <1>4, WorkerAsks
  <2>2. at'["cancel"] = at["cancel"] /\ at'["helper"] = at["helper"]
    BY <1>4, WorkerMoves DEF Only
  <2>3. "worker" \in live
    BY <1>4, WorkerMoves DEF Living, Preparing
  <2>4. ASSUME Prepared
        PROVE  /\ copy'["worker"].phase = "running" /\ at["cancel"] = "off" /\ at'["task"] = "binding"
    <3>1. Record("task", [My("task") EXCEPT !.phase = "running"]) /\ at["task"] = "started"
      BY <2>4 DEF Prepared
    <3>2. copy'["worker"] = [My("task") EXCEPT !.phase = "running"] /\ My("task") \in WorkerState
      BY <3>1, WorkerRecords, WorkerWrites DEF Typed
    <3>3. copy'["worker"].phase = "running"
      BY <3>2 DEF WorkerState
    <3>4. at'["task"] = "binding"
      BY <2>4, PreparationMoves DEF Steps
    <3> QED
      BY <3>1, <3>3, <3>4, <2>3 DEF Living, Preparing
  <2>5. ASSUME admission, admission', ~Prepared
        PROVE  /\ copy'["worker"].phase = "running"
               /\ at'["task"] \in {"binding", "ready", "calling", "polling"} /\ ~cancelled
    <3>1. at["task"] \in {"binding", "ready", "calling", "polling"}
      BY <2>5 DEF Admitted
    <3>2. ~Prepare
      BY <3>1, PreparationMoves DEF Steps
    <3>3. copy'["worker"].phase = "running"
      <4>1. CASE NoRecord
        BY <2>5, <4>1 DEF NoRecord, Admitted
      <4>2. ASSUME NEW state \in WorkerState, Record("task", state), state.phase = copy["worker"].phase
            PROVE  copy'["worker"].phase = "running"
        BY <2>5, <4>2, WorkerRecords DEF Admitted
      <4> QED
        BY <1>4, <2>5, <3>2, <4>1, <4>2, WorkerSaves
    <3>4. ~PrepareFails /\ ~CallAborted /\ ~TaskEnds /\ (Bound => ~cancelled)
      <4>1. ~PrepareFails
        BY <3>1 DEF PrepareFails, Preparing
      <4>2. ~CallAborted
        BY <2>5 DEF CallAborted, Turns, Admitted
      <4>3. ~TaskEnds /\ (Bound => ~cancelled)
        BY <2>5 DEF TaskEnds, Bound
      <4> QED
        BY <4>1, <4>2, <4>3
    <3>5. at'["task"] \in {"binding", "ready", "calling", "polling"}
      <4>1. CASE Bound
        BY <3>4, <4>1, BoundMoves
      <4>2. CASE ~Bound
        BY <1>4, <2>5, <3>1, <3>2, <3>4, <4>2, PreparationMoves DEF Worker, Steps
      <4> QED
        BY <4>1, <4>2
    <3>6. ~cancelled
      <4>1. CASE at["task"] = "binding"
        <5>1. Bound
          BY <1>4, <2>5, <3>2, <3>4, <4>1, PreparationMoves DEF Worker, Steps
        <5> QED
          BY <3>4, <5>1
      <4>2. CASE at["task"] # "binding"
        BY <2>5, <4>2 DEF Admitted
      <4> QED
        BY <4>1, <4>2
    <3> QED
      BY <3>3, <3>5, <3>6
  <2>6. ASSUME file' = Nothing PROVE FALSE
    <3>1. file = Nothing
      <4>1. ASSUME NEW state \in WorkerState, Record("task", state) PROVE FALSE
        BY <2>6, <4>1, WorkerRecords, NothingIsNone
      <4> QED
        BY <1>4, <2>6, <4>1, WorkerSaves DEF NoRecord
    <3>2. at["task"] = "new"
      BY <1>4, <3>1, WorkerMoves DEF Admitted, Preparing
    <3>3. Prepare
      BY <1>4, <3>2, PreparationMoves, StoppingMoves DEF Worker, Steps, StopsFor, Preparing, Bound
    <3> QED
      BY <2>6, <3>3, WorkerWrites, WorkerRecords, NothingIsNone DEF Prepare, Records
  <2> QED
    BY <2>1, <2>2, <2>3, <2>4, <2>5, <2>6 DEF Admitted
<1> QED
  BY <1>1, <1>2, <1>3, <1>4

LEMMA OutsideAdmitted ==
    ASSUME Placed, Typed, Admitted, Outside
    PROVE  Admitted'
<1> USE DEF Thread, NoRecord, world, execution, Turns
<1>1. CASE Freeze \/ RunReturns \/ JudgeCandidate
  BY <1>1, RunnerMoves DEF Freeze, RunReturns, JudgeCandidate, Takes, Only, Admitted
<1>2. CASE VerifierExits
  BY <1>2 DEF VerifierExits, Admitted, Typed, Daemon
<1>3. CASE Choose
  <2>1. at["helper"] = "choose" /\ file' = file /\ copy' = copy /\ docker' = docker
          /\ live' = live /\ admission' = admission /\ cancelled' = cancelled
    BY <1>3 DEF Choose
  <2>2. file # Nothing
    BY <2>1 DEF Admitted, StopSteps, Stops
  <2> QED
    BY <1>3, <2>1, <2>2, HelperMoves DEF Only, Admitted
<1>4. CASE StopCalled
  <2>1. file' = file /\ copy' = copy /\ docker' = docker
          /\ live' = live /\ admission' = admission /\ cancelled' = cancelled
    BY <1>4 DEF StopCalled
  <2>2. at'["task"] = at["task"] /\ at'["cancel"] = at["cancel"] /\ at'["helper"] \in {at["helper"], "load"}
    <3>1. CASE at["runner"] = "waiting"
      BY <1>4, <3>1, HelperMoves DEF Takes, Only
    <3>2. CASE at["runner"] # "waiting"
      BY <1>4, <3>2 DEF StopCalled
    <3> QED
      BY <3>1, <3>2
  <2> QED
    BY <2>1, <2>2 DEF Admitted
<1>5. CASE StopProved \/ StopUnconfirmed
  BY <1>5 DEF StopProved, StopUnconfirmed, StopReturns, Admitted
<1>6. CASE PreserveWork
  <2>1. /\ file' = file /\ copy'["worker"] = copy["worker"] /\ docker' = docker
        /\ admission' = admission /\ cancelled' = cancelled /\ ("worker" \in live' <=> "worker" \in live)
    BY <1>6 DEF PreserveWork, Typed
  <2>2. at'["task"] = at["task"] /\ at'["cancel"] = at["cancel"] /\ at'["helper"] = "load"
    BY <1>6, PreserveMoves
  <2> QED
    BY <2>1, <2>2 DEF Admitted
<1>7. CASE ControllerDies
  <2>1. /\ file' = file /\ copy'["worker"] = copy["worker"] /\ docker' = docker
        /\ admission' = admission /\ cancelled' = cancelled /\ ("worker" \in live' <=> "worker" \in live)
    BY <1>7 DEF ControllerDies, Typed
  <2>2. at'["task"] = at["task"] /\ at'["cancel"] = at["cancel"] /\ at'["helper"] = at["helper"]
    BY <1>7, RunnerMoves DEF Takes, Only
  <2> QED
    BY <2>1, <2>2 DEF Admitted
<1>8. CASE HelperDies
  <2>1. /\ file' = file /\ copy'["worker"] = copy["worker"] /\ docker' = docker
        /\ admission' = admission /\ cancelled' = cancelled /\ live' = live
    BY <1>8 DEF HelperDies, Typed
  <2>2. at'["task"] = at["task"] /\ at'["cancel"] = at["cancel"] /\ at'["helper"] = "failed"
    BY <1>8, HelperMoves DEF Takes, Only
  <2> QED
    BY <2>1, <2>2 DEF Admitted
<1>9. CASE Operate
  BY <1>9, OperateMoves DEF Only, Operate, Admitted
<1> QED
  BY <1>1, <1>2, <1>3, <1>4, <1>5, <1>6, <1>7, <1>8, <1>9 DEF Outside

LEMMA AdmittedHolds ==
    ASSUME Placed, Typed, Living, Admitted, SandboxNext
    PROVE  Admitted'
BY OperationAdmitted, WorkerAdmitted, OutsideAdmitted DEF SandboxNext

-----------------------------------------------------------------------------
(* Containers and volume.                                                  *)

\* Operations by the step they begin at.
LEMMA AtVerify ==
    ASSUME NEW t \in Thread, Operation(t), at[t] = "verify"
    PROVE  VerifyIntent(t) \/ Fails(t)
BY DEF Operation, Asks, Records, Goes, Load, StopIntent, VerifiersStopped, BoxStopped, StopConfirmed,
       StopFails, VerifierCreated, VerifierFails, VerifierStarted, VerifierReaped, VerifyResult,
       VerifiersRemoved, ReaderKnown, ReaderNeeded, ReaderCreated, ReaderRecorded, ExportIntent, Look, CopyOut,
       Commit, Committed, ExportFailed, CleanupIntent, BoxDropped, VolumeDropped, Cleaned

LEMMA AtStops ==
    ASSUME NEW t \in Thread, Operation(t), at[t] \in StopSteps
    PROVE  StopIntent(t) \/ VerifiersStopped(t) \/ BoxStopped(t) \/ StopConfirmed(t) \/ StopFails(t) \/ Fails(t)
BY DEF Operation, Asks, Records, Goes, Load, VerifyIntent, VerifierCreated, VerifierFails, VerifierStarted,
       VerifierReaped, VerifyResult, VerifiersRemoved, ReaderKnown, ReaderNeeded, ReaderCreated, ReaderRecorded,
       ExportIntent, Look, CopyOut, Commit, Committed, ExportFailed, CleanupIntent, BoxDropped, VolumeDropped, Cleaned,
       StopSteps, Stops

LEMMA StopBegins ==
    ASSUME Placed, NEW t \in Thread, StopIntent(t), My(t).phase \notin {"archived", "cleaned"}
    PROVE  at'[t] = "stopVerifiers" /\ at[t] = "stop"
BY DEF StopIntent, Records, Goes, Goto, Placed

LEMMA StopGoesOn ==
    ASSUME Placed, NEW t \in Thread
    PROVE  /\ VerifiersStopped(t) => at'[t] = "stopBox"
           /\ BoxStopped(t) => at'[t] = "confirm"
BY DEF VerifiersStopped, BoxStopped, Asks, Goto, Placed

LEMMA StopThrows ==
    ASSUME Placed, NEW t \in Thread, StopFails(t)
    PROVE  /\ at[t] \in {"stopBox", "confirm"}
           /\ at'[t] = "failed" \/ (t = "task" /\ at'[t] \in {"stop", "gone", "ready"})
<1>1. Goto(t, "throw") /\ at[t] \in {"stopBox", "confirm"}
  BY DEF StopFails, Records
<1> QED
  BY <1>1, Throws DEF StopSteps, Stops

\* A stop that returns has found that the box does not run.
LEMMA TaskStopped ==
    ASSUME Placed, Typed, Operation("task"), at'["task"] \in {"settled", "ended"}
    PROVE  StopConfirmed("task")
<1>1. "task" \in Thread /\ at["task"] \in StopSteps
  BY OperationKeeps, TaskPlaces DEF Keeps, Thread
<1>2. My("task").phase \notin {"archived", "cleaned"}
  BY DEF Typed, My, Holder, WorkerState
<1> QED
  BY <1>1, <1>2, AtStops, StopBegins, StopGoesOn, StopThrows, FailKeeps

LEMMA NotRunning ==
    ASSUME Typed, NEW t \in Thread, ~Runs(My(t)), My(t).id # "reader"
    PROVE  docker.box # "running"
<1>1. My(t) \in State
  BY DEF Typed, My, Holder, Thread
<1> QED
  BY <1>1 DEF Runs, Found, State

LEMMA ToVerifier ==
    ASSUME Placed, Placed', NEW t \in Thread, Moves(t), at'[t] = "verifierCreate"
    PROVE  at[t] = "verify"
<1>1. todo[t] \in Rests(t, at[t])
  BY DEF Placed
<1>2. at[t] \in Returning /\ todo[t] # <<>> => Head(todo[t]) # "verifierCreate"
  <2>1. CASE t = "task"
    BY <1>1, <2>1, TaskReads, TaskPlaces DEF Rests, Reads
  <2>2. CASE t = "cancel"
    BY <1>1, <2>2, CancelPlaces DEF Rests
  <2>3. CASE t = "runner"
    BY <1>1, <2>3, RunnerReads DEF Returning, Rests, StopSteps, Stops, VerifySteps, ReaderSteps, ExportSteps, Exports, Reads
  <2>4. CASE t = "helper"
    BY <1>1, <2>4, LoadReads, StopReads, HelperReads
    DEF Returning, Rests, StopSteps, Stops, VerifySteps, ReaderSteps, ExportSteps, Exports, CleanupSteps, Reads
  <2> QED
    BY <2>1, <2>2, <2>3, <2>4 DEF Thread
<1> QED
  BY <1>2 DEF Moves, Follows

LEMMA OperationMounted ==
    ASSUME Placed, Typed, Living, Mounted, NEW t \in Thread, Operation(t)
    PROVE  Mounted'
<1>1. /\ Moves(t) /\ Placed' /\ Only(t) /\ Handles(t) /\ docker \in Daemon
      /\ "task" \in Thread /\ "cancel" \in Thread /\ "runner" \in Thread /\ "helper" \in Thread
  BY OperationKeeps, OperationHandles DEF Keeps, Thread, Typed
<1>2. /\ t = "task" => at["task"] \in StopSteps
      /\ t = "cancel" => at["cancel"] \in StopSteps
  BY <1>1, TaskPlaces, CancelPlaces
<1>3. at[t] \in {"verifierCreate", "dropVolume"} => t \in {"runner", "helper"}
  BY <1>2 DEF StopSteps, Stops, Thread
<1>4. docker'.shell => docker'.box = "running"
  BY <1>1 DEF Handles, Mounted, Daemon
<1>5. docker'.box # "absent" \/ docker'.verifier # "absent" => docker'.volume
  <2>1. at[t] = "verifierCreate" => docker.volume
    BY <1>3 DEF Mounted
  <2>2. CASE docker' = [docker EXCEPT !.volume = FALSE] /\ (docker.volume => ~InUse)
    BY <1>1, <2>2 DEF Mounted, Daemon, InUse
  <2>3. CASE docker' = docker
    BY <2>3 DEF Mounted
  <2>8. CASE docker' = [docker EXCEPT !.verifier = "absent"]
    BY <1>1, <2>8 DEF Mounted, Daemon
  <2>9. CASE docker.verifier = "running" /\ docker' = [docker EXCEPT !.verifier = "exited"]
    BY <1>1, <2>9 DEF Mounted, Daemon
  <2>10. CASE docker.box = "running" /\ docker' = [docker EXCEPT !.box = "exited", !.shell = FALSE]
    BY <1>1, <2>10 DEF Mounted, Daemon
  <2>4. CASE at[t] = "verifierCreate" /\ docker' = [docker EXCEPT !.verifier = "created"]
    BY <1>1, <2>1, <2>4 DEF Daemon
  <2>5. CASE at[t] = "verifierStart" /\ docker.volume /\ docker' = [docker EXCEPT !.verifier = "running"]
    BY <1>1, <2>5 DEF Daemon
  <2>6. CASE docker.box = "absent" /\ docker' = [docker EXCEPT !.box = "reader", !.volume = TRUE]
    BY <1>1, <2>6 DEF Daemon
  <2>7. CASE docker.box # "running" /\ docker' = [docker EXCEPT !.box = "absent"]
    BY <1>1, <2>7 DEF Mounted, Daemon
  <2> QED
    BY <1>1, <2>2, <2>3, <2>4, <2>5, <2>6, <2>7, <2>8, <2>9, <2>10 DEF Handles
<1>6. at'["task"] \in {"settled", "ended"} => docker'.box # "running"
  <2>1. CASE t = "task"
    <3>1. ASSUME StopConfirmed("task") PROVE docker'.box # "running"
      <4>1. My("task").id # "reader" /\ ~Runs(My("task")) /\ docker' = docker
        BY <3>1, NothingIsNone DEF Typed, My, Holder, WorkerState, StopConfirmed, Records, world
      <4> QED
        BY <1>1, <4>1, NotRunning
    <3> QED
      BY <2>1, <3>1, TaskStopped
  <2>2. CASE t # "task"
    <3>1. at'["task"] = at["task"] /\ (docker'.box = "running" => docker.box = "running")
      BY <1>1, <2>2 DEF Only, Handles, Daemon
    <3> QED
      BY <3>1 DEF Mounted
  <2> QED
    BY <2>1, <2>2
<1>7. at'["runner"] = "verifierCreate" \/ at'["helper"] = "verifierCreate" => docker'.volume
  <2>1. ASSUME NEW u \in {"runner", "helper"}, at'[u] = "verifierCreate"
        PROVE  docker'.volume
    <3>1. CASE u = t
      <4>1. at[t] = "verify"
        BY <1>1, <2>1, <3>1, ToVerifier
      <4>2. docker.volume
        <5>1. at'[t] = "verifierCreate"
          BY <2>1, <3>1
        <5>2. ~Fails(t)
          BY <5>1, FailKeeps
        <5>3. VerifyIntent(t)
          BY <4>1, <5>2, AtVerify
        <5> QED
          BY <5>3 DEF VerifyIntent
      <4> QED
        BY <1>1, <4>1, <4>2 DEF Handles, Daemon
    <3>2. CASE u # t
      <4>1. at[u] = "verifierCreate" /\ docker.volume
        BY <1>1, <2>1, <3>2 DEF Only, Mounted, Thread
      <4>2. at[t] # "dropVolume"
        <5>1. ASSUME at[t] = "dropVolume" PROVE FALSE
          <6>1. t = "helper" \/ t = "runner"
            BY <1>3, <5>1
          <6>2. t # "runner"
            BY <1>1, <5>1 DEF Placed, Rests, StopSteps, Stops, VerifySteps, ReaderSteps, ExportSteps, Exports
          <6>3. u = "runner" /\ ~StopsOnly
            BY <2>1, <3>2, <5>1, <6>1, <6>2 DEF StopsOnly, StopSteps, Stops
          <6> QED
            BY <4>1, <6>3 DEF Living
        <5> QED
          BY <5>1
      <4> QED
        BY <1>1, <4>1, <4>2 DEF Handles, Daemon
    <3> QED
      BY <3>1, <3>2
  <2> QED
    BY <2>1
<1> QED
  BY <1>4, <1>5, <1>6, <1>7 DEF Mounted

LEMMA WorkerMounted ==
    ASSUME Placed, Typed, Living, Mounted, Worker
    PROVE  Mounted'
<1>1. WorkerHandles /\ docker \in Daemon
  BY WorkerAsks DEF Typed
<1>2. /\ docker'.shell => docker'.box = "running"
      /\ docker'.box # "absent" \/ docker'.verifier # "absent" => docker'.volume
      /\ docker.volume => docker'.volume
      /\ docker'.box = "running" => docker.box = "running" \/ at["task"] = "starting"
  BY <1>1 DEF WorkerHandles, Mounted, Daemon
<1>3. at'["runner"] = at["runner"] /\ at'["helper"] = at["helper"]
      /\ (at'["task"] \in {"settled", "ended"} => at["task"] \in {"settled", "ended"})
  <2>1. CASE Write
    BY <2>1 DEF Write
  <2>2. CASE CancelSession
    BY <2>2, CancelMoves DEF Living, Typed, Thread
  <2>3. CASE WorkerDies
    BY <2>3, DeathMoves
  <2>4. CASE ~Write /\ ~CancelSession /\ ~WorkerDies
    BY <2>4, WorkerMoves DEF Only, Thread, Preparing
  <2> QED
    BY <2>1, <2>2, <2>3, <2>4
<1> QED
  BY <1>2, <1>3 DEF Mounted

LEMMA OutsideMoves ==
    ASSUME Placed, Outside
    PROVE  /\ at'["task"] = at["task"] /\ at'["cancel"] = at["cancel"]
           /\ todo'["task"] = todo["task"]
           /\ \/ at'["runner"] = at["runner"] /\ todo'["runner"] = todo["runner"]
              \/ Freeze \/ RunReturns \/ JudgeCandidate \/ PreserveWork \/ ControllerDies
           /\ at'["runner"] = at["runner"] \/ at'["runner"] \in {"load", "end", "dead"}
           /\ \/ at'["helper"] = at["helper"] /\ todo'["helper"] = todo["helper"]
              \/ at'["helper"] \in {"load", "stop", "failed"}
           /\ at'["helper"] = "stop" /\ at["helper"] # "stop" => Choose
<1> USE DEF Thread
<1>1. CASE Freeze \/ RunReturns \/ JudgeCandidate \/ ControllerDies
  BY <1>1, RunnerMoves DEF Takes, Only
<1>2. CASE VerifierExits \/ StopProved \/ StopUnconfirmed
  BY <1>2 DEF VerifierExits, StopProved, StopUnconfirmed, StopReturns
<1>3. CASE Choose
  BY <1>3, HelperMoves DEF Only
<1>4. CASE StopCalled
  <2>1. CASE at["runner"] = "waiting"
    BY <1>4, <2>1, HelperMoves DEF Takes, Only
  <2>2. CASE at["runner"] # "waiting"
    BY <1>4, <2>2 DEF StopCalled
  <2> QED
    BY <2>1, <2>2
<1>5. CASE PreserveWork
  BY <1>5, PreserveMoves
<1>6. CASE HelperDies
  BY <1>6, HelperMoves DEF Takes, Only
<1>7. CASE Operate
  BY <1>7, OperateMoves DEF Only
<1> QED
  BY <1>1, <1>2, <1>3, <1>4, <1>5, <1>6, <1>7 DEF Outside

\* What else a step outside the operations changes.
LEMMA OutsideKeeps ==
    ASSUME Outside, Typed
    PROVE  /\ file' = file /\ kept' = kept /\ cancelled' = cancelled /\ admission' = admission
           /\ docker' = docker \/ (docker.verifier = "running" /\ docker' = [docker EXCEPT !.verifier = "exited"])
           /\ copy'["worker"] = copy["worker"]
           /\ \A h \in {"runner", "helper"} : copy'[h] \in {copy[h], Fresh}
           /\ copy'["helper"] = copy["helper"] \/ HelperDies
           /\ copy'["runner"] = copy["runner"] \/ PreserveWork \/ ControllerDies
           /\ live' = live \/ live' = live \ {"controller"}
           /\ halt' = halt \/ StopCalled \/ StopProved \/ StopUnconfirmed
<1> USE DEF Typed, NoRecord, world, execution, Turns
<1>1. CASE Freeze \/ RunReturns \/ JudgeCandidate \/ Choose \/ Operate
  BY <1>1 DEF Freeze, RunReturns, JudgeCandidate, Choose, Operate
<1>2. CASE VerifierExits
  BY <1>2 DEF VerifierExits
<1>3. CASE StopCalled \/ StopProved \/ StopUnconfirmed
  BY <1>3 DEF StopCalled, StopProved, StopUnconfirmed, StopReturns
<1>4. CASE PreserveWork
  BY <1>4 DEF PreserveWork
<1>5. CASE ControllerDies
  BY <1>5 DEF ControllerDies
<1>6. CASE HelperDies
  BY <1>6 DEF HelperDies
<1> QED
  BY <1>1, <1>2, <1>3, <1>4, <1>5, <1>6 DEF Outside

LEMMA OutsideMounted ==
    ASSUME Placed, Typed, Mounted, Outside
    PROVE  Mounted'
BY OutsideMoves, OutsideKeeps DEF Mounted, Typed, Daemon

LEMMA MountedHolds ==
    ASSUME Placed, Typed, Living, Mounted, SandboxNext
    PROVE  Mounted'
BY OperationMounted, WorkerMounted, OutsideMounted DEF SandboxNext

-----------------------------------------------------------------------------
(* Records and archives tell of a workspace that is at rest.               *)

LEMMA OperationQuiet ==
    ASSUME Placed, Typed, NEW t \in Thread, Operation(t), Quiet
    PROVE  Quiet' /\ docker'.content = docker.content
<1>1. Moves(t) /\ Placed' /\ Only(t) /\ live' = live /\ Handles(t) /\ docker \in Daemon /\ "task" \in Thread
  BY OperationKeeps, OperationHandles DEF Keeps, execution, Typed, Thread
<1>2. /\ docker'.content = docker.content /\ (docker'.shell => docker.shell)
      /\ docker'.box = "running" => docker.box = "running"
  BY <1>1 DEF Handles, Daemon
<1>3. CASE t = "task"
  BY <1>1, <1>2, <1>3, TaskPlaces DEF Quiet, StopSteps, Stops
<1>4. CASE t # "task"
  BY <1>1, <1>2, <1>4 DEF Quiet, Only
<1> QED
  BY <1>3, <1>4, <1>2

LEMMA WorkerQuiet ==
    ASSUME Placed, Typed, Living, Worker, Quiet
    PROVE  Quiet' /\ docker'.content = docker.content
<1>1. WorkerHandles /\ docker \in Daemon
  BY WorkerAsks DEF Typed
<1>2. /\ docker'.content = docker.content /\ ~docker'.shell
      /\ docker'.box = "running" => docker.box = "running" \/ at["task"] = "starting"
  BY <1>1 DEF WorkerHandles, Daemon, Quiet
<1>3. CASE Write
  BY <1>3 DEF Write, Quiet
<1>4. CASE CancelSession
  <2>1. at'["task"] = at["task"] /\ live' = live /\ docker' = docker
    BY <1>4, CancelMoves DEF Living, Typed, Thread, CancelSession
  <2> QED
    BY <2>1 DEF Quiet
<1>5. CASE WorkerDies
  <2>1. /\ at'["task"] = IF at["task"] \in {"settled", "ended"} THEN at["task"] ELSE "dead"
        /\ live' = live \ {"worker"} /\ docker' = docker
    BY <1>5, DeathMoves DEF WorkerDies
  <2> QED
    BY <2>1 DEF Quiet
<1>6. CASE ~Write /\ ~CancelSession /\ ~WorkerDies
  <2>1. at["task"] # "settled" /\ live' = live
    BY <1>6, WorkerMoves, WorkerAsks DEF Preparing
  <2>2. at'["task"] # "calling"
    BY <1>6, <2>1, WorkerMoves DEF Quiet, Call
  <2> QED
    BY <1>2, <2>1, <2>2 DEF Quiet
<1> QED
  BY <1>2, <1>3, <1>4, <1>5, <1>6

LEMMA OutsideQuiet ==
    ASSUME Placed, Typed, Outside, Quiet
    PROVE  Quiet' /\ docker'.content = docker.content
<1>1. at'["task"] = at["task"]
  BY OutsideMoves
<1>2. docker' = docker \/ docker' = [docker EXCEPT !.verifier = "exited"]
  BY OutsideKeeps
<1>3. "controller" \in live' => "controller" \in live
  BY OutsideKeeps
<1>4. docker'.content = docker.content /\ docker'.shell = docker.shell /\ docker'.box = docker.box
  BY <1>2 DEF Typed, Daemon
<1> QED
  BY <1>1, <1>3, <1>4 DEF Quiet

LEMMA QuietHolds ==
    ASSUME Placed, Typed, Living, SandboxNext, Quiet
    PROVE  Quiet' /\ docker'.content = docker.content
BY OperationQuiet, WorkerQuiet, OutsideQuiet DEF SandboxNext

\* A copy is taken of a workspace that nobody writes to any more.
LEMMA CopiedQuiet ==
    ASSUME Placed, Typed, Living, Mounted, NEW t \in Thread, at[t] = "copyOut", docker.box # "running"
    PROVE  Quiet
<1>1. t \in {"runner", "helper"}
  BY DEF Placed, Thread, Rests, TaskSteps, Preparing, StopSteps, Stops
<1>2. CASE t = "runner"
  BY <1>2 DEF Living, Mounted, Quiet
<1>3. CASE t = "helper"
  BY <1>3 DEF Living, Mounted, Quiet, StopsOnly, StopSteps, Stops
<1> QED
  BY <1>1, <1>2, <1>3

LEMMA HoldersTruthful ==
    ASSUME Typed, Hashes, NEW h \in {"worker", "runner", "helper"}
    PROVE  Truthful(copy[h])
<1>1. CASE h = "worker"
  BY <1>1 DEF Typed, WorkerState, Truthful
<1> QED
  BY <1>1 DEF Hashes

\* What is said of a state after the step.
Told(state) ==
    /\ state.hash # Nothing => Quiet' /\ state.hash = docker'.content
    /\ state.phase = "archived" => state.hash # Nothing

LEMMA WrittenTold ==
    ASSUME Placed, Typed, Living, Mounted, Hashes, NEW t \in Thread, Operation(t), NEW state, Written(t, state)
    PROVE  Told(state)
<1>1. My(t) \in State /\ Truthful(My(t)) /\ docker.content \in Content
  BY HoldersTruthful DEF Typed, My, Holder, Thread, Daemon
<1>2. SandboxNext
  BY DEF SandboxNext
<1>3. state.hash = My(t).hash \/ (at[t] = "copyOut" /\ docker.box # "running" /\ state.hash = docker.content)
  BY <1>1 DEF Written, State
<1>4. state.hash # Nothing => Quiet' /\ state.hash = docker'.content
  <2>1. state.hash # Nothing => Quiet /\ state.hash = docker.content
    BY <1>1, <1>3, CopiedQuiet DEF Truthful
  <2> QED
    BY <1>2, <2>1, QuietHolds
<1>5. state.phase = "archived" => state.hash # Nothing
  <2>1. docker.content # Nothing
    BY <1>1, NothingIsNone DEF Content
  <2> QED
    BY <1>1, <2>1 DEF Written, State, Truthful, ArchiveHolds
<1> QED
  BY <1>4, <1>5 DEF Told

LEMMA TruthfulTold ==
    ASSUME Placed, Typed, Living, SandboxNext, NEW state, Truthful(state)
    PROVE  Told(state)
BY QuietHolds DEF Truthful, Told

LEMMA HashesFrom ==
    ASSUME file' # Nothing => Told(file'), Told(copy'["runner"]), Told(copy'["helper"]),
           \A d \in Destination : kept'[d] # Nothing => Quiet' /\ kept'[d] = docker'.content
    PROVE  Hashes'
BY DEF Told, Hashes, Truthful

LEMMA OperationHashes ==
    ASSUME Placed, Typed, Living, Mounted, Hashes, NEW t \in Thread, Operation(t)
    PROVE  Hashes'
<1>1. Saves(t) /\ SandboxNext /\ Holder(t) \in {"worker", "runner", "helper"} /\ (kept' = kept \/ Commit(t))
  BY OperationSaves, OperationCommits DEF SandboxNext, Holder, Thread
<1>2. Told(copy["runner"]) /\ Told(copy["helper"]) /\ (file # Nothing => Told(file)) /\ Told(My(t))
  BY <1>1, TruthfulTold, HoldersTruthful DEF Hashes, My
<1>3. /\ file' # Nothing => Told(file')
      /\ Told(copy'["runner"]) /\ Told(copy'["helper"])
  <2>1. CASE NoRecord
    BY <1>2, <2>1 DEF NoRecord
  <2>2. CASE file # Nothing /\ file' = file /\ copy' = [copy EXCEPT ![Holder(t)] = file]
    BY <1>1, <1>2, <2>2 DEF Typed
  <2>3. ASSUME NEW state, Record(t, state), Written(t, state)
        PROVE  /\ file' # Nothing => Told(file')
               /\ Told(copy'["runner"]) /\ Told(copy'["helper"])
    <3>1. Told(state)
      BY <2>3, WrittenTold
    <3> QED
      BY <1>1, <1>2, <2>3, <3>1 DEF Record, Typed
  <2> QED
    BY <1>1, <2>1, <2>2, <2>3 DEF Saves
<1>4. ASSUME NEW d \in Destination, kept'[d] # Nothing
      PROVE  Quiet' /\ kept'[d] = docker'.content
  <2>1. kept'[d] = kept[d] \/ kept'[d] = My(t).hash
    BY <1>1 DEF Commit, Typed
  <2>2. CASE kept'[d] = kept[d]
    BY <1>1, <1>4, <2>2, QuietHolds DEF Hashes
  <2>3. CASE kept'[d] = My(t).hash
    BY <1>2, <1>4, <2>3 DEF Told
  <2> QED
    BY <2>1, <2>2, <2>3
<1> QED
  BY <1>3, <1>4, HashesFrom

LEMMA WorkerHashes ==
    ASSUME Placed, Typed, Living, Hashes, Worker
    PROVE  Hashes'
<1>1. SandboxNext /\ kept' = kept
  BY WorkerAsks DEF SandboxNext
<1>2. Told(copy["runner"]) /\ Told(copy["helper"]) /\ (file # Nothing => Told(file))
  BY <1>1, TruthfulTold, HoldersTruthful DEF Hashes
<1>3. /\ file' # Nothing => Told(file')
      /\ Told(copy'["runner"]) /\ Told(copy'["helper"])
  <2>1. CASE NoRecord
    BY <1>2, <2>1 DEF NoRecord
  <2>2. CASE file' = file /\ copy' = [copy EXCEPT !["worker"] = Fresh]
    BY <1>2, <2>2 DEF Typed
  <2>3. ASSUME NEW state \in WorkerState, Record("task", state)
        PROVE  /\ file' # Nothing => Told(file')
               /\ Told(copy'["runner"]) /\ Told(copy'["helper"])
    <3>1. Told(state)
      BY DEF WorkerState, Told
    <3> QED
      BY <1>2, <2>3, <3>1, WorkerRecords
  <2> QED
    BY <2>1, <2>2, <2>3, WorkerSaves
<1>4. \A d \in Destination : kept'[d] # Nothing => Quiet' /\ kept'[d] = docker'.content
  BY <1>1, QuietHolds DEF Hashes
<1> QED
  BY <1>3, <1>4, HashesFrom

LEMMA OutsideHashes ==
    ASSUME Placed, Typed, Living, Hashes, Outside
    PROVE  Hashes'
<1>1. SandboxNext /\ file' = file /\ kept' = kept /\ \A h \in {"runner", "helper"} : copy'[h] \in {copy[h], Fresh}
  BY OutsideKeeps DEF SandboxNext
<1>2. Told(copy["runner"]) /\ Told(copy["helper"]) /\ (file # Nothing => Told(file))
  BY <1>1, TruthfulTold, HoldersTruthful DEF Hashes
<1>3. Told(Fresh)
  BY DEF Told, Fresh
<1>4. \A d \in Destination : kept'[d] # Nothing => Quiet' /\ kept'[d] = docker'.content
  BY <1>1, QuietHolds DEF Hashes
<1>5. Told(copy'["runner"]) /\ Told(copy'["helper"])
  BY <1>1, <1>2, <1>3
<1> QED
  BY <1>1, <1>2, <1>4, <1>5, HashesFrom

LEMMA HashesHold ==
    ASSUME Placed, Typed, Living, Mounted, Hashes, SandboxNext
    PROVE  Hashes'
BY OperationHashes, WorkerHashes, OutsideHashes DEF SandboxNext

-----------------------------------------------------------------------------
(* The volume goes after the work is kept.                                 *)

LEMMA KeptStays ==
    ASSUME Typed, SandboxNext, NEW d \in Destination, kept[d] # Nothing
    PROVE  kept'[d] = kept[d]
<1>1. \A t \in Thread : Operation(t) => kept' = kept \/ Commit(t)
  BY OperationCommits
<1>2. \A t : Commit(t) => kept'[d] = kept[d]
  BY DEF Commit, Typed
<1> QED
  BY <1>1, <1>2, WorkerAsks, OutsideKeeps DEF SandboxNext

LEMMA AtCleanup ==
    ASSUME NEW t \in Thread, Operation(t), at[t] = "cleanup"
    PROVE  CleanupIntent(t) \/ Fails(t)
BY DEF Operation, Asks, Records, Goes, Load, StopIntent, VerifiersStopped, BoxStopped, StopConfirmed,
       StopFails, VerifyIntent, VerifierCreated, VerifierFails, VerifierStarted, VerifierReaped, VerifyResult,
       VerifiersRemoved, ReaderKnown, ReaderNeeded, ReaderCreated, ReaderRecorded, ExportIntent, Look, CopyOut,
       Commit, Committed, ExportFailed, BoxDropped, VolumeDropped, Cleaned

LEMMA ToCleanup ==
    ASSUME Placed, Placed', Moves("helper"), at'["helper"] \in CleanupSteps \ {"cleanup"}
    PROVE  at["helper"] \in CleanupSteps
<1>1. todo["helper"] \in Rests("helper", at["helper"])
  BY DEF Placed, Thread
<1>2. at["helper"] \in Returning /\ todo["helper"] # <<>> => Head(todo["helper"]) \notin CleanupSteps \ {"cleanup"}
  BY <1>1, LoadReads, StopReads, HelperReads
  DEF Returning, Rests, StopSteps, Stops, VerifySteps, ReaderSteps, ExportSteps, Exports, CleanupSteps, Reads
<1> QED
  BY <1>2 DEF Moves, Follows, CleanupSteps

LEMMA WorkerOthers ==
    ASSUME Placed, Typed, Living, Worker
    PROVE  /\ at'["runner"] = at["runner"] /\ at'["helper"] = at["helper"]
           /\ todo'["runner"] = todo["runner"] /\ todo'["helper"] = todo["helper"]
           /\ copy'["runner"] = copy["runner"] /\ copy'["helper"] = copy["helper"]
<1>1. copy'["runner"] = copy["runner"] /\ copy'["helper"] = copy["helper"]
  BY WorkerSaves, WorkerRecords DEF NoRecord, Typed
<1>2. CASE Write
  BY <1>1, <1>2 DEF Write
<1>3. CASE CancelSession
  BY <1>1, <1>3, CancelMoves DEF Living, Typed, Thread
<1>4. CASE WorkerDies
  BY <1>1, <1>4, DeathMoves
<1>5. CASE ~Write /\ ~CancelSession /\ ~WorkerDies
  BY <1>1, <1>5, WorkerMoves DEF Only, Thread
<1> QED
  BY <1>2, <1>3, <1>4, <1>5

LEMMA OperationOthers ==
    ASSUME Placed, Typed, NEW t \in Thread, Operation(t), NEW u \in {"runner", "helper"}, u # t
    PROVE  at'[u] = at[u] /\ todo'[u] = todo[u] /\ copy'[u] = copy[u]
BY OperationKeeps DEF Keeps, Only, Thread, Holder

LEMMA HelperOnly ==
    ASSUME Placed, NEW t \in Thread, at[t] \in CleanupSteps \cup {"remove", "reader", "choose"}
    PROVE  t = "helper"
BY DEF Placed, Thread, Rests, TaskSteps, Preparing, StopSteps, Stops, CleanupSteps, VerifySteps, ReaderSteps, ExportSteps,
       Exports

LEMMA DroppingHolds ==
    ASSUME Placed, Typed, Living, Mounted, Dropping, SandboxNext
    PROVE  Dropping'
<1>1. (\E d \in Destination : kept[d] # Nothing) => \E d \in Destination : kept'[d] # Nothing
  BY KeptStays
<1>2. docker \in Daemon
  BY DEF Typed
<1>3. CASE Worker
  <2>1. at'["helper"] = at["helper"]
    BY <1>3, WorkerOthers
  <2>2. ~docker'.volume => ~docker.volume /\ docker'.content = docker.content
    BY <1>2, <1>3, WorkerAsks DEF WorkerHandles, Daemon, Mounted
  <2> QED
    BY <1>1, <2>1, <2>2 DEF Dropping
<1>4. CASE Outside
  <2>1. at'["helper"] \in {at["helper"], "load", "stop", "failed"}
    BY <1>4, OutsideMoves
  <2>2. docker'.volume = docker.volume /\ docker'.content = docker.content
    BY <1>2, <1>4, OutsideKeeps DEF Daemon
  <2> QED
    BY <1>1, <2>1, <2>2 DEF Dropping, CleanupSteps
<1>5. ASSUME NEW t \in Thread, Operation(t)
      PROVE  Dropping'
  <2>1. Moves(t) /\ Placed' /\ Handles(t)
    BY <1>5, OperationKeeps, OperationHandles DEF Keeps
  <2>2. at'["helper"] \in CleanupSteps \ {"cleanup"} => \E d \in Destination : kept'[d] # Nothing
    <3>1. CASE t # "helper"
      BY <1>1, <1>5, <3>1, OperationOthers DEF Dropping
    <3>2. CASE t = "helper"
      <4>1. ASSUME at'["helper"] \in CleanupSteps \ {"cleanup"}, at["helper"] = "cleanup"
            PROVE  \E d \in Destination : kept[d] # Nothing
        <5>1. ~Fails(t)
          BY <3>2, <4>1, FailKeeps DEF CleanupSteps
        <5>2. ArchiveHolds(My(t)) /\ My(t) \in State
          BY <1>5, <3>2, <4>1, <5>1, AtCleanup DEF CleanupIntent, Typed, My, Holder
        <5> QED
          BY <5>2 DEF ArchiveHolds, State
      <4> QED
        BY <1>1, <2>1, <3>2, <4>1, ToCleanup DEF Dropping
    <3> QED
      BY <3>1, <3>2
  <2>3. docker'.content = docker.content /\ (~docker'.volume => ~docker.volume \/ at[t] = "dropVolume")
    BY <1>2, <2>1 DEF Handles, Daemon
  <2>4. at[t] = "dropVolume" => \E d \in Destination : kept[d] # Nothing
    BY HelperOnly DEF Dropping, CleanupSteps
  <2> QED
    BY <1>1, <2>2, <2>3, <2>4 DEF Dropping
<1> QED
  BY <1>3, <1>4, <1>5 DEF SandboxNext

-----------------------------------------------------------------------------
(* The candidate that is verified.                                         *)

\* The runner has frozen its candidate.
Judged ==
    \/ at["runner"] \in {"frozen", "verify"} \cup VerifySteps
    \/ todo["runner"] \in {<<"stop", "verify">>, <<"verify">>}

LEMMA AtExport ==
    ASSUME NEW t \in Thread, Operation(t), at[t] \in {"export", "look", "committed"}
    PROVE  ExportIntent(t) \/ Look(t) \/ Committed(t) \/ Fails(t)
BY DEF Operation, Asks, Records, Goes, Load, StopIntent, VerifiersStopped, BoxStopped, StopConfirmed,
       StopFails, VerifyIntent, VerifierCreated, VerifierFails, VerifierStarted, VerifierReaped, VerifyResult,
       VerifiersRemoved, ReaderKnown, ReaderNeeded, ReaderCreated, ReaderRecorded, CopyOut,
       Commit, ExportFailed, CleanupIntent, BoxDropped, VolumeDropped, Cleaned

\* Only the end of an export freezes a candidate.
LEMMA ToJudged ==
    ASSUME Placed, Placed', Moves("runner"), Judged'
    PROVE  Judged \/ (at'["runner"] = "frozen" /\ at["runner"] \in {"export", "look", "committed"})
<1>1. /\ todo["runner"] \in Rests("runner", at["runner"]) /\ todo'["runner"] \in Rests("runner", at'["runner"])
      /\ at["runner"] \in Place
  BY DEF Placed, Thread
<1>2. at["runner"] \notin {"waiting", "dead", "end", "failed", "frozen"} /\ at'["runner"] \notin {"waiting", "dead", "load"}
  BY RunnerPlaces
<1>3. CASE at["runner"] = "load"
  <2>1. CASE todo["runner"] = <<"stop", "verify">>
    BY <2>1 DEF Judged
  <2>2. CASE todo["runner"] = <<"stop", "stop", "export", "frozen">>
    <3>1. /\ at'["runner"] \in {"end", "stop"}
          /\ todo'["runner"] \in {<<>>, <<"stop", "export", "frozen">>}
      BY <1>3, <2>2, RunnerReads DEF Moves, Reads, Follows, Throwing, Exports, ReaderSteps
    <3>2. <<"stop", "export", "frozen">> \notin {<<"stop", "verify">>, <<"verify">>}
            /\ <<>> \notin {<<"stop", "verify">>, <<"verify">>}
      OBVIOUS
    <3> QED
      BY <3>1, <3>2 DEF Judged, VerifySteps
  <2> QED
    BY <1>1, <1>3, <2>1, <2>2 DEF Rests, StopSteps, Stops, ReaderSteps, ExportSteps, Exports, VerifySteps
<1>4. CASE at["runner"] \in StopSteps
  <2>1. CASE todo["runner"] = <<"verify">>
    BY <2>1 DEF Judged
  <2>2. CASE todo["runner"] \in {<<"stop", "export", "frozen">>, <<"export", "frozen">>}
    <3>1. /\ at'["runner"] \in StopSteps \cup {"end", "export", "failed"}
          /\ todo'["runner"] \in {<<>>, <<"frozen">>, <<"stop", "export", "frozen">>, <<"export", "frozen">>}
      BY <1>4, <2>2, RunnerReads DEF Moves, Reads, Follows, Returning, Throwing, Exports, ReaderSteps, StopSteps, Stops
    <3>2. {<<>>, <<"frozen">>, <<"stop", "export", "frozen">>, <<"export", "frozen">>}
             \cap {<<"stop", "verify">>, <<"verify">>} = {}
      OBVIOUS
    <3> QED
      BY <3>1, <3>2 DEF Judged, VerifySteps, StopSteps, Stops
  <2> QED
    BY <1>1, <1>4, <2>1, <2>2 DEF Rests, StopSteps, Stops, ReaderSteps, ExportSteps, Exports, VerifySteps
<1>5. CASE at["runner"] \in ExportSteps \cup ReaderSteps \cup {"exportFailed"}
  <2>1. todo["runner"] \in {<<"frozen">>, <<"copyOut", "frozen">>}
    BY <1>1, <1>5 DEF Rests, StopSteps, Stops, ReaderSteps, ExportSteps, Exports, VerifySteps
  <2>2. at["runner"] \in ReaderSteps => todo["runner"] = <<"copyOut", "frozen">>
    BY <1>1 DEF Rests, StopSteps, Stops, ReaderSteps, ExportSteps, Exports, VerifySteps
  <2>3. at'["runner"] \in ExportSteps \cup ReaderSteps \cup {"exportFailed", "end", "failed", "frozen"}
    BY <1>5, <2>1, RunnerReads DEF Moves, Reads, Follows, Returning, Throwing, Exports, ReaderSteps, ExportSteps
  <2>4. at'["runner"] = "frozen" => at["runner"] \in {"export", "look", "committed"}
    BY <1>5, <2>1, <2>2, RunnerReads DEF Moves, Reads, Follows, Returning, Throwing, Exports, ReaderSteps, ExportSteps
  <2>5. todo'["runner"] \in {<<>>, <<"frozen">>, <<"copyOut", "frozen">>}
    BY <1>1, <2>3 DEF Rests, StopSteps, Stops, ReaderSteps, ExportSteps, Exports, VerifySteps
  <2>6. {<<>>, <<"frozen">>, <<"copyOut", "frozen">>} \cap {<<"stop", "verify">>, <<"verify">>} = {}
    OBVIOUS
  <2> QED
    BY <2>3, <2>4, <2>5, <2>6 DEF Judged, ExportSteps, Exports, ReaderSteps, VerifySteps
<1>6. CASE at["runner"] \in VerifySteps \cup {"verify"}
  BY <1>6 DEF Judged
<1> QED
  BY <1>1, <1>2, <1>3, <1>4, <1>5, <1>6
  DEF Rests, StopSteps, Stops, ReaderSteps, ExportSteps, Exports, VerifySteps

LEMMA ExportEnds ==
    ASSUME Placed, NEW t \in Thread
    PROVE  /\ ExportIntent(t) /\ My(t).phase # "cleaned" => at'[t] = "look"
           /\ Look(t) /\ at'[t] # "copyOut" => ArchiveHolds(My(t)) /\ kept' = kept
           /\ Committed(t) => ArchiveHolds(My(t)) /\ kept' = kept
BY DEF ExportIntent, Look, Committed, Records, Goes, Goto, Placed, world

LEMMA OperationJudged ==
    ASSUME Placed, Typed, Living, Candidate, NEW t \in Thread, Operation(t), Judged'
    PROVE  kept'["candidate"] # Nothing
<1>1. Judged => kept'["candidate"] # Nothing
  BY KeptStays DEF Judged, Candidate, SandboxNext, Destination
<1>2. CASE t # "runner"
  BY <1>1, <1>2, OperationOthers DEF Judged
<1>3. CASE t = "runner" /\ ~Judged
  <2>1. at'["runner"] = "frozen" /\ at["runner"] \in {"export", "look", "committed"}
    BY <1>3, OperationKeeps, ToJudged DEF Keeps
  <2>2. ~Fails(t)
    BY <1>3, <2>1, FailKeeps
  <2>3. My(t) = copy["runner"] /\ My(t) \in State /\ My(t).phase # "cleaned"
    BY <1>3, <2>1 DEF My, Holder, Typed, Living, Candidate
  <2>4. at["runner"] \in {"look", "committed"} /\ ArchiveHolds(My(t)) /\ kept' = kept
    <3>1. ExportIntent(t) => at["runner"] = "export"
      BY <1>3 DEF ExportIntent, Goes, Records
    <3>2. Look(t) \/ Committed(t) => at["runner"] \in {"look", "committed"}
      BY <1>3 DEF Look, Committed, Goes, Records
    <3>3. Look(t) \/ Committed(t)
      BY <1>3, <2>1, <2>2, <2>3, AtExport, ExportEnds
    <3> QED
      BY <1>3, <2>1, <3>2, <3>3, ExportEnds
  <2>5. My(t).path = "candidate"
    BY <2>3, <2>4 DEF Candidate, Exports
  <2> QED
    BY <2>4, <2>5 DEF ArchiveHolds
<1> QED
  BY <1>1, <1>2, <1>3

LEMMA ToExports ==
    ASSUME Placed, Placed', Moves("runner"), at'["runner"] \in Exports \cup ReaderSteps
    PROVE  at["runner"] \in Exports \cup ReaderSteps \/ (at["runner"] = "export" /\ at'["runner"] = "look")
<1>1. todo["runner"] \in Rests("runner", at["runner"])
  BY DEF Placed, Thread
<1>2. at["runner"] \in Returning \ {"readerMade"} /\ todo["runner"] # <<>> => Head(todo["runner"]) \notin Exports \cup ReaderSteps
  BY <1>1, RunnerReads DEF Returning, Rests, StopSteps, Stops, VerifySteps, ReaderSteps, ExportSteps, Exports, Reads
<1>3. at["runner"] # "reader"
  BY <1>1 DEF Rests, StopSteps, Stops, VerifySteps, ReaderSteps, ExportSteps, Exports
<1> QED
  BY <1>2, <1>3 DEF Moves, Follows, Exports, ReaderSteps

LEMMA OperationPath ==
    ASSUME Placed, Typed, Living, Candidate, NEW t \in Thread, Operation(t), at'["runner"] \in Exports \cup ReaderSteps
    PROVE  copy'["runner"].path = "candidate"
<1>1. CASE t # "runner"
  BY <1>1, OperationOthers DEF Candidate
<1>2. CASE t = "runner"
  <2>1. Moves("runner") /\ Placed' /\ Saves("runner") /\ Holder("runner") = "runner" /\ My("runner") = copy["runner"]
        /\ copy["runner"] \in State
    BY <1>2, OperationKeeps, OperationSaves DEF Keeps, Holder, My, Typed
  <2>2. CASE at["runner"] \in Exports \cup ReaderSteps
    <3>1. copy["runner"].path = "candidate"
      BY <2>2 DEF Candidate
    <3>2. \A state : Written("runner", state) => state.path = "candidate"
      BY <2>1, <2>2, <3>1 DEF Written, State, Exports, ReaderSteps
    <3>3. at["runner"] # "load"
      BY <2>2 DEF Exports, ReaderSteps
    <3> QED
      BY <2>1, <3>1, <3>2, <3>3 DEF Saves, NoRecord, Record, Typed
  <2>3. CASE at["runner"] = "export" /\ at'["runner"] = "look"
    <3>1. ~Fails(t)
      BY <1>2, <2>3, FailKeeps
    <3>2. ExportIntent("runner")
      BY <1>2, <2>3, <3>1, AtExport DEF Look, Committed, Goes, Records
    <3>3. CASE Goes("runner", "export", "return")
      <4>1. todo["runner"] = <<"frozen">>
        BY <2>3 DEF Placed, Thread, Rests, StopSteps, Stops, VerifySteps, ReaderSteps, ExportSteps, Exports
      <4>2. at'["runner"] \in {"end", "frozen"}
        BY <1>2, <2>3, <3>3, <4>1, GoesBack, RunnerReads DEF Goes, Reads, Returning
      <4> QED
        BY <2>3, <4>2
    <3>4. CASE Records("runner", "export", [My("runner") EXCEPT !.path = "candidate", !.phase = "exporting"], "look")
      BY <2>1, <3>4 DEF Records, Record, Typed, State
    <3> QED
      BY <3>2, <3>3, <3>4 DEF ExportIntent
  <2> QED
    BY <2>1, <2>2, <2>3, ToExports
<1> QED
  BY <1>1, <1>2

NotCleaned ==
    "controller" \in live =>
        /\ file # Nothing => file.phase # "cleaned"
        /\ copy["runner"].phase # "cleaned" /\ copy["helper"].phase # "cleaned"

LEMMA OperationNotCleaned ==
    ASSUME Placed, Typed, Living, Candidate, NEW t \in Thread, Operation(t)
    PROVE  NotCleaned'
<1> SUFFICES ASSUME "controller" \in live'
             PROVE  /\ file' # Nothing => file'.phase # "cleaned"
                    /\ copy'["runner"].phase # "cleaned" /\ copy'["helper"].phase # "cleaned"
  BY DEF NotCleaned
<1>1. "controller" \in live
  BY OperationKeeps DEF Keeps, execution
<1>2. at[t] # "dropped"
  <2>1. ASSUME at[t] = "dropped" PROVE FALSE
    <3>1. t = "helper"
      BY <2>1, HelperOnly DEF CleanupSteps
    <3> QED
      BY <1>1, <2>1, <3>1 DEF Living, StopsOnly, StopSteps, Stops
  <2> QED
    BY <2>1
<1>3. My(t) \in State /\ My(t).phase # "cleaned" /\ Holder(t) \in {"worker", "runner", "helper"}
  BY <1>1 DEF My, Holder, Thread, Typed, WorkerState, Candidate
<1>4. \A state : Written(t, state) => state.phase # "cleaned"
  BY <1>2, <1>3 DEF Written, State
<1> QED
  BY <1>1, <1>3, <1>4, OperationSaves DEF Saves, NoRecord, Record, Typed, Candidate

LEMMA CandidateHolds ==
    ASSUME Placed, Typed, Living, Candidate, SandboxNext
    PROVE  Candidate'
<1>1. Candidate' <=>
        /\ Judged' => kept'["candidate"] # Nothing
        /\ at'["runner"] \in Exports \cup ReaderSteps => copy'["runner"].path = "candidate"
        /\ NotCleaned'
  BY DEF Candidate, Judged, NotCleaned
<1>2. Judged => kept'["candidate"] # Nothing
  BY KeptStays DEF Judged, Candidate, Destination
<1>3. CASE Worker
  <2>1. Judged' => Judged
    BY <1>3, WorkerOthers DEF Judged
  <2>2. at'["runner"] \in Exports \cup ReaderSteps => copy'["runner"].path = "candidate"
    BY <1>3, WorkerOthers DEF Candidate
  <2>3. NotCleaned'
    <3>1. live' \subseteq live
      BY <1>3, WorkerAsks DEF WorkerDies
    <3>2. file' = file \/ file'.phase # "cleaned"
      BY <1>3, WorkerSaves, WorkerRecords DEF NoRecord, WorkerState
    <3> QED
      BY <1>3, <3>1, <3>2, WorkerOthers DEF Candidate, NotCleaned
  <2> QED
    BY <1>1, <1>2, <2>1, <2>2, <2>3
<1>4. CASE Outside
  <2>1. Judged' => Judged
    <3>1. CASE at'["runner"] = at["runner"] /\ todo'["runner"] = todo["runner"]
      BY <3>1 DEF Judged
    <3>2. CASE Freeze \/ RunReturns \/ ControllerDies \/ PreserveWork
      <4>1. /\ at'["runner"] \in {"load", "end", "dead"}
            /\ todo'["runner"] \in {<<"stop", "stop", "export", "frozen">>, <<>>}
        BY <3>2, RunnerMoves, PreserveMoves DEF Takes
      <4>2. {<<"stop", "stop", "export", "frozen">>, <<>>} \cap {<<"stop", "verify">>, <<"verify">>} = {}
        OBVIOUS
      <4> QED
        BY <4>1, <4>2 DEF Judged, VerifySteps
    <3>3. CASE JudgeCandidate
      BY <3>3, RunnerMoves DEF Takes, Judged
    <3> QED
      BY <1>4, <3>1, <3>2, <3>3, OutsideMoves
  <2>2. at'["runner"] \in Exports \cup ReaderSteps => copy'["runner"].path = "candidate"
    <3>1. ASSUME at'["runner"] \in Exports \cup ReaderSteps PROVE at'["runner"] = at["runner"] /\ copy'["runner"] = copy["runner"]
      <4>1. at'["runner"] = at["runner"] /\ at'["runner"] # "dead"
        BY <1>4, <3>1, OutsideMoves DEF Exports, ReaderSteps
      <4>2. ~PreserveWork /\ ~ControllerDies
        BY <4>1, PreserveMoves, RunnerMoves DEF Takes
      <4> QED
        BY <1>4, <4>1, <4>2, OutsideKeeps
    <3> QED
      BY <3>1 DEF Candidate
  <2>3. NotCleaned'
    <3>1. "controller" \in live' => "controller" \in live
      BY <1>4, OutsideKeeps
    <3>2. Fresh.phase # "cleaned"
      BY DEF Fresh
    <3> QED
      BY <1>4, <3>1, <3>2, OutsideKeeps DEF Candidate, NotCleaned
  <2> QED
    BY <1>1, <1>2, <2>1, <2>2, <2>3
<1>5. ASSUME NEW t \in Thread, Operation(t)
      PROVE  Candidate'
  BY <1>1, <1>5, OperationJudged, OperationPath, OperationNotCleaned
<1> QED
  BY <1>3, <1>4, <1>5 DEF SandboxNext

-----------------------------------------------------------------------------
(* The phase in the helper's record.                                       *)

LEMMA AtVerifySteps ==
    ASSUME NEW t \in Thread, Operation(t), at[t] \in VerifySteps \cup {"verify"}
    PROVE  VerifyIntent(t) \/ VerifierCreated(t) \/ VerifierFails(t) \/ VerifierStarted(t) \/ VerifierReaped(t)
             \/ VerifyResult(t) \/ Fails(t)
BY DEF Operation, Asks, Records, Goes, Load, StopIntent, VerifiersStopped, BoxStopped, StopConfirmed,
       StopFails, VerifiersRemoved, ReaderKnown, ReaderNeeded, ReaderCreated, ReaderRecorded, ExportIntent, Look, CopyOut,
       Commit, Committed, ExportFailed, CleanupIntent, BoxDropped, VolumeDropped, Cleaned, VerifySteps

LEMMA AtExports ==
    ASSUME NEW t \in Thread, Operation(t), at[t] \in Exports \cup ReaderSteps \cup {"export", "exportFailed", "reader"}
    PROVE  ExportIntent(t) \/ Look(t) \/ CopyOut(t) \/ Commit(t) \/ Committed(t) \/ ExportFailed(t) \/ Fails(t)
             \/ ReaderKnown(t) \/ ReaderNeeded(t) \/ ReaderCreated(t) \/ ReaderRecorded(t)
BY DEF Operation, Asks, Records, Goes, Load, StopIntent, VerifiersStopped, BoxStopped, StopConfirmed,
       StopFails, VerifyIntent, VerifierCreated, VerifierFails, VerifierStarted, VerifierReaped, VerifyResult,
       VerifiersRemoved, CleanupIntent, BoxDropped, VolumeDropped, Cleaned, Exports, ReaderSteps

\* Where the helper's operations come from.
LEMMA HelperComes ==
    ASSUME Placed, Placed', Moves("helper")
    PROVE  /\ at'["helper"] \in Stops => at["helper"] \in StopSteps
           /\ at'["helper"] \in VerifySteps => at["helper"] \in VerifySteps \cup {"verify"}
           /\ at'["helper"] \in ReaderSteps => at["helper"] \in {"reader", "copyOut", "readerCreate"}
           /\ at'["helper"] \in Exports \cup {"exportFailed"} =>
                at["helper"] \in Exports \cup {"export"} \cup ReaderSteps
           /\ at["helper"] = "readerMade" /\ at'["helper"] \in Exports =>
                todo["helper"] \in {<<"copyOut">>, <<"copyOut", "cleanup">>}
<1>1. todo["helper"] \in Rests("helper", at["helper"])
  BY DEF Placed, Thread
<1>2. at["helper"] \in Returning \ {"readerMade"} /\ todo["helper"] # <<>> =>
         Head(todo["helper"]) \in {"stop", "remove", "reader", "choose", "export", "cleanup", "verify"}
  BY <1>1, LoadReads, StopReads, HelperReads
  DEF Returning, Rests, StopSteps, Stops, VerifySteps, ReaderSteps, ExportSteps, Exports, CleanupSteps, Reads
<1>3. at["helper"] = "readerMade" =>
         \/ todo["helper"] \in {<<"copyOut">>, <<"copyOut", "cleanup">>} /\ Head(todo["helper"]) = "copyOut"
         \/ todo["helper"] = <<>>
         \/ todo["helper"] # <<>> /\ Head(todo["helper"]) = "choose"
  BY <1>1, HelperReads
  DEF Rests, StopSteps, Stops, VerifySteps, ReaderSteps, ExportSteps, Exports, CleanupSteps, Reads
<1> QED
  BY <1>2, <1>3 DEF Moves, Follows, Returning, Throwing, Exports, ReaderSteps, Stops, StopSteps, VerifySteps

LEMMA HelperStopping ==
    ASSUME Placed, Typed, PhaseOf, Operation("helper"), at'["helper"] \in Stops
    PROVE  copy'["helper"].phase = "stopping"
<1>1. /\ at["helper"] \in StopSteps /\ My("helper") = copy["helper"] /\ copy["helper"] \in State /\ "helper" \in Thread
      /\ Holder("helper") = "helper" /\ Keeps("helper")
  BY OperationKeeps, HelperComes DEF Keeps, My, Holder, Typed, Thread
<1>2. ~Fails("helper") /\ ~StopFails("helper")
  BY <1>1, FailKeeps, StopThrows DEF Stops
<1>3. CASE VerifiersStopped("helper") \/ BoxStopped("helper")
  BY <1>1, <1>3 DEF VerifiersStopped, BoxStopped, Asks, NoRecord, PhaseOf, Stops
<1>4. CASE StopIntent("helper")
  <2>1. CASE Goes("helper", "stop", "return")
    <3>1. at'["helper"] \notin Stops
      <4>1. todo["helper"] \in Rests("helper", "stop") /\ Goto("helper", "return") /\ at["helper"] = "stop"
        BY <1>1, <2>1 DEF Goes, Placed
      <4>2. todo["helper"] # <<>> => Head(todo["helper"]) \notin Stops
        BY <4>1, StopReads
        DEF Rests, StopSteps, Stops, VerifySteps, ReaderSteps, ExportSteps, Exports, CleanupSteps, Reads
      <4> QED
        BY <1>1, <4>1, <4>2, GoesBack DEF Returning, Stops
    <3> QED
      BY <3>1
  <2>2. CASE Records("helper", "stop", [My("helper") EXCEPT !.phase = "stopping"], "stopVerifiers")
    BY <1>1, <2>2 DEF Records, Record, Typed, State
  <2> QED
    BY <1>4, <2>1, <2>2 DEF StopIntent
<1>5. CASE StopConfirmed("helper")
  <2>1. todo["helper"] \in Rests("helper", "confirm") /\ Goto("helper", "return") /\ at["helper"] = "confirm"
    BY <1>1, <1>5 DEF StopConfirmed, Records, Placed
  <2>2. todo["helper"] # <<>> => Head(todo["helper"]) \notin Stops
    BY <2>1, StopReads
    DEF Rests, StopSteps, Stops, VerifySteps, ReaderSteps, ExportSteps, Exports, CleanupSteps, Reads
  <2> QED
    BY <1>1, <2>1, <2>2, GoesBack DEF Returning, Stops
<1> QED
  BY <1>1, <1>2, <1>3, <1>4, <1>5, AtStops

LEMMA HelperVerifying ==
    ASSUME Placed, Typed, PhaseOf, Operation("helper"), at'["helper"] \in VerifySteps
    PROVE  copy'["helper"].phase = "verifying"
<1>1. /\ at["helper"] \in VerifySteps \cup {"verify"} /\ My("helper") = copy["helper"] /\ copy["helper"] \in State
      /\ "helper" \in Thread /\ Holder("helper") = "helper"
  BY OperationKeeps, HelperComes DEF Keeps, My, Holder, Typed, Thread
<1>2. ~Fails("helper")
  BY <1>1, FailKeeps DEF VerifySteps
<1>3. CASE VerifyIntent("helper")
  BY <1>1, <1>3 DEF VerifyIntent, Record, Typed, State
<1>4. CASE VerifierCreated("helper") \/ VerifierFails("helper") \/ VerifierReaped("helper")
  BY <1>1, <1>4 DEF VerifierCreated, VerifierFails, VerifierReaped, Asks, NoRecord, PhaseOf, VerifySteps
<1>5. CASE VerifierStarted("helper")
  BY <1>1, <1>5 DEF VerifierStarted, Record, Typed, PhaseOf, VerifySteps
<1>6. CASE VerifyResult("helper")
  <2>1. at["helper"] = "verified" /\ Moves("helper")
    BY <1>1, <1>6, OperationKeeps DEF VerifyResult, Keeps
  <2> QED
    BY <2>1 DEF Moves, Follows, Returning, Throwing, Exports, ReaderSteps, VerifySteps
<1> QED
  BY <1>1, <1>2, <1>3, <1>4, <1>5, <1>6, AtVerifySteps

LEMMA HelperExporting ==
    ASSUME Placed, Typed, PhaseOf, Operation("helper"), at'["helper"] \in Exports \cup {"exportFailed"}
    PROVE  copy'["helper"].phase = "exporting"
<1>1. /\ at["helper"] \in Exports \cup {"export"} \cup ReaderSteps /\ My("helper") = copy["helper"]
      /\ copy["helper"] \in State /\ "helper" \in Thread /\ Holder("helper") = "helper"
      /\ Moves("helper") /\ Placed' /\ todo["helper"] \in Rests("helper", at["helper"])
  BY OperationKeeps, HelperComes DEF Keeps, My, Holder, Typed, Thread, Placed
<1>2. CASE Fails("helper")
  <2>1. copy' = copy /\ (at["helper"] \in Exports \/ (at["helper"] \in ReaderSteps /\ "copyOut" \in Range(todo["helper"])))
    BY <1>1, <1>2, FailKeeps DEF NoRecord, Exports
  <2>2. at["helper"] \in ReaderSteps /\ "copyOut" \in Range(todo["helper"]) =>
           todo["helper"] \in {<<"copyOut">>, <<"copyOut", "cleanup">>}
    BY <1>1 DEF Rests, ReaderSteps, StopSteps, Stops, ExportSteps, Exports, CleanupSteps, Range
  <2> QED
    BY <2>1, <2>2 DEF PhaseOf
<1>3. CASE ExportIntent("helper")
  <2>1. CASE Goes("helper", "export", "return")
    <3>1. todo["helper"] \in {<<>>, <<"cleanup">>} /\ at["helper"] = "export" /\ Goto("helper", "return")
      BY <1>1, <2>1 DEF Goes, Rests, ReaderSteps, StopSteps, Stops, ExportSteps, Exports, CleanupSteps, VerifySteps
    <3>2. at'["helper"] \in {"end", "cleanup"}
      BY <1>1, <3>1, GoesBack, LoadReads DEF Returning, Reads
    <3> QED
      BY <3>2 DEF Exports
  <2>2. CASE Records("helper", "export", [My("helper") EXCEPT !.path = out, !.phase = "exporting"], "look")
    BY <1>1, <2>2 DEF Records, Record, Typed, State
  <2> QED
    BY <1>3, <2>1, <2>2 DEF ExportIntent
<1>4. CASE Look("helper")
  <2>1. CASE Goes("helper", "look", "copyOut")
    BY <2>1 DEF Goes, NoRecord, PhaseOf, Exports
  <2>2. CASE Goto("helper", "return") /\ at["helper"] = "look"
    <3>1. todo["helper"] \in {<<>>, <<"cleanup">>}
      BY <1>1, <2>2 DEF Rests, ReaderSteps, StopSteps, Stops, ExportSteps, Exports, CleanupSteps, VerifySteps
    <3>2. at'["helper"] \in {"end", "cleanup"}
      BY <1>1, <2>2, <3>1, GoesBack, LoadReads DEF Returning, Reads
    <3> QED
      BY <3>2 DEF Exports
  <2> QED
    BY <1>4, <2>1, <2>2 DEF Look, Records
<1>5. CASE CopyOut("helper")
  BY <1>1, <1>5 DEF CopyOut, Records, Record, Typed, State, PhaseOf, Exports
<1>6. CASE Commit("helper")
  BY <1>6 DEF Commit, NoRecord, PhaseOf, Exports
<1>7. CASE Committed("helper")
  <2>1. Goto("helper", "return") /\ at["helper"] = "committed"
    BY <1>7 DEF Committed, Records
  <2>2. todo["helper"] \in {<<>>, <<"cleanup">>}
    BY <1>1, <2>1 DEF Rests, ReaderSteps, StopSteps, Stops, ExportSteps, Exports, CleanupSteps, VerifySteps
  <2>3. at'["helper"] \in {"end", "cleanup"}
    BY <1>1, <2>1, <2>2, GoesBack, LoadReads DEF Returning, Reads
  <2> QED
    BY <2>3 DEF Exports
<1>8. CASE ExportFailed("helper")
  BY <1>1, <1>8 DEF ExportFailed, Records, Exports, ReaderSteps
<1>9. CASE ReaderKnown("helper")
  BY <1>1, <1>9 DEF ReaderKnown, Goes, Exports, ReaderSteps
<1>10. CASE ReaderNeeded("helper") \/ ReaderCreated("helper")
  <2>1. at'["helper"] \in ReaderSteps
    BY <1>1, <1>10, ReaderTurns DEF ReaderCreated, Asks, Goto, ReaderSteps, Placed
  <2> QED
    BY <2>1 DEF ReaderSteps, Exports
<1>11. CASE ReaderRecorded("helper")
  <2>1. at["helper"] = "readerMade" /\ copy' = [copy EXCEPT !["helper"] = [copy["helper"] EXCEPT !.id = "reader"]]
    BY <1>1, <1>11 DEF ReaderRecorded, Records, Record
  <2>2. todo["helper"] \in {<<"copyOut">>, <<"copyOut", "cleanup">>}
    <3>1. at'["helper"] # "exportFailed"
      BY <1>1, <1>11, <2>1, GoesBack, HelperReads DEF ReaderRecorded, Records, Returning, Reads, Rests, ReaderSteps,
         StopSteps, Stops, ExportSteps, Exports, CleanupSteps, VerifySteps
    <3> QED
      BY <1>1, <2>1, <3>1, HelperComes
  <2>3. copy["helper"].phase = "exporting"
    BY <2>1, <2>2 DEF PhaseOf, ReaderSteps
  <2> QED
    BY <1>1, <2>1, <2>3 DEF Typed, State
<1> QED
  BY <1>1, <1>2, <1>3, <1>4, <1>5, <1>6, <1>7, <1>8, <1>9, <1>10, <1>11, AtExports

LEMMA HelperReading ==
    ASSUME Placed, Typed, PhaseOf, Operation("helper"), at'["helper"] \in ReaderSteps
    PROVE  /\ copy'["helper"].phase # "cleaned"
           /\ todo'["helper"] \in {<<"copyOut">>, <<"copyOut", "cleanup">>} => copy'["helper"].phase = "exporting"
<1>1. /\ at["helper"] \in {"reader", "copyOut", "readerCreate"} /\ My("helper") = copy["helper"]
      /\ copy["helper"] \in State /\ "helper" \in Thread /\ Holder("helper") = "helper"
      /\ todo["helper"] \in Rests("helper", at["helper"])
  BY OperationKeeps, HelperComes DEF Keeps, My, Holder, Typed, Thread, Placed
<1>2. ~Fails("helper")
  BY <1>1, FailKeeps DEF ReaderSteps
<1>3. CASE ReaderNeeded("helper")
  <2>1. copy["helper"].phase # "cleaned" /\ copy' = [copy EXCEPT !["helper"] = [copy["helper"] EXCEPT !.id = Nothing]]
        /\ at["helper"] \in {"reader", "copyOut"}
    BY <1>1, <1>3 DEF ReaderNeeded, Record
  <2>2. copy'["helper"].phase = copy["helper"].phase
    BY <1>1, <2>1 DEF Typed, State
  <2>3. CASE at["helper"] = "copyOut"
    BY <2>1, <2>2, <2>3 DEF PhaseOf, Exports
  <2>4. CASE at["helper"] = "reader"
    <3>1. todo'["helper"] = todo["helper"]
      BY <1>1, <1>3, <2>4, ReaderTurns
    <3>2. todo["helper"] \in {<<>>, <<"choose", "stop", "export", "cleanup">>}
      BY <1>1, <2>4 DEF Rests, ReaderSteps, StopSteps, Stops, ExportSteps, Exports, CleanupSteps, VerifySteps
    <3>3. {<<>>, <<"choose", "stop", "export", "cleanup">>} \cap {<<"copyOut">>, <<"copyOut", "cleanup">>} = {}
      OBVIOUS
    <3> QED
      BY <2>1, <2>2, <3>1, <3>2, <3>3
  <2> QED
    BY <2>1, <2>3, <2>4
<1>4. CASE ReaderCreated("helper")
  <2>1. copy' = copy /\ todo' = todo /\ at["helper"] = "readerCreate"
    BY <1>4 DEF ReaderCreated, Asks, NoRecord, Goto
  <2> QED
    BY <2>1 DEF PhaseOf, ReaderSteps
<1>5. ~ReaderKnown("helper")
  <2>1. ASSUME ReaderKnown("helper") PROVE FALSE
    <3>1. at["helper"] = "reader" /\ Goto("helper", "return")
      BY <2>1 DEF ReaderKnown, Goes
    <3>2. at'["helper"] \in {"end", "choose"}
      BY <1>1, <3>1, GoesBack, HelperReads DEF Returning, Reads, Rests, ReaderSteps,
         StopSteps, Stops, ExportSteps, Exports, CleanupSteps, VerifySteps
    <3> QED
      BY <3>2 DEF ReaderSteps
  <2> QED
    BY <2>1
<1>6. ~CopyOut("helper")
  BY DEF CopyOut, Records, Goto, Placed, ReaderSteps, Thread
<1>7. ~ExportIntent("helper") /\ ~Look("helper") /\ ~Commit("helper") /\ ~Committed("helper") /\ ~ExportFailed("helper")
        /\ ~ReaderRecorded("helper")
  BY <1>1 DEF ExportIntent, Look, Commit, Committed, ExportFailed, ReaderRecorded, Records, Goes
<1>8. at["helper"] \in Exports \cup ReaderSteps \cup {"export", "exportFailed", "reader"}
  BY <1>1 DEF Exports, ReaderSteps
<1> QED
  BY <1>1, <1>2, <1>3, <1>4, <1>5, <1>6, <1>7, <1>8, AtExports

LEMMA PhaseOfHolds ==
    ASSUME Placed, Typed, Living, PhaseOf, SandboxNext
    PROVE  PhaseOf'
<1>1. CASE at'["helper"] = at["helper"] /\ todo'["helper"] = todo["helper"] /\ copy'["helper"] = copy["helper"]
  BY <1>1 DEF PhaseOf
<1>2. CASE at'["helper"] \in {"load", "stop", "failed"}
  BY <1>2 DEF PhaseOf, Stops, Exports, VerifySteps, ReaderSteps
<1>3. CASE Operation("helper")
  BY <1>3, HelperStopping, HelperVerifying, HelperExporting, HelperReading DEF PhaseOf
<1>4. HelperDies => at'["helper"] = "failed"
  BY HelperMoves DEF Takes
<1>5. Outside => \/ at'["helper"] = at["helper"] /\ todo'["helper"] = todo["helper"] /\ copy'["helper"] = copy["helper"]
                 \/ at'["helper"] \in {"load", "stop", "failed"}
  BY <1>4, OutsideMoves, OutsideKeeps
<1> QED
  BY <1>1, <1>2, <1>3, <1>5, WorkerOthers, OperationOthers DEF SandboxNext

-----------------------------------------------------------------------------
(* What is cleaned stays cleaned.                                          *)

LEMMA HaltStays ==
    ASSUME Placed, Typed, SandboxNext, halt = "unconfirmed"
    PROVE  halt' = "unconfirmed"
<1>1. \A t \in Thread : Operation(t) => halt' = halt
  BY OperationKeeps DEF Keeps, execution
<1>2. Worker => halt' = halt
  BY WorkerAsks
<1>3. Outside => halt' = halt
  BY OutsideKeeps DEF StopCalled, StopProved, StopUnconfirmed, StopReturns
<1> QED
  BY <1>1, <1>2, <1>3 DEF SandboxNext

LEMMA WorkerIsLive ==
    ASSUME Placed, Living, Worker, ~Write
    PROVE  "worker" \in live
<1>1. CASE CancelSession \/ WorkerDies
  BY <1>1 DEF CancelSession, WorkerDies
<1>2. CASE ~CancelSession /\ ~WorkerDies
  BY <1>2, WorkerMoves DEF Living, Preparing
<1> QED
  BY <1>1, <1>2

LEMMA OperatorIsLive ==
    ASSUME Placed, Typed, Living, NEW t \in Thread, Operation(t), t # "helper"
    PROVE  live # {} /\ (t = "runner" => "controller" \in live)
<1>1. Moves(t) /\ Placed'
  BY OperationKeeps DEF Keeps
<1>2. CASE t = "task"
  BY <1>1, <1>2, TaskPlaces DEF Living, StopSteps, Stops
<1>3. CASE t = "cancel"
  BY <1>1, <1>3, CancelPlaces DEF Living, StopSteps, Stops
<1>4. CASE t = "runner"
  BY <1>1, <1>4, RunnerPlaces DEF Living
<1> QED
  BY <1>2, <1>3, <1>4 DEF Thread

\* While someone of the execution lives, nothing of the sandbox is cleaned.
LEMMA NotCleanedYet ==
    ASSUME Typed, Living, CleanInv, halt # "unconfirmed", live # {}
    PROVE  /\ file # Nothing => file.phase # "cleaned"
           /\ copy["helper"].phase # "cleaned"
           /\ at["helper"] # "dropped"
<1>1. file # Nothing => file.phase # "cleaned"
  BY DEF CleanInv
<1>2. copy["helper"].phase # "cleaned"
  BY <1>1, NothingIsNone DEF CleanInv, Typed
<1>3. at["helper"] # "dropped"
  BY DEF Living, StopsOnly, StopSteps, Stops, Typed
<1> QED
  BY <1>1, <1>2, <1>3

LEMMA StaysUncleaned ==
    ASSUME file' # Nothing => file'.phase # "cleaned", copy'["helper"].phase # "cleaned", at'["helper"] # "dropped"
    PROVE  CleanInv'
BY DEF CleanInv

LEMMA AtDropVolume ==
    ASSUME NEW t \in Thread, Operation(t), at[t] = "dropVolume"
    PROVE  VolumeDropped(t) \/ Fails(t)
BY DEF Operation, Asks, Records, Goes, Load, StopIntent, VerifiersStopped, BoxStopped, StopConfirmed,
       StopFails, VerifyIntent, VerifierCreated, VerifierFails, VerifierStarted, VerifierReaped, VerifyResult,
       VerifiersRemoved, ReaderKnown, ReaderNeeded, ReaderCreated, ReaderRecorded, ExportIntent, Look, CopyOut,
       Commit, Committed, ExportFailed, CleanupIntent, BoxDropped, Cleaned

LEMMA ToDropped ==
    ASSUME Placed, Placed', Moves("helper"), at'["helper"] = "dropped"
    PROVE  at["helper"] = "dropVolume"
<1>1. todo["helper"] \in Rests("helper", at["helper"])
  BY DEF Placed, Thread
<1>2. at["helper"] \in Returning /\ todo["helper"] # <<>> => Head(todo["helper"]) # "dropped"
  BY <1>1, LoadReads, StopReads, HelperReads
  DEF Returning, Rests, StopSteps, Stops, VerifySteps, ReaderSteps, ExportSteps, Exports, CleanupSteps, Reads
<1> QED
  BY <1>2 DEF Moves, Follows

LEMMA NoughtStays ==
    ASSUME Typed, Nought, Handles("helper"), at["helper"] \notin {"verifierCreate", "verifierStart", "readerCreate"}
    PROVE  Nought'
BY DEF Handles, Nought, Typed, Daemon

LEMMA HelperClean ==
    ASSUME Placed, Typed, Living, Mounted, PhaseOf, CleanInv, halt # "unconfirmed", Operation("helper")
    PROVE  CleanInv'
<1>1. /\ Moves("helper") /\ Placed' /\ Handles("helper") /\ Saves("helper") /\ live' = live /\ "helper" \in Thread
      /\ Holder("helper") = "helper" /\ My("helper") = copy["helper"] /\ copy["helper"] \in State
  BY OperationKeeps, OperationHandles, OperationSaves DEF Keeps, execution, Holder, My, Typed, Thread
<1>2. at["helper"] \notin {"off", "end", "failed", "choose"} /\ at'["helper"] \notin {"off", "load"}
  BY <1>1, HelperPlaces
<1>3. at'["helper"] = "dropped" => Nought'
  <2>1. ASSUME at'["helper"] = "dropped" PROVE Nought'
    <3>1. at["helper"] = "dropVolume" /\ ~Fails("helper")
      BY <1>1, <2>1, ToDropped, FailKeeps
    <3>2. VolumeDropped("helper")
      BY <1>1, <3>1, AtDropVolume
    <3>3. docker' = [docker EXCEPT !.volume = FALSE] /\ ~InUse
      BY <3>2 DEF VolumeDropped, Asks, Mounted, InUse
    <3> QED
      BY <3>3 DEF InUse, Nought, Typed, Daemon
  <2> QED
    BY <2>1
<1>4. CASE file # Nothing /\ file.phase = "cleaned"
  <2>1. live = {} /\ Nought /\ (at["helper"] # "load" => copy["helper"] = file)
    BY <1>2, <1>4 DEF CleanInv, HelperIdle
  <2>2. Nought'
    <3>1. at["helper"] \notin {"verifierCreate", "verifierStart", "readerCreate"}
      BY <1>4, <2>1 DEF PhaseOf, VerifySteps, ReaderSteps
    <3> QED
      BY <1>1, <2>1, <3>1, NoughtStays
  <2>3. copy'["helper"] = file' \/ file' = Nothing
    <3>1. CASE at["helper"] = "load"
      <4>1. Load("helper")
        BY <1>1, <3>1, AtLoad
      <4> QED
        BY <1>1, <1>4, <4>1 DEF Load, Typed
    <3>2. CASE at["helper"] # "load"
      BY <1>1, <2>1, <3>2 DEF Saves, NoRecord, Record, Typed
    <3> QED
      BY <3>1, <3>2
  <2>4. file' # Nothing
    <3>1. file' = Nothing => file = Nothing
      BY <1>1, RecordNotNothing
    <3> QED
      BY <1>4, <3>1
  <2> QED
    BY <1>1, <2>1, <2>2, <2>3, <2>4 DEF CleanInv
<1>5. CASE ~(file # Nothing /\ file.phase = "cleaned")
  <2>1. copy["helper"].phase # "cleaned"
    BY <1>1, <1>5, NothingIsNone DEF CleanInv
  <2>2. CASE NoRecord
    BY <1>3, <1>5, <2>1, <2>2 DEF NoRecord, CleanInv
  <2>3. CASE at["helper"] = "load" /\ file # Nothing /\ file' = file /\ copy' = [copy EXCEPT !["helper"] = file]
    BY <1>3, <1>5, <2>3 DEF CleanInv, Typed
  <2>4. ASSUME NEW state, Record("helper", state), Written("helper", state)
        PROVE  CleanInv'
    <3>1. file' = state /\ copy'["helper"] = state
      BY <1>1, <2>4 DEF Record, Typed
    <3>2. CASE state.phase # "cleaned"
      BY <1>3, <3>1, <3>2 DEF CleanInv
    <3>3. CASE state.phase = "cleaned"
      <4>1. at["helper"] = "dropped"
        BY <1>1, <2>1, <2>4, <3>3 DEF Written, State
      <4>2. live = {}
        BY <4>1 DEF Living, StopsOnly, StopSteps, Stops, Typed
      <4>3. Nought'
        BY <1>1, <4>1, NoughtStays DEF CleanInv
      <4> QED
        BY <1>1, <3>1, <4>2, <4>3 DEF CleanInv
    <3> QED
      BY <3>2, <3>3
  <2> QED
    BY <1>1, <2>2, <2>3, <2>4 DEF Saves
<1> QED
  BY <1>4, <1>5

LEMMA OtherClean ==
    ASSUME Placed, Typed, Living, Candidate, CleanInv, halt # "unconfirmed", NEW t \in Thread \ {"helper"}, Operation(t)
    PROVE  CleanInv'
<1>1. /\ file # Nothing => file.phase # "cleaned"
      /\ copy["helper"].phase # "cleaned" /\ at["helper"] # "dropped"
  BY OperatorIsLive, NotCleanedYet
<1>2. at'["helper"] = at["helper"] /\ copy'["helper"] = copy["helper"]
  BY OperationOthers
<1>3. My(t) \in State /\ My(t).phase # "cleaned" /\ at[t] # "dropped"
  <2>1. t = "runner" => "controller" \in live
    BY OperatorIsLive
  <2>2. at[t] # "dropped"
    BY HelperOnly DEF CleanupSteps
  <2> QED
    BY <2>1, <2>2 DEF My, Holder, Thread, Typed, WorkerState, Candidate
<1>4. \A state : Written(t, state) => state.phase # "cleaned"
  BY <1>3 DEF Written, State
<1>5. file' # Nothing => file'.phase # "cleaned"
  BY <1>1, <1>4, OperationSaves DEF Saves, NoRecord, Record
<1> QED
  BY <1>1, <1>2, <1>5, StaysUncleaned

LEMMA WorkerClean ==
    ASSUME Placed, Typed, Living, Mounted, CleanInv, halt # "unconfirmed", Worker
    PROVE  CleanInv'
<1>1. CASE Write
  BY <1>1 DEF Write, NoRecord, execution, CleanInv, HelperIdle, Nought, Typed, Daemon
<1>2. CASE ~Write
  <2>1. /\ file # Nothing => file.phase # "cleaned"
        /\ copy["helper"].phase # "cleaned" /\ at["helper"] # "dropped"
    BY <1>2, WorkerIsLive, NotCleanedYet
  <2>2. file' = file \/ file'.phase # "cleaned"
    BY WorkerSaves, WorkerRecords DEF NoRecord, WorkerState
  <2> QED
    BY <2>1, <2>2, WorkerOthers, StaysUncleaned
<1> QED
  BY <1>1, <1>2

LEMMA OutsideClean ==
    ASSUME Placed, Typed, CleanInv, halt # "unconfirmed", Outside
    PROVE  CleanInv'
<1>1. /\ file' = file /\ live' \subseteq live
      /\ copy'["helper"] = copy["helper"] \/ (HelperDies /\ copy'["helper"] = Fresh)
      /\ docker' = docker \/ (docker.verifier = "running" /\ docker' = [docker EXCEPT !.verifier = "exited"])
  BY OutsideKeeps
<1>2. /\ at'["helper"] = at["helper"] \/ at'["helper"] \in {"load", "stop", "failed"}
      /\ at'["helper"] = "stop" /\ at["helper"] # "stop" => at["helper"] = "choose"
      /\ HelperDies => at'["helper"] = "failed"
  BY OutsideMoves, HelperMoves DEF Takes
<1>3. Nought => Nought'
  BY <1>1 DEF Nought
<1>4. ASSUME file' # Nothing, file'.phase = "cleaned"
      PROVE  live' = {} /\ Nought' /\ ((~HelperIdle)' /\ at'["helper"] # "load" => copy'["helper"] = file')
  <2>1. live = {} /\ Nought /\ (~HelperIdle /\ at["helper"] # "load" => copy["helper"] = file)
    BY <1>1, <1>4 DEF CleanInv
  <2>2. (~HelperIdle)' /\ at'["helper"] # "load" => copy'["helper"] = file'
    BY <1>1, <1>2, <2>1 DEF HelperIdle
  <2> QED
    BY <1>1, <1>3, <2>1, <2>2
<1>5. copy'["helper"].phase = "cleaned" => file' = copy'["helper"]
  BY <1>1 DEF CleanInv, Fresh
<1>6. at'["helper"] = "dropped" => Nought'
  BY <1>2, <1>3 DEF CleanInv
<1> QED
  BY <1>4, <1>5, <1>6 DEF CleanInv

LEMMA CleanHolds ==
    ASSUME Placed, Typed, Living, Mounted, Candidate, PhaseOf, CleanInv, SandboxNext
    PROVE  CleanInv'
<1>1. CASE halt = "unconfirmed"
  BY <1>1, HaltStays DEF CleanInv
<1>2. CASE halt # "unconfirmed"
  BY <1>2, HelperClean, OtherClean, WorkerClean, OutsideClean DEF SandboxNext
<1> QED
  BY <1>1, <1>2

-----------------------------------------------------------------------------
(* Readers.                                                                *)

LEMMA ToReaderMade ==
    ASSUME Placed, Placed', NEW t \in {"runner", "helper"}, Moves(t), at'[t] = "readerMade"
    PROVE  at[t] = "readerCreate"
<1>1. todo[t] \in Rests(t, at[t])
  BY DEF Placed, Thread
<1>2. at[t] \in Returning /\ todo[t] # <<>> => Head(todo[t]) # "readerMade"
  <2>1. CASE t = "runner"
    BY <1>1, <2>1, RunnerReads DEF Returning, Rests, StopSteps, Stops, VerifySteps, ReaderSteps, ExportSteps, Exports, Reads
  <2>2. CASE t = "helper"
    BY <1>1, <2>2, LoadReads, StopReads, HelperReads
    DEF Returning, Rests, StopSteps, Stops, VerifySteps, ReaderSteps, ExportSteps, Exports, CleanupSteps, Reads
  <2> QED
    BY <2>1, <2>2
<1> QED
  BY <1>2 DEF Moves, Follows

LEMMA AtReaderCreate ==
    ASSUME NEW t \in Thread, Operation(t), at[t] = "readerCreate"
    PROVE  ReaderCreated(t) \/ Fails(t)
BY DEF Operation, Asks, Records, Goes, Load, StopIntent, VerifiersStopped, BoxStopped, StopConfirmed,
       StopFails, VerifyIntent, VerifierCreated, VerifierFails, VerifierStarted, VerifierReaped, VerifyResult,
       VerifiersRemoved, ReaderKnown, ReaderNeeded, ReaderRecorded, ExportIntent, Look, CopyOut,
       Commit, Committed, ExportFailed, CleanupIntent, BoxDropped, VolumeDropped, Cleaned

LEMMA OperationReaders ==
    ASSUME Placed, Typed, Living, Readers, NEW t \in Thread, Operation(t), halt # "unconfirmed", ReaderThere'
    PROVE  docker'.box \in {"absent", "reader"} /\ at'["task"] \in {"settled", "ended", "dead"}
<1>1. /\ Moves(t) /\ Placed' /\ Only(t) /\ Handles(t) /\ Saves(t) /\ docker \in Daemon
      /\ My(t) \in State /\ Holder(t) \in {"worker", "runner", "helper"} /\ "task" \in Thread
  BY OperationKeeps, OperationHandles, OperationSaves DEF Keeps, Typed, My, Holder, Thread
<1>2. CASE ReaderThere
  <2>1. docker.box \in {"absent", "reader"} /\ at["task"] \in {"settled", "ended", "dead"}
    BY <1>2 DEF Readers
  <2>2. t # "task"
    BY <1>1, <2>1, TaskPlaces DEF StopSteps, Stops
  <2>3. docker'.box \in {"absent", "reader"}
    BY <1>1, <2>1 DEF Handles, Daemon
  <2> QED
    BY <1>1, <2>1, <2>2, <2>3 DEF Only
<1>3. CASE ~ReaderThere
  <2>1. My(t).id # "reader" /\ (file # Nothing => file.id # "reader")
        /\ copy["runner"].id # "reader" /\ copy["helper"].id # "reader"
    BY <1>3, NothingIsNone DEF ReaderThere, My, Holder, Thread, Typed, WorkerState
  <2>2. at[t] # "readerMade"
    <3>1. at[t] = "readerMade" => t \in {"runner", "helper"}
      BY <1>1, TaskPlaces, CancelPlaces DEF Thread, StopSteps, Stops
    <3> QED
      BY <1>3, <3>1 DEF ReaderThere
  <2>3. \A state : Written(t, state) => state.id # "reader"
    BY <1>1, <2>1, <2>2, NothingIsNone DEF Written, State
  <2>4. /\ file' # Nothing => file'.id # "reader"
        /\ copy'["runner"].id # "reader" /\ copy'["helper"].id # "reader"
    BY <1>1, <2>1, <2>3 DEF Saves, NoRecord, Record, Typed
  <2>5. PICK h \in {"runner", "helper"} : at'[h] = "readerMade"
    BY <2>4 DEF ReaderThere
  <2>6. h = t /\ at[t] = "readerCreate"
    <3>1. h = t
      BY <1>1, <1>3, <2>5 DEF Only, ReaderThere, Thread
    <3> QED
      BY <1>1, <2>5, <3>1, ToReaderMade
  <2>7. ReaderCreated(t)
    BY <2>5, <2>6, AtReaderCreate, FailKeeps
  <2>8. docker'.box = "reader"
    BY <1>1, <2>7 DEF ReaderCreated, Asks, Daemon
  <2>9. at["task"] \in {"settled", "ended", "dead"}
    <3>1. CASE t = "runner"
      BY <2>6, <3>1 DEF Living
    <3>2. CASE t = "helper"
      BY <2>6, <3>2 DEF Living, StopsOnly, StopSteps, Stops
    <3> QED
      BY <2>5, <2>6, <3>1, <3>2
  <2>10. at'["task"] = at["task"]
    BY <1>1, <2>5, <2>6 DEF Only
  <2> QED
    BY <2>8, <2>9, <2>10
<1> QED
  BY <1>2, <1>3

LEMMA WorkerReaders ==
    ASSUME Placed, Typed, Living, Mounted, Readers, Worker, halt # "unconfirmed", ReaderThere'
    PROVE  docker'.box \in {"absent", "reader"} /\ at'["task"] \in {"settled", "ended", "dead"}
<1>1. ReaderThere
  <2>1. file' = file \/ file'.id # "reader"
    BY WorkerSaves, WorkerRecords, NothingIsNone DEF NoRecord, WorkerState
  <2> QED
    BY <2>1, WorkerOthers DEF ReaderThere
<1>2. docker.box \in {"absent", "reader"} /\ at["task"] \in {"settled", "ended", "dead"}
  BY <1>1 DEF Readers
<1>3. docker' = docker
  BY <1>2, WorkerAsks DEF WorkerHandles, Mounted
<1>4. at'["task"] \in {"settled", "ended", "dead"}
  <2>1. CASE Write
    BY <1>2, <2>1 DEF Write
  <2>2. CASE CancelSession
    BY <1>2, <2>2, CancelMoves DEF Living, Typed, Thread
  <2>3. CASE WorkerDies
    BY <1>2, <2>3, DeathMoves
  <2>4. CASE ~Write /\ ~CancelSession /\ ~WorkerDies
    BY <1>2, <2>4, WorkerMoves DEF Preparing
  <2> QED
    BY <2>1, <2>2, <2>3, <2>4
<1> QED
  BY <1>2, <1>3, <1>4

LEMMA OutsideReaders ==
    ASSUME Placed, Typed, Readers, Outside, halt # "unconfirmed", ReaderThere'
    PROVE  docker'.box \in {"absent", "reader"} /\ at'["task"] \in {"settled", "ended", "dead"}
<1>1. ReaderThere
  <2>1. \A h \in {"runner", "helper"} : at'[h] = "readerMade" => at[h] = "readerMade"
    BY OutsideMoves
  <2>2. \A h \in {"runner", "helper"} : copy'[h].id = "reader" => copy[h].id = "reader"
    BY OutsideKeeps, NothingIsNone DEF Fresh
  <2> QED
    BY <2>1, <2>2, OutsideKeeps DEF ReaderThere
<1>2. docker'.box = docker.box
  BY OutsideKeeps DEF Typed, Daemon
<1> QED
  BY <1>1, <1>2, OutsideMoves DEF Readers

LEMMA ReadersHold ==
    ASSUME Placed, Typed, Living, Mounted, Readers, SandboxNext
    PROVE  Readers'
<1>1. halt' # "unconfirmed" => halt # "unconfirmed"
  BY HaltStays
<1> QED
  BY <1>1, OperationReaders, WorkerReaders, OutsideReaders DEF Readers, SandboxNext

-----------------------------------------------------------------------------
(* The end of all effects.                                                 *)

\* No step of an operation makes a write possible.
LEMMA OperationPotential ==
    ASSUME Placed, Typed, NEW t \in Thread, Operation(t)
    PROVE  /\ Potential' => Potential
           /\ docker'.shell => docker.shell
<1>1. /\ Moves(t) /\ Placed' /\ Only(t) /\ Handles(t) /\ docker \in Daemon /\ "task" \in Thread
  BY OperationKeeps, OperationHandles DEF Keeps, Typed, Thread
<1>2. (docker'.shell => docker.shell) /\ (docker'.box = "running" => docker.box = "running")
  BY <1>1 DEF Handles, Daemon
<1>3. at'["task"] = "calling" => at["task"] = "calling"
  BY <1>1, TaskPlaces DEF Only, StopSteps, Stops
<1> QED
  BY <1>2, <1>3 DEF Potential

\* The helper of a stop ends only when nothing can write any more.
LEMMA HelperEnds ==
    ASSUME Placed, Typed, Living, Admitted, Mounted, Hashes, Candidate, Readers,
           halt = "called", "controller" \in live, Potential, Operation("helper"), at'["helper"] = "end"
    PROVE  FALSE
<1>1. /\ Moves("helper") /\ Placed' /\ "helper" \in Thread /\ StopsOnly
      /\ My("helper") = copy["helper"] /\ copy["helper"] \in State
  BY OperationKeeps DEF Keeps, Living, My, Holder, Typed, Thread
<1>2. ~Quiet /\ docker.box = "running"
  BY DEF Potential, Quiet, Mounted
<1>3. CASE at["helper"] = "load"
  <2>1. Load("helper") /\ todo["helper"] = <<"stop">>
    BY <1>1, <1>3, AtLoad DEF StopsOnly
  <2>2. CASE file = Nothing
    BY <1>2, <2>2 DEF Admitted
  <2>3. CASE file # Nothing
    <3>1. Goto("helper", "return")
      BY <2>1, <2>3 DEF Load
    <3>2. at'["helper"] = "stop"
      BY <1>1, <1>3, <2>1, <3>1, GoesBack, LoadReads DEF Returning, Reads
    <3> QED
      BY <3>2
  <2> QED
    BY <2>2, <2>3
<1>4. CASE at["helper"] \in StopSteps
  <2>1. ~Fails("helper") /\ ~StopFails("helper") /\ ~VerifiersStopped("helper") /\ ~BoxStopped("helper")
    BY <1>1, FailKeeps, StopThrows, StopGoesOn
  <2>2. CASE StopIntent("helper")
    <3>1. copy["helper"].phase \in {"archived", "cleaned"}
      BY <1>1, <2>2, StopBegins
    <3>2. copy["helper"].phase = "archived"
      BY <3>1 DEF Candidate
    <3> QED
      BY <1>2, <3>2 DEF Hashes, Truthful
  <2>3. CASE StopConfirmed("helper")
    <3>1. copy["helper"].id # "reader"
      BY <1>2 DEF Readers, ReaderThere
    <3>2. docker.box # "running"
      BY <1>1, <2>3, <3>1, NotRunning DEF StopConfirmed
    <3> QED
      BY <1>2, <3>2
  <2> QED
    BY <1>1, <1>4, <2>1, <2>2, <2>3, AtStops
<1> QED
  BY <1>1, <1>3, <1>4, HelperPlaces DEF StopsOnly

LEMMA OperationHalting ==
    ASSUME Placed, Typed, Living, Admitted, Mounted, Hashes, Candidate, Readers, Halting,
           NEW t \in Thread, Operation(t)
    PROVE  Halting'
<1>1. Keeps(t) /\ live' = live /\ halt' = halt
  BY OperationKeeps DEF Keeps, execution
<1>2. ASSUME halt = "called", "controller" \in live, Potential
      PROVE  at'["helper"] \in {"load", "failed"} \cup StopSteps
  <2>1. CASE t # "helper"
    BY <1>2, <2>1, OperationOthers DEF Halting
  <2>2. CASE t = "helper"
    <3>1. StopsOnly' /\ at'["helper"] # "off"
      BY <1>1, <1>2, <2>2, HelperPlaces DEF Keeps, Living
    <3>2. at'["helper"] # "end"
      BY <1>2, <2>2, HelperEnds
    <3> QED
      BY <3>1, <3>2 DEF StopsOnly
  <2> QED
    BY <2>1, <2>2
<1> QED
  BY <1>1, <1>2, OperationPotential DEF Halting

LEMMA WorkerHalting ==
    ASSUME Placed, Typed, Living, Halting, Worker
    PROVE  Halting'
<1>1. /\ halt' = halt /\ live' \subseteq live /\ at'["helper"] = at["helper"]
      /\ WorkerHandles /\ docker \in Daemon
  BY WorkerAsks, WorkerOthers DEF WorkerDies, Typed
<1>2. /\ docker'.shell => docker.shell \/ (at["task"] = "calling" /\ docker.box = "running")
      /\ docker'.box = "running" => docker.box = "running" \/ at["task"] = "starting"
      /\ docker'.shell => docker.shell \/ at["task"] = "calling"
  BY <1>1 DEF WorkerHandles, Daemon
<1>3. halt # "no" /\ at'["task"] = "calling" => at["task"] = "calling"
  <2>1. CASE Write
    BY <2>1 DEF Write
  <2>2. CASE CancelSession
    BY <2>2, CancelMoves DEF Living, Typed, Thread
  <2>3. CASE WorkerDies
    BY <2>3, DeathMoves
  <2>4. CASE ~Write /\ ~CancelSession /\ ~WorkerDies
    BY <2>4, WorkerMoves DEF Call
  <2> QED
    BY <2>1, <2>2, <2>3, <2>4
<1>4. halt # "no" /\ Potential' => Potential
  BY <1>2, <1>3 DEF Potential
<1>5. halt = "confirmed" => ~docker'.shell
  BY <1>2 DEF Halting, Living
<1> QED
  BY <1>1, <1>4, <1>5 DEF Halting

LEMMA OutsideHalting ==
    ASSUME Placed, Typed, Living, Mounted, Halting, Outside
    PROVE  Halting'
<1>1. docker'.shell = docker.shell /\ docker'.box = docker.box /\ at'["task"] = at["task"] /\ live' \subseteq live
  BY OutsideKeeps, OutsideMoves DEF Typed, Daemon
<1>2. Potential' <=> Potential
  BY <1>1 DEF Potential
<1>3. CASE StopCalled
  <2>1. halt' = "called"
    BY <1>3 DEF StopCalled
  <2>2. CASE at["runner"] = "waiting"
    <3>1. at'["helper"] = "load"
      BY <1>3, <2>2, HelperMoves DEF Takes
    <3> QED
      BY <2>1, <3>1 DEF Halting
  <2>3. CASE at["runner"] # "waiting"
    <3>1. "controller" \in live
      BY <1>3 DEF StopCalled
    <3>2. ~Potential
      BY <2>3, <3>1 DEF Living, Mounted, Potential
    <3> QED
      BY <1>2, <2>1, <3>2 DEF Halting
  <2> QED
    BY <2>2, <2>3
<1>4. CASE StopProved
  <2>1. /\ "worker" \notin live /\ at["helper"] \in {"off", "end"} /\ halt = "called" /\ "controller" \in live
        /\ halt' = "confirmed"
    BY <1>4 DEF StopProved, StopReturns
  <2>2. ~Potential
    BY <2>1 DEF Halting, StopSteps, Stops
  <2> QED
    BY <1>1, <1>2, <2>1, <2>2 DEF Halting, Potential
<1>5. CASE StopUnconfirmed
  BY <1>5 DEF StopUnconfirmed, StopReturns, Halting
<1>6. CASE halt' = halt
  <2>1. at'["helper"] \in {at["helper"], "load", "stop", "failed"}
    BY OutsideMoves
  <2> QED
    BY <1>1, <1>2, <1>6, <2>1 DEF Halting, StopSteps
<1> QED
  BY <1>3, <1>4, <1>5, <1>6, OutsideKeeps

LEMMA HaltingHolds ==
    ASSUME Placed, Typed, Living, Admitted, Mounted, Hashes, Candidate, Readers, Halting, SandboxNext
    PROVE  Halting'
BY OperationHalting, WorkerHalting, OutsideHalting DEF SandboxNext

-----------------------------------------------------------------------------
(* The theorems of the sandbox.                                            *)

\* The inductive invariant.
SandboxInvariant ==
    /\ Placed /\ Typed /\ Living /\ Admitted /\ Mounted /\ Hashes /\ Dropping /\ Candidate
    /\ PhaseOf /\ CleanInv /\ Readers /\ Halting

LEMMA SandboxBegins ==
    ASSUME SandboxInit
    PROVE  SandboxInvariant
<1> USE DEF SandboxInit
<1>1. Placed
  <2>1. {"new", "off", "waiting"} \subseteq Place
    BY DEF Place
  <2>2. <<>> \in Rests("task", "new") /\ <<>> \in Rests("cancel", "off") /\ <<>> \in Rests("runner", "waiting")
        /\ <<>> \in Rests("helper", "off")
    BY DEF Rests, TaskSteps, StopSteps, Stops, Preparing, VerifySteps, ReaderSteps, ExportSteps, Exports, CleanupSteps
  <2> QED
    BY <2>1, <2>2 DEF Placed, Thread
<1>2. Typed
  <2>1. Fresh \in WorkerState /\ WorkerState \subseteq State
    BY DEF Fresh, WorkerState, State
  <2>2. 0 \in Content
    BY WritesAssumption DEF Content
  <2> QED
    BY <2>1, <2>2 DEF Typed, Daemon
<1>3. Living /\ Admitted
  <2>1. StopsOnly
    BY DEF StopsOnly, Thread
  <2>2. Living
    BY <2>1 DEF Living, Preparing
  <2> QED
    BY <2>2 DEF Admitted
<1>4. Mounted /\ Hashes /\ Dropping
  BY DEF Mounted, Hashes, Truthful, Fresh, Dropping, CleanupSteps
<1>5. Candidate /\ PhaseOf
  <2>1. <<>> \notin {<<"stop", "verify">>, <<"verify">>}
    OBVIOUS
  <2> QED
    BY <2>1 DEF Candidate, PhaseOf, VerifySteps, Exports, ReaderSteps, Stops, Fresh, Thread
<1>6. CleanInv /\ Readers /\ Halting
  BY NothingIsNone DEF CleanInv, Readers, ReaderThere, Halting, Fresh, Potential
<1> QED
  BY <1>1, <1>2, <1>3, <1>4, <1>5, <1>6 DEF SandboxInvariant

LEMMA SandboxGoesOn ==
    ASSUME SandboxInvariant, [SandboxNext]_sandboxVars
    PROVE  SandboxInvariant'
<1>1. CASE SandboxNext
  BY <1>1, PlacedHolds, TypedHolds, LivingHolds, AdmittedHolds, MountedHolds, HashesHold, DroppingHolds,
     CandidateHolds, PhaseOfHolds, CleanHolds, ReadersHold, HaltingHolds DEF SandboxInvariant
<1>2. CASE UNCHANGED sandboxVars
  <2> USE <1>2 DEF sandboxVars, world, execution
  <2>1. Placed => Placed'
    BY DEF Placed
  <2>2. Typed => Typed'
    BY DEF Typed
  <2>3. Living => Living'
    BY DEF Living, StopsOnly
  <2>4. Admitted => Admitted'
    BY DEF Admitted
  <2>5. Mounted => Mounted'
    BY DEF Mounted
  <2>6. Hashes => Hashes'
    BY DEF Hashes, Truthful, Quiet
  <2>7. Dropping => Dropping'
    BY DEF Dropping
  <2>8. Candidate => Candidate'
    BY DEF Candidate
  <2>9. PhaseOf => PhaseOf'
    BY DEF PhaseOf
  <2>10. CleanInv => CleanInv'
    BY DEF CleanInv, Nought, HelperIdle
  <2>11. Readers => Readers'
    BY DEF Readers, ReaderThere
  <2>12. Halting => Halting'
    BY DEF Halting, Potential
  <2> QED
    BY <2>1, <2>2, <2>3, <2>4, <2>5, <2>6, <2>7, <2>8, <2>9, <2>10, <2>11, <2>12 DEF SandboxInvariant
<1> QED
  BY <1>1, <1>2

\* The invariant holds of every behaviour: places, records, archives, volume and
\* stops of the Docker sandbox agree, whatever the worker and the controller do.
THEOREM SandboxSafety == SandboxSpec => []SandboxInvariant
<1> QED
  BY SandboxBegins, SandboxGoesOn, PTL DEF SandboxSpec

\* All that a thread can have still to do.
Known == Place \cup {"wasStopped", "wasArchived"}

LEMMA RestsAreKnown ==
    ASSUME Placed, NEW t \in Thread
    PROVE  Range(todo[t]) \subseteq Known
<1>1. todo[t] \in Rests(t, at[t])
  BY DEF Placed
<1>2. {"gone", "stop", "ended", "ready", "settled", "failed", "export", "frozen", "verify", "copyOut", "remove",
       "reader", "choose", "cleanup", "wasArchived", "wasStopped"} \subseteq Known
  BY DEF Known, Place, Throwing, Exports
<1>3. CASE t \in {"task", "cancel"}
  BY <1>1, <1>2, <1>3 DEF Rests, Range
<1>4. CASE t = "runner"
  <2>1. todo[t] \in {<<>>, <<"stop", "stop", "export", "frozen">>, <<"stop", "verify">>, <<"stop", "export", "frozen">>,
           <<"export", "frozen">>, <<"verify">>, <<"frozen">>, <<"copyOut", "frozen">>, <<"wasArchived">>, <<"wasStopped">>}
    BY <1>1, <1>4 DEF Rests
  <2> QED
    BY <1>2, <2>1 DEF Range
<1>5. CASE t = "helper"
  BY <1>1, <1>2, <1>5 DEF Rests, Range
<1> QED
  BY <1>3, <1>4, <1>5 DEF Thread

LEMMA SurvivesThen ==
    ASSUME SandboxInvariant
    PROVE  WorkSurvives
<1> USE DEF SandboxInvariant
<1>1. SandboxTypeOK
  <2>1. \A t \in Thread : Range(todo[t]) \subseteq Place \cup {"wasStopped", "wasArchived"}
    BY RestsAreKnown DEF Known
  <2> QED
    BY <2>1 DEF SandboxTypeOK, Placed, Typed, Mounted, Admitted
<1>2. docker.content > 0 /\ ~docker.volume => \E d \in Destination : kept[d] = docker.content
  BY DEF Dropping, Hashes
<1>3. VerifiesWhatIsKept
  <2>1. at["runner"] = "verifying" => docker.box # "running"
    BY DEF Living, Mounted
  <2>2. at["runner"] = "verifying" => kept["candidate"] = docker.content
    BY DEF Candidate, Hashes, VerifySteps, Destination
  <2> QED
    BY <2>1, <2>2 DEF VerifiesWhatIsKept
<1> QED
  BY <1>1, <1>2, <1>3 DEF WorkSurvives

\* cleanup() removes a volume only after its content lies in an archive, and the
\* runner's verifier reads what the archive holds.
THEOREM WorkAlwaysSurvives == SandboxSpec => []WorkSurvives
BY SandboxSafety, SurvivesThen, PTL

\* A sandbox recorded as cleaned has no container, verifier or volume left, unless
\* a stop went unconfirmed.
THEOREM CleanedIsAlwaysClean == SandboxSpec => []CleanedIsClean
<1>1. SandboxInvariant => CleanedIsClean
  BY DEF SandboxInvariant, CleanInv, Nought, CleanedIsClean
<1> QED
  BY <1>1, SandboxSafety, PTL

\* Once stop() has returned confirmed, no step changes the workspace again.
THEOREM StopsEndEffects == SandboxSpec => StopEndsEffects
<1>1. ASSUME SandboxInvariant, [SandboxNext]_sandboxVars
      PROVE  [halt = "confirmed" => docker'.content = docker.content]_sandboxVars
  <2>1. ASSUME SandboxNext, halt = "confirmed"
        PROVE  docker'.content = docker.content
    <3>1. ~docker.shell /\ docker \in Daemon
      BY <1>1, <2>1 DEF SandboxInvariant, Halting, Typed
    <3>2. Worker => docker'.content = docker.content
      BY <1>1, <3>1, WorkerAsks DEF SandboxInvariant, WorkerHandles, Daemon
    <3>3. Outside => docker'.content = docker.content
      BY <1>1, <3>1, OutsideKeeps DEF SandboxInvariant, Daemon
    <3>4. \A t \in Thread : Operation(t) => docker'.content = docker.content
      BY <1>1, <3>1, OperationHandles DEF SandboxInvariant, Handles, Daemon
    <3> QED
      BY <2>1, <3>2, <3>3, <3>4 DEF SandboxNext
  <2> QED
    BY <1>1, <2>1
<1> QED
  BY <1>1, SandboxSafety, PTL DEF SandboxSpec, StopEndsEffects

=============================================================================

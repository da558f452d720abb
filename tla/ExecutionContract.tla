------------------------- MODULE ExecutionContract -------------------------
(***************************************************************************)
(* What an execution plan promises (docs/design/execution-controller.md):  *)
(* attempts run one after another and start only while the execution is    *)
(* not revoked, one reason revokes it for good, the reported reason is     *)
(* that one unless the stop or the cleanup failed, and the execution does  *)
(* not end while an attempt is running.                                    *)
(***************************************************************************)

CONSTANTS Reason, Degraded, None

VARIABLES
    phase,   \* "open", "revoked", "closed"
    verdict, \* the reason, None while open
    running  \* an attempt is with the runner

vars == <<phase, verdict, running>>

Init == phase = "open" /\ verdict = None /\ running = FALSE

Start ==
    /\ phase = "open" /\ ~running
    /\ running' = TRUE
    /\ UNCHANGED <<phase, verdict>>

Settle ==
    /\ running
    /\ running' = FALSE
    /\ UNCHANGED <<phase, verdict>>

Revoke(r) ==
    /\ phase = "open"
    /\ phase' = "revoked"
    /\ verdict' = r
    /\ UNCHANGED running

\* Also of an execution that failed before anything revoked it; it may end at once.
Degrade(r) ==
    /\ phase # "closed" /\ ~running
    /\ phase' \in {"revoked", "closed"}
    /\ verdict' = r
    /\ UNCHANGED running

Close ==
    /\ phase # "closed" /\ ~running
    /\ phase' = "closed"
    /\ UNCHANGED <<verdict, running>>

\* The process of the execution dies.
Crash ==
    /\ phase # "closed"
    /\ phase' = "closed"
    /\ running' = FALSE
    /\ UNCHANGED verdict

Next ==
    \/ Start \/ Settle
    \/ \E r \in Reason : Revoke(r)
    \/ \E r \in Degraded : Degrade(r)
    \/ Close \/ Crash

Spec == Init /\ [][Next]_vars
=============================================================================

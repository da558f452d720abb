--------------------------- MODULE TaskOwnership ---------------------------
(***************************************************************************)
(* Tasks, leases and stops of apps/evidence-web: the PostgreSQL rows that  *)
(* internal/tasks keeps, the Workers of internal/worker that claim and     *)
(* execute them through internal/executor, the Node children they spawn,   *)
(* the coordinators that confirm stops, and the users' controls.           *)
(*                                                                         *)
(* A transaction that locks the task row is one action.  What spans        *)
(* transactions is not: a claim checks (lines 46-65) before it picks, an   *)
(* executor loads, starts, identifies and sends the job in turn, and a     *)
(* maintenance cycle lists tasks before it stops each of them.             *)
(***************************************************************************)
EXTENDS Naturals, FiniteSets

CONSTANTS
    Tasks,      \* bound of the model: number of task rows
    Conv,       \* conversations
    Owner,      \* Worker sessions; a restarted Worker is another Owner
    Slots,      \* started and not yet stopped tasks allowed (2 in claim.go)
    Version,    \* checkpoint envelope versions the executor uses, within {1, 2}
    MaxAttempt, \* bound of the model: attempts of a task
    None

ASSUME OwnershipAssumption ==
    /\ Tasks \in Nat
    /\ Slots \in Nat
    /\ MaxAttempt \in Nat
    /\ Version \subseteq {1, 2}
    /\ None \notin Conv \cup Owner \cup Nat

\* Rows in creation order, which is the message order within a conversation.
Task == 1..Tasks

VARIABLES
    row,      \* ew_tasks
    point,    \* the newest checkpoint of each task in ew_checkpoints
    lease,    \* ew_owners: the heartbeat lease and connection of each session
    exec,     \* the Worker loop and the execution it is in
    child,    \* the Node child of each Worker; it outlives a crashed Worker
    box,      \* tasks whose labelled container exists
    claiming, \* sessions inside the claim transaction's advisory lock
    listed    \* authorities a maintenance cycle has still to stop

vars == <<row, point, lease, exec, child, box, claiming, listed>>

State == {"absent", "queued", "running", "cancelling", "completed", "failed",
          "interrupted", "blocked", "cancelled", "superseded"}
Outcome == {"answered", "silent", "failed"}
Authority == [task : Task, attempt : Nat, owner : Owner, gen : Nat]

Row == [state : State, conv : Conv \cup {None}, replaces : Task \cup {None},
        active : BOOLEAN,     \* active_branch
        cleanup : BOOLEAN,    \* cleanup_confirmed
        started : BOOLEAN,    \* started_at IS NOT NULL
        owner : Owner \cup {None}, gen : Nat, attempt : Nat,
        revoked : BOOLEAN,    \* revoked_at IS NOT NULL
        node : BOOLEAN,       \* node_pid IS NOT NULL
        cancel : BOOLEAN,     \* cancel_requested_at IS NOT NULL
        resumed : BOOLEAN,    \* resume_checkpoint IS NOT NULL
        silent : BOOLEAN,     \* the result's finalText is empty
        kept : BOOLEAN]       \* attempt_result IS NOT NULL

Execution == [pc : {"new", "idle", "claimed", "loaded", "started", "identified",
                    "serving", "exited", "finishing", "closing", "dead"},
              task : Task \cup {None}, attempt : Nat, gen : Nat,
              outcome : Outcome,
              quit : BOOLEAN] \* the failure is not ErrFenced: the Worker ends

Checkpoint == [attempt : Nat, version : Version, eligible : BOOLEAN]

TypeOK ==
    /\ row \in [Task -> Row]
    /\ point \in [Task -> Checkpoint \cup {None}]
    /\ lease \in [Owner -> {"none", "live", "stale", "revoked"}]
    /\ exec \in [Owner -> Execution]
    /\ child \in [Owner -> {"none", "spawned", "idle", "admitted", "acting"}]
    /\ box \subseteq Task
    /\ claiming \subseteq Owner
    /\ listed \subseteq Authority

NewRow(c, replaced) ==
    [state |-> "queued", conv |-> c, replaces |-> replaced, active |-> TRUE,
     cleanup |-> FALSE, started |-> FALSE, owner |-> None, gen |-> 0,
     attempt |-> 0, revoked |-> FALSE, node |-> FALSE, cancel |-> FALSE,
     resumed |-> FALSE, silent |-> FALSE, kept |-> FALSE]

Init ==
    /\ row = [t \in Task |-> [NewRow(None, None) EXCEPT !.state = "absent"]]
    /\ point = [t \in Task |-> None]
    /\ lease = [w \in Owner |-> "none"]
    /\ exec = [w \in Owner |-> [pc |-> "new", task |-> None, attempt |-> 0, gen |-> 0,
                                outcome |-> "failed", quit |-> FALSE]]
    /\ child = [w \in Owner |-> "none"]
    /\ box = {}
    /\ claiming = {}
    /\ listed = {}

-----------------------------------------------------------------------------
(* Users: append, cancel, replace, resume.  A request id that was already  *)
(* served answers with its recorded decision and changes nothing.          *)

Free(t) == row[t].state = "absent" /\ \A u \in Task : u < t => row[u].state # "absent"
Earlier(t) == {p \in Task : p < t /\ row[p].conv = row[t].conv /\ row[p].active}
Eligible(t) == point[t] # None /\ point[t].eligible
Withdrawn(p) == IF p = None THEN p ELSE [p EXCEPT !.eligible = FALSE]

AppendQuestion(t, c) ==
    /\ Free(t)
    /\ row' = [row EXCEPT ![t] = NewRow(c, None)]
    /\ UNCHANGED <<point, lease, exec, child, box, claiming, listed>>

\* The control's decision about its target.
Controlled(t) ==
    LET r == row[t]
        resumable == Eligible(t) /\ r.state \in {"interrupted", "failed"}
    IN  CASE r.state = "queued" \/ (resumable /\ r.cleanup) ->
                 [r EXCEPT !.state = "cancelled", !.cancel = TRUE, !.cleanup = TRUE]
          [] r.state = "running" \/ (resumable /\ ~r.cleanup) ->
                 [r EXCEPT !.state = "cancelling", !.cancel = TRUE, !.cleanup = FALSE]
          [] OTHER -> r

Cancel(t) ==
    /\ row[t].state # "absent"
    /\ row' = [row EXCEPT ![t] = Controlled(t)]
    /\ point' = [point EXCEPT ![t] = Withdrawn(@)]
    /\ UNCHANGED <<lease, exec, child, box, claiming, listed>>

\* The running or cancelling task of the conversation, else its first queued one.
Current(t) ==
    LET rest == {u \in Task \ {t} : row[u].conv = row[t].conv /\ row[u].active}
        busy == {u \in rest : row[u].state \in {"running", "cancelling"}}
    IN  /\ row[t].active
        /\ \/ row[t].state = "running" /\ \A u \in busy : t < u
           \/ /\ row[t].state = "queued"
              /\ busy = {}
              /\ \A u \in rest : row[u].state = "queued" => t < u

Replace(t, n) ==
    /\ Current(t)
    /\ Free(n)
    /\ row' = [u \in Task |->
         CASE u = t -> [Controlled(t) EXCEPT !.active = FALSE]
           [] u = n -> NewRow(row[t].conv, t)
           [] u > t /\ row[u].conv = row[t].conv /\ row[u].active
                    /\ row[u].state \in {"queued", "blocked"} ->
                [row[u] EXCEPT !.active = FALSE, !.state = "superseded", !.cleanup = TRUE]
           [] OTHER -> row[u]]
    /\ point' = [point EXCEPT ![t] = Withdrawn(@)]
    /\ UNCHANGED <<lease, exec, child, box, claiming, listed>>

Requeued(t) ==
    /\ row' = [row EXCEPT ![t].state = "queued", ![t].attempt = @ + 1,
                          ![t].resumed = TRUE, ![t].node = FALSE]
    /\ point' = [point EXCEPT ![t] = Withdrawn(@)]
    /\ UNCHANGED <<lease, exec, child, box, claiming, listed>>

\* A version 2 point whose reconciliation is not confirmed changes nothing here.
Resume(t) ==
    /\ row[t].state \in {"interrupted", "failed"} /\ row[t].cleanup
    /\ row[t].active /\ ~row[t].cancel
    /\ Eligible(t) /\ point[t].attempt = row[t].attempt
    /\ row[t].attempt < MaxAttempt
    /\ Requeued(t)

-----------------------------------------------------------------------------
(* Workers: sessions, leases and the claim.                                *)

At(w, pc) == exec[w].pc = pc
Goto(w, pc) == exec' = [exec EXCEPT ![w].pc = pc]

OpenSession(w) ==
    /\ At(w, "new")
    /\ Goto(w, "idle")
    /\ lease' = [lease EXCEPT ![w] = "live"]
    /\ UNCHANGED <<row, point, child, box, claiming, listed>>

\* Ten seconds without a heartbeat, or the dedicated connection is lost: Renew
\* never renews again.
LoseLease(w) ==
    /\ lease[w] = "live"
    /\ lease' = [lease EXCEPT ![w] = "stale"]
    /\ UNCHANGED <<row, point, exec, child, box, claiming, listed>>

Available(w) ==
    /\ lease[w] = "live"
    /\ Cardinality({t \in Task : row[t].started /\ ~row[t].cleanup}) < Slots

Unsafe == \E t \in Task :
    \/ row[t].state = "cancelling"
    \/ /\ row[t].started /\ ~row[t].cleanup
       /\ row[t].state \in {"interrupted", "failed", "cancelled"}

\* The claim without its advisory lock.
ClaimCheckUnlocked(w) ==
    /\ At(w, "idle") /\ w \notin claiming
    /\ Available(w) /\ ~Unsafe
    /\ claiming' = claiming \cup {w}
    /\ UNCHANGED <<row, point, lease, exec, child, box, listed>>

\* The first two queries of claimTask; the rest of the transaction reads what
\* commits after them.
ClaimCheck(w) ==
    /\ At(w, "idle") /\ claiming = {}
    /\ Available(w) /\ ~Unsafe
    /\ claiming' = {w}
    /\ UNCHANGED <<row, point, lease, exec, child, box, listed>>

Unavailable(p) ==
    \/ row[p].state \in {"failed", "interrupted", "blocked", "cancelled"}
    \/ row[p].state = "completed" /\ row[p].silent
Queued(t) == row[t].active /\ row[t].state = "queued"
Doomed(t) == Queued(t) /\ \E p \in Earlier(t) : Unavailable(p)

\* Any queued task that no unavailable predecessor blocks.
ClaimableAhead(t) == Queued(t) /\ ~Doomed(t)

Claimable(t) ==
    /\ Queued(t) /\ ~Doomed(t)
    /\ \A p \in Earlier(t) : row[p].state = "completed" /\ row[p].cleanup

Blocked(r) == [r EXCEPT !.state = "blocked", !.cleanup = TRUE]
Assigned(r, w) == [r EXCEPT !.gen = @ + 1, !.revoked = FALSE, !.owner = w]
AfterBlocking == [t \in Task |-> IF Doomed(t) THEN Blocked(row[t]) ELSE row[t]]

ClaimNothing(w) ==
    /\ w \in claiming
    /\ ~\E t \in Task : Claimable(t)
    /\ row' = AfterBlocking
    /\ claiming' = claiming \ {w}
    /\ UNCHANGED <<point, lease, exec, child, box, listed>>

\* The public context is too large: blocked after the owner was assigned.
ClaimTooLarge(w, t) ==
    /\ w \in claiming
    /\ Claimable(t) /\ ~row[t].resumed
    /\ row' = [AfterBlocking EXCEPT ![t] = Blocked(Assigned(@, w))]
    /\ claiming' = claiming \ {w}
    /\ UNCHANGED <<point, lease, exec, child, box, listed>>

\* SKIP LOCKED passes over a task that a control holds, so the pick need not be
\* the oldest.  Reading the authority back may fail: the Worker then ends.
Claim(w, t) ==
    /\ w \in claiming
    /\ Claimable(t)
    /\ row' = [AfterBlocking EXCEPT ![t] =
         [Assigned(@, w) EXCEPT !.state = "running", !.started = TRUE, !.cleanup = FALSE]]
    /\ claiming' = claiming \ {w}
    /\ \E pc \in {"claimed", "closing"} :
         exec' = [exec EXCEPT ![w] = [@ EXCEPT !.pc = pc, !.task = t, !.quit = FALSE,
                     !.attempt = row[t].attempt, !.gen = row[t].gen + 1]]
    /\ UNCHANGED <<point, lease, child, box, listed>>

\* Any database error rolls the claim back and ends the Worker.
ClaimFails(w) ==
    /\ w \in claiming
    /\ claiming' = claiming \ {w}
    /\ Goto(w, "closing")
    /\ UNCHANGED <<row, point, lease, child, box, listed>>

-----------------------------------------------------------------------------
(* Executor.Execute: each step checks the authority under the row lock.    *)

Holds(a) ==
    /\ row[a.task].attempt = a.attempt
    /\ row[a.task].owner = a.owner
    /\ row[a.task].gen = a.gen
Mine(w) == [task |-> exec[w].task, attempt |-> exec[w].attempt,
            owner |-> w, gen |-> exec[w].gen]

Authorized(w) ==
    /\ row[exec[w].task].state = "running"
    /\ Holds(Mine(w))
    /\ ~row[exec[w].task].revoked
    /\ lease[w] = "live"

\* The deferred kill of the child, then Finish.
Abandon(w, quit) ==
    /\ exec' = [exec EXCEPT ![w].pc = "finishing", ![w].quit = quit, ![w].outcome = "failed"]
    /\ child' = [child EXCEPT ![w] = "none"]

Load(w) ==
    /\ At(w, "claimed") /\ Authorized(w)
    /\ Goto(w, "loaded")
    /\ UNCHANGED <<row, point, lease, child, box, claiming, listed>>

\* Execute returns before it deferred Finish: a fenced Worker claims again, any
\* other failure ends it.
LoadFails(w) ==
    /\ At(w, "claimed")
    /\ Goto(w, "closing") \/ (~Authorized(w) /\ Goto(w, "idle"))
    /\ UNCHANGED <<row, point, lease, child, box, claiming, listed>>

Start(w) ==
    /\ At(w, "loaded") /\ Authorized(w)
    /\ row' = [row EXCEPT ![exec[w].task].node = TRUE]
    /\ child' = [child EXCEPT ![w] = "spawned"]
    /\ Goto(w, "started")
    /\ UNCHANGED <<point, lease, box, claiming, listed>>

\* The Worker dies between the spawn and the commit: the PID is not recorded and
\* the child has no job.
CrashInStart(w) ==
    /\ At(w, "loaded") /\ Authorized(w)
    /\ child' = [child EXCEPT ![w] = "spawned"]
    /\ Goto(w, "dead")
    /\ lease' = [lease EXCEPT ![w] = "stale"]
    /\ UNCHANGED <<row, point, box, claiming, listed>>

\* The execution.identity event; the job is written after its commit.
Identify(w) ==
    /\ At(w, "started") /\ Authorized(w)
    /\ Goto(w, "identified")
    /\ UNCHANGED <<row, point, lease, child, box, claiming, listed>>

SendJob(w) ==
    /\ At(w, "identified") /\ child[w] = "spawned"
    /\ child' = [child EXCEPT ![w] = "idle"]
    /\ Goto(w, "serving")
    /\ UNCHANGED <<row, point, lease, box, claiming, listed>>

\* The child asks, the admission commits, the ACK is on its way.
Admit(w) ==
    /\ At(w, "serving") /\ child[w] = "idle" /\ Authorized(w)
    /\ child' = [child EXCEPT ![w] = "admitted"]
    /\ UNCHANGED <<row, point, lease, exec, box, claiming, listed>>

\* A checkpoint, dispatch or receipt of the current attempt; v = None invalidates.
Pointed(w, v) ==
    /\ point' = [point EXCEPT ![exec[w].task] =
                   IF v = None THEN Withdrawn(@)
                   ELSE [attempt |-> exec[w].attempt, version |-> v, eligible |-> TRUE]]
    /\ UNCHANGED <<row, lease, exec, child, box, claiming, listed>>

\* A checkpoint accepted from a Worker that lost its authority.
StoreCheckpointUnfenced(w, v) ==
    /\ At(w, "serving") /\ child[w] = "idle"
    /\ Pointed(w, v)

StoreCheckpoint(w, v) ==
    /\ At(w, "serving") /\ child[w] = "idle" /\ Authorized(w)
    /\ Pointed(w, v)

\* A step, or the record of an event, without authority returns ErrFenced.
Fenced(w) ==
    /\ \/ exec[w].pc \in {"loaded", "started"}
       \/ At(w, "serving") /\ child[w] \in {"idle", "acting"}
    /\ ~Authorized(w)
    /\ Abandon(w, FALSE)
    /\ UNCHANGED <<row, point, lease, box, claiming, listed>>

\* A broken pipe, an exit code, a protocol or database error, a cancelled context.
ExecutionFails(w) ==
    /\ exec[w].pc \in {"loaded", "started", "identified", "serving", "exited"}
    /\ Abandon(w, TRUE)
    /\ UNCHANGED <<row, point, lease, box, claiming, listed>>

-----------------------------------------------------------------------------
(* The Node child.                                                         *)

\* The admitted tool call starts its container; a revocation does not recall it.
Act(w) ==
    /\ child[w] = "admitted"
    /\ child' = [child EXCEPT ![w] = "acting"]
    /\ box' = box \cup {exec[w].task}
    /\ UNCHANGED <<row, point, lease, exec, claiming, listed>>

ActDone(w) ==
    /\ child[w] = "acting"
    /\ child' = [child EXCEPT ![w] = "idle"]
    /\ box' = box \ {exec[w].task}
    /\ UNCHANGED <<row, point, lease, exec, claiming, listed>>

\* A crash, the monitor's SIGKILL five seconds after a cancel, or the end of its
\* stdin; a container it started stays.
ChildDies(w) ==
    /\ child[w] # "none"
    /\ child' = [child EXCEPT ![w] = "none"]
    /\ UNCHANGED <<row, point, lease, exec, box, claiming, listed>>

\* The final envelope and exit code 0; its cleanup flag says no container is left.
Return(w, outcome) ==
    /\ At(w, "serving") /\ child[w] = "idle"
    /\ child' = [child EXCEPT ![w] = "none"]
    /\ exec' = [exec EXCEPT ![w].pc = "exited", ![w].outcome = outcome]
    /\ UNCHANGED <<row, point, lease, box, claiming, listed>>

-----------------------------------------------------------------------------
(* Publication, Finish and the end of a session.                           *)

Published(r, outcome) ==
    IF r.state = "cancelling"
    THEN [r EXCEPT !.kept = TRUE, !.state = "cancelled", !.cleanup = TRUE]
    ELSE [r EXCEPT !.state = IF outcome = "failed" THEN "failed" ELSE "completed",
                   !.silent = (outcome = "silent"), !.cleanup = TRUE]

\* A pending version 2 point survives a failure, for readonly reconciliation.
KeepPending(t, outcome) ==
    /\ outcome = "failed" /\ row[t].state = "running"
    /\ Eligible(t)
    /\ point[t].version = 2 /\ point[t].attempt = row[t].attempt

\* The result written without looking at the row again.
PublishUnfenced(w) ==
    LET t == exec[w].task IN
    /\ At(w, "exited")
    /\ row' = [row EXCEPT ![t].state = "completed", ![t].cleanup = TRUE]
    /\ point' = [point EXCEPT ![t] = Withdrawn(@)]
    /\ Abandon(w, FALSE)
    /\ UNCHANGED <<lease, box, claiming, listed>>

\* After a published model error of the live provider the Worker ends (line 225).
Publish(w) ==
    LET t == exec[w].task IN
    /\ At(w, "exited") /\ Authorized(w)
    /\ row' = [row EXCEPT ![t] = Published(@, exec[w].outcome)]
    /\ point' = [point EXCEPT ![t] = IF KeepPending(t, exec[w].outcome) THEN @ ELSE Withdrawn(@)]
    /\ \E quit \in BOOLEAN : Abandon(w, quit)
    /\ UNCHANGED <<lease, box, claiming, listed>>

PublishFenced(w) ==
    /\ At(w, "exited") /\ ~Authorized(w)
    /\ Abandon(w, FALSE)
    /\ UNCHANGED <<row, point, lease, box, claiming, listed>>

Stopped(r) ==
    [r EXCEPT !.cleanup = TRUE,
              !.state = CASE @ = "running" -> "interrupted"
                          [] @ = "cancelling" -> "cancelled"
                          [] OTHER -> @]

AfterFinish(w) ==
    exec' = [exec EXCEPT ![w].pc = IF exec[w].quit THEN "closing" ELSE "idle",
                         ![w].quit = FALSE]

\* Fenced, already confirmed, or left to the coordinator by a revocation; or
\* Stop could not confirm.
FinishSkips(w) ==
    /\ At(w, "finishing")
    /\ AfterFinish(w)
    /\ UNCHANGED <<row, point, lease, child, box, claiming, listed>>

Finish(w) ==
    LET t == exec[w].task IN
    /\ At(w, "finishing")
    /\ Holds(Mine(w))
    /\ ~row[t].cleanup /\ ~row[t].revoked
    /\ row' = [row EXCEPT ![t] = Stopped(@)]
    /\ box' = box \ {t}
    /\ AfterFinish(w)
    /\ UNCHANGED <<point, lease, child, claiming, listed>>

\* A lost lease taken for a stop.
RevokedAsStopped(r, lost) ==
    IF r.owner \in lost /\ ~r.revoked /\ r.state \in {"running", "cancelling"}
    THEN [Stopped(r) EXCEPT !.revoked = TRUE] ELSE r

\* revokeLost: the sessions without a lease, then their unfinished tasks.
Revoked(r, lost) ==
    IF r.owner \in lost /\ ~r.revoked /\ r.state \in {"running", "cancelling"}
    THEN [r EXCEPT !.revoked = TRUE,
                   !.state = IF @ = "running" THEN "interrupted" ELSE @]
    ELSE r

RevokeAll(lost) ==
    /\ lease' = [w \in Owner |-> IF w \in lost THEN "revoked" ELSE lease[w]]
    /\ row' = [t \in Task |-> Revoked(row[t], lost)]

Lost == {w \in Owner : lease[w] \in {"stale", "revoked"}}

\* SIGTERM, or the renewal loop found the lease lost, between two tasks.
Shutdown(w) ==
    /\ At(w, "idle") /\ w \notin claiming
    /\ Goto(w, "closing")
    /\ UNCHANGED <<row, point, lease, child, box, claiming, listed>>

CloseSession(w) ==
    /\ At(w, "closing")
    /\ Goto(w, "dead")
    /\ RevokeAll(Lost \cup {w})
    /\ UNCHANGED <<point, child, box, claiming, listed>>

Crash(w) ==
    /\ exec[w].pc \notin {"new", "dead"}
    /\ Goto(w, "dead")
    /\ lease' = [lease EXCEPT ![w] = IF @ = "live" THEN "stale" ELSE @]
    /\ claiming' = claiming \ {w}
    /\ UNCHANGED <<row, point, child, box, listed>>

-----------------------------------------------------------------------------
(* Coordinators: the API server and every Worker run Maintain; one holds   *)
(* the recovery lock.                                                      *)

RevokeLost ==
    /\ \/ \E w \in Owner : lease[w] = "stale"
       \/ \E t \in Task : Revoked(row[t], Lost) # row[t]
    /\ RevokeAll(Lost)
    /\ UNCHANGED <<point, exec, child, box, claiming, listed>>

\* The listing without the revoked tasks.
PendingCancelled(t) == ~row[t].cleanup /\ row[t].state = "cancelling"

Pending(t) == ~row[t].cleanup /\ (row[t].revoked \/ row[t].state = "cancelling")

ListPending ==
    /\ listed = {}
    /\ \E t \in Task : Pending(t)
    /\ listed' = {[task |-> t, attempt |-> row[t].attempt, owner |-> row[t].owner,
                   gen |-> row[t].gen] : t \in {u \in Task : Pending(u)}}
    /\ UNCHANGED <<row, point, lease, exec, child, box, claiming>>

\* The children stopNode kills: the recorded PID, if its argv is this attempt's.
Killed(t) == {w \in Owner : row[t].node /\ exec[w].task = t /\ exec[w].attempt = row[t].attempt}
Kill(S) == child' = [w \in Owner |-> IF w \in S THEN "none" ELSE child[w]]

\* The row is locked: the child and the container are gone when it commits.
StopPending(a) ==
    /\ a \in listed
    /\ Holds(a) /\ Pending(a.task)
    /\ Kill(Killed(a.task))
    /\ box' = box \ {a.task}
    /\ row' = [row EXCEPT ![a.task] = Stopped(@)]
    /\ listed' = listed \ {a}
    /\ UNCHANGED <<point, lease, exec, claiming>>

\* Stop fails at the PID, the container or the archive: the row is unchanged and
\* the cycle ends.
StopUnconfirmed(a) ==
    /\ a \in listed
    /\ Holds(a) /\ Pending(a.task)
    /\ \/ UNCHANGED <<child, box>>
       \/ Kill(Killed(a.task)) /\ (UNCHANGED box \/ box' = box \ {a.task})
    /\ listed' = {}
    /\ UNCHANGED <<row, point, lease, exec, claiming>>

\* Another authority ends the cycle; a stop confirmed meanwhile is passed over.
StopSkipped(a) ==
    /\ a \in listed
    /\ \/ ~Holds(a) /\ listed' = {}
       \/ Holds(a) /\ ~Pending(a.task) /\ listed' = listed \ {a}
    /\ UNCHANGED <<row, point, lease, exec, child, box, claiming>>

-----------------------------------------------------------------------------
User ==
    \/ \E t \in Task, c \in Conv : AppendQuestion(t, c)
    \/ \E t \in Task : Cancel(t)
    \/ \E t, n \in Task : Replace(t, n)
    \/ \E t \in Task : Resume(t)

Worker(w) ==
    \/ OpenSession(w) \/ LoseLease(w)
    \/ ClaimCheck(w) \/ ClaimNothing(w) \/ ClaimFails(w)
    \/ \E t \in Task : ClaimTooLarge(w, t)
    \/ \E t \in Task : Claim(w, t)
    \/ Load(w) \/ LoadFails(w) \/ Start(w) \/ CrashInStart(w)
    \/ Identify(w) \/ SendJob(w) \/ Admit(w)
    \/ \E v \in Version \cup {None} : StoreCheckpoint(w, v)
    \/ Fenced(w) \/ ExecutionFails(w)
    \/ Publish(w) \/ PublishFenced(w) \/ FinishSkips(w) \/ Finish(w)
    \/ Shutdown(w) \/ CloseSession(w) \/ Crash(w)

Node(w) ==
    \/ Act(w) \/ ActDone(w) \/ ChildDies(w)
    \/ \E outcome \in Outcome : Return(w, outcome)

Coordinator ==
    \/ RevokeLost
    \/ ListPending
    \/ \E a \in listed : StopPending(a) \/ StopUnconfirmed(a) \/ StopSkipped(a)

Next ==
    \/ User
    \/ \E w \in Owner : Worker(w) \/ Node(w)
    \/ Coordinator

Spec == Init /\ [][Next]_vars

\* Maintain runs again and again in the API server and in every Worker, and the
\* stop of each task is at last confirmed if it is tried forever.
Fairness ==
    /\ WF_vars(RevokeLost)
    /\ WF_vars(ListPending)
    /\ WF_vars(\E a \in listed : StopSkipped(a))
    /\ \A t \in Task : SF_vars(\E a \in listed : a.task = t /\ StopPending(a))

FairSpec == Spec /\ Fairness

-----------------------------------------------------------------------------
HasJob(w) == child[w] \in {"idle", "admitted", "acting"}
Working(t) == t \in box \/ \E w \in Owner : HasJob(w) /\ exec[w].task = t

\* "count every started, not-yet-cleaned task against two slots ... lease
\* expiration never frees a slot" (ownership112.md:18-20): whatever Workers
\* crash, lose their leases or are cancelled, the tasks whose Node or container
\* really runs never exceed the slots.
SlotsRespected == Cardinality({t \in Task : Working(t)}) <= Slots

\* A confirmed stop is a proof: once cleanup_confirmed is set no child with a job
\* and no container of the task is left, and a child with a job always belongs
\* to the attempt, owner and generation of the row ("a lease is an upper bound,
\* not stop proof", ownership.go:17; no job before commit, execution.go:89).
StopIsProof ==
    /\ \A t \in Task : row[t].cleanup => t \notin box
    /\ \A w \in Owner : HasJob(w) =>
          Holds(Mine(w)) /\ row[exec[w].task].started /\ ~row[exec[w].task].cleanup

\* A task runs only after every earlier active question of its conversation was
\* answered and stopped, through resumes, replacements and blocked followers
\* (claim.go:67-74).
ConversationOrder ==
    \A t \in Task : row[t].state = "running" /\ row[t].active =>
        \A p \in Earlier(t) : row[p].state = "completed" /\ ~row[p].silent

\* An eligible checkpoint is the current attempt's, and of a task that was never
\* cancelled, completed or replaced: late checkpoints of fenced Workers and
\* consumed ones never become eligible (checkpoint.go:23-33, resume.go:50,91).
PointsAreCurrent ==
    /\ TypeOK
    /\ \A t \in Task : Eligible(t) =>
          /\ point[t].attempt = row[t].attempt
          /\ row[t].state \in {"running", "interrupted", "failed"}
          /\ row[t].active /\ ~row[t].cancel

\* "Cancel intent committed first fences late completion" (README.md:171): a
\* cancelled task never runs again, completes, fails or is resumed.
CancelWins ==
    [][\A t \in Task : row[t].cancel =>
          row'[t].cancel /\ row'[t].state \in {"cancelling", "cancelled"}]_vars

\* A new attempt is allotted only when nothing of the old one runs: "explicit
\* resume cannot race ahead" of a stop (ownership112.md:56).
ResumeAfterStop ==
    [][\A t \in Task : row'[t].attempt # row[t].attempt => ~Working(t)]_vars

\* What the controls of a human promise, whichever execution they race.
ControlsHold == CancelWins /\ ResumeAfterStop

\* A task whose Worker is gone, or that was cancelled, is at last confirmed
\* stopped, and its slot is free again.
StopsAreConfirmed ==
    \A t \in Task :
        (/\ row[t].started /\ ~row[t].cleanup
         /\ row[t].state = "cancelling" \/ lease[row[t].owner] # "live")
        ~> row[t].cleanup

=============================================================================

------------------------ MODULE TaskOwnershipProofs ------------------------
(***************************************************************************)
(* For every number of tasks, sessions, slots and attempts: the types, that*)
(* a confirmed stop is a proof, and what no interleaving does to a task:   *)
(* checkpoints stay current, controls hold, conversations keep their order *)
(* and slots are never oversubscribed.                                     *)
(***************************************************************************)
EXTENDS TaskOwnership, FiniteSetTheorems, TLAPS

Busy == {"running", "cancelling", "interrupted"}

\* What the state of a row says of its other columns.
RowsAgree ==
    \A t \in Task :
        /\ row[t].state \in Busy \cup {"failed"} => row[t].started
        /\ row[t].state \in {"running", "cancelling"} => ~row[t].cleanup
        /\ row[t].started \/ row[t].revoked => row[t].owner \in Owner

\* A Worker has a child only between Start and the end of the execution, unless
\* it died; only an idle Worker is in a claim.
ChildrenHaveExecutions ==
    \A w \in Owner : child[w] # "none" =>
        /\ exec[w].pc \in {"started", "identified", "serving", "dead"}
        /\ exec[w].task \in Task

ClaimersAreIdle == \A w \in claiming : exec[w].pc = "idle"

ExecutionsHaveTasks ==
    \A w \in Owner :
        exec[w].pc \in {"claimed", "loaded", "started", "identified", "serving",
                        "exited", "finishing"} => exec[w].task \in Task

\* The children that have the job, or whose Worker may still send it.
Tracked(w) ==
    HasJob(w) \/ (child[w] = "spawned" /\ exec[w].pc \in {"started", "identified"})

TrackedAreRecorded ==
    \A w \in Owner : Tracked(w) =>
        /\ Holds(Mine(w))
        /\ row[exec[w].task].node
        /\ row[exec[w].task].state \in Busy
        /\ ~row[exec[w].task].cleanup

BoxesAreBusy == \A t \in box : row[t].state \in Busy /\ ~row[t].cleanup

\* Between two tool calls, and once the result is in, the authority that holds
\* the row has no container.
NoBoxBetweenCalls ==
    \A w \in Owner :
        (/\ exec[w].task \in Task
         /\ child[w] \in {"spawned", "idle", "admitted"} \/ exec[w].pc \in {"claimed", "loaded", "exited"}
         /\ Holds(Mine(w)))
        => exec[w].task \notin box

IInv ==
    /\ TypeOK
    /\ RowsAgree
    /\ ChildrenHaveExecutions
    /\ ClaimersAreIdle
    /\ ExecutionsHaveTasks
    /\ TrackedAreRecorded
    /\ BoxesAreBusy
    /\ NoBoxBetweenCalls
-----------------------------------------------------------------------------
LEMMA InitHolds == Init => IInv
PROOF
  <1> SUFFICES ASSUME Init PROVE IInv
    OBVIOUS
  <1> USE OwnershipAssumption DEF Init, NewRow, Busy
  <1>1. TypeOK
    BY DEF TypeOK, Row, Execution, State, Outcome, Task
  <1>2. RowsAgree /\ TrackedAreRecorded /\ BoxesAreBusy /\ NoBoxBetweenCalls
    BY DEF RowsAgree, TrackedAreRecorded, Tracked, HasJob, BoxesAreBusy, NoBoxBetweenCalls
  <1>3. ChildrenHaveExecutions /\ ClaimersAreIdle /\ ExecutionsHaveTasks
    BY DEF ChildrenHaveExecutions, ClaimersAreIdle, ExecutionsHaveTasks
  <1> QED
    BY <1>1, <1>2, <1>3 DEF IInv

\* What the statements of the transactions do to one row.
LEMMA NewIsRow ==
  ASSUME NEW c \in Conv, NEW t \in Task \cup {None}
  PROVE  NewRow(c, t) \in Row /\ NewRow(c, t).state = "queued"
         /\ ~NewRow(c, t).started /\ ~NewRow(c, t).revoked
PROOF
  BY DEF NewRow, Row, State

LEMMA AssignedIsRow ==
  ASSUME NEW r \in Row, NEW w \in Owner
  PROVE  /\ Assigned(r, w) \in Row
         /\ Assigned(r, w).owner = w
         /\ Assigned(r, w).gen = r.gen + 1
         /\ Assigned(r, w).attempt = r.attempt
PROOF
  <1>1. r.gen + 1 \in Nat /\ w \in Owner \cup {None}
    BY DEF Row
  <1> DEFINE g == r.gen + 1
  <1>2. Assigned(r, w) = [r EXCEPT !.gen = g, !.revoked = FALSE, !.owner = w]
    BY Zenon DEF Assigned
  <1>3. g \in Nat
    BY <1>1
  <1> HIDE DEF g
  <1>4. Assigned(r, w) \in Row
    BY <1>1, <1>2, <1>3 DEF Row
  <1> QED
    BY <1>4 DEF Assigned, Row

LEMMA BlockedIsRow ==
  ASSUME NEW r \in Row
  PROVE  /\ Blocked(r) \in Row
         /\ Blocked(r).state = "blocked" /\ Blocked(r).cleanup
         /\ Blocked(r).owner = r.owner /\ Blocked(r).gen = r.gen
         /\ Blocked(r).attempt = r.attempt /\ Blocked(r).node = r.node
         /\ Blocked(r).started = r.started /\ Blocked(r).revoked = r.revoked
PROOF
  BY DEF Blocked, Row, State

LEMMA ControlledIsRow ==
  ASSUME NEW t \in Task, row[t] \in Row
  PROVE  /\ Controlled(t) \in Row
         /\ Controlled(t).owner = row[t].owner /\ Controlled(t).gen = row[t].gen
         /\ Controlled(t).attempt = row[t].attempt /\ Controlled(t).node = row[t].node
         /\ Controlled(t).started = row[t].started /\ Controlled(t).revoked = row[t].revoked
         /\ \/ Controlled(t) = row[t]
            \/ Controlled(t).state = "cancelled"
               /\ (row[t].state = "queued" \/ row[t].cleanup)
            \/ /\ Controlled(t).state = "cancelling" /\ ~Controlled(t).cleanup
               /\ row[t].state \in {"running", "interrupted", "failed"}
PROOF
  <1>1. Controlled(t) \in
          {row[t],
           [row[t] EXCEPT !.state = "cancelled", !.cancel = TRUE, !.cleanup = TRUE],
           [row[t] EXCEPT !.state = "cancelling", !.cancel = TRUE, !.cleanup = FALSE]}
    BY DEF Controlled
  <1>2. /\ [row[t] EXCEPT !.state = "cancelled", !.cancel = TRUE, !.cleanup = TRUE] \in Row
        /\ [row[t] EXCEPT !.state = "cancelling", !.cancel = TRUE, !.cleanup = FALSE] \in Row
    BY DEF Row, State
  <1>3. Controlled(t) \in Row
    BY <1>1, <1>2
  <1> QED
    BY <1>3 DEF Controlled, Row

LEMMA PublishedIsRow ==
  ASSUME NEW r \in Row, NEW o \in Outcome
  PROVE  /\ Published(r, o) \in Row
         /\ Published(r, o).state \in {"cancelled", "failed", "completed"}
         /\ Published(r, o).owner = r.owner
         /\ Published(r, o).started = r.started
PROOF
  <1>1. CASE r.state = "cancelling"
    BY <1>1 DEF Published, Row, State
  <1>2. CASE r.state # "cancelling"
    <2> DEFINE b == o = "silent"
                s == IF o = "failed" THEN "failed" ELSE "completed"
    <2>1. b \in BOOLEAN /\ s \in {"failed", "completed"}
      OBVIOUS
    <2>2. Published(r, o) = [r EXCEPT !.state = s, !.silent = b, !.cleanup = TRUE]
      BY <1>2 DEF Published
    <2> HIDE DEF b, s
    <2> QED
      BY <2>1, <2>2 DEF Row, State
  <1> QED
    BY <1>1, <1>2

LEMMA StoppedIsRow ==
  ASSUME NEW r \in Row
  PROVE  /\ Stopped(r) \in Row
         /\ Stopped(r).state \notin {"running", "cancelling"}
         /\ Stopped(r).state \in Busy \cup {"failed"} => r.state \in Busy \cup {"failed"}
         /\ Stopped(r).owner = r.owner
         /\ Stopped(r).started = r.started /\ Stopped(r).revoked = r.revoked
PROOF
  BY DEF Stopped, Row, State, Busy

LEMMA RevokedIsRow ==
  ASSUME NEW r \in Row, NEW lost
  PROVE  /\ Revoked(r, lost) \in Row
         /\ Revoked(r, lost).owner = r.owner /\ Revoked(r, lost).gen = r.gen
         /\ Revoked(r, lost).attempt = r.attempt /\ Revoked(r, lost).node = r.node
         /\ Revoked(r, lost).started = r.started
         /\ Revoked(r, lost).cleanup = r.cleanup
         /\ Revoked(r, lost) = r \/ (r.state \in Busy /\ Revoked(r, lost).state \in Busy)
         /\ Revoked(r, lost).state \in {"running", "cancelling"} => Revoked(r, lost).state = r.state
PROOF
  <1> DEFINE s == IF r.state = "running" THEN "interrupted" ELSE r.state
  <1>1. Revoked(r, lost) = r \/
          (r.state \in Busy /\ Revoked(r, lost) = [r EXCEPT !.revoked = TRUE, !.state = s])
    BY DEF Revoked, Busy
  <1>2. s \in State /\ s # "running" /\ (r.state \in Busy => s \in Busy)
        /\ (s = "cancelling" => s = r.state)
    BY DEF Row, State, Busy
  <1> HIDE DEF s
  <1> QED
    BY <1>1, <1>2 DEF Row

\* Blocking touches queued rows only, and of those only state and cleanup.
LEMMA BlockingIsLocal ==
  ASSUME TypeOK, NEW u \in Task
  PROVE  /\ AfterBlocking[u] \in Row
         /\ Doomed(u) => /\ row[u].state = "queued"
                         /\ AfterBlocking[u].state = "blocked"
                         /\ AfterBlocking[u].cleanup
         /\ ~Doomed(u) => AfterBlocking[u] = row[u]
         /\ AfterBlocking[u].owner = row[u].owner
         /\ AfterBlocking[u].gen = row[u].gen
         /\ AfterBlocking[u].attempt = row[u].attempt
         /\ AfterBlocking[u].started = row[u].started
         /\ AfterBlocking[u].revoked = row[u].revoked
         /\ AfterBlocking[u].node = row[u].node
PROOF
  <1>1. row[u] \in Row
    BY DEF TypeOK
  <1>2. Doomed(u) => row[u].state = "queued"
    BY DEF Doomed, Queued
  <1>3. AfterBlocking[u] = IF Doomed(u) THEN Blocked(row[u]) ELSE row[u]
    BY DEF AfterBlocking
  <1> QED
    BY <1>1, <1>2, <1>3, BlockedIsRow

LEMMA ClaimKeeps ==
  ASSUME IInv, NEW w \in Owner, NEW t \in Task, Claim(w, t)
  PROVE  IInv'
PROOF
  <1> USE DEF IInv
  <1> DEFINE mine == [Assigned(row[t], w) EXCEPT
                        !.state = "running", !.started = TRUE, !.cleanup = FALSE]
  <1>1. row[t] \in Row /\ row[t].state = "queued" /\ ~Doomed(t)
    BY DEF TypeOK, Claim, Claimable, Queued
  <1>2. /\ mine \in Row
        /\ mine.state = "running" /\ mine.started /\ ~mine.cleanup /\ mine.owner = w
        /\ mine.attempt = row[t].attempt /\ mine.gen = row[t].gen + 1
    <2>1. "running" \in State
      BY DEF State
    <2> DEFINE a == Assigned(row[t], w)
    <2>2. /\ a \in Row /\ a.owner = w
          /\ a.attempt = row[t].attempt /\ a.gen = row[t].gen + 1
      BY <1>1, AssignedIsRow
    <2>3. mine = [a EXCEPT !.state = "running", !.started = TRUE, !.cleanup = FALSE]
      OBVIOUS
    <2> HIDE DEF a, mine
    <2> QED
      BY <2>1, <2>2, <2>3 DEF Row
  <1> HIDE DEF mine
  <1>3. AfterBlocking[t] = row[t]
    BY <1>1, BlockingIsLocal
  <1>4. row'[t] = mine /\ \A u \in Task \ {t} : row'[u] = AfterBlocking[u]
    <2>1. AfterBlocking = [u \in Task |-> AfterBlocking[u]]
      BY DEF AfterBlocking
    <2>2. row' = [AfterBlocking EXCEPT ![t] = [Assigned(@, w) EXCEPT
                    !.state = "running", !.started = TRUE, !.cleanup = FALSE]]
      BY DEF Claim
    <2>3. row' = [AfterBlocking EXCEPT ![t] = mine]
      BY <1>3, <2>2 DEF mine
    <2> QED
      BY <2>1, <2>3
  <1>5. \A u \in Task : row'[u] \in Row
    BY <1>2, <1>4, BlockingIsLocal
  <1>6. PICK pc \in {"claimed", "closing"} :
          exec' = [exec EXCEPT ![w] = [@ EXCEPT !.pc = pc, !.task = t, !.quit = FALSE,
                     !.attempt = row[t].attempt, !.gen = row[t].gen + 1]]
    BY DEF Claim
  <1>7. /\ exec'[w] = [exec[w] EXCEPT !.pc = pc, !.task = t, !.quit = FALSE,
                        !.attempt = row[t].attempt, !.gen = row[t].gen + 1]
        /\ \A v \in Owner \ {w} : exec'[v] = exec[v]
    BY <1>6 DEF TypeOK
  <1>8. row[t].attempt \in Nat /\ row[t].gen + 1 \in Nat /\ exec[w] \in Execution
    BY <1>1 DEF TypeOK, Row
  <1>9. exec'[w] \in Execution /\ exec'[w].pc = pc /\ exec'[w].task = t
    BY <1>7, <1>8 DEF Execution
  <1>10. exec' \in [Owner -> Execution]
    BY <1>6, <1>9 DEF TypeOK
  <1>11. /\ UNCHANGED <<point, lease, child, box, listed>>
        /\ claiming' = claiming \ {w} /\ w \in claiming /\ exec[w].pc = "idle"
        /\ child[w] = "none"
    BY DEF Claim, ClaimersAreIdle, ChildrenHaveExecutions
  <1>12. TypeOK'
    BY <1>5, <1>10, <1>11 DEF TypeOK, Claim, AfterBlocking
  <1>13. RowsAgree'
    <2> SUFFICES ASSUME NEW u \in Task
                 PROVE  /\ row'[u].state \in Busy \cup {"failed"} => row'[u].started
                        /\ row'[u].state \in {"running", "cancelling"} => ~row'[u].cleanup
                        /\ row'[u].started \/ row'[u].revoked => row'[u].owner \in Owner
      BY DEF RowsAgree
    <2>1. CASE u = t
      BY <1>2, <1>4, <2>1 DEF Busy
    <2>2. CASE u # t
      BY <1>4, <2>2, BlockingIsLocal DEF RowsAgree, Busy
    <2> QED
      BY <2>1, <2>2
  <1>14. (ChildrenHaveExecutions /\ ClaimersAreIdle /\ ExecutionsHaveTasks)'
    <2>1. \A v \in Owner : v = w \/ exec'[v] = exec[v]
      BY <1>7
    <2> QED
      BY <2>1, <1>9, <1>11 DEF ChildrenHaveExecutions, ClaimersAreIdle, ExecutionsHaveTasks, TypeOK
  <1>15. TrackedAreRecorded'
    <2> SUFFICES ASSUME NEW v \in Owner, Tracked(v)'
                 PROVE  (/\ Holds(Mine(v)) /\ row[exec[v].task].node
                         /\ row[exec[v].task].state \in Busy /\ ~row[exec[v].task].cleanup)'
      BY DEF TrackedAreRecorded
    <2>1. v # w /\ exec'[v] = exec[v] /\ Tracked(v) /\ exec[v].task \in Task
      BY <1>7, <1>11 DEF Tracked, HasJob, ChildrenHaveExecutions
    <2>2. exec[v].task # t /\ ~Doomed(exec[v].task)
      BY <1>1, <2>1, BlockingIsLocal DEF TrackedAreRecorded, Busy
    <2>3. row'[exec[v].task] = row[exec[v].task]
      BY <1>4, <2>1, <2>2, BlockingIsLocal
    <2> QED
      BY <2>1, <2>3 DEF TrackedAreRecorded, Holds, Mine
  <1>16. BoxesAreBusy'
    BY <1>1, <1>4, <1>11, BlockingIsLocal DEF BoxesAreBusy, TypeOK, Busy
  <1>17. NoBoxBetweenCalls'
    <2> SUFFICES ASSUME NEW v \in Owner, exec'[v].task \in box, exec'[v].task \in Task,
                        Holds(Mine(v))',
                        child[v] \in {"spawned", "idle", "admitted"}
                          \/ exec'[v].pc \in {"claimed", "loaded", "exited"}
                 PROVE  FALSE
      BY <1>11 DEF NoBoxBetweenCalls
    <2>1. exec'[v].task # t /\ v # w
      BY <1>1, <1>9 DEF BoxesAreBusy, Busy
    <2>2. exec'[v] = exec[v] /\ row'[exec[v].task] = row[exec[v].task]
      BY <1>4, <1>7, <2>1, BlockingIsLocal DEF BoxesAreBusy, Busy
    <2> QED
      BY <2>1, <2>2 DEF NoBoxBetweenCalls, Holds, Mine
  <1> QED
    BY <1>12, <1>13, <1>14, <1>15, <1>16, <1>17
-----------------------------------------------------------------------------
(* Most steps start no execution, give no child a job and no task a         *)
(* container: they retire Workers and children and change rows.             *)

Occupied(u) == row[u].state \in Busy /\ ~row[u].cleanup

\* The authority that holds an occupied row goes on holding it.
Continues(u) ==
    /\ row'[u].attempt = row[u].attempt
    /\ row'[u].owner = row[u].owner
    /\ row'[u].gen = row[u].gen
    /\ row[u].node => row'[u].node
    /\ Occupied(u)'

\* Or the step leaves nothing running for the task.
Emptied(u) ==
    /\ u \notin box'
    /\ \A w \in Owner : exec[w].task = u => ~Tracked(w)'

Retires(w) ==
    /\ exec'[w].task = exec[w].task
    /\ exec'[w].attempt = exec[w].attempt
    /\ exec'[w].gen = exec[w].gen
    /\ exec'[w].pc \in {exec[w].pc, "idle", "finishing", "closing", "dead"}
    /\ child'[w] \in {child[w], "none"}

LEMMA RetiringKeeps ==
  ASSUME IInv, TypeOK', RowsAgree',
         (ChildrenHaveExecutions /\ ClaimersAreIdle /\ ExecutionsHaveTasks)',
         box' \subseteq box,
         \A w \in Owner : Retires(w),
         \A u \in Task : Occupied(u) => Continues(u) \/ Emptied(u)
  PROVE  IInv'
PROOF
  <1> USE DEF IInv
  <1>2. ASSUME NEW w \in Owner, Tracked(w)'
        PROVE  Tracked(w) /\ exec[w].task \in Task
    BY <1>2 DEF Tracked, HasJob, Retires, ChildrenHaveExecutions
  <1>3. TrackedAreRecorded'
    <2> SUFFICES ASSUME NEW w \in Owner, Tracked(w)'
                 PROVE  (/\ Holds(Mine(w)) /\ row[exec[w].task].node
                         /\ row[exec[w].task].state \in Busy /\ ~row[exec[w].task].cleanup)'
      BY DEF TrackedAreRecorded
    <2>1. Occupied(exec[w].task) /\ Holds(Mine(w)) /\ row[exec[w].task].node
      BY <1>2 DEF TrackedAreRecorded, Occupied
    <2>2. Continues(exec[w].task)
      BY <1>2, <2>1 DEF Emptied
    <2> QED
      BY <1>2, <2>1, <2>2 DEF Continues, Retires, Holds, Mine, Occupied
  <1>4. BoxesAreBusy'
    BY DEF BoxesAreBusy, Occupied, Continues, Emptied, TypeOK
  <1>5. NoBoxBetweenCalls'
    <2> SUFFICES ASSUME NEW w \in Owner, exec'[w].task \in Task, exec'[w].task \in box',
                        Holds(Mine(w))',
                        child'[w] \in {"spawned", "idle", "admitted"}
                          \/ exec'[w].pc \in {"claimed", "loaded", "exited"}
                 PROVE  FALSE
      BY DEF NoBoxBetweenCalls
    <2>1. exec[w].task \in box /\ Occupied(exec[w].task)
      BY DEF Retires, BoxesAreBusy, Occupied
    <2>2. Continues(exec[w].task)
      BY <2>1 DEF Emptied, Retires
    <2>3. Holds(Mine(w))
      BY <2>2 DEF Continues, Retires, Holds, Mine
    <2> QED
      BY <2>1, <2>3 DEF NoBoxBetweenCalls, Retires
  <1> QED
    BY <1>3, <1>4, <1>5

\* Steps that touch neither rows, executions, children nor containers.
LEMMA QuietKeeps ==
  ASSUME IInv, TypeOK', ClaimersAreIdle', UNCHANGED <<row, exec, child, box>>
  PROVE  IInv'
PROOF
  BY DEF IInv, RowsAgree, ChildrenHaveExecutions, ExecutionsHaveTasks, TrackedAreRecorded,
         Tracked, HasJob, Holds, Mine, BoxesAreBusy, NoBoxBetweenCalls

LEMMA LoseLeaseKeeps ==
  ASSUME IInv, NEW w \in Owner, LoseLease(w)
  PROVE  IInv'
PROOF
  <1>1. TypeOK'
    BY DEF LoseLease, IInv, TypeOK
  <1>2. ClaimersAreIdle'
    BY DEF LoseLease, IInv, ClaimersAreIdle
  <1> QED
    BY <1>1, <1>2, QuietKeeps DEF LoseLease

LEMMA ClaimCheckKeeps ==
  ASSUME IInv, NEW w \in Owner, ClaimCheck(w)
  PROVE  IInv'
PROOF
  <1>1. TypeOK'
    BY DEF ClaimCheck, IInv, TypeOK
  <1>2. ClaimersAreIdle'
    BY DEF ClaimCheck, At, IInv, ClaimersAreIdle
  <1> QED
    BY <1>1, <1>2, QuietKeeps DEF ClaimCheck

LEMMA StoreCheckpointKeeps ==
  ASSUME IInv, NEW w \in Owner, NEW v \in Version \cup {None}, StoreCheckpoint(w, v)
  PROVE  IInv'
PROOF
  <1>1. TypeOK'
    <2>1. exec[w].task \in Task /\ exec[w].attempt \in Nat
      BY DEF StoreCheckpoint, At, IInv, ExecutionsHaveTasks, TypeOK, Execution
    <2>2. \A p \in Checkpoint \cup {None} : Withdrawn(p) \in Checkpoint \cup {None}
      BY DEF Withdrawn, Checkpoint
    <2>3. v # None =>
            [attempt |-> exec[w].attempt, version |-> v, eligible |-> TRUE] \in Checkpoint
      BY <2>1 DEF Checkpoint
    <2> QED
      BY <2>1, <2>2, <2>3 DEF StoreCheckpoint, Pointed, IInv, TypeOK
  <1>2. ClaimersAreIdle'
    BY DEF StoreCheckpoint, Pointed, IInv, ClaimersAreIdle
  <1> QED
    BY <1>1, <1>2, QuietKeeps DEF StoreCheckpoint, Pointed

LEMMA ListPendingKeeps ==
  ASSUME IInv, ListPending
  PROVE  IInv'
PROOF
  <1>1. TypeOK'
    <2>1. \A t \in Task : Pending(t) => row[t].owner \in Owner
      BY DEF Pending, IInv, RowsAgree, Busy
    <2>2. \A t \in Task : row[t].attempt \in Nat /\ row[t].gen \in Nat
      BY DEF IInv, TypeOK, Row
    <2>3. listed' \subseteq Authority
      BY <2>1, <2>2 DEF ListPending, Authority
    <2> QED
      BY <2>3 DEF ListPending, IInv, TypeOK
  <1>2. ClaimersAreIdle'
    BY DEF ListPending, IInv, ClaimersAreIdle
  <1> QED
    BY <1>1, <1>2, QuietKeeps DEF ListPending

LEMMA StopSkippedKeeps ==
  ASSUME IInv, NEW a \in listed, StopSkipped(a)
  PROVE  IInv'
PROOF
  <1>1. TypeOK'
    BY DEF StopSkipped, IInv, TypeOK
  <1>2. ClaimersAreIdle'
    BY DEF StopSkipped, IInv, ClaimersAreIdle
  <1> QED
    BY <1>1, <1>2, QuietKeeps DEF StopSkipped

LEMMA AbandonMoves ==
  ASSUME TypeOK, NEW w \in Owner, NEW quit \in BOOLEAN, Abandon(w, quit)
  PROVE  /\ exec' \in [Owner -> Execution]
         /\ \A v \in Owner \ {w} : exec'[v] = exec[v] /\ child'[v] = child[v]
         /\ exec'[w].pc = "finishing" /\ child'[w] = "none"
         /\ exec'[w].task = exec[w].task
         /\ exec'[w].attempt = exec[w].attempt
         /\ exec'[w].gen = exec[w].gen
         /\ child' \in [Owner -> {"none", "spawned", "idle", "admitted", "acting"}]
PROOF
  <1> DEFINE e == [exec[w] EXCEPT !.pc = "finishing", !.quit = quit, !.outcome = "failed"]
  <1>1. exec[w] \in Execution /\ "failed" \in Outcome
    BY DEF TypeOK, Outcome
  <1>2. e \in Execution /\ e.pc = "finishing" /\ e.task = exec[w].task
        /\ e.attempt = exec[w].attempt /\ e.gen = exec[w].gen
    BY <1>1 DEF Execution
  <1>3. exec' = [exec EXCEPT ![w] = e] /\ child' = [child EXCEPT ![w] = "none"]
    BY Zenon DEF Abandon
  <1> HIDE DEF e
  <1> QED
    BY <1>2, <1>3 DEF TypeOK

LEMMA AfterFinishMoves ==
  ASSUME TypeOK, NEW w \in Owner, AfterFinish(w)
  PROVE  /\ exec' \in [Owner -> Execution]
         /\ \A v \in Owner \ {w} : exec'[v] = exec[v]
         /\ exec'[w].pc \in {"idle", "closing"}
         /\ exec'[w].task = exec[w].task
         /\ exec'[w].attempt = exec[w].attempt
         /\ exec'[w].gen = exec[w].gen
PROOF
  <1>1. PICK pc \in {"idle", "closing"} :
          exec' = [exec EXCEPT ![w] = [@ EXCEPT !.pc = pc, !.quit = FALSE]]
    BY DEF AfterFinish, TypeOK
  <1> DEFINE e == [exec[w] EXCEPT !.pc = pc, !.quit = FALSE]
  <1>2. exec[w] \in Execution
    BY DEF TypeOK
  <1>3. e \in Execution /\ e.pc = pc /\ e.task = exec[w].task
        /\ e.attempt = exec[w].attempt /\ e.gen = exec[w].gen
    BY <1>2 DEF Execution
  <1>4. exec' = [exec EXCEPT ![w] = e]
    BY <1>1
  <1> HIDE DEF e
  <1> QED
    BY <1>3, <1>4 DEF TypeOK

\* Steps of one Worker or child that change no row and no container.
LEMMA LeavingKeeps ==
  ASSUME IInv, TypeOK', ChildrenHaveExecutions', ClaimersAreIdle', ExecutionsHaveTasks',
         UNCHANGED <<row, box>>, \A w \in Owner : Retires(w)
  PROVE  IInv'
PROOF
  <1>1. RowsAgree'
    BY DEF IInv, RowsAgree
  <1>2. \A u \in Task : Occupied(u) => Continues(u)
    BY DEF Occupied, Continues
  <1> QED
    BY <1>1, <1>2, RetiringKeeps

LEMMA OpenSessionKeeps ==
  ASSUME IInv, NEW w \in Owner, OpenSession(w)
  PROVE  IInv'
PROOF
  <1> USE DEF OpenSession, At, Goto
  <1>1. TypeOK'
    <2>1. exec' \in [Owner -> Execution]
      BY DEF IInv, TypeOK, Execution
    <2> QED
      BY <2>1 DEF IInv, TypeOK
  <1>2. (ChildrenHaveExecutions /\ ClaimersAreIdle /\ ExecutionsHaveTasks)'
    BY DEF IInv, TypeOK, ChildrenHaveExecutions, ClaimersAreIdle, ExecutionsHaveTasks
  <1>3. \A v \in Owner : Retires(v)
    BY DEF IInv, TypeOK, Retires
  <1> QED
    BY <1>1, <1>2, <1>3, LeavingKeeps

LEMMA ClaimFailsKeeps ==
  ASSUME IInv, NEW w \in Owner, ClaimFails(w)
  PROVE  IInv'
PROOF
  <1> USE DEF ClaimFails, At, Goto
  <1>1. TypeOK'
    BY DEF IInv, TypeOK, Execution
  <1>2. (ChildrenHaveExecutions /\ ClaimersAreIdle /\ ExecutionsHaveTasks)'
    BY DEF IInv, TypeOK, ChildrenHaveExecutions, ClaimersAreIdle, ExecutionsHaveTasks
  <1>3. \A v \in Owner : Retires(v)
    BY DEF IInv, TypeOK, Retires
  <1> QED
    BY <1>1, <1>2, <1>3, LeavingKeeps

LEMMA LoadFailsKeeps ==
  ASSUME IInv, NEW w \in Owner, LoadFails(w)
  PROVE  IInv'
PROOF
  <1>1. PICK pc \in {"closing", "idle"} : exec' = [exec EXCEPT ![w].pc = pc]
    BY DEF LoadFails, Goto
  <1>2. exec[w].pc = "claimed" /\ UNCHANGED <<row, point, lease, child, box, claiming, listed>>
    BY DEF LoadFails, At
  <1>3. TypeOK'
    BY <1>1, <1>2 DEF IInv, TypeOK, Execution
  <1>4. (ChildrenHaveExecutions /\ ClaimersAreIdle /\ ExecutionsHaveTasks)'
    BY <1>1, <1>2 DEF IInv, TypeOK, ChildrenHaveExecutions, ClaimersAreIdle, ExecutionsHaveTasks
  <1>5. \A v \in Owner : Retires(v)
    BY <1>1, <1>2 DEF IInv, TypeOK, Retires
  <1> QED
    BY <1>2, <1>3, <1>4, <1>5, LeavingKeeps

LEMMA FencedKeeps ==
  ASSUME IInv, NEW w \in Owner, Fenced(w)
  PROVE  IInv'
PROOF
  <1>1. Abandon(w, FALSE) /\ exec[w].pc \in {"loaded", "started", "identified", "serving", "exited"}
    BY DEF Fenced, At
  <1>2. UNCHANGED <<row, point, lease, box, claiming, listed>>
    BY DEF Fenced
  <1>3. /\ exec' \in [Owner -> Execution]
        /\ child' \in [Owner -> {"none", "spawned", "idle", "admitted", "acting"}]
        /\ exec'[w].pc = "finishing" /\ child'[w] = "none"
        /\ \A v \in Owner : \/ exec'[v] = exec[v] /\ child'[v] = child[v]
                            \/ /\ v = w
                               /\ exec'[v].task = exec[v].task
                               /\ exec'[v].attempt = exec[v].attempt
                               /\ exec'[v].gen = exec[v].gen
    BY <1>1, AbandonMoves DEF IInv
  <1> USE <1>1, <1>2, <1>3 DEF IInv
  <1>4. TypeOK'
    BY DEF TypeOK
  <1>5. (ChildrenHaveExecutions /\ ClaimersAreIdle /\ ExecutionsHaveTasks)'
    BY DEF TypeOK, ChildrenHaveExecutions, ClaimersAreIdle, ExecutionsHaveTasks
  <1>6. \A v \in Owner : Retires(v)
    BY DEF Retires
  <1> QED
    BY <1>4, <1>5, <1>6, LeavingKeeps

LEMMA ExecutionFailsKeeps ==
  ASSUME IInv, NEW w \in Owner, ExecutionFails(w)
  PROVE  IInv'
PROOF
  <1>1. Abandon(w, TRUE) /\ exec[w].pc \in {"loaded", "started", "identified", "serving", "exited"}
    BY DEF ExecutionFails, At
  <1>2. UNCHANGED <<row, point, lease, box, claiming, listed>>
    BY DEF ExecutionFails
  <1>3. /\ exec' \in [Owner -> Execution]
        /\ child' \in [Owner -> {"none", "spawned", "idle", "admitted", "acting"}]
        /\ exec'[w].pc = "finishing" /\ child'[w] = "none"
        /\ \A v \in Owner : \/ exec'[v] = exec[v] /\ child'[v] = child[v]
                            \/ /\ v = w
                               /\ exec'[v].task = exec[v].task
                               /\ exec'[v].attempt = exec[v].attempt
                               /\ exec'[v].gen = exec[v].gen
    BY <1>1, AbandonMoves DEF IInv
  <1> USE <1>1, <1>2, <1>3 DEF IInv
  <1>4. TypeOK'
    BY DEF TypeOK
  <1>5. (ChildrenHaveExecutions /\ ClaimersAreIdle /\ ExecutionsHaveTasks)'
    BY DEF TypeOK, ChildrenHaveExecutions, ClaimersAreIdle, ExecutionsHaveTasks
  <1>6. \A v \in Owner : Retires(v)
    BY DEF Retires
  <1> QED
    BY <1>4, <1>5, <1>6, LeavingKeeps

LEMMA ChildDiesKeeps ==
  ASSUME IInv, NEW w \in Owner, ChildDies(w)
  PROVE  IInv'
PROOF
  <1> USE DEF ChildDies, At, Goto
  <1>1. TypeOK'
    BY DEF IInv, TypeOK, Execution
  <1>2. (ChildrenHaveExecutions /\ ClaimersAreIdle /\ ExecutionsHaveTasks)'
    BY DEF IInv, TypeOK, ChildrenHaveExecutions, ClaimersAreIdle, ExecutionsHaveTasks
  <1>3. \A v \in Owner : Retires(v)
    BY DEF IInv, TypeOK, Retires
  <1> QED
    BY <1>1, <1>2, <1>3, LeavingKeeps

LEMMA PublishFencedKeeps ==
  ASSUME IInv, NEW w \in Owner, PublishFenced(w)
  PROVE  IInv'
PROOF
  <1>1. Abandon(w, FALSE) /\ exec[w].pc \in {"loaded", "started", "identified", "serving", "exited"}
    BY DEF PublishFenced, At
  <1>2. UNCHANGED <<row, point, lease, box, claiming, listed>>
    BY DEF PublishFenced
  <1>3. /\ exec' \in [Owner -> Execution]
        /\ child' \in [Owner -> {"none", "spawned", "idle", "admitted", "acting"}]
        /\ exec'[w].pc = "finishing" /\ child'[w] = "none"
        /\ \A v \in Owner : \/ exec'[v] = exec[v] /\ child'[v] = child[v]
                            \/ /\ v = w
                               /\ exec'[v].task = exec[v].task
                               /\ exec'[v].attempt = exec[v].attempt
                               /\ exec'[v].gen = exec[v].gen
    BY <1>1, AbandonMoves DEF IInv
  <1> USE <1>1, <1>2, <1>3 DEF IInv
  <1>4. TypeOK'
    BY DEF TypeOK
  <1>5. (ChildrenHaveExecutions /\ ClaimersAreIdle /\ ExecutionsHaveTasks)'
    BY DEF TypeOK, ChildrenHaveExecutions, ClaimersAreIdle, ExecutionsHaveTasks
  <1>6. \A v \in Owner : Retires(v)
    BY DEF Retires
  <1> QED
    BY <1>4, <1>5, <1>6, LeavingKeeps

LEMMA FinishSkipsKeeps ==
  ASSUME IInv, NEW w \in Owner, FinishSkips(w)
  PROVE  IInv'
PROOF
  <1>1. AfterFinish(w) /\ exec[w].pc = "finishing"
        /\ UNCHANGED <<row, point, lease, child, box, claiming, listed>>
    BY DEF FinishSkips, At
  <1> USE <1>1, AfterFinishMoves DEF IInv
  <1>2. TypeOK'
    BY DEF TypeOK
  <1>3. (ChildrenHaveExecutions /\ ClaimersAreIdle /\ ExecutionsHaveTasks)'
    BY DEF TypeOK, ChildrenHaveExecutions, ClaimersAreIdle, ExecutionsHaveTasks
  <1>4. \A v \in Owner : Retires(v)
    BY DEF Retires
  <1> QED
    BY <1>2, <1>3, <1>4, LeavingKeeps

LEMMA ShutdownKeeps ==
  ASSUME IInv, NEW w \in Owner, Shutdown(w)
  PROVE  IInv'
PROOF
  <1> USE DEF Shutdown, At, Goto
  <1>1. TypeOK'
    <2>1. exec' \in [Owner -> Execution]
      BY DEF IInv, TypeOK, Execution
    <2> QED
      BY <2>1 DEF IInv, TypeOK
  <1>2. (ChildrenHaveExecutions /\ ClaimersAreIdle /\ ExecutionsHaveTasks)'
    BY DEF IInv, TypeOK, ChildrenHaveExecutions, ClaimersAreIdle, ExecutionsHaveTasks
  <1>3. \A v \in Owner : Retires(v)
    BY DEF IInv, TypeOK, Retires
  <1> QED
    BY <1>1, <1>2, <1>3, LeavingKeeps

LEMMA CrashKeeps ==
  ASSUME IInv, NEW w \in Owner, Crash(w)
  PROVE  IInv'
PROOF
  <1>a. exec' = [exec EXCEPT ![w].pc = "dead"]
    BY DEF Crash, Goto
  <1>b. exec' \in [Owner -> Execution]
    BY <1>a DEF IInv, TypeOK, Execution
  <1> USE DEF Crash, At, Goto
  <1>1. TypeOK'
    BY <1>b DEF IInv, TypeOK
  <1>2. (ChildrenHaveExecutions /\ ClaimersAreIdle /\ ExecutionsHaveTasks)'
    BY DEF IInv, TypeOK, ChildrenHaveExecutions, ClaimersAreIdle, ExecutionsHaveTasks
  <1>3. \A v \in Owner : Retires(v)
    BY DEF IInv, TypeOK, Retires
  <1> QED
    BY <1>1, <1>2, <1>3, LeavingKeeps

-----------------------------------------------------------------------------
(* Steps that change rows.                                                  *)

RowGoesOn(u) ==
    /\ row'[u] \in Row
    /\ row'[u].state \in Busy \cup {"failed"} => row'[u].started
    /\ row'[u].state \in {"running", "cancelling"} => ~row'[u].cleanup
    /\ row'[u].started \/ row'[u].revoked => row'[u].owner \in Owner
    /\ Occupied(u) => Continues(u) \/ Emptied(u)

LEMMA SameRowGoesOn ==
  ASSUME IInv, NEW u \in Task, row'[u] = row[u]
  PROVE  RowGoesOn(u)
PROOF
  BY DEF RowGoesOn, Continues, Occupied, IInv, TypeOK, RowsAgree

LEMMA RowsKeep ==
  ASSUME IInv, row' = [u \in Task |-> row'[u]], \A u \in Task : RowGoesOn(u),
         point' \in [Task -> Checkpoint \cup {None}],
         lease' \in [Owner -> {"none", "live", "stale", "revoked"}],
         exec' = exec, child' \in [Owner -> {"none", "spawned", "idle", "admitted", "acting"}],
         \A w \in Owner : child'[w] \in {child[w], "none"},
         box' \subseteq box, claiming' \subseteq claiming, listed' \subseteq listed
  PROVE  IInv'
PROOF
  <1>1. TypeOK'
    BY DEF IInv, TypeOK, RowGoesOn
  <1>2. RowsAgree'
    BY DEF RowsAgree, RowGoesOn
  <1>3. (ChildrenHaveExecutions /\ ClaimersAreIdle /\ ExecutionsHaveTasks)'
    BY DEF IInv, ChildrenHaveExecutions, ClaimersAreIdle, ExecutionsHaveTasks
  <1>4. \A w \in Owner : Retires(w)
    BY DEF Retires
  <1> QED
    BY <1>1, <1>2, <1>3, <1>4, RetiringKeeps DEF RowGoesOn

\* A user's control of t: the children, the containers and the sessions stay.
LEMMA ControlsKeep ==
  ASSUME IInv, row' = [u \in Task |-> row'[u]], \A u \in Task : RowGoesOn(u),
         NEW t \in Task,
         point' = point \/ point' = [point EXCEPT ![t] = Withdrawn(@)],
         UNCHANGED <<lease, exec, child, box, listed>>, claiming' \subseteq claiming
  PROVE  IInv'
PROOF
  <1>1. \A p \in Checkpoint \cup {None} : Withdrawn(p) \in Checkpoint \cup {None}
    BY DEF Withdrawn, Checkpoint
  <1>2. point' \in [Task -> Checkpoint \cup {None}]
    BY <1>1 DEF IInv, TypeOK
  <1> QED
    BY <1>2, RowsKeep DEF IInv, TypeOK

LEMMA AppendQuestionKeeps ==
  ASSUME IInv, NEW t \in Task, NEW c \in Conv, AppendQuestion(t, c)
  PROVE  IInv'
PROOF
  <1>1. /\ row' = [row EXCEPT ![t] = NewRow(c, None)]
        /\ row[t].state = "absent"
        /\ UNCHANGED <<point, lease, exec, child, box, claiming, listed>>
    BY DEF AppendQuestion, Free
  <1>2. row' = [u \in Task |-> IF u = t THEN NewRow(c, None) ELSE row[u]]
    BY <1>1 DEF IInv, TypeOK
  <1>3. RowGoesOn(t)
    BY <1>1, <1>2, NewIsRow DEF RowGoesOn, Occupied, Busy
  <1>4. \A u \in Task \ {t} : RowGoesOn(u)
    BY <1>2, SameRowGoesOn
  <1> QED
    BY <1>1, <1>2, <1>3, <1>4, ControlsKeep

\* A control never ends what still runs: an occupied row stays occupied.
LEMMA ControlledGoesOn ==
  ASSUME IInv, NEW t \in Task, row'[t] \in Row,
         \A f \in {"state", "owner", "gen", "attempt", "node", "started", "revoked", "cleanup"} :
            row'[t][f] = Controlled(t)[f]
  PROVE  RowGoesOn(t)
PROOF
  <1>1. row[t] \in Row
    BY DEF IInv, TypeOK
  <1>2. /\ row'[t].owner = row[t].owner /\ row'[t].gen = row[t].gen
        /\ row'[t].attempt = row[t].attempt /\ row'[t].node = row[t].node
        /\ row'[t].started = row[t].started /\ row'[t].revoked = row[t].revoked
        /\ \/ row'[t].state = row[t].state /\ row'[t].cleanup = row[t].cleanup
           \/ row'[t].state = "cancelled" /\ (row[t].state = "queued" \/ row[t].cleanup)
           \/ /\ row'[t].state = "cancelling" /\ ~row'[t].cleanup
              /\ row[t].state \in {"running", "interrupted", "failed"}
    BY <1>1, ControlledIsRow
  <1> QED
    BY <1>2 DEF RowGoesOn, Continues, Occupied, Busy, IInv, RowsAgree

LEMMA CancelKeeps ==
  ASSUME IInv, NEW t \in Task, Cancel(t)
  PROVE  IInv'
PROOF
  <1>1. row' = [u \in Task |-> IF u = t THEN Controlled(t) ELSE row[u]]
    BY DEF Cancel, IInv, TypeOK
  <1>2. RowGoesOn(t)
    BY <1>1, ControlledIsRow, ControlledGoesOn DEF IInv, TypeOK
  <1>3. \A u \in Task \ {t} : RowGoesOn(u)
    BY <1>1, SameRowGoesOn
  <1> QED
    BY <1>1, <1>2, <1>3, ControlsKeep DEF Cancel

LEMMA ReplaceKeeps ==
  ASSUME IInv, NEW t \in Task, NEW n \in Task, Replace(t, n)
  PROVE  IInv'
PROOF
  <1> DEFINE off(u) == [row[u] EXCEPT !.active = FALSE, !.state = "superseded", !.cleanup = TRUE]
             followed(u) == /\ u > t /\ row[u].conv = row[t].conv /\ row[u].active
                            /\ row[u].state \in {"queued", "blocked"}
  <1>1. /\ row[t].state \in {"running", "queued"} /\ row[n].state = "absent" /\ n # t
        /\ row[t] \in Row
    BY DEF Replace, Current, Free, IInv, TypeOK
  <1>2. row' = [u \in Task |-> CASE u = t -> [Controlled(t) EXCEPT !.active = FALSE]
                                 [] u = n -> NewRow(row[t].conv, t)
                                 [] followed(u) -> off(u)
                                 [] OTHER -> row[u]]
    BY DEF Replace
  <1>3. row'[t] = [Controlled(t) EXCEPT !.active = FALSE]
    <2>1. ~followed(t)
      BY DEF Task
    <2> QED
      BY <1>1, <1>2, <2>1
  <1>4. RowGoesOn(t)
    <2>1. row'[t] \in Row
      BY <1>1, <1>3, ControlledIsRow DEF Row
    <2>2. \A f \in {"state", "owner", "gen", "attempt", "node", "started", "revoked", "cleanup"} :
             row'[t][f] = Controlled(t)[f]
      BY <1>1, <1>3, ControlledIsRow DEF Row
    <2> QED
      BY <2>1, <2>2, ControlledGoesOn
  <1>5. RowGoesOn(n)
    <2>1. row'[n] = NewRow(row[t].conv, t)
      BY <1>1, <1>2 DEF followed
    <2>2. row'[n] \in Row /\ row'[n].state = "queued" /\ ~row'[n].started /\ ~row'[n].revoked
      BY <1>1, <2>1 DEF NewRow, Row, State
    <2> QED
      BY <1>1, <2>2 DEF RowGoesOn, Occupied, Busy
  <1>6. ASSUME NEW u \in Task \ {t, n} PROVE RowGoesOn(u)
    <2>1. CASE followed(u)
      <3>1. row'[u] = off(u) /\ row[u].state \in {"queued", "blocked"} /\ row[u] \in Row
        BY <1>2, <2>1 DEF followed, IInv, TypeOK
      <3>2. row'[u] \in Row /\ row'[u].state = "superseded" /\ row'[u].owner = row[u].owner
            /\ row'[u].started = row[u].started /\ row'[u].revoked = row[u].revoked
        BY <3>1 DEF Row, State
      <3> QED
        BY <3>1, <3>2 DEF RowGoesOn, Occupied, Busy, IInv, RowsAgree
    <2>2. CASE ~followed(u)
      BY <1>2, <2>2, SameRowGoesOn
    <2> QED
      BY <2>1, <2>2
  <1> QED
    BY <1>2, <1>4, <1>5, <1>6, ControlsKeep DEF Replace

LEMMA ResumeKeeps ==
  ASSUME IInv, NEW t \in Task, Resume(t)
  PROVE  IInv'
PROOF
  <1> DEFINE r == [row[t] EXCEPT !.state = "queued", !.attempt = @ + 1,
                                 !.resumed = TRUE, !.node = FALSE]
  <1>1. row[t] \in Row /\ row[t].cleanup
    BY DEF Resume, IInv, TypeOK
  <1>2. row' = [u \in Task |-> IF u = t THEN r ELSE row[u]]
    BY DEF Resume, Requeued, IInv, TypeOK
  <1>3. r \in Row /\ r.state = "queued" /\ r.owner = row[t].owner
        /\ r.started = row[t].started /\ r.revoked = row[t].revoked
    <2>1. "queued" \in State /\ row[t].attempt + 1 \in Nat
      BY <1>1 DEF State, Row
    <2> QED
      BY <1>1, <2>1 DEF Row
  <1> HIDE DEF r
  <1>4. RowGoesOn(t)
    BY <1>1, <1>2, <1>3 DEF RowGoesOn, Occupied, Busy, IInv, RowsAgree
  <1>5. \A u \in Task \ {t} : RowGoesOn(u)
    BY <1>2, SameRowGoesOn
  <1> QED
    BY <1>2, <1>4, <1>5, ControlsKeep DEF Resume, Requeued

LEMMA BlockedGoesOn ==
  ASSUME IInv, NEW u \in Task, row'[u] = AfterBlocking[u]
  PROVE  RowGoesOn(u)
PROOF
  <1>1. CASE Doomed(u)
    BY <1>1, BlockingIsLocal DEF RowGoesOn, Occupied, Busy, IInv, RowsAgree
  <1>2. CASE ~Doomed(u)
    BY <1>2, BlockingIsLocal, SameRowGoesOn DEF IInv
  <1> QED
    BY <1>1, <1>2

LEMMA ClaimNothingKeeps ==
  ASSUME IInv, NEW w \in Owner, ClaimNothing(w)
  PROVE  IInv'
PROOF
  <1>1. row' = [u \in Task |-> row'[u]] /\ \A u \in Task : row'[u] = AfterBlocking[u]
    BY DEF ClaimNothing, AfterBlocking
  <1>2. \A u \in Task : RowGoesOn(u)
    BY <1>1, BlockedGoesOn
  <1> QED
    BY <1>1, <1>2, RowsKeep DEF ClaimNothing, IInv, TypeOK

LEMMA ClaimTooLargeKeeps ==
  ASSUME IInv, NEW w \in Owner, NEW t \in Task, ClaimTooLarge(w, t)
  PROVE  IInv'
PROOF
  <1> DEFINE b == Blocked(Assigned(row[t], w))
  <1>1. row[t] \in Row /\ row[t].state = "queued" /\ ~Doomed(t)
    BY DEF IInv, TypeOK, ClaimTooLarge, Claimable, Queued
  <1>2. AfterBlocking[t] = row[t]
    BY <1>1, BlockingIsLocal DEF IInv
  <1>3. AfterBlocking = [u \in Task |-> AfterBlocking[u]]
    BY DEF AfterBlocking
  <1>4. row' = [AfterBlocking EXCEPT ![t] = b]
    BY <1>2 DEF ClaimTooLarge
  <1>5. b \in Row /\ b.state = "blocked" /\ b.owner = w
    BY <1>1, AssignedIsRow, BlockedIsRow
  <1> HIDE DEF b
  <1>6. row' = [u \in Task |-> row'[u]] /\ row'[t] = b
        /\ \A u \in Task \ {t} : row'[u] = AfterBlocking[u]
    BY <1>3, <1>4
  <1>7. RowGoesOn(t)
    BY <1>1, <1>5, <1>6 DEF RowGoesOn, Occupied, Busy
  <1>8. \A u \in Task : RowGoesOn(u)
    BY <1>6, <1>7, BlockedGoesOn
  <1> QED
    BY <1>6, <1>8, RowsKeep DEF ClaimTooLarge, IInv, TypeOK

LEMMA PublishKeeps ==
  ASSUME IInv, NEW w \in Owner, Publish(w)
  PROVE  IInv'
PROOF
  <1> DEFINE t == exec[w].task
  <1>1. /\ exec[w].pc = "exited" /\ t \in Task /\ row[t] \in Row
        /\ row[t].state = "running" /\ Holds(Mine(w)) /\ child[w] = "none"
    BY DEF Publish, At, Authorized, IInv, TypeOK, ExecutionsHaveTasks, ChildrenHaveExecutions
  <1>2. PICK quit \in BOOLEAN : Abandon(w, quit)
    BY DEF Publish
  <1>3. /\ exec' \in [Owner -> Execution]
        /\ child' \in [Owner -> {"none", "spawned", "idle", "admitted", "acting"}]
        /\ exec'[w].pc = "finishing" /\ child'[w] = "none"
        /\ \A v \in Owner : \/ exec'[v] = exec[v] /\ child'[v] = child[v]
                            \/ /\ v = w
                               /\ exec'[v].task = exec[v].task
                               /\ exec'[v].attempt = exec[v].attempt
                               /\ exec'[v].gen = exec[v].gen
    BY <1>2, AbandonMoves DEF IInv
  <1>4. UNCHANGED <<lease, box, claiming, listed>>
    BY DEF Publish
  <1>5. PICK r \in Row : /\ row' = [row EXCEPT ![t] = r]
                         /\ r.state \in {"cancelled", "failed", "completed"}
                         /\ r.owner = row[t].owner /\ r.started = row[t].started
    <2>1. exec[w].outcome \in Outcome
      BY DEF IInv, TypeOK, Execution
    <2>2. row' = [row EXCEPT ![t] = Published(row[t], exec[w].outcome)]
      BY DEF Publish
    <2> QED
      BY <1>1, <2>1, <2>2, PublishedIsRow
  <1>6. point' \in [Task -> Checkpoint \cup {None}]
    <2>1. \A p \in Checkpoint \cup {None} : Withdrawn(p) \in Checkpoint \cup {None}
      BY DEF Withdrawn, Checkpoint
    <2> QED
      BY <2>1 DEF Publish, IInv, TypeOK
  <1>7. TypeOK'
    BY <1>3, <1>4, <1>5, <1>6 DEF IInv, TypeOK
  <1>8. RowsAgree'
    BY <1>1, <1>5 DEF IInv, TypeOK, RowsAgree, Busy
  <1>9. (ChildrenHaveExecutions /\ ClaimersAreIdle /\ ExecutionsHaveTasks)'
    BY <1>1, <1>3, <1>4 DEF IInv, TypeOK, ChildrenHaveExecutions, ClaimersAreIdle, ExecutionsHaveTasks
  <1>10. \A v \in Owner : Retires(v)
    BY <1>3 DEF Retires
  <1>11. Emptied(t)
    <2>1. t \notin box
      BY <1>1 DEF IInv, NoBoxBetweenCalls
    <2>2. ASSUME NEW v \in Owner, exec[v].task = t, Tracked(v)' PROVE FALSE
      <3>1. v # w
        BY <1>3, <2>2 DEF Tracked, HasJob
      <3>2. Tracked(v)
        BY <1>3, <2>2, <3>1 DEF Tracked, HasJob
      <3> QED
        BY <1>1, <2>2, <3>1, <3>2 DEF IInv, TrackedAreRecorded, Holds, Mine
    <2> QED
      BY <1>4, <2>1, <2>2 DEF Emptied
  <1>12. \A u \in Task \ {t} : Occupied(u) => Continues(u)
    BY <1>5 DEF IInv, TypeOK, Occupied, Continues
  <1> QED
    BY <1>4, <1>7, <1>8, <1>9, <1>10, <1>11, <1>12, RetiringKeeps

\* A row confirmed stopped while its container and its child end.
LEMMA StoppedGoesOn ==
  ASSUME IInv, NEW t \in Task, row' = [row EXCEPT ![t] = Stopped(@)], Emptied(t)
  PROVE  row' = [u \in Task |-> row'[u]] /\ \A u \in Task : RowGoesOn(u)
PROOF
  <1>1. row[t] \in Row
    BY DEF IInv, TypeOK
  <1>2. row' = [u \in Task |-> IF u = t THEN Stopped(row[t]) ELSE row[u]]
    BY DEF IInv, TypeOK
  <1>3. RowGoesOn(t)
    BY <1>1, <1>2, StoppedIsRow DEF RowGoesOn, IInv, RowsAgree
  <1>4. \A u \in Task \ {t} : RowGoesOn(u)
    BY <1>2, SameRowGoesOn
  <1> QED
    BY <1>2, <1>3, <1>4

LEMMA FinishKeeps ==
  ASSUME IInv, NEW w \in Owner, Finish(w)
  PROVE  IInv'
PROOF
  <1> DEFINE t == exec[w].task
  <1>1. /\ exec[w].pc = "finishing" /\ t \in Task /\ Holds(Mine(w)) /\ child[w] = "none"
        /\ row' = [row EXCEPT ![t] = Stopped(@)] /\ box' = box \ {t}
        /\ UNCHANGED <<point, lease, child, claiming, listed>>
    BY DEF Finish, At, IInv, ExecutionsHaveTasks, ChildrenHaveExecutions
  <1>2. /\ exec' \in [Owner -> Execution]
        /\ exec'[w].pc \in {"idle", "closing"}
        /\ \A v \in Owner : \/ exec'[v] = exec[v]
                            \/ /\ v = w
                               /\ exec'[v].task = exec[v].task
                               /\ exec'[v].attempt = exec[v].attempt
                               /\ exec'[v].gen = exec[v].gen
    BY AfterFinishMoves DEF Finish, IInv
  <1>3. Emptied(t)
    <2>1. ASSUME NEW v \in Owner, exec[v].task = t, Tracked(v)' PROVE FALSE
      <3>1. v # w
        BY <1>1, <2>1 DEF Tracked, HasJob
      <3>2. Tracked(v)
        BY <1>1, <1>2, <2>1, <3>1 DEF Tracked, HasJob
      <3> QED
        BY <1>1, <2>1, <3>1, <3>2 DEF IInv, TrackedAreRecorded, Holds, Mine
    <2> QED
      BY <1>1, <2>1 DEF Emptied
  <1>4. row' = [u \in Task |-> row'[u]] /\ \A u \in Task : RowGoesOn(u)
    BY <1>1, <1>3, StoppedGoesOn
  <1>5. TypeOK'
    BY <1>1, <1>2, <1>4 DEF IInv, TypeOK, RowGoesOn
  <1>6. RowsAgree'
    BY <1>4 DEF RowsAgree, RowGoesOn
  <1>7. (ChildrenHaveExecutions /\ ClaimersAreIdle /\ ExecutionsHaveTasks)'
    BY <1>1, <1>2 DEF IInv, TypeOK, ChildrenHaveExecutions, ClaimersAreIdle, ExecutionsHaveTasks
  <1>8. \A v \in Owner : Retires(v)
    BY <1>1, <1>2 DEF Retires
  <1> QED
    BY <1>1, <1>4, <1>5, <1>6, <1>7, <1>8, RetiringKeeps DEF RowGoesOn

\* A revocation changes no authority and empties no slot.
LEMMA RevokeAllGoesOn ==
  ASSUME IInv, NEW lost, RevokeAll(lost)
  PROVE  /\ row' = [u \in Task |-> row'[u]]
         /\ \A u \in Task : RowGoesOn(u)
         /\ lease' \in [Owner -> {"none", "live", "stale", "revoked"}]
PROOF
  <1>1. row' = [u \in Task |-> Revoked(row[u], lost)]
    BY DEF RevokeAll
  <1>2. ASSUME NEW u \in Task PROVE RowGoesOn(u)
    <2>1. row[u] \in Row /\ row'[u] = Revoked(row[u], lost)
      BY <1>1 DEF IInv, TypeOK
    <2>2. CASE row'[u] = row[u]
      BY <2>2, SameRowGoesOn
    <2>3. CASE row'[u] # row[u]
      <3>1. /\ row'[u] \in Row /\ row[u].state \in Busy /\ row'[u].state \in Busy
            /\ row'[u].owner = row[u].owner /\ row'[u].gen = row[u].gen
            /\ row'[u].attempt = row[u].attempt /\ row'[u].node = row[u].node
            /\ row'[u].started = row[u].started /\ row'[u].cleanup = row[u].cleanup
            /\ row'[u].state \in {"running", "cancelling"} => row'[u].state = row[u].state
        BY <2>1, <2>3, RevokedIsRow
      <3> QED
        BY <3>1 DEF RowGoesOn, Occupied, Continues, IInv, RowsAgree
    <2> QED
      BY <2>2, <2>3
  <1>3. lease' \in [Owner -> {"none", "live", "stale", "revoked"}]
    BY DEF RevokeAll, IInv, TypeOK
  <1> QED
    BY <1>1, <1>2, <1>3

LEMMA RevokeLostKeeps ==
  ASSUME IInv, RevokeLost
  PROVE  IInv'
PROOF
  <1>1. RevokeAll(Lost) /\ UNCHANGED <<point, exec, child, box, claiming, listed>>
    BY DEF RevokeLost
  <1> QED
    BY <1>1, RevokeAllGoesOn, RowsKeep DEF IInv, TypeOK

LEMMA CloseSessionKeeps ==
  ASSUME IInv, NEW w \in Owner, CloseSession(w)
  PROVE  IInv'
PROOF
  <1>1. /\ exec[w].pc = "closing" /\ exec' = [exec EXCEPT ![w].pc = "dead"]
        /\ RevokeAll(Lost \cup {w}) /\ UNCHANGED <<point, child, box, claiming, listed>>
    BY DEF CloseSession, At, Goto
  <1>2. /\ row' = [u \in Task |-> row'[u]] /\ \A u \in Task : RowGoesOn(u)
        /\ lease' \in [Owner -> {"none", "live", "stale", "revoked"}]
    BY <1>1, RevokeAllGoesOn
  <1>3. TypeOK'
    <2>1. exec' \in [Owner -> Execution]
      BY <1>1 DEF IInv, TypeOK, Execution
    <2>2. row' \in [Task -> Row]
      BY <1>2 DEF RowGoesOn
    <2> QED
      BY <1>1, <1>2, <2>1, <2>2 DEF IInv, TypeOK
  <1>4. RowsAgree'
    BY <1>2 DEF RowsAgree, RowGoesOn
  <1>5. (ChildrenHaveExecutions /\ ClaimersAreIdle /\ ExecutionsHaveTasks)'
    BY <1>1 DEF IInv, TypeOK, ChildrenHaveExecutions, ClaimersAreIdle, ExecutionsHaveTasks
  <1>6. \A v \in Owner : Retires(v)
    BY <1>1 DEF IInv, TypeOK, Retires
  <1> QED
    BY <1>1, <1>2, <1>3, <1>4, <1>5, <1>6, RetiringKeeps DEF RowGoesOn

LEMMA StopPendingKeeps ==
  ASSUME IInv, NEW a \in listed, StopPending(a)
  PROVE  IInv'
PROOF
  <1>1. /\ a.task \in Task /\ Holds(a)
        /\ row' = [row EXCEPT ![a.task] = Stopped(@)] /\ box' = box \ {a.task}
        /\ child' = [w \in Owner |-> IF w \in Killed(a.task) THEN "none" ELSE child[w]]
        /\ listed' \subseteq listed /\ UNCHANGED <<point, lease, exec, claiming>>
    BY DEF StopPending, Kill, IInv, TypeOK, Authority
  <1>2. Emptied(a.task)
    <2>1. ASSUME NEW v \in Owner, exec[v].task = a.task, Tracked(v)' PROVE FALSE
      <3>1. Tracked(v) /\ v \notin Killed(a.task)
        BY <1>1, <2>1 DEF Tracked, HasJob
      <3> QED
        BY <2>1, <3>1 DEF IInv, TrackedAreRecorded, Holds, Mine, Killed
    <2> QED
      BY <1>1, <2>1 DEF Emptied
  <1>3. row' = [u \in Task |-> row'[u]] /\ \A u \in Task : RowGoesOn(u)
    BY <1>1, <1>2, StoppedGoesOn
  <1> QED
    BY <1>1, <1>3, RowsKeep DEF IInv, TypeOK

LEMMA StopUnconfirmedKeeps ==
  ASSUME IInv, NEW a \in listed, StopUnconfirmed(a)
  PROVE  IInv'
PROOF
  <1>1. /\ box' \subseteq box /\ listed' \subseteq listed
        /\ UNCHANGED <<row, point, lease, exec, claiming>>
        /\ child' \in [Owner -> {"none", "spawned", "idle", "admitted", "acting"}]
        /\ \A w \in Owner : child'[w] \in {child[w], "none"}
    BY DEF StopUnconfirmed, Kill, IInv, TypeOK
  <1>2. \A u \in Task : RowGoesOn(u)
    BY <1>1, SameRowGoesOn
  <1>3. row' = [u \in Task |-> row'[u]]
    BY <1>1 DEF IInv, TypeOK
  <1> QED
    BY <1>1, <1>2, <1>3, RowsKeep DEF IInv, TypeOK
-----------------------------------------------------------------------------
(* Steps that start an execution, hand a child its job, or open a container.*)

LEMMA LoadKeeps ==
  ASSUME IInv, NEW w \in Owner, Load(w)
  PROVE  IInv'
PROOF
  <1>1. /\ exec[w].pc = "claimed" /\ exec' = [exec EXCEPT ![w].pc = "loaded"]
        /\ UNCHANGED <<row, point, lease, child, box, claiming, listed>>
    BY DEF Load, At, Goto
  <1>2. child[w] = "none"
    BY <1>1 DEF IInv, ChildrenHaveExecutions
  <1>3. TypeOK' /\ RowsAgree' /\ BoxesAreBusy'
    BY <1>1 DEF IInv, TypeOK, Execution, RowsAgree, BoxesAreBusy
  <1>4. (ChildrenHaveExecutions /\ ClaimersAreIdle /\ ExecutionsHaveTasks)'
    BY <1>1, <1>2 DEF IInv, TypeOK, ChildrenHaveExecutions, ClaimersAreIdle, ExecutionsHaveTasks
  <1>5. TrackedAreRecorded'
    BY <1>1, <1>2 DEF IInv, TypeOK, TrackedAreRecorded, Tracked, HasJob, Holds, Mine
  <1>6. NoBoxBetweenCalls'
    BY <1>1, <1>2 DEF IInv, TypeOK, NoBoxBetweenCalls, Holds, Mine
  <1> QED
    BY <1>3, <1>4, <1>5, <1>6 DEF IInv

LEMMA StartKeeps ==
  ASSUME IInv, NEW w \in Owner, Start(w)
  PROVE  IInv'
PROOF
  <1> DEFINE t == exec[w].task
  <1>1. /\ exec[w].pc = "loaded" /\ t \in Task /\ row[t] \in Row /\ exec[w] \in Execution
        /\ row[t].state = "running" /\ Holds(Mine(w)) /\ ~row[t].cleanup
        /\ t \notin box
    BY DEF Start, At, Authorized, IInv, TypeOK, ExecutionsHaveTasks, RowsAgree, NoBoxBetweenCalls
  <1>2. /\ exec' = [exec EXCEPT ![w].pc = "started"]
        /\ child' = [child EXCEPT ![w] = "spawned"]
        /\ UNCHANGED <<point, lease, box, claiming, listed>>
    BY DEF Start, Goto
  <1>3. PICK r \in Row : /\ row' = [row EXCEPT ![t] = r]
                         /\ r.node /\ r.state = "running" /\ ~r.cleanup
                         /\ r.owner = row[t].owner /\ r.gen = row[t].gen
                         /\ r.attempt = row[t].attempt /\ r.started = row[t].started
    <2>1. row' = [row EXCEPT ![t] = [row[t] EXCEPT !.node = TRUE]]
      BY DEF Start
    <2>2. [row[t] EXCEPT !.node = TRUE] \in Row
      BY <1>1 DEF Row
    <2> QED
      BY <1>1, <2>1, <2>2 DEF Row
  <1>4. TypeOK'
    <2>1. row' \in [Task -> Row]
      BY <1>1, <1>3 DEF IInv, TypeOK
    <2>2. exec' \in [Owner -> Execution]
      BY <1>1, <1>2 DEF IInv, TypeOK, Execution
    <2> QED
      BY <1>2, <2>1, <2>2 DEF IInv, TypeOK
  <1>5. RowsAgree' /\ BoxesAreBusy'
    BY <1>1, <1>2, <1>3 DEF IInv, TypeOK, RowsAgree, BoxesAreBusy, Busy
  <1>6. (ChildrenHaveExecutions /\ ClaimersAreIdle /\ ExecutionsHaveTasks)'
    BY <1>1, <1>2 DEF IInv, TypeOK, ChildrenHaveExecutions, ClaimersAreIdle, ExecutionsHaveTasks
  <1>7. \A u \in Task : /\ row'[u].attempt = row[u].attempt /\ row'[u].owner = row[u].owner
                        /\ row'[u].gen = row[u].gen /\ row'[u].state = row[u].state
                        /\ row'[u].cleanup = row[u].cleanup /\ (row[u].node => row'[u].node)
    <2>1. row'[t] = r /\ \A u \in Task \ {t} : row'[u] = row[u]
      BY <1>1, <1>3 DEF IInv, TypeOK
    <2> HIDE DEF t
    <2> TAKE u \in Task
    <2>2. CASE u = t
      <3>1. r.cleanup = row[u].cleanup
        BY <1>1, <1>3, <2>2 DEF Row
      <3> QED
        BY <1>1, <1>3, <2>1, <2>2, <3>1
    <2>3. CASE u # t
      BY <2>1, <2>3
    <2> QED
      BY <2>2, <2>3
  <1>8. TrackedAreRecorded'
    <2> SUFFICES ASSUME NEW v \in Owner, Tracked(v)'
                 PROVE  (/\ Holds(Mine(v)) /\ row[exec[v].task].node
                         /\ row[exec[v].task].state \in Busy /\ ~row[exec[v].task].cleanup)'
      BY DEF TrackedAreRecorded
    <2>1. CASE v = w
      <3>1. exec'[w].task = t /\ exec'[w].attempt = exec[w].attempt /\ exec'[w].gen = exec[w].gen
        BY <1>1, <1>2 DEF IInv, TypeOK
      <3>2. row'[t].node
        BY <1>1, <1>3 DEF IInv, TypeOK
      <3> QED
        BY <1>1, <1>7, <2>1, <3>1, <3>2 DEF Holds, Mine, Busy
    <2>2. CASE v # w
      <3>1. exec'[v] = exec[v] /\ Tracked(v) /\ exec[v].task \in Task
        BY <1>2, <2>2 DEF IInv, TypeOK, Tracked, HasJob, ChildrenHaveExecutions
      <3> QED
        BY <1>7, <3>1 DEF IInv, TrackedAreRecorded, Holds, Mine
    <2> QED
      BY <2>1, <2>2
  <1>9. NoBoxBetweenCalls'
    <2> SUFFICES ASSUME NEW v \in Owner, exec'[v].task \in Task, exec'[v].task \in box',
                        Holds(Mine(v))',
                        child'[v] \in {"spawned", "idle", "admitted"}
                          \/ exec'[v].pc \in {"claimed", "loaded", "exited"}
                 PROVE  FALSE
      BY DEF NoBoxBetweenCalls
    <2>1. v # w
      BY <1>1, <1>2 DEF IInv, TypeOK
    <2>2. exec'[v] = exec[v] /\ child'[v] = child[v]
      BY <1>2, <2>1 DEF IInv, TypeOK
    <2> QED
      BY <1>2, <1>7, <2>2 DEF IInv, NoBoxBetweenCalls, Holds, Mine
  <1> QED
    BY <1>4, <1>5, <1>6, <1>8, <1>9 DEF IInv

\* Steps of one Worker whose child is, or becomes, e in child'[w] and whose
\* program counter moves, in the same execution and on the same rows.
LEMMA ServingKeeps ==
  ASSUME IInv, TypeOK', NEW w \in Owner, exec[w].task \in Task, Holds(Mine(w)),
         exec[w].task \notin box,
         exec'[w].pc \in {"started", "identified", "serving", "exited", "dead"},
         \A v \in Owner : /\ exec'[v].task = exec[v].task
                          /\ exec'[v].attempt = exec[v].attempt
                          /\ exec'[v].gen = exec[v].gen
                          /\ v # w => exec'[v].pc = exec[v].pc /\ child'[v] = child[v],
         Tracked(w)' => Tracked(w),
         exec'[w].pc = "exited" => child'[w] = "none",
         claiming' \subseteq claiming, w \notin claiming,
         UNCHANGED <<row, box>>
  PROVE  IInv'
PROOF
  <1>1. RowsAgree' /\ BoxesAreBusy'
    BY DEF IInv, RowsAgree, BoxesAreBusy
  <1>2. (ChildrenHaveExecutions /\ ClaimersAreIdle /\ ExecutionsHaveTasks)'
    BY DEF IInv, TypeOK, ChildrenHaveExecutions, ClaimersAreIdle, ExecutionsHaveTasks
  <1>3. \A v \in Owner : Tracked(v)' => Tracked(v)
    BY DEF Tracked, HasJob
  <1>4. TrackedAreRecorded'
    BY <1>3 DEF IInv, TrackedAreRecorded, Holds, Mine
  <1>5. NoBoxBetweenCalls'
    BY DEF IInv, NoBoxBetweenCalls, Holds, Mine
  <1> QED
    BY <1>1, <1>2, <1>4, <1>5 DEF IInv

LEMMA CrashInStartKeeps ==
  ASSUME IInv, NEW w \in Owner, CrashInStart(w)
  PROVE  IInv'
PROOF
  <1>1. /\ exec[w].pc = "loaded" /\ exec' = [exec EXCEPT ![w].pc = "dead"]
        /\ child' = [child EXCEPT ![w] = "spawned"]
        /\ lease' = [lease EXCEPT ![w] = "stale"]
        /\ Holds(Mine(w)) /\ UNCHANGED <<row, point, box, claiming, listed>>
    BY DEF CrashInStart, At, Goto, Authorized
  <1>2. exec[w].task \in Task /\ exec[w].task \notin box /\ w \notin claiming
    BY <1>1 DEF IInv, ExecutionsHaveTasks, NoBoxBetweenCalls, ClaimersAreIdle
  <1>3. TypeOK'
    BY <1>1 DEF IInv, TypeOK, Execution
  <1>4. /\ exec'[w].pc = "dead" /\ child'[w] = "spawned"
        /\ \A v \in Owner : /\ exec'[v].task = exec[v].task
                            /\ exec'[v].attempt = exec[v].attempt
                            /\ exec'[v].gen = exec[v].gen
                            /\ v # w => exec'[v].pc = exec[v].pc /\ child'[v] = child[v]
    BY <1>1 DEF IInv, TypeOK
  <1>5. Tracked(w)' => Tracked(w)
    BY <1>4 DEF Tracked, HasJob
  <1> QED
    BY <1>1, <1>2, <1>3, <1>4, <1>5, ServingKeeps

\* In an execution with a job, or that may send it, no container is left over.
LEMMA TrackedIsClear ==
  ASSUME IInv, NEW w \in Owner, Tracked(w), child[w] # "acting"
  PROVE  /\ exec[w].task \in Task /\ exec[w].task \notin box
         /\ Holds(Mine(w)) /\ Occupied(exec[w].task) /\ w \notin claiming
PROOF
  BY DEF IInv, TypeOK, Tracked, HasJob, TrackedAreRecorded, NoBoxBetweenCalls,
         ChildrenHaveExecutions, ClaimersAreIdle, Occupied

LEMMA IdentifyKeeps ==
  ASSUME IInv, NEW w \in Owner, Identify(w)
  PROVE  IInv'
PROOF
  <1>1. /\ exec[w].pc = "started" /\ exec' = [exec EXCEPT ![w].pc = "identified"]
        /\ UNCHANGED <<row, point, lease, child, box, claiming, listed>>
    BY DEF Identify, At, Goto
  <1>2. TypeOK' /\ RowsAgree' /\ BoxesAreBusy'
    <2>1. exec' \in [Owner -> Execution]
      BY <1>1 DEF IInv, TypeOK, Execution
    <2>2. TypeOK'
      BY <1>1, <2>1 DEF IInv, TypeOK
    <2>3. RowsAgree' /\ BoxesAreBusy'
      BY <1>1 DEF IInv, RowsAgree, BoxesAreBusy
    <2> QED
      BY <2>2, <2>3
  <1>3. (ChildrenHaveExecutions /\ ClaimersAreIdle /\ ExecutionsHaveTasks)'
    BY <1>1 DEF IInv, TypeOK, ChildrenHaveExecutions, ClaimersAreIdle, ExecutionsHaveTasks
  <1>4. TrackedAreRecorded'
    BY <1>1 DEF IInv, TypeOK, TrackedAreRecorded, Tracked, HasJob, Holds, Mine
  <1>5. NoBoxBetweenCalls'
    BY <1>1 DEF IInv, TypeOK, NoBoxBetweenCalls, Holds, Mine
  <1> QED
    BY <1>2, <1>3, <1>4, <1>5 DEF IInv

LEMMA SendJobKeeps ==
  ASSUME IInv, NEW w \in Owner, SendJob(w)
  PROVE  IInv'
PROOF
  <1>1. /\ exec[w].pc = "identified" /\ exec' = [exec EXCEPT ![w].pc = "serving"]
        /\ child[w] = "spawned" /\ child' = [child EXCEPT ![w] = "idle"]
        /\ UNCHANGED <<row, point, lease, box, claiming, listed>>
    BY DEF SendJob, At, Goto
  <1>2. Tracked(w)
    BY <1>1 DEF Tracked
  <1>3. TypeOK'
    BY <1>1 DEF IInv, TypeOK, Execution
  <1>4. /\ exec'[w].pc = "serving"
        /\ \A v \in Owner : /\ exec'[v].task = exec[v].task
                            /\ exec'[v].attempt = exec[v].attempt
                            /\ exec'[v].gen = exec[v].gen
                            /\ v # w => exec'[v].pc = exec[v].pc /\ child'[v] = child[v]
    BY <1>1 DEF IInv, TypeOK
  <1> QED
    BY <1>1, <1>2, <1>3, <1>4, TrackedIsClear, ServingKeeps

LEMMA AdmitKeeps ==
  ASSUME IInv, NEW w \in Owner, Admit(w)
  PROVE  IInv'
PROOF
  <1>1. /\ exec[w].pc = "serving" /\ child[w] = "idle"
        /\ child' = [child EXCEPT ![w] = "admitted"]
        /\ UNCHANGED <<row, point, lease, exec, box, claiming, listed>>
    BY DEF Admit, At
  <1>2. Tracked(w)
    BY <1>1 DEF Tracked, HasJob
  <1>3. TypeOK' /\ \A v \in Owner : v # w => child'[v] = child[v]
    BY <1>1 DEF IInv, TypeOK
  <1> QED
    BY <1>1, <1>2, <1>3, TrackedIsClear, ServingKeeps

LEMMA ReturnKeeps ==
  ASSUME IInv, NEW w \in Owner, NEW o \in Outcome, Return(w, o)
  PROVE  IInv'
PROOF
  <1> DEFINE e == [exec[w] EXCEPT !.pc = "exited", !.outcome = o]
  <1>1. /\ exec[w].pc = "serving" /\ child[w] = "idle"
        /\ child' = [child EXCEPT ![w] = "none"]
        /\ UNCHANGED <<row, point, lease, box, claiming, listed>>
    BY DEF Return, At
  <1>2. exec' = [exec EXCEPT ![w] = e]
    BY Zenon DEF Return
  <1>3. e \in Execution /\ e.pc = "exited" /\ e.task = exec[w].task
        /\ e.attempt = exec[w].attempt /\ e.gen = exec[w].gen
    BY DEF IInv, TypeOK, Execution
  <1> HIDE DEF e
  <1>4. TypeOK'
    BY <1>1, <1>2, <1>3 DEF IInv, TypeOK
  <1>5. /\ exec'[w].pc = "exited" /\ child'[w] = "none"
        /\ \A v \in Owner : /\ exec'[v].task = exec[v].task
                            /\ exec'[v].attempt = exec[v].attempt
                            /\ exec'[v].gen = exec[v].gen
                            /\ v # w => exec'[v].pc = exec[v].pc /\ child'[v] = child[v]
    BY <1>1, <1>2, <1>3 DEF IInv, TypeOK
  <1>6. Tracked(w)
    BY <1>1 DEF Tracked, HasJob
  <1> QED
    BY <1>1, <1>4, <1>5, <1>6, TrackedIsClear, ServingKeeps

LEMMA ActKeeps ==
  ASSUME IInv, NEW w \in Owner, Act(w)
  PROVE  IInv'
PROOF
  <1> DEFINE t == exec[w].task
  <1>1. /\ child[w] = "admitted" /\ child' = [child EXCEPT ![w] = "acting"]
        /\ box' = box \cup {t}
        /\ UNCHANGED <<row, point, lease, exec, claiming, listed>>
    BY DEF Act
  <1>2. t \in Task /\ t \notin box /\ Holds(Mine(w)) /\ Occupied(t) /\ Tracked(w)
    BY <1>1, TrackedIsClear DEF Tracked, HasJob
  <1>3. TypeOK' /\ RowsAgree'
    BY <1>1, <1>2 DEF IInv, TypeOK, RowsAgree
  <1>4. (ChildrenHaveExecutions /\ ClaimersAreIdle /\ ExecutionsHaveTasks)'
    BY <1>1 DEF IInv, TypeOK, ChildrenHaveExecutions, ClaimersAreIdle, ExecutionsHaveTasks
  <1>5. TrackedAreRecorded' /\ BoxesAreBusy'
    BY <1>1, <1>2 DEF IInv, TypeOK, TrackedAreRecorded, Tracked, HasJob, Holds, Mine,
                      BoxesAreBusy, Occupied
  <1>6. NoBoxBetweenCalls'
    <2> SUFFICES ASSUME NEW v \in Owner, exec[v].task \in box', exec[v].task \in Task,
                        Holds(Mine(v)),
                        child'[v] \in {"spawned", "idle", "admitted"}
                          \/ exec[v].pc \in {"claimed", "loaded", "exited"}
                 PROVE  FALSE
      BY <1>1 DEF NoBoxBetweenCalls, Holds, Mine
    <2>1. v # w
      BY <1>1 DEF IInv, TypeOK, ChildrenHaveExecutions
    <2>2. child'[v] = child[v]
      BY <1>1, <2>1 DEF IInv, TypeOK
    <2>3. exec[v].task # t
      BY <1>2, <2>1 DEF Holds, Mine
    <2> QED
      BY <1>1, <2>2, <2>3 DEF IInv, NoBoxBetweenCalls
  <1> QED
    BY <1>3, <1>4, <1>5, <1>6 DEF IInv

LEMMA ActDoneKeeps ==
  ASSUME IInv, NEW w \in Owner, ActDone(w)
  PROVE  IInv'
PROOF
  <1> DEFINE t == exec[w].task
  <1>1. /\ child[w] = "acting" /\ child' = [child EXCEPT ![w] = "idle"]
        /\ box' = box \ {t}
        /\ UNCHANGED <<row, point, lease, exec, claiming, listed>>
    BY DEF ActDone
  <1>2. TypeOK' /\ RowsAgree' /\ BoxesAreBusy'
    BY <1>1 DEF IInv, TypeOK, RowsAgree, BoxesAreBusy
  <1>3. (ChildrenHaveExecutions /\ ClaimersAreIdle /\ ExecutionsHaveTasks)'
    BY <1>1 DEF IInv, TypeOK, ChildrenHaveExecutions, ClaimersAreIdle, ExecutionsHaveTasks
  <1>4. TrackedAreRecorded'
    BY <1>1 DEF IInv, TypeOK, TrackedAreRecorded, Tracked, HasJob, Holds, Mine
  <1>5. NoBoxBetweenCalls'
    BY <1>1 DEF IInv, TypeOK, NoBoxBetweenCalls, Holds, Mine
  <1> QED
    BY <1>2, <1>3, <1>4, <1>5 DEF IInv
-----------------------------------------------------------------------------
LEMMA UserKeeps ==
  ASSUME IInv, User
  PROVE  IInv'
PROOF
  BY AppendQuestionKeeps, CancelKeeps, ReplaceKeeps, ResumeKeeps DEF User

LEMMA WorkerKeeps ==
  ASSUME IInv, NEW w \in Owner, Worker(w)
  PROVE  IInv'
PROOF
  <1>1. CASE OpenSession(w) \/ LoseLease(w) \/ ClaimCheck(w) \/ ClaimNothing(w) \/ ClaimFails(w)
    BY <1>1, OpenSessionKeeps, LoseLeaseKeeps, ClaimCheckKeeps, ClaimNothingKeeps, ClaimFailsKeeps
  <1>2. CASE \E t \in Task : ClaimTooLarge(w, t)
    BY <1>2, ClaimTooLargeKeeps
  <1>3. CASE \E t \in Task : Claim(w, t)
    BY <1>3, ClaimKeeps
  <1>4. CASE Load(w) \/ LoadFails(w) \/ Start(w) \/ CrashInStart(w)
    BY <1>4, LoadKeeps, LoadFailsKeeps, StartKeeps, CrashInStartKeeps
  <1>5. CASE Identify(w) \/ SendJob(w) \/ Admit(w)
    BY <1>5, IdentifyKeeps, SendJobKeeps, AdmitKeeps
  <1>6. CASE \E v \in Version \cup {None} : StoreCheckpoint(w, v)
    BY <1>6, StoreCheckpointKeeps
  <1>7. CASE Fenced(w) \/ ExecutionFails(w) \/ Publish(w) \/ PublishFenced(w)
    BY <1>7, FencedKeeps, ExecutionFailsKeeps, PublishKeeps, PublishFencedKeeps
  <1>8. CASE FinishSkips(w) \/ Finish(w) \/ Shutdown(w) \/ CloseSession(w) \/ Crash(w)
    BY <1>8, FinishSkipsKeeps, FinishKeeps, ShutdownKeeps, CloseSessionKeeps, CrashKeeps
  <1> QED
    BY <1>1, <1>2, <1>3, <1>4, <1>5, <1>6, <1>7, <1>8 DEF Worker

LEMMA NodeKeeps ==
  ASSUME IInv, NEW w \in Owner, Node(w)
  PROVE  IInv'
PROOF
  BY ActKeeps, ActDoneKeeps, ChildDiesKeeps, ReturnKeeps DEF Node

LEMMA CoordinatorKeeps ==
  ASSUME IInv, Coordinator
  PROVE  IInv'
PROOF
  BY RevokeLostKeeps, ListPendingKeeps, StopPendingKeeps, StopUnconfirmedKeeps,
     StopSkippedKeeps DEF Coordinator

LEMMA StutterKeeps ==
  ASSUME IInv, UNCHANGED vars
  PROVE  IInv'
PROOF
  BY LeavingKeeps DEF vars, IInv, TypeOK, ChildrenHaveExecutions, ClaimersAreIdle,
                      ExecutionsHaveTasks, Retires

LEMMA NextKeeps == IInv /\ [Next]_vars => IInv'
PROOF
  BY UserKeeps, WorkerKeeps, NodeKeeps, CoordinatorKeeps, StutterKeeps DEF Next

LEMMA InvariantImpliesProof == IInv => StopIsProof
PROOF
  <1> SUFFICES ASSUME IInv PROVE StopIsProof
    OBVIOUS
  <1>1. \A t \in Task : row[t].cleanup => t \notin box
    BY DEF IInv, BoxesAreBusy
  <1>2. ASSUME NEW w \in Owner, HasJob(w)
        PROVE  Holds(Mine(w)) /\ row[exec[w].task].started /\ ~row[exec[w].task].cleanup
    BY <1>2 DEF IInv, TrackedAreRecorded, Tracked, HasJob, RowsAgree, ChildrenHaveExecutions
  <1> QED
    BY <1>1, <1>2 DEF StopIsProof

\* Every reachable state has the inductive invariant.
LEMMA Inductive == Spec => []IInv
PROOF
  BY InitHolds, NextKeeps, PTL DEF Spec

\* Rows, checkpoints, leases, executions and children keep their types through
\* every interleaving of users, Workers, children and coordinators.
THEOREM TypesHold == Spec => []TypeOK
PROOF
  <1>1. IInv => TypeOK
    BY DEF IInv
  <1> QED
    BY <1>1, Inductive, PTL

\* Whatever Workers crash, lose their leases or are cancelled, a task whose stop
\* was confirmed has no child with a job and no container, and a child with a job
\* is the one the row's attempt, owner and generation name.
THEOREM StopsAreProved == Spec => []StopIsProof
PROOF
  BY Inductive, InvariantImpliesProof, PTL

-----------------------------------------------------------------------------
(* The history of a task: what no step may do to its row and its point.    *)

Ceased == {"cancelling", "cancelled"}
Resumable == {"running", "interrupted", "failed"}

\* What becomes of a row from one state to the next.
Legal(r, s) ==
    /\ r.state # "absent" => s.state # "absent" /\ s.conv = r.conv /\ (s.active => r.active)
    /\ r.state = "absent" /\ ~r.cancel => s.state # "running" /\ ~s.cancel
    /\ r.state \in Ceased => s.state \in Ceased
    /\ r.state # "absent" /\ r.cancel => s.cancel
    /\ s.cancel /\ ~r.cancel => s.state \in Ceased
    /\ r.state = "completed" => s.state = "completed" /\ s.silent = r.silent
    /\ s.state = "running" /\ r.state # "running" => r.state = "queued" /\ (r.active => s.active)
    /\ s.state = "running" /\ r.state = "running" => (r.active => s.active)

\* Where a row is, and its point is still eligible, the attempt goes on.
Keeps(r, s) ==
    /\ s.attempt = r.attempt
    /\ r.state \in Resumable => s.state \in Resumable
    /\ r.active => s.active
    /\ ~r.cancel => ~s.cancel

\* A step gives a task its row, starts it or moves its point by the rules.
Lawful(t) ==
    /\ Legal(row[t], row'[t])
    /\ row[t].state = "absent" /\ row'[t].state # "absent" => Free(t)
    /\ row[t].state = "queued" /\ row'[t].state = "running" => Claimable(t)
    /\ Eligible(t)' =>
          \/ Eligible(t) /\ point'[t] = point[t] /\ Keeps(row[t], row'[t])
          \/ row'[t] = row[t] /\ row[t].state = "running" /\ point'[t].attempt = row[t].attempt
    /\ row'[t].attempt = row[t].attempt
          \/ row[t].state = "absent"
          \/ (row[t].state \in {"interrupted", "failed"} /\ row[t].cleanup)

\* A cancel is kept, and a running task was not cancelled or replaced.
CancelsStay ==
    \A t \in Task :
        /\ row[t].cancel => row[t].state \in Ceased
        /\ row[t].state = "running" => row[t].active

\* Tasks are created in their order.
InOrder == \A t, u \in Task : t < u /\ row[u].state # "absent" => row[t].state # "absent"

PointsHold ==
    \A t \in Task : Eligible(t) =>
        /\ point[t].attempt = row[t].attempt
        /\ row[t].state \in Resumable
        /\ row[t].active /\ ~row[t].cancel

HistoryInv == IInv /\ CancelsStay /\ InOrder /\ PointsHold /\ ConversationOrder

\* What the steps do to one row is legal.
LEMMA SameIsLegal ==
    ASSUME NEW r
    PROVE  Legal(r, r) /\ Keeps(r, r)
BY DEF Legal, Keeps, Ceased

LEMMA NewIsLegal ==
    ASSUME NEW r \in Row, r.state = "absent", NEW c, NEW p
    PROVE  Legal(r, NewRow(c, p))
BY DEF Legal, NewRow, Ceased

LEMMA ControlledIsLegal ==
    ASSUME NEW t \in Task, row[t] \in Row, row[t].state # "absent"
    PROVE  /\ Legal(row[t], Controlled(t))
           /\ Controlled(t).state = "running" => row[t].state = "running"
           /\ row[t].state \in {"running", "queued"} => Controlled(t).state \in Ceased
<1>1. Controlled(t) \in
        {row[t],
         [row[t] EXCEPT !.state = "cancelled", !.cancel = TRUE, !.cleanup = TRUE],
         [row[t] EXCEPT !.state = "cancelling", !.cancel = TRUE, !.cleanup = FALSE]}
  BY DEF Controlled
<1>2. row[t].state \in Ceased \cup {"completed"} => Controlled(t) = row[t]
  BY DEF Controlled, Ceased
<1>3. row[t].state \in {"running", "queued"} => Controlled(t) # row[t]
  BY DEF Controlled, Row
<1> QED
  BY <1>1, <1>2, <1>3 DEF Legal, Ceased, Row

LEMMA InactiveIsLegal ==
    ASSUME NEW r \in Row, NEW s \in Row, Legal(r, s), s.state # "running"
    PROVE  Legal(r, [s EXCEPT !.active = FALSE])
BY DEF Legal, Row, Ceased

LEMMA SupersededIsLegal ==
    ASSUME NEW r \in Row, r.state \in {"queued", "blocked"}
    PROVE  Legal(r, [r EXCEPT !.active = FALSE, !.state = "superseded", !.cleanup = TRUE])
BY DEF Legal, Row, Ceased

LEMMA BlockedIsLegal ==
    ASSUME NEW r \in Row, r.state = "queued"
    PROVE  Legal(r, Blocked(r)) /\ Blocked(r).attempt = r.attempt
BY DEF Legal, Blocked, Row, Ceased

LEMMA PublishedIsLegal ==
    ASSUME NEW r \in Row, r.state = "running", NEW outcome \in Outcome
    PROVE  /\ Legal(r, Published(r, outcome))
           /\ Published(r, outcome).attempt = r.attempt /\ Published(r, outcome).state # "running"
           /\ outcome = "failed" => Keeps(r, Published(r, outcome))
<1> DEFINE b == outcome = "silent"
           s == IF outcome = "failed" THEN "failed" ELSE "completed"
<1>1. b \in BOOLEAN /\ s \in {"failed", "completed"} /\ (outcome = "failed" => s = "failed")
  OBVIOUS
<1>2. Published(r, outcome) = [r EXCEPT !.state = s, !.silent = b, !.cleanup = TRUE]
  BY DEF Published
<1> HIDE DEF b, s
<1> QED
  BY <1>1, <1>2 DEF Legal, Keeps, Row, Ceased, Resumable

LEMMA StoppedIsLegal ==
    ASSUME NEW r \in Row
    PROVE  /\ Legal(r, Stopped(r)) /\ Keeps(r, Stopped(r))
           /\ Stopped(r).state \notin {"running", "queued"} \/ Stopped(r).state = r.state
           /\ r.state = "absent" => Stopped(r).state = "absent"
BY DEF Legal, Keeps, Stopped, Row, Ceased, Resumable

LEMMA RevokedIsLegal ==
    ASSUME NEW r \in Row, NEW lost
    PROVE  /\ Legal(r, Revoked(r, lost)) /\ Keeps(r, Revoked(r, lost))
           /\ Revoked(r, lost).state = "running" => r.state = "running"
           /\ r.state = "absent" => Revoked(r, lost) = r
BY DEF Legal, Keeps, Revoked, Row, Ceased, Resumable

LEMMA WithdrawnIsNotEligible ==
    ASSUME NEW t \in Task, point'[t] = Withdrawn(point[t]), point[t] \in Checkpoint \cup {None}
    PROVE  ~Eligible(t)'
BY DEF Eligible, Withdrawn, Checkpoint

LEMMA Rows ==
    ASSUME HistoryInv, NEW t \in Task
    PROVE  row[t] \in Row /\ point[t] \in Checkpoint \cup {None}
BY DEF HistoryInv, IInv, TypeOK

\* The rows and the points that a step leaves alone.
LEMMA Untouched ==
    ASSUME HistoryInv, NEW t \in Task, row'[t] = row[t], point'[t] = point[t] \/ point'[t] = Withdrawn(point[t])
    PROVE  Lawful(t)
<1>1. Eligible(t)' => Eligible(t) /\ point'[t] = point[t]
  BY Rows, WithdrawnIsNotEligible DEF Eligible
<1>2. ~(row[t].state = "absent" /\ row'[t].state # "absent") /\ ~(row[t].state = "queued" /\ row'[t].state = "running")
  OBVIOUS
<1> QED
  BY <1>1, <1>2, SameIsLegal DEF Lawful

\* A row that moves while its point is withdrawn, or was not eligible.
LEMMA MovedWithoutPoint ==
    ASSUME NEW t \in Task, Legal(row[t], row'[t]), row[t].state # "absent", ~Eligible(t)',
           row[t].state = "queued" => row'[t].state # "running",
           row'[t].attempt = row[t].attempt \/ (row[t].state \in {"interrupted", "failed"} /\ row[t].cleanup)
    PROVE  Lawful(t)
BY DEF Lawful

LEMMA AppendQuestionIsLawful ==
    ASSUME HistoryInv, NEW t \in Task, NEW c \in Conv, AppendQuestion(t, c), NEW u \in Task
    PROVE  Lawful(u)
<1>1. row' = [row EXCEPT ![t] = NewRow(c, None)] /\ row \in [Task -> Row] /\ point' = point /\ Free(t)
  BY DEF AppendQuestion, HistoryInv, IInv, TypeOK
<1>2. CASE u # t
  BY <1>1, <1>2, Untouched
<1>3. CASE u = t
  <2>1. row[u].state = "absent" /\ row'[u] = NewRow(c, None)
    BY <1>1, <1>3 DEF Free
  <2>2. ~Eligible(u)'
    BY <1>1, <2>1 DEF HistoryInv, PointsHold, Resumable, Eligible
  <2> QED
    BY <1>1, <1>3, <2>1, <2>2, Rows, NewIsLegal DEF Lawful
<1> QED
  BY <1>2, <1>3

LEMMA CancelIsLawful ==
    ASSUME HistoryInv, NEW t \in Task, Cancel(t), NEW u \in Task
    PROVE  Lawful(u)
<1>1. /\ row' = [row EXCEPT ![t] = Controlled(t)] /\ row \in [Task -> Row]
      /\ point' = [point EXCEPT ![t] = Withdrawn(@)] /\ point \in [Task -> Checkpoint \cup {None}]
  BY DEF Cancel, HistoryInv, IInv, TypeOK
<1>2. CASE u # t
  BY <1>1, <1>2, Untouched
<1>3. CASE u = t
  <2>1. row[u].state # "absent" /\ row'[u] = Controlled(u) /\ ~Eligible(u)'
    BY <1>1, <1>3, WithdrawnIsNotEligible DEF Cancel
  <2>2. Legal(row[u], row'[u]) /\ (row'[u].state = "running" => row[u].state = "running") /\ row'[u].attempt = row[u].attempt
    BY <2>1, Rows, ControlledIsLegal, ControlledIsRow
  <2> QED
    BY <2>1, <2>2, MovedWithoutPoint
<1> QED
  BY <1>2, <1>3

LEMMA ReplaceIsLawful ==
    ASSUME HistoryInv, NEW t \in Task, NEW n \in Task, Replace(t, n), NEW u \in Task
    PROVE  Lawful(u)
<1>1. point' = [point EXCEPT ![t] = Withdrawn(@)] /\ point \in [Task -> Checkpoint \cup {None}] /\ Free(n) /\ Current(t)
  BY DEF Replace, HistoryInv, IInv, TypeOK
<1>2. t # n
  BY <1>1 DEF Current, Free
<1>3. row'[u] =
        CASE u = t -> [Controlled(t) EXCEPT !.active = FALSE]
          [] u = n -> NewRow(row[t].conv, t)
          [] u > t /\ row[u].conv = row[t].conv /\ row[u].active
                   /\ row[u].state \in {"queued", "blocked"} ->
               [row[u] EXCEPT !.active = FALSE, !.state = "superseded", !.cleanup = TRUE]
          [] OTHER -> row[u]
  BY DEF Replace
<1>4. CASE u = t
  <2>1. row[u].state \in {"running", "queued"} /\ ~Eligible(u)' /\ row'[u] = [Controlled(u) EXCEPT !.active = FALSE]
    <3>1. point'[u] = Withdrawn(point[u])
      BY <1>1, <1>4
    <3>2. row[u].state \in {"running", "queued"}
      BY <1>1, <1>4 DEF Current
    <3>3. point[u] \in Checkpoint \cup {None}
      BY Rows
    <3>4. ~Eligible(u)'
      BY <3>1, <3>3 DEF Eligible, Withdrawn, Checkpoint
    <3>5. row'[u] = [Controlled(u) EXCEPT !.active = FALSE]
      <4>1. u # n /\ ~(u > t)
        BY <1>2, <1>4, OwnershipAssumption DEF Task
      <4>2. row'[u] = [Controlled(t) EXCEPT !.active = FALSE]
        BY <1>3, <1>4, <4>1, Zenon
      <4> QED
        BY <4>2, <1>4, Zenon
    <3> QED
      BY <3>2, <3>4, <3>5
  <2>2. Controlled(u) \in Row /\ Legal(row[u], Controlled(u)) /\ Controlled(u).state \in Ceased /\ Controlled(u).attempt = row[u].attempt
    BY <2>1, Rows, ControlledIsLegal, ControlledIsRow
  <2>3. row'[u].state \in Ceased /\ row'[u].attempt = row[u].attempt
    BY <2>1, <2>2 DEF Row
  <2>4. Legal(row[u], row'[u])
    BY <2>1, <2>2, Rows, InactiveIsLegal DEF Ceased
  <2> QED
    BY <2>1, <2>3, <2>4, MovedWithoutPoint DEF Ceased
<1>5. CASE u = n
  <2>1. row[u].state = "absent" /\ row'[u] = NewRow(row[t].conv, t) /\ point'[u] = point[u] /\ Free(u)
    BY <1>1, <1>2, <1>3, <1>5 DEF Free
  <2>2. ~Eligible(u)'
    BY <2>1 DEF HistoryInv, PointsHold, Resumable, Eligible
  <2> QED
    BY <2>1, <2>2, Rows, NewIsLegal DEF Lawful, NewRow
<1>6. CASE u # t /\ u # n
  <2>1. point'[u] = point[u]
    BY <1>1, <1>6
  <2>2. CASE row'[u] = row[u]
    BY <2>1, <2>2, Untouched
  <2>3. CASE row'[u] # row[u]
    <3>1. row[u].state \in {"queued", "blocked"} /\ row'[u] = [row[u] EXCEPT !.active = FALSE, !.state = "superseded", !.cleanup = TRUE]
      BY <1>3, <1>6, <2>3
    <3>2. ~Eligible(u)'
      BY <2>1, <3>1 DEF HistoryInv, PointsHold, Resumable, Eligible
    <3>3. row'[u].state = "superseded" /\ row'[u].attempt = row[u].attempt
      BY <3>1, Rows DEF Row
    <3>4. Legal(row[u], row'[u])
      BY <3>1, Rows, SupersededIsLegal
    <3>5. row[u].state # "absent" /\ row'[u].state # "running"
      BY <3>1, <3>3
    <3> QED
      BY <3>2, <3>3, <3>4, <3>5, MovedWithoutPoint
  <2> QED
    BY <2>2, <2>3
<1> QED
  BY <1>4, <1>5, <1>6

LEMMA ResumeIsLawful ==
    ASSUME HistoryInv, NEW t \in Task, Resume(t), NEW u \in Task
    PROVE  Lawful(u)
<1>1. /\ row' = [row EXCEPT ![t] = [@ EXCEPT !.state = "queued", !.attempt = row[t].attempt + 1, !.resumed = TRUE, !.node = FALSE]]
      /\ row \in [Task -> Row]
      /\ point' = [point EXCEPT ![t] = Withdrawn(@)] /\ point \in [Task -> Checkpoint \cup {None}]
  BY DEF Resume, Requeued, HistoryInv, IInv, TypeOK
<1>2. CASE u # t
  BY <1>1, <1>2, Untouched
<1>3. CASE u = t
  <2>1. row[u].state \in {"interrupted", "failed"} /\ row[u].cleanup /\ ~row[u].cancel /\ ~Eligible(u)'
    BY <1>1, <1>3, WithdrawnIsNotEligible DEF Resume
  <2>2. Legal(row[u], row'[u])
    BY <1>1, <1>3, <2>1 DEF Legal, Row, Ceased
  <2> QED
    BY <2>1, <2>2, MovedWithoutPoint
<1> QED
  BY <1>2, <1>3

\* What a claim does to the tasks behind an unavailable one.
LEMMA BlockingIsLawful ==
    ASSUME HistoryInv, NEW u \in Task, row'[u] = AfterBlocking[u], point'[u] = point[u]
    PROVE  Lawful(u)
<1>1. AfterBlocking[u] = IF Doomed(u) THEN Blocked(row[u]) ELSE row[u]
  BY DEF AfterBlocking
<1>2. CASE ~Doomed(u)
  BY <1>1, <1>2, Untouched
<1>3. CASE Doomed(u)
  <2>1. row[u].state = "queued" /\ row'[u] = Blocked(row[u])
    BY <1>1, <1>3 DEF Doomed, Queued
  <2>2. ~Eligible(u)'
    BY <2>1 DEF HistoryInv, PointsHold, Resumable, Eligible
  <2> QED
    BY <2>1, <2>2, Rows, BlockedIsLegal, BlockedIsRow, MovedWithoutPoint
<1> QED
  BY <1>2, <1>3

LEMMA ClaimsAreLawful ==
    ASSUME HistoryInv, NEW w \in Owner, NEW t \in Task, ClaimTooLarge(w, t) \/ Claim(w, t), NEW u \in Task
    PROVE  Lawful(u)
<1>1. Claimable(t) /\ point' = point /\ AfterBlocking = [v \in Task |-> AfterBlocking[v]]
  BY DEF ClaimTooLarge, Claim, AfterBlocking
<1>2. \A v \in Task : v # t => row'[v] = AfterBlocking[v]
  BY <1>1 DEF ClaimTooLarge, Claim
<1>3. CASE u # t
  BY <1>1, <1>2, <1>3, BlockingIsLawful
<1>4. CASE u = t
  <2> DEFINE mine == Assigned(row[u], w)
  <2>1. row[u] \in Row /\ row[u].state = "queued" /\ row[u].active /\ AfterBlocking[u] = row[u]
    BY <1>1, <1>4, Rows DEF Claimable, Queued, AfterBlocking
  <2>2. /\ mine \in Row /\ mine.attempt = row[u].attempt /\ mine.state = "queued" /\ mine.conv = row[u].conv
        /\ mine.active = row[u].active /\ mine.cancel = row[u].cancel /\ mine.silent = row[u].silent
    BY <2>1, AssignedIsRow DEF Assigned, Row
  <2>3. row'[u] \in {Blocked(mine), [mine EXCEPT !.state = "running", !.started = TRUE, !.cleanup = FALSE]}
    BY <1>1, <1>4, <2>1 DEF ClaimTooLarge, Claim
  <2> HIDE DEF mine
  <2>4. /\ row'[u].attempt = row[u].attempt /\ row'[u].state \in {"blocked", "running"} /\ row'[u].conv = row[u].conv
        /\ row'[u].active = row[u].active /\ row'[u].cancel = row[u].cancel
    BY <2>2, <2>3 DEF Blocked, Row
  <2>5. ~Eligible(u)'
    BY <1>1, <2>1 DEF HistoryInv, PointsHold, Resumable, Eligible
  <2> QED
    BY <1>1, <1>4, <2>1, <2>4, <2>5 DEF Lawful, Legal, Ceased
<1> QED
  BY <1>3, <1>4

LEMMA StartIsLawful ==
    ASSUME HistoryInv, NEW w \in Owner, Start(w), NEW u \in Task
    PROVE  Lawful(u)
<1>1. row' = [row EXCEPT ![exec[w].task] = [@ EXCEPT !.node = TRUE]] /\ row \in [Task -> Row] /\ point' = point
  BY DEF Start, HistoryInv, IInv, TypeOK
<1>2. CASE row'[u] = row[u]
  BY <1>1, <1>2, Untouched
<1>3. CASE row'[u] # row[u]
  <2>1. row'[u] = [row[u] EXCEPT !.node = TRUE] /\ row[u] \in Row
    BY <1>1, <1>3
  <2>2. Legal(row[u], row'[u]) /\ Keeps(row[u], row'[u]) /\ row'[u].state = row[u].state /\ row'[u].attempt = row[u].attempt
    BY <2>1 DEF Legal, Keeps, Ceased, Row
  <2> QED
    BY <1>1, <2>2 DEF Lawful, Eligible
<1> QED
  BY <1>2, <1>3

LEMMA StoreCheckpointIsLawful ==
    ASSUME HistoryInv, NEW w \in Owner, NEW v \in Version \cup {None}, StoreCheckpoint(w, v), NEW u \in Task
    PROVE  Lawful(u)
<1>1. /\ row' = row /\ point \in [Task -> Checkpoint \cup {None}]
      /\ point' = [point EXCEPT ![exec[w].task] =
                      IF v = None THEN Withdrawn(@)
                      ELSE [attempt |-> exec[w].attempt, version |-> v, eligible |-> TRUE]]
  BY DEF StoreCheckpoint, Pointed, HistoryInv, IInv, TypeOK
<1>2. CASE u # exec[w].task \/ v = None
  BY <1>1, <1>2, Untouched
<1>3. CASE u = exec[w].task /\ v # None
  <2>1. row[u].state = "running" /\ row[u].attempt = exec[w].attempt
    BY <1>3 DEF StoreCheckpoint, Authorized, Holds, Mine
  <2>2. point'[u].attempt = exec[w].attempt
    BY <1>1, <1>3
  <2> QED
    BY <1>1, <2>1, <2>2, SameIsLegal DEF Lawful
<1> QED
  BY <1>2, <1>3

LEMMA PublishIsLawful ==
    ASSUME HistoryInv, NEW w \in Owner, Publish(w), NEW u \in Task
    PROVE  Lawful(u)
<1> DEFINE t == exec[w].task
           outcome == exec[w].outcome
<1>1. /\ row' = [row EXCEPT ![t] = Published(@, outcome)] /\ row \in [Task -> Row]
      /\ point' = [point EXCEPT ![t] = IF KeepPending(t, outcome) THEN @ ELSE Withdrawn(@)]
      /\ point \in [Task -> Checkpoint \cup {None}] /\ row[t].state = "running" /\ outcome \in Outcome
  BY DEF Publish, Authorized, HistoryInv, IInv, TypeOK, Execution
<1>2. CASE u # t
  BY <1>1, <1>2, Untouched
<1>3. CASE u = t
  <2>1. row'[u] = Published(row[u], outcome) /\ row[u] \in Row /\ row[u].state = "running"
    BY <1>1, <1>3
  <2>2. /\ Legal(row[u], row'[u]) /\ row'[u].attempt = row[u].attempt /\ row'[u].state # "running"
        /\ outcome = "failed" => Keeps(row[u], row'[u])
    BY <1>1, <2>1, PublishedIsLegal
  <2>3. CASE KeepPending(t, outcome)
    <3>1. outcome = "failed" /\ point'[u] = point[u]
      BY <1>1, <1>3, <2>3 DEF KeepPending
    <3> QED
      BY <2>1, <2>2, <3>1 DEF Lawful, Eligible
  <2>4. CASE ~KeepPending(t, outcome)
    <3>1. ~Eligible(u)'
      BY <1>1, <1>3, <2>4, WithdrawnIsNotEligible
    <3> QED
      BY <2>1, <2>2, <3>1, MovedWithoutPoint
  <2> QED
    BY <2>3, <2>4
<1> QED
  BY <1>2, <1>3

\* A stop that is confirmed, by Finish or by a coordinator.
LEMMA StopIsLawful ==
    ASSUME HistoryInv, NEW t, row' = [row EXCEPT ![t] = Stopped(@)], point' = point, NEW u \in Task
    PROVE  Lawful(u)
<1>1. row[u] \in Row /\ row \in [Task -> Row]
  BY DEF HistoryInv, IInv, TypeOK
<1>2. CASE row'[u] = row[u]
  BY <1>2, Untouched
<1>3. CASE row'[u] # row[u]
  <2>1. row'[u] = Stopped(row[u])
    BY <1>1, <1>3
  <2>2. Legal(row[u], row'[u]) /\ Keeps(row[u], row'[u]) /\ row'[u].attempt = row[u].attempt
    BY <1>1, <2>1, StoppedIsLegal DEF Keeps
  <2>3. /\ row[u].state = "absent" => row'[u].state = "absent"
        /\ row[u].state = "queued" => row'[u].state # "running"
    BY <1>1, <2>1, StoppedIsLegal
  <2> QED
    BY <2>2, <2>3 DEF Lawful, Eligible
<1> QED
  BY <1>2, <1>3

LEMMA RevocationIsLawful ==
    ASSUME HistoryInv, NEW lost, RevokeAll(lost), point' = point, NEW u \in Task
    PROVE  Lawful(u)
<1>1. row[u] \in Row /\ row'[u] = Revoked(row[u], lost)
  BY DEF HistoryInv, IInv, TypeOK, RevokeAll
<1>2. Legal(row[u], row'[u]) /\ Keeps(row[u], row'[u]) /\ row'[u].attempt = row[u].attempt
  BY <1>1, RevokedIsLegal DEF Keeps
<1>3. /\ row[u].state = "absent" => row'[u].state = "absent"
      /\ row[u].state = "queued" => row'[u].state # "running"
  BY <1>1, RevokedIsLegal
<1> QED
  BY <1>2, <1>3 DEF Lawful, Eligible

LEMMA StepsAreLawful ==
    ASSUME HistoryInv, [Next]_vars, NEW u \in Task
    PROVE  Lawful(u)
<1>1. CASE UNCHANGED <<row, point>>
  BY <1>1, Untouched
<1>2. CASE User
  BY <1>2, AppendQuestionIsLawful, CancelIsLawful, ReplaceIsLawful, ResumeIsLawful DEF User
<1>3. ASSUME NEW w \in Owner, Worker(w) PROVE Lawful(u)
  <2>1. CASE ClaimNothing(w)
    BY <2>1, BlockingIsLawful DEF ClaimNothing
  <2>2. CASE \E t \in Task : ClaimTooLarge(w, t) \/ Claim(w, t)
    BY <2>2, ClaimsAreLawful
  <2>3. CASE Start(w)
    BY <2>3, StartIsLawful
  <2>4. CASE \E v \in Version \cup {None} : StoreCheckpoint(w, v)
    BY <2>4, StoreCheckpointIsLawful
  <2>5. CASE Publish(w)
    BY <2>5, PublishIsLawful
  <2>6. CASE Finish(w)
    BY <2>6, StopIsLawful DEF Finish
  <2>7. CASE CloseSession(w)
    BY <2>7, RevocationIsLawful DEF CloseSession
  <2>8. CASE OpenSession(w) \/ LoseLease(w) \/ ClaimCheck(w) \/ ClaimFails(w) \/ Load(w) \/ LoadFails(w)
    BY <1>1, <2>8 DEF OpenSession, LoseLease, ClaimCheck, ClaimFails, Load, LoadFails
  <2>9. CASE CrashInStart(w) \/ Identify(w) \/ SendJob(w) \/ Admit(w) \/ Fenced(w) \/ ExecutionFails(w)
    BY <1>1, <2>9 DEF CrashInStart, Identify, SendJob, Admit, Fenced, ExecutionFails
  <2>10. CASE PublishFenced(w) \/ FinishSkips(w) \/ Shutdown(w) \/ Crash(w)
    BY <1>1, <2>10 DEF PublishFenced, FinishSkips, Shutdown, Crash
  <2> QED
    BY <1>3, <2>1, <2>2, <2>3, <2>4, <2>5, <2>6, <2>7, <2>8, <2>9, <2>10 DEF Worker
<1>4. ASSUME NEW w \in Owner, Node(w) PROVE Lawful(u)
  BY <1>1, <1>4 DEF Node, Act, ActDone, ChildDies, Return
<1>5. CASE Coordinator
  <2>1. CASE RevokeLost
    BY <2>1, RevocationIsLawful DEF RevokeLost
  <2>2. ASSUME NEW a \in listed, StopPending(a) PROVE Lawful(u)
    BY <2>2, StopIsLawful DEF StopPending
  <2>3. CASE ListPending \/ \E a \in listed : StopUnconfirmed(a) \/ StopSkipped(a)
    BY <1>1, <2>3 DEF ListPending, StopUnconfirmed, StopSkipped
  <2> QED
    BY <1>5, <2>1, <2>2, <2>3 DEF Coordinator
<1>6. CASE UNCHANGED vars
  BY <1>1, <1>6 DEF vars
<1> QED
  BY <1>2, <1>3, <1>4, <1>5, <1>6 DEF Next

-----------------------------------------------------------------------------
(* From one state to the next.                                             *)

LEMMA HistoryBegins == Init => CancelsStay /\ InOrder /\ PointsHold /\ ConversationOrder
BY DEF Init, NewRow, CancelsStay, InOrder, PointsHold, ConversationOrder, Eligible

LEMMA HistoryKeeps ==
    ASSUME HistoryInv, [Next]_vars
    PROVE  HistoryInv'
<1>1. IInv'
  BY NextKeeps DEF HistoryInv
<1>2. \A t \in Task : Lawful(t)
  BY StepsAreLawful
<1>3. CancelsStay'
  <2> SUFFICES ASSUME NEW t \in Task
               PROVE  /\ row'[t].cancel => row'[t].state \in Ceased
                      /\ row'[t].state = "running" => row'[t].active
    BY DEF CancelsStay
  <2>1. Legal(row[t], row'[t])
    BY <1>2 DEF Lawful
  <2>2. /\ row[t].cancel => row[t].state \in Ceased
        /\ row[t].state = "running" => row[t].active
        /\ row[t].state = "queued" /\ row'[t].state = "running" => row[t].active
    BY <1>2 DEF HistoryInv, CancelsStay, Lawful, Claimable, Queued
  <2> QED
    BY <2>1, <2>2 DEF Legal, Ceased
<1>4. ASSUME NEW t \in Task, NEW u \in Task, t < u, row'[u].state # "absent"
      PROVE  row[t].state # "absent" /\ row'[t].state # "absent"
  <2>1. row[t].state # "absent"
    <3>1. CASE row[u].state # "absent"
      BY <1>4, <3>1 DEF HistoryInv, InOrder
    <3>2. CASE row[u].state = "absent"
      BY <1>2, <1>4, <3>2 DEF Lawful, Free
    <3> QED
      BY <3>1, <3>2
  <2> QED
    BY <1>2, <2>1 DEF Lawful, Legal
<1>5. InOrder'
  BY <1>4 DEF InOrder
<1>6. PointsHold'
  <2> SUFFICES ASSUME NEW t \in Task, Eligible(t)'
               PROVE  /\ point'[t].attempt = row'[t].attempt
                      /\ row'[t].state \in Resumable
                      /\ row'[t].active /\ ~row'[t].cancel
    BY DEF PointsHold
  <2>1. CASE Eligible(t) /\ point'[t] = point[t] /\ Keeps(row[t], row'[t])
    BY <2>1 DEF HistoryInv, PointsHold, Keeps
  <2>2. CASE row'[t] = row[t] /\ row[t].state = "running" /\ point'[t].attempt = row[t].attempt
    BY <2>2 DEF HistoryInv, CancelsStay, Ceased, Resumable
  <2> QED
    BY <1>2, <2>1, <2>2 DEF Lawful
<1>7. ConversationOrder'
  <2> SUFFICES ASSUME NEW t \in Task, row'[t].state = "running", row'[t].active,
                      NEW p \in Task, p < t, row'[p].conv = row'[t].conv, row'[p].active
               PROVE  row'[p].state = "completed" /\ ~row'[p].silent
    BY DEF ConversationOrder, Earlier
  <2>1. row[p].state # "absent" /\ row[t].state # "absent"
    <3>1. row[p].state # "absent"
      BY <1>4
    <3>2. CASE row[t].state = "absent"
      <4>1. ~row[t].cancel
        BY <3>2 DEF HistoryInv, CancelsStay, Ceased
      <4> QED
        BY <1>2, <3>2, <4>1 DEF Lawful, Legal
    <3> QED
      BY <3>1, <3>2
  <2>2. p \in Earlier(t) /\ row[t].active
    BY <1>2, <2>1 DEF Lawful, Legal, Earlier
  <2>3. row[p].state = "completed" /\ ~row[p].silent
    <3>1. CASE row[t].state = "running"
      BY <2>2, <3>1 DEF HistoryInv, ConversationOrder
    <3>2. CASE row[t].state # "running"
      <4>1. row[t].state = "queued"
        BY <1>2, <3>2 DEF Lawful, Legal
      <4>2. Claimable(t)
        BY <1>2, <4>1 DEF Lawful
      <4> QED
        BY <2>2, <4>2 DEF Claimable, Doomed, Unavailable
    <3> QED
      BY <3>1, <3>2
  <2> QED
    BY <1>2, <2>3 DEF Lawful, Legal
<1> QED
  BY <1>1, <1>3, <1>5, <1>6, <1>7 DEF HistoryInv

LEMMA HistoryHolds == Spec => []HistoryInv
<1>1. Init => HistoryInv
  BY InitHolds, HistoryBegins DEF HistoryInv
<1>2. HistoryInv /\ [Next]_vars => HistoryInv'
  BY HistoryKeeps
<1> QED
  BY <1>1, <1>2, PTL DEF Spec

\* Whatever checkpoints arrive late, are consumed or invalidated: an eligible
\* one is the current attempt's, of a task nobody cancelled or replaced.
THEOREM PointsStayCurrent == Spec => []PointsAreCurrent
<1>1. HistoryInv => PointsAreCurrent
  BY DEF HistoryInv, IInv, PointsHold, Resumable, PointsAreCurrent
<1> QED
  BY <1>1, HistoryHolds, PTL

\* Whatever is resumed, replaced or blocked meanwhile: a task runs only behind
\* answered questions of its conversation.
THEOREM ConversationsKeepOrder == Spec => []ConversationOrder
<1>1. HistoryInv => ConversationOrder
  BY DEF HistoryInv
<1> QED
  BY <1>1, HistoryHolds, PTL

\* A task that is occupied has something to show for it in its row.
LEMMA WorkingIsBusy ==
    ASSUME IInv, NEW t \in Task, Working(t)
    PROVE  row[t].state \in Busy /\ ~row[t].cleanup
<1>1. CASE t \in box
  BY <1>1 DEF IInv, BoxesAreBusy
<1>2. ASSUME NEW w \in Owner, HasJob(w), exec[w].task = t
      PROVE  row[t].state \in Busy /\ ~row[t].cleanup
  BY <1>2 DEF IInv, TrackedAreRecorded, Tracked
<1> QED
  BY <1>1, <1>2 DEF Working

\* A cancel wins over every execution it races, and a resume never runs ahead of
\* a stop: no step takes a cancelled task anywhere but to its end, and none
\* allots an attempt while the child or the container of the last one is there.
THEOREM ControlsAreKept == Spec => ControlsHold
<1> DEFINE Cancels == \A t \in Task : row[t].cancel =>
                         row'[t].cancel /\ row'[t].state \in {"cancelling", "cancelled"}
           Resumes == \A t \in Task : row'[t].attempt # row[t].attempt => ~Working(t)
<1>1. HistoryInv /\ [Next]_vars => [Cancels]_vars
  <2> SUFFICES ASSUME HistoryInv, [Next]_vars, NEW t \in Task, row[t].cancel
               PROVE  row'[t].cancel /\ row'[t].state \in {"cancelling", "cancelled"}
    OBVIOUS
  <2>1. row[t].state \in Ceased /\ Legal(row[t], row'[t])
    BY StepsAreLawful DEF HistoryInv, CancelsStay, Lawful
  <2> QED
    BY <2>1 DEF Legal, Ceased
<1>2. HistoryInv /\ [Next]_vars => [Resumes]_vars
  <2> SUFFICES ASSUME HistoryInv, [Next]_vars, NEW t \in Task, row'[t].attempt # row[t].attempt
               PROVE  ~Working(t)
    OBVIOUS
  <2>1. row[t].state = "absent" \/ row[t].cleanup
    BY StepsAreLawful DEF Lawful
  <2> QED
    BY <2>1, WorkingIsBusy DEF HistoryInv, Busy
<1> QED
  BY <1>1, <1>2, HistoryHolds, PTL DEF Spec, ControlsHold, CancelWins, ResumeAfterStop

-----------------------------------------------------------------------------
(* The slots: only a claim takes one, and one claim is checked at a time.  *)

Held == {t \in Task : row[t].started /\ ~row[t].cleanup}

SlotInv ==
    /\ \A v, w \in claiming : v = w
    /\ Cardinality(Held) <= Slots
    /\ claiming # {} => Cardinality(Held) < Slots

\* A step that frees nothing it does not stop takes no slot either.
Spares(u) == row'[u].started /\ ~row'[u].cleanup => row[u].started /\ ~row[u].cleanup

LEMMA HeldIsFinite ==
    /\ IsFiniteSet(Task) /\ IsFiniteSet(Held) /\ Cardinality(Held) \in Nat
    /\ IsFiniteSet(Held') /\ Cardinality(Held') \in Nat
<1>1. IsFiniteSet(Task)
  BY OwnershipAssumption, FS_Interval DEF Task
<1>2. IsFiniteSet(Held) /\ IsFiniteSet(Held')
  BY <1>1, FS_Subset DEF Held
<1> QED
  BY <1>1, <1>2, FS_CardinalityType

\* What the statements of the transactions do to the two columns.
LEMMA ColumnsMove ==
    ASSUME IInv, NEW t \in Task
    PROVE  /\ ~Controlled(t).cleanup => ~row[t].cleanup
           /\ Controlled(t).started = row[t].started
           /\ \A lost : Revoked(row[t], lost).started = row[t].started /\ Revoked(row[t], lost).cleanup = row[t].cleanup
           /\ Stopped(row[t]).cleanup
           /\ \A o \in Outcome : Published(row[t], o).cleanup
           /\ Blocked(row[t]).cleanup
           /\ AfterBlocking[t].cleanup \/ AfterBlocking[t] = row[t]
<1>1. row[t] \in Row
  BY DEF IInv, TypeOK
<1>2. Controlled(t).started = row[t].started /\ (~Controlled(t).cleanup => ~row[t].cleanup)
  <2>1. Controlled(t) \in
          {row[t],
           [row[t] EXCEPT !.state = "cancelled", !.cancel = TRUE, !.cleanup = TRUE],
           [row[t] EXCEPT !.state = "cancelling", !.cancel = TRUE, !.cleanup = FALSE]}
    BY DEF Controlled
  <2>2. row[t].cleanup => Controlled(t) = row[t] \/ Controlled(t).cleanup
    <3> SUFFICES ASSUME row[t].cleanup PROVE Controlled(t) = row[t] \/ Controlled(t).cleanup
      OBVIOUS
    <3>1. row[t].state # "running"
      BY DEF IInv, RowsAgree
    <3>2. Controlled(t) \in
            {row[t], [row[t] EXCEPT !.state = "cancelled", !.cancel = TRUE, !.cleanup = TRUE]}
      BY <3>1 DEF Controlled
    <3> QED
      BY <1>1, <3>2 DEF Row
  <2> QED
    BY <1>1, <2>1, <2>2 DEF Row
<1>3. \A lost : Revoked(row[t], lost).started = row[t].started /\ Revoked(row[t], lost).cleanup = row[t].cleanup
  BY <1>1 DEF Revoked, Row
<1>4. Stopped(row[t]).cleanup
  BY <1>1 DEF Stopped, Row
<1>5. ASSUME NEW o \in Outcome PROVE Published(row[t], o).cleanup
  BY <1>1, PublishedIsRow DEF Published, Row
<1>6. Blocked(row[t]).cleanup
  BY <1>1, BlockedIsRow
<1>7. AfterBlocking[t].cleanup \/ AfterBlocking[t] = row[t]
  BY <1>6 DEF AfterBlocking
<1> QED
  BY <1>2, <1>3, <1>4, <1>5, <1>6, <1>7

LEMMA UserSpares ==
    ASSUME IInv, User, NEW u \in Task
    PROVE  Spares(u)
<1>0. row \in [Task -> Row]
  BY DEF IInv, TypeOK
<1>1. ASSUME NEW t \in Task, NEW c \in Conv, AppendQuestion(t, c) PROVE Spares(u)
  <2>1. u # t => row'[u] = row[u]
    BY <1>0, <1>1 DEF AppendQuestion
  <2>2. u = t => ~row'[u].started
    BY <1>0, <1>1, NewIsRow DEF AppendQuestion
  <2> QED
    BY <2>1, <2>2 DEF Spares
<1>2. ASSUME NEW t \in Task, Cancel(t) PROVE Spares(u)
  BY <1>0, <1>2, ColumnsMove DEF Cancel, Spares
<1>3. ASSUME NEW t \in Task, NEW n \in Task, Replace(t, n) PROVE Spares(u)
  <2>1. \/ u = t /\ row'[u] = [Controlled(t) EXCEPT !.active = FALSE]
        \/ row'[u] = NewRow(row[t].conv, t)
        \/ row'[u] = [row[u] EXCEPT !.active = FALSE, !.state = "superseded", !.cleanup = TRUE]
        \/ row'[u] = row[u]
    <3> DEFINE off(v) == [row[v] EXCEPT !.active = FALSE, !.state = "superseded", !.cleanup = TRUE]
               followed(v) == /\ v > t /\ row[v].conv = row[t].conv /\ row[v].active
                              /\ row[v].state \in {"queued", "blocked"}
               made == NewRow(row[t].conv, t)
               left == [Controlled(t) EXCEPT !.active = FALSE]
    <3>1. row' = [v \in Task |-> CASE v = t -> left
                                   [] v = n -> made
                                   [] followed(v) -> off(v)
                                   [] OTHER -> row[v]]
      BY <1>3 DEF Replace
    <3> HIDE DEF off, followed, made, left
    <3>2. \/ u = t /\ row'[u] = left
          \/ row'[u] = made
          \/ row'[u] = off(u)
          \/ row'[u] = row[u]
      BY <3>1
    <3> QED
      BY <3>2 DEF off, made, left
  <2>2. CASE u = t /\ row'[u] = [Controlled(t) EXCEPT !.active = FALSE]
    <3>1. Controlled(t) \in Row
      BY <1>0, ControlledIsRow
    <3>2. row'[u].started = Controlled(t).started /\ row'[u].cleanup = Controlled(t).cleanup
      BY <2>2, <3>1 DEF Row
    <3> QED
      BY <2>2, <3>2, ColumnsMove DEF Spares
  <2>3. CASE row'[u] = NewRow(row[t].conv, t)
    BY <2>3 DEF Spares, NewRow
  <2>4. CASE row'[u] = [row[u] EXCEPT !.active = FALSE, !.state = "superseded", !.cleanup = TRUE]
    BY <1>0, <2>4 DEF Spares, Row
  <2> QED
    BY <2>1, <2>2, <2>3, <2>4 DEF Spares
<1>4. ASSUME NEW t \in Task, Resume(t) PROVE Spares(u)
  <2>1. row' = [row EXCEPT ![t].state = "queued", ![t].attempt = @ + 1,
                           ![t].resumed = TRUE, ![t].node = FALSE]
    BY <1>4 DEF Resume, Requeued
  <2>2. row'[u].started = row[u].started /\ row'[u].cleanup = row[u].cleanup
    BY <1>0, <2>1 DEF Row
  <2> QED
    BY <2>2 DEF Spares
<1> QED
  BY <1>1, <1>2, <1>3, <1>4 DEF User

LEMMA BlockingSpares ==
    ASSUME IInv, NEW u \in Task, row'[u] = AfterBlocking[u]
    PROVE  Spares(u)
BY ColumnsMove DEF Spares

LEMMA WorkerSpares ==
    ASSUME IInv, NEW w \in Owner, Worker(w), ~\E t \in Task : Claim(w, t), NEW u \in Task
    PROVE  Spares(u)
<1>0. row \in [Task -> Row]
  BY DEF IInv, TypeOK
<1>1. CASE ClaimNothing(w)
  BY <1>1, BlockingSpares DEF ClaimNothing
<1>2. ASSUME NEW t \in Task, ClaimTooLarge(w, t) PROVE Spares(u)
  <2>1. row' = [AfterBlocking EXCEPT ![t] = Blocked(Assigned(@, w))] /\ AfterBlocking = [v \in Task |-> AfterBlocking[v]]
    BY <1>2 DEF ClaimTooLarge, AfterBlocking
  <2>2. CASE u # t
    BY <2>1, <2>2, BlockingSpares
  <2>3. CASE u = t
    <3>1. Assigned(AfterBlocking[u], w) \in Row
      BY <1>0, BlockedIsRow, AssignedIsRow DEF AfterBlocking
    <3>2. row'[u].cleanup
      BY <2>1, <2>3, <3>1, BlockedIsRow
    <3> QED
      BY <3>2 DEF Spares
  <2> QED
    BY <2>2, <2>3
<1>3. CASE Start(w)
  <2>1. row' = [row EXCEPT ![exec[w].task].node = TRUE]
    BY <1>3 DEF Start
  <2>2. row'[u].started = row[u].started /\ row'[u].cleanup = row[u].cleanup
    BY <1>0, <2>1 DEF Row
  <2> QED
    BY <2>2 DEF Spares
<1>4. CASE Publish(w)
  <2>1. row' = [row EXCEPT ![exec[w].task] = Published(@, exec[w].outcome)] /\ exec[w].outcome \in Outcome
    BY <1>4 DEF Publish, IInv, TypeOK, Execution
  <2>2. CASE u = exec[w].task
    BY <1>0, <2>1, <2>2, ColumnsMove DEF Spares
  <2>3. CASE u # exec[w].task
    BY <1>0, <2>1, <2>3 DEF Spares
  <2> QED
    BY <2>2, <2>3
<1>5. CASE Finish(w)
  <2>1. row' = [row EXCEPT ![exec[w].task] = Stopped(@)]
    BY <1>5 DEF Finish
  <2> QED
    BY <1>0, <2>1, ColumnsMove DEF Spares
<1>6. CASE CloseSession(w)
  BY <1>6, ColumnsMove DEF CloseSession, RevokeAll, Spares
<1>7. CASE UNCHANGED row
  BY <1>7 DEF Spares
<1>8. CASE OpenSession(w) \/ LoseLease(w) \/ ClaimCheck(w) \/ ClaimFails(w) \/ Load(w) \/ LoadFails(w)
  BY <1>7, <1>8 DEF OpenSession, LoseLease, ClaimCheck, ClaimFails, Load, LoadFails
<1>9. CASE CrashInStart(w) \/ Identify(w) \/ SendJob(w) \/ Admit(w) \/ Fenced(w) \/ ExecutionFails(w)
  BY <1>7, <1>9 DEF CrashInStart, Identify, SendJob, Admit, Fenced, ExecutionFails
<1>10. CASE PublishFenced(w) \/ FinishSkips(w) \/ Shutdown(w) \/ Crash(w)
  BY <1>7, <1>10 DEF PublishFenced, FinishSkips, Shutdown, Crash
<1>11. CASE \E v \in Version \cup {None} : StoreCheckpoint(w, v)
  BY <1>7, <1>11 DEF StoreCheckpoint, Pointed
<1> QED
  BY <1>1, <1>2, <1>3, <1>4, <1>5, <1>6, <1>8, <1>9, <1>10, <1>11 DEF Worker

LEMMA CoordinatorSpares ==
    ASSUME IInv, Coordinator, NEW u \in Task
    PROVE  Spares(u)
<1>0. row \in [Task -> Row]
  BY DEF IInv, TypeOK
<1>1. CASE RevokeLost
  BY <1>1, ColumnsMove DEF RevokeLost, RevokeAll, Spares
<1>2. ASSUME NEW a \in listed, StopPending(a) PROVE Spares(u)
  <2>1. row' = [row EXCEPT ![a.task] = Stopped(@)]
    BY <1>2 DEF StopPending
  <2> QED
    BY <1>0, <2>1, ColumnsMove DEF Spares
<1>3. CASE ListPending \/ \E a \in listed : StopUnconfirmed(a) \/ StopSkipped(a)
  BY <1>3 DEF ListPending, StopUnconfirmed, StopSkipped, Spares
<1> QED
  BY <1>1, <1>2, <1>3 DEF Coordinator

\* Where no slot is taken, the count holds if no second claim is checked.
LEMMA SparingKeeps ==
    ASSUME SlotInv, \A u \in Task : Spares(u), claiming' \subseteq claiming
    PROVE  SlotInv'
<1>1. Held' \subseteq Held
  BY DEF Held, Spares
<1>2. Cardinality(Held') <= Cardinality(Held)
  BY <1>1, HeldIsFinite, FS_Subset
<1> QED
  BY <1>2, HeldIsFinite, OwnershipAssumption DEF SlotInv

LEMMA CheckKeeps ==
    ASSUME SlotInv, NEW w \in Owner, ClaimCheck(w)
    PROVE  SlotInv'
<1>1. row' = row /\ claiming' = {w} /\ Cardinality(Held) < Slots
  BY DEF ClaimCheck, Available, Held
<1>2. Held' = Held
  BY <1>1 DEF Held
<1> QED
  BY <1>1, <1>2 DEF SlotInv

LEMMA ClaimTakesOne ==
    ASSUME IInv, SlotInv, NEW w \in Owner, NEW t \in Task, Claim(w, t)
    PROVE  SlotInv'
<1>1. claiming' = {} /\ Cardinality(Held) < Slots
  BY DEF Claim, SlotInv
<1>2. ASSUME NEW u \in Task, u # t PROVE Spares(u)
  <2>1. row'[u] = AfterBlocking[u]
    BY <1>2 DEF Claim, AfterBlocking
  <2> QED
    BY <2>1, BlockingSpares
<1>3. Held' \subseteq Held \cup {t}
  BY <1>2 DEF Held, Spares
<1>4. IsFiniteSet(Held \cup {t}) /\ Cardinality(Held \cup {t}) <= Cardinality(Held) + 1
  <2>1. /\ IsFiniteSet(Held \cup {t})
        /\ Cardinality(Held \cup {t}) = IF t \in Held THEN Cardinality(Held) ELSE Cardinality(Held) + 1
    BY HeldIsFinite, FS_AddElement, Zenon
  <2> QED
    BY <2>1, HeldIsFinite
<1>5. Cardinality(Held') <= Cardinality(Held \cup {t}) /\ Cardinality(Held \cup {t}) \in Nat
  BY <1>3, <1>4, FS_Subset, FS_CardinalityType
<1> QED
  BY <1>1, <1>4, <1>5, HeldIsFinite, OwnershipAssumption DEF SlotInv

LEMMA SlotsKeep ==
    ASSUME IInv, SlotInv, [Next]_vars
    PROVE  SlotInv'
<1>1. CASE User
  <2>1. claiming' = claiming
    BY <1>1 DEF User, AppendQuestion, Cancel, Replace, Resume, Requeued
  <2> QED
    BY <1>1, <2>1, UserSpares, SparingKeeps
<1>2. ASSUME NEW w \in Owner, Worker(w) PROVE SlotInv'
  <2>1. CASE ClaimCheck(w)
    BY <2>1, CheckKeeps
  <2>2. CASE \E t \in Task : Claim(w, t)
    BY <2>2, ClaimTakesOne
  <2>3. CASE ~ClaimCheck(w) /\ ~\E t \in Task : Claim(w, t)
    <3>1. claiming' \subseteq claiming
      <4>1. CASE OpenSession(w) \/ LoseLease(w) \/ ClaimNothing(w) \/ ClaimFails(w) \/ \E t \in Task : ClaimTooLarge(w, t)
        BY <4>1 DEF OpenSession, LoseLease, ClaimNothing, ClaimFails, ClaimTooLarge
      <4>2. CASE Load(w) \/ LoadFails(w) \/ Start(w) \/ CrashInStart(w) \/ Identify(w) \/ SendJob(w) \/ Admit(w)
        BY <4>2 DEF Load, LoadFails, Start, CrashInStart, Identify, SendJob, Admit
      <4>3. CASE \E v \in Version \cup {None} : StoreCheckpoint(w, v)
        BY <4>3 DEF StoreCheckpoint, Pointed
      <4>4. CASE Fenced(w) \/ ExecutionFails(w) \/ Publish(w) \/ PublishFenced(w) \/ FinishSkips(w)
        BY <4>4 DEF Fenced, ExecutionFails, Publish, PublishFenced, FinishSkips
      <4>5. CASE Finish(w) \/ Shutdown(w) \/ CloseSession(w) \/ Crash(w)
        BY <4>5 DEF Finish, Shutdown, CloseSession, Crash
      <4> QED
        BY <1>2, <2>3, <4>1, <4>2, <4>3, <4>4, <4>5 DEF Worker
    <3> QED
      BY <1>2, <2>3, <3>1, WorkerSpares, SparingKeeps
  <2> QED
    BY <2>1, <2>2, <2>3
<1>3. CASE UNCHANGED <<row, claiming>>
  BY <1>3, SparingKeeps DEF Spares
<1>4. ASSUME NEW w \in Owner, Node(w) PROVE SlotInv'
  BY <1>3, <1>4 DEF Node, Act, ActDone, ChildDies, Return
<1>5. CASE Coordinator
  <2>1. claiming' = claiming
    BY <1>5 DEF Coordinator, RevokeLost, ListPending, StopPending, StopUnconfirmed, StopSkipped
  <2> QED
    BY <1>5, <2>1, CoordinatorSpares, SparingKeeps
<1>6. CASE UNCHANGED vars
  BY <1>3, <1>6 DEF vars
<1> QED
  BY <1>1, <1>2, <1>4, <1>5, <1>6 DEF Next

LEMMA SlotsBegin == Init => SlotInv
<1> SUFFICES ASSUME Init PROVE SlotInv
  OBVIOUS
<1>1. Held = {} /\ claiming = {}
  BY DEF Init, Held, NewRow
<1> QED
  BY <1>1, FS_EmptySet, OwnershipAssumption DEF SlotInv

\* "Lease expiration never frees a slot" (ownership112.md:18-20), for every number
\* of tasks, sessions and slots: what runs is started and not confirmed stopped,
\* and the one claim that is checked at a time takes the last slot at most.
THEOREM SlotsAreRespected == Spec => []SlotsRespected
<1>1. IInv /\ SlotInv /\ [Next]_vars => SlotInv'
  BY SlotsKeep
<1>2. IInv /\ SlotInv => SlotsRespected
  <2> SUFFICES ASSUME IInv, SlotInv PROVE SlotsRespected
    OBVIOUS
  <2> DEFINE Runs == {t \in Task : Working(t)}
  <2>1. Runs \subseteq Held
    BY WorkingIsBusy DEF IInv, RowsAgree, Held
  <2>2. Cardinality(Runs) <= Cardinality(Held) /\ Cardinality(Runs) \in Nat
    BY <2>1, HeldIsFinite, FS_Subset, FS_CardinalityType
  <2> QED
    BY <2>2, HeldIsFinite, OwnershipAssumption DEF SlotInv, SlotsRespected
<1> QED
  BY <1>1, <1>2, SlotsBegin, Inductive, PTL DEF Spec
=============================================================================

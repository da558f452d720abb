------------------------ MODULE SessionArchiveProofs ------------------------
(***************************************************************************)
(* The session and the archive its runs are kept in.                       *)
(*                                                                         *)
(* For every number of tasks, turns and calls: a cancel is kept by every   *)
(* later step of the task, no exchange or effect is under way without the  *)
(* record of its start, and the archive of a task that returned tells its  *)
(* outcome.  For every number of processes, records, deaths and failed     *)
(* writes: what append acknowledged of a sound archive is never lost, and  *)
(* as long as an archive is sound it implements the sealed log and what is *)
(* sealed verifies.                                                        *)
(***************************************************************************)
EXTENDS AgentSession, RunArchive, SequenceTheorems, WellFoundedInduction, TLAPS

\* Admission and kernel share the knowledge of a cancel: inside the kernel's loop
\* it is the signal's.
CancelIsKnown ==
    /\ pc \in Loop \cup Outside \cup {"idle"}
    /\ admitting = (pc # "idle")
    /\ pc \in Loop =>
        /\ signal \in {"live", "aborted"}
        /\ cancelled => Aborted

\* Until its first lost record a run's archive is open and begins as it should.
Begun ==
    /\ archive = "open" /\ ~archiveError
    /\ Len(log) > 0 /\ log[1] = "run.started"

Record == {"run.started", "turn.started", "turn.settled", "tool.started", "tool.settled",
           "run.terminal"}

RecordsPrecede ==
    /\ log \in Seq(Record)
    /\ pc \in {"binding", "announcing"} => log = <<>>
    /\ pc = "announcing" => archive = "open" /\ ~archiveError
    /\ pc \in Loop \cup {"starting", "bounding"} => Begun
    /\ pc \in {"checking", "exchanging"} => log[Len(log)] = "turn.started"
    /\ pc \in {"dispatching", "executing"} => log[Len(log)] = "tool.started"

-----------------------------------------------------------------------------
LEMMA CancelBegins == Init => CancelIsKnown
BY DEF Init, CancelIsKnown, Loop, Outside, Aborted

LEMMA KernelSteps ==
    ASSUME CancelIsKnown,
           \/ Begin \/ Turn \/ TurnStarted \/ Ask \/ Answers \/ TurnFailed
           \/ TurnSettled \/ Call \/ ToolStarted \/ Dispatch \/ ToolSettles \/ ToolSettled
    PROVE  /\ CancelIsKnown'
           /\ cancelled =>
                /\ pc' \in {"exchanging", "executing"} => pc' = pc
                /\ outcome' = "completed" => outcome = "completed"
<1> USE DEF CancelIsKnown, Loop, Outside, Aborted, Waits, KernelEnds, KernelThrows,
            RecordLost, RecordFails, outside
<1>1. CASE Begin   BY <1>1 DEF Begin
<1>2. CASE Turn    BY <1>2 DEF Turn
<1>3. CASE TurnStarted  BY <1>3 DEF TurnStarted
<1>4. CASE Ask     BY <1>4 DEF Ask
<1>5. CASE Answers
  <2>1. CASE ExchangeFails  BY <2>1 DEF ExchangeFails
  <2>2. ASSUME NEW n \in 0..MaxBatch, Answer(n)
        PROVE  pc' = "turnSettling" /\ pc = "exchanging"
               /\ UNCHANGED <<admitting, cancelled, outcome, running, signal>>
    BY <2>2 DEF Answer
  <2>3. CASE \E n \in 0..MaxBatch : Answer(n)
    BY <2>2, <2>3
  <2> QED BY <1>5, <2>1, <2>3 DEF Answers
<1>6. CASE TurnFailed   BY <1>6 DEF TurnFailed
<1>7. CASE TurnSettled  BY <1>7 DEF TurnSettled
<1>8. CASE Call         BY <1>8 DEF Call
<1>9. CASE ToolStarted  BY <1>9 DEF ToolStarted
<1>10. CASE Dispatch    BY <1>10 DEF Dispatch
<1>11. CASE ToolSettles BY <1>11 DEF ToolSettles
<1>12. CASE ToolSettled BY <1>12 DEF ToolSettled
<1> QED
  BY <1>1, <1>2, <1>3, <1>4, <1>5, <1>6, <1>7, <1>8, <1>9, <1>10, <1>11, <1>12

LEMMA SessionSteps ==
    ASSUME CancelIsKnown,
           \/ Submit \/ Bind \/ Announce \/ Start \/ Enter \/ Fail \/ StopBoundary
           \/ ReportTerminal \/ Seal \/ KernelIdle \/ Closed \/ Cancel \/ Close
           \/ UNCHANGED vars
    PROVE  /\ CancelIsKnown'
           /\ cancelled =>
                /\ pc' \in {"exchanging", "executing"} => pc' = pc
                /\ outcome' = "completed" => outcome = "completed"
<1> USE DEF CancelIsKnown, Loop, Outside, Aborted, Goes, Returns, CancelledEarly, kernel
<1>1. CASE Submit  BY <1>1, NoneAssumption DEF Submit, Status
<1>2. CASE Bind    BY <1>2 DEF Bind
<1>3. CASE Announce  BY <1>3 DEF Announce
<1>4. CASE Start \/ Enter  BY <1>4 DEF Start, Enter
<1>5. CASE Fail \/ StopBoundary  BY <1>5 DEF Fail, StopBoundary
<1>6. CASE ReportTerminal  BY <1>6 DEF ReportTerminal
<1>7. CASE Seal    BY <1>7 DEF Seal, StateFor, Status
<1>8. CASE KernelIdle \/ Closed  BY <1>8 DEF KernelIdle, Closed
<1>9. CASE Cancel \/ Close  BY <1>9 DEF Cancel, Close, DoCancel
<1>10. CASE UNCHANGED vars  BY <1>10 DEF vars
<1> QED
  BY <1>1, <1>2, <1>3, <1>4, <1>5, <1>6, <1>7, <1>8, <1>9, <1>10

\* A cancel or close that arrives at any await of admission, boundary or kernel
\* is kept: nothing starts after it and the task does not complete (CancelHolds).
THEOREM CancelsAreKept == Spec => CancelHolds
<1>1. CancelIsKnown /\ [Next]_vars =>
        /\ CancelIsKnown'
        /\ cancelled =>
             /\ pc' \in {"exchanging", "executing"} => pc' = pc
             /\ outcome' = "completed" => outcome = "completed"
  BY KernelSteps, SessionSteps DEF Next, Step
<1> QED
  BY CancelBegins, <1>1, PTL DEF Spec, CancelHolds
-----------------------------------------------------------------------------
LEMMA RecordsBegin == Init => RecordsPrecede
BY DEF Init, RecordsPrecede, Loop

\* A record that reached the archive is its last one and leaves the first alone.
LEMMA RecordIsLast ==
    ASSUME NEW kind \in Record, log \in Seq(Record), Recorded(kind)
    PROVE  /\ log' \in Seq(Record)
           /\ log'[Len(log')] = kind
           /\ Len(log') = Len(log) + 1
           /\ Len(log) > 0 => log'[1] = log[1]
           /\ archiveError' = archiveError
BY DEF Recorded

LEMMA LostRecordKeeps ==
    ASSUME NEW kind \in Record, log \in Seq(Record), RecordFails(kind)
    PROVE  log' \in Seq(Record)
BY DEF RecordFails

\* The steps that record nothing.
LEMMA QuietSteps ==
    ASSUME RecordsPrecede,
           \/ Submit \/ Bind \/ Start \/ Enter \/ Fail \/ Seal \/ StopBoundary
           \/ KernelIdle \/ Closed \/ Cancel \/ Close \/ UNCHANGED vars
           \/ Begin \/ Turn \/ Ask \/ Answers \/ Call \/ Dispatch \/ ToolSettles
    PROVE  RecordsPrecede'
<1> USE DEF RecordsPrecede, Begun, Loop, Outside, Goes, Returns, CancelledEarly, kernel, outside,
            Waits, KernelEnds, KernelThrows
<1>1. CASE Submit   BY <1>1 DEF Submit
<1>2. CASE Bind     BY <1>2 DEF Bind
<1>3. CASE Start \/ Enter   BY <1>3 DEF Start, Enter
<1>4. CASE Fail \/ Seal \/ StopBoundary  BY <1>4 DEF Fail, Seal, StopBoundary
<1>5. CASE KernelIdle \/ Closed \/ Cancel \/ Close
  BY <1>5 DEF KernelIdle, Closed, Cancel, Close
<1>6. CASE UNCHANGED vars  BY <1>6 DEF vars
<1>7. CASE Begin \/ Turn \/ Ask \/ Call  BY <1>7 DEF Begin, Turn, Ask, Call
<1>8. CASE Answers
  <2>1. CASE ExchangeFails  BY <2>1 DEF ExchangeFails
  <2>2. ASSUME NEW n \in 0..MaxBatch, Answer(n)
        PROVE  RecordsPrecede'
    BY <2>2 DEF Answer
  <2> QED BY <1>8, <2>1, <2>2 DEF Answers
<1>9. CASE Dispatch \/ ToolSettles  BY <1>9 DEF Dispatch, ToolSettles
<1> QED
  BY <1>1, <1>2, <1>3, <1>4, <1>5, <1>6, <1>7, <1>8, <1>9

\* The steps that record: what follows a lost record is never an exchange or effect.
LEMMA RecordingSteps ==
    ASSUME RecordsPrecede,
           \/ Announce \/ ReportTerminal
           \/ TurnStarted \/ TurnFailed \/ TurnSettled \/ ToolStarted \/ ToolSettled
    PROVE  RecordsPrecede'
<1> USE DEF RecordsPrecede, Begun, Loop, Record
<1>0. log \in Seq(Record)
  OBVIOUS
<1>1. CASE Announce
  <2>1. CASE Recorded("run.started") /\ Goes("starting")
    <3>1. log = <<>> /\ archive = "open" /\ ~archiveError
      BY <1>1 DEF Announce
    <3>2. log' \in Seq(Record) /\ log' = <<"run.started">> /\ archiveError' = archiveError
      BY <2>1, <3>1, <1>0 DEF Recorded
    <3>3. archive' = archive
      BY <1>1 DEF Announce
    <3> QED
      BY <2>1, <3>1, <3>2, <3>3 DEF Goes
  <2>2. CASE RecordFails("run.started") /\ Returns("rejected")
    BY <2>2, <1>0, LostRecordKeeps DEF Returns
  <2> QED BY <1>1, <2>1, <2>2 DEF Announce
<1>2. CASE ReportTerminal
  <2>1. CASE Recorded("run.terminal") /\ Goes("sealing")
    BY <2>1, <1>0, RecordIsLast DEF Goes
  <2>2. CASE RecordFails("run.terminal") /\ Returns("rejected")
    BY <2>2, <1>0, LostRecordKeeps DEF Returns
  <2> QED BY <1>2, <2>1, <2>2 DEF ReportTerminal
<1>3. ASSUME NEW kind \in Record, RecordLost(kind)
      PROVE  RecordsPrecede'
  BY <1>3, <1>0, LostRecordKeeps DEF RecordLost, KernelEnds
<1>4. ASSUME NEW kind \in Record, pc \in Loop, Recorded(kind), UNCHANGED archive,
             \/ pc' = "stopping"
             \/ pc' \in {"calling", "turning"}
             \/ kind = "turn.started" /\ pc' = "checking"
             \/ kind = "tool.started" /\ pc' = "dispatching"
      PROVE  RecordsPrecede'
  BY <1>4, <1>0, RecordIsLast
<1> USE DEF KernelEnds, Waits, outside
<1>5. CASE TurnStarted   BY <1>5, <1>3, <1>4 DEF TurnStarted
<1>6. CASE TurnFailed    BY <1>6, <1>3, <1>4 DEF TurnFailed
<1>7. CASE TurnSettled   BY <1>7, <1>3, <1>4 DEF TurnSettled
<1>8. CASE ToolStarted   BY <1>8, <1>3, <1>4 DEF ToolStarted
<1>9. CASE ToolSettled   BY <1>9, <1>3, <1>4 DEF ToolSettled
<1> QED
  BY <1>1, <1>2, <1>5, <1>6, <1>7, <1>8, <1>9

\* Whatever record, exchange or boundary fails, an exchange or an effect is under
\* way only behind the record of its start, in an open archive (RecordedFirst).
THEOREM RecordsComeFirst == Spec => []RecordedFirst
<1>1. RecordsPrecede /\ [Next]_vars => RecordsPrecede'
  BY QuietSteps, RecordingSteps DEF Next, Step
<1>2. RecordsPrecede => RecordedFirst
  BY DEF RecordsPrecede, Begun, RecordedFirst, Loop, Last
<1> QED
  BY RecordsBegin, <1>1, <1>2, PTL DEF Spec

-----------------------------------------------------------------------------
(* What a sealed archive tells.                                            *)

Batch == {"turnSettling", "calling", "toolStarting", "dispatching", "executing", "toolSettling"}

\* The calls of a batch still to run are unanswered, and there is one until a tool settles.
BatchIsOpen ==
    /\ pc \in Batch => left <= unanswered
    /\ pc \in {"calling", "toolStarting", "dispatching", "executing"} => left > 0

\* Admission, the kernel and its signal go with the place the task is at.
Flags ==
    /\ pc = "idle" => admitting = FALSE
    /\ pc # "idle" => admitting = TRUE
    /\ pc \in Loop => running = TRUE /\ signal \in {"live", "aborted"}
    /\ pc \notin Loop => running = FALSE /\ signal = "none"

Kinds ==
    /\ pc \in Loop \cup Outside \cup {"idle"}
    /\ cancelled \in BOOLEAN /\ archiveError \in BOOLEAN
    /\ outcome \in Status \cup {"rejected", None}
    /\ archive \in {"none", "open", "terminal", "cancelled", "failed"}
    /\ sessionClosed \in BOOLEAN /\ kernelClosed \in BOOLEAN
    /\ closer \in {"no", "kernel", "admission", "done"}

Numbers == unanswered \in Nat /\ left \in 0..MaxBatch /\ turns \in 0..MaxTurns /\ tasks \in 0..MaxTasks

Typed == Flags /\ BatchIsOpen /\ Numbers /\ Kinds

\* Every start but perhaps the last record is settled by the next one.
Settling ==
    \A i \in 1..Len(log) - 1 :
        /\ log[i] = "turn.started" => log[i + 1] = "turn.settled"
        /\ log[i] = "tool.started" => log[i + 1] = "tool.settled"

Latest == log[Len(log)]
Starts == {"turn.started", "tool.started"}

\* What the archive of a task that is over says of its outcome.
TellsOutcome ==
    /\ outcome \in Status
    /\ Len(log) > 0 /\ log[1] = "run.started"
    /\ outcome = "completed" => Settling /\ Latest \notin Starts

LogTells ==
    /\ pc \in Loop => Settling
    /\ pc \in {"starting", "bounding"} => Settling /\ Latest = "run.started"
    /\ pc \in {"beginning", "turning", "turnStarting", "calling", "toolStarting"} => Latest \notin Starts
    /\ pc \in {"checking", "exchanging", "turnSettling", "turnFailing"} => Latest = "turn.started"
    /\ pc \in {"dispatching", "executing", "toolSettling"} => Latest = "tool.started"
    /\ pc \in {"stopping", "reporting", "sealing"} /\ ~archiveError => TellsOutcome
    /\ pc = "reporting" => ~archiveError
    /\ pc = "sealing" /\ ~archiveError => Latest = "run.terminal"
    /\ pc = "idle" /\ outcome \in Status =>
           archive = StateFor(outcome) /\ TellsOutcome /\ Latest = "run.terminal"

-----------------------------------------------------------------------------
LEMMA TypesSuffice == Typed => TypeOK
<1> SUFFICES ASSUME Typed PROVE TypeOK
  OBVIOUS
<1>1. admitting = (pc # "idle")
  <2>1. CASE pc = "idle"
    BY <2>1 DEF Typed, Kinds, Numbers, Flags
  <2>2. CASE pc # "idle"
    BY <2>2 DEF Typed, Kinds, Numbers, Flags
  <2> QED
    BY <2>1, <2>2
<1>3. running = (pc \in Loop)
  <2>1. CASE pc \in Loop
    <3>1. running = TRUE
      BY <2>1 DEF Typed, Kinds, Numbers, Flags
    <3> QED
      BY <2>1, <3>1
  <2>2. CASE pc \notin Loop
    <3>1. running = FALSE
      BY <2>2 DEF Typed, Kinds, Numbers, Flags
    <3>2. (pc \in Loop) = FALSE
      BY <2>2 DEF Loop
    <3> QED
      BY <3>1, <3>2
  <2> QED
    BY <2>1, <2>2
<1>2. signal \in (IF running THEN {"live", "aborted"} ELSE {"none"})
  BY DEF Typed, Kinds, Numbers, Flags
<1> QED
  BY <1>1, <1>2, <1>3 DEF Typed, Kinds, Numbers, TypeOK

LEMMA TypesBegin == Init => Typed
<1> SUFFICES ASSUME Init PROVE Typed
  OBVIOUS
<1>1. Flags /\ BatchIsOpen
  BY DEF Init, Flags, BatchIsOpen, Batch, Loop
<1>2. left \in 0..MaxBatch /\ turns \in 0..MaxTurns /\ tasks \in 0..MaxTasks /\ unanswered \in Nat
  BY BoundsAssumption DEF Init
<1> QED
  BY <1>1, <1>2 DEF Init, Typed, Kinds, Numbers

LEMMA StateForIs == \A status : StateFor(status) \in {"terminal", "cancelled", "failed"}
<1> TAKE status
<1> QED
  BY DEF StateFor

LEMMA OutsideTypes ==
    ASSUME Typed,
           \/ Submit \/ Bind \/ Announce \/ Start \/ Enter \/ Fail \/ StopBoundary \/ ReportTerminal \/ Seal
           \/ KernelIdle \/ Closed \/ Cancel \/ Close \/ UNCHANGED vars
    PROVE  Typed'
<1> USE BoundsAssumption DEF Typed, Kinds, Numbers, Flags, BatchIsOpen, Batch, Loop, Outside, Status, Goes, Returns,
        CancelledEarly, kernel, closing
<1>1. CASE Submit
  <2>1. Flags'
    BY <1>1 DEF Submit
  <2>2. BatchIsOpen' /\ Numbers'
    BY <1>1 DEF Submit
  <2>3. Kinds'
    BY <1>1 DEF Submit
  <2> QED
    BY <2>1, <2>2, <2>3
<1>2. CASE Bind
  <2>1. Flags'
    BY <1>2 DEF Bind
  <2>2. BatchIsOpen' /\ Numbers'
    BY <1>2 DEF Bind
  <2>3. Kinds'
    BY <1>2 DEF Bind
  <2> QED
    BY <2>1, <2>2, <2>3
<1>3. CASE Announce
  <2>1. Flags'
    BY <1>3 DEF Announce, Recorded, RecordFails
  <2>2. BatchIsOpen' /\ Numbers'
    BY <1>3 DEF Announce, Recorded, RecordFails
  <2>3. Kinds'
    BY <1>3 DEF Announce, Recorded, RecordFails
  <2> QED
    BY <2>1, <2>2, <2>3
<1>4. CASE Start
  <2>1. Flags'
    BY <1>4 DEF Start
  <2>2. BatchIsOpen' /\ Numbers'
    BY <1>4 DEF Start
  <2>3. Kinds'
    BY <1>4 DEF Start
  <2> QED
    BY <2>1, <2>2, <2>3
<1>5. CASE Enter
  <2>1. Flags'
    BY <1>5 DEF Enter
  <2>2. /\ pc' \in {"failing", "stopping", "beginning"} /\ left' \in {left, 0} /\ UNCHANGED <<unanswered, tasks>>
        /\ turns' \in {turns, 0}
    BY <1>5 DEF Enter
  <2>4. BatchIsOpen' /\ Numbers'
    BY <2>2
  <2>3. Kinds'
    BY <1>5 DEF Enter
  <2> QED
    BY <2>1, <2>3, <2>4
<1>6. CASE Fail
  <2>1. Flags'
    BY <1>6 DEF Fail
  <2>2. BatchIsOpen' /\ Numbers'
    BY <1>6 DEF Fail
  <2>3. Kinds'
    BY <1>6 DEF Fail
  <2> QED
    BY <2>1, <2>2, <2>3
<1>7. CASE StopBoundary
  <2>1. Flags'
    BY <1>7 DEF StopBoundary
  <2>2. BatchIsOpen' /\ Numbers'
    BY <1>7 DEF StopBoundary
  <2>3. Kinds'
    BY <1>7 DEF StopBoundary
  <2> QED
    BY <2>1, <2>2, <2>3
<1>8. CASE ReportTerminal
  <2>1. Flags'
    BY <1>8 DEF ReportTerminal
  <2>2. BatchIsOpen' /\ Numbers'
    BY <1>8 DEF ReportTerminal
  <2>3. Kinds'
    BY <1>8 DEF ReportTerminal, Recorded, RecordFails
  <2> QED
    BY <2>1, <2>2, <2>3
<1>9. CASE Seal
  <2>1. archive' \in {"none", "open", "terminal", "cancelled", "failed"}
    BY <1>9, StateForIs DEF Seal
  <2> QED
    BY <1>9, <2>1 DEF Seal
<1>10. CASE KernelIdle \/ Closed
  <2>1. Flags'
    BY <1>10 DEF KernelIdle, Closed
  <2>2. BatchIsOpen' /\ Numbers'
    BY <1>10 DEF KernelIdle, Closed
  <2>3. Kinds'
    BY <1>10 DEF KernelIdle, Closed
  <2> QED
    BY <2>1, <2>2, <2>3
<1>11. CASE Cancel      BY <1>11 DEF Cancel, DoCancel
<1>12. CASE Close       BY <1>12 DEF Close, DoCancel
<1>13. CASE UNCHANGED vars  BY <1>13 DEF vars
<1> QED
  BY <1>1, <1>2, <1>3, <1>4, <1>5, <1>6, <1>7, <1>8, <1>9, <1>10, <1>11, <1>12, <1>13

\* What the kernel's steps leave to the session.
LEMMA KernelLeaves ==
    ASSUME \/ Begin \/ Turn \/ TurnStarted \/ Ask \/ Answers \/ TurnFailed
           \/ TurnSettled \/ Call \/ ToolStarted \/ Dispatch \/ ToolSettles \/ ToolSettled
    PROVE  /\ pc \in Loop
           /\ admitting' = admitting /\ cancelled' = cancelled /\ archive' = archive /\ tasks' = tasks
           /\ sessionClosed' = sessionClosed /\ kernelClosed' = kernelClosed /\ closer' = closer
<1>1. UNCHANGED outside /\ pc \in Loop
  BY DEF Begin, Turn, TurnStarted, Ask, Answers, ExchangeFails, Answer, TurnFailed, TurnSettled, Call, ToolStarted,
         Dispatch, ToolSettles, ToolSettled, outside, Loop
<1> QED
  BY <1>1 DEF outside, closing

\* Where the kernel's steps lead.
LEMMA KernelPlaces ==
    ASSUME Flags, outcome \in Status \cup {"rejected", None}, archiveError \in BOOLEAN,
           \/ Begin \/ Turn \/ TurnStarted \/ Ask \/ Answers \/ TurnFailed
           \/ TurnSettled \/ Call \/ ToolStarted \/ Dispatch \/ ToolSettles \/ ToolSettled
    PROVE  /\ pc' \in Loop \cup {"stopping", "failing"}
           /\ pc' \in Loop => running' = TRUE /\ signal' \in {"live", "aborted"}
           /\ pc' \notin Loop => running' = FALSE /\ signal' = "none"
           /\ outcome' \in Status \cup {"rejected", None} /\ archiveError' \in BOOLEAN
<1> USE DEF Flags, Loop, Status, Waits, KernelEnds, KernelThrows, RecordLost, Recorded, RecordFails
<1>1. CASE Begin         BY <1>1 DEF Begin
<1>2. CASE Turn          BY <1>2 DEF Turn
<1>3. CASE TurnStarted   BY <1>3 DEF TurnStarted
<1>4. CASE Ask           BY <1>4 DEF Ask
<1>5. CASE Answers       BY <1>5 DEF Answers, Answer, ExchangeFails
<1>6. CASE TurnFailed    BY <1>6 DEF TurnFailed
<1>7. CASE TurnSettled   BY <1>7 DEF TurnSettled
<1>8. CASE Call          BY <1>8 DEF Call
<1>9. CASE ToolStarted   BY <1>9 DEF ToolStarted
<1>10. CASE Dispatch      BY <1>10 DEF Dispatch
<1>11. CASE ToolSettles   BY <1>11 DEF ToolSettles
<1>12. CASE ToolSettled   BY <1>12 DEF ToolSettled
<1> QED
  BY <1>1, <1>2, <1>3, <1>4, <1>5, <1>6, <1>7, <1>8, <1>9, <1>10, <1>11, <1>12

LEMMA KernelNumbers ==
    ASSUME Numbers, BatchIsOpen,
           \/ Begin \/ Turn \/ TurnStarted \/ Ask \/ Answers \/ TurnFailed
           \/ TurnSettled \/ Call \/ ToolStarted \/ Dispatch \/ ToolSettles \/ ToolSettled
    PROVE  unanswered' \in Nat /\ left' \in 0..MaxBatch /\ turns' \in 0..MaxTurns /\ BatchIsOpen'
<1> USE BoundsAssumption DEF Numbers, BatchIsOpen, Batch, Waits, KernelEnds, KernelThrows, RecordLost
<1>1. CASE Begin         BY <1>1 DEF Begin
<1>2. CASE Turn          BY <1>2 DEF Turn
<1>3. CASE TurnStarted   BY <1>3 DEF TurnStarted
<1>4. CASE Ask           BY <1>4 DEF Ask
<1>5. CASE Answers       BY <1>5 DEF Answers, Answer, ExchangeFails
<1>6. CASE TurnFailed    BY <1>6 DEF TurnFailed
<1>7. CASE TurnSettled   BY <1>7 DEF TurnSettled
<1>8. CASE Call          BY <1>8 DEF Call
<1>9. CASE ToolStarted   BY <1>9 DEF ToolStarted
<1>10. CASE Dispatch      BY <1>10 DEF Dispatch
<1>11. CASE ToolSettles   BY <1>11 DEF ToolSettles
<1>12. CASE ToolSettled   BY <1>12 DEF ToolSettled
<1> QED
  BY <1>1, <1>2, <1>3, <1>4, <1>5, <1>6, <1>7, <1>8, <1>9, <1>10, <1>11, <1>12

LEMMA KernelTypes ==
    ASSUME Typed,
           \/ Begin \/ Turn \/ TurnStarted \/ Ask \/ Answers \/ TurnFailed
           \/ TurnSettled \/ Call \/ ToolStarted \/ Dispatch \/ ToolSettles \/ ToolSettled
    PROVE  Typed'
<1>1. /\ pc \in Loop
      /\ admitting' = admitting /\ cancelled' = cancelled /\ archive' = archive /\ tasks' = tasks
      /\ sessionClosed' = sessionClosed /\ kernelClosed' = kernelClosed /\ closer' = closer
  BY KernelLeaves
<1>2. /\ pc' \in Loop \cup {"stopping", "failing"}
      /\ pc' \in Loop => running' = TRUE /\ signal' \in {"live", "aborted"}
      /\ pc' \notin Loop => running' = FALSE /\ signal' = "none"
      /\ outcome' \in Status \cup {"rejected", None} /\ archiveError' \in BOOLEAN
  BY KernelPlaces DEF Typed, Kinds
<1>3. unanswered' \in Nat /\ left' \in 0..MaxBatch /\ turns' \in 0..MaxTurns /\ BatchIsOpen'
  BY KernelNumbers DEF Typed
<1>4. Flags'
  BY <1>1, <1>2 DEF Typed, Flags, Loop
<1>5. Numbers'
  BY <1>1, <1>3 DEF Typed, Numbers
<1>6. Kinds'
  BY <1>1, <1>2 DEF Typed, Kinds, Outside
<1> QED
  BY <1>3, <1>4, <1>5, <1>6 DEF Typed

-----------------------------------------------------------------------------
LEMMA TellingBegins == Init => LogTells
BY NoneAssumption DEF Init, LogTells, Loop, TellsOutcome

\* Steps that leave the records alone, and where they lead.
LEMMA SameRecords ==
    ASSUME log' = log
    PROVE  Settling' = Settling /\ Latest' = Latest
BY DEF Settling, Latest

\* A record that follows as it should leaves every start but the last settled.
LEMMA RecordSettles ==
    ASSUME NEW kind \in Record, log \in Seq(Record), Len(log) > 0, Settling, Recorded(kind),
           Latest = "turn.started" => kind = "turn.settled",
           Latest = "tool.started" => kind = "tool.settled"
    PROVE  Settling' /\ Latest' = kind /\ Len(log') = Len(log) + 1 /\ log'[1] = log[1]
<1>1. log' = Append(log, kind) /\ Len(log) \in Nat \ {0}
  BY LenProperties DEF Recorded
<1>2. Len(log') = Len(log) + 1 /\ log'[Len(log) + 1] = kind /\ \A i \in 1..Len(log) : log'[i] = log[i]
  BY <1>1, AppendProperties
<1>3. ASSUME NEW i \in 1..Len(log)
      PROVE  /\ log'[i] = "turn.started" => log'[i + 1] = "turn.settled"
             /\ log'[i] = "tool.started" => log'[i + 1] = "tool.settled"
  <2>1. CASE i = Len(log)
    BY <2>1, <1>2 DEF Latest
  <2>2. CASE i # Len(log)
    <3>1. i \in 1..Len(log) - 1 /\ i + 1 \in 1..Len(log)
      BY <2>2, <1>1
    <3> QED
      BY <3>1, <1>2 DEF Settling
  <2> QED
    BY <2>1, <2>2
<1>4. Settling'
  BY <1>1, <1>2, <1>3 DEF Settling
<1> QED
  BY <1>1, <1>2, <1>4 DEF Latest

\* What LogTells asks of a place inside the task, for records R and last record l.
LEMMA InsideTells ==
    ASSUME pc' \in Loop \cup {"starting", "bounding", "failing", "binding", "announcing"},
           pc' \in Loop \cup {"starting", "bounding"} => Settling',
           pc' \in {"starting", "bounding"} => Latest' = "run.started",
           pc' \in {"beginning", "turning", "turnStarting", "calling", "toolStarting"} => Latest' \notin Starts,
           pc' \in {"checking", "exchanging", "turnSettling", "turnFailing"} => Latest' = "turn.started",
           pc' \in {"dispatching", "executing", "toolSettling"} => Latest' = "tool.started"
    PROVE  LogTells'
BY DEF LogTells, Loop

\* A task that leaves the kernel without a word, or with its outcome told.
LEMMA EndingTells ==
    ASSUME pc' = "stopping", archiveError' \/ TellsOutcome'
    PROVE  LogTells'
BY DEF LogTells, Loop

LEMMA KernelQuietTells ==
    ASSUME RecordsPrecede, LogTells,
           Begin \/ Turn \/ Ask \/ Answers \/ Call \/ Dispatch \/ ToolSettles
    PROVE  LogTells'
<1>1. log' = log /\ archiveError' = archiveError /\ pc \in Loop
  BY DEF Begin, Turn, Ask, Answers, ExchangeFails, Answer, Call, Dispatch, ToolSettles, Loop
<1>2. Settling' = Settling /\ Latest' = Latest
  BY <1>1, SameRecords
<1>3. Len(log) > 0 /\ log[1] = "run.started" /\ Settling
  BY <1>1 DEF RecordsPrecede, Begun, LogTells
<1>4. ASSUME pc' = "stopping", outcome' \in {"cancelled", "model_error", "incomplete"}
      PROVE  LogTells'
  BY <1>1, <1>3, <1>4, EndingTells DEF TellsOutcome, Status
<1>5. CASE Begin
  <2>1. pc = "beginning" /\ pc' \in {"turning", "failing"}
    BY <1>5 DEF Begin, Waits
  <2> QED
    BY <2>1, <1>2, <1>3, InsideTells DEF LogTells, Loop
<1>6. CASE Turn
  <2>1. /\ pc = "turning"
        /\ \/ pc' = "turnStarting"
           \/ pc' = "stopping" /\ outcome' \in {"cancelled", "model_error", "incomplete"}
    BY <1>6 DEF Turn, Waits, KernelEnds, KernelThrows
  <2> QED
    BY <2>1, <1>2, <1>3, <1>4, InsideTells DEF LogTells, Loop
<1>7. CASE Ask \/ Answers
  <2>1. /\ pc \in {"checking", "exchanging"}
        /\ \/ pc' \in {"exchanging", "turnSettling", "turnFailing"}
           \/ pc' = "stopping" /\ outcome' \in {"cancelled", "model_error", "incomplete"}
    BY <1>7 DEF Ask, Answers, ExchangeFails, Answer, Waits, KernelEnds, KernelThrows
  <2> QED
    BY <2>1, <1>2, <1>3, <1>4, InsideTells DEF LogTells, Loop
<1>8. CASE Call
  <2>1. /\ pc = "calling"
        /\ \/ pc' = "toolStarting"
           \/ pc' = "stopping" /\ outcome' \in {"cancelled", "model_error", "incomplete"}
    BY <1>8 DEF Call, Waits, KernelEnds, KernelThrows
  <2> QED
    BY <2>1, <1>2, <1>3, <1>4, InsideTells DEF LogTells, Loop
<1>9. CASE Dispatch \/ ToolSettles
  <2>1. /\ pc \in {"dispatching", "executing"}
        /\ \/ pc' \in {"executing", "toolSettling"}
           \/ pc' = "stopping" /\ outcome' \in {"cancelled", "model_error", "incomplete"}
    BY <1>9 DEF Dispatch, ToolSettles, Waits, KernelEnds, KernelThrows
  <2> QED
    BY <2>1, <1>2, <1>3, <1>4, InsideTells DEF LogTells, Loop
<1> QED
  BY <1>5, <1>6, <1>7, <1>8, <1>9

LEMMA KernelRecordTells ==
    ASSUME RecordsPrecede, LogTells,
           TurnStarted \/ TurnFailed \/ TurnSettled \/ ToolStarted \/ ToolSettled
    PROVE  LogTells'
<1>1. pc \in Loop
  BY DEF TurnStarted, TurnFailed, TurnSettled, ToolStarted, ToolSettled, Loop
<1>2. log \in Seq(Record) /\ Len(log) > 0 /\ log[1] = "run.started" /\ Settling
  BY <1>1 DEF RecordsPrecede, Begun, LogTells
<1>3. ASSUME NEW kind, RecordLost(kind)
      PROVE  LogTells'
  BY <1>3, EndingTells DEF RecordLost, RecordFails, KernelEnds
<1>4. ASSUME NEW kind \in Record, Recorded(kind),
             Latest = "turn.started" => kind = "turn.settled",
             Latest = "tool.started" => kind = "tool.settled"
      PROVE  /\ Settling' /\ Latest' = kind /\ Len(log') > 0 /\ log'[1] = "run.started"
             /\ pc' = "stopping" /\ outcome' \in {"cancelled", "model_error", "incomplete"} => LogTells'
             /\ pc' = "stopping" /\ outcome' = "completed" /\ kind \notin Starts => LogTells'
  <2>1. Settling' /\ Latest' = kind /\ Len(log') = Len(log) + 1 /\ log'[1] = log[1]
    BY <1>2, <1>4, RecordSettles
  <2>2. Len(log') > 0 /\ log'[1] = "run.started"
    BY <1>2, <2>1
  <2>3. ASSUME pc' = "stopping", outcome' \in {"cancelled", "model_error", "incomplete"} PROVE LogTells'
    BY <2>2, <2>3, EndingTells DEF TellsOutcome, Status
  <2>4. ASSUME pc' = "stopping", outcome' = "completed", kind \notin Starts PROVE LogTells'
    BY <2>1, <2>2, <2>4, EndingTells DEF TellsOutcome, Status
  <2> QED
    BY <2>1, <2>2, <2>3, <2>4
<1>5. CASE TurnStarted
  <2>1. /\ pc = "turnStarting"
        /\ \/ RecordLost("turn.started")
           \/ /\ Recorded("turn.started")
              /\ pc' = "checking" \/ (pc' = "stopping" /\ outcome' = "cancelled")
    BY <1>5 DEF TurnStarted, Waits, KernelEnds
  <2>2. Latest \notin Starts
    BY <2>1 DEF LogTells
  <2> QED
    BY <2>1, <2>2, <1>3, <1>4, InsideTells DEF Record, Starts, Loop
<1>6. CASE TurnFailed
  <2>1. /\ pc = "turnFailing"
        /\ \/ RecordLost("turn.settled")
           \/ /\ Recorded("turn.settled")
              /\ pc' = "stopping" /\ outcome' \in {"cancelled", "model_error"}
    BY <1>6 DEF TurnFailed, KernelEnds
  <2>2. Latest = "turn.started"
    BY <2>1 DEF LogTells
  <2> QED
    BY <2>1, <2>2, <1>3, <1>4 DEF Record
<1>7. CASE TurnSettled
  <2>1. /\ pc = "turnSettling"
        /\ \/ RecordLost("turn.settled")
           \/ /\ Recorded("turn.settled")
              /\ \/ pc' = "stopping" /\ outcome' \in {"cancelled", "completed", "incomplete"}
                 \/ pc' = "calling"
    BY <1>7 DEF TurnSettled, KernelEnds, Waits
  <2>2. Latest = "turn.started"
    BY <2>1 DEF LogTells
  <2> QED
    BY <2>1, <2>2, <1>3, <1>4, InsideTells DEF Record, Starts, Loop
<1>8. CASE ToolStarted
  <2>1. /\ pc = "toolStarting"
        /\ \/ RecordLost("tool.started")
           \/ /\ Recorded("tool.started")
              /\ pc' = "dispatching" \/ (pc' = "stopping" /\ outcome' = "cancelled")
    BY <1>8 DEF ToolStarted, KernelEnds, Waits
  <2>2. Latest \notin Starts
    BY <2>1 DEF LogTells
  <2> QED
    BY <2>1, <2>2, <1>3, <1>4, InsideTells DEF Record, Starts, Loop
<1>9. CASE ToolSettled
  <2>1. /\ pc = "toolSettling"
        /\ \/ RecordLost("tool.settled")
           \/ /\ Recorded("tool.settled")
              /\ pc' \in {"calling", "turning"} \/ (pc' = "stopping" /\ outcome' = "cancelled")
    BY <1>9 DEF ToolSettled, KernelEnds, Waits
  <2>2. Latest = "tool.started"
    BY <2>1 DEF LogTells
  <2> QED
    BY <2>1, <2>2, <1>3, <1>4, InsideTells DEF Record, Starts, Loop
<1> QED
  BY <1>5, <1>6, <1>7, <1>8, <1>9

LEMMA SessionTells ==
    ASSUME RecordsPrecede, LogTells,
           \/ Submit \/ Bind \/ Start \/ Enter \/ Fail \/ StopBoundary \/ Seal
           \/ KernelIdle \/ Closed \/ Cancel \/ Close \/ UNCHANGED vars
    PROVE  LogTells'
<1>1. CASE Submit
  BY <1>1, InsideTells DEF Submit, Loop
<1>2. ASSUME log' = log, outcome' = outcome, archive' = archive, archiveError' = archiveError, pc' = pc
      PROVE  LogTells'
  <2>1. Settling' = Settling /\ Latest' = Latest
    BY <1>2, SameRecords
  <2>2. TellsOutcome' = TellsOutcome
    BY <1>2, <2>1 DEF TellsOutcome
  <2> QED
    BY <1>2, <2>1, <2>2 DEF LogTells
<1>3. CASE KernelIdle \/ Closed \/ Cancel \/ Close \/ UNCHANGED vars
  BY <1>2, <1>3 DEF KernelIdle, Closed, Cancel, Close, vars
<1>4. ASSUME pc' = "idle", outcome' = "rejected"
      PROVE  LogTells'
  BY <1>4 DEF LogTells, Loop, Status
<1>5. CASE Bind
  BY <1>4, <1>5, InsideTells DEF Bind, Goes, Returns, Loop
<1>6. CASE Start
  <2>1. pc = "starting" /\ log' = log
    BY <1>6 DEF Start
  <2>2. Settling' = Settling /\ Latest' = Latest
    BY <2>1, SameRecords
  <2>3. Len(log) > 0 /\ log[1] = "run.started" /\ Settling /\ Latest = "run.started"
    BY <2>1 DEF RecordsPrecede, Begun, LogTells
  <2>4. CASE pc' = "bounding"
    BY <2>2, <2>3, <2>4, InsideTells DEF Loop
  <2>5. CASE pc' = "stopping" /\ outcome' = "cancelled"
    BY <2>1, <2>3, <2>5, EndingTells DEF TellsOutcome, Status
  <2> QED
    BY <1>6, <2>4, <2>5 DEF Start, CancelledEarly, Goes
<1>7. CASE Enter
  <2>1. pc = "bounding" /\ log' = log
    BY <1>7 DEF Enter
  <2>2. Settling' = Settling /\ Latest' = Latest
    BY <2>1, SameRecords
  <2>3. Len(log) > 0 /\ log[1] = "run.started" /\ Settling /\ Latest = "run.started"
    BY <2>1 DEF RecordsPrecede, Begun, LogTells
  <2>4. CASE pc' \in {"beginning", "failing"}
    BY <2>2, <2>3, <2>4, InsideTells DEF Loop, Starts
  <2>5. CASE pc' = "stopping" /\ outcome' = "cancelled"
    BY <2>1, <2>3, <2>5, EndingTells DEF TellsOutcome, Status
  <2> QED
    BY <1>7, <2>4, <2>5 DEF Enter, CancelledEarly, Goes
<1>8. CASE Fail
  BY <1>4, <1>8 DEF Fail, Returns
<1>9. ASSUME log' = log, outcome' = outcome
      PROVE  Latest' = Latest /\ TellsOutcome' = TellsOutcome
  BY <1>9, SameRecords DEF TellsOutcome
<1>10. CASE StopBoundary
  <2>1. /\ pc = "stopping" /\ log' = log /\ archiveError' = archiveError
        /\ \/ pc' = "idle" /\ outcome' = "rejected"
           \/ pc' = "sealing" /\ archiveError /\ outcome' = outcome
           \/ pc' = "reporting" /\ ~archiveError /\ outcome' = outcome
    BY <1>10 DEF StopBoundary, Returns, Goes
  <2>2. CASE pc' = "sealing" /\ archiveError
    BY <2>1, <2>2 DEF LogTells, Loop
  <2>3. CASE pc' = "reporting" /\ ~archiveError /\ outcome' = outcome
    BY <2>1, <2>3, <1>9 DEF LogTells, Loop
  <2> QED
    BY <2>1, <2>2, <2>3, <1>4
<1>11. CASE Seal
  <2>1. /\ pc = "sealing" /\ log' = log /\ archiveError' = archiveError /\ pc' = "idle"
        /\ \/ outcome' = "rejected"
           \/ ~archiveError /\ archive' = StateFor(outcome) /\ outcome' = outcome
    BY <1>11 DEF Seal, Returns
  <2>2. CASE ~archiveError /\ archive' = StateFor(outcome) /\ outcome' = outcome
    BY <2>1, <2>2, <1>9 DEF LogTells, Loop
  <2> QED
    BY <2>1, <2>2, <1>4
<1> QED
  BY <1>1, <1>3, <1>5, <1>6, <1>7, <1>8, <1>10, <1>11

LEMMA ReportTells ==
    ASSUME RecordsPrecede, LogTells, Announce \/ ReportTerminal
    PROVE  LogTells'
<1>1. ASSUME pc' = "idle", outcome' = "rejected"
      PROVE  LogTells'
  BY <1>1 DEF LogTells, Loop, Status
<1>2. CASE Announce
  <2>1. CASE Recorded("run.started") /\ Goes("starting")
    <3>1. log' = <<"run.started">> /\ pc' = "starting"
      BY <1>2, <2>1 DEF Announce, RecordsPrecede, Recorded, Goes
    <3>2. Settling' /\ Latest' = "run.started"
      BY <3>1 DEF Settling, Latest
    <3> QED
      BY <3>1, <3>2, InsideTells DEF Loop
  <2> QED
    BY <1>2, <1>1, <2>1 DEF Announce, Returns
<1>3. CASE ReportTerminal
  <2>1. CASE Recorded("run.terminal") /\ Goes("sealing")
    <3>1. pc = "reporting" /\ ~archiveError /\ TellsOutcome /\ log \in Seq(Record)
      BY <1>3 DEF ReportTerminal, LogTells, RecordsPrecede
    <3>2. outcome' = outcome /\ pc' = "sealing"
      BY <2>1 DEF Goes
    <3>3. Len(log') = Len(log) + 1 /\ log'[Len(log')] = "run.terminal" /\ log'[1] = "run.started"
      BY <2>1, <3>1, RecordIsLast DEF TellsOutcome, Record
    <3>4. ASSUME outcome = "completed" PROVE Settling'
      BY <2>1, <3>1, <3>4, RecordSettles DEF TellsOutcome, Starts, Record
    <3>5. Latest' = "run.terminal"
      BY <3>3 DEF Latest
    <3>6. TellsOutcome'
      BY <3>1, <3>2, <3>3, <3>4, <3>5 DEF TellsOutcome, Starts
    <3> QED
      BY <3>2, <3>5, <3>6 DEF LogTells, Loop
  <2> QED
    BY <1>3, <1>1, <2>1 DEF ReportTerminal, Returns
<1> QED
  BY <1>2, <1>3

LEMMA TellingSuffices == Typed /\ RecordsPrecede /\ LogTells => ArchiveTells
<1> SUFFICES ASSUME Typed, RecordsPrecede, LogTells PROVE ArchiveTells
  OBVIOUS
<1>1. TypeOK
  BY TypesSuffice
<1>2. ASSUME pc = "idle", outcome \in Status
      PROVE  /\ archive = StateFor(outcome)
             /\ Head(log) = "run.started" /\ Last(log) = "run.terminal"
             /\ outcome = "completed" =>
                    \A i \in DOMAIN log :
                        /\ log[i] = "turn.started" => log[i + 1] = "turn.settled"
                        /\ log[i] = "tool.started" => log[i + 1] = "tool.settled"
  <2>1. archive = StateFor(outcome) /\ TellsOutcome /\ Latest = "run.terminal" /\ log \in Seq(Record)
    BY <1>2 DEF LogTells, RecordsPrecede
  <2>2. Head(log) = "run.started" /\ Last(log) = "run.terminal"
    BY <2>1 DEF TellsOutcome, Latest, Last
  <2>3. ASSUME outcome = "completed", NEW i \in DOMAIN log
        PROVE  /\ log[i] = "turn.started" => log[i + 1] = "turn.settled"
               /\ log[i] = "tool.started" => log[i + 1] = "tool.settled"
    <3>1. Settling /\ i \in 1..Len(log) /\ Len(log) \in Nat
      BY <2>1, <2>3 DEF TellsOutcome
    <3>2. CASE i = Len(log)
      BY <2>1, <3>2 DEF Latest
    <3>3. CASE i # Len(log)
      <4>1. i \in 1..Len(log) - 1
        BY <3>1, <3>3
      <4> QED
        BY <3>1, <4>1 DEF Settling
    <3> QED
      BY <3>2, <3>3
  <2> QED
    BY <2>1, <2>2, <2>3
<1> QED
  BY <1>1, <1>2 DEF ArchiveTells

\* A task that returns has sealed an archive that says what it returned, for every
\* number of turns and calls and whatever record was lost on the way (ArchiveTells).
THEOREM ArchivesTell == Spec => []ArchiveTells
<1>1. Typed /\ [Next]_vars => Typed'
  BY OutsideTypes, KernelTypes DEF Next, Step
<1>2. RecordsPrecede /\ [Next]_vars => RecordsPrecede'
  BY QuietSteps, RecordingSteps DEF Next, Step
<1>3. RecordsPrecede /\ LogTells /\ [Next]_vars => LogTells'
  BY KernelQuietTells, KernelRecordTells, SessionTells, ReportTells DEF Next, Step
<1> QED
  BY TypesBegin, RecordsBegin, TellingBegins, <1>1, <1>2, <1>3, TellingSuffices, PTL DEF Spec

-----------------------------------------------------------------------------
(* The run archive: writer, crashes and recoveries.                        *)

Writer == [pc : Away \cup Busy, sequence : Nat, previous : Seq(Body), body : Body, seen : Seq(Lines)]
Seals == [form : {"seal"}, bytes : Seq(Lines), count : Nat, head : Seq(Body), state : State]

\* Every line but the last has its newline.
Ended(lines) == \A i \in 1..Len(lines) - 1 : lines[i].form \in {"line", "junk"}

\* The file begins with a chain of whole lines.
Holds(lines, chain) ==
    /\ Len(chain) <= Len(lines) /\ Whole(lines, Len(chain))
    /\ SubSeq(Bodies(lines), 1, Len(chain)) = chain

\* What a process may do to the file at any time, also beside others.
Careful(w) ==
    /\ w.pc \in Away => w.sequence = 0 /\ w.previous = <<>>
    /\ w.pc \in {"reading", "sealing", "signing"} => w.body \in State
    /\ w.pc = "truncating" => Len(acked) <= w.sequence /\ SubSeq(w.previous, 1, Len(acked)) = acked

\* What holds whatever befell the archive.
Lasting ==
    /\ created \in BOOLEAN /\ sound \in BOOLEAN /\ faults \in 0..MaxFaults /\ proc \in [Process -> Writer]
    /\ manifest \in {Absent, Torn} \cup Seals
    /\ events \in Seq(Lines) /\ Ended(events)
    /\ acked \in Seq(Body) /\ Holds(events, acked)
    /\ ~created => events = <<>> /\ manifest = Absent /\ \A p \in Process : proc[p].pc = "off"
    /\ created /\ Session \in Process => proc[Session].pc # "off"
    /\ \A p \in Process : Careful(proc[p])

\* The lines before a torn tail.
Kept(lines) == IF lines # <<>> /\ lines[Len(lines)].form = "torn" THEN Len(lines) - 1 ELSE Len(lines)

\* What a process knows of the file as long as it is alone with it.
Knows(lines, w) ==
    /\ w.pc \in {"idle", "checking", "writing"} =>
          Kept(lines) = Len(lines) /\ w.sequence = Len(lines) /\ w.previous = Bodies(lines)
    /\ w.pc = "truncating" =>
          w.sequence = Kept(lines) /\ w.previous = SubSeq(Bodies(lines), 1, Kept(lines))
    /\ w.pc \in {"reading", "sealing", "signing"} =>
          /\ Kept(lines) = Len(lines) /\ w.sequence = Len(lines) /\ w.previous = Bodies(lines)
          /\ Len(lines) > 0 /\ lines[Len(lines)].body = w.body
    /\ w.pc \in {"sealing", "signing"} => w.seen = lines

Sealed(lines, seal) ==
    /\ Len(lines) > 0 /\ Kept(lines) = Len(lines) /\ lines[Len(lines)].body \in State
    /\ seal = [form |-> "seal", bytes |-> lines, count |-> Len(lines), head |-> Bodies(lines),
               state |-> lines[Len(lines)].body]

\* The manifest beside a process at work.
Held(place) == IF place = "signing" THEN Torn ELSE Absent

\* What holds besides as long as the archive is sound.
Soundness ==
    /\ Whole(events, Kept(events))
    /\ manifest \in {Absent, Torn} \/ Sealed(events, manifest)
    /\ \A p \in Process : proc[p].pc \in Busy => manifest = Held(proc[p].pc)
    /\ \A p, q \in Process : proc[p].pc \in Busy /\ proc[q].pc \in Busy => p = q
    /\ \A p \in Process : Knows(events, proc[p])

ArchiveInv == Lasting /\ (sound => Soundness)

-----------------------------------------------------------------------------
(* Lines and their bodies.                                                 *)

LEMMA BodiesAre ==
    ASSUME NEW lines \in Seq(Lines)
    PROVE  /\ Bodies(lines) \in Seq(Body) /\ Len(Bodies(lines)) = Len(lines)
           /\ \A i \in 1..Len(lines) : Bodies(lines)[i] = lines[i].body
<1>1. Len(lines) \in Nat /\ DOMAIN lines = 1..Len(lines)
  BY LenProperties
<1>2. \A i \in 1..Len(lines) : lines[i].body \in Body
  <2>1. \A i \in 1..Len(lines) : lines[i] \in Lines
    BY ElementOfSeq
  <2> QED
    BY <2>1 DEF Lines
<1>3. Bodies(lines) = [i \in 1..Len(lines) |-> lines[i].body]
  BY <1>1 DEF Bodies
<1>4. Bodies(lines) \in [1..Len(lines) -> Body]
  BY <1>2, <1>3
<1>5. Bodies(lines) \in Seq(Body)
  BY <1>1, <1>4, SeqDef
<1>6. DOMAIN Bodies(lines) = 1..Len(lines) /\ DOMAIN Bodies(lines) = 1..Len(Bodies(lines)) /\ Len(Bodies(lines)) \in Nat
  BY <1>3, <1>5, LenProperties
<1> QED
  BY <1>1, <1>3, <1>5, <1>6

LEMMA PrefixOfBodies ==
    ASSUME NEW lines \in Seq(Lines), NEW n \in 0..Len(lines)
    PROVE  /\ SubSeq(Bodies(lines), 1, n) \in Seq(Body) /\ Len(SubSeq(Bodies(lines), 1, n)) = n
           /\ \A i \in 1..n : SubSeq(Bodies(lines), 1, n)[i] = lines[i].body
<1>1. /\ Bodies(lines) \in Seq(Body) /\ Len(Bodies(lines)) = Len(lines) /\ Len(lines) \in Nat
      /\ \A i \in 1..Len(lines) : Bodies(lines)[i] = lines[i].body
  BY BodiesAre, LenProperties
<1>2. \A i \in 1..n : Bodies(lines)[i] \in Body
  BY <1>1, ElementOfSeq
<1>3. /\ SubSeq(Bodies(lines), 1, n) \in Seq(Body)
      /\ Len(SubSeq(Bodies(lines), 1, n)) = IF 1 <= n THEN n - 1 + 1 ELSE 0
      /\ \A i \in 1..n - 1 + 1 : SubSeq(Bodies(lines), 1, n)[i] = Bodies(lines)[1 + i - 1]
  BY <1>1, <1>2, SubSeqProperties
<1> QED
  BY <1>1, <1>3

\* Two files that agree on their first lines have the same bodies there.
LEMMA SamePrefix ==
    ASSUME NEW lines \in Seq(Lines), NEW more \in Seq(Lines), NEW n \in 0..Len(lines), n <= Len(more),
           \A i \in 1..n : lines[i] = more[i]
    PROVE  SubSeq(Bodies(lines), 1, n) = SubSeq(Bodies(more), 1, n)
<1> DEFINE a == SubSeq(Bodies(lines), 1, n)
           b == SubSeq(Bodies(more), 1, n)
<1>1. n \in 0..Len(more)
  BY LenProperties
<1>2. a \in Seq(Body) /\ b \in Seq(Body) /\ Len(a) = n /\ Len(b) = n /\ \A i \in 1..n : a[i] = b[i]
  BY <1>1, PrefixOfBodies
<1> QED
  BY <1>2, SeqEqual

LEMMA WholePrefix ==
    ASSUME NEW lines \in Seq(Lines), NEW more \in Seq(Lines), NEW n \in 0..Len(lines), n <= Len(more),
           \A i \in 1..n : lines[i] = more[i], Whole(lines, n)
    PROVE  Whole(more, n)
<1>1. Len(lines) \in Nat /\ Len(more) \in Nat
  BY LenProperties
<1>2. ASSUME NEW i \in 1..n PROVE SubSeq(Bodies(lines), 1, i - 1) = SubSeq(Bodies(more), 1, i - 1)
  <2>1. i - 1 \in 0..Len(lines) /\ i - 1 <= Len(more) /\ \A j \in 1..i - 1 : lines[j] = more[j]
    BY <1>1
  <2> QED
    BY <2>1, SamePrefix
<1> QED
  BY <1>1, <1>2 DEF Whole, Chained

LEMMA AppendLine ==
    ASSUME NEW lines \in Seq(Lines), NEW line \in Lines
    PROVE  /\ Append(lines, line) \in Seq(Lines) /\ Len(Append(lines, line)) = Len(lines) + 1
           /\ \A i \in 1..Len(lines) : lines[i] = Append(lines, line)[i]
           /\ Append(lines, line)[Len(lines) + 1] = line /\ Len(lines) \in Nat
           /\ SubSeq(Bodies(Append(lines, line)), 1, Len(lines)) = Bodies(lines)
           /\ Bodies(Append(lines, line)) = Append(Bodies(lines), line.body)
<1> DEFINE more == Append(lines, line)
<1> HIDE DEF more
<1>1. /\ more \in Seq(Lines) /\ Len(more) = Len(lines) + 1 /\ Len(lines) \in Nat
      /\ \A i \in 1..Len(lines) : lines[i] = more[i]
      /\ more[Len(lines) + 1] = line
  BY AppendProperties, LenProperties DEF more
<1>2. Bodies(lines) \in Seq(Body) /\ Len(Bodies(lines)) = Len(lines) /\ line.body \in Body
  BY BodiesAre DEF Lines
<1>3. SubSeq(Bodies(lines), 1, Len(lines)) = SubSeq(Bodies(more), 1, Len(lines))
  <2>1. Len(lines) \in 0..Len(lines) /\ Len(lines) <= Len(more)
    BY <1>1
  <2> QED
    BY <1>1, <2>1, SamePrefix
<1>4. SubSeq(Bodies(lines), 1, Len(lines)) = Bodies(lines)
  BY <1>2, SubSeqFull
<1>5. Bodies(more) = Append(Bodies(lines), line.body)
  <2> DEFINE b == Append(Bodies(lines), line.body)
  <2>1. /\ b \in Seq(Body) /\ Len(b) = Len(lines) + 1 /\ b[Len(lines) + 1] = line.body
        /\ \A i \in 1..Len(lines) : b[i] = Bodies(lines)[i]
    BY <1>2, AppendProperties
  <2>2. /\ Bodies(more) \in Seq(Body) /\ Len(Bodies(more)) = Len(lines) + 1
        /\ \A i \in 1..Len(lines) + 1 : Bodies(more)[i] = more[i].body
    BY <1>1, BodiesAre
  <2>3. \A i \in 1..Len(lines) : Bodies(lines)[i] = lines[i].body
    BY BodiesAre
  <2>4. ASSUME NEW i \in 1..Len(lines) + 1 PROVE Bodies(more)[i] = b[i]
    <3>1. i \in 1..Len(lines) \/ i = Len(lines) + 1
      BY <1>1
    <3>2. Bodies(more)[i] = more[i].body
      BY <2>2
    <3> QED
      BY <1>1, <2>1, <2>3, <3>1, <3>2, Zenon
  <2> QED
    BY <2>1, <2>2, <2>4, SeqEqual
<1> QED
  BY <1>1, <1>3, <1>4, <1>5 DEF more

\* The head of a file.
LEMMA HeadOfFile ==
    ASSUME NEW lines \in Seq(Lines), NEW n \in 0..Len(lines)
    PROVE  /\ SubSeq(lines, 1, n) \in Seq(Lines) /\ Len(SubSeq(lines, 1, n)) = n
           /\ \A i \in 1..n : lines[i] = SubSeq(lines, 1, n)[i]
           /\ Bodies(SubSeq(lines, 1, n)) = SubSeq(Bodies(lines), 1, n)
<1> DEFINE head == SubSeq(lines, 1, n)
<1>1. Len(lines) \in Nat /\ \A i \in 1..n : lines[i] \in Lines
  BY LenProperties, ElementOfSeq
<1>2. /\ head \in Seq(Lines) /\ Len(head) = IF 1 <= n THEN n - 1 + 1 ELSE 0
      /\ \A i \in 1..n - 1 + 1 : head[i] = lines[1 + i - 1]
  BY <1>1, SubSeqProperties
<1>3. Len(head) = n /\ \A i \in 1..n : lines[i] = head[i]
  BY <1>1, <1>2
<1> HIDE DEF head
<1>4. SubSeq(Bodies(lines), 1, n) = SubSeq(Bodies(head), 1, n)
  <2>1. n <= Len(head)
    BY <1>3
  <2> QED
    BY <1>2, <1>3, <2>1, SamePrefix
<1>5. Bodies(head) \in Seq(Body) /\ Len(Bodies(head)) = n
  BY <1>2, <1>3, BodiesAre
<1> QED
  BY <1>2, <1>3, <1>4, <1>5, SubSeqFull DEF head

-----------------------------------------------------------------------------
(* The verifiable prefix.                                                  *)

LEMMA MaxIs ==
    ASSUME NEW S \in SUBSET Int, NEW m \in S, \A n \in S : n <= m
    PROVE  Max(S) = m
<1>1. \E x \in S : \A y \in S : x >= y
  BY SMT
<1>2. Max(S) \in S /\ \A y \in S : Max(S) >= y
  BY <1>1, Zenon DEF Max
<1>3. Max(S) \in Int /\ m \in Int /\ Max(S) >= m /\ Max(S) <= m
  BY <1>2
<1> QED
  BY <1>3

\* A set of numbers up to a bound has a greatest.
LEMMA Greatest ==
    ASSUME NEW N \in Nat, NEW S \in SUBSET (0..N), S # {}
    PROVE  Max(S) \in S /\ \A n \in S : n <= Max(S)
<1> DEFINE T == {k \in Nat : \E n \in S : k = N - n}
<1>1. T # {}
  <2>1. PICK n \in S : TRUE
    OBVIOUS
  <2>2. n \in 0..N /\ N - n \in Nat
    OBVIOUS
  <2> QED
    BY <2>2
<1>2. PICK k \in T : \A y \in T : ~(<<y, k>> \in OpToRel(<, Nat))
  <2>1. T \subseteq Nat
    OBVIOUS
  <2> HIDE DEF T
  <2> QED
    BY <1>1, <2>1, NatLessThanWellFounded, WFMin
<1>3. \A y \in T : ~(y < k)
  BY <1>2 DEF OpToRel
<1>4. PICK m \in S : k = N - m
  BY <1>2
<1>5. ASSUME NEW n \in S PROVE n <= m
  <2>1. n \in 0..N /\ m \in 0..N /\ N - n \in T
    OBVIOUS
  <2>2. ~(N - n < k)
    BY <1>3, <2>1
  <2> QED
    BY <1>4, <2>1, <2>2
<1>6. S \in SUBSET Int
  OBVIOUS
<1>7. Max(S) = m
  BY <1>4, <1>5, <1>6, MaxIs
<1> QED
  BY <1>4, <1>5, <1>7

LEMMA LesserIs ==
    ASSUME NEW a \in Nat, NEW b \in Nat
    PROVE  Min({a, b}) = IF a <= b THEN a ELSE b
<1> DEFINE m == IF a <= b THEN a ELSE b
<1>1. m \in {a, b} /\ m \in Int /\ \A n \in {a, b} : m <= n
  OBVIOUS
<1>2. Min({a, b}) \in {a, b} /\ \A n \in {a, b} : Min({a, b}) <= n
  <2> DEFINE S == {a, b}
  <2>1. \E x \in S : \A y \in S : x <= y
    BY <1>1
  <2> HIDE DEF S
  <2>2. Min(S) \in S /\ \A y \in S : Min(S) <= y
    BY <2>1, Zenon DEF Min
  <2> QED
    BY <2>2 DEF S
<1> QED
  BY <1>1, <1>2

-----------------------------------------------------------------------------
(* What lasts: the chain that was acknowledged.                            *)

LEMMA HoldsOn ==
    ASSUME NEW lines \in Seq(Lines), NEW more \in Seq(Lines), NEW chain \in Seq(Body),
           Holds(lines, chain), Len(chain) <= Len(more),
           \A i \in 1..Len(chain) : lines[i] = more[i]
    PROVE  Holds(more, chain)
<1>1. Len(chain) \in 0..Len(lines)
  BY LenProperties DEF Holds
<1>2. Whole(more, Len(chain))
  BY <1>1, WholePrefix DEF Holds
<1>3. SubSeq(Bodies(lines), 1, Len(chain)) = SubSeq(Bodies(more), 1, Len(chain))
  BY <1>1, SamePrefix
<1> QED
  BY <1>2, <1>3 DEF Holds

\* Whole lines stay whatever bytes follow.
LEMMA JoinedKeeps ==
    ASSUME NEW lines \in Seq(Lines), Ended(lines), NEW line \in Lines, NEW n \in 0..Len(lines),
           \A i \in 1..n : lines[i].form = "line"
    PROVE  /\ Joined(lines, line) \in Seq(Lines) /\ Ended(Joined(lines, line))
           /\ n <= Len(Joined(lines, line)) /\ \A i \in 1..n : lines[i] = Joined(lines, line)[i]
<1> DEFINE more == Joined(lines, line)
<1>1. Len(lines) \in Nat /\ (lines # <<>> => Len(lines) > 0) /\ \A i \in 1..Len(lines) : lines[i] \in Lines
  BY LenProperties, EmptySeq, ElementOfSeq
<1>2. CASE lines # <<>> /\ lines[Len(lines)].form \in {"bare", "torn"}
  <2> DEFINE last == [lines[Len(lines)] EXCEPT !.form = IF line.form = "line" THEN "junk" ELSE "torn"]
             head == SubSeq(lines, 1, Len(lines) - 1)
  <2>1. last \in Lines
    <3>1. lines[Len(lines)] \in Lines
      BY <1>1, <1>2
    <3> QED
      BY <3>1 DEF Lines
  <2>2. /\ head \in Seq(Lines) /\ Len(head) = Len(lines) - 1
        /\ \A i \in 1..Len(lines) - 1 : lines[i] = head[i]
    <3>1. Len(lines) - 1 \in 0..Len(lines)
      BY <1>1, <1>2
    <3> QED
      BY <3>1, HeadOfFile
  <2>3. more = Append(head, last)
    BY <1>2 DEF Joined, Front, Last
  <2>4. n <= Len(lines) - 1
    BY <1>1, <1>2
  <2> HIDE DEF more, head, last
  <2>5. /\ more \in Seq(Lines) /\ Len(more) = Len(lines)
        /\ \A i \in 1..Len(lines) - 1 : head[i] = more[i]
    BY <1>1, <2>1, <2>2, <2>3, AppendLine
  <2>6. \A i \in 1..Len(lines) - 1 : lines[i] = more[i]
    BY <2>2, <2>5
  <2>7. Ended(more)
    BY <2>5, <2>6 DEF Ended
  <2> QED
    BY <1>1, <2>4, <2>5, <2>6, <2>7 DEF more
<1>3. CASE ~(lines # <<>> /\ lines[Len(lines)].form \in {"bare", "torn"})
  <2>1. more = Append(lines, line)
    BY <1>3 DEF Joined, Last
  <2> HIDE DEF more
  <2>2. /\ more \in Seq(Lines) /\ Len(more) = Len(lines) + 1
        /\ \A i \in 1..Len(lines) : lines[i] = more[i]
    BY <2>1, AppendLine
  <2>3. ASSUME NEW i \in 1..Len(lines) PROVE lines[i].form \in {"line", "junk"}
    <3>1. CASE i = Len(lines)
      <4>1. lines # <<>> /\ lines[i].form \notin {"bare", "torn"}
        BY <1>1, <1>3, <3>1, EmptySeq
      <4>2. lines[i] \in Lines
        BY <1>1
      <4> QED
        BY <4>1, <4>2 DEF Lines
    <3>2. CASE i # Len(lines)
      BY <1>1, <3>2 DEF Ended
    <3> QED
      BY <3>1, <3>2
  <2>4. Ended(more)
    BY <1>1, <2>2, <2>3 DEF Ended
  <2> QED
    BY <1>1, <2>2, <2>4 DEF more
<1> QED
  BY <1>2, <1>3

LEMMA LastingTypes ==
    ASSUME Lasting, NEW p \in Process
    PROVE  /\ proc[p] \in Writer /\ proc[p].pc \in Away \cup Busy /\ proc[p].sequence \in Nat
           /\ proc[p].previous \in Seq(Body) /\ proc[p].body \in Body /\ proc[p].seen \in Seq(Lines)
           /\ Careful(proc[p]) /\ events \in Seq(Lines) /\ Len(events) \in Nat /\ Ended(events)
           /\ acked \in Seq(Body) /\ Len(acked) \in 0..Len(events) /\ Holds(events, acked)
           /\ \A i \in 1..Len(acked) : events[i].form = "line"
           /\ sound \in BOOLEAN /\ faults \in 0..MaxFaults /\ created \in BOOLEAN
<1>1. proc[p] \in Writer /\ Len(events) \in Nat /\ Len(acked) \in Nat
  BY LenProperties DEF Lasting
<1> QED
  BY <1>1 DEF Lasting, Writer, Holds, Whole

\* A file that keeps the acknowledged records.
Keeps(lines) == lines \in Seq(Lines) /\ Ended(lines) /\ Holds(lines, acked)

LEMMA JoinedHolds ==
    ASSUME Lasting, NEW p \in Process, NEW form \in {"line", "bare", "torn"}, NEW n \in Len(acked)..Len(events)
    PROVE  /\ Keeps(SubSeq(events, 1, n)) /\ Keeps(Joined(SubSeq(events, 1, n), NextLine(p, form)))
           /\ Keeps(Joined(events, NextLine(p, form)))
<1> USE LastingTypes
<1> DEFINE head == SubSeq(events, 1, n)
           line == NextLine(p, form)
           k == Len(acked)
<1>1. line \in Lines
  BY DEF NextLine, Line, Lines
<1>2. n \in 0..Len(events) /\ k \in 0..n
  OBVIOUS
<1>3. /\ head \in Seq(Lines) /\ Len(head) = n
      /\ \A i \in 1..n : events[i] = head[i]
  BY <1>2, HeadOfFile
<1> HIDE DEF head, line
<1>4. Ended(head)
  <2>1. \A i \in 1..n - 1 : i \in 1..Len(events) - 1 /\ i \in 1..n
    BY <1>2
  <2> QED
    BY <1>3, <2>1 DEF Ended
<1>5. \A i \in 1..k : events[i] = head[i]
  BY <1>2, <1>3
<1>6. Holds(head, acked)
  BY <1>2, <1>3, <1>5, HoldsOn
<1>7. \A i \in 1..k : head[i].form = "line"
  BY <1>5
<1>8. /\ Joined(head, line) \in Seq(Lines) /\ Ended(Joined(head, line)) /\ k <= Len(Joined(head, line))
      /\ \A i \in 1..k : head[i] = Joined(head, line)[i]
  BY <1>1, <1>2, <1>3, <1>4, <1>7, JoinedKeeps
<1>9. Holds(Joined(head, line), acked)
  BY <1>3, <1>6, <1>8, HoldsOn
<1>10. /\ Joined(events, line) \in Seq(Lines) /\ Ended(Joined(events, line)) /\ k <= Len(Joined(events, line))
       /\ \A i \in 1..k : events[i] = Joined(events, line)[i]
  BY <1>1, JoinedKeeps
<1>11. Holds(Joined(events, line), acked)
  BY <1>10, HoldsOn
<1> QED
  BY <1>3, <1>4, <1>6, <1>8, <1>9, <1>10, <1>11 DEF Keeps, head, line

LEMMA CutKeeps ==
    ASSUME Lasting, NEW p \in Process, NEW lines \in Cut(p)
    PROVE  Keeps(lines)
<1>1. Keeps(events)
  BY LastingTypes DEF Keeps
<1>2. Len(events) \in Len(acked)..Len(events)
  BY LastingTypes
<1> QED
  BY <1>1, <1>2, JoinedHolds DEF Cut

LEMMA CommonIs ==
    ASSUME Lasting, NEW p \in Process, proc[p].pc = "truncating"
    PROVE  Common(p) \in Len(acked)..Len(events) /\ Common(p) <= proc[p].sequence
<1> USE LastingTypes
<1> DEFINE w == proc[p]
           least == Min({w.sequence, Len(events)})
           S == {n \in 0..least : Whole(events, n) /\ SubSeq(Bodies(events), 1, n) = SubSeq(w.previous, 1, n)}
<1>1. least \in Nat /\ least <= w.sequence /\ least <= Len(events) /\ (least = w.sequence \/ least = Len(events))
  <2>1. w.sequence \in Nat /\ Len(events) \in Nat
    OBVIOUS
  <2>2. least = IF w.sequence <= Len(events) THEN w.sequence ELSE Len(events)
    BY <2>1, LesserIs, Zenon
  <2> HIDE DEF least
  <2> QED
    BY <2>1, <2>2
<1>2. Len(acked) <= w.sequence /\ SubSeq(w.previous, 1, Len(acked)) = acked
  BY DEF Careful
<1>3. Len(acked) \in S
  <2> HIDE DEF least
  <2> QED
    BY <1>1, <1>2 DEF Holds
<1>4. Common(p) = Max(S)
  BY DEF Common
<1>5. S \in SUBSET (0..least) /\ S # {}
  BY <1>3
<1> HIDE DEF S, least
<1>6. Max(S) \in S /\ \A n \in S : n <= Max(S)
  BY <1>1, <1>5, Greatest
<1>7. Max(S) \in 0..least /\ Len(acked) <= Max(S)
  BY <1>3, <1>5, <1>6
<1> QED
  BY <1>1, <1>4, <1>7

LEMMA TruncationKeeps ==
    ASSUME Lasting, NEW p \in Process, proc[p].pc = "truncating", NEW lines \in CutAtPrefix(p)
    PROVE  Keeps(lines)
<1>1. Common(p) \in Len(acked)..Len(events) /\ Len(events) \in Nat /\ Len(acked) \in Nat
  BY CommonIs, LastingTypes
<1>2. CASE Common(p) = proc[p].sequence
  BY <1>1, <1>2, JoinedHolds DEF CutAtPrefix
<1>3. CASE Common(p) # proc[p].sequence
  <2>1. PICK n \in Common(p)..Len(events) :
            lines \in {SubSeq(events, 1, n), Joined(SubSeq(events, 1, n), NextLine(p, "torn"))}
    BY <1>3 DEF CutAtPrefix
  <2>2. n \in Len(acked)..Len(events)
    BY <1>1
  <2> QED
    BY <2>1, <2>2, JoinedHolds
<1> QED
  BY <1>2, <1>3

\* The acknowledged chain is of the prefix that verifies.
LEMMA AckedIsValid ==
    ASSUME Lasting
    PROVE  ValidPrefix(events) \in Len(acked)..Len(events) /\ Chained(events, ValidPrefix(events))
<1> DEFINE S == {n \in 0..Len(events) : Chained(events, n)}
<1>1. Len(events) \in Nat /\ Len(acked) \in 0..Len(events) /\ Chained(events, Len(acked))
  BY LenProperties DEF Lasting, Holds, Whole
<1>2. Len(acked) \in S /\ S \in SUBSET (0..Len(events))
  BY <1>1
<1>3. ValidPrefix(events) = Max(S)
  BY DEF ValidPrefix
<1> HIDE DEF S
<1>4. Max(S) \in S /\ Len(acked) <= Max(S)
  BY <1>1, <1>2, Greatest
<1> QED
  BY <1>1, <1>3, <1>4 DEF S

-----------------------------------------------------------------------------
(* What lasts, step by step.                                               *)

\* A process at another place, or gone.
Into(w, q) == IF q \in Away THEN [Fresh EXCEPT !.pc = q] ELSE [w EXCEPT !.pc = q]

LEMMA EntersIs ==
    ASSUME Lasting, NEW p \in Process, NEW q \in Away \cup Busy, Enters(p, q)
    PROVE  /\ proc' = [proc EXCEPT ![p] = Into(proc[p], q)] /\ Into(proc[p], q) \in Writer
           /\ Into(proc[p], q).pc = q
           /\ q \in Away => Into(proc[p], q).sequence = 0 /\ Into(proc[p], q).previous = <<>>
           /\ q \notin Away => /\ Into(proc[p], q).sequence = proc[p].sequence
                               /\ Into(proc[p], q).previous = proc[p].previous
                               /\ Into(proc[p], q).body = proc[p].body
                               /\ Into(proc[p], q).seen = proc[p].seen
<1>1. proc[p] \in Writer /\ proc \in [Process -> Writer]
  BY DEF Lasting
<1>2. Fresh \in Writer /\ Fresh.sequence = 0 /\ Fresh.previous = <<>>
  BY DEF Fresh, Writer, Away, Body
<1>3. CASE q \in Away
  <2>1. Into(proc[p], q) = [Fresh EXCEPT !.pc = q] /\ proc' = [proc EXCEPT ![p] = [Fresh EXCEPT !.pc = q]]
    BY <1>3 DEF Enters, Into
  <2> HIDE DEF Fresh
  <2> QED
    BY <1>2, <1>3, <2>1 DEF Writer
<1>4. CASE q \notin Away
  <2>1. Into(proc[p], q) = [proc[p] EXCEPT !.pc = q] /\ proc' = [proc EXCEPT ![p] = [proc[p] EXCEPT !.pc = q]]
    BY <1>1, <1>4 DEF Enters, Into
  <2> QED
    BY <1>1, <1>4, <2>1 DEF Writer
<1> QED
  BY <1>3, <1>4

\* A step of one process that leaves what was acknowledged.
LEMMA Lasts ==
    ASSUME Lasting, NEW p \in Process, NEW w \in Writer, Careful(w), w.pc # "off",
           proc' = [proc EXCEPT ![p] = w], created' = TRUE, created \/ p = Session,
           manifest' \in {Absent, Torn} \cup Seals, sound' \in BOOLEAN, faults' \in 0..MaxFaults,
           acked' = acked, Keeps(events')
    PROVE  Lasting'
<1>1. \A q \in Process : proc'[q] = IF q = p THEN w ELSE proc[q]
  BY DEF Lasting
<1>2. proc' \in [Process -> Writer]
  BY DEF Lasting
<1>3. \A q \in Process : Careful(proc'[q])
  BY <1>1 DEF Lasting
<1>4. \A q \in Process : Careful(proc[q])'
  BY <1>3 DEF Careful
<1>5. Session \in Process => proc'[Session].pc # "off"
  BY <1>1 DEF Lasting
<1>6. events' \in Seq(Lines) /\ Ended(events)' /\ Holds(events, acked)'
  BY DEF Keeps, Ended, Holds, Whole, Chained, Bodies
<1> QED
  BY <1>2, <1>4, <1>5, <1>6 DEF Lasting

LEMMA Present ==
    ASSUME Lasting, NEW p \in Process
    PROVE  /\ proc[p].pc # "off" => created
           /\ Keeps(events) /\ manifest \in {Absent, Torn} \cup Seals
           /\ "closed" \in Away \cup Busy /\ (\A q \in Busy : q \in Away \cup Busy /\ q \notin Away /\ q # "off")
           /\ sound \in BOOLEAN /\ faults \in 0..MaxFaults /\ MaxFaults \in Nat
BY LastingTypes, ArchiveBounds DEF Lasting, Keeps, Away, Busy

\* A process that goes elsewhere without what only a truncation or a settlement has.
LEMMA LastsInto ==
    ASSUME Lasting, NEW p \in Process, NEW q \in Busy \cup {"closed"}, Enters(p, q),
           q # "truncating", q \in {"reading", "sealing", "signing"} => proc[p].body \in State,
           created' = TRUE, created \/ p = Session,
           manifest' \in {Absent, Torn} \cup Seals, sound' \in BOOLEAN, faults' \in 0..MaxFaults,
           acked' = acked, Keeps(events')
    PROVE  Lasting'
<1>1. q \in Away \cup Busy /\ q # "off"
  BY Present
<1>2. /\ proc' = [proc EXCEPT ![p] = Into(proc[p], q)] /\ Into(proc[p], q) \in Writer
      /\ Into(proc[p], q).pc = q
      /\ q \in Away => Into(proc[p], q).sequence = 0 /\ Into(proc[p], q).previous = <<>>
      /\ q \notin Away => Into(proc[p], q).body = proc[p].body
  BY <1>1, EntersIs
<1>3. Careful(Into(proc[p], q))
  BY <1>2 DEF Careful, Away
<1> QED
  BY <1>1, <1>2, <1>3, Lasts

LEMMA LastingWrites ==
    ASSUME Lasting, NEW p \in Process, NEW body \in Body, Writes(p, body), proc[p].pc # "off"
    PROVE  Lasting'
<1> USE Present, LastingTypes
<1>1. UNCHANGED <<created, events, manifest, acked, sound, faults>> /\ created
  BY DEF Writes
<1>2. CASE manifest = Absent
  <2> DEFINE w == [proc[p] EXCEPT !.pc = "writing", !.body = body]
  <2>1. proc' = [proc EXCEPT ![p] = w]
    BY <1>2 DEF Writes, Lasting
  <2>2. w \in Writer /\ w.pc = "writing"
    BY DEF Writer, Busy
  <2>3. Careful(w) /\ w.pc # "off"
    BY <2>2 DEF Careful, Away
  <2> QED
    BY <1>1, <2>1, <2>2, <2>3, Lasts
<1>3. CASE manifest # Absent
  <2>1. Enters(p, "closed")
    BY <1>3 DEF Writes
  <2> QED
    BY <1>1, <2>1, LastsInto
<1> QED
  BY <1>2, <1>3

LEMMA LastingSession ==
    ASSUME Lasting, NEW p \in Process,
           \/ BeginRun(p) \/ StartAppend(p) \/ (\E s \in Settled : StartSettle(p, s)) \/ CheckUnsealed(p)
           \/ WriteFails(p) \/ ReadBack(p) \/ OpenManifest(p) \/ WriteManifest(p)
    PROVE  Lasting'
<1> USE Present, LastingTypes
<1>1. CASE BeginRun(p)
  <2>1. /\ Enters(p, "idle") /\ p = Session /\ created' = TRUE
        /\ UNCHANGED <<events, manifest, acked, sound, faults>> /\ "idle" \in Busy
    BY <1>1 DEF BeginRun, Busy
  <2> QED
    BY <2>1, LastsInto
<1>2. CASE StartAppend(p)
  <2>1. Writes(p, "event") /\ proc[p].pc # "off" /\ "event" \in Body
    BY <1>2 DEF StartAppend, Body
  <2> QED
    BY <2>1, LastingWrites
<1>3. ASSUME NEW s \in Settled, StartSettle(p, s) PROVE Lasting'
  <2>1. Writes(p, s) /\ proc[p].pc # "off" /\ s \in Body
    BY <1>3, SettledAssumption DEF StartSettle, Body, State
  <2> QED
    BY <2>1, LastingWrites
<1>4. CASE CheckUnsealed(p)
  <2>1. Writes(p, "interrupted") /\ proc[p].pc # "off" /\ "interrupted" \in Body
    BY <1>4 DEF CheckUnsealed, Body, State
  <2> QED
    BY <2>1, LastingWrites
<1>5. CASE WriteFails(p)
  <2>1. /\ Enters(p, "idle") /\ "idle" \in Busy /\ created /\ UNCHANGED <<created, manifest, acked>>
        /\ sound' \in BOOLEAN /\ faults' \in 0..MaxFaults /\ events' \in Cut(p)
    BY <1>5 DEF WriteFails, Busy
  <2>2. Keeps(events')
    BY <2>1, CutKeeps
  <2> QED
    BY <2>1, <2>2, LastsInto
<1>6. CASE ReadBack(p)
  <2> DEFINE w == [proc[p] EXCEPT !.pc = "sealing", !.seen = events]
  <2>1. /\ proc' = [proc EXCEPT ![p] = w] /\ created /\ proc[p].body \in State
        /\ UNCHANGED <<created, events, manifest, acked, sound, faults>>
    BY <1>6 DEF ReadBack, Careful, Lasting
  <2>2. w \in Writer /\ w.pc = "sealing" /\ w.body = proc[p].body
    BY DEF Writer, Busy
  <2>3. Careful(w) /\ w.pc # "off"
    BY <2>1, <2>2 DEF Careful, Away
  <2> QED
    BY <2>1, <2>2, <2>3, Lasts
<1>7. CASE OpenManifest(p)
  <2>1. /\ Enters(p, "signing") /\ "signing" \in Busy /\ created /\ UNCHANGED <<created, events, acked, sound, faults>>
        /\ manifest' = Torn /\ proc[p].body \in State
    BY <1>7 DEF OpenManifest, Busy, Careful
  <2> QED
    BY <2>1, LastsInto
<1>8. CASE WriteManifest(p)
  <2>1. /\ Enters(p, "closed") /\ created /\ UNCHANGED <<created, events, acked, sound, faults>>
        /\ manifest' \in {SealOf(p), Torn} /\ proc[p].body \in State
    BY <1>8 DEF WriteManifest, Careful
  <2>2. SealOf(p) \in Seals
    BY <2>1 DEF SealOf, Seals
  <2> QED
    BY <2>1, <2>2, LastsInto
<1> QED
  BY <1>1, <1>2, <1>3, <1>4, <1>5, <1>6, <1>7, <1>8

\* What was scanned begins with what was acknowledged.
LEMMA ScannedIs ==
    ASSUME Lasting
    PROVE  LET n == ValidPrefix(events)
               chain == SubSeq(Bodies(events), 1, n)
           IN  /\ n \in Nat /\ chain \in Seq(Body) /\ Len(acked) <= n /\ SubSeq(chain, 1, Len(acked)) = acked
<1> DEFINE n == ValidPrefix(events)
           chain == SubSeq(Bodies(events), 1, n)
           head == SubSeq(events, 1, n)
<1>1. n \in Len(acked)..Len(events) /\ Len(events) \in Nat /\ Len(acked) \in Nat /\ events \in Seq(Lines)
      /\ SubSeq(Bodies(events), 1, Len(acked)) = acked
  BY AckedIsValid, LenProperties DEF Lasting, Holds
<1> HIDE DEF n
<1>2. n \in 0..Len(events)
  BY <1>1
<1>3. /\ head \in Seq(Lines) /\ Len(head) = n /\ Bodies(head) = chain
      /\ \A i \in 1..n : events[i] = head[i]
  BY <1>1, <1>2, HeadOfFile
<1>4. chain \in Seq(Body)
  BY <1>1, <1>2, PrefixOfBodies
<1> HIDE DEF head, chain
<1>5. SubSeq(Bodies(events), 1, Len(acked)) = SubSeq(Bodies(head), 1, Len(acked))
  <2>1. Len(acked) \in 0..Len(events) /\ Len(acked) <= Len(head) /\ \A i \in 1..Len(acked) : events[i] = head[i]
    BY <1>1, <1>3
  <2> QED
    BY <1>1, <1>3, <2>1, SamePrefix
<1>6. n \in Nat /\ chain \in Seq(Body) /\ Len(acked) <= n /\ SubSeq(chain, 1, Len(acked)) = acked
  BY <1>1, <1>2, <1>3, <1>4, <1>5
<1> QED
  BY <1>6 DEF n, chain

LEMMA LastingRecovery ==
    ASSUME Lasting, NEW p \in Process, Open(p) \/ Scan(p) \/ Truncate(p) \/ Crash(p)
    PROVE  Lasting'
<1> USE Present, LastingTypes
<1>1. CASE Open(p)
  <2>1. PICK q \in {"scanning", "closed"} : Enters(p, q)
    BY <1>1 DEF Open, Opens
  <2>2. /\ q \in Busy \cup {"closed"} /\ q # "truncating" /\ q \notin {"reading", "sealing", "signing"}
        /\ created /\ UNCHANGED <<created, events, manifest, acked, faults>> /\ sound' \in BOOLEAN
    BY <1>1 DEF Open, Opens, Busy
  <2> QED
    BY <2>1, <2>2, LastsInto
<1>2. CASE Scan(p)
  <2> DEFINE n == ValidPrefix(events)
             chain == SubSeq(Bodies(events), 1, n)
             q == IF n < Len(events) THEN "truncating" ELSE "checking"
             w == [proc[p] EXCEPT !.pc = q, !.sequence = n, !.previous = chain]
  <2>1. /\ proc' = [proc EXCEPT ![p] = w] /\ created
        /\ UNCHANGED <<created, events, manifest, acked, sound, faults>>
    BY <1>2 DEF Scan, ScanTo, Lasting
  <2>2. n \in Nat /\ chain \in Seq(Body) /\ Len(acked) <= n /\ SubSeq(chain, 1, Len(acked)) = acked
    BY ScannedIs
  <2>3. q \in {"truncating", "checking"} /\ q \in Busy
    BY DEF Busy
  <2> HIDE DEF n, chain, q
  <2>4. w \in Writer /\ w.pc = q /\ w.sequence = n /\ w.previous = chain
    BY <2>2, <2>3 DEF Writer
  <2>5. Careful(w) /\ w.pc # "off"
    BY <2>2, <2>3, <2>4 DEF Careful, Away
  <2> QED
    BY <2>1, <2>4, <2>5, Lasts
<1>3. CASE Truncate(p)
  <2>1. /\ Enters(p, "checking") /\ "checking" \in Busy /\ created /\ events' \in CutAtPrefix(p)
        /\ UNCHANGED <<created, manifest, acked, sound, faults>> /\ proc[p].pc = "truncating"
    BY <1>3 DEF Truncate, Busy
  <2>2. Keeps(events')
    BY <2>1, TruncationKeeps
  <2> QED
    BY <2>1, <2>2, LastsInto
<1>4. CASE Crash(p)
  <2>1. /\ Enters(p, "closed") /\ created /\ events' \in Cut(p) \cup {events} /\ faults' \in 0..MaxFaults
        /\ UNCHANGED <<created, manifest, acked>> /\ sound' \in BOOLEAN
    BY <1>4 DEF Crash, Away
  <2>2. Keeps(events')
    BY <2>1, CutKeeps
  <2> QED
    BY <2>1, <2>2, LastsInto
<1> QED
  BY <1>1, <1>2, <1>3, <1>4

-----------------------------------------------------------------------------
(* What holds as long as the archive is sound.                             *)

LEMMA KeptIsValid ==
    ASSUME NEW lines \in Seq(Lines), Whole(lines, Kept(lines))
    PROVE  /\ Kept(lines) \in 0..Len(lines) /\ Len(lines) \in Nat /\ Len(lines) <= Kept(lines) + 1
           /\ Kept(lines) < Len(lines) => lines[Len(lines)].form = "torn"
           /\ Chained(lines, Kept(lines)) /\ ValidPrefix(lines) = Kept(lines)
<1>1. Len(lines) \in Nat /\ (lines # <<>> => Len(lines) > 0)
  BY LenProperties, EmptySeq
<1>2. /\ Kept(lines) \in 0..Len(lines) /\ Len(lines) <= Kept(lines) + 1
      /\ Kept(lines) < Len(lines) => lines[Len(lines)].form = "torn"
  BY <1>1 DEF Kept
<1>3. Chained(lines, Kept(lines))
  BY DEF Whole
<1> DEFINE S == {n \in 0..Len(lines) : Chained(lines, n)}
<1>4. ASSUME NEW n \in S PROVE n <= Kept(lines)
  <2>1. n \in 0..Len(lines) /\ Chained(lines, n)
    OBVIOUS
  <2>2. ASSUME n > Kept(lines) PROVE FALSE
    <3>1. n = Len(lines) /\ lines[n].form = "torn" /\ n \in 1..n
      BY <1>1, <1>2, <2>1, <2>2
    <3> QED
      BY <2>1, <3>1 DEF Chained
  <2> QED
    BY <1>1, <1>2, <2>1, <2>2
<1>5. Kept(lines) \in S /\ S \in SUBSET Int
  BY <1>1, <1>2, <1>3
<1>6. Max(S) = Kept(lines)
  <2> HIDE DEF S
  <2> QED
    BY <1>4, <1>5, MaxIs
<1> QED
  BY <1>1, <1>2, <1>3, <1>6 DEF ValidPrefix

LEMMA SoundTypes ==
    ASSUME Lasting, Soundness, NEW p \in Process
    PROVE  /\ Kept(events) \in 0..Len(events) /\ Len(events) \in Nat /\ Whole(events, Kept(events))
           /\ ValidPrefix(events) = Kept(events) /\ Knows(events, proc[p])
           /\ proc[p].pc \in Busy => /\ manifest = Held(proc[p].pc) /\ created
                                     /\ \A q \in Process \ {p} : proc[q].pc \notin Busy
<1>1. events \in Seq(Lines) /\ Whole(events, Kept(events))
  BY DEF Lasting, Soundness
<1> QED
  BY <1>1, KeptIsValid DEF Soundness, Lasting, Busy

\* A step of the one process at work, or of one that stays away.
LEMMA Stays ==
    ASSUME Lasting, Soundness, NEW p \in Process, NEW w \in Writer,
           proc' = [proc EXCEPT ![p] = w], Knows(events', w), Whole(events', Kept(events')),
           manifest' \in {Absent, Torn} \/ Sealed(events', manifest'),
           w.pc \in Busy => manifest' = Held(w.pc),
           \/ \A q \in Process \ {p} : proc[q].pc \notin Busy
           \/ w.pc \notin Busy /\ UNCHANGED <<events, manifest>>
    PROVE  Soundness'
<1>1. \A q \in Process : proc'[q] = IF q = p THEN w ELSE proc[q]
  BY DEF Lasting
<1>2. ASSUME NEW q \in Process PROVE Knows(events', proc'[q])
  <2>1. CASE q # p /\ proc[q].pc \in Busy
    BY <1>1, <2>1 DEF Soundness
  <2>2. CASE q # p /\ proc[q].pc \notin Busy
    BY <1>1, <2>2 DEF Knows, Busy
  <2> QED
    BY <1>1, <2>1, <2>2
<1>3. \A q \in Process : proc'[q].pc \in Busy => manifest' = Held(proc'[q].pc)
  BY <1>1 DEF Soundness
<1>4. \A q, r \in Process : proc'[q].pc \in Busy /\ proc'[r].pc \in Busy => q = r
  BY <1>1 DEF Soundness
<1>5. \A q \in Process : Knows(events, proc[q])'
  BY <1>2 DEF Knows, Kept, Bodies
<1>6. /\ Whole(events, Kept(events))'
      /\ (manifest \in {Absent, Torn} \/ Sealed(events, manifest))'
      /\ \A q \in Process : (proc[q].pc \in Busy => manifest = Held(proc[q].pc))'
  BY <1>3 DEF Whole, Chained, Kept, Bodies, Sealed, Held, Absent, Torn
<1> QED
  BY <1>4, <1>5, <1>6 DEF Soundness

\* A step that leaves the files.
LEMMA StaysPut ==
    ASSUME Lasting, Soundness, NEW p \in Process, NEW q \in Busy \cup {"closed"}, Enters(p, q), UNCHANGED <<events, manifest>>,
           Knows(events, Into(proc[p], q)),
           q # "closed" => (\A r \in Process \ {p} : proc[r].pc \notin Busy) /\ manifest = Held(q)
    PROVE  Soundness'
<1>1. proc' = [proc EXCEPT ![p] = Into(proc[p], q)] /\ Into(proc[p], q) \in Writer /\ Into(proc[p], q).pc = q
  BY EntersIs, Present
<1>2. q = "closed" => q \notin Busy
  BY DEF Busy
<1>3. /\ Knows(events', Into(proc[p], q)) /\ Whole(events', Kept(events'))
      /\ manifest' \in {Absent, Torn} \/ Sealed(events', manifest')
  BY DEF Soundness
<1> QED
  BY <1>1, <1>2, <1>3, Stays

LEMMA ClosedKnowsNothing ==
    ASSUME NEW lines, NEW w, w.pc \in Away \cup {"scanning"}
    PROVE  Knows(lines, w)
BY DEF Knows, Away

LEMMA SoundWrites ==
    ASSUME Lasting, Soundness, NEW p \in Process, proc[p].pc \in {"idle", "checking"}, NEW body \in Body,
           Writes(p, body)
    PROVE  Soundness'
<1> DEFINE w == [proc[p] EXCEPT !.pc = "writing", !.body = body]
<1>1. /\ proc[p].pc \in Busy /\ Held(proc[p].pc) = Absent /\ proc[p] \in Writer
      /\ Knows(events, proc[p])
      /\ manifest = Absent /\ \A q \in Process \ {p} : proc[q].pc \notin Busy
  BY SoundTypes, LastingTypes DEF Busy, Held
<1>2. proc' = [proc EXCEPT ![p] = w] /\ UNCHANGED <<events, manifest>>
  BY <1>1 DEF Writes, Lasting
<1>3. w \in Writer /\ w.pc = "writing" /\ w.sequence = proc[p].sequence /\ w.previous = proc[p].previous
  BY <1>1 DEF Writer, Busy
<1>4. Knows(events, w)
  BY <1>1, <1>3 DEF Knows
<1>5. Whole(events, Kept(events)) /\ Held(w.pc) = Absent
  BY <1>3 DEF Soundness, Held
<1> HIDE DEF w
<1> QED
  BY <1>1, <1>2, <1>3, <1>4, <1>5, Stays

LEMMA SoundSession ==
    ASSUME Lasting, Soundness, NEW p \in Process, sound',
           \/ BeginRun(p) \/ StartAppend(p) \/ (\E s \in Settled : StartSettle(p, s)) \/ CheckUnsealed(p)
           \/ WriteFails(p) \/ ReadBack(p) \/ OpenManifest(p)
    PROVE  Soundness'
<1> USE SoundTypes, LastingTypes
<1>1. CASE BeginRun(p)
  <2> DEFINE w == Into(proc[p], "idle")
  <2>1. /\ p = Session /\ ~created /\ Enters(p, "idle") /\ UNCHANGED <<events, manifest>>
        /\ "idle" \in Busy /\ "idle" \notin Away
    BY <1>1 DEF BeginRun, Lasting, Busy, Away
  <2>2. /\ events = <<>> /\ manifest = Absent /\ \A q \in Process : proc[q].pc = "off"
        /\ proc[p].sequence = 0 /\ proc[p].previous = <<>>
    BY <2>1 DEF Lasting, Careful, Away
  <2>3. w.pc = "idle" /\ w.sequence = 0 /\ w.previous = <<>>
    BY <2>1, <2>2, EntersIs
  <2>4. Kept(events) = 0 /\ Len(events) = 0 /\ Bodies(events) = <<>>
    <3>1. Len(events) = 0 /\ Kept(events) = 0
      BY <2>2 DEF Kept
    <3> QED
      BY <3>1, BodiesAre, EmptySeq
  <2>5. Knows(events, w)
    BY <2>3, <2>4 DEF Knows
  <2>6. \A q \in Process : proc[q].pc \notin Busy
    BY <2>2 DEF Busy
  <2> QED
    BY <2>1, <2>2, <2>5, <2>6, StaysPut DEF Held
<1>2. CASE StartAppend(p)
  BY <1>2, SoundWrites DEF StartAppend, Body
<1>3. ASSUME NEW s \in Settled, StartSettle(p, s) PROVE Soundness'
  <2>1. s \in Body
    BY SettledAssumption DEF Body, State
  <2> QED
    BY <1>3, <2>1, SoundWrites DEF StartSettle
<1>4. CASE CheckUnsealed(p)
  BY <1>4, SoundWrites DEF CheckUnsealed, Body, State
<1>5. CASE WriteFails(p)
  <2> DEFINE w == Into(proc[p], "idle")
  <2>1. /\ Enters(p, "idle") /\ "idle" \in Busy /\ "idle" \notin Away /\ UNCHANGED <<events, manifest>>
        /\ proc[p].pc = "writing" /\ proc[p].pc \in Busy
    BY <1>5 DEF WriteFails, Busy, Away
  <2>2. w.pc = "idle" /\ w.sequence = proc[p].sequence /\ w.previous = proc[p].previous
    BY <2>1, EntersIs
  <2>3. Knows(events, w) /\ manifest = Held("idle")
    BY <2>1, <2>2 DEF Knows, Held
  <2> QED
    BY <2>1, <2>3, StaysPut
<1>6. CASE ReadBack(p)
  <2> DEFINE w == [proc[p] EXCEPT !.pc = "sealing", !.seen = events]
  <2>1. /\ proc' = [proc EXCEPT ![p] = w] /\ proc[p].pc = "reading" /\ proc[p].pc \in Busy
        /\ UNCHANGED <<events, manifest>>
    BY <1>6 DEF ReadBack, Lasting, Busy
  <2>2. /\ w \in Writer /\ w.pc = "sealing" /\ w.sequence = proc[p].sequence /\ w.previous = proc[p].previous
        /\ w.body = proc[p].body /\ w.seen = events
    BY DEF Writer, Busy
  <2>3. Knows(events, w) /\ manifest = Absent /\ Held(w.pc) = Absent
    BY <2>1, <2>2 DEF Knows, Held
  <2> HIDE DEF w
  <2> QED
    BY <2>1, <2>2, <2>3, Stays
<1>7. CASE OpenManifest(p)
  <2> DEFINE w == Into(proc[p], "signing")
  <2>1. /\ Enters(p, "signing") /\ "signing" \in Busy /\ "signing" \notin Away /\ events' = events
        /\ manifest' = Torn /\ proc[p].pc = "sealing" /\ proc[p].pc \in Busy
    BY <1>7 DEF OpenManifest, Busy, Away
  <2>2. /\ w.pc = "signing" /\ w.sequence = proc[p].sequence /\ w.previous = proc[p].previous
        /\ w.body = proc[p].body /\ w.seen = proc[p].seen
        /\ proc' = [proc EXCEPT ![p] = w] /\ w \in Writer
    BY <2>1, EntersIs
  <2>3. Knows(events', w)
    BY <2>1, <2>2 DEF Knows
  <2>4. Whole(events', Kept(events')) /\ manifest' = Held(w.pc)
    BY <2>1, <2>2 DEF Held
  <2> HIDE DEF w
  <2> QED
    BY <2>1, <2>2, <2>3, <2>4, Stays
<1> QED
  BY <1>1, <1>2, <1>3, <1>4, <1>5, <1>6, <1>7

LEMMA SealStep ==
    ASSUME Lasting, Soundness, NEW p \in Process, WriteManifest(p)
    PROVE  Soundness' /\ Sealed(events, manifest')
<1> USE SoundTypes, LastingTypes
<1>1. /\ proc[p].pc = "signing" /\ proc[p].pc \in Busy /\ Enters(p, "closed") /\ events' = events
      /\ proc[p].body \in State /\ manifest = Torn
  BY DEF WriteManifest, Busy, Careful, Held
<1>2. manifest' = SealOf(p)
  BY <1>1 DEF WriteManifest
<1>3. Sealed(events, manifest')
  BY <1>1, <1>2 DEF Knows, Sealed, SealOf
<1>4. /\ proc' = [proc EXCEPT ![p] = Into(proc[p], "closed")] /\ Into(proc[p], "closed") \in Writer
      /\ Into(proc[p], "closed").pc = "closed"
  BY <1>1, EntersIs, Present
<1>5. Knows(events', Into(proc[p], "closed")) /\ "closed" \notin Busy
  BY <1>4, ClosedKnowsNothing DEF Away, Busy
<1>6. Whole(events', Kept(events')) /\ Sealed(events', manifest')
  BY <1>1, <1>3
<1> QED
  BY <1>1, <1>3, <1>4, <1>5, <1>6, Stays

\* The bytes a write adds, whole or cut short.
LEMMA LineAdds ==
    ASSUME Lasting, Soundness, NEW p \in Process, proc[p].pc = "writing", NEW form \in {"line", "torn", "bare"}
    PROVE  LET more == Joined(events, NextLine(p, form))
           IN  /\ more \in Seq(Lines) /\ Len(more) = Len(events) + 1
               /\ Kept(events) = Len(events) /\ Len(events) \in Nat
               /\ more[Len(more)].form = form /\ more[Len(more)].body = proc[p].body
               /\ SubSeq(Bodies(more), 1, Len(events)) = Bodies(events)
               /\ Bodies(more) = Append(Bodies(events), proc[p].body)
               /\ Whole(more, Len(events)) /\ (form = "line" => Whole(more, Len(events) + 1))
<1> DEFINE line == NextLine(p, form)
           more == Joined(events, line)
<1>1. /\ events \in Seq(Lines) /\ Kept(events) = Len(events) /\ Len(events) \in Nat /\ Whole(events, Len(events))
      /\ proc[p].sequence = Len(events) /\ proc[p].previous = Bodies(events)
      /\ proc[p].previous \in Seq(Body) /\ proc[p].body \in Body
  BY SoundTypes, LastingTypes DEF Knows
<1>2. line \in Lines /\ line.form = form /\ line.body = proc[p].body /\ line.sequence = Len(events)
      /\ line.previous = Bodies(events)
  BY <1>1 DEF NextLine, Line, Lines
<1>3. more = Append(events, line)
  <2>1. CASE events = <<>>
    BY <2>1 DEF Joined
  <2>2. CASE events # <<>>
    <3>1. Len(events) \in 1..Len(events)
      BY <1>1, <2>2, EmptySeq
    <3>2. Last(events).form = "line"
      BY <1>1, <3>1 DEF Whole, Last
    <3> QED
      BY <3>2 DEF Joined
  <2> QED
    BY <2>1, <2>2
<1> HIDE DEF line, more
<1>4. /\ more \in Seq(Lines) /\ Len(more) = Len(events) + 1
      /\ \A i \in 1..Len(events) : events[i] = more[i]
      /\ more[Len(events) + 1] = line
      /\ SubSeq(Bodies(more), 1, Len(events)) = Bodies(events)
      /\ Bodies(more) = Append(Bodies(events), proc[p].body)
  BY <1>1, <1>2, <1>3, AppendLine
<1>5. Whole(more, Len(events))
  <2>1. Len(events) \in 0..Len(events) /\ Len(events) <= Len(more)
    BY <1>1, <1>4
  <2> QED
    BY <1>1, <1>4, <2>1, WholePrefix
<1>6. ASSUME form = "line" PROVE Whole(more, Len(events) + 1)
  <2> SUFFICES ASSUME NEW i \in 1..Len(events) + 1
               PROVE  /\ more[i].form = "line" /\ more[i].sequence = i - 1
                      /\ more[i].previous = SubSeq(Bodies(more), 1, i - 1)
    BY DEF Whole, Chained
  <2>1. CASE i \in 1..Len(events)
    BY <1>5, <2>1 DEF Whole, Chained
  <2>2. CASE i = Len(events) + 1
    <3>1. i - 1 = Len(events) /\ more[i] = line
      BY <1>1, <1>4, <2>2
    <3> QED
      BY <1>2, <1>4, <1>6, <3>1
  <2> QED
    BY <1>1, <2>1, <2>2
<1> QED
  BY <1>1, <1>2, <1>4, <1>5, <1>6 DEF line, more

\* A line that was written whole is kept.
LEMMA LineKept ==
    ASSUME Lasting, Soundness, NEW p \in Process, proc[p].pc = "writing"
    PROVE  LET more == Joined(events, NextLine(p, "line"))
           IN  Kept(more) = Len(more) /\ Len(more) \in Nat /\ Whole(more, Kept(more))
<1> DEFINE more == Joined(events, NextLine(p, "line"))
<1>1. more \in Seq(Lines) /\ Len(more) = Len(events) + 1 /\ more[Len(more)].form = "line" /\ Len(events) \in Nat
      /\ Whole(more, Len(events) + 1)
  BY LineAdds
<1> HIDE DEF more
<1>2. Kept(more) = Len(more) /\ Len(more) \in Nat /\ Whole(more, Kept(more))
  BY <1>1 DEF Kept
<1> QED
  BY <1>2 DEF more

LEMMA WriteStep ==
    ASSUME Lasting, sound => Soundness, NEW p \in Process, WriteLine(p)
    PROVE  Lasting' /\ (sound' => Soundness')
<1> USE LastingTypes, Present
<1> DEFINE body == proc[p].body
           w == [proc[p] EXCEPT !.pc = IF body = "event" THEN "idle" ELSE "reading",
                                !.sequence = @ + 1, !.previous = Append(@, body)]
           chain == Append(proc[p].previous, body)
<1>1. /\ proc' = [proc EXCEPT ![p] = w] /\ proc[p].pc = "writing" /\ proc[p].pc \in Busy /\ created
      /\ events' = Joined(events, NextLine(p, "line")) /\ acked' = IF sound THEN chain ELSE acked
      /\ UNCHANGED <<created, manifest, sound, faults>>
  BY DEF WriteLine, Lasting, Busy
<1>2. chain \in Seq(Body)
  <2> DEFINE before == proc[p].previous
  <2>1. before \in Seq(Body) /\ body \in Body
    OBVIOUS
  <2> HIDE DEF before, body
  <2>2. Append(before, body) \in Seq(Body)
    BY <2>1, AppendProperties
  <2> QED
    BY <2>2 DEF before
<1> HIDE DEF chain
<1>3. /\ w \in Writer /\ w.pc \in {"idle", "reading"} /\ (w.pc = "reading" => body \in State)
      /\ w.body = body /\ w.sequence = proc[p].sequence + 1 /\ w.previous = chain
  <2> DEFINE place == IF body = "event" THEN "idle" ELSE "reading"
             next == proc[p].sequence + 1
  <2>1. /\ place \in {"idle", "reading"} /\ place \in Away \cup Busy /\ next \in Nat
        /\ (place = "reading" => body \in State)
    BY DEF Body, Busy
  <2>2. w = [proc[p] EXCEPT !.pc = place, !.sequence = next, !.previous = chain]
    BY DEF chain
  <2> HIDE DEF place, next
  <2>3. w \in Writer /\ w.pc = place /\ w.body = body /\ w.sequence = next /\ w.previous = chain
    BY <1>2, <2>1, <2>2 DEF Writer
  <2> QED
    BY <2>1, <2>3 DEF next
<1> HIDE DEF w
<1>4. Keeps(events')
  <2>1. Len(events) \in Len(acked)..Len(events)
    OBVIOUS
  <2> QED
    BY <1>1, <2>1, JoinedHolds
<1>5. Careful(w) /\ w.pc # "off"
  BY <1>3 DEF Careful, Away
<1>6. CASE ~sound
  <2>1. acked' = acked
    BY <1>1, <1>6
  <2> QED
    BY <1>1, <1>3, <1>4, <1>5, <1>6, <2>1, Lasts
<1>7. CASE sound
  <2> DEFINE more == Joined(events, NextLine(p, "line"))
  <2>1. /\ Soundness /\ Knows(events, proc[p]) /\ manifest = Absent
        /\ \A q \in Process \ {p} : proc[q].pc \notin Busy
    BY <1>1, <1>7, SoundTypes DEF Held
  <2>2. /\ more \in Seq(Lines) /\ Len(more) = Len(events) + 1 /\ Len(events) \in Nat
        /\ more[Len(more)].body = body /\ Bodies(more) = Append(Bodies(events), body)
        /\ Kept(more) = Len(more) /\ Whole(more, Kept(more))
    BY <1>1, <2>1, LineAdds, LineKept
  <2>3. chain = Bodies(more) /\ w.sequence = Len(more)
    BY <1>1, <1>3, <2>1, <2>2 DEF Knows, chain
  <2>4. Holds(more, chain)
    <3>1. Len(chain) = Len(more) /\ SubSeq(Bodies(more), 1, Len(chain)) = chain
      BY <2>2, <2>3, BodiesAre, SubSeqFull
    <3> QED
      BY <2>2, <3>1 DEF Holds
  <2>5. acked' = chain /\ events' = more
    BY <1>1, <1>7
  <2>6. Ended(more)
    BY <1>4, <2>5 DEF Keeps
  <2> HIDE DEF more
  <2>7. \A q \in Process : proc'[q] = IF q = p THEN w ELSE proc[q]
    BY <1>1 DEF Lasting
  <2>8. ASSUME NEW q \in Process PROVE Careful(proc[q])'
    <3>1. CASE q = p
      <4>1. proc'[q] = w
        BY <2>7, <3>1
      <4> QED
        BY <1>3, <4>1 DEF Careful, Away
    <3>2. CASE q # p
      <4>1. proc'[q] = proc[q] /\ proc[q].pc \notin Busy /\ Careful(proc[q])
        BY <2>1, <2>7, <3>2 DEF Lasting
      <4> QED
        BY <4>1 DEF Careful, Busy
    <3> QED
      BY <3>1, <3>2
  <2>9. proc' \in [Process -> Writer] /\ (Session \in Process => proc'[Session].pc # "off")
    BY <1>1, <1>3, <1>5, <2>7 DEF Lasting
  <2>10. Lasting'
    <3>1. events' \in Seq(Lines) /\ acked' \in Seq(Body) /\ Ended(events') /\ Holds(events', acked')
      BY <1>2, <2>2, <2>4, <2>5, <2>6
    <3>2. Ended(events)' /\ Holds(events, acked)'
      BY <3>1 DEF Ended, Holds, Whole, Chained, Bodies
    <3>3. created' = TRUE /\ manifest' \in {Absent, Torn} \cup Seals
      BY <1>1
    <3> QED
      BY <1>1, <2>8, <2>9, <3>1, <3>2, <3>3 DEF Lasting
  <2>11. Knows(events', w)
    <3>1. Len(more) > 0 /\ w.pc \in {"idle", "reading"}
      BY <1>3, <2>2
    <3> QED
      BY <1>3, <2>2, <2>3, <2>5, <3>1 DEF Knows
  <2>12. Soundness'
    <3>1. manifest' = Held(w.pc) /\ manifest' \in {Absent, Torn} /\ Whole(events', Kept(events'))
      BY <1>1, <1>3, <2>1, <2>2, <2>5 DEF Held
    <3> QED
      BY <1>1, <1>3, <2>1, <2>11, <3>1, Stays
  <2> QED
    BY <2>10, <2>12
<1> QED
  BY <1>6, <1>7

\* A recovery alone with the file cuts it where its prefix ends.
LEMMA CommonIsKept ==
    ASSUME Lasting, Soundness, NEW p \in Process, proc[p].pc = "truncating"
    PROVE  CutAtPrefix(p) = {SubSeq(events, 1, Kept(events))}
<1> USE SoundTypes, LastingTypes
<1> DEFINE w == proc[p]
           k == Kept(events)
           least == Min({w.sequence, Len(events)})
           S == {n \in 0..least : Whole(events, n) /\ SubSeq(Bodies(events), 1, n) = SubSeq(w.previous, 1, n)}
<1>1. w.sequence = k /\ w.previous = SubSeq(Bodies(events), 1, k) /\ k \in 0..Len(events) /\ Whole(events, k)
  BY DEF Knows
<1>2. least = k
  <2>1. w.sequence \in Nat /\ Len(events) \in Nat
    OBVIOUS
  <2>2. least = IF w.sequence <= Len(events) THEN w.sequence ELSE Len(events)
    BY <2>1, LesserIs, Zenon
  <2> HIDE DEF least, k
  <2> QED
    BY <1>1, <2>1, <2>2
<1>3. SubSeq(w.previous, 1, k) = w.previous
  <2>1. w.previous \in Seq(Body) /\ Len(w.previous) = k
    BY <1>1, PrefixOfBodies
  <2> QED
    BY <2>1, SubSeqFull
<1> HIDE DEF least, k
<1>4. k \in S /\ S \in SUBSET Int /\ \A n \in S : n <= k
  BY <1>1, <1>2, <1>3
<1>5. Common(p) = Max(S)
  BY DEF Common, least
<1> HIDE DEF S
<1>6. Common(p) = k
  BY <1>4, <1>5, MaxIs
<1> QED
  BY <1>1, <1>6 DEF CutAtPrefix, k

LEMMA TruncateStep ==
    ASSUME Lasting, Soundness, NEW p \in Process, Truncate(p)
    PROVE  /\ Soundness' /\ Kept(events') = Kept(events)
           /\ SubSeq(Bodies(events'), 1, Kept(events)) = SubSeq(Bodies(events), 1, Kept(events))
<1> USE SoundTypes, LastingTypes
<1> DEFINE k == Kept(events)
           w == Into(proc[p], "checking")
<1>1. /\ proc[p].pc = "truncating" /\ proc[p].pc \in Busy /\ Enters(p, "checking") /\ manifest' = manifest
      /\ "checking" \in Busy /\ "checking" \notin Away
  BY DEF Truncate, Busy, Away
<1>2. events' = SubSeq(events, 1, k) /\ k \in 0..Len(events) /\ Whole(events, k) /\ manifest = Absent
      /\ proc[p].sequence = k /\ proc[p].previous = SubSeq(Bodies(events), 1, k)
  BY <1>1, CommonIsKept DEF Truncate, Held, Knows
<1> HIDE DEF k
<1>3. /\ events' \in Seq(Lines) /\ Len(events') = k
      /\ \A i \in 1..k : events[i] = events'[i]
      /\ Bodies(events') = SubSeq(Bodies(events), 1, k)
  BY <1>2, HeadOfFile
<1>4. Whole(events', k)
  <2>1. k <= Len(events')
    BY <1>2, <1>3
  <2> QED
    BY <1>2, <1>3, <2>1, WholePrefix
<1>5. Kept(events') = k
  <2>1. CASE k = 0
    <3>1. events' = <<>>
      BY <1>3, <2>1, EmptySeq
    <3> QED
      BY <1>3, <2>1, <3>1 DEF Kept
  <2>2. CASE k > 0
    <3>1. events'[k].form = "line"
      BY <1>2, <1>4, <2>2 DEF Whole
    <3> QED
      BY <1>3, <3>1 DEF Kept
  <2> QED
    BY <1>2, <2>1, <2>2
<1>6. /\ w.pc = "checking" /\ w.sequence = proc[p].sequence /\ w.previous = proc[p].previous
      /\ proc' = [proc EXCEPT ![p] = w] /\ w \in Writer
  BY <1>1, EntersIs
<1> HIDE DEF w
<1>7. Knows(events', w)
  BY <1>2, <1>3, <1>5, <1>6 DEF Knows
<1>8. Whole(events', Kept(events')) /\ manifest' = Held(w.pc) /\ manifest' \in {Absent, Torn}
  BY <1>1, <1>2, <1>4, <1>5, <1>6 DEF Held
<1>9. Soundness'
  BY <1>1, <1>6, <1>7, <1>8, Stays
<1>10. SubSeq(Bodies(events'), 1, k) = Bodies(events')
  BY <1>3, BodiesAre, SubSeqFull
<1> QED
  BY <1>3, <1>5, <1>9, <1>10 DEF k

LEMMA SoundOpen ==
    ASSUME Lasting, Soundness, NEW p \in Process, sound', Open(p) \/ Scan(p)
    PROVE  Soundness'
<1> USE SoundTypes, LastingTypes
<1>1. CASE Open(p)
  <2>1. CASE manifest = Absent
    <3>1. /\ Enters(p, "scanning") /\ "scanning" \in Busy /\ UNCHANGED <<events, manifest>>
          /\ "scanning" \in Away \cup Busy /\ (sound' => Alone(p))
      BY <1>1, <2>1 DEF Open, Opens, Busy
    <3>2. Into(proc[p], "scanning").pc = "scanning"
      BY <3>1, EntersIs
    <3>3. Knows(events, Into(proc[p], "scanning"))
      BY <3>2, ClosedKnowsNothing
    <3>4. \A q \in Process \ {p} : proc[q].pc \notin Busy
      BY <3>1 DEF Alone, Away, Busy
    <3> QED
      BY <2>1, <3>1, <3>3, <3>4, StaysPut DEF Held
  <2>2. CASE manifest # Absent
    <3>1. /\ Enters(p, "closed") /\ UNCHANGED <<events, manifest>> /\ "closed" \in Away /\ "closed" \in Away \cup Busy
      BY <1>1, <2>2 DEF Open, Opens, Away
    <3>2. Into(proc[p], "closed").pc = "closed"
      BY <3>1, EntersIs
    <3>3. Knows(events, Into(proc[p], "closed"))
      BY <3>1, <3>2, ClosedKnowsNothing
    <3> QED
      BY <3>1, <3>3, StaysPut
  <2> QED
    BY <2>1, <2>2
<1>2. CASE Scan(p)
  <2> DEFINE k == Kept(events)
             q == IF k < Len(events) THEN "truncating" ELSE "checking"
             chain == SubSeq(Bodies(events), 1, k)
             w == [proc[p] EXCEPT !.pc = q, !.sequence = k, !.previous = chain]
  <2>1. /\ proc' = [proc EXCEPT ![p] = w] /\ UNCHANGED <<events, manifest>>
        /\ proc[p].pc = "scanning" /\ proc[p].pc \in Busy
    BY <1>2 DEF Scan, ScanTo, Lasting, Busy
  <2>2. chain \in Seq(Body) /\ k \in Nat
    BY PrefixOfBodies
  <2>3. k = Len(events) => chain = Bodies(events)
    BY BodiesAre, SubSeqFull
  <2>4. q \in {"truncating", "checking"} /\ q \in Busy /\ (q = "checking" => k = Len(events))
    BY DEF Busy
  <2> HIDE DEF q, chain
  <2>5. w \in Writer /\ w.pc = q /\ w.sequence = k /\ w.previous = chain
    BY <2>2, <2>4 DEF Writer
  <2>6. Knows(events, w)
    BY <2>3, <2>4, <2>5 DEF Knows, chain
  <2>7. /\ Knows(events', w) /\ Whole(events', Kept(events'))
        /\ manifest' = Held(w.pc) /\ manifest' \in {Absent, Torn}
        /\ \A r \in Process \ {p} : proc[r].pc \notin Busy
    BY <2>1, <2>4, <2>5, <2>6 DEF Held
  <2> HIDE DEF w
  <2> QED
    BY <2>1, <2>5, <2>7, Stays
<1> QED
  BY <1>1, <1>2

\* A death leaves the file, a torn line or a whole one; a bare one ends the soundness.
LEMMA CrashStep ==
    ASSUME Lasting, Soundness, NEW p \in Process, Crash(p), sound'
    PROVE  /\ Soundness' /\ manifest \in {Absent, Torn} /\ manifest' = manifest
           /\ \/ /\ Kept(events') = Kept(events)
                 /\ SubSeq(Bodies(events'), 1, Kept(events)) = SubSeq(Bodies(events), 1, Kept(events))
              \/ /\ Kept(events) = Len(events) /\ Kept(events') = Len(events') /\ events' \in Seq(Lines)
                 /\ Bodies(events') = Append(Bodies(events), proc[p].body) /\ proc[p].body \in Body
<1> USE SoundTypes, LastingTypes, Present
<1> DEFINE w == Into(proc[p], "closed")
<1>1. /\ proc[p].pc \in Busy /\ manifest \in {Absent, Torn} /\ manifest' = manifest /\ Enters(p, "closed")
      /\ \A q \in Process \ {p} : proc[q].pc \notin Busy
  BY DEF Crash, Held
<1>2. /\ proc' = [proc EXCEPT ![p] = w] /\ w \in Writer /\ w.pc = "closed"
  BY <1>1, EntersIs
<1>3. Knows(events', w) /\ w.pc \notin Busy
  BY <1>2, ClosedKnowsNothing DEF Away, Busy
<1> HIDE DEF w
<1>4. Whole(events', Kept(events')) => Soundness'
  BY <1>1, <1>2, <1>3, Stays
<1>5. CASE events' = events
  BY <1>1, <1>4, <1>5
<1>6. ASSUME proc[p].pc = "writing", events' = Joined(events, NextLine(p, "torn"))
      PROVE  /\ Soundness' /\ Kept(events') = Kept(events)
             /\ SubSeq(Bodies(events'), 1, Kept(events)) = SubSeq(Bodies(events), 1, Kept(events))
  <2>1. /\ events' \in Seq(Lines) /\ Len(events') = Len(events) + 1 /\ Kept(events) = Len(events) /\ Len(events) \in Nat
        /\ events'[Len(events')].form = "torn"
        /\ SubSeq(Bodies(events'), 1, Len(events)) = Bodies(events) /\ Whole(events', Len(events))
    BY <1>6, LineAdds
  <2>2. events' # <<>>
    BY <2>1, EmptySeq
  <2>3. Kept(events') = Len(events)
    BY <2>1, <2>2 DEF Kept
  <2>4. SubSeq(Bodies(events), 1, Len(events)) = Bodies(events)
    BY BodiesAre, SubSeqFull
  <2> QED
    BY <1>4, <2>1, <2>3, <2>4
<1>7. ASSUME proc[p].pc = "writing", events' = Joined(events, NextLine(p, "line"))
      PROVE  /\ Soundness' /\ Kept(events) = Len(events) /\ Kept(events') = Len(events') /\ events' \in Seq(Lines)
             /\ Bodies(events') = Append(Bodies(events), proc[p].body)
  <2>1. /\ events' \in Seq(Lines) /\ Kept(events) = Len(events)
        /\ Bodies(events') = Append(Bodies(events), proc[p].body)
        /\ Kept(events') = Len(events') /\ Whole(events', Kept(events'))
    BY <1>7, LineAdds, LineKept
  <2> QED
    BY <1>4, <2>1
<1>8. ASSUME proc[p].pc = "writing", events' = Joined(events, NextLine(p, "bare"))
      PROVE  FALSE
  <2>1. /\ events' \in Seq(Lines) /\ Len(events') = Len(events) + 1 /\ Len(events) \in Nat
        /\ events'[Len(events')].form = "bare"
    BY <1>8, LineAdds
  <2>2. events' # <<>> /\ events' # events
    BY <2>1, EmptySeq
  <2>3. Bare(events')
    BY <2>1, <2>2 DEF Bare, Last
  <2> QED
    BY <2>2, <2>3 DEF Crash
<1>9. \/ events' = events
      \/ proc[p].pc = "writing" /\ \E form \in {"torn", "bare", "line"} : events' = Joined(events, NextLine(p, form))
  BY DEF Crash, Cut
<1>10. CASE proc[p].pc = "writing" /\ events' = Joined(events, NextLine(p, "torn"))
  BY <1>1, <1>6, <1>10
<1>11. CASE proc[p].pc = "writing" /\ events' = Joined(events, NextLine(p, "line"))
  BY <1>1, <1>7, <1>11
<1> QED
  BY <1>5, <1>8, <1>9, <1>10, <1>11

-----------------------------------------------------------------------------
(* The archive is true, and implements the sealed log.                     *)

LEMMA ArchiveBegins == ArchiveInit => ArchiveInv
<1> SUFFICES ASSUME ArchiveInit PROVE ArchiveInv
  OBVIOUS
<1>1. Fresh \in Writer /\ Fresh.pc = "off" /\ Fresh.sequence = 0 /\ Fresh.previous = <<>>
  BY DEF Fresh, Writer, Away, Busy, Body
<1>2. events = <<>> /\ acked = <<>> /\ manifest = Absent /\ created = FALSE /\ sound = TRUE /\ faults \in 0..MaxFaults
  BY ArchiveBounds DEF ArchiveInit
<1>3. proc \in [Process -> Writer] /\ \A p \in Process : proc[p] = Fresh
  BY <1>1 DEF ArchiveInit
<1>4. \A p \in Process : proc[p].pc = "off" /\ Careful(proc[p]) /\ Knows(events, proc[p]) /\ proc[p].pc \notin Busy
  BY <1>1, <1>3 DEF Careful, Knows, Busy
<1>5. events \in Seq(Lines) /\ acked \in Seq(Body) /\ Len(events) = 0 /\ Len(acked) = 0
  BY <1>2, EmptySeq
<1>6. Holds(events, acked)
  <2>1. Bodies(events) \in Seq(Body) /\ Len(Bodies(events)) = 0
    BY <1>5, BodiesAre
  <2>2. SubSeq(Bodies(events), 1, 0) = acked
    BY <1>2, <2>1, SubSeqEmpty
  <2> QED
    BY <1>5, <2>2 DEF Holds, Whole, Chained
<1>7. Ended(events) /\ Whole(events, Kept(events))
  <2>1. Kept(events) = 0
    BY <1>2, <1>5 DEF Kept
  <2> QED
    BY <1>5, <2>1 DEF Ended, Whole, Chained
<1>8. Lasting
  BY <1>2, <1>3, <1>4, <1>5, <1>6, <1>7 DEF Lasting
<1>9. Soundness
  BY <1>2, <1>4, <1>7 DEF Soundness
<1> QED
  BY <1>8, <1>9 DEF ArchiveInv

\* What was lost is not had again.
LEMMA SoundBefore ==
    ASSUME Lasting, [ArchiveNext]_archiveVars, sound'
    PROVE  sound
<1>1. ASSUME NEW p \in Process, BeginRun(p) \/ StartAppend(p) \/ ArchiveStep(p) \/ WriteFails(p) \/ Crash(p)
      PROVE  sound
  <2>1. CASE StartAppend(p) \/ CheckUnsealed(p) \/ \E s \in Settled : StartSettle(p, s)
    BY <2>1 DEF StartAppend, CheckUnsealed, StartSettle, Writes
  <2>2. CASE BeginRun(p) \/ WriteFails(p) \/ Crash(p)
    BY <2>2 DEF BeginRun, WriteFails, Crash
  <2>3. CASE WriteLine(p) \/ ReadBack(p) \/ OpenManifest(p) \/ WriteManifest(p)
    BY <2>3 DEF WriteLine, ReadBack, OpenManifest, WriteManifest
  <2>4. CASE Open(p) \/ Scan(p) \/ Truncate(p)
    BY <2>4 DEF Open, Opens, Scan, ScanTo, Truncate
  <2> QED
    BY <1>1, <2>1, <2>2, <2>3, <2>4 DEF ArchiveStep
<1>2. CASE UNCHANGED archiveVars
  BY <1>2 DEF archiveVars
<1> QED
  BY <1>1, <1>2 DEF ArchiveNext

LEMMA ArchiveSteps ==
    ASSUME ArchiveInv, [ArchiveNext]_archiveVars
    PROVE  ArchiveInv'
<1>1. Lasting /\ (sound => Soundness) /\ (sound' => sound)
  BY SoundBefore DEF ArchiveInv
<1>2. ASSUME NEW p \in Process, BeginRun(p) \/ StartAppend(p) \/ ArchiveStep(p) \/ WriteFails(p) \/ Crash(p)
      PROVE  Lasting' /\ (sound' => Soundness')
  <2>1. CASE \/ BeginRun(p) \/ StartAppend(p) \/ (\E s \in Settled : StartSettle(p, s)) \/ CheckUnsealed(p)
             \/ WriteFails(p) \/ ReadBack(p) \/ OpenManifest(p)
    <3>1. Lasting'
      BY <1>1, <2>1, LastingSession
    <3>2. sound' => Soundness'
      BY <1>1, <2>1, SoundSession
    <3> QED
      BY <3>1, <3>2
  <2>2. CASE WriteManifest(p)
    BY <1>1, <2>2, LastingSession, SealStep
  <2>3. CASE WriteLine(p)
    BY <1>1, <2>3, WriteStep
  <2>4. CASE Open(p) \/ Scan(p)
    BY <1>1, <2>4, LastingRecovery, SoundOpen
  <2>5. CASE Truncate(p)
    BY <1>1, <2>5, LastingRecovery, TruncateStep
  <2>6. CASE Crash(p)
    BY <1>1, <2>6, LastingRecovery, CrashStep
  <2> QED
    BY <1>2, <2>1, <2>2, <2>3, <2>4, <2>5, <2>6 DEF ArchiveStep
<1>3. CASE UNCHANGED archiveVars
  <2>1. Lasting'
    BY <1>1, <1>3 DEF archiveVars, Lasting, Careful, Ended, Holds, Whole, Chained, Bodies
  <2>2. Soundness => Soundness'
    BY <1>3 DEF archiveVars, Soundness, Knows, Kept, Whole, Chained, Bodies, Sealed
  <2>3. sound' = sound
    BY <1>3 DEF archiveVars
  <2> QED
    BY <1>1, <2>1, <2>2, <2>3 DEF ArchiveInv
<1> QED
  BY <1>2, <1>3 DEF ArchiveNext, ArchiveInv

LEMMA ArchiveSuffices == ArchiveInv => ArchiveIsTrue
<1> SUFFICES ASSUME Lasting, sound => Soundness PROVE ArchiveIsTrue
  BY DEF ArchiveInv
<1>1. events \in Seq(Lines) /\ DOMAIN events = 1..Len(events) /\ Ended(events) /\ acked \in Seq(Body)
  BY LenProperties DEF Lasting
<1>2. \A i \in DOMAIN events : events[i] \in Lines
  BY <1>1, ElementOfSeq
<1>3. \A p \in Process : proc[p].pc \in Away \cup Busy /\ proc[p].body \in Body /\ proc[p].sequence \in Nat
  BY DEF Lasting, Writer
<1>4. manifest \in {Absent, Torn} \/ (manifest.state \in State /\ manifest.count \in Nat)
  BY DEF Lasting, Seals
<1>5. ArchiveTypeOK
  BY <1>1, <1>2, <1>3, <1>4 DEF ArchiveTypeOK, Lasting, Ended
<1>6. SealedVerifies
  <2> SUFFICES ASSUME sound, manifest \notin {Absent, Torn} PROVE Verifies(events, manifest)
    BY DEF SealedVerifies
  <2>1. Sealed(events, manifest) /\ Whole(events, Kept(events))
    BY DEF Soundness
  <2> QED
    BY <2>1 DEF Sealed, Verifies, Whole
<1>7. AcknowledgedKept
  BY AckedIsValid, LenProperties DEF AcknowledgedKept, Lasting, Holds
<1> QED
  BY <1>5, <1>6, <1>7 DEF ArchiveIsTrue

\* Whoever wrote, recovered or died beside whom: as long as nothing of Alone, WriteFails
\* and Crash took the soundness, what is sealed verifies (RunArchiveStore,
\* verifyArchiveBytes); and what append acknowledged of a sound archive stays in the
\* verifiable prefix also after that, whatever an unlocked recovery cuts.
THEOREM SealedArchivesVerify == ArchiveSpec => []ArchiveIsTrue
<1>1. ArchiveInv /\ [ArchiveNext]_archiveVars => ArchiveInv'
  BY ArchiveSteps
<1> QED
  BY <1>1, ArchiveBegins, ArchiveSuffices, PTL DEF ArchiveSpec

\* The log and the seal the archive stands for.
Records(lines) == SubSeq(Bodies(lines), 1, Kept(lines))
SealState(seal) == IF seal \in {Absent, Torn} THEN NoSeal ELSE seal.state

LEMMA LogIs ==
    ASSUME NEW lines \in Seq(Lines), Whole(lines, Kept(lines))
    PROVE  SubSeq(Bodies(lines), 1, ValidPrefix(lines)) = Records(lines)
BY KeptIsValid DEF Records

\* A file of whole lines is its records.
LEMMA AllRecords ==
    ASSUME NEW lines \in Seq(Lines), Kept(lines) = Len(lines)
    PROVE  Records(lines) = Bodies(lines)
BY BodiesAre, SubSeqFull DEF Records

\* What each step of a sound archive is to the log.
LogStep ==
    \/ Records(events') = Records(events) /\ SealState(manifest') = SealState(manifest)
    \/ /\ SealState(manifest) = NoSeal /\ SealState(manifest') = NoSeal
       /\ \E b \in Body : Records(events') = Append(Records(events), b)
    \/ /\ SealState(manifest) = NoSeal /\ Records(events) # <<>> /\ Last(Records(events)) \in State
       /\ SealState(manifest') = Last(Records(events)) /\ Records(events') = Records(events)

LEMMA RecordStep ==
    ASSUME Lasting, Soundness, NEW p \in Process, WriteLine(p)
    PROVE  LogStep
<1> DEFINE more == Joined(events, NextLine(p, "line"))
<1>1. /\ proc[p].pc = "writing" /\ proc[p].pc \in Busy /\ events' = more
      /\ manifest' = manifest /\ manifest = Absent
      /\ events \in Seq(Lines) /\ proc[p].body \in Body
  BY SoundTypes, LastingTypes DEF WriteLine, Busy, Held
<1>2. /\ more \in Seq(Lines) /\ Kept(events) = Len(events) /\ Kept(more) = Len(more)
      /\ Bodies(more) = Append(Bodies(events), proc[p].body)
  BY <1>1, LineAdds, LineKept
<1> HIDE DEF more
<1>3. Records(events) = Bodies(events) /\ Records(more) = Bodies(more)
  BY <1>1, <1>2, AllRecords
<1> QED
  BY <1>1, <1>2, <1>3 DEF LogStep, SealState

LEMMA SealingStep ==
    ASSUME Lasting, Soundness, NEW p \in Process, WriteManifest(p)
    PROVE  LogStep
<1>1. Sealed(events, manifest') /\ events' = events
  BY SealStep DEF WriteManifest
<1>2. manifest = Torn /\ events \in Seq(Lines) /\ Len(events) \in Nat
  BY SoundTypes, LastingTypes DEF WriteManifest, Busy, Held
<1>3. /\ Records(events) = Bodies(events) /\ Len(events) > 0 /\ events[Len(events)].body \in State
      /\ Bodies(events) \in Seq(Body) /\ Len(Bodies(events)) = Len(events)
      /\ Bodies(events)[Len(events)] = events[Len(events)].body
  BY <1>1, <1>2, AllRecords, BodiesAre DEF Sealed
<1>4. Records(events) # <<>> /\ Last(Records(events)) = events[Len(events)].body
  BY <1>2, <1>3, EmptySeq DEF Last
<1>5. manifest' # Absent /\ manifest' # Torn /\ manifest'.state = events[Len(events)].body
  BY <1>1 DEF Sealed, Absent, Torn
<1> QED
  BY <1>1, <1>2, <1>3, <1>4, <1>5 DEF LogStep, SealState

LEMMA LogSteps ==
    ASSUME Lasting, Soundness, [ArchiveNext]_archiveVars, sound'
    PROVE  LogStep
<1>1. ASSUME UNCHANGED <<events, manifest>>
      PROVE  LogStep
  BY <1>1 DEF LogStep
<1>2. ASSUME NEW p \in Process, BeginRun(p) \/ StartAppend(p) \/ ArchiveStep(p) \/ WriteFails(p) \/ Crash(p)
      PROVE  LogStep
  <2>1. CASE StartAppend(p) \/ CheckUnsealed(p) \/ \E s \in Settled : StartSettle(p, s)
    BY <1>1, <2>1 DEF StartAppend, CheckUnsealed, StartSettle, Writes
  <2>2. CASE BeginRun(p) \/ ReadBack(p) \/ Open(p) \/ Scan(p) \/ WriteFails(p)
    BY <1>1, <2>2 DEF BeginRun, ReadBack, Open, Opens, Scan, ScanTo, WriteFails
  <2>3. CASE OpenManifest(p)
    <3>1. manifest = Absent /\ manifest' = Torn /\ events' = events
      BY <2>3, SoundTypes DEF OpenManifest, Busy, Held
    <3> QED
      BY <3>1 DEF LogStep, SealState
  <2>4. CASE Truncate(p)
    <3>1. manifest' = manifest /\ Records(events') = Records(events)
      BY <2>4, TruncateStep DEF Truncate, Records
    <3> QED
      BY <3>1 DEF LogStep
  <2>5. CASE Crash(p)
    <3>1. SealState(manifest) = NoSeal /\ SealState(manifest') = NoSeal
      BY <2>5, CrashStep DEF SealState
    <3>2. CASE /\ Kept(events') = Kept(events)
               /\ SubSeq(Bodies(events'), 1, Kept(events)) = SubSeq(Bodies(events), 1, Kept(events))
      BY <3>1, <3>2 DEF LogStep, Records
    <3>3. CASE /\ Kept(events) = Len(events) /\ Kept(events') = Len(events') /\ events' \in Seq(Lines)
               /\ Bodies(events') = Append(Bodies(events), proc[p].body) /\ proc[p].body \in Body
      <4>1. events \in Seq(Lines)
        BY DEF Lasting
      <4>2. Records(events) = Bodies(events) /\ Records(events') = Bodies(events')
        BY <3>3, <4>1, AllRecords
      <4> QED
        BY <3>1, <3>3, <4>2 DEF LogStep
    <3> QED
      BY <2>5, <3>2, <3>3, CrashStep
  <2> QED
    BY <1>2, <2>1, <2>2, <2>3, <2>4, <2>5, RecordStep, SealingStep DEF ArchiveStep
<1>3. CASE UNCHANGED archiveVars
  BY <1>1, <1>3 DEF archiveVars
<1> QED
  BY <1>2, <1>3 DEF ArchiveNext

\* As long as the archive is sound its verifiable prefix only grows, record by record,
\* nothing is added once sealed, and the seal carries what the last record settles:
\* writer, deaths and recoveries implement the sealed log.
THEOREM ArchiveImplementsLog == ArchiveSpec => ImplementsLog
<1>1. ArchiveInit => Log!Init
  <2> SUFFICES ASSUME ArchiveInit PROVE Log!Init
    OBVIOUS
  <2>1. Lasting /\ Soundness /\ events = <<>> /\ manifest = Absent /\ Kept(events) = 0
    BY ArchiveBegins DEF ArchiveInv, ArchiveInit, Kept
  <2>2. SubSeq(Bodies(events), 1, ValidPrefix(events)) = Records(events)
    BY <2>1, LogIs DEF Lasting, Soundness
  <2>3. Records(events) = <<>>
    BY <2>1, SubSeqEmpty DEF Records
  <2> QED
    BY <2>1, <2>2, <2>3 DEF Log!Init
<1>2. ArchiveInv /\ ArchiveInv' /\ [ArchiveNext]_archiveVars => (sound' => [Log!Next]_Log!vars)
  <2> SUFFICES ASSUME ArchiveInv, ArchiveInv', [ArchiveNext]_archiveVars, sound' PROVE [Log!Next]_Log!vars
    OBVIOUS
  <2>1. Lasting /\ Soundness
    BY SoundBefore DEF ArchiveInv
  <2>2. SubSeq(Bodies(events), 1, ValidPrefix(events)) = Records(events)
    BY <2>1, LogIs DEF Lasting, Soundness
  <2>3. SubSeq(Bodies(events'), 1, ValidPrefix(events')) = Records(events')
    <3>1. events' \in Seq(Lines) /\ Whole(events', Kept(events'))
      BY DEF ArchiveInv, Lasting, Soundness, Whole, Chained, Kept, Bodies
    <3> QED
      BY <3>1, LogIs
  <2> DEFINE chain == SubSeq(Bodies(events), 1, ValidPrefix(events))
             settled == IF manifest \in {Absent, Torn} THEN NoSeal ELSE manifest.state
  <2>4. /\ chain = Records(events) /\ chain' = Records(events')
        /\ settled = SealState(manifest) /\ settled' = SealState(manifest')
    BY <2>2, <2>3 DEF SealState, ValidPrefix, Chained, Bodies, Absent, Torn
  <2> HIDE DEF chain, settled
  <2>5. \/ UNCHANGED <<chain, settled>>
        \/ \E b \in Body : settled = NoSeal /\ chain' = Append(chain, b) /\ UNCHANGED settled
        \/ settled = NoSeal /\ chain # <<>> /\ Last(chain) \in State /\ settled' = Last(chain) /\ UNCHANGED chain
    <3>1. LogStep
      BY <2>1, LogSteps
    <3> QED
      BY <2>4, <3>1, Zenon DEF LogStep
  <2>6. CASE UNCHANGED <<chain, settled>>
    BY <2>6 DEF Log!vars, chain, settled
  <2>7. ASSUME NEW b \in Body, settled = NoSeal, chain' = Append(chain, b), UNCHANGED settled
        PROVE  Log!Next
    <3>1. Log!Record(b)
      BY <2>7 DEF Log!Record, chain, settled
    <3> QED
      BY <3>1 DEF Log!Next
  <2>8. CASE settled = NoSeal /\ chain # <<>> /\ Last(chain) \in State /\ settled' = Last(chain) /\ UNCHANGED chain
    <3>1. Log!Last(chain) = Last(chain)
      BY DEF Last, Log!Last
    <3>2. /\ settled = NoSeal /\ chain # <<>> /\ Log!Last(chain) \in State
          /\ settled' = Log!Last(chain) /\ UNCHANGED chain
      BY <2>8, <3>1
    <3>3. Log!Seal
      BY <3>2, Zenon DEF Log!Seal, chain, settled
    <3> QED
      BY <3>3 DEF Log!Next
  <2> QED
    BY <2>5, <2>6, <2>7, <2>8
<1>3. ArchiveInv /\ [ArchiveNext]_archiveVars => ArchiveInv'
  BY ArchiveSteps
<1> QED
  BY <1>1, <1>2, <1>3, ArchiveBegins, PTL DEF ArchiveSpec, ImplementsLog
=============================================================================

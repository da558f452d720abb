-------------------------- MODULE LiveSessionProofs --------------------------
(***************************************************************************)
(* For every reply of the provider, every kind of descendant and all       *)
(* bounds: no command outlives its call, a session that closes in order    *)
(* leaves no run behind, and every conversation can be sent.               *)
(*                                                                         *)
(* For every projector policy, limit and size of result, and a death       *)
(* between any two events: the log of a run of the agent loop tells its    *)
(* effects and suffices to rebuild its evaluation, a cancel is prompt, and *)
(* every context sent is whole and fits.                                   *)
(***************************************************************************)
EXTENDS LiveSession, EventedRun, SequenceTheorems, SetSums, TLAPS

\* Where the run's thread is in a call.
Calling == {"tool", "shell", "stopping", "killed", "asked", "accepted", "started", "attaching", "pty"}

\* The conjuncts of TypeOK: the flags, and everything else.
Flags == trusted \in BOOLEAN /\ closing \in BOOLEAN /\ cancelled \in BOOLEAN /\ replied \in BOOLEAN

Values ==
    /\ ui \in {"confirm", "task", "watch", "show", "left"} /\ exit \in {None, 0, 2, 130, Raised}
    /\ lines \in Seq(Line) /\ keys \in 0..MaxKeys
    /\ worker \in Active \cup {"idle", "ended", "raised"}
    /\ status \in Statuses \cup {None}
    /\ history \in Seq(Message) /\ exchanges \in 0..MaxExchanges /\ reply \in Replies \cup {None}
    /\ todo \in Seq(Call)
    /\ leader \in {"none", "up", "gone"} /\ kin \in {"none", "up", "gone"} /\ kind \in Kinds \cup {None}
    /\ records \in Seq(Statuses)

\* What is there whenever the thread needs it.
SessionTypes ==
    /\ Values
    /\ worker \in Calling => todo # <<>>
    /\ worker = "answered" => reply \in Replies
    /\ worker = "ended" => status \in Statuses

\* A prompt is shown only once the run's thread is over, and it is never left
\* while a command's leader is up.
Ordered ==
    /\ leader = "up" => worker \in {"shell", "stopping", "pty"}
    /\ ui \in {"confirm", "task", "show"} => worker \notin Active
    /\ exit \in {0, 2, 130} => ui = "left" /\ worker \notin Active

SessionInv == SessionTypes /\ Ordered

-----------------------------------------------------------------------------
\* A reply the translation admits is a final message, or has calls.
LEMMA TurnIsMessage ==
    ASSUME NEW r \in Reply, NEW h, NEW offered, NEW optional, ~Rejects(r, h, offered, optional)
    PROVE  /\ Turn(r) \in Message
           /\ ~IsFinal(r) => r.calls \in Seq(Call) /\ r.calls # <<>>
<1>1. r.calls \in Seq(Call) /\ r.finish \in {"stop", "tool_calls"}
  BY DEF Reply, Rejects
<1>2. Reasoning(r) \in {None, "blank", "text"}
  BY DEF Reasoning
<1>3. Ids(r.calls) \in Seq(Nat)
  <2>1. \A i \in 1..Len(r.calls) : r.calls[i] \in Call
    BY <1>1, ElementOfSeq
  <2>2. \A c \in Call : c.id \in Nat
    BY DEF Call
  <2>3. Ids(r.calls) \in [1..Len(r.calls) -> Nat] /\ Len(r.calls) \in Nat
    BY <1>1, <2>1, <2>2, LenProperties DEF Ids
  <2> QED
    BY <2>3, SeqDef
<1>4. ASSUME ~IsFinal(r) PROVE r.calls # <<>>
  <2>1. r.finish = "tool_calls"
    BY <1>1, <1>4 DEF IsFinal
  <2>2. Len(r.calls) \in 1..MaxBatch
    BY <2>1 DEF Rejects, BadCalls
  <2> QED
    BY <2>2
<1> QED
  BY <1>1, <1>2, <1>3, <1>4 DEF Turn, Message

LEMMA SessionBegins == Init => SessionInv
BY SessionAssumption DEF Init, SessionInv, SessionTypes, Values, Ordered, Calling, Active

-----------------------------------------------------------------------------
(* The main thread and the human.                                          *)

LEMMA MainSteps ==
    ASSUME SessionInv, Confirm \/ TaskRefused \/ StartRun \/ Collect \/ Show \/ Interrupt \/ InterruptPrompt
    PROVE  SessionInv'
<1> USE SessionAssumption DEF SessionInv, Ordered, Calling, Active
<1>0. lines # <<>> => Tail(lines) \in Seq(Line)
  BY HeadTailProperties DEF SessionTypes, Values
<1>1. CASE Confirm
  <2>0. /\ ui' \in {"task", "left"} /\ exit' \in {exit, 0, 2} /\ lines' \in Seq(Line)
        /\ UNCHANGED <<conversation, todo, command, keys, records, worker, status>>
    BY <1>0, <1>1 DEF Confirm, Prompts, Shows, Leaves, Main
  <2>1. SessionTypes'
    BY <2>0 DEF SessionTypes, Values, conversation, command
  <2> QED
    BY <1>1, <2>1 DEF Confirm, Prompts, Shows, Leaves, Main, conversation, command
<1>2. CASE TaskRefused
  <2>0. /\ ui' \in {"task", "left"} /\ exit' \in {exit, 0} /\ lines' \in Seq(Line)
        /\ UNCHANGED <<conversation, todo, command, keys, records, worker, status>>
    BY <1>0, <1>2 DEF TaskRefused, ReadsTask, Prompts, Shows, Leaves, Main
  <2>1. SessionTypes'
    BY <2>0 DEF SessionTypes, Values, conversation, command
  <2> QED
    BY <1>2, <2>1 DEF TaskRefused, ReadsTask, Prompts, Shows, Leaves, Main, conversation, command
<1>3. CASE StartRun
  <2>1. history' \in Seq(Message)
    BY <1>3 DEF StartRun, User, Message
  <2>2. SessionTypes'
    BY <1>3, <2>1 DEF StartRun, ReadsTask, SessionTypes, Values, command
  <2> QED
    BY <1>3, <2>2 DEF StartRun, ReadsTask, SessionTypes, Values, command
<1>4. CASE Collect
  <2>0. worker = "ended" => Append(records, status) \in Seq(Statuses)
    BY AppendProperties DEF SessionTypes, Values
  <2>1. records' \in Seq(Statuses)
    BY <1>4, <2>0 DEF Collect, SessionTypes, Values
  <2>2. SessionTypes'
    BY <1>4, <2>1 DEF Collect, SessionTypes, Values, Main, tty, conversation, command
  <2> QED
    BY <1>4, <2>2 DEF Collect, Main, tty, conversation, command, SessionTypes, Values, Raised
<1>5. CASE Show
  <2>1. SessionTypes'
    BY <1>5 DEF Show, SessionTypes, Values, Prompts, Shows, Leaves, Main, conversation, command
  <2> QED
    BY <1>5, <2>1 DEF Show, Prompts, Shows, Leaves, Main, conversation, command
<1>6. CASE Interrupt
  <2>1. /\ (ui' = ui /\ exit' = exit) \/ (ui' = "left" /\ exit' = Raised)
        /\ lines' = lines \/ lines' = <<>>
        /\ ui = "watch" /\ UNCHANGED <<conversation, todo, command, keys, worker, status, records>>
    BY <1>6 DEF Interrupt, Main
  <2>2. lines' \in Seq(Line) /\ ui' \in {"watch", "left"} /\ exit' \in {exit, Raised}
    BY <2>1, EmptySeq DEF SessionTypes, Values
  <2>3. SessionTypes'
    BY <2>1, <2>2 DEF SessionTypes, Values, conversation, command
  <2> QED
    BY <2>1, <2>3 DEF conversation, command, Raised
<1>7. CASE InterruptPrompt
  <2>1. SessionTypes'
    BY <1>7 DEF InterruptPrompt, SessionTypes, Values, Leaves, Main, conversation, command
  <2> QED
    BY <1>7, <2>1 DEF InterruptPrompt, Leaves, Main, conversation, command
<1> QED
  BY <1>1, <1>2, <1>3, <1>4, <1>5, <1>6, <1>7

LEMMA HumanSteps ==
    ASSUME SessionInv,
           \/ \E text \in {"yes", "no", "task", "exit"} : Types(text)
           \/ TypesKeys \/ LeaderExits \/ KinExits \/ UNCHANGED vars
    PROVE  SessionInv'
<1> USE SessionAssumption DEF SessionInv, SessionTypes, Values, Ordered, Calling, Active
<1>1. CASE \E text \in {"yes", "no", "task", "exit"} : Types(text)
  BY <1>1 DEF Types, Main, screen, conversation, command, Line
<1>2. CASE TypesKeys
  BY <1>2 DEF TypesKeys, Main, screen, conversation, command, Line
<1>3. CASE LeaderExits \/ KinExits
  BY <1>3 DEF LeaderExits, KinExits, World, screen, tty, conversation
<1>4. CASE UNCHANGED vars
  BY <1>4 DEF vars, screen, tty, conversation, command
<1> QED
  BY <1>1, <1>2, <1>3, <1>4

-----------------------------------------------------------------------------
(* The run's thread, between two calls.                                    *)

LEMMA TurnSteps ==
    ASSUME SessionInv,
           \/ TurnCancelled \/ Limit \/ Send \/ TransportFails \/ \E r \in Replies : Answer(r)
           \/ AnswerRefused \/ CallsRefused \/ Raise
    PROVE  SessionInv'
<1> USE SessionAssumption
    DEF SessionInv, SessionTypes, Values, Ordered, Calling, Active, Loop, NoTool, Ends, Goes, Statuses,
        screen, tty, conversation, command
<1>1. CASE TurnCancelled \/ Limit
  BY <1>1 DEF TurnCancelled, Limit
<1>2. CASE Send
  BY <1>2 DEF Send
<1>3. CASE TransportFails
  BY <1>3 DEF TransportFails
<1>4. CASE \E r \in Replies : Answer(r)
  BY <1>4 DEF Answer
<1>5. CASE AnswerRefused
  BY <1>5 DEF AnswerRefused, Admits
<1>6. CASE CallsRefused
  BY <1>6 DEF CallsRefused, Admits
<1>7. CASE Raise
  BY <1>7 DEF Raise
<1> QED
  BY <1>1, <1>2, <1>3, <1>4, <1>5, <1>6, <1>7

LEMMA AdvanceStep ==
    ASSUME SessionInv, Advance
    PROVE  SessionInv'
<1>1. reply \in Reply /\ ~Rejects(reply, history, Tools, trusted)
  BY SessionAssumption DEF Advance, Admits, SessionInv, SessionTypes
<1>2. Turn(reply) \in Message /\ (~IsFinal(reply) => reply.calls \in Seq(Call) /\ reply.calls # <<>>)
  BY <1>1, TurnIsMessage
<1>3. history' \in Seq(Message)
  <2>1. history \in Seq(Message)
    BY DEF SessionInv, SessionTypes, Values
  <2>2. Append(history, Turn(reply)) \in Seq(Message)
    BY <1>2, <2>1, AppendProperties
  <2>3. history' \in {history, Append(history, Turn(reply))}
    BY DEF Advance
  <2> QED
    BY <2>1, <2>2, <2>3
<1>4. \/ worker' = "raised" /\ UNCHANGED <<status, todo>>
      \/ worker' = "ended" /\ status' = "completed" /\ UNCHANGED todo
      \/ worker' = "tool" /\ UNCHANGED status /\ todo' = reply.calls /\ ~IsFinal(reply)
  BY DEF Advance, Goes, Ends
<1>5. UNCHANGED <<screen, trusted, cancelled, tty, command, exchanges>> /\ reply' = None /\ worker = "answered"
  BY DEF Advance, Admits, Loop
<1>6. SessionTypes'
  BY <1>2, <1>3, <1>4, <1>5 DEF SessionInv, SessionTypes, Values, Calling, Active, Statuses, screen, tty, command
<1> QED
  BY <1>4, <1>5, <1>6 DEF SessionInv, Ordered, Active, screen, command

-----------------------------------------------------------------------------
(* A call.                                                                 *)

\* A call returns, raises or is cancelled once no leader is up.
LEMMA CallEnds ==
    ASSUME SessionInv, worker \in Calling, leader # "up" \/ worker \in {"shell", "stopping", "pty"},
           leader # "up", Settles, Loop, UNCHANGED <<exchanges, reply>>,
           lines' \in Seq(Line), keys' = keys
    PROVE  SessionInv'
<1>1. todo \in Seq(Call) /\ todo # <<>> /\ history \in Seq(Message)
  BY DEF SessionInv, SessionTypes, Values
<1>2. Head(todo).id \in Nat /\ Tail(todo) \in Seq(Call) /\ (Len(todo) # 1 => Tail(todo) # <<>>)
  <2>1. Head(todo) \in Call /\ Tail(todo) \in Seq(Call) /\ Len(Tail(todo)) = Len(todo) - 1 /\ Len(todo) \in Nat
    BY <1>1, HeadTailProperties, LenProperties
  <2>2. Head(todo).id \in Nat
    BY <2>1 DEF Call
  <2>3. Len(Tail(todo)) # 0 => Tail(todo) # <<>>
    BY EmptySeq
  <2> QED
    BY <2>1, <2>2, <2>3
<1>3. Append(history, Result(Head(todo).id)) \in Seq(Message)
  <2>1. Result(Head(todo).id) \in Message
    BY <1>2 DEF Result, Message
  <2> QED
    BY <1>1, <2>1, AppendProperties
<1>4. /\ \/ worker' = "ended" /\ status' \in {"cancelled", "tool_error"} /\ UNCHANGED <<history, todo>>
         \/ /\ worker' = IF Len(todo) = 1 THEN "turn" ELSE "tool"
            /\ status' = status /\ todo' = Tail(todo) /\ history' = Append(history, Result(Head(todo).id))
      /\ leader' = "none" /\ kin' = "none" /\ kind' = None
  BY DEF Settles, Returns, Fails, NoCommand, Ends, Goes
<1>5. history' \in Seq(Message) /\ todo' \in Seq(Call) /\ (worker' = "tool" => todo' # <<>>)
  BY <1>1, <1>2, <1>3, <1>4
<1>6. UNCHANGED <<screen, trusted, cancelled>>
  BY DEF Loop
<1>7. Values'
  BY <1>4, <1>5, <1>6 DEF SessionInv, SessionTypes, Values, Statuses, Active, screen
<1>8. SessionTypes'
  BY <1>4, <1>5, <1>7 DEF SessionTypes, Calling, Statuses
<1>9. ui \notin {"confirm", "task", "show"} /\ exit \notin {0, 2, 130}
  BY DEF SessionInv, Ordered, Calling, Active
<1> QED
  BY <1>4, <1>6, <1>8, <1>9 DEF SessionInv, Ordered, screen

LEMMA CallSteps ==
    ASSUME SessionInv,
           ReadFile \/ WriteFile \/ Answered \/ HandoffCancelled \/ CommandFails \/ ShellReturns \/ PtyReturns
    PROVE  SessionInv'
<1>1. lines \in Seq(Line)
  BY DEF SessionInv, SessionTypes, Values
<1>2. worker \in {"tool", "asked", "accepted", "started", "attaching"} => leader # "up"
  BY DEF SessionInv, Ordered
<1> USE DEF InTool, Calling, tty
<1>3. CASE ReadFile \/ WriteFile
  BY <1>1, <1>2, <1>3, CallEnds DEF ReadFile, WriteFile
<1>4. CASE Answered
  <2>1. worker = "asked" /\ lines # <<>> /\ lines' = Tail(lines) /\ UNCHANGED <<replied, keys, exchanges, reply>> /\ Loop
    BY <1>4 DEF Answered
  <2>2. lines' \in Seq(Line)
    BY <1>1, <2>1
  <2>3. CASE Returns
    BY <1>1, <1>2, <2>1, <2>2, <2>3, CallEnds DEF Settles
  <2>4. CASE Goes("accepted") /\ UNCHANGED <<history, todo, command>>
    <3>1. SessionTypes'
      BY <2>1, <2>2, <2>4, <1>1
         DEF SessionInv, SessionTypes, Values, Goes, Loop, screen, command, Active
    <3> QED
      BY <2>1, <2>4, <3>1 DEF SessionInv, Ordered, Active, Goes, Loop, screen, command
  <2> QED
    BY <1>4, <2>3, <2>4 DEF Answered
<1>5. CASE HandoffCancelled
  BY <1>1, <1>2, <1>5, CallEnds DEF HandoffCancelled, Settles
<1>6. CASE CommandFails
  BY <1>1, <1>2, <1>6, CallEnds DEF CommandFails, Settles
<1>7. CASE ShellReturns
  BY <1>1, <1>7, CallEnds DEF ShellReturns
<1>8. CASE PtyReturns
  BY <1>1, <1>8, CallEnds DEF PtyReturns
<1> QED
  BY <1>3, <1>4, <1>5, <1>6, <1>7, <1>8

LEMMA CommandSteps ==
    ASSUME SessionInv,
           \/ Ask \/ Attach \/ StopShell \/ KillShell \/ StopPty \/ ForwardKeys
           \/ \E k \in Kinds \cup {None} : RunShell(k) \/ Spawn(k)
    PROVE  SessionInv'
<1> USE DEF InTool, InCommand, Loop, Goes, SessionInv, Ordered, Calling, Active, screen, tty
<1>1. CASE Ask
  <2>1. SessionTypes'
    BY <1>1 DEF Ask, Shows, SessionTypes, Values, command
  <2> QED
    BY <1>1, <2>1 DEF Ask, command
<1>2. CASE Attach
  <2>1. SessionTypes'
    BY <1>2 DEF Attach, SessionTypes, Values, command
  <2> QED
    BY <1>2, <2>1 DEF Attach, command
<1>3. CASE StopShell
  <2>1. SessionTypes'
    BY <1>3 DEF StopShell, Terminates, SessionTypes, Values
  <2> QED
    BY <1>3, <2>1 DEF StopShell, Terminates
<1>4. CASE KillShell
  <2>1. SessionTypes'
    BY <1>4 DEF KillShell, Kills, SessionTypes, Values
  <2> QED
    BY <1>4, <2>1 DEF KillShell, Kills
<1>5. CASE StopPty
  <2>1. SessionTypes'
    BY <1>5 DEF StopPty, Terminates, Kills, SessionTypes, Values
  <2> QED
    BY <1>5, <2>1 DEF StopPty, Terminates, Kills
<1>6. CASE ForwardKeys
  <2>1. SessionTypes'
    BY <1>6 DEF ForwardKeys, SessionTypes, Values, command
  <2> QED
    BY <1>6, <2>1 DEF ForwardKeys, command
<1>7. CASE \E k \in Kinds \cup {None} : RunShell(k) \/ Spawn(k)
  <2>1. SessionTypes'
    BY <1>7 DEF RunShell, Spawn, NewCommand, SessionTypes, Values
  <2> QED
    BY <1>7, <2>1 DEF RunShell, Spawn, NewCommand
<1> QED
  BY <1>1, <1>2, <1>3, <1>4, <1>5, <1>6, <1>7

-----------------------------------------------------------------------------
(* The flags.                                                              *)

LEMMA FlagSteps ==
    ASSUME Flags, [Next]_vars
    PROVE  Flags'
<1> USE DEF Flags, Main, Loop, InTool, InCommand, screen, tty
<1>1. CASE Session
  <2>1. CASE Confirm
    BY <2>1 DEF Confirm, Prompts, Shows, Leaves
  <2>2. CASE TaskRefused
    BY <2>2 DEF TaskRefused, Prompts, Shows, Leaves
  <2>3. CASE StartRun
    BY <2>3 DEF StartRun
  <2>4. CASE Collect
    BY <2>4 DEF Collect
  <2>5. CASE Show
    BY <2>5 DEF Show, Prompts, Shows, Leaves
  <2> QED
    BY <1>1, <2>1, <2>2, <2>3, <2>4, <2>5 DEF Session
<1>2. CASE Interrupt \/ InterruptPrompt
  BY <1>2 DEF Interrupt, InterruptPrompt, Leaves
<1>3. CASE (\E text \in {"yes", "no", "task", "exit"} : Types(text)) \/ TypesKeys
  BY <1>3 DEF Types, TypesKeys
<1>4. CASE LeaderExits \/ KinExits
  BY <1>4 DEF LeaderExits, KinExits, World
<1>5. CASE UNCHANGED vars
  BY <1>5 DEF vars
<1>6. CASE Worker
  <2> USE DEF NoTool
  <2>1. CASE TurnCancelled \/ Limit \/ Send \/ TransportFails \/ \E r \in Replies : Answer(r)
    BY <2>1 DEF TurnCancelled, Limit, Send, TransportFails, Answer
  <2>2. CASE AnswerRefused \/ CallsRefused \/ Advance \/ Raise
    BY <2>2 DEF AnswerRefused, CallsRefused, Advance, Raise, Admits
  <2>3. CASE ReadFile \/ WriteFile \/ CommandFails \/ Answered \/ HandoffCancelled
    BY <2>3 DEF ReadFile, WriteFile, CommandFails, Answered, HandoffCancelled
  <2>4. CASE Ask
    BY <2>4 DEF Ask, Shows
  <2>5. CASE Attach \/ StopShell \/ KillShell \/ ShellReturns \/ StopPty \/ ForwardKeys \/ PtyReturns
    BY <2>5 DEF Attach, StopShell, KillShell, ShellReturns, StopPty, ForwardKeys, PtyReturns
  <2>6. CASE \E k \in Kinds \cup {None} : RunShell(k) \/ Spawn(k)
    BY <2>6 DEF RunShell, Spawn
  <2> QED
    BY <1>6, <2>1, <2>2, <2>3, <2>4, <2>5, <2>6 DEF Worker
<1> QED
  BY <1>1, <1>2, <1>3, <1>4, <1>5, <1>6 DEF Next

-----------------------------------------------------------------------------
\* Whatever the provider answers and whenever the human interrupts: the leader
\* of a command is gone when its call returns, and :exit, the end of the input
\* or a second interrupt leave no run behind (LiveTuiApplication.run,
\* run_noninteractive, the terminal adapter).
THEOREM NothingIsLeftBehind == Spec => []NothingOutlives
<1>1. SessionInv /\ [Next]_vars => SessionInv'
  BY MainSteps, HumanSteps, TurnSteps, AdvanceStep, CallSteps, CommandSteps DEF Next, Session, Worker
<1>2. Init => Flags
  BY DEF Init, Flags
<1>3. Flags /\ SessionInv => NothingOutlives
  BY DEF Flags, SessionInv, SessionTypes, Values, Ordered, NothingOutlives, TypeOK
<1> QED
  BY SessionBegins, FlagSteps, <1>1, <1>2, <1>3, PTL DEF Spec

-----------------------------------------------------------------------------
(* The conversation: with the results that are still due it can be sent.   *)

Between == {"turn", "sent", "answered"}

\* The results the calls that are left will have.
Due(queue) == [i \in DOMAIN queue |-> Result(queue[i].id)]

Conversation ==
    /\ worker \in Between => Encodable(history, trusted)
    /\ worker \in Calling => Encodable(history \o Due(todo), trusted)

LEMMA Joined ==
    ASSUME NEW one \in Seq(Message), NEW two \in Seq(Message), NEW both, both = one \o two
    PROVE  /\ both \in Seq(Message) /\ Len(both) = Len(one) + Len(two)
           /\ \A i \in 1..Len(both) : i <= Len(one) => both[i] = one[i]
           /\ \A i \in 1..Len(both) : i > Len(one) => both[i] = two[i - Len(one)]
<1>1. /\ one \o two \in Seq(Message)
      /\ Len(one \o two) = Len(one) + Len(two)
      /\ \A i \in 1..Len(one) + Len(two) : (one \o two)[i] = IF i <= Len(one) THEN one[i] ELSE two[i - Len(one)]
  BY ConcatProperties, Zenon
<1>2. /\ both \in Seq(Message)
      /\ Len(both) = Len(one) + Len(two)
      /\ \A i \in 1..Len(one) + Len(two) : both[i] = IF i <= Len(one) THEN one[i] ELSE two[i - Len(one)]
  BY <1>1, Zenon
<1>3. Len(one) \in Nat /\ Len(two) \in Nat
  BY LenProperties
<1> QED
  BY <1>2, <1>3

LEMMA DueIsSeq ==
    ASSUME NEW queue \in Seq(Call)
    PROVE  /\ Due(queue) \in Seq(Message) /\ Len(Due(queue)) = Len(queue)
           /\ \A i \in 1..Len(queue) : Due(queue)[i] = Result(queue[i].id)
<1>1. Len(queue) \in Nat /\ DOMAIN queue = 1..Len(queue)
  BY LenProperties
<1>2. \A i \in 1..Len(queue) : Result(queue[i].id) \in Message
  <2>1. \A i \in 1..Len(queue) : queue[i] \in Call
    BY ElementOfSeq
  <2>2. \A c \in Call : Result(c.id) \in Message
    BY DEF Call, Result, Message
  <2> QED
    BY <2>1, <2>2
<1>3. Due(queue) \in [1..Len(queue) -> Message]
  BY <1>1, <1>2 DEF Due
<1>4. Due(queue) \in Seq(Message)
  BY <1>1, <1>3, SeqDef
<1>5. DOMAIN Due(queue) = 1..Len(queue) /\ DOMAIN Due(queue) = 1..Len(Due(queue)) /\ Len(Due(queue)) \in Nat
  BY <1>3, <1>4, LenProperties
<1> QED
  BY <1>1, <1>4, <1>5 DEF Due

\* A result that comes in is the one that was due next.
LEMMA ResultWasDue ==
    ASSUME NEW h \in Seq(Message), NEW queue \in Seq(Call), queue # <<>>
    PROVE  Append(h, Result(Head(queue).id)) \o Due(Tail(queue)) = h \o Due(queue)
<1> DEFINE result == Result(Head(queue).id)
           left == Append(h, result)
           one == left \o Due(Tail(queue))
           other == h \o Due(queue)
<1>1. /\ Head(queue) = queue[1] /\ Head(queue) \in Call /\ Tail(queue) \in Seq(Call)
      /\ Len(Tail(queue)) = Len(queue) - 1 /\ Len(queue) \in Nat /\ Len(queue) # 0 /\ Len(h) \in Nat
      /\ \A i \in 1..Len(Tail(queue)) : Tail(queue)[i] = queue[i + 1]
  BY HeadTailProperties, LenProperties, EmptySeq
<1>2. result \in Message
  BY <1>1 DEF Result, Message, Call
<1>3. /\ left \in Seq(Message) /\ Len(left) = Len(h) + 1 /\ left[Len(h) + 1] = result
      /\ \A i \in 1..Len(h) : left[i] = h[i]
  BY <1>2, AppendProperties
<1>4. /\ Due(queue) \in Seq(Message) /\ Len(Due(queue)) = Len(queue)
      /\ Due(Tail(queue)) \in Seq(Message) /\ Len(Due(Tail(queue))) = Len(queue) - 1
      /\ \A i \in 1..Len(queue) : Due(queue)[i] = Result(queue[i].id)
      /\ \A i \in 1..Len(queue) - 1 : Due(Tail(queue))[i] = Result(queue[i + 1].id)
  BY <1>1, DueIsSeq
<1>5. one = left \o Due(Tail(queue)) /\ other = h \o Due(queue)
  OBVIOUS
<1> HIDE DEF result, left, one, other
<1>6. /\ one \in Seq(Message) /\ Len(one) = Len(h) + Len(queue)
      /\ \A i \in 1..Len(one) : i <= Len(left) => one[i] = left[i]
      /\ \A i \in 1..Len(one) : i > Len(left) => one[i] = Due(Tail(queue))[i - Len(left)]
      /\ other \in Seq(Message) /\ Len(other) = Len(h) + Len(queue)
      /\ \A i \in 1..Len(other) : i <= Len(h) => other[i] = h[i]
      /\ \A i \in 1..Len(other) : i > Len(h) => other[i] = Due(queue)[i - Len(h)]
  <2>1. /\ one \in Seq(Message) /\ Len(one) = Len(left) + Len(Due(Tail(queue)))
        /\ \A i \in 1..Len(one) : i <= Len(left) => one[i] = left[i]
        /\ \A i \in 1..Len(one) : i > Len(left) => one[i] = Due(Tail(queue))[i - Len(left)]
    <3>1. left \in Seq(Message) /\ Due(Tail(queue)) \in Seq(Message)
      BY <1>3, <1>4
    <3> QED
      BY <3>1, <1>5, Joined
  <2>2. /\ other \in Seq(Message) /\ Len(other) = Len(h) + Len(Due(queue))
        /\ \A i \in 1..Len(other) : i <= Len(h) => other[i] = h[i]
        /\ \A i \in 1..Len(other) : i > Len(h) => other[i] = Due(queue)[i - Len(h)]
    <3>1. h \in Seq(Message) /\ Due(queue) \in Seq(Message)
      BY <1>4
    <3> QED
      BY <3>1, <1>5, Joined
  <2>3. Len(one) = Len(h) + Len(queue)
    <3>1. Len(one) = (Len(h) + 1) + (Len(queue) - 1)
      BY <1>3, <1>4, <2>1, Zenon
    <3> QED
      BY <1>1, <3>1
  <2>4. Len(other) = Len(h) + Len(queue)
    BY <1>4, <2>2, Zenon
  <2> QED
    BY <2>1, <2>2, <2>3, <2>4, Zenon
<1>7. ASSUME NEW i \in 1..Len(one) PROVE one[i] = other[i]
  <2> i \in 1..Len(one) /\ i \in 1..Len(other) /\ i \in Nat /\ Len(left) = Len(h) + 1
    BY <1>1, <1>3, <1>6
  <2>1. CASE i <= Len(h)
    <3>1. i \in 1..Len(h) /\ i <= Len(left)
      BY <1>1, <1>3, <2>1
    <3> QED
      BY <1>3, <1>6, <2>1, <3>1, Zenon
  <2>2. CASE i = Len(h) + 1
    <3>1. one[i] = result
      <4>1. i <= Len(left)
        BY <1>1, <2>2
      <4>2. one[i] = left[i]
        BY <1>6, <4>1, Zenon
      <4> QED
        BY <1>3, <2>2, <4>2, Zenon
    <3>2. other[i] = Due(queue)[1]
      <4>1. i > Len(h) /\ i - Len(h) = 1
        BY <1>1, <2>2
      <4> QED
        BY <1>6, <4>1, Zenon
    <3> QED
      BY <1>1, <1>4, <3>1, <3>2 DEF result
  <2>3. CASE i > Len(h) + 1
    <3>1. i - Len(left) \in 1..Len(queue) - 1 /\ i - Len(h) = (i - Len(left)) + 1 /\ i - Len(h) \in 1..Len(queue)
      BY <1>1, <1>3, <1>6, <2>3
    <3>2. one[i] = Due(Tail(queue))[i - Len(left)] /\ other[i] = Due(queue)[i - Len(h)]
      <4>1. i > Len(left) /\ i > Len(h)
        BY <1>1, <2>3
      <4> QED
        BY <1>6, <4>1, Zenon
    <3> QED
      BY <1>4, <3>1, <3>2
  <2> QED
    BY <1>1, <2>1, <2>2, <2>3
<1>8. one = other
  BY <1>1, <1>6, <1>7, SeqEqual
<1> QED
  BY <1>8 DEF one, other, left, result

\* A turn of calls the translation admits, with its results, can be sent
\* after a conversation that can.
LEMMA ExchangeEncodes ==
    ASSUME NEW h \in Seq(Message), NEW r \in Reply, NEW offered, NEW optional \in BOOLEAN,
           Encodable(h, optional), ~Rejects(r, h, offered, optional), ~IsFinal(r)
    PROVE  Encodable(Append(h, Turn(r)) \o Due(r.calls), optional)
<1> DEFINE n == Len(h)
           m == Len(r.calls)
           said == Turn(r)
           left == Append(h, said)
           new == left \o Due(r.calls)
<1>1. /\ r.calls \in Seq(Call) /\ said \in Message
      /\ said = [role |-> "calls", ids |-> Ids(r.calls), reasoning |-> Reasoning(r)]
  BY TurnIsMessage DEF Turn
<1>2. n \in Nat /\ m \in Nat /\ DOMAIN h = 1..n /\ DOMAIN r.calls = 1..m
  BY <1>1, LenProperties
<1>3. /\ said.role = "calls" /\ DOMAIN said.ids = 1..m /\ Len(said.ids) = m
      /\ \A k \in 1..m : said.ids[k] = r.calls[k].id
  <2>1. said.ids = Ids(r.calls) /\ said.role = "calls" /\ said.ids \in Seq(Nat)
    BY <1>1 DEF Message
  <2>2. DOMAIN said.ids = 1..m /\ \A k \in 1..m : said.ids[k] = r.calls[k].id
    BY <1>2, <2>1 DEF Ids
  <2>3. DOMAIN said.ids = 1..Len(said.ids) /\ Len(said.ids) \in Nat
    BY <2>1, LenProperties
  <2> QED
    BY <1>2, <2>1, <2>2, <2>3
<1>4. r.finish = "tool_calls" /\ ~BadCalls(r, h) /\ ~BadReasoning(r, optional)
  BY DEF Rejects, IsFinal, Reply
<1>5. m \in 1..MaxBatch /\ ToSet(said.ids) \cap HistoricalIds(h) = {}
  BY <1>1, <1>4 DEF BadCalls
<1>6. optional \/ said.reasoning # None
  <2>1. r.reasoning \in {"none", "empty", "blank", "text", "other"}
    BY DEF Reply, Text
  <2>2. said.reasoning = Reasoning(r)
    BY <1>1
  <2> QED
    BY <1>4, <2>1, <2>2, SessionAssumption DEF BadReasoning, Reasoning
<1>7. left \in Seq(Message) /\ Len(left) = n + 1 /\ left[n + 1] = said /\ \A i \in 1..n : left[i] = h[i]
  BY <1>1, AppendProperties
<1>8. /\ Due(r.calls) \in Seq(Message) /\ Len(Due(r.calls)) = m
      /\ \A k \in 1..m : Due(r.calls)[k] = Result(r.calls[k].id)
  BY <1>1, DueIsSeq
<1>0. new = left \o Due(r.calls)
  OBVIOUS
<1> HIDE DEF said, left, m, new
<1>9. /\ new \in Seq(Message) /\ Len(new) = n + 1 + m /\ DOMAIN new = 1..n + 1 + m
      /\ \A i \in 1..Len(new) : i <= n + 1 => new[i] = left[i]
      /\ \A i \in 1..Len(new) : i > n + 1 => new[i] = Due(r.calls)[i - (n + 1)]
  <2>1. /\ new \in Seq(Message) /\ Len(new) = Len(left) + Len(Due(r.calls))
        /\ \A i \in 1..Len(new) : i <= Len(left) => new[i] = left[i]
        /\ \A i \in 1..Len(new) : i > Len(left) => new[i] = Due(r.calls)[i - Len(left)]
    <3>1. left \in Seq(Message) /\ Due(r.calls) \in Seq(Message)
      BY <1>7, <1>8
    <3> QED
      BY <3>1, <1>0, Joined
  <2>2. DOMAIN new = 1..Len(new)
    BY <2>1, LenProperties
  <2>3. Len(left) + Len(Due(r.calls)) = n + 1 + m
    BY <1>2, <1>7, <1>8
  <2> QED
    BY <1>7, <2>1, <2>2, <2>3
<1>10. \A i \in 1..n : i \in DOMAIN new /\ new[i] = h[i]
  BY <1>2, <1>7, <1>9
<1>11. n + 1 \in DOMAIN new /\ new[n + 1] = said
  BY <1>2, <1>7, <1>9
<1>12. \A k \in 1..m : n + 1 + k \in DOMAIN new /\ new[n + 1 + k] = Result(r.calls[k].id)
  <2> SUFFICES ASSUME NEW k \in 1..m
               PROVE  n + 1 + k \in DOMAIN new /\ new[n + 1 + k] = Result(r.calls[k].id)
    OBVIOUS
  <2>1. n + 1 + k \in 1..n + 1 + m /\ n + 1 + k > n + 1 /\ (n + 1 + k) - (n + 1) = k
    BY <1>2
  <2> HIDE DEF n
  <2> QED
    BY <1>8, <1>9, <2>1
<1> HIDE DEF n
<1>13. \A i \in DOMAIN new : i \in 1..n \/ i = n + 1 \/ \E k \in 1..m : i = n + 1 + k
  <2>1. \A i \in 1..n + 1 + m : i \in 1..n \/ i = n + 1 \/ (i - (n + 1) \in 1..m /\ i = n + 1 + (i - (n + 1)))
    BY <1>2
  <2>2. DOMAIN new = 1..n + 1 + m
    BY <1>9
  <2> QED
    BY <2>1, <2>2, Zenon
<1>14. \A id : Result(id).role = "result" /\ Result(id).role \notin {"calls", "final"}
  BY DEF Result
<1>15. \A i \in DOMAIN new : new[i].role \in {"calls", "final"} => i \in 1..n \/ i = n + 1
  BY <1>12, <1>13, <1>14
<1>16. Paired(new)
  <2>1. ASSUME NEW i \in DOMAIN new, new[i].role = "calls", NEW k \in DOMAIN new[i].ids
        PROVE  i + k \in DOMAIN new /\ new[i + k] = Result(new[i].ids[k])
    <3>1. CASE i \in 1..n
      <4>1. i \in DOMAIN h /\ h[i].role = "calls" /\ k \in DOMAIN h[i].ids /\ new[i] = h[i]
        BY <1>2, <1>10, <2>1, <3>1
      <4>2. i + k \in DOMAIN h /\ h[i + k] = Result(h[i].ids[k])
        BY <4>1 DEF Encodable, Paired
      <4> QED
        BY <1>2, <1>10, <4>1, <4>2
    <3>2. CASE i = n + 1
      BY <1>3, <1>11, <1>12, <2>1, <3>2
    <3> QED
      BY <1>15, <2>1, <3>1, <3>2
  <2>2. ASSUME NEW j \in DOMAIN new, new[j].role = "result"
        PROVE  \E i \in 1..j - 1 : new[i].role = "calls" /\ j - i <= Len(new[i].ids)
    <3>1. CASE j \in 1..n
      <4>1. j \in DOMAIN h /\ h[j].role = "result"
        BY <1>2, <1>10, <2>2, <3>1
      <4>2. PICK i \in 1..j - 1 : h[i].role = "calls" /\ j - i <= Len(h[i].ids)
        BY <4>1 DEF Encodable, Paired
      <4>3. i \in 1..n
        BY <1>2, <3>1
      <4> QED
        BY <1>10, <4>2, <4>3
    <3>2. ASSUME NEW k \in 1..m, j = n + 1 + k
          PROVE  \E i \in 1..j - 1 : new[i].role = "calls" /\ j - i <= Len(new[i].ids)
      <4>1. n + 1 \in 1..j - 1 /\ j - (n + 1) <= m
        BY <1>2, <3>2
      <4> QED
        BY <1>3, <1>11, <4>1
    <3>3. j # n + 1
      BY <1>3, <1>11, <2>2
    <3> QED
      BY <1>13, <3>1, <3>2, <3>3
  <2> QED
    BY <2>1, <2>2 DEF Paired
<1>17. FinalsAnswered(new)
  <2> SUFFICES ASSUME NEW i \in DOMAIN new, new[i].role = "final"
               PROVE  i + 1 \in DOMAIN new /\ new[i + 1].role = "user"
    BY DEF FinalsAnswered
  <2>1. i \in 1..n /\ h[i].role = "final"
    BY <1>3, <1>10, <1>11, <1>15
  <2>2. i + 1 \in DOMAIN h /\ h[i + 1].role = "user"
    BY <1>2, <2>1 DEF Encodable, FinalsAnswered
  <2> QED
    BY <1>2, <1>10, <2>2
<1>18. \A i \in DOMAIN new : Complete(new[i], optional)
  <2> SUFFICES ASSUME NEW i \in DOMAIN new PROVE Complete(new[i], optional)
    OBVIOUS
  <2>1. CASE i \in 1..n
    BY <1>2, <1>10, <2>1 DEF Encodable
  <2>2. CASE i = n + 1
    BY <1>3, <1>5, <1>6, <1>11, <2>2 DEF Complete
  <2>3. CASE \E k \in 1..m : i = n + 1 + k
    BY <1>12, <1>14, <2>3 DEF Complete
  <2> QED
    BY <1>13, <2>1, <2>2, <2>3
<1>19. ASSUME NEW i \in 1..n, h[i].role = "calls"
       PROVE  ToSet(said.ids) \cap ToSet(h[i].ids) = {}
  <2>1. ToSet(h[i].ids) \subseteq HistoricalIds(h)
    BY <1>2, <1>19 DEF HistoricalIds
  <2> QED
    BY <1>5, <2>1
<1>20. ASSUME NEW i \in DOMAIN new, NEW j \in DOMAIN new, i # j, new[i].role = "calls", new[j].role = "calls"
       PROVE  ToSet(new[i].ids) \cap ToSet(new[j].ids) = {}
  <2>1. CASE i \in 1..n /\ j \in 1..n
    BY <1>2, <1>10, <1>20, <2>1 DEF Encodable
  <2>2. CASE i \in 1..n /\ j = n + 1
    BY <1>10, <1>11, <1>19, <1>20, <2>2
  <2>3. CASE i = n + 1 /\ j \in 1..n
    BY <1>10, <1>11, <1>19, <1>20, <2>3
  <2> QED
    BY <1>15, <1>20, <2>1, <2>2, <2>3
<1>21. Encodable(new, optional)
  BY <1>16, <1>17, <1>18, <1>20 DEF Encodable
<1> QED
  BY <1>21 DEF new, left, said

LEMMA FirstEncodes == ASSUME NEW optional PROVE Encodable(<<User>>, optional)
<1>1. DOMAIN <<User>> = {1} /\ <<User>>[1].role = "user"
  BY DEF User
<1> QED
  BY <1>1 DEF Encodable, Paired, FinalsAnswered, Complete

\* The thread goes from one await to the next, or it is over.
LEMMA ConversationStays ==
    ASSUME Conversation, UNCHANGED <<history, todo, trusted>>,
           \/ worker' = worker \/ worker' \in {"ended", "raised"}
           \/ worker \in Between /\ worker' \in Between
           \/ worker \in Calling /\ worker' \in Calling
    PROVE  Conversation'
BY DEF Conversation, Between, Calling

LEMMA CallGoesOn ==
    ASSUME SessionInv, Conversation, worker \in Calling, Settles, UNCHANGED trusted
    PROVE  Conversation'
<1>1. todo \in Seq(Call) /\ todo # <<>> /\ history \in Seq(Message)
  BY DEF SessionInv, SessionTypes, Values
<1>2. CASE worker' = "ended"
  BY <1>2 DEF Conversation, Between, Calling
<1>3. CASE worker' # "ended"
  <2>1. /\ worker' = IF Len(todo) = 1 THEN "turn" ELSE "tool"
        /\ history' = Append(history, Result(Head(todo).id)) /\ todo' = Tail(todo)
    BY <1>3 DEF Settles, Returns, Fails, Ends, Goes
  <2>2. history' \o Due(todo') = history \o Due(todo)
    BY <1>1, <2>1, ResultWasDue
  <2>3. Encodable(history' \o Due(todo'), trusted)
    BY <2>2 DEF Conversation
  <2>4. CASE Len(todo) = 1
    <3>1. Due(todo') = <<>>
      <4>1. todo' \in Seq(Call) /\ Len(todo') = 0
        BY <1>1, <2>1, <2>4, HeadTailProperties
      <4>2. Due(todo') \in Seq(Message) /\ Len(Due(todo')) = 0
        BY <4>1, DueIsSeq
      <4> QED
        BY <4>2, EmptySeq
    <3>2. history' \in Seq(Message)
      <4>1. Head(todo) \in Call /\ \A c \in Call : c.id \in Nat
        BY <1>1, HeadTailProperties DEF Call
      <4>2. Result(Head(todo).id) \in Message
        BY <4>1 DEF Result, Message
      <4> QED
        BY <1>1, <2>1, <4>2, AppendProperties
    <3>3. history' \o <<>> = history'
      BY <3>2, ConcatEmptySeq
    <3> QED
      BY <2>1, <2>3, <2>4, <3>1, <3>3 DEF Conversation, Calling
  <2>5. CASE Len(todo) # 1
    BY <2>1, <2>3, <2>5 DEF Conversation, Between
  <2> QED
    BY <2>4, <2>5
<1> QED
  BY <1>2, <1>3

LEMMA ConversationSteps ==
    ASSUME Flags, SessionInv, Conversation, [Next]_vars
    PROVE  Conversation'
<1>1. CASE Session
  <2>1. CASE StartRun
    BY <2>1, FirstEncodes DEF StartRun, Conversation, Calling
  <2>2. CASE Confirm \/ TaskRefused \/ Collect \/ Show
    BY <2>2, ConversationStays DEF Confirm, TaskRefused, Collect, Show, Main, conversation
  <2> QED
    BY <1>1, <2>1, <2>2 DEF Session
<1>2. CASE Interrupt \/ InterruptPrompt \/ (\E text \in {"yes", "no", "task", "exit"} : Types(text)) \/ TypesKeys
  BY <1>2, ConversationStays DEF Interrupt, InterruptPrompt, Types, TypesKeys, Main, conversation
<1>3. CASE LeaderExits \/ KinExits \/ UNCHANGED vars
  BY <1>3, ConversationStays DEF LeaderExits, KinExits, World, vars, conversation
<1>4. CASE Worker
  <2> USE DEF Loop, InTool, InCommand
  <2>1. CASE TurnCancelled \/ Limit \/ Send \/ TransportFails \/ (\E r \in Replies : Answer(r)) \/ Raise
    BY <2>1, ConversationStays DEF TurnCancelled, Limit, Send, TransportFails, Answer, Raise, NoTool, Ends, Goes, conversation, Between
  <2>2. CASE AnswerRefused \/ CallsRefused
    BY <2>2, ConversationStays DEF AnswerRefused, CallsRefused, Admits, Ends
  <2>3. CASE Advance
    <3>1. reply \in Reply /\ ~Rejects(reply, history, Tools, trusted) /\ worker \in Between /\ UNCHANGED trusted
      BY <2>3, SessionAssumption DEF Advance, Admits, SessionInv, SessionTypes, Between
    <3>2. worker' \in {"raised", "ended"} \/
          (worker' = "tool" /\ ~IsFinal(reply) /\ history' = Append(history, Turn(reply)) /\ todo' = reply.calls)
      BY <2>3 DEF Advance, Goes, Ends
    <3>3. ~IsFinal(reply) => Encodable(Append(history, Turn(reply)) \o Due(reply.calls), trusted)
      BY <3>1, ExchangeEncodes DEF Conversation, Flags, SessionInv, SessionTypes, Values
    <3> QED
      BY <3>1, <3>2, <3>3 DEF Conversation, Between, Calling
  <2>4. CASE ReadFile \/ WriteFile \/ CommandFails \/ HandoffCancelled \/ ShellReturns \/ PtyReturns
    BY <2>4, CallGoesOn DEF ReadFile, WriteFile, CommandFails, HandoffCancelled, ShellReturns, PtyReturns, Calling, Settles
  <2>5. CASE Answered
    <3>1. CASE Returns
      BY <2>5, <3>1, CallGoesOn DEF Answered, Settles, Calling
    <3>2. CASE Goes("accepted") /\ UNCHANGED <<history, todo, command>>
      BY <2>5, <3>2, ConversationStays DEF Answered, Goes, Calling
    <3> QED
      BY <2>5, <3>1, <3>2 DEF Answered
  <2>6. CASE Ask \/ Attach \/ StopShell \/ KillShell \/ StopPty \/ ForwardKeys
    BY <2>6, ConversationStays DEF Ask, Attach, StopShell, KillShell, StopPty, ForwardKeys, Goes, Calling
  <2>7. CASE \E k \in Kinds \cup {None} : RunShell(k) \/ Spawn(k)
    BY <2>7, ConversationStays DEF RunShell, Spawn, Goes, Calling
  <2> QED
    BY <1>4, <2>1, <2>2, <2>3, <2>4, <2>5, <2>6, <2>7 DEF Worker
<1> QED
  BY <1>1, <1>2, <1>3, <1>4 DEF Next

\* Whatever the provider answers and the translation admits, whichever calls
\* return, fail or are declined: the loop never starts a turn with a
\* conversation encode_request refuses.
THEOREM EveryTurnEncodes == Spec => []NextTurnEncodes
<1>1. Init => Flags /\ Conversation
  BY DEF Init, Flags, Conversation, Between, Calling
<1>2. SessionInv /\ [Next]_vars => SessionInv'
  BY MainSteps, HumanSteps, TurnSteps, AdvanceStep, CallSteps, CommandSteps DEF Next, Session, Worker
<1>3. Conversation => NextTurnEncodes
  BY DEF Conversation, Between, NextTurnEncodes
<1> QED
  BY <1>1, <1>2, <1>3, SessionBegins, FlagSteps, ConversationSteps, PTL DEF Spec

-----------------------------------------------------------------------------
(* One run of the agent loop (EventedRun): recursion over a sequence, by   *)
(* which the log is told and a context is measured.                        *)

\* A bounded set of naturals has a greatest element.
LEMMA Greatest ==
    ASSUME NEW n \in Nat, NEW T \in SUBSET (0..n), T # {}
    PROVE  Max(T) \in T /\ \A y \in T : y <= Max(T)
<1> DEFINE S == {n - y : y \in T}
<1>0. \A y \in T : y \in Nat /\ n - y \in Nat
  OBVIOUS
<1>1. S \subseteq Nat /\ S # {}
  BY <1>0
<1>2. PICK x \in S : \A y \in S : ~(<<y, x>> \in OpToRel(<, Nat))
  BY <1>1, NatLessThanWellFounded, WFMin
<1>3. \A y \in S : ~(y < x)
  BY <1>1, <1>2 DEF OpToRel
<1>4. PICK z \in T : x = n - z
  BY <1>2
<1>5. ASSUME NEW y \in T PROVE z >= y
  <2>1. ~(n - y < n - z)
    BY <1>3, <1>4
  <2> QED
    BY <1>0, <1>4, <2>1
<1> QED
  BY <1>4, <1>5 DEF Max

LEMMA TotalTyped ==
    ASSUME NEW s \in Seq(Nat)
    PROVE  Total(s) \in Nat
<1> DEFINE N == Len(s)
           Grows(h, i) == IF i = 0 THEN 0 ELSE h[i - 1] + s[i]
           Fitting(h, n) == \A i \in 0..n : h[i] = Grows(h, i)
           S == {n \in Nat : n <= N => \E h \in [0..n -> Nat] : Fitting(h, n)}
           sum[i \in 0..N] == IF i = 0 THEN 0 ELSE sum[i - 1] + s[i]
<1>1. 0 \in S
  <2>1. [i \in 0..0 |-> 0] \in [0..0 -> Nat] /\ Fitting([i \in 0..0 |-> 0], 0)
    OBVIOUS
  <2> QED
    BY <2>1
<1>2. ASSUME NEW n \in Nat, n \in S
      PROVE  n + 1 \in S
  <2>1. SUFFICES ASSUME n + 1 <= N
                 PROVE  \E h \in [0..(n + 1) -> Nat] : Fitting(h, n + 1)
    <3> HIDE DEF Fitting
    <3> QED
      OBVIOUS
  <2>2. PICK g \in [0..n -> Nat] : Fitting(g, n)
    <3>1. n <= N
      BY <2>1
    <3> HIDE DEF Fitting
    <3> QED
      BY <1>2, <3>1
  <2> DEFINE h == [i \in 0..(n + 1) |-> IF i <= n THEN g[i] ELSE g[n] + s[n + 1]]
  <2>3. g[n] \in Nat /\ s[n + 1] \in Nat
    BY <2>1
  <2>4. h \in [0..(n + 1) -> Nat]
    BY <2>3
  <2>5. ASSUME NEW i \in 0..(n + 1) PROVE h[i] = Grows(h, i)
    <3>1. CASE i = n + 1
      BY <3>1
    <3>2. CASE i \in 0..n
      <4>1. h[i] = g[i]
        BY <3>2
      <4>2. g[i] = Grows(g, i)
        BY <2>2, <3>2
      <4>3. i # 0 => h[i - 1] = g[i - 1]
        BY <3>2
      <4> QED
        BY <4>1, <4>2, <4>3
    <3> QED
      BY <3>1, <3>2
  <2> QED
    BY <2>4, <2>5
<1>3. Nat \subseteq S
  <2> HIDE DEF S, Grows, Fitting
  <2> QED
    BY <1>1, <1>2, Counting
<1>4. PICK h \in [0..N -> Nat] : Fitting(h, N)
  <2>1. N \in Nat /\ N \in S
    <3> HIDE DEF S, Fitting
    <3> QED
      BY <1>3
  <2> HIDE DEF Fitting
  <2> QED
    BY <2>1
<1>5. h = [i \in 0..N |-> Grows(h, i)]
  BY <1>4
<1>6. sum = [i \in 0..N |-> Grows(sum, i)]
  <2> DEFINE Solves(f) == f = [i \in 0..N |-> Grows(f, i)]
  <2>1. Solves(CHOOSE f : Solves(f))
    <3> HIDE DEF Solves
    <3>1. \E f : Solves(f)
      BY <1>5 DEF Solves
    <3> QED
      BY <3>1
  <2> QED
    BY <2>1
<1> DEFINE T == {n \in Nat : n <= N => sum[n] \in Nat}
<1> HIDE DEF sum
<1>7. 0 \in T
  BY <1>6
<1>8. ASSUME NEW n \in Nat, n \in T
      PROVE  n + 1 \in T
  BY <1>6, <1>8
<1>9. Nat \subseteq T
  <2> HIDE DEF T
  <2> QED
    BY <1>7, <1>8, Counting
<1> QED
  BY <1>9 DEF Total, sum

\* The sequence told of the first events of a history.
Tells(told, past, type) ==
    told = [i \in 0..Len(past) |->
               IF i = 0 THEN <<>>
               ELSE IF past[i].type = type THEN Append(told[i - 1], past[i].call) ELSE told[i - 1]]

\* What is told after `i` events.
AfterEvent(told, past, type, i) ==
    IF i = 0 THEN <<>>
    ELSE IF past[i].type = type THEN Append(told[i - 1], past[i].call) ELSE told[i - 1]

LEMMA TellsExists ==
    ASSUME NEW past \in Seq(Event), NEW type
    PROVE  \E told \in [0..Len(past) -> Seq(Nat)] : Tells(told, past, type)
<1> DEFINE N == Len(past)
           Fitting(h, n) == \A i \in 0..n : h[i] = AfterEvent(h, past, type, i)
           S == {n \in Nat : n <= N => \E h \in [0..n -> Seq(Nat)] : Fitting(h, n)}
<1>1. 0 \in S
  <2>1. [i \in 0..0 |-> <<>>] \in [0..0 -> Seq(Nat)] /\ Fitting([i \in 0..0 |-> <<>>], 0)
    BY DEF AfterEvent
  <2> QED
    BY <2>1
<1>2. ASSUME NEW n \in Nat, n \in S
      PROVE  n + 1 \in S
  <2>1. SUFFICES ASSUME n + 1 <= N
                 PROVE  \E h \in [0..(n + 1) -> Seq(Nat)] : Fitting(h, n + 1)
    <3> HIDE DEF Fitting
    <3> QED
      OBVIOUS
  <2>2. PICK g \in [0..n -> Seq(Nat)] : Fitting(g, n)
    BY <1>2, <2>1
  <2> DEFINE h == [i \in 0..(n + 1) |-> IF i <= n THEN g[i] ELSE AfterEvent(g, past, type, n + 1)]
  <2>3. g[n] \in Seq(Nat) /\ past[n + 1] \in Event
    BY <2>1
  <2>4. AfterEvent(g, past, type, n + 1) \in Seq(Nat)
    BY <2>3 DEF AfterEvent, Event
  <2>5. h \in [0..(n + 1) -> Seq(Nat)]
    BY <2>4
  <2>6. ASSUME NEW i \in 0..(n + 1) PROVE h[i] = AfterEvent(h, past, type, i)
    <3>1. CASE i = n + 1
      <4>1. h[i] = AfterEvent(g, past, type, n + 1) /\ h[n] = g[n]
        BY <3>1
      <4> QED
        BY <3>1, <4>1 DEF AfterEvent
    <3>2. CASE i \in 0..n
      <4>1. h[i] = g[i]
        BY <3>2
      <4>2. g[i] = AfterEvent(g, past, type, i)
        BY <2>2, <3>2
      <4>3. i # 0 => h[i - 1] = g[i - 1]
        BY <3>2
      <4> HIDE DEF h
      <4> QED
        BY <4>1, <4>2, <4>3 DEF AfterEvent
    <3> QED
      BY <3>1, <3>2
  <2> QED
    BY <2>5, <2>6
<1>3. Nat \subseteq S
  <2> HIDE DEF S, Fitting
  <2> QED
    BY <1>1, <1>2, Counting
<1>4. PICK h \in [0..N -> Seq(Nat)] : Fitting(h, N)
  <2>1. N \in Nat /\ N \in S
    <3> HIDE DEF S, Fitting
    <3> QED
      BY <1>3
  <2> HIDE DEF Fitting
  <2> QED
    BY <2>1
<1>5. Tells(h, past, type)
  BY <1>4 DEF Tells, AfterEvent
<1> QED
  BY <1>5

LEMMA TellsOne ==
    ASSUME NEW past \in Seq(Event), NEW type, NEW f, Tells(f, past, type), NEW g, Tells(g, past, type)
    PROVE  f = g
<1> DEFINE N == Len(past)
           S == {n \in Nat : n <= N => f[n] = g[n]}
<1>1. f = [i \in 0..N |-> AfterEvent(f, past, type, i)] /\ g = [i \in 0..N |-> AfterEvent(g, past, type, i)]
  BY DEF Tells, AfterEvent
<1>2. 0 \in S
  BY <1>1 DEF AfterEvent
<1>3. ASSUME NEW n \in Nat, n \in S
      PROVE  n + 1 \in S
  <2> SUFFICES ASSUME n + 1 <= N PROVE f[n + 1] = g[n + 1]
    OBVIOUS
  <2>1. f[n] = g[n]
    BY <1>3
  <2>0. n + 1 \in 0..N
    OBVIOUS
  <2>2. f[n + 1] = AfterEvent(f, past, type, n + 1) /\ g[n + 1] = AfterEvent(g, past, type, n + 1)
    <3>1. \A i \in 0..N : f[i] = AfterEvent(f, past, type, i)
      BY ONLY <1>1
    <3>2. \A i \in 0..N : g[i] = AfterEvent(g, past, type, i)
      BY ONLY <1>1
    <3> QED
      BY ONLY <2>0, <3>1, <3>2
  <2> QED
    BY <2>1, <2>2 DEF AfterEvent
<1>4. Nat \subseteq S
  <2> HIDE DEF S
  <2> QED
    BY <1>2, <1>3, Counting
<1>5. \A n \in 0..N : f[n] = g[n]
  BY <1>4
<1> QED
  BY <1>1, <1>5

LEMMA ToldIs ==
    ASSUME NEW past \in Seq(Event), NEW type, NEW f, Tells(f, past, type)
    PROVE  Told(past, type) = f[Len(past)]
<1> DEFINE told[i \in 0..Len(past)] ==
            IF i = 0 THEN <<>>
            ELSE IF past[i].type = type THEN Append(told[i - 1], past[i].call) ELSE told[i - 1]
<1>1. Tells(told, past, type)
  <2> DEFINE Solves(g) == Tells(g, past, type)
  <2>1. Solves(CHOOSE g : Solves(g))
    <3> HIDE DEF Solves
    <3>1. \E g : Solves(g)
      BY DEF Solves
    <3> QED
      BY <3>1
  <2> QED
    BY <2>1 DEF Tells
<1>2. told = f
  <2> HIDE DEF told
  <2> QED
    BY <1>1, TellsOne
<1> QED
  BY <1>2 DEF Told

LEMMA ToldTyped ==
    ASSUME NEW past \in Seq(Event), NEW type
    PROVE  Told(past, type) \in Seq(Nat)
<1>1. PICK f \in [0..Len(past) -> Seq(Nat)] : Tells(f, past, type)
  BY TellsExists
<1> QED
  BY <1>1, ToldIs

LEMMA ToldNothing ==
    ASSUME NEW type
    PROVE  Told(<<>>, type) = <<>>
<1>1. <<>> \in Seq(Event)
  OBVIOUS
<1>2. PICK f \in [0..0 -> Seq(Nat)] : Tells(f, <<>>, type)
  BY <1>1, TellsExists
<1>3. Told(<<>>, type) = f[0]
  BY <1>1, <1>2, ToldIs
<1> QED
  BY <1>2, <1>3 DEF Tells

LEMMA ToldAppend ==
    ASSUME NEW past \in Seq(Event), NEW e \in Event, NEW type
    PROVE  Told(Append(past, e), type) =
               IF e.type = type THEN Append(Told(past, type), e.call) ELSE Told(past, type)
<1> DEFINE N == Len(past)
           more == Append(past, e)
<1>1. /\ more \in Seq(Event) /\ Len(more) = N + 1 /\ N \in Nat
      /\ \A i \in 1..(N + 1) : more[i] = IF i <= N THEN past[i] ELSE e
  OBVIOUS
<1> HIDE DEF more
<1>2. PICK f \in [0..(N + 1) -> Seq(Nat)] : Tells(f, more, type)
  BY <1>1, TellsExists
<1> DEFINE g == [i \in 0..N |-> f[i]]
<1>3. \A i \in 0..(N + 1) : f[i] = AfterEvent(f, more, type, i)
  BY <1>1, <1>2 DEF Tells, AfterEvent
<1>4. ASSUME NEW i \in 0..N PROVE g[i] = AfterEvent(g, past, type, i)
  <2>1. g[i] = f[i] /\ f[i] = AfterEvent(f, more, type, i)
    BY <1>3, <1>1
  <2>2. i # 0 => g[i - 1] = f[i - 1] /\ more[i] = past[i]
    BY <1>1
  <2> HIDE DEF g
  <2> QED
    BY <2>1, <2>2 DEF AfterEvent
<1>5. Tells(g, past, type)
  <2>1. g = [i \in 0..N |-> AfterEvent(g, past, type, i)]
    BY <1>4
  <2> HIDE DEF g
  <2> QED
    BY <2>1 DEF Tells, AfterEvent
<1>6. Told(past, type) = f[N]
  BY <1>1, <1>5, ToldIs
<1>7. Told(more, type) = f[N + 1]
  BY <1>1, <1>2, ToldIs
<1>8. f[N + 1] = AfterEvent(f, more, type, N + 1) /\ more[N + 1] = e
  BY <1>1, <1>3
<1> QED
  BY <1>1, <1>6, <1>7, <1>8 DEF AfterEvent, more

LEMMA ConcatAppend ==
    ASSUME NEW K, NEW s \in Seq(K), NEW p \in Seq(K), NEW x \in K
    PROVE  s \o Append(p, x) = Append(s \o p, x) /\ s \o p \in Seq(K)
<1>1. <<x>> \in Seq(K) /\ Append(p, x) = p \o <<x>> /\ s \o p \in Seq(K)
  OBVIOUS
<1>2. Append(s \o p, x) = (s \o p) \o <<x>>
  BY <1>1
<1> QED
  BY <1>1, <1>2, ConcatAssociative

\* What more events add, when none of them is of the type.
LEMMA ToldSilent ==
    ASSUME NEW past \in Seq(Event), NEW events \in Seq(Event), NEW type,
           \A i \in 1..Len(events) : events[i].type # type
    PROVE  Told(past \o events, type) = Told(past, type)
<1> DEFINE Part(n) == SubSeq(events, 1, n)
           S == {n \in Nat : n <= Len(events) => Told(past \o Part(n), type) = Told(past, type)}
<1>1. 0 \in S
  <2>1. Part(0) = <<>> /\ past \o <<>> = past
    OBVIOUS
  <2> QED
    BY <2>1
<1>2. ASSUME NEW n \in Nat, n \in S
      PROVE  n + 1 \in S
  <2> SUFFICES ASSUME n + 1 <= Len(events) PROVE Told(past \o Part(n + 1), type) = Told(past, type)
    OBVIOUS
  <2>1. Part(n) \in Seq(Event) /\ events[n + 1] \in Event /\ Part(n + 1) = Append(Part(n), events[n + 1])
    OBVIOUS
  <2> HIDE DEF Part
  <2>2. past \o Part(n + 1) = Append(past \o Part(n), events[n + 1]) /\ past \o Part(n) \in Seq(Event)
    <3> HIDE DEF S
    <3>1. past \o Append(Part(n), events[n + 1]) = Append(past \o Part(n), events[n + 1])
      BY <2>1, ConcatAppend
    <3>2. past \o Part(n) \in Seq(Event)
      BY <2>1, ConcatProperties
    <3> QED
      BY <2>1, <3>1, <3>2
  <2>3. Told(past \o Part(n), type) = Told(past, type)
    BY <1>2 DEF Part
  <2>4. events[n + 1].type # type
    OBVIOUS
  <2> HIDE DEF S
  <2>5. Told(Append(past \o Part(n), events[n + 1]), type) = Told(past \o Part(n), type)
    BY <2>1, <2>2, <2>4, ToldAppend
  <2> QED
    BY <2>2, <2>3, <2>5
<1>3. Len(events) \in Nat /\ Len(events) \in S
  <2> HIDE DEF S
  <2> QED
    BY <1>1, <1>2, Counting
<1>4. Part(Len(events)) = events
  BY SubSeqFull
<1> HIDE DEF Part
<1> QED
  BY <1>3, <1>4

\* The calls told of are those of the events, each as often.
LEMMA ToldMembers ==
    ASSUME NEW past \in Seq(Event), NEW type
    PROVE  /\ \A x \in ToSet(Told(past, type)) :
                 \E i \in DOMAIN past : past[i].type = type /\ past[i].call = x
           /\ (\A i, j \in DOMAIN past :
                   past[i].type = type /\ past[j].type = type /\ i # j => past[i].call # past[j].call)
                 => IsInjective(Told(past, type))
<1> DEFINE Part(n) == SubSeq(past, 1, n)
           Known(n) == \A x \in ToSet(Told(Part(n), type)) :
                          \E i \in 1..n : past[i].type = type /\ past[i].call = x
           Once(n) == (\A i, j \in 1..n :
                          past[i].type = type /\ past[j].type = type /\ i # j => past[i].call # past[j].call)
                        => IsInjective(Told(Part(n), type))
           S == {n \in Nat : n <= Len(past) => Known(n) /\ Once(n)}
<1>1. 0 \in S
  <2>1. Part(0) = <<>>
    OBVIOUS
  <2>2. Told(Part(0), type) = <<>>
    BY <2>1, ToldNothing
  <2> HIDE DEF Part
  <2> QED
    BY <2>2 DEF ToSet, IsInjective
<1>2. ASSUME NEW n \in Nat, n \in S
      PROVE  n + 1 \in S
  <2> SUFFICES ASSUME n + 1 <= Len(past) PROVE Known(n + 1) /\ Once(n + 1)
    <3> HIDE DEF Known, Once
    <3> QED
      OBVIOUS
  <2> DEFINE e == past[n + 1]
             told == Told(Part(n), type)
             more == Told(Part(n + 1), type)
  <2>1. Part(n) \in Seq(Event) /\ e \in Event /\ Part(n + 1) = Append(Part(n), e)
    OBVIOUS
  <2>2. Known(n) /\ Once(n)
    <3>1. n <= Len(past)
      OBVIOUS
    <3> HIDE DEF Known, Once
    <3> QED
      BY <1>2, <3>1
  <2> HIDE DEF Part
  <2>3. more = (IF e.type = type THEN Append(told, e.call) ELSE told) /\ told \in Seq(Nat)
    <3> HIDE DEF S, Known, Once
    <3>1. told \in Seq(Nat)
      BY <2>1, ToldTyped
    <3>2. Told(Append(Part(n), e), type) = IF e.type = type THEN Append(told, e.call) ELSE told
      BY <2>1, ToldAppend
    <3> QED
      BY <2>1, <3>1, <3>2
  <2>4. CASE e.type # type
    BY <2>2, <2>3, <2>4
  <2>5. CASE e.type = type
    <3> HIDE DEF told, more
    <3>1. more = Append(told, e.call) /\ e.call \in Nat
      BY <2>1, <2>3, <2>5 DEF Event
    <3>2. /\ DOMAIN more = 1..(Len(told) + 1) /\ DOMAIN told = 1..Len(told) /\ Len(told) \in Nat
          /\ \A i \in 1..(Len(told) + 1) : more[i] = IF i <= Len(told) THEN told[i] ELSE e.call
      BY <2>3, <3>1
    <3>3. \A x \in ToSet(told) : \E i \in 1..n : past[i].type = type /\ past[i].call = x
      BY <2>2 DEF told
    <3>4. Known(n + 1)
      <4>1. ASSUME NEW x \in ToSet(more)
            PROVE  \E i \in 1..(n + 1) : past[i].type = type /\ past[i].call = x
        <5>1. x = e.call \/ x \in ToSet(told)
          BY <3>2 DEF ToSet
        <5>2. n + 1 \in 1..(n + 1)
          OBVIOUS
        <5> QED
          BY <2>5, <3>3, <5>1, <5>2
      <4> QED
        BY <4>1 DEF more
    <3>5. ASSUME \A i, j \in 1..(n + 1) :
                    past[i].type = type /\ past[j].type = type /\ i # j => past[i].call # past[j].call
          PROVE  IsInjective(more)
      <4>1. IsInjective(told)
        BY <2>2, <3>5 DEF told
      <4>2. e.call \notin ToSet(told)
        <5> SUFFICES ASSUME e.call \in ToSet(told) PROVE FALSE
          OBVIOUS
        <5>1. PICK i \in 1..n : past[i].type = type /\ past[i].call = e.call
          BY <3>3
        <5> QED
          BY <2>5, <3>5, <5>1
      <4> QED
        BY <3>2, <4>1, <4>2 DEF IsInjective, ToSet
    <3> QED
      BY <3>4, <3>5 DEF more
  <2> QED
    BY <2>4, <2>5
<1>3. Len(past) \in Nat /\ Len(past) \in S
  <2> HIDE DEF S
  <2> QED
    BY <1>1, <1>2, Counting
<1>4. Part(Len(past)) = past /\ DOMAIN past = 1..Len(past)
  BY SubSeqFull
<1> HIDE DEF Part
<1> QED
  BY <1>3, <1>4

-----------------------------------------------------------------------------
(* What append accepts.                                                    *)

\* The event at `i` is refused after those before it.
Misplaced(past, i) ==
    \/ i = 1 /\ past[i].type # "run.started"
    \/ i > 1 /\ (past[i].type = "run.started" \/ past[i - 1].type = "run.terminal")
    \/ /\ past[i].type \in {"context.compaction_completed", "context.compaction_failed"}
       /\ \/ i = 1 \/ past[i - 1].type # "context.compaction_started"
          \/ past[i - 1].compaction # past[i].compaction

LEMMA AcceptedAt ==
    ASSUME NEW past \in Seq(Event)
    PROVE  Accepted(past) <=> \A i \in DOMAIN past : ~Misplaced(past, i)
<1>1. ASSUME NEW i \in DOMAIN past
      PROVE  Refused(SubSeq(past, 1, i - 1), past[i]) <=> Misplaced(past, i)
  <2> DEFINE before == SubSeq(past, 1, i - 1)
  <2>1. i \in 1..Len(past) /\ i \in Nat /\ i >= 1
    OBVIOUS
  <2>2. \A j \in 1..(i - 1) : past[j] \in Event
    BY <2>1
  <2>3. /\ before \in Seq(Event) /\ Len(before) = i - 1
        /\ \A j \in 1..(i - 1) : before[j] = past[j]
    <3>1. /\ before \in Seq(Event) /\ Len(before) = (IF 1 <= i - 1 THEN (i - 1) - 1 + 1 ELSE 0)
          /\ \A j \in 1..((i - 1) - 1 + 1) : before[j] = past[1 + j - 1]
      BY <2>1, <2>2, SubSeqProperties
    <3> HIDE DEF before
    <3> QED
      BY <2>1, <3>1
  <2> HIDE DEF before
  <2>4. CASE i = 1
    <3>1. before = <<>>
      BY <2>3, <2>4
    <3> QED
      BY <2>4, <3>1 DEF Refused, Misplaced, before
  <2>5. CASE i > 1
    <3>1. before # <<>> /\ Last(before) = past[i - 1]
      BY <2>1, <2>3, <2>5 DEF Last
    <3> QED
      BY <2>5, <3>1 DEF Refused, Misplaced, before
  <2> QED
    BY <2>1, <2>4, <2>5
<1> QED
  BY <1>1 DEF Accepted

Quiet(past) == \A i \in DOMAIN past : past[i].type # "run.terminal"

\* Events that follow a log that is open, the last of them perhaps its end.
Follows(events) ==
    /\ events \in Seq(Event)
    /\ \A i \in DOMAIN events :
          /\ events[i].type # "run.started"
          /\ events[i].type = "run.terminal" => i = Len(events)
          /\ events[i].type \in {"context.compaction_completed", "context.compaction_failed"} =>
                /\ i > 1 /\ events[i - 1].type = "context.compaction_started"
                /\ events[i - 1].compaction = events[i].compaction

LEMMA FollowsIsAccepted ==
    ASSUME NEW past \in Seq(Event), past # <<>>, Accepted(past), Quiet(past),
           NEW events, Follows(events), NEW n \in 0..Len(events)
    PROVE  /\ past \o SubSeq(events, 1, n) \in Seq(Event)
           /\ Accepted(past \o SubSeq(events, 1, n))
<1> DEFINE part == SubSeq(events, 1, n)
           more == past \o part
           N == Len(past)
<1>1. /\ part \in Seq(Event) /\ Len(part) = n /\ \A i \in 1..n : part[i] = events[i]
      /\ events \in Seq(Event) /\ Len(events) \in Nat /\ n \in Nat /\ N \in Nat
  BY DEF Follows
<1> HIDE DEF part
<1>2. /\ more \in Seq(Event) /\ Len(more) = N + n
      /\ \A i \in 1..(N + n) : more[i] = IF i <= N THEN past[i] ELSE part[i - N]
  BY <1>1, ConcatProperties
<1> HIDE DEF more
<1>3. DOMAIN past = 1..N /\ DOMAIN more = 1..(N + n) /\ DOMAIN events = 1..Len(events) /\ N > 0
  BY <1>1, <1>2
<1>4. ASSUME NEW i \in 1..(N + n) PROVE ~Misplaced(more, i)
  <2>1. CASE i <= N
    <3>1. i \in DOMAIN past /\ more[i] = past[i] /\ (i > 1 => more[i - 1] = past[i - 1])
      BY <1>1, <1>2, <1>3, <2>1
    <3>2. ~Misplaced(past, i)
      BY <3>1, AcceptedAt
    <3> QED
      BY <3>1, <3>2 DEF Misplaced
  <2>2. CASE i > N
    <3> DEFINE j == i - N
    <3>1. j \in 1..n /\ j \in DOMAIN events /\ j <= Len(events) /\ more[i] = events[j] /\ i > 1
      BY <1>1, <1>2, <1>3, <2>2
    <3>2. CASE j = 1
      <4>1. more[i - 1] = past[N] /\ N \in DOMAIN past
        BY <1>1, <1>2, <1>3, <3>2
      <4>2. more[i - 1].type # "run.terminal"
        BY <4>1 DEF Quiet
      <4>3. more[i].type \notin {"run.started", "context.compaction_completed", "context.compaction_failed"}
        BY <3>1, <3>2 DEF Follows
      <4> QED
        BY <3>1, <4>2, <4>3 DEF Misplaced
    <3>3. CASE j > 1
      <4>1. more[i - 1] = events[j - 1] /\ j - 1 \in DOMAIN events /\ j - 1 # Len(events)
        <5>1. i - 1 \in 1..(N + n) /\ ~(i - 1 <= N) /\ (i - 1) - N = j - 1 /\ j - 1 \in 1..n
          BY <1>1, <3>1, <3>3
        <5>2. more[i - 1] = part[(i - 1) - N]
          BY <1>2, <5>1
        <5>3. part[j - 1] = events[j - 1]
          BY <1>1, <5>1
        <5>4. j - 1 < j /\ j <= Len(events) /\ j - 1 \in 1..Len(events)
          BY <1>1, <3>1, <5>1
        <5> HIDE DEF j
        <5> QED
          BY <1>3, <5>1, <5>2, <5>3, <5>4, <1>1
      <4>2. more[i - 1].type # "run.terminal"
        BY <4>1 DEF Follows
      <4>3. more[i].type # "run.started"
        BY <3>1 DEF Follows
      <4>4. more[i].type \in {"context.compaction_completed", "context.compaction_failed"} =>
              /\ more[i - 1].type = "context.compaction_started"
              /\ more[i - 1].compaction = more[i].compaction
        BY <3>1, <4>1 DEF Follows
      <4> QED
        BY <3>1, <4>2, <4>3, <4>4 DEF Misplaced
    <3> QED
      BY <3>1, <3>2, <3>3
  <2> QED
    BY <1>1, <2>1, <2>2
<1>5. Accepted(more)
  BY <1>2, <1>3, <1>4, AcceptedAt
<1> QED
  BY <1>2, <1>5 DEF more, part

-----------------------------------------------------------------------------
(* The invariant of a run of the loop.                                     *)

AtWork == {"turn", "asked", "recover", "tool", "executing"}
AtTools == {"tool", "executing"}

\* The signal: what began after it is the last of the run.
LateIsLast ==
    /\ late \in {0, 1}
    /\ late = 1 => signalled /\ pc \in {"asked", "executing", "done"} \cup Ended

\* The counters and the context.
CountersTyped ==
    /\ pc \in Ended \cup {"start", "turn", "asked", "recover", "tool", "executing", "done"}
    /\ policy \in Policies
    /\ calls \in 0..MaxCalls /\ attempt \in {1, 2}
    /\ pc = "recover" => calls < MaxCalls
    /\ signalled \in BOOLEAN

\* The calls: what is accepted has a name of its own, and what is open waits.
CallsTyped ==
    /\ steps \in 0..MaxSteps
    /\ used \subseteq Nat /\ IsFiniteSet(used)
    /\ batch \in Seq(Nat) /\ open \in Group /\ groups \in Seq(Group)
    /\ effects \in Seq(used)
    /\ pc \in AtTools => batch # <<>> /\ steps + Len(batch) <= MaxSteps

\* A result for every call that does not wait.
OpenGroup ==
    /\ Len(open.calls) = Len(open.results) + Len(batch)
    /\ \A i \in 1..Len(open.results) : open.results[i].call = open.calls[i]
    /\ \A i \in 1..Len(batch) : open.calls[Len(open.results) + i] = batch[i]
    /\ ToSet(open.calls) \subseteq used

GroupsWhole ==
    /\ pc \in AtTools => OpenGroup
    /\ \A i \in DOMAIN groups : Whole(groups[i]) /\ ToSet(groups[i].calls) \subseteq used

CallsOnce ==
    /\ IsInjective(effects)
    /\ pc \in AtTools => IsInjective(batch) /\ ToSet(batch) \subseteq used /\ ToSet(batch) \cap ToSet(effects) = {}

\* The projection.
ContextKept ==
    /\ retained \subseteq used
    /\ context \in Context \cup {NoValue}
    /\ pc = "asked" =>
          /\ context.kept \in 0..Len(groups)
          /\ policy.semantic /\ policy.window # NoValue => context.size <= policy.window
          /\ context.summary => Bulky \subseteq retained
          /\ ~context.summary => context.kept = Len(groups)

AnnouncedOnce ==
    /\ \A i \in DOMAIN log : log[i].type = "artifact.externalized" => log[i].call \in retained
    /\ \A i, j \in DOMAIN log :
          log[i].type = "artifact.externalized" /\ log[j].type = "artifact.externalized" /\ i # j
              => log[i].call # log[j].call

\* The log.
LogAccepted ==
    /\ log \in Seq(Event) /\ Accepted(log)
    /\ pc = "start" => log = <<>>
    /\ pc \in AtWork \cup {"done"} => log # <<>>
    /\ pc \in AtWork => \A i \in DOMAIN log : log[i].type # "run.terminal"
    /\ pc = "done" => \A i \in DOMAIN log : log[i].type = "run.terminal" <=> i = Len(log)
    /\ pc # "refused"

\* What the log tells of the effects, and what it may lack.
Begun == Sequence("tool.execution_started")
Done == Sequence("tool.execution_completed")

\* All of them; all but that the last was completed; all, and one that was
\* announced and not made.
AllTold == Begun = effects /\ Done = effects
Uncompleted == /\ effects # <<>> /\ Begun = effects /\ Done = Front(effects)
Unacted == /\ Begun # <<>> /\ effects = Front(Begun) /\ Done = effects

EffectsTold ==
    /\ pc \notin {"executing", "done"} \cup Ended => AllTold
    /\ pc = "executing" => Begun = Append(effects, Head(batch)) /\ Done = effects
    /\ IsInjective(Begun)
    /\ AllTold \/ Uncompleted \/ Unacted
    /\ pc \in {"done", "reported"} => AllTold \/ Last(log).status \in {"cancelled", "tool_error"}

Reports ==
    /\ report # NoValue => pc = "reported"
    /\ pc = "reported" => report = Case(Last(log).status, effects) /\ Last(log).status \in Status
    /\ pc = "done" => Last(log).status \in Status

-----------------------------------------------------------------------------
(* What the loop appends.                                                  *)

Words == EventType \ {"run.started", "run.terminal"}
Outcomes == {"context.compaction_completed", "context.compaction_failed"}
Effectless == Words \ {"tool.execution_started", "tool.execution_completed"}
Wordless == Effectless \ {"artifact.externalized"}
Simple == Wordless \ Outcomes

\* Events of the types in `T` that leave the run open.
Passes(events, T) ==
    /\ events \in Seq(Event)
    /\ \A i \in 1..Len(events) :
          /\ events[i].type \in T
          /\ events[i].type \in Outcomes =>
                /\ i > 1 /\ events[i - 1].type = "context.compaction_started"
                /\ events[i - 1].compaction = events[i].compaction

\* The calls whose result is announced, each once.
Announces(events, made) ==
    /\ \A i \in 1..Len(events) : events[i].type = "artifact.externalized" => events[i].call \in made
    /\ \A i, j \in 1..Len(events) :
          events[i].type = "artifact.externalized" /\ events[j].type = "artifact.externalized" /\ i # j
              => events[i].call # events[j].call

LEMMA GoesMore ==
    ASSUME NEW T, NEW U, T \subseteq U, NEW events, Passes(events, T)
    PROVE  Passes(events, U)
BY DEF Passes

LEMMA GoesNone ==
    ASSUME NEW T
    PROVE  Passes(<<>>, T)
BY DEF Passes

LEMMA GoesOne ==
    ASSUME NEW T, NEW e \in Event, e.type \in T \ Outcomes
    PROVE  Passes(<<e>>, T)
BY DEF Passes

LEMMA GoesTwo ==
    ASSUME NEW T, NEW d \in Event, NEW e \in Event, d.type \in T \ Outcomes, e.type \in T,
           d.type = "context.compaction_started", d.compaction = e.compaction
    PROVE  Passes(<<d, e>>, T)
<1>1. <<d, e>> \in Seq(Event) /\ Len(<<d, e>>) = 2 /\ <<d, e>>[1] = d /\ <<d, e>>[2] = e
  OBVIOUS
<1>2. \A i \in 1..2 : i = 1 \/ i = 2
  OBVIOUS
<1> QED
  BY <1>1, <1>2 DEF Passes

LEMMA GoesOn ==
    ASSUME NEW T, NEW a, Passes(a, T), NEW b, Passes(b, T)
    PROVE  Passes(a \o b, T)
<1> DEFINE c == a \o b
<1>0. a \in Seq(Event) /\ b \in Seq(Event) /\ Len(a) \in Nat /\ Len(b) \in Nat
  BY DEF Passes
<1>1. /\ c \in Seq(Event) /\ Len(c) = Len(a) + Len(b)
      /\ \A i \in 1..(Len(a) + Len(b)) : c[i] = IF i <= Len(a) THEN a[i] ELSE b[i - Len(a)]
  BY <1>0, ConcatProperties
<1> HIDE DEF c
<1>2. ASSUME NEW i \in 1..Len(c)
      PROVE  /\ c[i].type \in T
             /\ c[i].type \in Outcomes =>
                   /\ i > 1 /\ c[i - 1].type = "context.compaction_started"
                   /\ c[i - 1].compaction = c[i].compaction
  <2>1. CASE i <= Len(a)
    <3>1. i \in 1..Len(a) /\ c[i] = a[i] /\ (i > 1 => c[i - 1] = a[i - 1])
      BY <1>0, <1>1, <2>1
    <3> QED
      BY <3>1 DEF Passes
  <2>2. CASE i > Len(a)
    <3>1. i - Len(a) \in 1..Len(b) /\ c[i] = b[i - Len(a)]
      BY <1>0, <1>1, <2>2
    <3>2. i - Len(a) > 1 => c[i - 1] = b[i - Len(a) - 1] /\ i > 1
      <4> SUFFICES ASSUME i - Len(a) > 1 PROVE c[i - 1] = b[i - Len(a) - 1] /\ i > 1
        OBVIOUS
      <4>1. i - 1 \in 1..(Len(a) + Len(b)) /\ ~(i - 1 <= Len(a)) /\ (i - 1) - Len(a) = i - Len(a) - 1 /\ i > 1
        BY <1>0, <1>1
      <4> QED
        BY <1>1, <4>1
    <3> QED
      BY <3>1, <3>2 DEF Passes
  <2> QED
    BY <1>0, <2>1, <2>2
<1> QED
  BY <1>1, <1>2 DEF Passes, c

LEMMA GoesAppend ==
    ASSUME NEW T, NEW a, Passes(a, T), NEW e \in Event, e.type \in T \ Outcomes
    PROVE  Passes(Append(a, e), T)
<1>1. Passes(<<e>>, T)
  BY GoesOne
<1>2. Append(a, e) = a \o <<e>>
  BY DEF Passes
<1> QED
  BY <1>1, <1>2, GoesOn

LEMMA EventsTyped ==
    ASSUME RunAssumption, calls \in Nat
    PROVE  /\ \A type \in EventType : Plain(type) \in Event /\ Plain(type).type = type
           /\ \A type \in EventType, c \in Nat : /\ Of(type, c) \in Event /\ Of(type, c).type = type
                                                 /\ Of(type, c).call = c
           /\ \A type \in EventType : /\ Compaction(type) \in Event /\ Compaction(type).type = type
                                      /\ Compaction(type).compaction = calls + 1
           /\ \A ending \in Status : /\ Terminal(ending) \in Event /\ Terminal(ending).type = "run.terminal"
                                     /\ Terminal(ending).status = ending
<1>1. "run.terminal" \in EventType
  BY DEF EventType
<1> QED
  BY <1>1 DEF Plain, Of, Compaction, Terminal, Event

LEMMA GoesThenEnds ==
    ASSUME RunAssumption, calls \in Nat, NEW a, Passes(a, Words), NEW ending \in Status
    PROVE  Follows(Append(a, Terminal(ending))) /\ Follows(a)
<1> DEFINE e == Terminal(ending)
           c == Append(a, e)
<1>0. a \in Seq(Event) /\ e \in Event /\ e.type = "run.terminal" /\ Len(a) \in Nat
  BY EventsTyped DEF Passes
<1> HIDE DEF e
<1>1. /\ c \in Seq(Event) /\ Len(c) = Len(a) + 1 /\ DOMAIN c = 1..(Len(a) + 1) /\ DOMAIN a = 1..Len(a)
      /\ \A i \in 1..(Len(a) + 1) : c[i] = IF i <= Len(a) THEN a[i] ELSE e
  BY <1>0
<1> HIDE DEF c
<1>2. Follows(a)
  BY <1>0, <1>1 DEF Passes, Follows, Words, Outcomes
<1>3. ASSUME NEW i \in 1..(Len(a) + 1)
      PROVE  /\ c[i].type # "run.started"
             /\ c[i].type = "run.terminal" => i = Len(a) + 1
             /\ c[i].type \in Outcomes =>
                   /\ i > 1 /\ c[i - 1].type = "context.compaction_started"
                   /\ c[i - 1].compaction = c[i].compaction
  <2>1. CASE i = Len(a) + 1
    <3>1. c[i] = e
      BY <1>0, <1>1, <2>1
    <3> QED
      BY <1>0, <2>1, <3>1 DEF Outcomes
  <2>2. CASE i \in 1..Len(a)
    <3>1. c[i] = a[i] /\ (i > 1 => c[i - 1] = a[i - 1])
      BY <1>0, <1>1, <2>2
    <3> QED
      BY <2>2, <3>1 DEF Passes, Words
  <2> QED
    BY <1>0, <2>1, <2>2
<1>4. Follows(c)
  BY <1>1, <1>3 DEF Follows, Outcomes
<1> QED
  BY <1>2, <1>4 DEF c, e

\* What is written is the events or the first of them, and never refused.
LEMMA Written ==
    ASSUME log \in Seq(Event), log # <<>>, Accepted(log), Quiet(log),
           NEW events, Follows(events), NEW next, Write(events, next)
    PROVE  \/ pc' = next /\ log' = log \o events /\ log' \in Seq(Event) /\ Accepted(log')
           \/ /\ pc' = "crashed" /\ log' \in Seq(Event) /\ Accepted(log')
              /\ \E n \in 0..Len(events) - 1 : log' = log \o SubSeq(events, 1, n)
<1>0. events \in Seq(Event) /\ Len(events) \in Nat
  BY DEF Follows
<1>1. CASE Accepted(log \o events) /\ log' = log \o events /\ pc' = next
  <2>1. log \o events \in Seq(Event)
    BY <1>0, ConcatProperties
  <2> QED
    BY <1>1, <2>1
<1>2. ASSUME NEW n \in 0..Len(events) - 1,
             Accepted(log \o SubSeq(events, 1, n)),
             log' = log \o SubSeq(events, 1, n),
             pc' = IF Accepted(log \o SubSeq(events, 1, n + 1)) THEN "crashed" ELSE "refused"
      PROVE  /\ pc' = "crashed" /\ log' \in Seq(Event) /\ Accepted(log')
             /\ \E m \in 0..Len(events) - 1 : log' = log \o SubSeq(events, 1, m)
  <2>1. n \in 0..Len(events) /\ n + 1 \in 0..Len(events)
    BY <1>0
  <2>2. log \o SubSeq(events, 1, n) \in Seq(Event)
    BY <2>1, FollowsIsAccepted
  <2>3. Accepted(log \o SubSeq(events, 1, n + 1))
    BY <2>1, FollowsIsAccepted
  <2> QED
    BY <1>2, <2>2, <2>3
<1> QED
  BY <1>1, <1>2 DEF Write

Speaks(start, T, made) ==
    /\ Passes(start, T) /\ Announces(start, made)
    /\ (\E next \in AtWork : Write(start, next)) \/ (\E ending \in Status : RunEnds(start, ending))

\* The log grows by some of the events, and perhaps by the end of the run.
Grows(start, T, made) ==
    /\ LogAccepted'
    /\ (pc' = "done" => Last(log').status \in Status)
    /\ (pc' \in Ended => pc' = "crashed")
    /\ \E said \in Seq(Event) :
          /\ log' = log \o said
          /\ \A i \in 1..Len(said) : said[i].type \in T \cup {"run.terminal"}
          /\ Announces(said, made)

LEMMA QuietOn ==
    ASSUME log \in Seq(Event), Quiet(log), NEW events, Passes(events, Words), NEW e \in Event, e.type = "run.terminal"
    PROVE  /\ Quiet(log \o events)
           /\ \A i \in DOMAIN (log \o Append(events, e)) :
                 (log \o Append(events, e))[i].type = "run.terminal" <=> i = Len(log \o Append(events, e))
           /\ log \o Append(events, e) # <<>> /\ Last(log \o Append(events, e)) = e
<1> DEFINE c == log \o events
           d == log \o Append(events, e)
<1>0. events \in Seq(Event) /\ Len(events) \in Nat /\ Len(log) \in Nat
  BY DEF Passes
<1>1. /\ c \in Seq(Event) /\ Len(c) = Len(log) + Len(events) /\ d = Append(c, e)
      /\ \A i \in 1..(Len(log) + Len(events)) : c[i] = IF i <= Len(log) THEN log[i] ELSE events[i - Len(log)]
  BY <1>0, ConcatProperties, ConcatAppend
<1> HIDE DEF c
<1>2. Quiet(c)
  <2> SUFFICES ASSUME NEW i \in 1..Len(c) PROVE c[i].type # "run.terminal"
    BY <1>1 DEF Quiet
  <2>1. CASE i <= Len(log)
    BY <1>0, <1>1, <2>1 DEF Quiet
  <2>2. CASE i > Len(log)
    BY <1>0, <1>1, <2>2 DEF Passes, Words
  <2> QED
    BY <1>0, <1>1, <2>1, <2>2
<1>3. /\ DOMAIN d = 1..(Len(c) + 1) /\ Len(d) = Len(c) + 1 /\ d[Len(c) + 1] = e
      /\ \A i \in 1..Len(c) : d[i] = c[i]
  BY <1>1
<1> HIDE DEF d
<1>4. \A i \in DOMAIN d : d[i].type = "run.terminal" <=> i = Len(d)
  <2> SUFFICES ASSUME NEW i \in 1..(Len(c) + 1) PROVE d[i].type = "run.terminal" <=> i = Len(d)
    BY <1>3
  <2>1. CASE i \in 1..Len(c)
    BY <1>1, <1>2, <1>3, <2>1 DEF Quiet
  <2>2. CASE i = Len(c) + 1
    BY <1>3, <2>2
  <2> QED
    BY <1>1, <2>1, <2>2
<1>5. d # <<>> /\ Last(d) = e
  BY <1>1, <1>3 DEF Last
<1> QED
  BY <1>2, <1>4, <1>5 DEF c, d

\* A part of what is said.
LEMMA PartOf ==
    ASSUME NEW events \in Seq(Event), NEW n \in 0..Len(events), NEW T, NEW made,
           \A i \in 1..Len(events) : events[i].type \in T, Announces(events, made)
    PROVE  /\ SubSeq(events, 1, n) \in Seq(Event)
           /\ \A i \in 1..Len(SubSeq(events, 1, n)) : SubSeq(events, 1, n)[i].type \in T
           /\ Announces(SubSeq(events, 1, n), made)
<1> DEFINE part == SubSeq(events, 1, n)
<1>1. part \in Seq(Event) /\ Len(part) = n /\ \A i \in 1..n : part[i] = events[i]
  OBVIOUS
<1> HIDE DEF part
<1>2. \A i \in 1..n : i \in 1..Len(events)
  OBVIOUS
<1> QED
  BY <1>1, <1>2 DEF Announces, part

LEMMA AnnouncesEnd ==
    ASSUME NEW events \in Seq(Event), NEW made, Announces(events, made), NEW e \in Event, e.type # "artifact.externalized"
    PROVE  Announces(Append(events, e), made)
<1> DEFINE c == Append(events, e)
<1>1. Len(c) = Len(events) + 1 /\ Len(events) \in Nat
      /\ \A i \in 1..(Len(events) + 1) : c[i] = IF i <= Len(events) THEN events[i] ELSE e
  OBVIOUS
<1> HIDE DEF c
<1>2. \A i \in 1..Len(c) : c[i].type = "artifact.externalized" => i \in 1..Len(events) /\ c[i] = events[i]
  BY <1>1
<1> QED
  BY <1>2 DEF Announces, c

LEMMA SpeaksGrows ==
    ASSUME RunAssumption, calls \in Nat, LogAccepted, pc \in AtWork,
           NEW start, NEW T, T \subseteq Words, NEW made, Speaks(start, T, made)
    PROVE  Grows(start, T, made)
<1>0. /\ log \in Seq(Event) /\ log # <<>> /\ Accepted(log) /\ Quiet(log)
      /\ Passes(start, Words) /\ start \in Seq(Event) /\ Len(start) \in Nat /\ Len(log) \in Nat
      /\ "done" \notin AtWork /\ "crashed" \notin AtWork \cup {"start", "done", "refused"} /\ "start" \notin AtWork
      /\ "refused" \notin AtWork /\ "done" # "start"
  <2>1. Passes(start, Words)
    BY GoesMore DEF Speaks
  <2> QED
    BY <2>1 DEF LogAccepted, Quiet, AtWork, Passes
<1>1. ASSUME NEW events \in Seq(Event), NEW n \in 0..Len(events) - 1,
             \A i \in 1..Len(events) : events[i].type \in T \cup {"run.terminal"}, Announces(events, made),
             pc' = "crashed" /\ log' \in Seq(Event) /\ Accepted(log') /\ log' = log \o SubSeq(events, 1, n)
      PROVE  Grows(start, T, made)
  <2>1. n \in 0..Len(events)
    OBVIOUS
  <2>2. LogAccepted'
    BY <1>0, <1>1 DEF LogAccepted
  <2>3. /\ SubSeq(events, 1, n) \in Seq(Event)
        /\ \A i \in 1..Len(SubSeq(events, 1, n)) : SubSeq(events, 1, n)[i].type \in T \cup {"run.terminal"}
        /\ Announces(SubSeq(events, 1, n), made)
    BY <1>1, <2>1, PartOf
  <2> QED
    BY <1>1, <2>2, <2>3 DEF Grows
<1>2. ASSUME NEW next \in AtWork, Write(start, next)
      PROVE  Grows(start, T, made)
  <2>1. Follows(start) /\ "completed" \in Status
    BY <1>0, GoesThenEnds DEF Status
  <2>2. \A i \in 1..Len(start) : start[i].type \in T \cup {"run.terminal"}
    BY DEF Speaks, Passes
  <2>3. Announces(start, made)
    BY DEF Speaks
  <2>4. CASE pc' = next /\ log' = log \o start /\ log' \in Seq(Event) /\ Accepted(log')
    <3>1. "run.terminal" \in EventType
      BY DEF EventType
    <3>2. Terminal("completed") \in Event /\ Terminal("completed").type = "run.terminal"
      BY <2>1, EventsTyped
    <3>3. Quiet(log')
      BY <1>0, <2>4, <3>2, QuietOn
    <3>4. log' # <<>>
      BY <1>0, <2>4, ConcatEqualIffEmpty
    <3>5. LogAccepted'
      BY <1>0, <1>2, <2>4, <3>3, <3>4 DEF LogAccepted, Quiet
    <3>6. pc' # "done" /\ pc' \notin Ended
      BY <1>2, <2>4 DEF AtWork, Ended
    <3> QED
      BY <1>0, <2>2, <2>3, <2>4, <3>5, <3>6 DEF Grows
  <2>5. ASSUME NEW n \in 0..Len(start) - 1,
               pc' = "crashed" /\ log' \in Seq(Event) /\ Accepted(log') /\ log' = log \o SubSeq(start, 1, n)
        PROVE  Grows(start, T, made)
    BY <1>0, <1>1, <2>2, <2>3, <2>5
  <2> QED
    BY <1>0, <1>2, <2>1, <2>4, <2>5, Written
<1>3. ASSUME NEW ending \in Status, RunEnds(start, ending)
      PROVE  Grows(start, T, made)
  <2> DEFINE e == Terminal(ending)
             events == Append(start, e)
  <2>1. Follows(events) /\ e \in Event /\ e.type = "run.terminal" /\ e.status = ending
    BY <1>0, GoesThenEnds, EventsTyped
  <2>2. Write(events, "done")
    BY <1>3 DEF RunEnds
  <2> HIDE DEF e
  <2>3. events \in Seq(Event) /\ \A i \in 1..Len(events) : events[i].type \in T \cup {"run.terminal"}
    <3>1. /\ events \in Seq(Event) /\ Len(events) = Len(start) + 1
          /\ \A i \in 1..(Len(start) + 1) : events[i] = IF i <= Len(start) THEN start[i] ELSE e
      BY <1>0, <2>1
    <3>2. \A i \in 1..Len(start) : start[i].type \in T
      BY DEF Speaks, Passes
    <3> QED
      BY <1>0, <2>1, <3>1, <3>2
  <2>4. Announces(events, made)
    BY <1>0, <2>1, AnnouncesEnd DEF Speaks
  <2>5. CASE pc' = "done" /\ log' = log \o events /\ log' \in Seq(Event) /\ Accepted(log')
    <3>1. /\ \A i \in DOMAIN log' : log'[i].type = "run.terminal" <=> i = Len(log')
          /\ log' # <<>> /\ Last(log') = e
      BY <1>0, <2>1, <2>5, QuietOn
    <3>2. LogAccepted'
      BY <1>0, <2>5, <3>1 DEF LogAccepted
    <3>3. pc' \notin Ended
      BY <2>5 DEF Ended
    <3> HIDE DEF events
    <3> QED
      BY <2>1, <2>3, <2>4, <2>5, <3>1, <3>2, <3>3 DEF Grows
  <2>6. ASSUME NEW n \in 0..Len(events) - 1,
               pc' = "crashed" /\ log' \in Seq(Event) /\ Accepted(log') /\ log' = log \o SubSeq(events, 1, n)
        PROVE  Grows(start, T, made)
    BY <1>1, <2>3, <2>4, <2>6
  <2> HIDE DEF events
  <2> QED
    BY <1>0, <2>1, <2>2, <2>5, <2>6, Written
<1> QED
  BY <1>2, <1>3 DEF Speaks

\* A run that ended wrote how.
LEMMA EndsSo ==
    ASSUME RunAssumption, calls \in Nat, LogAccepted, pc \in AtWork,
           NEW start, Passes(start, Words), NEW ending \in Status, RunEnds(start, ending)
    PROVE  pc' \in {"done", "crashed"} /\ (pc' = "done" => Last(log').status = ending)
<1> DEFINE e == Terminal(ending)
           events == Append(start, e)
<1>0. log \in Seq(Event) /\ log # <<>> /\ Accepted(log) /\ Quiet(log)
  BY DEF LogAccepted, Quiet
<1>1. Follows(events) /\ e \in Event /\ e.type = "run.terminal" /\ e.status = ending
  BY GoesThenEnds, EventsTyped
<1>2. Write(events, "done")
  BY DEF RunEnds
<1>3. Last(log \o events) = e
  <2> HIDE DEF e
  <2> QED
    BY <1>0, <1>1, QuietOn
<1>4. \/ pc' = "done" /\ log' = log \o events
     \/ pc' = "crashed"
  <2> HIDE DEF events
  <2> QED
    BY <1>0, <1>1, <1>2, Written
<1> QED
  BY <1>1, <1>3, <1>4

-----------------------------------------------------------------------------
(* What each action appends.                                               *)

LEMMA WordlessAnnounces ==
    ASSUME NEW start, Passes(start, Wordless)
    PROVE  Announces(start, {})
BY DEF Passes, Announces, Wordless

\* An artifact is announced for each of the calls.
LEMMA ExternalizedGoes ==
    ASSUME RunAssumption, calls \in Nat, NEW made, made \subseteq Nat, IsFiniteSet(made)
    PROVE  Passes(Externalized(made), Effectless) /\ Announces(Externalized(made), made)
<1> DEFINE A(c) == Of("artifact.externalized", c)
           S == {A(c) : c \in made}
           n == Cardinality(S)
           f == SetToSeq(S)
<1>0. /\ "artifact.externalized" \in EventType
      /\ \A c \in made : A(c) \in Event /\ A(c).type = "artifact.externalized" /\ A(c).call = c
  BY EventsTyped DEF EventType
<1> HIDE DEF A
<1>1. IsFiniteSet(S)
  <2> DEFINE g == [c \in made |-> A(c)]
  <2>1. g \in [made -> S] /\ IsInjective(g)
    BY <1>0 DEF IsInjective
  <2>2. \A t \in S : \E c \in made : g[c] = t
    OBVIOUS
  <2>3. g \in Bijection(made, S)
    <3> HIDE DEF g, S
    <3> QED
      BY <2>1, <2>2 DEF Bijection, Injection, Surjection
  <2>4. ExistsBijection(made, S)
    <3> HIDE DEF g, S
    <3> QED
      BY <2>3 DEF ExistsBijection
  <2> HIDE DEF S
  <2> QED
    BY <2>4, FS_Bijection
<1> HIDE DEF S
<1>2. n \in Nat /\ ExistsBijection(1..n, S)
  BY <1>1, FS_CardinalityType
<1> HIDE DEF n
<1>3. \E g \in [1..n -> S] : IsInjective(g)
  BY <1>2 DEF ExistsBijection, Bijection, Injection
<1>4. f \in [1..n -> S] /\ IsInjective(f)
  BY <1>3 DEF SetToSeq, n
<1>5. S \subseteq Event
  BY <1>0 DEF S
<1>6. f \in Seq(Event) /\ Len(f) = n /\ \A i \in 1..Len(f) : f[i] \in S
  BY <1>2, <1>4, <1>5
<1> HIDE DEF f
<1>7. \A i \in 1..Len(f) : \E c \in made : f[i] = A(c)
  BY <1>6 DEF S
<1>8. Passes(f, Effectless)
  <2>1. "artifact.externalized" \in Effectless \ Outcomes
    BY <1>0 DEF Effectless, Outcomes, Words
  <2> QED
    BY <1>0, <1>6, <1>7, <2>1 DEF Passes
<1>9. Announces(f, made)
  <2>1. ASSUME NEW i \in 1..Len(f), NEW j \in 1..Len(f), i # j
        PROVE  f[i].call # f[j].call
    <3>1. PICK c \in made : f[i] = A(c)
      BY <1>7
    <3>2. PICK d \in made : f[j] = A(d)
      BY <1>7
    <3>3. f[i] # f[j]
      BY <1>4, <1>6, <2>1 DEF IsInjective
    <3> QED
      BY <1>0, <3>1, <3>2, <3>3
  <2> QED
    BY <1>0, <1>7, <2>1 DEF Announces
<1>10. Externalized(made) = f
  BY DEF Externalized, f, S, A
<1> QED
  BY <1>8, <1>9, <1>10

LEMMA AnnouncesAround ==
    ASSUME NEW a, Passes(a, Wordless), NEW made, NEW b, Passes(b, Effectless), Announces(b, made), NEW c, Passes(c, Wordless)
    PROVE  Passes((a \o b) \o c, Effectless) /\ Announces((a \o b) \o c, made)
<1> DEFINE d == a \o b
           e == d \o c
<1>0. a \in Seq(Event) /\ b \in Seq(Event) /\ c \in Seq(Event) /\ Len(a) \in Nat /\ Len(b) \in Nat /\ Len(c) \in Nat
  BY DEF Passes
<1>1. /\ d \in Seq(Event) /\ Len(d) = Len(a) + Len(b)
      /\ \A i \in 1..Len(a) + Len(b) : d[i] = IF i <= Len(a) THEN a[i] ELSE b[i - Len(a)]
  BY <1>0, ConcatProperties
<1>2. Passes(a, Effectless) /\ Passes(c, Effectless)
  BY GoesMore DEF Wordless
<1>3. Passes(d, Effectless)
  BY <1>2, GoesOn
<1> HIDE DEF d
<1>4. Passes(e, Effectless)
  BY <1>2, <1>3, GoesOn
<1>5. /\ e \in Seq(Event) /\ Len(e) = Len(d) + Len(c)
      /\ \A i \in 1..Len(d) + Len(c) : e[i] = IF i <= Len(d) THEN d[i] ELSE c[i - Len(d)]
  <2>1. d \in Seq(Event) /\ c \in Seq(Event)
    BY <1>0, <1>1
  <2> QED
    BY <2>1, ConcatProperties
<1> HIDE DEF e
<1>6. ASSUME NEW i \in 1..Len(e), e[i].type = "artifact.externalized"
      PROVE  i - Len(a) \in 1..Len(b) /\ e[i] = b[i - Len(a)]
  <2>1. CASE i <= Len(a)
    <3>0. i \in 1..Len(a) /\ i \in 1..Len(d)
      BY <1>0, <1>1, <1>5, <2>1
    <3>1. e[i] = a[i] /\ i \in 1..Len(a)
      BY <1>1, <1>5, <2>1, <3>0
    <3> QED
      BY <1>6, <3>1 DEF Passes, Wordless
  <2>2. CASE i > Len(d)
    <3>0. Len(d) \in Nat /\ i \in 1..Len(d) + Len(c) /\ ~(i <= Len(d)) /\ i - Len(d) \in 1..Len(c)
      BY <1>0, <1>1, <1>5, <2>2
    <3>1. e[i] = c[i - Len(d)]
      BY <1>5, <3>0
    <3> QED
      BY <1>6, <3>0, <3>1 DEF Passes, Wordless
  <2>3. CASE i > Len(a) /\ i <= Len(d)
    <3>1. i \in 1..Len(d) + Len(c) /\ i \in 1..Len(a) + Len(b) /\ i - Len(a) \in 1..Len(b)
      BY <1>0, <1>1, <1>5, <2>3
    <3>2. e[i] = d[i] /\ d[i] = b[i - Len(a)]
      BY <1>0, <1>1, <1>5, <2>3, <3>1
    <3> QED
      BY <3>1, <3>2
  <2> QED
    BY <1>0, <1>1, <2>1, <2>2, <2>3
<1>7. Announces(e, made)
  <2>1. ASSUME NEW i \in 1..Len(e), NEW j \in 1..Len(e), e[i].type = "artifact.externalized",
               e[j].type = "artifact.externalized", i # j
        PROVE  e[i].call # e[j].call
    <3>1. i - Len(a) \in 1..Len(b) /\ e[i] = b[i - Len(a)] /\ j - Len(a) \in 1..Len(b) /\ e[j] = b[j - Len(a)]
      BY <1>6, <2>1
    <3>2. i - Len(a) # j - Len(a)
      BY <1>0, <1>1, <1>5, <2>1
    <3> QED
      BY <2>1, <3>1, <3>2 DEF Announces
  <2> QED
    BY <1>6, <2>1 DEF Announces
<1> QED
  BY <1>4, <1>7 DEF d, e

\* What an action says, and the calls it announces.
Says(T, made) == \E start : Speaks(start, T, made)

LEMMA SaysWordless ==
    ASSUME NEW start, Passes(start, Wordless),
           (\E next \in AtWork : Write(start, next)) \/ (\E ending \in Status : RunEnds(start, ending))
    PROVE  Says(Wordless, {})
BY WordlessAnnounces DEF Says, Speaks

LEMMA WordsTyped ==
    ASSUME RunAssumption, calls \in Nat
    PROVE  /\ \A type \in Simple : Plain(type) \in Event /\ Plain(type).type \in Wordless \ Outcomes
           /\ \A type \in Simple, c \in Nat : Of(type, c) \in Event /\ Of(type, c).type \in Wordless \ Outcomes
           /\ Simple = {"control.cancel_requested", "context.projection_started", "context.projected",
                        "context.compaction_started", "context.overflow_retry_succeeded",
                        "context.overflow_retry_exhausted",
                        "model.exchange_started", "model.exchange_settled", "model.exchange_failed",
                        "candidate.accepted", "candidate.rejected", "history.advanced", "tool.execution_failed"}
           /\ Passes(<<Compaction("context.compaction_started"), Compaction("context.compaction_failed")>>, Wordless)
           /\ Passes(<<Compaction("context.compaction_started"), Compaction("context.compaction_completed")>>, Wordless)
<1>1. Simple = {"control.cancel_requested", "context.projection_started", "context.projected",
                        "context.compaction_started", "context.overflow_retry_succeeded",
                        "context.overflow_retry_exhausted",
                        "model.exchange_started", "model.exchange_settled", "model.exchange_failed",
                        "candidate.accepted", "candidate.rejected", "history.advanced", "tool.execution_failed"}
  BY DEF Simple, Wordless, Effectless, Words, EventType, Outcomes
<1>2. Simple \subseteq EventType /\ Simple = Wordless \ Outcomes
  BY DEF Simple, Wordless, Effectless, Words
<1>3. \A type \in Simple : Plain(type) \in Event /\ Plain(type).type \in Wordless \ Outcomes
  BY <1>2, EventsTyped
<1>4. \A type \in Simple, c \in Nat : Of(type, c) \in Event /\ Of(type, c).type \in Wordless \ Outcomes
  BY <1>2, EventsTyped
<1>5. ASSUME NEW x \in {"context.compaction_failed", "context.compaction_completed"}
      PROVE  Passes(<<Compaction("context.compaction_started"), Compaction(x)>>, Wordless)
  <2>1. x \in EventType /\ x \in Wordless /\ "context.compaction_started" \in EventType
        /\ "context.compaction_started" \in Wordless \ Outcomes
    BY DEF Wordless, Effectless, Words, EventType, Outcomes
  <2> DEFINE d == Compaction("context.compaction_started")
             e == Compaction(x)
  <2>2. d \in Event /\ e \in Event /\ d.type = "context.compaction_started" /\ e.type = x
        /\ d.compaction = e.compaction
    BY <2>1, EventsTyped
  <2> HIDE DEF d, e
  <2>3. Passes(<<d, e>>, Wordless)
    BY <2>1, <2>2, GoesTwo
  <2> QED
    BY <2>3 DEF d, e
<1> QED
  BY <1>1, <1>3, <1>4, <1>5

LEMMA EndsCancelledSays ==
    ASSUME RunAssumption, calls \in Nat, EndsCancelled(<<>>)
    PROVE  Says(Wordless, {}) /\ (pc \in AtWork /\ LogAccepted /\ pc' = "done" => Last(log').status = "cancelled")
<1> DEFINE e == Plain("control.cancel_requested")
           start == Append(<<>>, e)
<1>1. e \in Event /\ e.type \in Wordless \ Outcomes
  BY WordsTyped
<1>2. Passes(<<>>, Wordless)
  BY GoesNone
<1> HIDE DEF e
<1>3. Passes(start, Wordless)
  BY <1>1, <1>2, GoesAppend
<1>4. RunEnds(start, "cancelled")
  BY DEF EndsCancelled, e
<1>5. Passes(start, Words)
  BY <1>3, GoesMore DEF Wordless, Effectless
<1> HIDE DEF start
<1>6. "cancelled" \in Status
  BY DEF Status
<1> QED
  BY <1>3, <1>4, <1>5, <1>6, SaysWordless, EndsSo

LEMMA TurnSays ==
    ASSUME RunAssumption, calls \in Nat, RunCancelled \/ TimeLimit \/ ModelCallLimit
    PROVE  Says(Wordless, {})
<1>1. Passes(<<>>, Wordless) /\ {"time_limit", "model_call_limit"} \subseteq Status
  BY GoesNone DEF Status
<1>2. CASE RunCancelled
  BY <1>2, EndsCancelledSays DEF RunCancelled
<1>3. CASE TimeLimit
  BY <1>1, <1>3, SaysWordless DEF TimeLimit
<1>4. CASE ModelCallLimit
  BY <1>1, <1>4, SaysWordless DEF ModelCallLimit
<1> QED
  BY <1>2, <1>3, <1>4

LEMMA StartedGoes ==
    ASSUME RunAssumption, calls \in Nat
    PROVE  Passes(Started, Wordless) /\ Passes(Failure, Wordless)
<1>1. Plain("context.projection_started") \in Event /\ Plain("context.projection_started").type \in Wordless \ Outcomes
  BY WordsTyped
<1>2. Passes(Started, Wordless)
  BY <1>1, GoesOne DEF Started
<1> QED
  BY <1>2, WordsTyped DEF Failure

LEMMA ProjectionSays ==
    ASSUME RunAssumption, calls \in Nat, ProjectionRaises \/ RecoveryUnavailable
    PROVE  Says(Wordless, {})
<1>1. {"context_compaction_error", "context_overflow"} \subseteq Status
  BY DEF Status
<1>2. CASE ProjectionRaises
  <2>1. Passes(Started \o Failure, Wordless)
    BY StartedGoes, GoesOn
  <2> QED
    BY <1>1, <1>2, <2>1, SaysWordless DEF ProjectionRaises
<1>3. CASE RecoveryUnavailable
  <2> DEFINE e == Plain("context.overflow_retry_exhausted")
  <2>1. e \in Event /\ e.type \in Wordless \ Outcomes
    BY WordsTyped
  <2>2. RunEnds(Append(Started, e), "context_overflow")
    BY <1>3 DEF RecoveryUnavailable
  <2> HIDE DEF e
  <2>3. Passes(Append(Started, e), Wordless)
    BY <2>1, StartedGoes, GoesAppend
  <2> QED
    BY <1>1, <2>2, <2>3, SaysWordless
<1> QED
  BY <1>2, <1>3

LEMMA BulkyTyped ==
    ASSUME RunAssumption, CallsTyped, GroupsWhole
    PROVE  Bulky \subseteq used /\ Bulky \subseteq Nat /\ IsFiniteSet(Bulky)
<1>1. ASSUME NEW c \in Bulky PROVE c \in used
  <2>1. PICK g \in ToSet(groups) : \E r \in ToSet(g.results) : c = r.call
    BY DEF Bulky
  <2>2. PICK i \in DOMAIN groups : g = groups[i]
    BY <2>1 DEF ToSet
  <2>3. g \in Group /\ Whole(g) /\ ToSet(g.calls) \subseteq used
    BY <2>2 DEF CallsTyped, GroupsWhole
  <2>4. PICK j \in DOMAIN g.results : c = g.results[j].call
    BY <2>1 DEF ToSet
  <2>5. DOMAIN g.results = DOMAIN g.calls
    BY <2>3 DEF Whole, Group
  <2>6. c = g.calls[j] /\ j \in DOMAIN g.calls
    BY <2>3, <2>4, <2>5 DEF Whole
  <2> QED
    BY <2>3, <2>6 DEF ToSet
<1> HIDE DEF Bulky
<1>2. Bulky \subseteq used
  BY <1>1
<1> QED
  BY <1>2, FS_Subset DEF CallsTyped

LEMMA RetentionSays ==
    ASSUME RunAssumption, calls \in Nat, CallsTyped, GroupsWhole,
           TooLarge \/ \E made \in SUBSET Bulky : RetentionFails(made)
    PROVE  \E made \in SUBSET Nat : Says(Effectless, made) /\ made \cap retained = {} /\ retained \cup made \subseteq retained'
<1>1. {"context_compaction_error"} \subseteq Status
  BY DEF Status
<1>2. ASSUME NEW told, told \subseteq Bulky \ retained, retained \cup told \subseteq retained',
             RunEnds(Started \o Externalized(told) \o Failure, "context_compaction_error")
      PROVE  \E made \in SUBSET Nat : Says(Effectless, made) /\ made \cap retained = {} /\ retained \cup made \subseteq retained'
  <2>1. told \subseteq Nat /\ IsFiniteSet(told)
    <3> HIDE DEF Bulky
    <3>1. told \in SUBSET Bulky
      BY <1>2
    <3> QED
      BY <3>1, BulkyTyped, FS_Subset
  <2>2. Passes(Externalized(told), Effectless) /\ Announces(Externalized(told), told)
    BY <2>1, ExternalizedGoes
  <2>3. LET s == (Started \o Externalized(told)) \o Failure IN Passes(s, Effectless) /\ Announces(s, told)
    BY <2>2, StartedGoes, AnnouncesAround
  <2>4. Says(Effectless, told)
    BY <1>1, <1>2, <2>3 DEF Says, Speaks
  <2> QED
    BY <1>2, <2>1, <2>4
<1>3. CASE TooLarge
  <2>1. retained' = retained \cup Bulky /\ RunEnds(Started \o Externalized(Bulky \ retained) \o Failure, "context_compaction_error")
    BY <1>3 DEF TooLarge
  <2> QED
    BY <1>2, <2>1
<1>4. ASSUME NEW made \in SUBSET Bulky, RetentionFails(made)
      PROVE  \E m \in SUBSET Nat : Says(Effectless, m) /\ m \cap retained = {} /\ retained \cup m \subseteq retained'
  <2>1. made \subseteq Bulky \ retained /\ retained' = retained \cup made
    BY <1>4 DEF RetentionFails
  <2>2. PICK told \in SUBSET made : RunEnds(Started \o Externalized(told) \o Failure, "context_compaction_error")
    BY <1>4 DEF RetentionFails
  <2> QED
    BY <1>2, <2>1, <2>2
<1> QED
  BY <1>3, <1>4

LEMMA GoesPair ==
    ASSUME NEW T, NEW p \in Event, NEW x \in Event, p.type \in T \ Outcomes, x.type \in T \ Outcomes
    PROVE  Passes(<<p, x>>, T)
<1>1. <<p, x>> \in Seq(Event) /\ Len(<<p, x>>) = 2 /\ <<p, x>>[1] = p /\ <<p, x>>[2] = x
  OBVIOUS
<1>2. \A i \in 1..2 : i = 1 \/ i = 2
  OBVIOUS
<1> QED
  BY <1>1, <1>2 DEF Passes

LEMMA GoesFour ==
    ASSUME NEW T, NEW c \in Event, NEW d \in Event, Passes(<<c, d>>, T),
           NEW p \in Event, NEW x \in Event, p.type \in T \ Outcomes, x.type \in T \ Outcomes
    PROVE  Passes(<<c, d, p, x>>, T)
<1> DEFINE s == <<c, d>>
           t == <<c, d, p, x>>
<1>0. Len(s) = 2 /\ s[1] = c /\ s[2] = d
  OBVIOUS
<1>1. t \in Seq(Event) /\ Len(t) = 4 /\ t[1] = c /\ t[2] = d /\ t[3] = p /\ t[4] = x
  OBVIOUS
<1> HIDE DEF s, t
<1>2. \A i \in 1..4 : i \in 1..2 \/ i = 3 \/ i = 4
  OBVIOUS
<1>3. \A i \in 1..2 : t[i] = s[i] /\ (i > 1 => t[i - 1] = s[i - 1])
  BY <1>0, <1>1
<1>4. Passes(s, T)
  BY DEF s
<1>5. \A i \in 1..2 : /\ t[i].type \in T
                       /\ t[i].type \in Outcomes =>
                            /\ i > 1 /\ t[i - 1].type = "context.compaction_started"
                            /\ t[i - 1].compaction = t[i].compaction
  BY <1>0, <1>3, <1>4 DEF Passes
<1> QED
  BY <1>1, <1>2, <1>5 DEF Passes, t

LEMMA AskSays ==
    ASSUME RunAssumption, calls \in Nat, CallsTyped, GroupsWhole, AskModel \/ AskAgain
    PROVE  \E made \in SUBSET Nat : Says(Effectless, made) /\ made \cap retained = {} /\ retained \cup made \subseteq retained'
<1> DEFINE p == Plain("context.projected")
           x == Plain("model.exchange_started")
           cs == Compaction("context.compaction_started")
           cc == Compaction("context.compaction_completed")
<1>0. p \in Event /\ p.type \in Wordless \ Outcomes /\ x \in Event /\ x.type \in Wordless \ Outcomes /\ Passes(<<cs, cc>>, Wordless)
  BY WordsTyped
<1>1. Sends /\ "asked" \in AtWork
  BY DEF AskModel, AskAgain, AtWork
<1>2. CASE retained' = retained /\ Write(Started \o <<p, x>>, "asked")
  <2> HIDE DEF p, x
  <2>2. Passes(<<p, x>>, Wordless)
    BY <1>0, GoesPair
  <2>3. Passes(Started \o <<p, x>>, Wordless)
    BY <2>2, StartedGoes, GoesOn
  <2>4. Passes(Started \o <<p, x>>, Effectless)
    BY <2>3, GoesMore DEF Wordless
  <2>5. Announces(Started \o <<p, x>>, {})
    BY <2>3, WordlessAnnounces
  <2>6. Says(Effectless, {})
    BY <1>1, <1>2, <2>4, <2>5 DEF Says, Speaks
  <2> QED
    BY <1>2, <2>6
<1>3. CASE retained' = retained \cup Bulky /\ Write(Started \o Externalized(Bulky \ retained) \o <<cs, cc, p, x>>, "asked")
  <2> DEFINE made == Bulky \ retained
  <2>0. cs \in Event /\ cc \in Event
    BY EventsTyped DEF EventType
  <2> HIDE DEF p, x, cs, cc
  <2>3. Passes(<<cs, cc, p, x>>, Wordless)
    BY <1>0, <2>0, GoesFour
  <2>4. made \subseteq Nat /\ IsFiniteSet(made)
    <3> HIDE DEF Bulky
    <3>1. made \in SUBSET Bulky
      OBVIOUS
    <3> QED
      BY <3>1, BulkyTyped, FS_Subset
  <2>5. Passes(Externalized(made), Effectless) /\ Announces(Externalized(made), made)
    BY <2>4, ExternalizedGoes
  <2>6. LET s == (Started \o Externalized(made)) \o <<cs, cc, p, x>> IN Passes(s, Effectless) /\ Announces(s, made)
    BY <2>3, <2>5, StartedGoes, AnnouncesAround
  <2>7. Says(Effectless, made)
    BY <1>1, <1>3, <2>6 DEF Says, Speaks
  <2> QED
    BY <1>3, <2>4, <2>7
<1>4. \/ retained' = retained /\ Write(Started \o <<p, x>>, "asked")
      \/ retained' = retained \cup Bulky /\ Write(Started \o Externalized(Bulky \ retained) \o <<cs, cc, p, x>>, "asked")
  BY <1>1 DEF Sends
<1> QED
  BY <1>2, <1>3, <1>4

LEMMA SettledGoes ==
    ASSUME RunAssumption, calls \in Nat
    PROVE  Passes(Settled, Wordless)
<1> DEFINE s == Plain("model.exchange_settled")
           r == Plain("context.overflow_retry_succeeded")
<1>1. s \in Event /\ s.type \in Wordless \ Outcomes /\ r \in Event /\ r.type \in Wordless \ Outcomes
  BY WordsTyped
<1> HIDE DEF s, r
<1>2. Passes(<<s>>, Wordless) /\ Passes(<<r>>, Wordless) /\ Passes(<<>>, Wordless)
  BY <1>1, GoesOne, GoesNone
<1>3. Passes(IF attempt = 2 THEN <<r>> ELSE <<>>, Wordless)
  BY <1>2
<1>4. Passes(<<s>> \o IF attempt = 2 THEN <<r>> ELSE <<>>, Wordless)
  BY <1>2, <1>3, GoesOn
<1> QED
  BY <1>4 DEF Settled, s, r

LEMMA CandidateTyped ==
    ASSUME RunAssumption, CallsTyped, NEW candidate \in Candidates
    PROVE  /\ candidate \in Seq(Nat) /\ Len(candidate) \in 1..MaxCandidate
           /\ candidate[1] \in Nat /\ \A i \in DOMAIN candidate : candidate[i] \in Nat \ {0}
           /\ DOMAIN candidate = 1..Len(candidate) /\ IsFiniteSet(ToSet(candidate))
<1> DEFINE known == Cardinality(used)
<1>0. known \in Nat /\ MaxCandidate \in Nat \ {0}
  BY FS_CardinalityType DEF CallsTyped, RunAssumption
<1>1. PICK n \in 1..MaxCandidate : candidate \in [1..n -> 1..known + n]
  BY DEF Candidates
<1> HIDE DEF known
<1>2. n \in Nat /\ known + n \in Nat /\ 1 \in 1..n
  BY <1>0, <1>1
<1>3. /\ candidate \in Seq(Nat) /\ Len(candidate) = n /\ DOMAIN candidate = 1..n
      /\ \A i \in 1..n : candidate[i] \in 1..known + n
  BY <1>1, <1>2
<1>4. ToSet(candidate) \subseteq 1..known + n
  BY <1>3 DEF ToSet
<1>5. IsFiniteSet(1..known + n)
  BY <1>2, FS_Interval
<1>6. IsFiniteSet(ToSet(candidate))
  BY <1>4, <1>5, FS_Subset
<1> QED
  BY <1>1, <1>2, <1>3, <1>6

LEMMA AcceptGoes ==
    ASSUME RunAssumption, calls \in Nat, CallsTyped, NEW candidate \in Candidates
    PROVE  Passes(Accept(candidate), Wordless)
<1> DEFINE e == Of("candidate.accepted", IF Len(candidate) = 1 THEN candidate[1] ELSE 0)
<1>1. (IF Len(candidate) = 1 THEN candidate[1] ELSE 0) \in Nat
  BY CandidateTyped
<1>2. e \in Event /\ e.type \in Wordless \ Outcomes
  BY <1>1, WordsTyped
<1> HIDE DEF e
<1>3. Passes(Append(Settled, e), Wordless)
  BY <1>2, SettledGoes, GoesAppend
<1> QED
  BY <1>3 DEF Accept, e

LEMMA ExchangeSays ==
    ASSUME RunAssumption, calls \in Nat,
           \/ ExchangeCancelled \/ ExchangeRaises \/ ExchangeFails \/ Overflow \/ NoCallLeft \/ RetryOverflows \/ Reject
           \/ \E ending \in {"completed", "abstained"} : Final(ending)
    PROVE  Says(Wordless, {})
<1> DEFINE f == Plain("model.exchange_failed")
           x == Plain("context.overflow_retry_exhausted")
           r == Plain("candidate.rejected")
           c == Plain("candidate.accepted")
           h == Plain("history.advanced")
<1>1. /\ f \in Event /\ f.type \in Wordless \ Outcomes /\ x \in Event /\ x.type \in Wordless \ Outcomes
      /\ r \in Event /\ r.type \in Wordless \ Outcomes /\ c \in Event /\ c.type \in Wordless \ Outcomes
      /\ h \in Event /\ h.type \in Wordless \ Outcomes
  BY WordsTyped
<1>2. /\ {"model_error", "context_overflow", "protocol_error", "completed", "abstained"} \subseteq Status
      /\ "recover" \in AtWork
  BY DEF Status, AtWork
<1>3. CASE ExchangeCancelled
  BY <1>3, EndsCancelledSays DEF ExchangeCancelled
<1>4. CASE ExchangeRaises
  BY <1>2, <1>4, GoesNone, SaysWordless DEF ExchangeRaises
<1>5. CASE ExchangeFails \/ Overflow
  <2>1. RunEnds(<<f>>, "model_error") \/ Write(<<f>>, "recover")
    BY <1>5 DEF ExchangeFails, Overflow
  <2> HIDE DEF f
  <2>2. Passes(<<f>>, Wordless)
    BY <1>1, GoesOne
  <2> QED
    BY <1>2, <2>1, <2>2, SaysWordless
<1>6. CASE Exhausted
  <2>1. RunEnds(<<f, x>>, "context_overflow")
    BY <1>6 DEF Exhausted
  <2> HIDE DEF f, x
  <2>2. Passes(<<f, x>>, Wordless)
    BY <1>1, GoesPair
  <2> QED
    BY <1>2, <2>1, <2>2, SaysWordless
<1>7. CASE Reject
  <2>1. RunEnds(Append(Settled, r), "protocol_error")
    BY <1>7 DEF Reject
  <2> HIDE DEF r
  <2>2. Passes(Append(Settled, r), Wordless)
    BY <1>1, SettledGoes, GoesAppend
  <2> QED
    BY <1>2, <2>1, <2>2, SaysWordless
<1>8. ASSUME NEW ending \in {"completed", "abstained"}, Final(ending)
      PROVE  Says(Wordless, {})
  <2>1. RunEnds(Settled \o <<c, h>>, ending)
    BY <1>8 DEF Final
  <2> HIDE DEF c, h
  <2>2. Passes(<<c, h>>, Wordless)
    BY <1>1, GoesPair
  <2>3. Passes(Settled \o <<c, h>>, Wordless)
    BY <2>2, SettledGoes, GoesOn
  <2> QED
    BY <1>2, <2>1, <2>3, SaysWordless
<1> QED
  BY <1>3, <1>4, <1>5, <1>6, <1>7, <1>8 DEF NoCallLeft, RetryOverflows

LEMMA CandidateSays ==
    ASSUME RunAssumption, calls \in Nat, CallsTyped,
           NEW candidate \in Candidates, StepLimit(candidate) \/ Calls(candidate)
    PROVE  Says(Wordless, {})
<1>1. "step_limit" \in Status /\ "tool" \in AtWork /\ Passes(Accept(candidate), Wordless)
  BY AcceptGoes DEF Status, AtWork
<1>2. CASE StepLimit(candidate)
  BY <1>1, <1>2, SaysWordless DEF StepLimit
<1>3. CASE Calls(candidate)
  <2> DEFINE h == Plain("history.advanced")
  <2>1. h \in Event /\ h.type \in Wordless \ Outcomes
    BY WordsTyped
  <2>2. Write(Append(Accept(candidate), h), "tool")
    BY <1>3 DEF Calls
  <2> HIDE DEF h
  <2>3. Passes(Append(Accept(candidate), h), Wordless)
    BY <1>1, <2>1, GoesAppend
  <2> QED
    BY <1>1, <2>2, <2>3, SaysWordless
<1> QED
  BY <1>2, <1>3

LEMMA HeadTyped ==
    ASSUME CallsTyped, pc \in AtTools
    PROVE  Head(batch) \in Nat /\ batch # <<>> /\ Len(batch) \in Nat \ {0} /\ Tail(batch) \in Seq(Nat)
           /\ Head(batch) = batch[1] /\ Len(Tail(batch)) = Len(batch) - 1
           /\ \A i \in 1..Len(batch) - 1 : Tail(batch)[i] = batch[i + 1]
BY DEF CallsTyped

LEMMA ToolSays ==
    ASSUME RunAssumption, calls \in Nat, CallsTyped, ToolFails \/ ToolCancelled
    PROVE  Says(Wordless, {})
<1>1. CASE ToolFails
  <2> DEFINE f == Of("tool.execution_failed", Head(batch))
  <2>1. pc \in AtTools
    BY <1>1 DEF ToolFails, Executing, AtTools
  <2>2. f \in Event /\ f.type \in Wordless \ Outcomes
    BY <2>1, HeadTyped, WordsTyped
  <2>3. RunEnds(<<f>>, "tool_error") /\ "tool_error" \in Status
    BY <1>1 DEF ToolFails, Status
  <2> HIDE DEF f
  <2>4. Passes(<<f>>, Wordless)
    BY <2>2, GoesOne
  <2> QED
    BY <2>3, <2>4, SaysWordless
<1>2. CASE ToolCancelled
  BY <1>2, EndsCancelledSays DEF ToolCancelled
<1> QED
  BY <1>1, <1>2

Artless == Words \ {"artifact.externalized"}

LEMMA EffectSays ==
    ASSUME RunAssumption, calls \in Nat, CallsTyped, Execute \/ \E size \in {1, Large} : CompleteCall(size)
    PROVE  Says(Artless, {})
<1> DEFINE s == Of("tool.execution_started", Head(batch))
           c == Of("tool.execution_completed", Head(batch))
           h == Of("history.advanced", Head(batch))
<1>0. pc \in AtTools
  BY DEF Execute, CompleteCall, AtTools
<1>1. /\ s \in Event /\ s.type \in Artless \ Outcomes /\ c \in Event /\ c.type \in Artless \ Outcomes
      /\ h \in Event /\ h.type \in Artless \ Outcomes
  <2>1. /\ {"tool.execution_started", "tool.execution_completed", "history.advanced"} \subseteq Artless \ Outcomes
        /\ {"tool.execution_started", "tool.execution_completed", "history.advanced"} \subseteq EventType
    BY DEF Artless, Words, EventType, Outcomes
  <2> QED
    BY <1>0, <2>1, HeadTyped, EventsTyped
<1>2. Write(<<s>>, "executing") \/ Write(<<c, h>>, "tool") \/ Write(<<c, h>>, "turn") \/ RunEnds(<<c, h>>, "loop_policy_stop")
  BY DEF Execute, CompleteCall
<1> HIDE DEF s, c, h
<1>3. Passes(<<s>>, Artless) /\ Passes(<<c, h>>, Artless)
  BY <1>1, GoesOne, GoesPair
<1>4. Announces(<<s>>, {}) /\ Announces(<<c, h>>, {})
  BY <1>3 DEF Passes, Announces, Artless
<1>5. "loop_policy_stop" \in Status /\ {"executing", "tool", "turn"} \subseteq AtWork
  BY DEF Status, AtWork
<1> QED
  BY <1>2, <1>3, <1>4, <1>5 DEF Says, Speaks

-----------------------------------------------------------------------------
(* The log stays one that append accepts, and an artifact is told of once. *)

\* What the loop does at work, between the run's first event and its evaluation.
Working ==
    \/ RunCancelled \/ TimeLimit \/ ModelCallLimit
    \/ ProjectionRaises \/ RecoveryUnavailable \/ TooLarge \/ AskModel \/ AskAgain
    \/ \E made \in SUBSET Bulky : RetentionFails(made)
    \/ ExchangeCancelled \/ ExchangeRaises \/ ExchangeFails \/ Overflow \/ NoCallLeft \/ RetryOverflows \/ Reject
    \/ \E ending \in {"completed", "abstained"} : Final(ending)
    \/ \E candidate \in Candidates : StepLimit(candidate) \/ Calls(candidate)
    \/ Execute \/ ToolFails \/ ToolCancelled
    \/ \E size \in {1, Large} : CompleteCall(size)

LEMMA NextIs ==
    ASSUME [RunNext]_runVars
    PROVE  Begin \/ Working \/ Evaluate \/ Cancel \/ UNCHANGED runVars
BY DEF RunNext, Runs, Working

LEMMA WorkingAtWork ==
    ASSUME Working
    PROVE  pc \in AtWork
BY DEF Working, AtWork, RunCancelled, TimeLimit, ModelCallLimit, ProjectionRaises, RecoveryUnavailable, TooLarge, AskModel,
       AskAgain, RetentionFails, Projecting, ExchangeCancelled, ExchangeRaises, ExchangeFails, Overflow, NoCallLeft,
       RetryOverflows, Exhausted, Reject, Final, StepLimit, Calls, ModelAnswers, Execute, ToolFails, ToolCancelled, Executing,
       CompleteCall

LEMMA WorkingSays ==
    ASSUME RunAssumption, calls \in Nat, CallsTyped, GroupsWhole, Working
    PROVE  \E T \in SUBSET Words, made \in SUBSET Nat :
              Says(T, made) /\ made \cap retained = {} /\ retained \cup made \subseteq retained'
<1>0. Wordless \subseteq Words /\ Effectless \subseteq Words /\ Artless \subseteq Words
  BY DEF Wordless, Effectless, Artless
<1> DEFINE Fine == \E T \in SUBSET Words, made \in SUBSET Nat :
                      Says(T, made) /\ made \cap retained = {} /\ retained \cup made \subseteq retained'
<1>1. CASE Says(Wordless, {}) /\ retained' = retained
  BY <1>0, <1>1
<1>2. CASE RunCancelled \/ TimeLimit \/ ModelCallLimit
  <2>1. retained' = retained
    BY <1>2 DEF RunCancelled, TimeLimit, ModelCallLimit, turn
  <2> HIDE DEF Fine
  <2> QED
    BY <1>1, <1>2, <2>1, TurnSays
<1>3. CASE ProjectionRaises \/ RecoveryUnavailable
  <2>1. retained' = retained
    BY <1>3 DEF ProjectionRaises, RecoveryUnavailable, turn
  <2> HIDE DEF Fine
  <2> QED
    BY <1>1, <1>3, <2>1, ProjectionSays
<1>4. CASE TooLarge \/ \E made \in SUBSET Bulky : RetentionFails(made)
  BY <1>0, <1>4, RetentionSays
<1>5. CASE AskModel \/ AskAgain
  BY <1>0, <1>5, AskSays
<1>6. CASE \/ ExchangeCancelled \/ ExchangeRaises \/ ExchangeFails \/ Overflow \/ NoCallLeft \/ RetryOverflows \/ Reject
           \/ \E ending \in {"completed", "abstained"} : Final(ending)
  <2>1. retained' = retained
    BY <1>6 DEF ExchangeCancelled, ExchangeRaises, ExchangeFails, Overflow, NoCallLeft, RetryOverflows, Exhausted, Reject,
                Final, ModelAnswers, turn
  <2> HIDE DEF Fine
  <2> QED
    BY <1>1, <1>6, <2>1, ExchangeSays
<1>7. ASSUME NEW candidate \in Candidates, StepLimit(candidate) \/ Calls(candidate)
      PROVE  Fine
  <2>1. retained' = retained
    BY <1>7 DEF StepLimit, Calls, ModelAnswers, turn
  <2>2. Says(Wordless, {})
    BY <1>7, CandidateSays
  <2> QED
    BY <1>0, <2>1, <2>2
<1>8. CASE ToolFails \/ ToolCancelled
  <2>1. retained' = retained
    BY <1>8 DEF ToolFails, ToolCancelled, Executing, turn
  <2> HIDE DEF Fine
  <2> QED
    BY <1>1, <1>8, <2>1, ToolSays
<1>9. CASE Execute \/ \E size \in {1, Large} : CompleteCall(size)
  <2>1. retained' = retained
    BY <1>9 DEF Execute, CompleteCall, turn
  <2>2. Says(Artless, {})
    BY <1>9, EffectSays
  <2> QED
    BY <1>0, <2>1, <2>2
<1> HIDE DEF Fine
<1> QED
  BY <1>2, <1>3, <1>4, <1>5, <1>6, <1>7, <1>8, <1>9 DEF Working, Fine

LEMMA BeginWrites ==
    ASSUME RunAssumption, LogAccepted, Begin
    PROVE  LogAccepted' /\ pc' \in {"turn", "crashed"} /\ (log' = <<>> \/ log' = <<Plain("run.started")>>)
<1> DEFINE e == Plain("run.started")
<1>1. log = <<>>
  BY DEF Begin, LogAccepted
<1>2. e \in Event /\ e.type = "run.started"
  BY DEF Plain, Event, EventType
<1>3. Write(<<e>>, "turn")
  BY DEF Begin
<1> HIDE DEF e
<1>4. <<e>> \in Seq(Event) /\ Len(<<e>>) = 1 /\ <<e>>[1] = e /\ DOMAIN <<e>> = {1} /\ <<>> \o <<e>> = <<e>>
  BY <1>2
<1>5. Accepted(<<e>>)
  <2>1. ~Misplaced(<<e>>, 1)
    BY <1>2, <1>4 DEF Misplaced
  <2>2. \A i \in DOMAIN <<e>> : i = 1
    BY <1>4
  <2>3. \A i \in DOMAIN <<e>> : ~Misplaced(<<e>>, i)
    BY <2>1, <2>2
  <2> QED
    BY <1>4, <2>3, AcceptedAt
<1>6. Accepted(<<>>) /\ <<>> \in Seq(Event)
  BY DEF Accepted
<1>7. CASE log' = <<>> \o <<e>> /\ pc' = "turn"
  <2>1. log' = <<e>>
    BY <1>4, <1>7
  <2> QED
    BY <1>2, <1>4, <1>5, <1>7, <2>1 DEF LogAccepted, AtWork, e
<1>8. ASSUME NEW n \in 0..Len(<<e>>) - 1,
             log' = log \o SubSeq(<<e>>, 1, n), pc' = IF Accepted(log \o SubSeq(<<e>>, 1, n + 1)) THEN "crashed" ELSE "refused"
      PROVE  log' = <<>> /\ pc' = "crashed"
  <2>1. n = 0
    BY <1>4, <1>8
  <2>2. SubSeq(<<e>>, 1, 0) = <<>> /\ SubSeq(<<e>>, 1, 1) = <<e>>
    <3> DEFINE s == <<e>>
    <3>1. s \in Seq(Event) /\ Len(s) = 1
      BY <1>4
    <3> HIDE DEF s
    <3>2. SubSeq(s, 1, Len(s)) = s
      BY <3>1, SubSeqFull
    <3>3. SubSeq(s, 1, 0) = <<>>
      BY SubSeqEmpty
    <3> QED
      BY <3>1, <3>2, <3>3 DEF s
  <2>3. log' = <<>>
    BY <1>1, <1>8, <2>1, <2>2
  <2>4. SubSeq(<<e>>, 1, n + 1) = <<e>>
    BY <2>1, <2>2
  <2>5. Accepted(log \o SubSeq(<<e>>, 1, n + 1))
    BY <1>1, <1>4, <1>5, <2>4
  <2> QED
    BY <1>8, <2>3, <2>5
<1>9. log' = <<>> /\ pc' = "crashed" => LogAccepted'
  BY <1>6 DEF LogAccepted, AtWork
<1> QED
  BY <1>1, <1>2, <1>3, <1>4, <1>7, <1>8, <1>9 DEF Write, e

LEMMA LogAcceptedKept ==
    ASSUME RunAssumption, calls \in Nat, CallsTyped, GroupsWhole, LogAccepted, [RunNext]_runVars
    PROVE  LogAccepted'
<1>1. CASE Begin
  BY <1>1, BeginWrites
<1>2. CASE Working
  <2>1. PICK T \in SUBSET Words, made \in SUBSET Nat : Says(T, made)
    BY <1>2, WorkingSays
  <2>2. PICK start : Speaks(start, T, made)
    BY <2>1 DEF Says
  <2>3. Grows(start, T, made)
    BY <1>2, <2>2, SpeaksGrows, WorkingAtWork
  <2> QED
    BY <2>3 DEF Grows
<1>3. CASE Evaluate
  <2>1. log' = log /\ pc = "done" /\ pc' \in {"reported", "crashed"}
    BY <1>3 DEF Evaluate
  <2> QED
    BY <2>1 DEF LogAccepted, AtWork
<1>4. CASE Cancel
  BY <1>4 DEF Cancel, LogAccepted
<1>5. CASE UNCHANGED runVars
  BY <1>5 DEF runVars, LogAccepted
<1> QED
  BY <1>1, <1>2, <1>3, <1>4, <1>5, NextIs

LEMMA AnnouncedMore ==
    ASSUME AnnouncedOnce, log \in Seq(Event), NEW said \in Seq(Event), log' = log \o said,
           NEW made \in SUBSET Nat, Announces(said, made), made \cap retained = {}, retained \cup made \subseteq retained'
    PROVE  AnnouncedOnce'
<1> DEFINE N == Len(log)
           c == log \o said
           art == "artifact.externalized"
<1>1. /\ c \in Seq(Event) /\ Len(c) = N + Len(said) /\ N \in Nat /\ Len(said) \in Nat /\ DOMAIN c = 1..(N + Len(said))
      /\ \A i \in 1..N + Len(said) : c[i] = IF i <= N THEN log[i] ELSE said[i - N]
      /\ DOMAIN log = 1..N
  BY ConcatProperties
<1> HIDE DEF c
<1>2. ASSUME NEW i \in DOMAIN c
      PROVE  \/ i \in DOMAIN log /\ c[i] = log[i]
             \/ i > N /\ i - N \in 1..Len(said) /\ c[i] = said[i - N]
  <2>1. CASE i <= N
    BY <1>1, <2>1
  <2>2. CASE i > N
    BY <1>1, <2>2
  <2> QED
    BY <1>1, <2>1, <2>2
<1>3. ASSUME NEW i \in DOMAIN c, c[i].type = art
      PROVE  c[i].call \in retained'
  BY <1>2, <1>3 DEF AnnouncedOnce, Announces
<1>4. ASSUME NEW i \in DOMAIN c, NEW j \in DOMAIN c, c[i].type = art, c[j].type = art, i # j
      PROVE  c[i].call # c[j].call
  <2>1. CASE i \in DOMAIN log /\ c[i] = log[i] /\ j \in DOMAIN log /\ c[j] = log[j]
    BY <1>4, <2>1 DEF AnnouncedOnce
  <2>2. CASE /\ i > N /\ i - N \in 1..Len(said) /\ c[i] = said[i - N]
             /\ j > N /\ j - N \in 1..Len(said) /\ c[j] = said[j - N]
    <3>1. i - N # j - N
      BY <1>1, <1>4, <2>2
    <3> QED
      BY <1>4, <2>2, <3>1 DEF Announces
  <2>3. CASE i \in DOMAIN log /\ c[i] = log[i] /\ j - N \in 1..Len(said) /\ c[j] = said[j - N]
    <3>1. c[i].call \in retained /\ c[j].call \in made
      BY <1>4, <2>3 DEF Announces, AnnouncedOnce
    <3> QED
      BY <3>1
  <2>4. CASE j \in DOMAIN log /\ c[j] = log[j] /\ i - N \in 1..Len(said) /\ c[i] = said[i - N]
    <3>1. c[j].call \in retained /\ c[i].call \in made
      BY <1>4, <2>4 DEF Announces, AnnouncedOnce
    <3> QED
      BY <3>1
  <2> QED
    BY <1>2, <2>1, <2>2, <2>3, <2>4
<1>5. log' = c
  BY DEF c
<1> QED
  BY <1>3, <1>4, <1>5 DEF AnnouncedOnce

LEMMA AnnouncedOnceKept ==
    ASSUME RunAssumption, calls \in Nat, CallsTyped, GroupsWhole, LogAccepted, AnnouncedOnce, [RunNext]_runVars
    PROVE  AnnouncedOnce'
<1>1. CASE Begin
  <2>1. log' = <<>> \/ log' = <<Plain("run.started")>>
    BY <1>1, BeginWrites
  <2>2. DOMAIN <<Plain("run.started")>> = {1} /\ <<Plain("run.started")>>[1].type = "run.started"
    BY DEF Plain
  <2>3. \A i \in DOMAIN log' : log'[i].type # "artifact.externalized"
    BY <2>1, <2>2
  <2> QED
    BY <2>3 DEF AnnouncedOnce
<1>2. CASE Working
  <2>1. PICK T \in SUBSET Words, made \in SUBSET Nat :
            Says(T, made) /\ made \cap retained = {} /\ retained \cup made \subseteq retained'
    BY <1>2, WorkingSays
  <2>2. PICK start : Speaks(start, T, made)
    BY <2>1 DEF Says
  <2>3. Grows(start, T, made)
    BY <1>2, <2>2, SpeaksGrows, WorkingAtWork
  <2>4. PICK said \in Seq(Event) : log' = log \o said /\ Announces(said, made)
    BY <2>3 DEF Grows
  <2> QED
    BY <2>1, <2>4, AnnouncedMore DEF LogAccepted
<1>3. CASE Evaluate \/ Cancel \/ UNCHANGED runVars
  BY <1>3 DEF Evaluate, Cancel, runVars, turn, AnnouncedOnce
<1> QED
  BY <1>1, <1>2, <1>3, NextIs

-----------------------------------------------------------------------------
(* What each action does to the loop's own state.                          *)

LEMMA WriteGoes ==
    ASSUME NEW events, NEW next, Write(events, next)
    PROVE  pc' \in {next, "crashed", "refused"}
BY DEF Write

LEMMA EndsGoes ==
    ASSUME NEW events, NEW ending, RunEnds(events, ending)
    PROVE  pc' \in {"done", "crashed", "refused"}
BY WriteGoes DEF RunEnds

\* What the turn, the projection and the exchange do to the loop's own state.
LEMMA TurnDoes ==
    ASSUME RunCancelled \/ TimeLimit \/ ModelCallLimit
    PROVE  /\ pc = "turn" /\ pc' \in {"done", "crashed", "refused"}
           /\ UNCHANGED <<policy, turn, tools, late, report>> /\ (signalled' = signalled \/ signalled' = TRUE)
BY EndsGoes DEF RunCancelled, TimeLimit, ModelCallLimit, EndsCancelled

LEMMA ProjectionDoes ==
    ASSUME \/ ProjectionRaises \/ RecoveryUnavailable \/ TooLarge \/ \E made \in SUBSET Bulky : RetentionFails(made)
    PROVE  /\ pc \in {"turn", "recover"} /\ pc' \in {"done", "crashed", "refused"}
           /\ UNCHANGED <<policy, tools, signalled, report, calls, attempt, context, late>>
           /\ retained' = retained \/ \E made \in SUBSET Bulky : retained' = retained \cup made
<1>1. CASE ProjectionRaises
  BY <1>1, EndsGoes DEF ProjectionRaises, Projecting, turn
<1>2. CASE RecoveryUnavailable
  BY <1>2, EndsGoes DEF RecoveryUnavailable, Projecting, turn
<1>3. CASE TooLarge
  BY <1>3, EndsGoes DEF TooLarge, Projecting
<1>4. ASSUME NEW made \in SUBSET Bulky, RetentionFails(made)
      PROVE  /\ pc \in {"turn", "recover"} /\ pc' \in {"done", "crashed", "refused"}
             /\ UNCHANGED <<policy, tools, signalled, report, calls, attempt, context, late>>
             /\ retained' = retained \cup made
  BY <1>4, EndsGoes DEF RetentionFails, Projecting
<1> QED
  BY <1>1, <1>2, <1>3, <1>4

LEMMA AskDoes ==
    ASSUME AskModel \/ AskAgain
    PROVE  /\ (pc = "turn" /\ ~signalled /\ calls < MaxCalls /\ attempt' = 1) \/ (pc = "recover" /\ attempt' = 2)
           /\ pc' \in {"asked", "crashed", "refused"}
           /\ UNCHANGED <<policy, tools, signalled, report>>
           /\ calls' = calls + 1
           /\ late' = late \/ (pc' = "asked" /\ late' = IF signalled THEN late + 1 ELSE late)
           /\ Sends
<1>1. Sends /\ Projecting
  BY DEF AskModel, AskAgain
<1>2. pc' \in {"asked", "crashed", "refused"}
  BY <1>1, WriteGoes DEF Sends
<1>3. /\ (pc = "turn" /\ ~signalled /\ calls < MaxCalls /\ attempt' = 1) \/ (pc = "recover" /\ attempt' = 2)
      /\ UNCHANGED <<policy, tools, signalled, report>>
  BY DEF AskModel, AskAgain, Projecting
<1>4. calls' = calls + 1 /\ (late' = late \/ (pc' = "asked" /\ late' = IF signalled THEN late + 1 ELSE late))
  BY <1>1 DEF Sends, Begins
<1> QED
  BY <1>1, <1>2, <1>3, <1>4

LEMMA ExchangeDoes ==
    ASSUME \/ ExchangeCancelled \/ ExchangeRaises \/ ExchangeFails \/ Overflow \/ NoCallLeft \/ RetryOverflows \/ Reject
           \/ (\E ending \in {"completed", "abstained"} : Final(ending))
           \/ (\E candidate \in Candidates : StepLimit(candidate))
    PROVE  /\ pc = "asked" /\ UNCHANGED <<policy, turn, tools, late, report>>
           /\ \/ pc' \in {"done", "crashed", "refused"} /\ (signalled' = signalled \/ signalled' = TRUE)
              \/ pc' = "recover" /\ calls < MaxCalls /\ ~signalled /\ signalled' = signalled
<1>1. CASE ExchangeCancelled
  BY <1>1, EndsGoes DEF ExchangeCancelled, ModelAnswers, EndsCancelled
<1>2. CASE ExchangeRaises
  BY <1>2, EndsGoes DEF ExchangeRaises, ModelAnswers
<1>3. CASE ExchangeFails
  BY <1>3, EndsGoes DEF ExchangeFails, ModelAnswers
<1>4. CASE Overflow
  BY <1>4, WriteGoes DEF Overflow, ModelAnswers
<1>5. CASE Exhausted
  BY <1>5, EndsGoes DEF Exhausted, ModelAnswers
<1>6. CASE Reject
  BY <1>6, EndsGoes DEF Reject, ModelAnswers
<1>7. CASE \E ending \in {"completed", "abstained"} : Final(ending)
  BY <1>7, EndsGoes DEF Final, ModelAnswers
<1>8. CASE \E candidate \in Candidates : StepLimit(candidate)
  BY <1>8, EndsGoes DEF StepLimit, ModelAnswers
<1> QED
  BY <1>1, <1>2, <1>3, <1>4, <1>5, <1>6, <1>7, <1>8 DEF NoCallLeft, RetryOverflows

LEMMA CallsDoes ==
    ASSUME NEW candidate \in Candidates, Calls(candidate)
    PROVE  /\ pc = "asked" /\ ~signalled /\ pc' \in {"tool", "crashed", "refused"}
           /\ UNCHANGED <<policy, turn, late, report, steps, groups, effects, signalled>>
           /\ used' = used \cup ToSet(candidate) /\ batch' = candidate
           /\ open' = [calls |-> candidate, results |-> <<>>]
           /\ IsInjective(candidate) /\ ToSet(candidate) \cap used = {}
           /\ steps + Len(candidate) <= MaxSteps
BY WriteGoes DEF Calls, ModelAnswers, Admissible

LEMMA ExecuteDoes ==
    ASSUME Execute
    PROVE  /\ pc = "tool" /\ pc' \in {"executing", "crashed", "refused"}
           /\ UNCHANGED <<policy, turn, tools, signalled, report>>
           /\ late' = late \/ (pc' = "executing" /\ late' = IF signalled THEN late + 1 ELSE late)
BY WriteGoes DEF Execute, Begins

LEMMA ToolStops ==
    ASSUME ToolFails \/ ToolCancelled
    PROVE  /\ pc = "executing" /\ pc' \in {"done", "crashed", "refused"}
           /\ UNCHANGED <<policy, turn, late, report, steps, used, batch, open, groups>>
           /\ (signalled' = signalled \/ signalled' = TRUE) /\ (Acts \/ effects' = effects)
<1>1. CASE ToolFails
  BY <1>1, EndsGoes DEF ToolFails, Executing
<1>2. CASE ToolCancelled
  BY <1>2, EndsGoes DEF ToolCancelled, Executing, EndsCancelled
<1> QED
  BY <1>1, <1>2

\* The group of the calls, with the result of the one that was made.
Answering(size) == [open EXCEPT !.results = Append(@, [call |-> Head(batch), size |-> size])]

LEMMA CompleteDoes ==
    ASSUME NEW size, CompleteCall(size)
    PROVE  /\ pc = "executing" /\ ~signalled /\ Acts /\ steps' = steps + 1 /\ batch' = Tail(batch)
           /\ UNCHANGED <<policy, turn, late, report, used, signalled>>
           /\ \/ /\ Len(batch) > 1 /\ pc' \in {"tool", "crashed", "refused"}
                 /\ open' = Answering(size) /\ groups' = groups
              \/ /\ ~(Len(batch) > 1) /\ pc' \in {"turn", "done", "crashed", "refused"}
                 /\ open' = Closed /\ groups' = Append(groups, Answering(size))
<1> DEFINE c == Of("tool.execution_completed", Head(batch))
           h == Of("history.advanced", Head(batch))
<1>1. /\ pc = "executing" /\ ~signalled /\ Acts /\ steps' = steps + 1 /\ batch' = Tail(batch)
      /\ UNCHANGED <<policy, turn, late, report, used, signalled>>
  BY DEF CompleteCall
<1>2. \/ Len(batch) > 1 /\ open' = Answering(size) /\ groups' = groups /\ Write(<<c, h>>, "tool")
      \/ /\ ~(Len(batch) > 1) /\ open' = Closed /\ groups' = Append(groups, Answering(size))
         /\ RunEnds(<<c, h>>, "loop_policy_stop") \/ Write(<<c, h>>, "turn")
  BY DEF CompleteCall, Answering
<1> QED
  BY <1>1, <1>2, WriteGoes, EndsGoes

LEMMA EvaluateDoes ==
    ASSUME Evaluate
    PROVE  /\ pc = "done" /\ UNCHANGED <<policy, log, turn, tools, signalled, late>>
           /\ \/ pc' = "reported" /\ Loadable(log) /\ report' = Case(Last(log).status, effects)
              \/ pc' = "crashed" /\ ~Loadable(log) /\ report' = report
BY DEF Evaluate

LEMMA BeginDoes ==
    ASSUME Begin
    PROVE  /\ pc = "start" /\ pc' \in {"turn", "crashed", "refused"}
           /\ UNCHANGED <<policy, turn, tools, signalled, late, report>>
BY WriteGoes DEF Begin

LEMMA CancelDoes ==
    ASSUME Cancel
    PROVE  /\ pc \notin Ended /\ pc # "done" /\ signalled' = TRUE /\ UNCHANGED <<pc, policy, log, turn, tools, late, report>>
BY DEF Cancel

-----------------------------------------------------------------------------

\* The actions, as far as the calls are concerned.
Apart == \/ RunCancelled \/ TimeLimit \/ ModelCallLimit
         \/ ProjectionRaises \/ RecoveryUnavailable \/ TooLarge \/ \E made \in SUBSET Bulky : RetentionFails(made)
Asking == \/ ExchangeCancelled \/ ExchangeRaises \/ ExchangeFails \/ Overflow \/ NoCallLeft \/ RetryOverflows \/ Reject
          \/ (\E ending \in {"completed", "abstained"} : Final(ending))
          \/ (\E candidate \in Candidates : StepLimit(candidate))

LEMMA NextCases ==
    ASSUME [RunNext]_runVars
    PROVE  \/ Begin \/ Apart \/ AskModel \/ AskAgain \/ Asking
           \/ (\E candidate \in Candidates : Calls(candidate))
           \/ Execute \/ ToolFails \/ ToolCancelled
           \/ (\E size \in {1, Large} : CompleteCall(size))
           \/ Evaluate \/ Cancel \/ UNCHANGED runVars
BY NextIs DEF Working, Apart, Asking

LEMMA ApartDoes ==
    ASSUME Apart
    PROVE  /\ pc \in {"turn", "recover"} /\ pc' \in {"done", "crashed", "refused"}
           /\ UNCHANGED <<policy, tools, late, report, calls, attempt, context>>
           /\ signalled' = signalled \/ signalled' = TRUE
           /\ retained' = retained \/ \E made \in SUBSET Bulky : retained' = retained \cup made
BY TurnDoes, ProjectionDoes DEF Apart, turn

LEMMA CountersKept ==
    ASSUME RunAssumption, CountersTyped, LateIsLast, [RunNext]_runVars
    PROVE  CountersTyped' /\ LateIsLast'
<1>0. MaxCalls \in Nat /\ calls \in Nat /\ calls <= MaxCalls /\ late \in {0, 1}
  BY DEF RunAssumption, CountersTyped, LateIsLast
<1> USE DEF CountersTyped, LateIsLast, Ended, turn
<1>1. CASE Begin
  BY <1>1, BeginDoes
<1>2. CASE Apart
  BY <1>2, ApartDoes
<1>3. CASE AskModel \/ AskAgain
  <2>1. calls < MaxCalls
    BY <1>3, AskDoes
  <2>2. late = 0
    BY <1>3, AskDoes
  <2>3. calls' \in 0..MaxCalls
    BY <1>0, <1>3, <2>1, AskDoes
  <2> QED
    BY <1>3, <2>2, <2>3, AskDoes
<1>4. CASE Asking
  BY <1>4, ExchangeDoes DEF Asking
<1>5. ASSUME NEW candidate \in Candidates, Calls(candidate)
      PROVE  CountersTyped' /\ LateIsLast'
  BY <1>5, CallsDoes
<1>6. CASE Execute
  BY <1>6, ExecuteDoes
<1>7. CASE ToolFails \/ ToolCancelled
  BY <1>7, ToolStops
<1>8. ASSUME NEW size \in {1, Large}, CompleteCall(size)
      PROVE  CountersTyped' /\ LateIsLast'
  BY <1>8, CompleteDoes
<1>9. CASE Evaluate
  BY <1>9, EvaluateDoes
<1>10. CASE Cancel
  BY <1>10, CancelDoes
<1>11. CASE UNCHANGED runVars
  BY <1>11 DEF runVars
<1> QED
  BY <1>1, <1>2, <1>3, <1>4, <1>5, <1>6, <1>7, <1>8, <1>9, <1>10, <1>11, NextCases

-----------------------------------------------------------------------------
(* The calls: named once, answered in their order.                         *)

\* The actions that leave the calls alone.
ToolsRest == UNCHANGED tools /\ (pc' \in AtTools => pc \in AtTools)

LEMMA RestsTools ==
    ASSUME Begin \/ Apart \/ AskModel \/ AskAgain \/ Asking \/ Execute \/ Evaluate \/ Cancel \/ UNCHANGED runVars
    PROVE  ToolsRest
<1> USE DEF AtTools, ToolsRest
<1>1. CASE Begin
  BY <1>1, BeginDoes
<1>2. CASE Apart
  BY <1>2, ApartDoes
<1>3. CASE AskModel \/ AskAgain
  BY <1>3, AskDoes
<1>4. CASE Asking
  BY <1>4, ExchangeDoes DEF Asking
<1>5. CASE Execute
  BY <1>5, ExecuteDoes
<1>6. CASE Evaluate
  BY <1>6, EvaluateDoes
<1>7. CASE Cancel
  BY <1>7, CancelDoes
<1>8. CASE UNCHANGED runVars
  BY <1>8 DEF runVars
<1> QED
  BY <1>1, <1>2, <1>3, <1>4, <1>5, <1>6, <1>7, <1>8

LEMMA HeadIsCall ==
    ASSUME CallsTyped, CallsOnce, pc \in AtTools
    PROVE  /\ Head(batch) \in used /\ Head(batch) \notin ToSet(effects)
           /\ ToSet(Tail(batch)) \subseteq ToSet(batch) \ {Head(batch)} /\ IsInjective(Tail(batch))
<1>1. /\ Head(batch) \in Nat /\ Len(batch) \in Nat \ {0} /\ Head(batch) = batch[1] /\ Len(Tail(batch)) = Len(batch) - 1
      /\ \A i \in 1..Len(batch) - 1 : Tail(batch)[i] = batch[i + 1]
      /\ DOMAIN batch = 1..Len(batch) /\ DOMAIN Tail(batch) = 1..Len(batch) - 1
  BY HeadTyped DEF CallsTyped
<1>2. Head(batch) \in ToSet(batch)
  BY <1>1 DEF ToSet
<1>3. IsInjective(batch) /\ ToSet(batch) \subseteq used /\ ToSet(batch) \cap ToSet(effects) = {}
  BY DEF CallsOnce
<1>4. ASSUME NEW i \in 1..Len(batch) - 1
      PROVE  i + 1 \in DOMAIN batch /\ i + 1 # 1 /\ Tail(batch)[i] = batch[i + 1]
  BY <1>1
<1>5. ASSUME NEW x \in ToSet(Tail(batch))
      PROVE  x \in ToSet(batch) \ {Head(batch)}
  <2>1. PICK i \in 1..Len(batch) - 1 : x = Tail(batch)[i]
    BY <1>1 DEF ToSet
  <2>2. i + 1 \in DOMAIN batch /\ i + 1 # 1 /\ x = batch[i + 1] /\ 1 \in DOMAIN batch
    BY <1>1, <1>4, <2>1
  <2> QED
    BY <1>1, <1>3, <2>2 DEF ToSet, IsInjective
<1>6. IsInjective(Tail(batch))
  <2>1. ASSUME NEW i \in 1..Len(batch) - 1, NEW j \in 1..Len(batch) - 1, Tail(batch)[i] = Tail(batch)[j]
        PROVE  i = j
    <3>1. i + 1 = j + 1
      BY <1>3, <1>4, <2>1 DEF IsInjective
    <3> QED
      BY <3>1
  <2> QED
    BY <1>1, <2>1 DEF IsInjective
<1> QED
  BY <1>2, <1>3, <1>5, <1>6

LEMMA AppendOnce ==
    ASSUME NEW K, NEW s \in Seq(K), NEW x \in K
    PROVE  /\ Append(s, x) \in Seq(K) /\ ToSet(Append(s, x)) = ToSet(s) \cup {x}
           /\ IsInjective(Append(s, x)) <=> IsInjective(s) /\ x \notin ToSet(s)
<1> DEFINE t == Append(s, x)
           n == Len(s)
<1>1. /\ t \in Seq(K) /\ n \in Nat /\ DOMAIN s = 1..n /\ DOMAIN t = 1..(n + 1)
      /\ \A i \in 1..(n + 1) : t[i] = IF i <= n THEN s[i] ELSE x
  OBVIOUS
<1> HIDE DEF t
<1>2. /\ \A i \in 1..n : i \in 1..(n + 1) /\ t[i] = s[i] /\ i # n + 1
      /\ n + 1 \in 1..(n + 1) /\ t[n + 1] = x
      /\ \A i \in 1..(n + 1) : i = n + 1 \/ i \in 1..n
  BY <1>1
<1>3. ToSet(t) = ToSet(s) \cup {x}
  BY <1>1, <1>2 DEF ToSet
<1>4. IsInjective(t) => IsInjective(s) /\ x \notin ToSet(s)
  BY <1>1, <1>2 DEF ToSet, IsInjective
<1>5. IsInjective(s) /\ x \notin ToSet(s) => IsInjective(t)
  BY <1>1, <1>2 DEF ToSet, IsInjective
<1> QED
  BY <1>1, <1>3, <1>4, <1>5 DEF t

LEMMA ActsTyped ==
    ASSUME CallsTyped, CallsOnce, pc \in AtTools, Acts
    PROVE  /\ effects' \in Seq(used) /\ IsInjective(effects') /\ ToSet(effects') = ToSet(effects) \cup {Head(batch)}
           /\ effects' = Append(effects, Head(batch))
<1>1. Head(batch) \in used /\ Head(batch) \notin ToSet(effects) /\ effects \in Seq(used) /\ IsInjective(effects)
  BY HeadIsCall DEF CallsTyped, CallsOnce
<1>2. effects' = Append(effects, Head(batch))
  BY DEF Acts
<1> QED
  BY <1>1, <1>2, AppendOnce

LEMMA AnsweringTyped ==
    ASSUME RunAssumption, CallsTyped, pc \in AtTools, NEW size \in {1, Large}
    PROVE  /\ Answering(size) \in Group /\ Answering(size).calls = open.calls
           /\ Answering(size).results = Append(open.results, [call |-> Head(batch), size |-> size])
<1> DEFINE r == [call |-> Head(batch), size |-> size]
<1>1. r \in ToolResult
  BY HeadTyped DEF ToolResult
<1>2. open \in [calls : Seq(Nat), results : Seq(ToolResult)]
  BY DEF CallsTyped, Group
<1>3. Answering(size) = [open EXCEPT !.results = Append(@, r)]
  BY DEF Answering
<1> HIDE DEF r
<1>4. Append(open.results, r) \in Seq(ToolResult)
  BY <1>1, <1>2
<1>5. Answering(size) = [calls |-> open.calls, results |-> Append(open.results, r)]
  BY <1>2, <1>3
<1> QED
  BY <1>2, <1>4, <1>5 DEF Group, r

LEMMA CallsTypedKept ==
    ASSUME RunAssumption, CallsTyped, CallsOnce, [RunNext]_runVars
    PROVE  CallsTyped'
<1>0. MaxSteps \in Nat /\ steps \in Nat /\ Large \in Nat
  BY DEF RunAssumption, CallsTyped
<1>1. CASE Begin \/ Apart \/ AskModel \/ AskAgain \/ Asking \/ Execute \/ Evaluate \/ Cancel \/ UNCHANGED runVars
  <2>1. ToolsRest
    BY <1>1, RestsTools
  <2> QED
    BY <2>1 DEF ToolsRest, tools, CallsTyped
<1>2. ASSUME NEW candidate \in Candidates, Calls(candidate)
      PROVE  CallsTyped'
  <2>1. /\ candidate \in Seq(Nat) /\ Len(candidate) \in Nat \ {0} /\ ToSet(candidate) \subseteq Nat
        /\ IsFiniteSet(ToSet(candidate)) /\ candidate # <<>>
    <3>1. MaxCandidate \in Nat
      BY DEF RunAssumption
    <3>2. /\ candidate \in Seq(Nat) /\ Len(candidate) \in 1..MaxCandidate /\ IsFiniteSet(ToSet(candidate))
      BY CandidateTyped
    <3>3. Len(candidate) \in Nat \ {0}
      BY <3>1, <3>2
    <3>4. ToSet(candidate) \subseteq Nat
      BY <3>2 DEF ToSet
    <3>5. candidate # <<>>
      BY <3>3
    <3> QED
      BY <3>2, <3>3, <3>4, <3>5
  <2>2. /\ used' = used \cup ToSet(candidate) /\ batch' = candidate
        /\ open' = [calls |-> candidate, results |-> <<>>]
        /\ steps' = steps /\ groups' = groups /\ effects' = effects /\ steps + Len(candidate) <= MaxSteps
    BY <1>2, CallsDoes
  <2>3. used' \subseteq Nat /\ IsFiniteSet(used')
    BY <2>1, <2>2, FS_Union DEF CallsTyped
  <2>4. effects' \in Seq(used')
    <3>1. used \subseteq used' /\ effects \in Seq(used)
      BY <2>2 DEF CallsTyped
    <3>2. effects \in Seq(used')
      BY <3>1, SeqMonotonic
    <3> QED
      BY <2>2, <3>2
  <2>5. open' \in Group
    BY <2>1, <2>2 DEF Group
  <2> QED
    BY <2>1, <2>2, <2>3, <2>4, <2>5 DEF CallsTyped
<1>3. CASE ToolFails \/ ToolCancelled
  <2>1. /\ pc \in AtTools /\ pc' \notin AtTools /\ UNCHANGED <<steps, used, batch, open, groups>>
        /\ Acts \/ effects' = effects
    BY <1>3, ToolStops DEF AtTools
  <2>2. effects' \in Seq(used)
    BY <2>1, ActsTyped DEF CallsTyped
  <2> QED
    BY <2>1, <2>2 DEF CallsTyped
<1>4. ASSUME NEW size \in {1, Large}, CompleteCall(size)
      PROVE  CallsTyped'
  <2>1. /\ pc \in AtTools /\ Acts /\ steps' = steps + 1 /\ batch' = Tail(batch) /\ used' = used
        /\ \/ /\ Len(batch) > 1 /\ open' = Answering(size) /\ groups' = groups
           \/ /\ ~(Len(batch) > 1) /\ pc' \notin AtTools
              /\ open' = Closed /\ groups' = Append(groups, Answering(size))
    BY <1>4, CompleteDoes DEF AtTools
  <2>2. effects' \in Seq(used)
    BY <2>1, ActsTyped
  <2>3. Tail(batch) \in Seq(Nat) /\ Len(batch) \in Nat \ {0} /\ Len(Tail(batch)) = Len(batch) - 1
    BY <2>1, HeadTyped
  <2>4. steps + Len(batch) <= MaxSteps
    BY <2>1 DEF CallsTyped
  <2>5. steps' \in 0..MaxSteps /\ (Len(batch) > 1 => batch' # <<>> /\ steps' + Len(batch') <= MaxSteps)
    <3>1. steps' \in 0..MaxSteps
      BY <1>0, <2>1, <2>3, <2>4
    <3>2. ASSUME Len(batch) > 1
          PROVE  batch' # <<>> /\ steps' + Len(batch') <= MaxSteps
      <4>1. Len(batch') = Len(batch) - 1 /\ Len(batch') # 0
        BY <2>1, <2>3, <3>2
      <4>2. batch' # <<>>
        BY <4>1
      <4> QED
        BY <1>0, <2>1, <2>3, <2>4, <4>1, <4>2
    <3> QED
      BY <3>1, <3>2
  <2>6. open' \in Group /\ groups' \in Seq(Group)
    <3>1. Answering(size) \in Group /\ Closed \in Group
      BY <2>1, AnsweringTyped DEF Closed, Group
    <3>2. groups \in Seq(Group)
      BY DEF CallsTyped
    <3>3. Append(groups, Answering(size)) \in Seq(Group)
      <4> HIDE DEF Group
      <4> QED
        BY <3>1, <3>2
    <3> QED
      BY <2>1, <3>1, <3>2, <3>3
  <2> QED
    BY <2>1, <2>2, <2>3, <2>5, <2>6 DEF CallsTyped
<1> QED
  BY <1>1, <1>2, <1>3, <1>4, NextCases

LEMMA CallsOnceKept ==
    ASSUME RunAssumption, CallsTyped, CallsOnce, [RunNext]_runVars
    PROVE  CallsOnce'
<1>1. CASE Begin \/ Apart \/ AskModel \/ AskAgain \/ Asking \/ Execute \/ Evaluate \/ Cancel \/ UNCHANGED runVars
  <2>1. ToolsRest
    BY <1>1, RestsTools
  <2> QED
    BY <2>1 DEF ToolsRest, tools, CallsOnce
<1>2. ASSUME NEW candidate \in Candidates, Calls(candidate)
      PROVE  CallsOnce'
  <2>1. /\ used' = used \cup ToSet(candidate) /\ batch' = candidate /\ effects' = effects
        /\ IsInjective(candidate) /\ ToSet(candidate) \cap used = {}
    BY <1>2, CallsDoes
  <2>2. ToSet(effects) \subseteq used
    BY DEF CallsTyped, ToSet
  <2> QED
    BY <2>1, <2>2 DEF CallsOnce
<1>3. CASE ToolFails \/ ToolCancelled
  <2>1. pc \in AtTools /\ pc' \notin AtTools /\ (Acts \/ effects' = effects)
    BY <1>3, ToolStops DEF AtTools
  <2>2. IsInjective(effects')
    BY <2>1, ActsTyped DEF CallsOnce
  <2> QED
    BY <2>1, <2>2 DEF CallsOnce
<1>4. ASSUME NEW size \in {1, Large}, CompleteCall(size)
      PROVE  CallsOnce'
  <2>1. pc \in AtTools /\ Acts /\ batch' = Tail(batch) /\ used' = used
    BY <1>4, CompleteDoes DEF AtTools
  <2>2. IsInjective(effects') /\ ToSet(effects') = ToSet(effects) \cup {Head(batch)}
    BY <2>1, ActsTyped
  <2>3. ToSet(Tail(batch)) \subseteq ToSet(batch) \ {Head(batch)} /\ IsInjective(Tail(batch))
    BY <2>1, HeadIsCall
  <2>4. ToSet(batch) \subseteq used /\ ToSet(batch) \cap ToSet(effects) = {}
    BY <2>1 DEF CallsOnce
  <2> QED
    BY <2>1, <2>2, <2>3, <2>4 DEF CallsOnce
<1> QED
  BY <1>1, <1>2, <1>3, <1>4, NextCases

LEMMA AnsweringWhole ==
    ASSUME RunAssumption, CallsTyped, OpenGroup, pc \in AtTools, NEW size \in {1, Large}
    PROVE  LET a == Answering(size) IN
           /\ a.calls = open.calls /\ Len(a.results) = Len(open.results) + 1
           /\ \A i \in 1..Len(a.results) : a.results[i].call = a.calls[i]
<1> DEFINE a == Answering(size)
           r == [call |-> Head(batch), size |-> size]
           n == Len(open.results)
<1>1. a.calls = open.calls /\ a.results = Append(open.results, r)
  BY AnsweringTyped
<1>2. open.results \in Seq(ToolResult) /\ n \in Nat
  BY DEF CallsTyped, Group
<1>3. r.call = batch[1] /\ 1 \in 1..Len(batch)
  BY HeadTyped
<1>4. open.calls[n + 1] = batch[1]
  BY <1>3 DEF OpenGroup
<1> HIDE DEF r, a
<1>5. Len(a.results) = n + 1 /\ \A i \in 1..(n + 1) : a.results[i] = IF i <= n THEN open.results[i] ELSE r
  BY <1>1, <1>2
<1>6. ASSUME NEW i \in 1..(n + 1) PROVE a.results[i].call = a.calls[i]
  <2>1. CASE i \in 1..n
    BY <1>1, <1>5, <2>1 DEF OpenGroup
  <2>2. CASE i = n + 1
    BY <1>1, <1>2, <1>3, <1>4, <1>5, <2>2
  <2> QED
    BY <1>2, <2>1, <2>2
<1> QED
  BY <1>1, <1>5, <1>6 DEF a

LEMMA GroupsWholeKept ==
    ASSUME RunAssumption, CallsTyped, GroupsWhole, [RunNext]_runVars
    PROVE  GroupsWhole'
<1>1. CASE Begin \/ Apart \/ AskModel \/ AskAgain \/ Asking \/ Execute \/ Evaluate \/ Cancel \/ UNCHANGED runVars
  <2>1. ToolsRest
    BY <1>1, RestsTools
  <2> QED
    BY <2>1 DEF ToolsRest, tools, GroupsWhole, OpenGroup
<1>2. ASSUME NEW candidate \in Candidates, Calls(candidate)
      PROVE  GroupsWhole'
  <2>1. /\ used' = used \cup ToSet(candidate) /\ batch' = candidate /\ groups' = groups
        /\ open'.calls = candidate /\ open'.results = <<>>
    BY <1>2, CallsDoes
  <2>2. candidate \in Seq(Nat) /\ Len(candidate) \in Nat
    BY CandidateTyped
  <2>3. Len(open'.results) = 0 /\ \A i \in 1..Len(candidate) : 0 + i = i
    BY <2>1, <2>2
  <2>4. OpenGroup'
    BY <2>1, <2>2, <2>3 DEF OpenGroup
  <2>5. \A i \in DOMAIN groups : ToSet(groups[i].calls) \subseteq used'
    BY <2>1 DEF GroupsWhole
  <2> QED
    BY <2>1, <2>4, <2>5 DEF GroupsWhole
<1>3. CASE ToolFails \/ ToolCancelled
  <2>1. pc' \notin AtTools /\ UNCHANGED <<used, groups>>
    BY <1>3, ToolStops DEF AtTools
  <2> QED
    BY <2>1 DEF GroupsWhole
<1>4. ASSUME NEW size \in {1, Large}, CompleteCall(size)
      PROVE  GroupsWhole'
  <2> DEFINE a == Answering(size)
  <2>1. /\ pc \in AtTools /\ batch' = Tail(batch) /\ used' = used
        /\ \/ /\ Len(batch) > 1 /\ open' = Answering(size) /\ groups' = groups
           \/ /\ ~(Len(batch) > 1) /\ pc' \notin AtTools /\ groups' = Append(groups, Answering(size))
    BY <1>4, CompleteDoes DEF AtTools
  <2>2. OpenGroup /\ open \in Group /\ open.results \in Seq(ToolResult) /\ Len(open.results) \in Nat
        /\ open.calls \in Seq(Nat) /\ groups \in Seq(Group)
    BY <2>1 DEF GroupsWhole, CallsTyped, Group
  <2>3. /\ a.calls = open.calls /\ Len(a.results) = Len(open.results) + 1
        /\ \A i \in 1..Len(a.results) : a.results[i].call = a.calls[i]
    BY <2>1, <2>2, AnsweringWhole
  <2>4. /\ Len(batch) \in Nat \ {0} /\ Len(Tail(batch)) = Len(batch) - 1
        /\ \A i \in 1..Len(batch) - 1 : Tail(batch)[i] = batch[i + 1]
    BY <2>1, HeadTyped
  <2>5. Len(open.calls) = Len(open.results) + Len(batch) /\ ToSet(open.calls) \subseteq used
    BY <2>2 DEF OpenGroup
  <2>a. a \in Group
    BY <2>1, AnsweringTyped
  <2> HIDE DEF a
  <2>6. CASE Len(batch) > 1 /\ open' = a /\ groups' = groups
    <3>1. Len(a.calls) = Len(a.results) + Len(Tail(batch))
      BY <2>2, <2>3, <2>4, <2>5
    <3>2. ASSUME NEW i \in 1..Len(Tail(batch))
          PROVE  a.calls[Len(a.results) + i] = Tail(batch)[i]
      <4>0. i \in 1..Len(batch) - 1 /\ i \in Nat
        BY <2>4
      <4>1. i + 1 \in 1..Len(batch) /\ Tail(batch)[i] = batch[i + 1]
        BY <2>4, <4>0
      <4>2. open.calls[Len(open.results) + (i + 1)] = batch[i + 1]
        BY <2>2, <4>1 DEF OpenGroup
      <4>3. Len(a.results) + i = Len(open.results) + (i + 1)
        <5> DEFINE n == Len(open.results)
        <5>1. Len(a.results) = n + 1 /\ n \in Nat
          BY <2>2, <2>3
        <5> HIDE DEF n
        <5>2. Len(a.results) + i = n + (i + 1)
          BY <4>0, <5>1
        <5> QED
          BY <5>2 DEF n
      <4> QED
        BY <2>3, <4>1, <4>2, <4>3
    <3>3. OpenGroup'
      BY <2>1, <2>3, <2>5, <2>6, <3>1, <3>2 DEF OpenGroup
    <3> QED
      BY <2>1, <2>6, <3>3 DEF GroupsWhole
  <2>7. CASE ~(Len(batch) > 1) /\ pc' \notin AtTools /\ groups' = Append(groups, a)
    <3>1. Len(a.results) = Len(a.calls)
      BY <2>2, <2>3, <2>4, <2>5, <2>7
    <3>2. Whole(a) /\ ToSet(a.calls) \subseteq used
      <4>1. DOMAIN a.calls = 1..Len(a.results)
        BY <2>2, <2>3, <3>1
      <4> QED
        BY <2>3, <2>5, <3>1, <4>1 DEF Whole
    <3>3. ASSUME NEW i \in DOMAIN groups'
          PROVE  Whole(groups'[i]) /\ ToSet(groups'[i].calls) \subseteq used
      <4>1. groups'[i] = a \/ (i \in DOMAIN groups /\ groups'[i] = groups[i])
        BY <2>2, <2>a, <2>7
      <4> QED
        BY <3>2, <4>1 DEF GroupsWhole
    <3> QED
      BY <2>1, <2>7, <3>3 DEF GroupsWhole
  <2> QED
    BY <2>1, <2>6, <2>7 DEF a
<1> QED
  BY <1>1, <1>2, <1>3, <1>4, NextCases

-----------------------------------------------------------------------------
(* The projection: what is sent fits, and a summary loses no large result. *)

LEMMA SizesTyped ==
    ASSUME RunAssumption, NEW results \in Seq(ToolResult)
    PROVE  Sizes(results) \in Nat /\ Referenced(results) \in Nat
<1>0. Large \in Nat /\ Preview \in Nat
  BY DEF RunAssumption
<1>1. DOMAIN results = 1..Len(results) /\ Len(results) \in Nat /\ \A i \in 1..Len(results) : results[i].size \in Nat
  <2>1. \A i \in 1..Len(results) : results[i] \in ToolResult
    OBVIOUS
  <2>2. \A r \in ToolResult : r.size \in Nat
    BY <1>0 DEF ToolResult
  <2> HIDE DEF ToolResult
  <2> QED
    BY <2>1, <2>2
<1>2. [i \in DOMAIN results |-> results[i].size] \in Seq(Nat)
  BY <1>1
<1>3. [i \in DOMAIN results |-> IF results[i].size = Large THEN Preview ELSE results[i].size] \in Seq(Nat)
  BY <1>0, <1>1
<1> QED
  BY <1>2, <1>3, TotalTyped DEF Sizes, Referenced

LEMMA ContextSizes ==
    ASSUME RunAssumption, CallsTyped
    PROVE  /\ RawSize \in Nat /\ Len(groups) \in Nat
           /\ \A k \in 0..Len(groups) : CompactSize(k) \in Nat
           /\ Recent \in 0..Len(groups) /\ \A j \in 1..Recent : Fits(CompactSize(j))
<1>1. /\ groups \in Seq(Group) /\ Len(groups) \in Nat /\ DOMAIN groups = 1..Len(groups)
      /\ \A i \in 1..Len(groups) : groups[i].results \in Seq(ToolResult)
  <2>1. groups \in Seq(Group)
    BY DEF CallsTyped
  <2>2. \A g \in Group : g.results \in Seq(ToolResult)
    BY DEF Group
  <2>3. \A i \in 1..Len(groups) : groups[i] \in Group
    BY <2>1
  <2> QED
    BY <2>1, <2>2, <2>3
<1>2. RawSize \in Nat
  <2>1. \A i \in 1..Len(groups) : Sizes(groups[i].results) \in Nat
    BY <1>1, SizesTyped
  <2>2. [i \in DOMAIN groups |-> Sizes(groups[i].results)] \in Seq(Nat)
    BY <1>1, <2>1
  <2> QED
    BY <2>2, TotalTyped DEF RawSize
<1>3. ASSUME NEW k \in 0..Len(groups) PROVE CompactSize(k) \in Nat
  <2> DEFINE omitted == SubSeq(groups, 1, Len(groups) - k)
             newest == Newest(k)
  <2>1. omitted \in Seq(Group) /\ newest \in Seq(Group)
    BY <1>1 DEF Newest
  <2> HIDE DEF omitted, newest
  <2>2. [i \in DOMAIN omitted |-> Len(omitted[i].results)] \in Seq(Nat)
    <3>1. DOMAIN omitted = 1..Len(omitted) /\ Len(omitted) \in Nat
          /\ \A i \in 1..Len(omitted) : Len(omitted[i].results) \in Nat
      BY <2>1 DEF Group
    <3> QED
      BY <3>1
  <2>3. [i \in DOMAIN newest |-> Referenced(newest[i].results)] \in Seq(Nat)
    <3>1. DOMAIN newest = 1..Len(newest) /\ Len(newest) \in Nat
          /\ \A i \in 1..Len(newest) : newest[i].results \in Seq(ToolResult)
      <4>1. \A g \in Group : g.results \in Seq(ToolResult)
        BY DEF Group
      <4>2. \A i \in 1..Len(newest) : newest[i] \in Group
        BY <2>1
      <4> QED
        BY <2>1, <4>1, <4>2
    <3>2. \A i \in 1..Len(newest) : Referenced(newest[i].results) \in Nat
      BY <3>1, SizesTyped
    <3> QED
      BY <3>1, <3>2
  <2> DEFINE x == Total([i \in DOMAIN omitted |-> Len(omitted[i].results)])
             y == Total([i \in DOMAIN newest |-> Referenced(newest[i].results)])
  <2>4. x \in Nat /\ y \in Nat
    BY <2>2, <2>3, TotalTyped
  <2>5. CompactSize(k) = 2 + x + y
    BY DEF CompactSize, omitted, newest
  <2> HIDE DEF x, y
  <2> QED
    BY <2>4, <2>5
<1>4. Recent \in {k \in 0..Len(groups) : \A j \in 1..k : Fits(CompactSize(j))}
  <2> DEFINE T == {k \in 0..Len(groups) : \A j \in 1..k : Fits(CompactSize(j))}
  <2>1. T \in SUBSET (0..Len(groups)) /\ 0 \in T
    BY <1>1
  <2> HIDE DEF T
  <2>2. Max(T) \in T
    BY <1>1, <2>1, Greatest
  <2> QED
    BY <2>2 DEF Recent, T
<1> QED
  BY <1>1, <1>2, <1>3, <1>4

LEMMA AskKeepsContext ==
    ASSUME RunAssumption, CallsTyped, GroupsWhole, ContextKept, policy \in Policies, AskModel \/ AskAgain
    PROVE  ContextKept'
<1>1. UNCHANGED <<policy, tools>> /\ pc' \in {"asked", "crashed", "refused"} /\ Sends
  BY AskDoes
<1>2. UNCHANGED <<policy, used, groups>> /\ Bulky' = Bulky
  BY <1>1 DEF tools, Bulky
<1>3. policy \in Policy
  BY DEF RunAssumption
<1>4. CASE SendsRaw /\ context' = [kept |-> Len(groups), summary |-> FALSE, size |-> RawSize] /\ retained' = retained
  <2>1. RawSize \in Nat /\ Len(groups) \in Nat
    BY ContextSizes
  <2>2. context' \in Context /\ context'.kept = Len(groups) /\ ~context'.summary /\ context'.size = RawSize
    BY <1>4, <2>1 DEF Context
  <2>4. policy.semantic /\ policy.window # NoValue => RawSize <= policy.window
    BY <1>4 DEF SendsRaw, Exact, Fits
  <2> QED
    BY <1>2, <1>4, <2>1, <2>2, <2>4 DEF ContextKept
<1>5. CASE /\ policy.window # NoValue => Fits(CompactSize(0))
           /\ context' = [kept |-> Recent, summary |-> TRUE, size |-> CompactSize(Recent)]
           /\ retained' = retained \cup Bulky
  <2>1. Recent \in 0..Len(groups) /\ CompactSize(Recent) \in Nat /\ \A j \in 1..Recent : Fits(CompactSize(j))
    BY ContextSizes
  <2>2. context' \in Context /\ context'.kept = Recent /\ context'.summary /\ context'.size = CompactSize(Recent)
    BY <1>5, <2>1 DEF Context
  <2>3. policy.window # NoValue => CompactSize(Recent) <= policy.window
    <3>1. CASE Recent = 0
      BY <1>5, <3>1 DEF Fits
    <3>2. CASE Recent \in 1..Recent
      BY <2>1, <3>2 DEF Fits
    <3> QED
      BY <2>1, <3>1, <3>2
  <2>4. Bulky \subseteq used
    BY BulkyTyped
  <2> QED
    BY <1>2, <1>5, <2>1, <2>2, <2>3, <2>4 DEF ContextKept
<1> QED
  BY <1>1, <1>4, <1>5 DEF Sends

LEMMA ContextKeptStays ==
    ASSUME RunAssumption, CallsTyped, GroupsWhole, ContextKept, policy \in Policies, [RunNext]_runVars
    PROVE  ContextKept'
<1>1. CASE AskModel \/ AskAgain
  BY <1>1, AskKeepsContext
<1>2. CASE UNCHANGED <<policy, turn, used, groups>> /\ (pc' = "asked" => pc = "asked")
  BY <1>2 DEF ContextKept, turn, Bulky
<1>3. CASE Begin
  BY <1>2, <1>3, BeginDoes DEF tools
<1>4. CASE Apart
  <2>1. /\ UNCHANGED <<policy, used, groups, context>> /\ pc' # "asked"
        /\ retained' = retained \/ \E made \in SUBSET Bulky : retained' = retained \cup made
    BY <1>4, ApartDoes DEF tools
  <2>2. retained' \subseteq used
    <3>1. Bulky \subseteq used
      BY BulkyTyped
    <3> HIDE DEF Bulky
    <3> QED
      BY <2>1, <3>1 DEF ContextKept
  <2> QED
    BY <2>1, <2>2 DEF ContextKept
<1>5. CASE Asking
  BY <1>2, <1>5, ExchangeDoes DEF Asking, tools
<1>6. ASSUME NEW candidate \in Candidates, Calls(candidate)
      PROVE  ContextKept'
  <2>1. pc' # "asked" /\ UNCHANGED turn /\ used' = used \cup ToSet(candidate)
    BY <1>6, CallsDoes
  <2> QED
    BY <2>1 DEF ContextKept, turn
<1>7. CASE Execute
  BY <1>2, <1>7, ExecuteDoes DEF tools
<1>8. CASE ToolFails \/ ToolCancelled
  BY <1>2, <1>8, ToolStops
<1>9. ASSUME NEW size \in {1, Large}, CompleteCall(size)
      PROVE  ContextKept'
  <2>1. pc' # "asked" /\ UNCHANGED turn /\ used' = used
    BY <1>9, CompleteDoes
  <2> QED
    BY <2>1 DEF ContextKept, turn
<1>10. CASE Evaluate
  BY <1>2, <1>10, EvaluateDoes DEF tools
<1>11. CASE Cancel \/ UNCHANGED runVars
  BY <1>2, <1>11, CancelDoes DEF runVars, tools
<1> QED
  BY <1>1, <1>3, <1>4, <1>5, <1>6, <1>7, <1>8, <1>9, <1>10, <1>11, NextCases

-----------------------------------------------------------------------------
(* What the log tells of the effects.                                      *)

\* The first of the events is told of, and no other.
LEMMA ToldFirst ==
    ASSUME NEW past \in Seq(Event), NEW part \in Seq(Event), NEW type,
           part # <<>>, part[1].type = type, \A i \in 2..Len(part) : part[i].type # type
    PROVE  Told(past \o part, type) = Append(Told(past, type), part[1].call)
<1> DEFINE x == part[1]
           rest == Tail(part)
<1>1. /\ x \in Event /\ rest \in Seq(Event) /\ Len(part) \in Nat \ {0} /\ Len(rest) = Len(part) - 1
      /\ \A i \in 1..Len(rest) : rest[i] = part[i + 1]
  BY HeadTailProperties
<1>2. part = <<x>> \o rest
  <2>1. <<x>> \in Seq(Event) /\ Len(<<x>>) = 1 /\ <<x>>[1] = x
    BY <1>1
  <2> DEFINE s == <<x>>
             t == s \o rest
  <2> HIDE DEF s, rest
  <2>2. t \in Seq(Event) /\ Len(t) = Len(s) + Len(rest)
        /\ \A i \in 1..Len(s) + Len(rest) : t[i] = IF i <= Len(s) THEN s[i] ELSE rest[i - Len(s)]
    BY <1>1, <2>1, ConcatProperties DEF s
  <2>3. Len(t) = Len(part) /\ Len(s) = 1 /\ s[1] = x
    BY <1>1, <2>1, <2>2 DEF s
  <2> HIDE DEF t, x
  <2>4. ASSUME NEW i \in 1..Len(part) PROVE part[i] = t[i]
    <3>1. CASE i = 1
      BY <1>1, <2>2, <2>3, <3>1 DEF x
    <3>2. CASE i > 1
      <4>1. i - 1 \in 1..Len(rest) /\ t[i] = rest[i - 1] /\ (i - 1) + 1 = i
        BY <1>1, <2>2, <2>3, <3>2
      <4> QED
        BY <1>1, <4>1
    <3> QED
      BY <3>1, <3>2
  <2>5. part = t
    BY <2>2, <2>3, <2>4, SeqEqual
  <2> QED
    BY <2>5 DEF t, s
<1>3. \A i \in 1..Len(rest) : rest[i].type # type
  <2>1. \A i \in 1..Len(rest) : i + 1 \in 2..Len(part)
    BY <1>1
  <2> QED
    BY <1>1, <2>1
<1> HIDE DEF x, rest
<1>4. past \o part = Append(past, x) \o rest
  <2>1. <<x>> \in Seq(Event) /\ past \o <<x>> = Append(past, x)
    BY <1>1
  <2>2. (past \o <<x>>) \o rest = past \o (<<x>> \o rest)
    BY <1>1, <2>1, ConcatAssociative
  <2> QED
    BY <1>2, <2>1, <2>2
<1>5. Append(past, x) \in Seq(Event)
  BY <1>1
<1>6. Told(Append(past, x) \o rest, type) = Told(Append(past, x), type)
  BY <1>1, <1>3, <1>5, ToldSilent
<1>7. Told(Append(past, x), type) = Append(Told(past, type), x.call)
  BY <1>1, ToldAppend DEF x
<1> QED
  BY <1>4, <1>6, <1>7 DEF x

LEMMA SilentKeepsTold ==
    ASSUME log \in Seq(Event), NEW T, T \subseteq Effectless, NEW said \in Seq(Event), log' = log \o said,
           \A i \in 1..Len(said) : said[i].type \in T \cup {"run.terminal"}
    PROVE  Begun' = Begun /\ Done' = Done
<1>1. \A i \in 1..Len(said) : said[i].type # "tool.execution_started" /\ said[i].type # "tool.execution_completed"
  BY DEF Effectless
<1>2. /\ Told(log \o said, "tool.execution_started") = Told(log, "tool.execution_started")
      /\ Told(log \o said, "tool.execution_completed") = Told(log, "tool.execution_completed")
  BY <1>1, ToldSilent
<1> QED
  BY <1>2 DEF Begun, Done, Sequence

LEMMA SaysKeepsTold ==
    ASSUME RunAssumption, calls \in Nat, LogAccepted, pc \in AtWork, NEW T, T \subseteq Effectless, NEW made, Says(T, made)
    PROVE  /\ Begun' = Begun /\ Done' = Done
           /\ (pc' = "done" => Last(log').status \in Status) /\ (pc' \in Ended => pc' = "crashed")
<1>1. PICK start : Speaks(start, T, made)
  BY DEF Says
<1>2. Grows(start, T, made)
  BY <1>1, SpeaksGrows DEF Effectless
<1>3. PICK said \in Seq(Event) : log' = log \o said /\ \A i \in 1..Len(said) : said[i].type \in T \cup {"run.terminal"}
  BY <1>2 DEF Grows
<1>4. log \in Seq(Event)
  BY DEF LogAccepted
<1>5. Begun' = Begun /\ Done' = Done
  BY <1>3, <1>4, SilentKeepsTold
<1> QED
  BY <1>2, <1>5 DEF Grows

\* Before a call begins, and after it is completed, the log tells all.
LEMMA QuietSteps ==
    ASSUME RunAssumption, calls \in Nat, CallsTyped, GroupsWhole, LogAccepted, EffectsTold,
           \/ Apart \/ AskModel \/ AskAgain \/ Asking \/ \E candidate \in Candidates : Calls(candidate)
    PROVE  EffectsTold' /\ (pc' = "done" => Last(log').status \in Status)
<1>1. /\ pc \in {"turn", "recover", "asked"} /\ pc' \notin {"executing", "reported"} /\ effects' = effects
      /\ pc' \in {"done", "crashed", "refused", "asked", "recover", "tool"}
  <2>1. CASE Apart
    BY <2>1, ApartDoes DEF tools
  <2>2. CASE AskModel \/ AskAgain
    BY <2>2, AskDoes DEF tools
  <2>3. CASE Asking
    BY <2>3, ExchangeDoes DEF tools, Asking
  <2>4. CASE \E candidate \in Candidates : Calls(candidate)
    BY <2>4, CallsDoes
  <2> QED
    BY <2>1, <2>2, <2>3, <2>4
<1>2. Working
  BY DEF Apart, Asking, Working
<1>3. \E T \in SUBSET Effectless, made \in SUBSET Nat : Says(T, made)
  <2>0. Wordless \subseteq Effectless
    BY DEF Wordless
  <2>1. CASE RunCancelled \/ TimeLimit \/ ModelCallLimit
    BY <2>0, <2>1, TurnSays
  <2>2. CASE ProjectionRaises \/ RecoveryUnavailable
    BY <2>0, <2>2, ProjectionSays
  <2>3. CASE TooLarge \/ \E made \in SUBSET Bulky : RetentionFails(made)
    BY <2>3, RetentionSays
  <2>4. CASE AskModel \/ AskAgain
    BY <2>4, AskSays
  <2>5. CASE \/ ExchangeCancelled \/ ExchangeRaises \/ ExchangeFails \/ Overflow \/ NoCallLeft \/ RetryOverflows \/ Reject
             \/ \E ending \in {"completed", "abstained"} : Final(ending)
    BY <2>0, <2>5, ExchangeSays
  <2>6. ASSUME NEW candidate \in Candidates, StepLimit(candidate) \/ Calls(candidate)
        PROVE  \E T \in SUBSET Effectless, made \in SUBSET Nat : Says(T, made)
    BY <2>0, <2>6, CandidateSays
  <2> QED
    BY <2>1, <2>2, <2>3, <2>4, <2>5, <2>6 DEF Apart, Asking
<1>4. Begun' = Begun /\ Done' = Done /\ (pc' = "done" => Last(log').status \in Status)
  <2>1. PICK T \in SUBSET Effectless, made \in SUBSET Nat : Says(T, made)
    BY <1>3
  <2>2. pc \in AtWork
    BY <1>1 DEF AtWork
  <2> QED
    BY <2>1, <2>2, SaysKeepsTold
<1>5. AllTold /\ IsInjective(Begun)
  BY <1>1 DEF EffectsTold, Ended
<1>6. AllTold' /\ IsInjective(Begun')
  <2>1. AllTold'
    BY <1>1, <1>4, <1>5 DEF AllTold
  <2> QED
    BY <1>4, <1>5, <2>1
<1> QED
  BY <1>1, <1>4, <1>6 DEF EffectsTold, Ended

\* While a call is carried out the log is one announcement ahead.
LEMMA CallAnnounced ==
    ASSUME CallsTyped, CallsOnce, EffectsTold, pc = "executing"
    PROVE  /\ Begun = Append(effects, Head(batch)) /\ Done = effects /\ effects \in Seq(used)
           /\ Head(batch) \in used /\ Begun # <<>> /\ Front(Begun) = effects /\ IsInjective(Begun)
<1>1. Begun = Append(effects, Head(batch)) /\ Done = effects /\ effects \in Seq(used) /\ IsInjective(Begun)
  BY DEF EffectsTold, CallsTyped
<1>2. Head(batch) \in used
  BY HeadIsCall DEF AtTools
<1> QED
  BY <1>1, <1>2 DEF Front

LEMMA StoppedTold ==
    ASSUME RunAssumption, calls \in Nat, CallsTyped, CallsOnce, LogAccepted, EffectsTold, ToolFails \/ ToolCancelled
    PROVE  EffectsTold' /\ (pc' = "done" => Last(log').status \in Status)
<1>1. /\ pc = "executing" /\ pc' \in {"done", "crashed", "refused"} /\ batch' = batch
      /\ Acts \/ effects' = effects
  BY ToolStops
<1>2. pc \in AtWork
  BY <1>1 DEF AtWork
<1>3. Says(Wordless, {}) /\ Wordless \subseteq Effectless
  BY ToolSays DEF Wordless
<1>4. Begun' = Begun /\ Done' = Done
  BY <1>2, <1>3, SaysKeepsTold
<1>5. pc' = "done" => Last(log').status \in {"cancelled", "tool_error"}
  <2>1. CASE ToolFails
    <3> DEFINE f == Of("tool.execution_failed", Head(batch))
    <3>1. f \in Event /\ f.type \in Wordless \ Outcomes
      BY <1>1, HeadTyped, WordsTyped DEF AtTools
    <3>2. RunEnds(<<f>>, "tool_error") /\ "tool_error" \in Status
      BY <2>1 DEF ToolFails, Status
    <3> HIDE DEF f
    <3>3. Passes(<<f>>, Words)
      BY <3>1, GoesOne DEF Wordless, Effectless
    <3> QED
      BY <1>2, <3>2, <3>3, EndsSo
  <2>2. CASE ToolCancelled
    BY <1>2, <2>2, EndsCancelledSays DEF ToolCancelled
  <2> QED
    BY <2>1, <2>2
<1>6. {"cancelled", "tool_error"} \subseteq Status
  BY DEF Status
<1>7. /\ Begun = Append(effects, Head(batch)) /\ Done = effects /\ effects \in Seq(used)
      /\ Head(batch) \in used /\ Begun # <<>> /\ Front(Begun) = effects /\ IsInjective(Begun)
  BY <1>1, CallAnnounced
<1>8. Uncompleted' \/ Unacted'
  <2>1. CASE Acts
    <3>1. effects' = Begun
      BY <1>7, <2>1 DEF Acts
    <3> QED
      BY <1>4, <1>7, <3>1 DEF Uncompleted
  <2>2. CASE effects' = effects
    BY <1>4, <1>7, <2>2 DEF Unacted
  <2> QED
    BY <1>1, <2>1, <2>2
<1> QED
  BY <1>1, <1>4, <1>5, <1>6, <1>7, <1>8 DEF EffectsTold, Ended

LEMMA ExecuteTold ==
    ASSUME RunAssumption, calls \in Nat, CallsTyped, CallsOnce, LogAccepted, EffectsTold, Execute
    PROVE  EffectsTold' /\ pc' \in {"executing", "crashed"}
<1> DEFINE h == Head(batch)
           s == Of("tool.execution_started", h)
           begun == "tool.execution_started"
           done == "tool.execution_completed"
<1>1. /\ pc = "tool" /\ batch' = batch /\ effects' = effects
  BY ExecuteDoes DEF tools
<1>2. pc \in AtTools /\ pc \in AtWork
  BY <1>1 DEF AtTools, AtWork
<1>3. h \in used /\ h \notin ToSet(effects) /\ h \in Nat
  BY <1>2, HeadIsCall, HeadTyped
<1>4. s \in Event /\ s.type = begun /\ s.call = h /\ s.type \in Words \ Outcomes
  <2>1. begun \in EventType /\ begun \in Words \ Outcomes
    BY DEF EventType, Words, Outcomes
  <2> QED
    BY <1>3, <2>1, EventsTyped
<1>5. Write(<<s>>, "executing")
  BY DEF Execute
<1>6. /\ log \in Seq(Event) /\ log # <<>> /\ Accepted(log) /\ Quiet(log)
  BY <1>2 DEF LogAccepted, Quiet
<1> HIDE DEF s, h
<1>7. Follows(<<s>>)
  <2>1. "completed" \in Status /\ Passes(<<s>>, Words)
    BY <1>4, GoesOne DEF Status
  <2> QED
    BY <2>1, GoesThenEnds
<1>8. Begun = effects /\ Done = effects /\ effects \in Seq(used) /\ IsInjective(effects)
  BY <1>1 DEF EffectsTold, AllTold, Ended, CallsTyped, CallsOnce
<1>9. CASE pc' = "executing" /\ log' = log \o <<s>>
  <2>1. log' = Append(log, s)
    BY <1>4, <1>6, <1>9
  <2>2. Begun' = Append(Begun, h)
    BY <1>4, <1>6, <2>1, ToldAppend DEF Begun, Sequence
  <2>3. Done' = Done
    <3>1. s.type # done
      BY <1>4
    <3> QED
      BY <1>4, <1>6, <2>1, <3>1, ToldAppend DEF Done, Sequence
  <2>4. IsInjective(Append(effects, h))
    BY <1>3, <1>8, AppendOnce
  <2>5. Append(effects, h) # <<>> /\ Front(Append(effects, h)) = effects
    BY <1>3, <1>8 DEF Front
  <2>6. Unacted'
    BY <1>1, <1>8, <2>2, <2>3, <2>5 DEF Unacted
  <2> QED
    BY <1>1, <1>8, <1>9, <2>2, <2>3, <2>4, <2>6 DEF EffectsTold, Ended, h
<1>10. ASSUME pc' = "crashed", NEW n \in 0..Len(<<s>>) - 1, log' = log \o SubSeq(<<s>>, 1, n)
       PROVE  EffectsTold'
  <2>1. n = 0
    BY <1>10
  <2>2. SubSeq(<<s>>, 1, 0) = <<>> /\ log \o <<>> = log
    BY <1>6, SubSeqEmpty, ConcatEmptySeq
  <2>3. log' = log
    BY <1>10, <2>1, <2>2
  <2> QED
    BY <1>1, <1>8, <1>10, <2>3 DEF EffectsTold, Begun, Done, Sequence, AllTold, Ended
<1> QED
  BY <1>5, <1>6, <1>7, <1>9, <1>10, Written

\* What a completed call says, with the end of the run or without.
Completion(events, next) ==
    /\ Follows(events) /\ Write(events, next) /\ Len(events) > 1 /\ next \in {"tool", "turn", "done"}
    /\ events[1].type = "tool.execution_completed" /\ events[1].call = Head(batch)
    /\ \A i \in 2..Len(events) : events[i].type # "tool.execution_completed"
    /\ \A i \in 1..Len(events) : events[i].type # "tool.execution_started"

LEMMA CompletionFollows ==
    ASSUME RunAssumption, calls \in Nat, CallsTyped, pc \in AtTools, NEW size, CompleteCall(size)
    PROVE  \E events, next : Completion(events, next)
<1> DEFINE c == Of("tool.execution_completed", Head(batch))
           h == Of("history.advanced", Head(batch))
           e == Terminal("loop_policy_stop")
           s == <<c, h>>
           t == Append(s, e)
<1>1. /\ c \in Event /\ c.type = "tool.execution_completed" /\ c.call = Head(batch) /\ c.type \in Words \ Outcomes
      /\ h \in Event /\ h.type = "history.advanced" /\ h.type \in Words \ Outcomes
      /\ e \in Event /\ e.type = "run.terminal"
  <2>1. /\ {"tool.execution_completed", "history.advanced"} \subseteq Words \ Outcomes
        /\ {"tool.execution_completed", "history.advanced"} \subseteq EventType /\ "loop_policy_stop" \in Status
    BY DEF Words, EventType, Outcomes, Status
  <2> QED
    BY <2>1, HeadTyped, EventsTyped
<1>2. Write(s, "tool") \/ Write(s, "turn") \/ Write(t, "done")
  BY DEF CompleteCall, RunEnds
<1>3. "loop_policy_stop" \in Status
  BY DEF Status
<1> HIDE DEF c, h
<1>4. Passes(s, Words)
  BY <1>1, GoesPair
<1>5. Follows(s) /\ Follows(t)
  <2> HIDE DEF s
  <2> QED
    BY <1>3, <1>4, GoesThenEnds
<1> HIDE DEF e
<1>6. s \in Seq(Event) /\ Len(s) = 2 /\ s[1] = c /\ s[2] = h
  BY <1>1
<1> HIDE DEF s
<1>7. Len(t) = 3 /\ t[1] = c /\ t[2] = h /\ t[3] = e
  <2>1. Len(t) = Len(s) + 1 /\ \A i \in 1..(Len(s) + 1) : t[i] = IF i <= Len(s) THEN s[i] ELSE e
    <3>1. s \in Seq(Event) /\ e \in Event
      BY <1>1, <1>6
    <3> QED
      BY <3>1, AppendProperties
  <2> HIDE DEF t
  <2>2. Len(t) = 3 /\ \A i \in 1..3 : t[i] = IF i <= 2 THEN s[i] ELSE e
    BY <1>6, <2>1
  <2> QED
    BY <1>6, <2>2
<1> HIDE DEF t
<1>8. (\A i \in 2..2 : i = 2) /\ (\A i \in 2..3 : i = 2 \/ i = 3) /\ (\A i \in 1..2 : i = 1 \/ i = 2)
      /\ (\A i \in 1..3 : i = 1 \/ i = 2 \/ i = 3)
  OBVIOUS
<1>9. ASSUME NEW x \in {"tool", "turn"}, Write(s, x)
      PROVE  \E events, next : Completion(events, next)
  <2>1. /\ \A i \in 2..Len(s) : s[i].type # "tool.execution_completed"
        /\ \A i \in 1..Len(s) : s[i].type # "tool.execution_started"
    BY <1>1, <1>6, <1>8
  <2>2. s[1].type = "tool.execution_completed" /\ s[1].call = Head(batch) /\ Len(s) > 1
    BY <1>1, <1>6
  <2>3. Completion(s, x)
    BY <1>5, <1>9, <2>1, <2>2 DEF Completion
  <2> QED
    BY <2>3
<1>10. ASSUME Write(t, "done")
       PROVE  \E events, next : Completion(events, next)
  <2>1. /\ \A i \in 2..Len(t) : t[i].type # "tool.execution_completed"
        /\ \A i \in 1..Len(t) : t[i].type # "tool.execution_started"
    BY <1>1, <1>7, <1>8
  <2>2. t[1].type = "tool.execution_completed" /\ t[1].call = Head(batch) /\ Len(t) > 1
    BY <1>1, <1>7
  <2>3. Completion(t, "done")
    BY <1>5, <1>10, <2>1, <2>2 DEF Completion
  <2> QED
    BY <2>3
<1> QED
  BY <1>2, <1>9, <1>10

LEMMA CompleteTold ==
    ASSUME RunAssumption, calls \in Nat, CallsTyped, CallsOnce, LogAccepted, EffectsTold,
           NEW size \in {1, Large}, CompleteCall(size)
    PROVE  EffectsTold'
<1> DEFINE begun == "tool.execution_started"
           done == "tool.execution_completed"
<1>1. pc = "executing" /\ Acts /\ pc \in AtTools /\ pc \in AtWork
  BY CompleteDoes DEF AtTools, AtWork
<1>2. /\ Begun = Append(effects, Head(batch)) /\ Done = effects /\ effects \in Seq(used)
      /\ Head(batch) \in used /\ Begun # <<>> /\ Front(Begun) = effects /\ IsInjective(Begun)
  BY <1>1, CallAnnounced
<1>3. effects' = Begun
  BY <1>1, <1>2 DEF Acts
<1>4. log \in Seq(Event) /\ log # <<>> /\ Accepted(log) /\ Quiet(log)
  BY <1>1 DEF LogAccepted, Quiet
<1>5. PICK events, next :
        /\ Follows(events) /\ Write(events, next) /\ Len(events) > 1 /\ next \in {"tool", "turn", "done"}
        /\ events[1].type = done /\ events[1].call = Head(batch)
        /\ \A i \in 2..Len(events) : events[i].type # done
        /\ \A i \in 1..Len(events) : events[i].type # begun
  BY <1>1, CompletionFollows DEF Completion
<1>6. events \in Seq(Event) /\ Len(events) \in Nat
  BY <1>5 DEF Follows
<1>7. ASSUME NEW n \in 1..Len(events), log' = log \o SubSeq(events, 1, n)
      PROVE  AllTold'
  <2> DEFINE part == SubSeq(events, 1, n)
  <2>1. part \in Seq(Event) /\ Len(part) = n /\ \A i \in 1..n : part[i] = events[i] /\ i \in 1..Len(events)
    BY <1>6
  <2> HIDE DEF part
  <2>2. part # <<>> /\ part[1].type = done /\ part[1].call = Head(batch)
    BY <1>5, <2>1
  <2>3. (\A i \in 2..Len(part) : part[i].type # done) /\ (\A i \in 1..Len(part) : part[i].type # begun)
    <3>1. \A i \in 2..n : i \in 1..n /\ i \in 2..Len(events)
      BY <1>6
    <3> QED
      BY <1>5, <2>1, <3>1
  <2>4. Told(log \o part, done) = Append(Told(log, done), Head(batch))
    BY <1>4, <2>1, <2>2, <2>3, ToldFirst
  <2>5. Told(log \o part, begun) = Told(log, begun)
    BY <1>4, <2>1, <2>3, ToldSilent
  <2>6. Done' = Append(Done, Head(batch)) /\ Begun' = Begun
    BY <1>7, <2>4, <2>5 DEF Done, Begun, Sequence, part
  <2> QED
    BY <1>2, <1>3, <2>6 DEF AllTold
<1>8. CASE pc' = next /\ log' = log \o events
  <2>1. SubSeq(events, 1, Len(events)) = events /\ Len(events) \in 1..Len(events)
    BY <1>5, <1>6, SubSeqFull
  <2>2. AllTold'
    BY <1>7, <1>8, <2>1
  <2>3. pc' # "executing"
    BY <1>5, <1>8
  <2>4. IsInjective(Begun')
    BY <1>2, <1>3, <2>2 DEF AllTold
  <2> QED
    BY <2>2, <2>3, <2>4 DEF EffectsTold
<1>9. ASSUME pc' = "crashed", NEW n \in 0..Len(events) - 1, log' = log \o SubSeq(events, 1, n)
      PROVE  EffectsTold'
  <2>1. CASE n = 0
    <3>1. SubSeq(events, 1, 0) = <<>> /\ log \o <<>> = log
      BY <1>4, SubSeqEmpty, ConcatEmptySeq
    <3>2. log' = log
      BY <1>9, <2>1, <3>1
    <3>3. Begun' = Begun /\ Done' = Done
      BY <3>2 DEF Begun, Done, Sequence
    <3>4. Uncompleted'
      BY <1>2, <1>3, <3>3 DEF Uncompleted
    <3> QED
      BY <1>2, <1>9, <3>3, <3>4 DEF EffectsTold, Ended
  <2>2. CASE n \in 1..Len(events)
    <3>1. AllTold'
      BY <1>7, <1>9, <2>2
    <3>2. IsInjective(Begun')
      BY <1>2, <1>3, <3>1 DEF AllTold
    <3> QED
      BY <1>9, <3>1, <3>2 DEF EffectsTold
  <2> QED
    BY <1>6, <2>1, <2>2
<1> QED
  BY <1>4, <1>5, <1>8, <1>9, Written

LEMMA EffectsToldKept ==
    ASSUME RunAssumption, calls \in Nat, CallsTyped, CallsOnce, GroupsWhole, LogAccepted, EffectsTold, [RunNext]_runVars
    PROVE  EffectsTold'
<1>1. CASE Begin
  <2> DEFINE e == Plain("run.started")
  <2>1. log = <<>> /\ pc = "start" /\ effects' = effects /\ pc' \in {"turn", "crashed"} /\ (log' = <<>> \/ log' = <<e>>)
    BY <1>1, BeginWrites, BeginDoes DEF LogAccepted, tools
  <2>2. e \in Event /\ e.type = "run.started"
    BY DEF Plain, Event, EventType
  <2> HIDE DEF e
  <2>3. <<e>> = Append(<<>>, e) /\ <<>> \in Seq(Event)
    BY <2>2
  <2>4. ASSUME NEW type, type # "run.started"
        PROVE  Told(<<e>>, type) = Told(<<>>, type)
    <3>1. Told(Append(<<>>, e), type) = Told(<<>>, type)
      BY <2>2, <2>3, <2>4, ToldAppend
    <3> QED
      BY <2>3, <3>1
  <2>5. Begun' = Begun /\ Done' = Done
    BY <2>1, <2>4 DEF Begun, Done, Sequence
  <2>6. AllTold /\ IsInjective(Begun)
    BY <2>1 DEF EffectsTold, Ended
  <2> QED
    BY <2>1, <2>5, <2>6 DEF EffectsTold, AllTold, Ended
<1>2. CASE \/ Apart \/ AskModel \/ AskAgain \/ Asking \/ \E candidate \in Candidates : Calls(candidate)
  BY <1>2, QuietSteps
<1>3. CASE Execute
  BY <1>3, ExecuteTold
<1>4. CASE ToolFails \/ ToolCancelled
  BY <1>4, StoppedTold
<1>5. ASSUME NEW size \in {1, Large}, CompleteCall(size)
      PROVE  EffectsTold'
  BY <1>5, CompleteTold
<1>6. CASE Evaluate
  <2>1. pc = "done" /\ pc' \in {"reported", "crashed"} /\ UNCHANGED <<log, effects>>
    BY <1>6, EvaluateDoes DEF tools
  <2> QED
    BY <2>1 DEF EffectsTold, Begun, Done, Sequence, AllTold, Uncompleted, Unacted, Ended
<1>7. CASE Cancel \/ UNCHANGED runVars
  <2>1. UNCHANGED <<pc, log, effects, batch>>
    BY <1>7, CancelDoes DEF runVars, tools
  <2> QED
    BY <2>1 DEF EffectsTold, Begun, Done, Sequence, AllTold, Uncompleted, Unacted, Ended
<1> QED
  BY <1>1, <1>2, <1>3, <1>4, <1>5, <1>6, <1>7, NextCases

-----------------------------------------------------------------------------
(* The invariant of a run, and what it shows.                              *)

LEMMA ReportsKept ==
    ASSUME RunAssumption, calls \in Nat, CallsTyped, CallsOnce, GroupsWhole, LogAccepted, EffectsTold, Reports, [RunNext]_runVars
    PROVE  Reports'
<1>1. CASE UNCHANGED <<pc, log, effects, report>>
  BY <1>1 DEF Reports
<1>2. CASE UNCHANGED report /\ pc # "reported" /\ pc' # "reported" /\ (pc' = "done" => Last(log').status \in Status)
  BY <1>2 DEF Reports
<1>3. CASE Begin
  BY <1>2, <1>3, BeginDoes
<1>4. CASE \/ Apart \/ AskModel \/ AskAgain \/ Asking \/ \E candidate \in Candidates : Calls(candidate)
  <2>1. UNCHANGED report /\ pc # "reported" /\ pc' # "reported"
    BY <1>4, ApartDoes, AskDoes, ExchangeDoes, CallsDoes DEF Asking
  <2>2. pc' = "done" => Last(log').status \in Status
    BY <1>4, QuietSteps
  <2> QED
    BY <1>2, <2>1, <2>2
<1>5. CASE Execute
  BY <1>2, <1>5, ExecuteDoes
<1>6. CASE ToolFails \/ ToolCancelled
  BY <1>2, <1>6, ToolStops, StoppedTold
<1>7. ASSUME NEW size \in {1, Large}, CompleteCall(size)
      PROVE  Reports'
  <2>1. UNCHANGED report /\ pc = "executing" /\ pc' # "reported" /\ pc \in AtWork
    BY <1>7, CompleteDoes DEF AtWork
  <2>2. Says(Artless, {}) /\ Artless \subseteq Words
    BY <1>7, EffectSays DEF Artless
  <2>3. PICK start : Speaks(start, Artless, {})
    BY <2>2 DEF Says
  <2>4. Grows(start, Artless, {})
    BY <2>1, <2>2, <2>3, SpeaksGrows
  <2> QED
    BY <1>2, <2>1, <2>4 DEF Grows
<1>8. CASE Evaluate
  BY <1>8, EvaluateDoes DEF Reports, tools
<1>9. CASE Cancel \/ UNCHANGED runVars
  BY <1>1, <1>9, CancelDoes DEF runVars, tools
<1> QED
  BY <1>3, <1>4, <1>5, <1>6, <1>7, <1>8, <1>9, NextCases

\* What holds of a run at every step.
RunInv ==
    /\ CountersTyped /\ LateIsLast
    /\ CallsTyped /\ CallsOnce /\ GroupsWhole
    /\ ContextKept
    /\ LogAccepted /\ AnnouncedOnce
    /\ EffectsTold /\ Reports

LEMMA RunInvStarts ==
    ASSUME RunAssumption, RunInit
    PROVE  RunInv
<1> USE DEF RunInit
<1>0. MaxCalls \in Nat /\ MaxSteps \in Nat /\ log \in Seq(Event) /\ Len(<<>>) = 0 /\ DOMAIN <<>> = {}
  BY DEF RunAssumption
<1>1. CountersTyped /\ LateIsLast
  <2>1. LateIsLast
    BY DEF LateIsLast
  <2>2. calls \in 0..MaxCalls /\ signalled \in BOOLEAN /\ attempt \in {1, 2}
    <3>1. calls = 0 /\ attempt = 1 /\ signalled = FALSE
      OBVIOUS
    <3>2. 0 \in 0..MaxCalls
      BY <1>0
    <3> QED
      BY <3>1, <3>2
  <2>3. pc \in Ended \cup {"start", "turn", "asked", "recover", "tool", "executing", "done"} /\ pc # "recover"
    OBVIOUS
  <2> QED
    BY <2>1, <2>2, <2>3 DEF CountersTyped
<1>2. CallsTyped
  BY <1>0, FS_EmptySet DEF CallsTyped, Closed, Group, AtTools
<1>3. CallsOnce /\ GroupsWhole /\ ContextKept
  BY <1>0 DEF CallsOnce, GroupsWhole, ContextKept, AtTools, IsInjective
<1>4. LogAccepted /\ AnnouncedOnce
  BY <1>0 DEF LogAccepted, AnnouncedOnce, Accepted, AtWork
<1>5. Begun = <<>> /\ Done = <<>>
  BY ToldNothing DEF Begun, Done, Sequence
<1>6. EffectsTold
  BY <1>0, <1>5 DEF EffectsTold, AllTold, IsInjective
<1>7. Reports
  BY DEF Reports
<1> QED
  BY <1>1, <1>2, <1>3, <1>4, <1>6, <1>7 DEF RunInv

LEMMA RunInvKept ==
    ASSUME RunAssumption, RunInv, [RunNext]_runVars
    PROVE  RunInv'
<1>1. CountersTyped /\ LateIsLast /\ CallsTyped /\ CallsOnce /\ GroupsWhole /\ ContextKept /\ LogAccepted
      /\ AnnouncedOnce /\ EffectsTold /\ Reports
  BY DEF RunInv
<1>2. calls \in Nat /\ policy \in Policies
  BY <1>1 DEF CountersTyped, RunAssumption
<1>3. CountersTyped' /\ LateIsLast'
  BY <1>1, CountersKept
<1>4. CallsTyped' /\ CallsOnce' /\ GroupsWhole'
  BY <1>1, CallsTypedKept, CallsOnceKept, GroupsWholeKept
<1>5. ContextKept'
  BY <1>1, <1>2, ContextKeptStays
<1>6. LogAccepted' /\ AnnouncedOnce'
  BY <1>1, <1>2, LogAcceptedKept, AnnouncedOnceKept
<1>7. EffectsTold' /\ Reports'
  BY <1>1, <1>2, EffectsToldKept, ReportsKept
<1> QED
  BY <1>3, <1>4, <1>5, <1>6, <1>7 DEF RunInv

LEMMA RunInvHolds == RunSpec => []RunInv
<1>1. RunInit => RunInv
  BY RunInvStarts, RunAssumption
<1>2. RunInv /\ [RunNext]_runVars => RunInv'
  BY RunInvKept, RunAssumption
<1> QED
  BY <1>1, <1>2, PTL DEF RunSpec

LEMMA RunTyped ==
    ASSUME RunAssumption, RunInv
    PROVE  RunTypeOK
<1>1. /\ pc \in Ended \cup {"start", "turn", "asked", "recover", "tool", "executing", "done"}
      /\ policy \in Policies /\ calls \in 0..MaxCalls /\ attempt \in {1, 2} /\ signalled \in BOOLEAN /\ late \in Nat
  BY DEF RunInv, CountersTyped, LateIsLast
<1>2. /\ steps \in 0..MaxSteps /\ used \subseteq Nat /\ batch \in Seq(Nat) /\ open \in Group /\ groups \in Seq(Group)
      /\ effects \in Seq(used)
  BY DEF RunInv, CallsTyped
<1>3. log \in Seq(Event) /\ retained \subseteq used /\ context \in Context \cup {NoValue}
  BY DEF RunInv, LogAccepted, ContextKept
<1>4. report \in Report \cup {NoValue}
  <2>1. CASE report = NoValue
    BY <2>1
  <2>2. CASE report # NoValue
    <3>1. report = Case(Last(log).status, effects) /\ Last(log).status \in Status
      BY <2>2 DEF RunInv, Reports
    <3>2. effects \in Seq(Nat)
      BY <1>2, SeqMonotonic
    <3> QED
      BY <3>1, <3>2 DEF Case, Report, Scored
  <2> QED
    BY <2>1, <2>2
<1> QED
  BY <1>1, <1>2, <1>3, <1>4 DEF RunTypeOK

LEMMA PrefixSelf ==
    ASSUME NEW K, NEW s \in Seq(K)
    PROVE  IsPrefix(s, s)
BY DEF IsPrefix

LEMMA PrefixFront ==
    ASSUME NEW K, NEW s \in Seq(K), s # <<>>
    PROVE  IsPrefix(Front(s), s) /\ Len(Front(s)) + 1 = Len(s) /\ Front(s) \in Seq(K)
<1>1. Front(s) = SubSeq(s, 1, Len(s) - 1) /\ Len(s) \in Nat \ {0}
  BY DEF Front
<1>2. /\ SubSeq(s, 1, Len(s) - 1) \in Seq(K) /\ Len(SubSeq(s, 1, Len(s) - 1)) = Len(s) - 1
  <2>1. Len(s) - 1 \in Int /\ \A i \in 1..Len(s) - 1 : s[i] \in K
    BY <1>1
  <2> DEFINE t == SubSeq(s, 1, Len(s) - 1)
  <2>2. t \in Seq(K) /\ Len(t) = IF 1 <= Len(s) - 1 THEN Len(s) - 1 - 1 + 1 ELSE 0
    BY <2>1, SubSeqProperties
  <2> HIDE DEF t
  <2>3. Len(t) = Len(s) - 1
    <3> DEFINE n == Len(s)
    <3>1. n \in Nat /\ n # 0 /\ Len(t) = IF 1 <= n - 1 THEN n - 1 - 1 + 1 ELSE 0
      BY <1>1, <2>2
    <3> HIDE DEF n
    <3>2. n = 1 => Len(t) = n - 1
      BY <3>1
    <3>3. n > 1 => Len(t) = n - 1
      BY <3>1
    <3>4. Len(t) = n - 1
      BY <3>1, <3>2, <3>3
    <3> QED
      BY <3>4 DEF n
  <2> QED
    BY <2>2, <2>3 DEF t
<1>3. SubSeq(Front(s), 1, Len(Front(s))) = Front(s)
  BY <1>1, <1>2, SubSeqFull
<1> QED
  BY <1>1, <1>2, <1>3 DEF IsPrefix

LEMMA LogTold ==
    ASSUME RunAssumption, RunInv
    PROVE  LogTellsEffects
<1>1. RunTypeOK
  BY RunTyped
<1>2. EffectsTold /\ LogAccepted /\ effects \in Seq(used)
  BY DEF RunInv, CallsTyped
<1>3. Begun \in Seq(Nat) /\ Done \in Seq(Nat) /\ Len(Begun) \in Nat /\ Len(Done) \in Nat
  <2>1. Begun \in Seq(Nat) /\ Done \in Seq(Nat)
    BY <1>2, ToldTyped DEF Begun, Done, Sequence, LogAccepted
  <2> QED
    BY <2>1
<1>4. IsInjective(Begun) /\ (AllTold \/ Uncompleted \/ Unacted)
  BY <1>2 DEF EffectsTold
<1>5. IsPrefix(Done, effects) /\ IsPrefix(effects, Begun) /\ Len(Begun) <= Len(Done) + 1
  <2>1. CASE AllTold
    BY <1>2, <1>3, <2>1, PrefixSelf DEF AllTold
  <2>2. CASE Uncompleted
    BY <1>2, <1>3, <2>2, PrefixSelf, PrefixFront DEF Uncompleted
  <2>3. CASE Unacted
    BY <1>2, <1>3, <2>3, PrefixSelf, PrefixFront DEF Unacted
  <2> QED
    BY <1>4, <2>1, <2>2, <2>3
<1>6. pc = "done" => Loadable(log)
  BY <1>2 DEF LogAccepted, Loadable
<1>7. pc # "refused"
  BY <1>2 DEF LogAccepted
<1> QED
  BY <1>1, <1>4, <1>5, <1>6, <1>7 DEF LogTellsEffects, Begun, Done

LEMMA RebuiltIs ==
    ASSUME RunInv
    PROVE  RebuiltAgrees
<1> SUFFICES ASSUME report # NoValue
             PROVE  /\ Rebuilt.status = report.status
                    /\ report.scored => Rebuilt = report
                    /\ Rebuilt.actions # report.actions =>
                          report.status \in {"cancelled", "tool_error"} /\ Rebuilt.actions = Front(report.actions)
  BY DEF RebuiltAgrees
<1> DEFINE ending == Last(log).status
<1>1. pc = "reported" /\ report = Case(ending, effects)
  BY DEF RunInv, Reports
<1>2. Rebuilt = Case(ending, Done)
  BY DEF Rebuilt, Done
<1>3. (AllTold \/ Uncompleted \/ Unacted) /\ (AllTold \/ ending \in {"cancelled", "tool_error"})
  BY <1>1 DEF RunInv, EffectsTold
<1> HIDE DEF ending
<1>4. report.scored => ending \notin {"cancelled", "tool_error"}
  BY <1>1 DEF Case, Scored
<1>5. CASE Done = effects
  BY <1>1, <1>2, <1>5 DEF Case
<1>6. CASE Done # effects
  <2>1. Done = Front(effects) /\ ending \in {"cancelled", "tool_error"}
    BY <1>3, <1>6 DEF AllTold, Uncompleted, Unacted
  <2> QED
    BY <1>1, <1>2, <1>4, <2>1 DEF Case
<1> QED
  BY <1>5, <1>6

LEMMA ContextIsWhole ==
    ASSUME RunInv
    PROVE  ContextWhole
<1> DEFINE announced == Sequence("artifact.externalized")
<1>1. ContextKept /\ GroupsWhole /\ AnnouncedOnce /\ log \in Seq(Event) /\ groups \in Seq(Group)
  BY DEF RunInv, LogAccepted, CallsTyped
<1>2. ASSUME NEW k \in 0..Len(groups) PROVE Atomic(k)
  <2> SUFFICES ASSUME NEW g \in ToSet(Newest(k)) PROVE Whole(g)
    BY DEF Atomic
  <2> DEFINE m == Len(groups) - k + 1
             newest == SubSeq(groups, m, Len(groups))
  <2>1. Len(groups) \in Nat /\ m \in 1..Len(groups) + 1
    BY <1>1
  <2>2. \A i \in DOMAIN newest : m + i - 1 \in DOMAIN groups /\ newest[i] = groups[m + i - 1]
    BY <1>1, <2>1
  <2>3. PICK i \in DOMAIN newest : g = newest[i]
    BY DEF ToSet, Newest
  <2> QED
    BY <1>1, <2>2, <2>3 DEF GroupsWhole
<1>3. IsInjective(announced) /\ ToSet(announced) \subseteq retained
  BY <1>1, ToldMembers DEF AnnouncedOnce, Sequence
<1> QED
  BY <1>1, <1>2, <1>3 DEF ContextWhole, ContextKept

\* Wherever the run stops, the log it leaves tells what the tools did, up to
\* the last call, and is one that append and load_run_event_log accept
\* (JsonlRunEventLog.append, the order of events in AgentLoop.run).
THEOREM LogTellsOfEffects == RunSpec => []LogTellsEffects
BY RunInvHolds, LogTold, RunAssumption, PTL

\* The evaluation rebuilt from the log alone is the one that was made with the
\* tools at hand (reconstruct_behavioral_eval_report).
THEOREM RebuiltIsReported == RunSpec => []RebuiltAgrees
BY RunInvHolds, RebuiltIs, PTL

\* After a cancel at most one more request or call begins, and it is the last
\* (the signal is read after every exchange and every call of AgentLoop.run).
THEOREM CancelStops == RunSpec => []CancelIsPrompt
<1>1. RunInv => CancelIsPrompt
  BY DEF RunInv, LateIsLast, CancelIsPrompt
<1> QED
  BY <1>1, RunInvHolds, PTL

\* What is sent to the model fits a verified window, has every call with its
\* result, and what it leaves out is kept (SemanticContextProjector.project).
THEOREM ContextsAreWhole == RunSpec => []ContextWhole
BY RunInvHolds, ContextIsWhole, PTL
=============================================================================

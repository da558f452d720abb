----------------------------- MODULE LiveSession -----------------------------
(***************************************************************************)
(* The Python Live TUI (live_tui.py): a human's session, one run of the    *)
(* agent loop at a time in a thread of its own, and the commands that run  *)
(* on the host (trusted_local.py), in a shell or, once the human accepts,  *)
(* in a terminal.  The gateway is DeepSeekExchange; the loop's log and     *)
(* context are EventedRun's, and so is the retry after an overflow.        *)
(*                                                                         *)
(* The human answers a prompt at most once, after it is shown, and types   *)
(* for a program while it is attached.  The terminal keeps a line until    *)
(* somebody reads it.  A command is its leader and at most one descendant, *)
(* which is not looked at once the call has returned.                      *)
(***************************************************************************)
EXTENDS DeepSeekExchange

CONSTANTS
    MaxRuns, MaxExchanges, MaxKeys, \* bounds of the model; MaxExchanges is RunLimits too
    Kinds,                          \* what a descendant may be like
    Replies                         \* what the provider may answer

ASSUME SessionAssumption ==
    /\ {MaxRuns, MaxExchanges, MaxBatch} \subseteq Nat \ {0} /\ MaxKeys \in Nat
    /\ None \notin Int /\ None \notin {"blank", "text"}
    /\ Kinds \subseteq [deaf : BOOLEAN, holds : BOOLEAN, loud : BOOLEAN, away : BOOLEAN]
    /\ Replies \subseteq Reply

VARIABLES
    ui, exit,   \* the main thread, and the session's exit status
    trusted,    \* the trusted-local profile
    closing,    \* _close_after_active_run
    lines,      \* input nobody has read yet
    replied,    \* whether the human has answered the last prompt
    keys,       \* lines typed for attached programs
    worker,     \* the thread of the run
    status,     \* its result
    cancelled,  \* its cancel signal
    history, exchanges, reply, todo,
    leader, kin, kind, \* the command, until its call returns
    records     \* the runs the session knows

screen == <<ui, exit, closing, records>>
tty == <<lines, replied, keys>>
conversation == <<history, exchanges, reply>>
command == <<leader, kin, kind>>
vars == <<screen, trusted, tty, worker, status, cancelled, conversation, todo, command>>

Tools == IF trusted THEN DomainTools ELSE {"read", "write"}
Raised == 1  \* an exception ends the main thread
Statuses == {"completed", "cancelled", "limit", "model_error", "protocol_error", "tool_error"}
Line == {"yes", "no", "task", "exit"}
Active == {"turn", "sent", "answered", "tool", "shell", "stopping", "killed",
           "asked", "accepted", "started", "attaching", "pty"}

TypeOK ==
    /\ ui \in {"confirm", "task", "watch", "show", "left"} /\ exit \in {None, 0, 2, 130, Raised}
    /\ trusted \in BOOLEAN /\ closing \in BOOLEAN /\ cancelled \in BOOLEAN /\ replied \in BOOLEAN
    /\ lines \in Seq(Line) /\ keys \in 0..MaxKeys
    /\ worker \in Active \cup {"idle", "ended", "raised"}
    /\ status \in Statuses \cup {None}
    /\ history \in Seq(Message) /\ exchanges \in 0..MaxExchanges /\ reply \in Replies \cup {None}
    /\ todo \in Seq(Call)
    /\ leader \in {"none", "up", "gone"} /\ kin \in {"none", "up", "gone"} /\ kind \in Kinds \cup {None}
    /\ records \in Seq(Statuses)

Init ==
    /\ ui = "confirm" /\ exit = None /\ trusted \in BOOLEAN /\ closing = FALSE /\ records = <<>>
    /\ lines = <<>> /\ replied = FALSE /\ keys = 0
    /\ worker = "idle" /\ status = None /\ cancelled = FALSE
    /\ history = <<>> /\ exchanges = 0 /\ reply = None /\ todo = <<>>
    /\ leader = "none" /\ kin = "none" /\ kind = None

-----------------------------------------------------------------------------
(* The main thread.                                                        *)

\* A prompt does not flush what was typed before it.
Shows(unread) ==
    /\ lines' = unread
    /\ replied' = FALSE /\ UNCHANGED keys

Prompts(next, unread) == ui' = next /\ Shows(unread) /\ UNCHANGED exit

Leaves(code, unread) ==
    /\ ui' = "left" /\ exit' = code
    /\ lines' = unread /\ UNCHANGED <<replied, keys>>

Main == UNCHANGED <<trusted, conversation, todo, command>>

\* The session's directory may be there already.
Confirm ==
    /\ ui = "confirm" /\ lines # <<>>
    /\ IF Head(lines) = "yes"
          THEN Prompts("task", Tail(lines)) \/ Leaves(2, Tail(lines))
          ELSE Leaves(0, Tail(lines))
    /\ Main /\ UNCHANGED <<closing, records, worker, status, cancelled>>

ReadsTask == ui = "task" /\ lines # <<>>

\* A command, and a task without a credential, start no run.
TaskRefused ==
    /\ ReadsTask
    /\ IF Head(lines) = "exit" THEN Leaves(0, Tail(lines)) ELSE Prompts("task", Tail(lines))
    /\ Main /\ UNCHANGED <<closing, records, worker, status, cancelled>>

\* execute_task: every run has a signal, a conversation and a store of its own.
StartRun ==
    /\ ReadsTask /\ Head(lines) # "exit" /\ Len(records) < MaxRuns
    /\ lines' = Tail(lines)
    /\ ui' = "watch" /\ worker' = "turn" /\ status' = None /\ cancelled' = FALSE
    /\ history' = <<User>> /\ exchanges' = 0 /\ reply' = None /\ todo' = <<>>
    /\ UNCHANGED <<command, exit, closing, records, trusted, replied, keys>>

\* A KeyboardInterrupt in worker.join asks for a cancel, and the next one to
\* close after the run; anywhere else in the loop that watches it is raised.
Interrupt ==
    /\ ui = "watch"
    /\ \/ ~cancelled /\ cancelled' = TRUE /\ UNCHANGED <<ui, exit, closing>>
       \/ cancelled /\ closing' = TRUE /\ UNCHANGED <<ui, exit, cancelled>>
       \/ ui' = "left" /\ exit' = Raised /\ UNCHANGED <<closing, cancelled>>
    /\ \/ lines' = lines
       \/ lines' = <<>>  \* typed at the terminal, an interrupt flushes its input
    /\ Main /\ UNCHANGED <<replied, keys, worker, status, records>>

InterruptPrompt ==
    /\ ui \in {"confirm", "task", "show"}
    /\ Leaves(IF ui = "show" THEN Raised ELSE 130, lines)
    /\ Main /\ UNCHANGED <<closing, records, worker, status, cancelled>>

\* The thread is over: its result is recorded, its exception raised.
Collect ==
    /\ ui = "watch" /\ worker \in {"ended", "raised"}
    /\ IF worker = "raised"
          THEN ui' = "left" /\ exit' = Raised /\ UNCHANGED records
          ELSE ui' = "show" /\ records' = Append(records, status) /\ UNCHANGED exit
    /\ Main /\ UNCHANGED <<tty, closing, worker, status, cancelled>>

Show ==
    /\ ui = "show"
    /\ IF closing THEN Leaves(130, lines) ELSE Prompts("task", lines)
    /\ Main /\ UNCHANGED <<closing, records, worker, status, cancelled>>

-----------------------------------------------------------------------------
(* The human.                                                              *)

Types(text) ==
    /\ ~replied /\ exit = None
    /\ \/ ui = "confirm" /\ text \in {"yes", "no"}
       \/ ui = "task" /\ text \in {"task", "exit"}
       \/ worker = "asked" /\ text \in {"yes", "no"}
    /\ lines' = Append(lines, text)
    /\ replied' = TRUE
    /\ UNCHANGED <<keys, screen, worker, status, cancelled>> /\ Main

\* For the attached program, which may ask a question too.
TypesKeys ==
    /\ worker = "pty" /\ keys < MaxKeys
    /\ lines' = Append(lines, "yes")
    /\ keys' = keys + 1
    /\ UNCHANGED <<replied, screen, worker, status, cancelled>> /\ Main

-----------------------------------------------------------------------------
(* The run.                                                                *)

Loop == UNCHANGED <<screen, trusted, cancelled>>
NoTool == UNCHANGED <<tty, todo, command>>

Ends(result) == worker' = "ended" /\ status' = result
Goes(next) == worker' = next /\ UNCHANGED status

TurnCancelled ==
    /\ worker = "turn" /\ cancelled
    /\ Ends("cancelled")
    /\ Loop /\ NoTool /\ UNCHANGED conversation

\* The clock, or the calls of the model.
Limit ==
    /\ worker = "turn" /\ ~cancelled
    /\ Ends("limit")
    /\ Loop /\ NoTool /\ UNCHANGED conversation

\* A turn that cannot be encoded is not sent.
Send ==
    /\ worker = "turn" /\ ~cancelled /\ exchanges < MaxExchanges
    /\ exchanges' = exchanges + 1
    /\ IF Encodable(history, trusted) THEN Goes("sent") ELSE Ends("model_error")
    /\ Loop /\ NoTool /\ UNCHANGED <<history, reply>>

TransportFails ==
    /\ worker = "sent"
    /\ Ends(IF cancelled THEN "cancelled" ELSE "model_error")
    /\ Loop /\ NoTool /\ UNCHANGED conversation

\* A reply is decoded and kept before the loop has it.
Answer(r) ==
    /\ worker = "sent" /\ ~cancelled
    /\ \/ reply' = r /\ Goes("answered")
       \/ Ends("model_error") /\ UNCHANGED reply
    /\ Loop /\ NoTool /\ UNCHANGED <<history, exchanges>>

Admits ==
    /\ worker = "answered" /\ reply' = None
    /\ Loop /\ UNCHANGED <<tty, command, exchanges>>

AnswerRefused ==
    /\ Admits /\ (cancelled \/ Rejects(reply, history, Tools, trusted))
    /\ Ends(IF cancelled THEN "cancelled" ELSE "model_error")
    /\ UNCHANGED <<history, todo>>

\* The loop's own admission, its tools' validation and the steps left.
CallsRefused ==
    /\ Admits /\ ~cancelled /\ ~Rejects(reply, history, Tools, trusted) /\ ~IsFinal(reply)
    /\ Ends("protocol_error") \/ Ends("limit")
    /\ UNCHANGED <<history, todo>>

Advance ==
    /\ Admits /\ ~cancelled /\ ~Rejects(reply, history, Tools, trusted)
    /\ IF ~Canonical(Turn(reply))
          THEN Goes("raised") /\ UNCHANGED <<history, todo>>
          ELSE /\ history' = Append(history, Turn(reply))
               /\ IF IsFinal(reply) THEN Ends("completed") /\ UNCHANGED todo ELSE Goes("tool") /\ todo' = reply.calls

\* An append of the log fails.
Raise ==
    /\ worker \in {"turn", "answered", "tool"}
    /\ Goes("raised")
    /\ Loop /\ NoTool /\ UNCHANGED conversation

-----------------------------------------------------------------------------
(* A call.                                                                 *)

InTool(pc) == worker = pc /\ Loop /\ UNCHANGED <<exchanges, reply>>
InCommand(pc) == InTool(pc) /\ UNCHANGED <<tty, history, todo>>

\* What is left of it is not looked for; a leader that is up stays up.
NoCommand == leader' = (IF leader = "up" THEN "up" ELSE "none") /\ kin' = "none" /\ kind' = None

\* The call's observation is there: the loop reads the signal first.
Returns ==
    /\ NoCommand
    /\ IF cancelled
          THEN Ends("cancelled") /\ UNCHANGED <<history, todo>>
          ELSE /\ Goes(IF Len(todo) = 1 THEN "turn" ELSE "tool")
               /\ history' = Append(history, Result(Head(todo).id))
               /\ todo' = Tail(todo)

\* The tool raises: what it did stays done.
Fails == NoCommand /\ Ends("tool_error") /\ UNCHANGED <<history, todo>>

\* The tool observes what came of it, or raises.
Settles == Returns \/ Fails

\* inspect_workspace, read_file and verify_workspace.
ReadFile ==
    /\ InTool("tool") /\ Head(todo).tool = "read"
    /\ Settles
    /\ UNCHANGED tty

\* write_text replaces the file, or raises.
WriteFile ==
    /\ InTool("tool") /\ Head(todo).tool = "write"
    /\ Settles
    /\ UNCHANGED tty

NewCommand(k) ==
    /\ leader' = "up" /\ kind' = k /\ kin' = IF k = None THEN "none" ELSE "up"

RunShell(k) ==
    /\ InCommand("tool") /\ Head(todo).tool = "shell"
    /\ NewCommand(k)
    /\ Goes("shell")

Ask ==
    /\ InTool("tool") /\ Head(todo).tool = "pty"
    /\ Shows(lines)
    /\ Goes("asked")
    /\ UNCHANGED <<history, todo, command>>

\* Input is read as long as there is no cancel.
Answered ==
    /\ InTool("asked") /\ ~cancelled /\ lines # <<>>
    /\ lines' = Tail(lines) /\ UNCHANGED <<replied, keys>>
    /\ IF Head(lines) = "yes"
          THEN Goes("accepted") /\ UNCHANGED <<history, todo, command>>
          ELSE Returns

\* A handoff that waits for its answer all the same.
HandoffCancelledAnswered ==
    /\ \E pc \in {"accepted", "started"} : InTool(pc)
    /\ cancelled
    /\ Returns
    /\ UNCHANGED tty

\* A cancel ends the handoff where it finds it, with no child.
HandoffCancelled ==
    /\ \E pc \in {"asked", "accepted", "started"} : InTool(pc)
    /\ cancelled
    /\ Returns
    /\ UNCHANGED tty

\* The controller looks once more and announces the terminal; the adapter
\* looks too, before it opens one.
Attach ==
    /\ \/ InCommand("accepted") /\ ~cancelled /\ Goes("started")
       \/ InCommand("started") /\ ~cancelled /\ Goes("attaching")
    /\ UNCHANGED command

\* No directory for the command's artifacts, no terminal, no shell.
CommandFails ==
    /\ \/ InTool("tool") /\ Head(todo).tool \in {"shell", "pty"}
       \/ InTool("accepted") \/ InTool("attaching")
    /\ Fails
    /\ UNCHANGED tty

Spawn(k) ==
    /\ InCommand("attaching")
    /\ NewCommand(k)
    /\ Goes("pty")

-----------------------------------------------------------------------------
(* The processes of a command.                                             *)

InGroup == kin = "up" /\ ~kind.away
Holds == kin = "up" /\ kind.holds
Loud == kin = "up" /\ kind.loud

World == UNCHANGED <<screen, trusted, tty, worker, status, cancelled, conversation, todo, kind>>

LeaderExits == leader = "up" /\ leader' = "gone" /\ UNCHANGED kin /\ World
KinExits == kin = "up" /\ kin' = "gone" /\ UNCHANGED leader /\ World

\* SIGTERM to the group: the leader may not heed it in time.
Terminates ==
    /\ leader' \in {leader, "gone"}
    /\ kin' = IF InGroup /\ ~kind.deaf THEN "gone" ELSE kin

Kills ==
    /\ leader' = "gone"
    /\ kin' = IF InGroup THEN "gone" ELSE kin

\* run_noninteractive sees a cancel, or its deadline.  A leader that is gone
\* is sent nothing.
StopShell ==
    /\ InCommand("shell")
    /\ IF leader = "up" THEN Terminates ELSE UNCHANGED <<leader, kin>>
    /\ Goes("stopping")
    /\ UNCHANGED kind

\* Not everyone with the command's output is gone a quarter of a second later.
KillShell ==
    /\ InCommand("stopping") /\ (leader = "up" \/ Holds)
    /\ Kills
    /\ Goes("killed")
    /\ UNCHANGED kind

ShellReturns ==
    /\ \E pc \in {"shell", "stopping", "killed"} : InTool(pc)
    /\ leader = "gone" /\ ~Holds
    /\ Settles
    /\ UNCHANGED tty

\* The adapter's loop sees a cancel, or its deadline, as often as it turns.
\* The descendants of a leader that heeds SIGTERM are not waited for.
StopPty ==
    /\ InCommand("pty") /\ leader = "up"
    /\ \/ Terminates /\ leader' = "gone"
       \/ Kills
    /\ UNCHANGED <<worker, status, kind>>

\* What is typed goes to the program as long as it is there.
ForwardKeys ==
    /\ InTool("pty") /\ leader = "up" /\ lines # <<>>
    /\ lines' = Tail(lines)
    /\ UNCHANGED <<replied, keys, worker, status, history, todo, command>>

\* The adapter returns when there is nothing to read, whoever is there.
PtyReturnsEarly ==
    /\ InTool("pty") /\ ~Loud
    /\ Returns
    /\ UNCHANGED tty

\* The leader is gone and there is nothing to read.  The output may not be
\* kept after all.
PtyReturns ==
    /\ InTool("pty") /\ leader = "gone" /\ ~Loud
    /\ Settles
    /\ UNCHANGED tty

-----------------------------------------------------------------------------

Worker ==
    \/ TurnCancelled \/ Limit \/ Send \/ TransportFails \/ \E r \in Replies : Answer(r)
    \/ AnswerRefused \/ CallsRefused \/ Advance \/ Raise
    \/ ReadFile \/ WriteFile \/ CommandFails \/ Ask \/ Answered \/ HandoffCancelled \/ Attach
    \/ \E k \in Kinds \cup {None} : RunShell(k) \/ Spawn(k)
    \/ StopShell \/ KillShell \/ ShellReturns \/ StopPty \/ ForwardKeys \/ PtyReturns

Session == Confirm \/ TaskRefused \/ StartRun \/ Collect \/ Show

Next ==
    \/ Session \/ Worker
    \/ Interrupt \/ InterruptPrompt
    \/ \E text \in {"yes", "no", "task", "exit"} : Types(text)
    \/ TypesKeys
    \/ LeaderExits \/ KinExits

\* The thread of the run and the one that watches it go on.
Spec == Init /\ [][Next]_vars /\ WF_vars(Worker) /\ WF_vars(Collect \/ Show)

\* Held for good: a descendant writes to the terminal and its leader is gone,
\* or it has the shell's output and has left the group.
Held ==
    \/ worker = "pty" /\ leader = "gone" /\ Loud
    \/ worker = "killed" /\ Holds

\* What the translation admitted can be sent back to the provider: a turn
\* never starts with a conversation that encode_request refuses.
NextTurnEncodes == worker = "turn" => Encodable(history, trusted)

\* A command's leader never outlives the call that ran it, and a session that
\* closes in order leaves no run behind: not at :exit, not at the end of the
\* input, and not at the second interrupt.
NothingOutlives ==
    /\ TypeOK
    /\ leader = "up" => worker \in {"shell", "stopping", "pty"}
    /\ exit \in {0, 2, 130} => worker \notin Active

\* A cancelled run ends, whatever it was waiting for: a reply, the human, a
\* command; unless a descendant of the command holds it.
CancelEnds == cancelled ~> (worker \notin Active \/ Held)
=============================================================================
